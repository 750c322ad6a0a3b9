--------------------------- MODULE ResolverProofs ---------------------------
(***************************************************************************)
(* ResolverInv is inductive: for any number of connections, atoms and bags *)
(* every database that a connection can see puts each atom in at most one  *)
(* bag and its log says which.  Every commit continues the history that is *)
(* committed, so that Resolver implements Partition.                       *)
(***************************************************************************)
EXTENDS Resolver, FiniteSetTheorems, WellFoundedInduction, TLAPS

-----------------------------------------------------------------------------
(* The smallest member of a set of numbers, and counting atoms.            *)

\* Least() is defined on every nonempty set of numbers.
LEMMA LeastIsIn ==
    ASSUME NEW S, S \subseteq Nat, S # {}
    PROVE  Least(S) \in S /\ \A y \in S : Least(S) <= y
<1>1. \E x \in S : \A y \in S : ~(<<y, x>> \in OpToRel(<, Nat))
  BY NatLessThanWellFounded, WFMin
<1>2. PICK x \in S : \A y \in S : ~(<<y, x>> \in OpToRel(<, Nat))
  BY <1>1
<1>3. \A y \in S : x <= y
  <2> SUFFICES ASSUME NEW y \in S, ~(x <= y) PROVE FALSE
    OBVIOUS
  <2>1. y < x
    OBVIOUS
  <2>2. <<y, x>> \in OpToRel(<, Nat)
    BY <2>1 DEF OpToRel
  <2>3. QED
    BY <1>2, <2>2
<1>4. QED
  BY <1>3 DEF Least

\* Sets of atoms are finite, so their sizes are numbers.
LEMMA AtomSetsFinite ==
    ASSUME NEW S \in SUBSET AtomIds
    PROVE  IsFiniteSet(S) /\ Cardinality(S) \in Nat
<1>1. IsFiniteSet(AtomIds)
  BY MatchingAssumption, FS_Interval DEF AtomIds
<1>2. IsFiniteSet(S)
  BY <1>1, FS_Subset
<1>3. QED
  BY <1>2, FS_CardinalityType

\* The positions of two sequences in their concatenation.
LEMMA Concatenated ==
    ASSUME NEW S, NEW s \in Seq(S), NEW r \in Seq(S)
    PROVE  /\ s \o r \in Seq(S) /\ Len(s) \in Nat /\ Len(r) \in Nat
           /\ Len(s \o r) = Len(s) + Len(r)
           /\ DOMAIN s = 1..Len(s) /\ DOMAIN r = 1..Len(r)
           /\ \A i \in 1..Len(s) : (s \o r)[i] = s[i]
           /\ \A i \in 1..Len(r) : (s \o r)[Len(s) + i] = r[i]
  OBVIOUS

\* The positions of a sequence with one more element.
LEMMA Appended ==
    ASSUME NEW S, NEW s \in Seq(S), NEW x \in S
    PROVE  /\ Append(s, x) \in Seq(S)
           /\ Len(Append(s, x)) = Len(s) + 1 /\ Append(s, x)[Len(s) + 1] = x
           /\ \A i \in 1..Len(s) : Append(s, x)[i] = s[i]
  OBVIOUS

\* A row of bags with another count, and without its score.
LEMMA BagRowWith ==
    ASSUME NEW r \in BagRow, NEW c \in Nat
    PROVE  /\ [r EXCEPT !.count = c] \in BagRow
           /\ [r EXCEPT !.count = c].type = r.type /\ [r EXCEPT !.count = c].count = c
           /\ [r EXCEPT !.count = c, !.score = None] \in BagRow
           /\ [r EXCEPT !.count = c, !.score = None].type = r.type
           /\ [r EXCEPT !.count = c, !.score = None].count = c
<1>1. [r EXCEPT !.count = c] \in BagRow
  BY DEF BagRow
<1>2. [r EXCEPT !.count = c].type = r.type /\ [r EXCEPT !.count = c].count = c
  BY DEF BagRow
<1>3. [r EXCEPT !.count = c, !.score = None] \in BagRow
  BY DEF BagRow
<1>4. [r EXCEPT !.count = c, !.score = None].type = r.type
  BY DEF BagRow
<1>5. [r EXCEPT !.count = c, !.score = None].count = c
  BY DEF BagRow
<1>6. QED
  BY <1>1, <1>2, <1>3, <1>4, <1>5

\* The fields of an event.
LEMMA EventFields ==
    ASSUME NEW k, NEW b, NEW A
    PROVE  Event(k, b, A).kind = k /\ Event(k, b, A).bag = b /\ Event(k, b, A).atoms = A
  BY DEF Event

-----------------------------------------------------------------------------
(* Union-find: what the recursive functions of Matching compute.           *)

\* A parent is never larger than its child.
Trees(S) == {f \in [S -> S] : \A x \in S : f[x] <= x}

\* The recursion of find() defines a function on every forest.
LEMMA RootsExist ==
    ASSUME NEW S \in SUBSET AtomIds, NEW f \in Trees(S)
    PROVE  \E r \in [S -> S] : \A x \in S : r[x] = IF f[x] = x THEN x ELSE r[f[x]]
<1> DEFINE Upto(m) == S \cap (0..m)
           Rooted(r, m) == \A x \in Upto(m) : r[x] = IF f[x] = x THEN x ELSE r[f[x]]
           Exist(m) == \E r \in [Upto(m) -> S] : Rooted(r, m)
           Bad == {m \in 0..MaxAtoms : ~Exist(m)}
<1>1. MaxAtoms \in Nat /\ S \subseteq Nat /\ \A x \in S : 1 <= x /\ x <= MaxAtoms
  BY MatchingAssumption DEF AtomIds
<1>2. \A x \in S : f[x] \in S /\ f[x] <= x
  BY DEF Trees
<1>3. Exist(0)
  <2>1. Upto(0) = {}
    BY <1>1
  <2>2. [x \in {} |-> x] \in [Upto(0) -> S] /\ Rooted([x \in {} |-> x], 0)
    BY <2>1
  <2>3. QED
    BY <2>2
<1>4. ASSUME NEW m \in 1..MaxAtoms, Exist(m - 1) PROVE Exist(m)
  <2>1. PICK r \in [Upto(m - 1) -> S] : Rooted(r, m - 1)
    BY <1>4
  <2>2. /\ Upto(m - 1) \subseteq Upto(m) /\ m \notin Upto(m - 1)
        /\ \A x \in Upto(m) : x \in Upto(m - 1) \/ x = m
        /\ \A x \in Upto(m - 1) : f[x] \in Upto(m - 1)
        /\ m \in S => m \in Upto(m) /\ (f[m] = m \/ f[m] \in Upto(m - 1))
    <3>1. m \in Nat
      BY <1>1
    <3>2. \A x \in S : x \in Nat /\ f[x] \in Nat /\ f[x] \in S /\ f[x] <= x
      BY <1>1, <1>2
    <3>3. Upto(m - 1) \subseteq Upto(m) /\ m \notin Upto(m - 1)
      BY <3>1
    <3>4. \A x \in Upto(m) : x \in Upto(m - 1) \/ x = m
      BY <3>1
    <3>5. \A x \in Upto(m - 1) : f[x] \in Upto(m - 1)
      BY <3>1, <3>2
    <3>6. m \in S => m \in Upto(m) /\ (f[m] = m \/ f[m] \in Upto(m - 1))
      BY <3>1, <3>2
    <3>7. QED
      BY <3>3, <3>4, <3>5, <3>6
  <2> DEFINE h == [x \in Upto(m) |-> IF x \in Upto(m - 1) THEN r[x]
                                     ELSE IF f[x] = x THEN x ELSE r[f[x]]]
  <2>3. \A x \in Upto(m) : x \in S
    OBVIOUS
  <2>4. \A x \in Upto(m - 1) : r[x] = IF f[x] = x THEN x ELSE r[f[x]]
    BY <2>1
  <2> HIDE DEF Upto
  <2>5. h \in [Upto(m) -> S]
    BY <2>2, <2>3
  <2>6. ASSUME NEW x \in Upto(m) PROVE h[x] = IF f[x] = x THEN x ELSE h[f[x]]
    <3>1. CASE x \in Upto(m - 1)
      <4>1. f[x] \in Upto(m - 1) /\ f[x] \in Upto(m)
        BY <3>1, <2>2
      <4>2. h[x] = r[x] /\ h[f[x]] = r[f[x]]
        BY <3>1, <4>1
      <4>3. QED
        BY <3>1, <4>2, <2>4
    <3>2. CASE x \notin Upto(m - 1)
      <4>1. x = m /\ m \in S
        BY <3>2, <2>2, <2>3
      <4>2. h[x] = IF f[x] = x THEN x ELSE r[f[x]]
        BY <3>2
      <4>3. CASE f[x] = x
        BY <4>2, <4>3
      <4>4. CASE f[x] # x
        <5>1. f[x] \in Upto(m - 1) /\ f[x] \in Upto(m)
          BY <4>1, <4>4, <2>2
        <5>2. h[f[x]] = r[f[x]]
          BY <5>1
        <5>3. QED
          BY <4>2, <4>4, <5>2
      <4>5. QED
        BY <4>3, <4>4
    <3>3. QED
      BY <3>1, <3>2
  <2>7. Rooted(h, m)
    BY <2>6
  <2> HIDE DEF h
  <2>8. QED
    BY <2>5, <2>7
<1> HIDE DEF Exist
<1>5. Bad = {}
  <2> SUFFICES ASSUME Bad # {} PROVE FALSE
    OBVIOUS
  <2>1. Bad \subseteq Nat
    BY <1>1
  <2>2. Least(Bad) \in Bad /\ \A m \in Bad : Least(Bad) <= m
    BY <2>1, LeastIsIn
  <2> DEFINE k == Least(Bad)
  <2> HIDE DEF k
  <2>3. k \in 0..MaxAtoms /\ ~Exist(k) /\ \A m \in Bad : k <= m
    BY <2>2 DEF k
  <2>4. k \in 1..MaxAtoms /\ k - 1 \in 0..MaxAtoms /\ k - 1 \notin Bad
    BY <1>1, <1>3, <2>3
  <2>5. QED
    BY <1>4, <2>3, <2>4
<1>6. Exist(MaxAtoms)
  BY <1>1, <1>5
<1>7. Upto(MaxAtoms) = S
  <2>1. S \subseteq 0..MaxAtoms
    BY MatchingAssumption DEF AtomIds
  <2>2. QED
    BY <2>1
<1>8. QED
  BY <1>6, <1>7 DEF Exist

\* find() satisfies its recursion, and ends at a root.
LEMMA FindIs ==
    ASSUME NEW S \in SUBSET AtomIds, NEW f \in Trees(S)
    PROVE  \A x \in S : /\ Find(f)[x] = IF f[x] = x THEN x ELSE Find(f)[f[x]]
                        /\ Find(f)[x] \in S /\ f[Find(f)[x]] = Find(f)[x]
<1> DEFINE Recursion(r) == r = [x \in S |-> IF f[x] = x THEN x ELSE r[f[x]]]
           root == Find(f)
<1>1. S \subseteq Nat /\ DOMAIN f = S /\ \A x \in S : f[x] \in S /\ f[x] <= x
  BY DEF Trees, AtomIds
<1>2. PICK r \in [S -> S] : \A x \in S : r[x] = IF f[x] = x THEN x ELSE r[f[x]]
  BY RootsExist
<1>3. Recursion(r)
  BY <1>2
<1>4. root = CHOOSE g : Recursion(g)
  BY <1>1 DEF Find
<1>5. Recursion(root)
  <2> HIDE DEF Recursion, root
  <2>1. QED
    BY <1>3, <1>4
<1>6. \A x \in S : root[x] = IF f[x] = x THEN x ELSE root[f[x]]
  <2> HIDE DEF root
  <2>1. QED
    BY <1>5
<1> DEFINE Bad == {x \in S : ~(root[x] \in S /\ f[root[x]] = root[x])}
<1> HIDE DEF root
<1>7. Bad = {}
  <2> SUFFICES ASSUME Bad # {} PROVE FALSE
    OBVIOUS
  <2>1. Bad \subseteq Nat
    BY <1>1
  <2>2. PICK x \in Bad : \A y \in Bad : x <= y
    BY <2>1, LeastIsIn
  <2>3. x \in S /\ x \in Nat /\ f[x] \in Nat
    BY <1>1
  <2>4. f[x] # x
    BY <1>6, <2>2
  <2>5. f[x] < x
    BY <1>1, <2>3, <2>4
  <2>6. f[x] \notin Bad
    BY <2>2, <2>3, <2>5
  <2>7. QED
    BY <1>1, <1>6, <2>2, <2>4, <2>6
<1>8. QED
  BY <1>6, <1>7 DEF root

\* Nothing else satisfies it.
LEMMA FindIsOnly ==
    ASSUME NEW S \in SUBSET AtomIds, NEW f \in Trees(S), NEW g,
           \A x \in S : g[x] = IF f[x] = x THEN x ELSE g[f[x]]
    PROVE  \A x \in S : Find(f)[x] = g[x]
<1> DEFINE Bad == {x \in S : Find(f)[x] # g[x]}
<1> SUFFICES ASSUME Bad # {} PROVE FALSE
  OBVIOUS
<1>0. S \subseteq Nat /\ \A x \in S : f[x] \in S /\ f[x] <= x
  BY DEF AtomIds, Trees
<1>1. Bad \subseteq S /\ Bad \subseteq Nat
  BY <1>0
<1>2. PICK x \in Bad : \A y \in Bad : x <= y
  BY <1>1, LeastIsIn
<1>3. x \in S /\ x \in Nat /\ f[x] \in Nat /\ f[x] \in S /\ f[x] <= x
  BY <1>0
<1>4. f[x] # x
  BY <1>2, <1>3, FindIs
<1>5. f[x] \notin Bad
  BY <1>2, <1>3, <1>4
<1>6. QED
  BY <1>2, <1>3, <1>4, <1>5, FindIs

\* An edge joins the trees of its ends under the smallest of their roots.
LEMMA UnionIs ==
    ASSUME NEW S \in SUBSET AtomIds, NEW f \in Trees(S), NEW p \in SUBSET S, p # {}
    PROVE  LET R == {Find(f)[x] : x \in p}
           IN  /\ Union(f, p) \in Trees(S)
               /\ \A x \in S : Find(Union(f, p))[x] =
                                IF Find(f)[x] \in R THEN Least(R) ELSE Find(f)[x]
<1> DEFINE F == Find(f)
           R == {F[x] : x \in p}
           h == Union(f, p)
           g == [x \in S |-> IF F[x] \in R THEN Least(R) ELSE F[x]]
<1>1. S \subseteq Nat /\ DOMAIN f = S /\ \A x \in S : f[x] \in S /\ f[x] <= x
  BY DEF Trees, AtomIds
<1>2. \A x \in S : /\ F[x] = IF f[x] = x THEN x ELSE F[f[x]]
                   /\ F[x] \in S /\ f[F[x]] = F[x]
  BY FindIs
<1>3. R \subseteq S /\ R # {} /\ \A x \in R : f[x] = x
  BY <1>2
<1>4. h = [x \in S |-> IF x \in R THEN Least(R) ELSE f[x]]
  BY <1>1 DEF Union
<1> HIDE DEF F, R, h
<1>5. Least(R) \in R /\ \A x \in R : Least(R) <= x
  BY <1>1, <1>3, LeastIsIn
<1> DEFINE l == Least(R)
<1>6. \A x \in S : h[x] \in S /\ h[x] <= x
  BY <1>1, <1>3, <1>4, <1>5
<1>7. h \in Trees(S)
  BY <1>4, <1>6 DEF Trees
<1>8. \A x \in R : F[x] = x
  BY <1>2, <1>3
<1>9. ASSUME NEW x \in S PROVE g[x] = IF h[x] = x THEN x ELSE g[h[x]]
  <2>1. CASE x \in R
    <3>1. h[x] = l /\ g[x] = l /\ g[l] = l
      BY <2>1, <1>3, <1>4, <1>5, <1>8
    <3>2. QED
      BY <3>1
  <2>2. CASE x \notin R
    <3>1. h[x] = f[x] /\ f[x] \in S
      BY <2>2, <1>1, <1>4
    <3>2. CASE f[x] = x
      BY <2>2, <3>1, <3>2, <1>2
    <3>3. CASE f[x] # x
      <4>1. F[x] = F[f[x]]
        BY <3>3, <1>2
      <4>2. QED
        BY <3>1, <3>3, <4>1
    <3>4. QED
      BY <3>2, <3>3
  <2>3. QED
    BY <2>1, <2>2
<1>10. \A x \in S : Find(h)[x] = g[x]
  <2> HIDE DEF g
  <2>1. QED
    BY <1>7, <1>9, FindIsOnly
<1>11. QED
  BY <1>7, <1>10 DEF F, R, h

\* The forests after each of the edges exist, and the last one is the one.
Grown(a, edges) ==
    /\ a \in [0..Len(edges) -> Trees(Ends(edges))]
    /\ a[0] = [x \in Ends(edges) |-> x]
    /\ \A n \in 1..Len(edges) : a[n] = Union(a[n - 1], edges[n])
    /\ Forest(edges) = a[Len(edges)]

\* The edges of a matching: they have ends, which are atoms.
Edges(edges) == edges \in Seq((SUBSET AtomIds) \ {{}})

LEMMA ForestIs ==
    ASSUME NEW edges, Edges(edges)
    PROVE  \E a : Grown(a, edges)
<1> DEFINE S == Ends(edges)
           N == Len(edges)
           id == [x \in S |-> x]
           Steps(a, m) == a[0] = id /\ \A n \in 1..m : a[n] = Union(a[n - 1], edges[n])
           Exist(m) == \E a \in [0..m -> Trees(S)] : Steps(a, m)
           Bad == {m \in 0..N : ~Exist(m)}
<1>1. N \in Nat /\ DOMAIN edges = 1..N /\ \A n \in 1..N : edges[n] \in SUBSET S /\ edges[n] # {}
  BY DEF Edges, Ends
<1>2. S \in SUBSET AtomIds
  BY DEF Edges, Ends
<1>3. id \in Trees(S)
  BY <1>2 DEF Trees, AtomIds
<1> HIDE DEF S, N, id
<1>4. Exist(0)
  <2>1. [m \in 0..0 |-> id] \in [0..0 -> Trees(S)] /\ Steps([m \in 0..0 |-> id], 0)
    BY <1>3
  <2>2. QED
    BY <2>1
<1>5. ASSUME NEW m \in 1..N, Exist(m - 1) PROVE Exist(m)
  <2>1. PICK a \in [0..(m - 1) -> Trees(S)] : Steps(a, m - 1)
    BY <1>5
  <2> DEFINE next == Union(a[m - 1], edges[m])
             h == [n \in 0..m |-> IF n = m THEN next ELSE a[n]]
  <2>2. m \in Nat /\ m # 0 /\ m - 1 \in 0..(m - 1) /\ 0 \in 0..(m - 1)
    BY <1>1
  <2>3. next \in Trees(S)
    BY <1>1, <1>2, <2>1, <2>2, UnionIs
  <2>4. a[0] = id /\ \A n \in 1..(m - 1) : a[n] = Union(a[n - 1], edges[n])
    BY <2>1
  <2>5. \A n \in 0..m : n = m \/ n \in 0..(m - 1)
    BY <2>2
  <2>6. h \in [0..m -> Trees(S)]
    <3> HIDE DEF next
    <3>1. QED
      BY <2>1, <2>3, <2>5
  <2>7. h[0] = id
    BY <2>2, <2>4
  <2>8. ASSUME NEW n \in 1..m PROVE h[n] = Union(h[n - 1], edges[n])
    <3>1. n - 1 \in 0..m /\ n - 1 # m /\ n \in 0..m
      BY <2>2
    <3>2. h[n - 1] = a[n - 1]
      BY <3>1
    <3>3. CASE n = m
      BY <3>1, <3>2, <3>3
    <3>4. CASE n # m
      <4>1. n \in 1..(m - 1) /\ h[n] = a[n]
        BY <2>2, <3>1, <3>4
      <4>2. QED
        BY <2>4, <3>2, <4>1
    <3>5. QED
      BY <3>3, <3>4
  <2> HIDE DEF h
  <2>9. Steps(h, m)
    BY <2>7, <2>8
  <2>10. QED
    BY <2>6, <2>9
<1> HIDE DEF Exist
<1>6. Exist(N)
  <2> SUFFICES ASSUME ~Exist(N) PROVE FALSE
    OBVIOUS
  <2>1. Bad \subseteq Nat /\ Bad # {}
    BY <1>1
  <2> HIDE DEF Bad
  <2>2. PICK k \in Bad : \A m \in Bad : k <= m
    BY <2>1, LeastIsIn
  <2>3. k \in 0..N /\ ~Exist(k)
    BY <2>2 DEF Bad
  <2>4. k \in 1..N /\ k - 1 \in 0..N /\ k - 1 \notin Bad
    BY <1>1, <1>4, <2>2, <2>3
  <2>5. QED
    BY <1>5, <2>3, <2>4 DEF Bad
<1>7. PICK a \in [0..N -> Trees(S)] : Steps(a, N)
  BY <1>6 DEF Exist
<1> DEFINE Recursion(b) ==
        b = [n \in 0..N |-> IF n = 0 THEN id ELSE Union(b[n - 1], edges[n])]
           after == CHOOSE b : Recursion(b)
<1>8. Recursion(a)
  <2>1. a = [n \in 0..N |-> a[n]]
    BY <1>7
  <2>2. \A n \in 0..N : a[n] = IF n = 0 THEN id ELSE Union(a[n - 1], edges[n])
    <3>1. \A n \in 0..N : n = 0 \/ n \in 1..N
      BY <1>1
    <3>2. QED
      BY <1>7, <3>1
  <2>3. QED
    BY <2>1, <2>2
<1>9. Recursion(after)
  <2> HIDE DEF Recursion
  <2>1. QED
    BY <1>8
<1>10. Forest(edges) = after[N]
  BY DEF Forest, S, N, id
<1> HIDE DEF after
<1>11. after[0] = id /\ \A n \in 1..N : after[n] = Union(after[n - 1], edges[n])
  <2>1. 0 \in 0..N /\ \A n \in 1..N : n \in 0..N /\ n # 0
    BY <1>1
  <2>2. QED
    BY <1>9, <2>1
<1> DEFINE Off == {n \in 0..N : after[n] # a[n]}
<1>12. Off = {}
  <2> SUFFICES ASSUME Off # {} PROVE FALSE
    OBVIOUS
  <2>1. Off \subseteq Nat
    BY <1>1
  <2> HIDE DEF Off
  <2>2. PICK k \in Off : \A m \in Off : k <= m
    BY <2>1, LeastIsIn
  <2>3. k \in 0..N /\ after[k] # a[k]
    BY <2>2 DEF Off
  <2>4. k # 0
    BY <1>7, <1>11, <2>3
  <2>5. k \in 1..N /\ k - 1 \in 0..N /\ k - 1 \notin Off
    BY <1>1, <2>2, <2>3, <2>4
  <2>6. after[k - 1] = a[k - 1]
    BY <2>5 DEF Off
  <2>7. QED
    BY <1>7, <1>11, <2>3, <2>5, <2>6
<1>13. after[N] = a[N]
  BY <1>1, <1>12
<1>14. Grown(a, edges)
  BY <1>7, <1>10, <1>13 DEF Grown, S, N, id
<1>15. QED
  BY <1>14

\* C is joined to nothing outside by the first n edges.
Closed(C, edges, n) == \A i \in 1..n : edges[i] \cap C # {} => edges[i] \subseteq C

\* Two ends have one root exactly if the first n edges connect them.
Connects(f, edges, n) ==
    /\ \A i \in 1..n : \A x, y \in edges[i] : Find(f)[x] = Find(f)[y]
    /\ \A C \in SUBSET Ends(edges) : Closed(C, edges, n) =>
         \A x \in C, y \in Ends(edges) : Find(f)[x] = Find(f)[y] => y \in C

LEMMA UnionConnects ==
    ASSUME NEW edges, Edges(edges), NEW n \in 1..Len(edges), NEW f \in Trees(Ends(edges)),
           Connects(f, edges, n - 1)
    PROVE  Connects(Union(f, edges[n]), edges, n)
<1> DEFINE S == Ends(edges)
           F == Find(f)
           p == edges[n]
           h == Union(f, p)
           H == Find(h)
           R == {F[x] : x \in p}
           l == Least(R)
<1>1. /\ S \in SUBSET AtomIds /\ n \in Nat
      /\ \A i \in 1..Len(edges) : edges[i] \in SUBSET S /\ edges[i] # {}
  BY DEF Edges, Ends
<1>2. \A x \in S : F[x] \in S
  BY <1>1, FindIs
<1>3. \A x \in S : H[x] = IF F[x] \in R THEN l ELSE F[x]
  <2>1. p \in SUBSET S /\ p # {}
    BY <1>1
  <2>2. \A q \in SUBSET S : q # {} =>
            \A x \in S : Find(Union(f, q))[x] =
                IF F[x] \in {F[u] : u \in q} THEN Least({F[u] : u \in q}) ELSE F[x]
    <3> HIDE DEF S
    <3>1. QED
      BY <1>1, UnionIs DEF S
  <2>3. QED
    BY <2>1, <2>2
<1>4. l \in R
  <2>1. R \subseteq Nat /\ R # {}
    BY <1>1, <1>2 DEF AtomIds
  <2>2. QED
    BY <2>1, LeastIsIn
<1>5. \A i \in 1..n : i \in 1..Len(edges) /\ (i \in 1..(n - 1) \/ i = n)
  BY DEF Edges
<1>6. \A i \in 1..(n - 1) : i \in 1..n
  BY <1>1
<1>7. /\ \A i \in 1..(n - 1) : \A x, y \in edges[i] : F[x] = F[y]
      /\ \A C \in SUBSET S : Closed(C, edges, n - 1) =>
           \A x \in C, y \in S : F[x] = F[y] => y \in C
  BY DEF Connects
<1>8. \A x \in S : F[x] \in R <=> \E u \in p : F[x] = F[u]
  OBVIOUS
<1>9. \A x \in p : F[x] \in R
  OBVIOUS
<1>10. n \in 1..n /\ p \in SUBSET S
  BY <1>1
<1> HIDE DEF S, F, h, H, R, l
<1>11. ASSUME NEW i \in 1..n, NEW x \in edges[i], NEW y \in edges[i] PROVE H[x] = H[y]
  <2>1. x \in S /\ y \in S
    BY <1>1, <1>5
  <2>2. F[x] = F[y] \/ (F[x] \in R /\ F[y] \in R)
    BY <1>5, <1>7, <1>9
  <2>3. QED
    BY <1>3, <2>1, <2>2
<1>12. ASSUME NEW C \in SUBSET S, Closed(C, edges, n), NEW x \in C, NEW y \in S, H[x] = H[y]
       PROVE  y \in C
  <2>1. Closed(C, edges, n - 1)
    BY <1>6, <1>12 DEF Closed
  <2>2. \A u \in C, v \in S : F[u] = F[v] => v \in C
    BY <1>7, <2>1
  <2>3. p \cap C # {} => p \subseteq C
    BY <1>10, <1>12 DEF Closed
  <2>4. CASE F[x] \in R /\ F[y] \in R
    <3>1. PICK u \in p : F[x] = F[u]
      BY <2>4, <1>8
    <3>2. PICK v \in p : F[y] = F[v]
      BY <2>4, <1>8
    <3>3. u \in C
      BY <3>1, <2>2, <1>10
    <3>4. v \in C
      BY <3>3, <2>3
    <3>5. QED
      BY <3>2, <3>4, <2>2
  <2>5. CASE ~(F[x] \in R /\ F[y] \in R)
    <3>1. F[x] = F[y]
      BY <2>5, <1>3, <1>4, <1>12
    <3>2. QED
      BY <3>1, <2>2
  <2>6. QED
    BY <2>4, <2>5
<1>13. QED
  BY <1>11, <1>12 DEF Connects, S, F, h, H

\* The last forest connects what the edges connect, in whatever order they come.
LEMMA ForestConnects ==
    ASSUME NEW edges, Edges(edges)
    PROVE  Connects(Forest(edges), edges, Len(edges)) /\ Forest(edges) \in Trees(Ends(edges))
<1>1. PICK a : Grown(a, edges)
  BY ForestIs
<1> DEFINE N == Len(edges)
           S == Ends(edges)
           Bad == {n \in 0..N : ~Connects(a[n], edges, n)}
<1>2. /\ a \in [0..N -> Trees(S)] /\ a[0] = [x \in S |-> x]
      /\ \A n \in 1..N : a[n] = Union(a[n - 1], edges[n])
      /\ Forest(edges) = a[N]
  BY <1>1 DEF Grown
<1>3. N \in Nat /\ S \in SUBSET AtomIds
  BY DEF Edges, Ends
<1> HIDE DEF N, S
<1>4. Connects(a[0], edges, 0)
  <2>1. a[0] \in Trees(S) /\ \A x \in S : a[0][x] = x
    BY <1>2, <1>3
  <2>2. \A x \in S : Find(a[0])[x] = x
    BY <1>3, <2>1, FindIs
  <2>3. QED
    BY <2>2 DEF Connects, S
<1>5. ASSUME NEW n \in 1..N, Connects(a[n - 1], edges, n - 1) PROVE Connects(a[n], edges, n)
  <2>1. a[n - 1] \in Trees(S) /\ a[n] = Union(a[n - 1], edges[n])
    BY <1>2, <1>3
  <2>2. QED
    BY <1>5, <2>1, UnionConnects DEF N, S
<1>6. Bad = {}
  <2> SUFFICES ASSUME Bad # {} PROVE FALSE
    OBVIOUS
  <2>1. Bad \subseteq Nat
    BY <1>3
  <2> HIDE DEF Bad
  <2>2. PICK k \in Bad : \A m \in Bad : k <= m
    BY <2>1, LeastIsIn
  <2>3. k \in 0..N /\ ~Connects(a[k], edges, k)
    BY <2>2 DEF Bad
  <2>4. k # 0
    BY <1>4, <2>3
  <2>5. k \in 1..N /\ k - 1 \in 0..N /\ k - 1 \notin Bad
    BY <1>3, <2>2, <2>3, <2>4
  <2>6. QED
    BY <1>5, <2>3, <2>5 DEF Bad
<1>7. QED
  BY <1>2, <1>3, <1>6 DEF N, S

\* The edges in any order: each comes once.
LEMMA EdgesListed ==
    ASSUME NEW E \in SUBSET ((SUBSET AtomIds) \ {{}}), NEW order \in SetToSeqs(E)
    PROVE  Edges(order) /\ {order[i] : i \in 1..Len(order)} = E /\ Ends(order) = UNION E
<1> DEFINE D == 1..Cardinality(E)
<1>1. IsFiniteSet(E) /\ Cardinality(E) \in Nat
  <2>1. IsFiniteSet(AtomIds)
    BY MatchingAssumption, FS_Interval DEF AtomIds
  <2>2. IsFiniteSet(SUBSET AtomIds)
    BY <2>1, FS_SUBSET
  <2>3. IsFiniteSet(E)
    BY <2>2, FS_Subset
  <2>4. QED
    BY <2>3, FS_CardinalityType
<1>2. order \in [D -> E] /\ \A i, j \in D : i # j => order[i] # order[j]
  BY DEF SetToSeqs
<1>3. order \in Injection(D, E)
  BY <1>2 DEF Injection, IsInjective
<1>4. Cardinality(D) = Cardinality(E)
  BY <1>1, FS_Interval
<1>5. order \in Surjection(D, E)
  BY <1>1, <1>3, <1>4, FS_Injection
<1>6. \A p \in E : \E i \in D : order[i] = p
  BY <1>5 DEF Surjection
<1>7. Len(order) = Cardinality(E) /\ DOMAIN order = D /\ order \in Seq(E)
  BY <1>1, <1>2
<1>8. Edges(order)
  BY <1>7 DEF Edges
<1>9. QED
  BY <1>2, <1>6, <1>7, <1>8 DEF Ends

\* The clusters are the components, whatever the order of the edges.
THEOREM ClustersAreComponents ==
    ASSUME NEW E \in SUBSET ((SUBSET AtomIds) \ {{}}), NEW order \in SetToSeqs(E)
    PROVE  \A A \in Cluster(order) : A # {} /\ A \subseteq UNION E /\ Component(A, E)
<1> DEFINE S == Ends(order)
           F == Find(Forest(order))
           N == Len(order)
<1>1. Edges(order) /\ {order[i] : i \in 1..N} = E /\ S = UNION E
  BY EdgesListed
<1>2. /\ \A i \in 1..N : \A x, y \in order[i] : F[x] = F[y]
      /\ \A C \in SUBSET S : Closed(C, order, N) => \A x \in C, y \in S : F[x] = F[y] => y \in C
  BY <1>1, ForestConnects DEF Connects
<1> SUFFICES ASSUME NEW A \in Cluster(order)
             PROVE  A # {} /\ A \subseteq UNION E /\ Component(A, E)
  OBVIOUS
<1>3. PICK x \in S : A = {y \in S : F[y] = F[x]}
  BY DEF Cluster
<1> HIDE DEF S, F, N
<1>4. \A p \in E : p \subseteq S /\ \A u, v \in p : F[u] = F[v]
  BY <1>1, <1>2
<1>5. A # {} /\ A \subseteq UNION E
  BY <1>1, <1>3
<1>6. ASSUME NEW p \in E, p \cap A # {} PROVE p \subseteq A
  BY <1>3, <1>4, <1>6
<1>7. ASSUME NEW B \in (SUBSET A) \ {{}, A}
      PROVE  \E p \in E : p \cap B # {} /\ p \cap (A \ B) # {}
  <2> SUFFICES ASSUME \A p \in E : p \cap B = {} \/ p \cap (A \ B) = {} PROVE FALSE
    OBVIOUS
  <2>1. \A p \in E : p \cap B # {} => p \subseteq B
    BY <1>6
  <2>2. Closed(B, order, N)
    BY <1>1, <2>1 DEF Closed
  <2>3. PICK u \in B, v \in A : v \notin B
    OBVIOUS
  <2>4. F[u] = F[v] /\ v \in S /\ B \in SUBSET S
    BY <1>3
  <2>5. QED
    BY <1>2, <2>2, <2>3, <2>4
<1>8. QED
  BY <1>5, <1>6, <1>7 DEF Component

-----------------------------------------------------------------------------
(* A step from a sound database d to e that adds events to the log.        *)

News(d, e) == (Len(d.log) + 1)..Len(e.log)

Logged(d, e) ==
    /\ Len(d.log) <= Len(e.log)
    /\ \A m \in DOMAIN d.log : e.log[m] = d.log[m]
    /\ \A m \in News(d, e) : e.log[m].bag \in Bags(e) /\ e.log[m].atoms \subseteq AtomsIn(e)
    /\ Bags(d) \subseteq Bags(e)
    /\ AtomsIn(d) \subseteq AtomsIn(e)

\* The step leaves atom a where it is, and no new event names a place for it.
Stays(d, e, a) ==
    /\ \A b \in Bags(e) : a \in Members(e, b) <=> b \in Bags(d) /\ a \in Members(d, b)
    /\ \A m \in News(d, e) : Places(e.log[m]) => a \notin e.log[m].atoms

\* The step puts atom a where the one new event says that names a place for it.
Moves(d, e, a) ==
    \E m \in News(d, e) :
        /\ Places(e.log[m]) /\ a \in e.log[m].atoms
        /\ \A q \in News(d, e) : Places(e.log[q]) /\ a \in e.log[q].atoms => q = m
        /\ \A b \in Bags(e) : a \in Members(e, b) <=> b = e.log[m].bag

\* The positions of the log before and after.
LEMMA LogPositions ==
    ASSUME NEW d \in Database, NEW e \in Database, Logged(d, e)
    PROVE  /\ Len(d.log) \in Nat /\ Len(e.log) \in Nat
           /\ DOMAIN d.log = 1..Len(d.log) /\ DOMAIN e.log = 1..Len(e.log)
           /\ DOMAIN e.log = DOMAIN d.log \cup News(d, e)
           /\ DOMAIN d.log \cap News(d, e) = {}
           /\ \A m \in DOMAIN d.log, q \in News(d, e) : q \in (m + 1)..Len(e.log)
           /\ \A m \in News(d, e) : (m + 1)..Len(e.log) \subseteq News(d, e)
<1>1. /\ Len(d.log) \in Nat /\ Len(e.log) \in Nat
      /\ DOMAIN d.log = 1..Len(d.log) /\ DOMAIN e.log = 1..Len(e.log)
  BY DEF Database
<1>2. Len(d.log) <= Len(e.log)
  BY DEF Logged
<1>3. QED
  BY <1>1, <1>2 DEF News

\* The events name what exists, before and after.
LEMMA StepNames ==
    ASSUME NEW d \in Database, NEW e \in Database, NamedByLog(d), Logged(d, e)
    PROVE  NamedByLog(e)
<1> SUFFICES ASSUME NEW m \in DOMAIN e.log
             PROVE  e.log[m].bag \in Bags(e) /\ e.log[m].atoms \subseteq AtomsIn(e)
  BY DEF NamedByLog
<1>1. CASE m \in DOMAIN d.log
  BY <1>1 DEF NamedByLog, Logged
<1>2. CASE m \in News(d, e)
  BY <1>2 DEF Logged
<1>3. QED
  BY <1>1, <1>2, LogPositions

\* An atom that stays is still placed by the same event, one that moves by the new one.
LEMMA StepPlaces ==
    ASSUME NEW d \in Database, NEW e \in Database, NamedByLog(d), PlacedByLog(d),
           Logged(d, e), \A a \in AtomsIn(e) : Stays(d, e, a) \/ Moves(d, e, a)
    PROVE  PlacedByLog(e)
<1> DEFINE PlacedAt(f, m, a, b) ==
        /\ Places(f.log[m]) /\ f.log[m].bag = b /\ a \in f.log[m].atoms
        /\ \A q \in (m + 1)..Len(f.log) : Places(f.log[q]) => a \notin f.log[q].atoms
<1> SUFFICES ASSUME NEW a \in AtomsIn(e), NEW b \in Bags(e)
             PROVE  a \in Members(e, b) <=> \E m \in DOMAIN e.log : PlacedAt(e, m, a, b)
  BY DEF PlacedByLog
<1>1. CASE Stays(d, e, a)
  <2>1. ASSUME NEW m \in DOMAIN e.log, PlacedAt(e, m, a, b)
        PROVE  m \in DOMAIN d.log
    BY <2>1, <1>1, LogPositions DEF Stays
  <2>2. ASSUME NEW m \in DOMAIN d.log
        PROVE  PlacedAt(e, m, a, b) <=> PlacedAt(d, m, a, b)
    <3>1. e.log[m] = d.log[m]
      BY DEF Logged
    <3>2. \A q \in (m + 1)..Len(d.log) : q \in (m + 1)..Len(e.log) /\ e.log[q] = d.log[q]
      BY LogPositions DEF Logged
    <3>3. \A q \in (m + 1)..Len(e.log) : q \in (m + 1)..Len(d.log) \/ q \in News(d, e)
      BY LogPositions DEF News
    <3>4. QED
      BY <3>1, <3>2, <3>3, <1>1 DEF Stays
  <2>3. ASSUME NEW m \in DOMAIN d.log, PlacedAt(d, m, a, b)
        PROVE  b \in Bags(d) /\ a \in AtomsIn(d)
    BY <2>3 DEF NamedByLog
  <2>4. \A m \in DOMAIN d.log : m \in DOMAIN e.log
    BY LogPositions
  <2>5. CASE b \in Bags(d) /\ a \in AtomsIn(d)
    <3>1. a \in Members(d, b) <=> \E m \in DOMAIN d.log : PlacedAt(d, m, a, b)
      BY <2>5 DEF PlacedByLog
    <3> HIDE DEF PlacedAt
    <3>2. QED
      BY <3>1, <2>1, <2>2, <2>4, <2>5, <1>1 DEF Stays
  <2>6. CASE ~(b \in Bags(d) /\ a \in AtomsIn(d))
    <3>1. a \notin Members(e, b)
      BY <2>6, <1>1 DEF Stays, Members
    <3> HIDE DEF PlacedAt
    <3>2. QED
      BY <3>1, <2>1, <2>2, <2>3, <2>6
  <2>7. QED
    BY <2>5, <2>6
<1>2. CASE Moves(d, e, a)
  <2>1. PICK m \in News(d, e) :
            /\ Places(e.log[m]) /\ a \in e.log[m].atoms
            /\ \A q \in News(d, e) : Places(e.log[q]) /\ a \in e.log[q].atoms => q = m
            /\ \A c \in Bags(e) : a \in Members(e, c) <=> c = e.log[m].bag
    BY <1>2 DEF Moves
  <2>2. m \in DOMAIN e.log /\ m \in Nat
    BY LogPositions
  <2>3. \A q \in (m + 1)..Len(e.log) : q \in News(d, e) /\ q # m
    BY <2>2, LogPositions
  <2>4. PlacedAt(e, m, a, e.log[m].bag)
    BY <2>1, <2>3
  <2>5. ASSUME NEW q \in DOMAIN e.log, PlacedAt(e, q, a, b)
        PROVE  b = e.log[m].bag
    <3>1. CASE q \in DOMAIN d.log
      BY <3>1, <2>5, <2>1, LogPositions
    <3>2. CASE q \in News(d, e)
      BY <3>2, <2>5, <2>1
    <3>3. QED
      BY <3>1, <3>2, LogPositions
  <2> HIDE DEF PlacedAt
  <2>6. QED
    BY <2>1, <2>2, <2>4, <2>5
<1>3. QED
  BY <1>1, <1>2

\* What becomes of a bag: it is retired with an event, or stays as empty as it was.
Retires(d, e, b) ==
    /\ Members(e, b) = {}
    /\ \E m \in News(d, e) : e.log[m].kind = "merge_into" /\ e.log[m].bag = b

Lives(d, e, b) ==
    /\ IF b \in Bags(d) THEN Members(e, b) = {} <=> Members(d, b) = {} ELSE Members(e, b) # {}
    /\ \A m \in News(d, e) : ~(e.log[m].kind = "merge_into" /\ e.log[m].bag = b)

\* The bags without members are the retired ones, before and after.
LEMMA StepRetires ==
    ASSUME NEW d \in Database, NEW e \in Database, NamedByLog(d), RetiredByLog(d),
           Logged(d, e), \A b \in Bags(e) : Lives(d, e, b) \/ Retires(d, e, b)
    PROVE  RetiredByLog(e)
<1> SUFFICES ASSUME NEW b \in Bags(e)
             PROVE  Members(e, b) = {} <=>
                        \E m \in DOMAIN e.log :
                            e.log[m].kind = "merge_into" /\ e.log[m].bag = b
  BY DEF RetiredByLog
<1>1. CASE Retires(d, e, b)
  BY <1>1, LogPositions DEF Retires
<1>2. CASE Lives(d, e, b) /\ b \in Bags(d)
  <2>1. Members(e, b) = {} <=>
            \E m \in DOMAIN d.log : d.log[m].kind = "merge_into" /\ d.log[m].bag = b
    BY <1>2 DEF Lives, RetiredByLog
  <2>2. \A m \in DOMAIN d.log : m \in DOMAIN e.log /\ e.log[m] = d.log[m]
    BY LogPositions DEF Logged
  <2>3. QED
    BY <1>2, <2>1, <2>2, LogPositions DEF Lives
<1>3. CASE Lives(d, e, b) /\ b \notin Bags(d)
  <2>1. \A m \in DOMAIN d.log : e.log[m] = d.log[m] /\ d.log[m].bag # b
    BY <1>3 DEF NamedByLog, Logged
  <2>2. QED
    BY <1>3, <2>1, LogPositions DEF Lives
<1>4. QED
  BY <1>1, <1>2, <1>3

\* The step adds no candidates, no groups of resolve_scored() and no confidence.
Quiet(d, e) ==
    /\ e.cands = d.cands
    /\ \A m \in News(d, e) : e.log[m].kind # "resolve"
    /\ \A b \in Bags(e) :
         \/ e.bags[b].score = None
         \/ Members(e, b) = {}
         \/ /\ b \in Bags(d)
            /\ e.bags[b].score = d.bags[b].score /\ Members(e, b) = Members(d, b)

\* Such a step leaves a sound database sound.
LEMMA QuietSound ==
    ASSUME NEW d \in Database, Sound(d), NEW e \in Database, Consistent(e),
           Continues(d, e), Quiet(d, e)
    PROVE  Sound(e)
<1>1. /\ \A m \in DOMAIN d.log : m \in DOMAIN e.log /\ e.log[m] = d.log[m]
      /\ Resolved(d) \subseteq Resolved(e)
  BY DEF Continues
<1>2. \A m \in DOMAIN e.log : m \in DOMAIN d.log \/ m \in News(d, e)
  <2>1. DOMAIN d.log = 1..Len(d.log) /\ DOMAIN e.log = 1..Len(e.log) /\ Len(d.log) \in Nat
    BY DEF Database
  <2>2. QED
    BY <2>1 DEF News
<1>3. \A m \in DOMAIN e.log :
        e.log[m].kind = "resolve" => m \in DOMAIN d.log /\ e.log[m] = d.log[m]
  BY <1>1, <1>2 DEF Quiet
<1>4. Settled(d) /\ EarnedScores(d) /\ GroupsAreComponents(d) /\ e.cands = d.cands
  BY DEF Sound, Quiet
<1>5. Settled(e)
  BY <1>1, <1>3, <1>4 DEF Settled
<1>6. EarnedScores(e)
  <2> SUFFICES ASSUME NEW b \in Bags(e), e.bags[b].score # None, Members(e, b) # {}
               PROVE  /\ e.bags[b].score # {} /\ UNION e.bags[b].score = Members(e, b)
                      /\ \E n \in DOMAIN e.log :
                           /\ e.log[n].kind = "resolve" /\ e.log[n].bag = b
                           /\ e.log[n].atoms = Members(e, b)
                           /\ \A p \in e.bags[b].score : Score(p) >= e.log[n].thr
    BY DEF EarnedScores
  <2>1. /\ b \in Bags(d)
        /\ e.bags[b].score = d.bags[b].score /\ Members(e, b) = Members(d, b)
    BY DEF Quiet
  <2>2. /\ d.bags[b].score # {} /\ UNION d.bags[b].score = Members(d, b)
        /\ \E n \in DOMAIN d.log :
             /\ d.log[n].kind = "resolve" /\ d.log[n].bag = b
             /\ d.log[n].atoms = Members(d, b)
             /\ \A p \in d.bags[b].score : Score(p) >= d.log[n].thr
    BY <1>4, <2>1 DEF EarnedScores
  <2>3. QED
    BY <1>1, <2>1, <2>2
<1>7. GroupsAreComponents(e)
  BY <1>3, <1>4 DEF GroupsAreComponents
<1>8. QED
  BY <1>4, <1>5, <1>6, <1>7 DEF Sound

-----------------------------------------------------------------------------
(* create_bag(), and the two resolve() calls that call it.                 *)

\* The events of the new bags: all say which bag got which atoms, and each bag has one
\* "create" event.
NewBagEvents(d, n, sets, events) ==
    /\ \A m \in DOMAIN events :
         /\ events[m].kind \in {"create", "resolve"}
         /\ \E i \in 1..n : events[m].bag = Len(d.bags) + i /\ events[m].atoms = sets[i]
    /\ \A i \in 1..n : \E m \in DOMAIN events :
         /\ events[m].kind = "create"
         /\ events[m].bag = Len(d.bags) + i /\ events[m].atoms = sets[i]
         /\ \A q \in DOMAIN events :
                events[q].kind = "create" /\ events[q].bag = Len(d.bags) + i => q = m

NewBagSets(d, t, n, sets) ==
    /\ sets \in [1..n -> SUBSET unresolved_atoms(d, t)]
    /\ \A i \in 1..n : sets[i] # {}
    /\ \A i, j \in 1..n : i # j => sets[i] \cap sets[j] = {}

\* The rows of the new database, one by one.
BagsAdded(d, e, t, n, sets, score, events) ==
    /\ e.natoms = d.natoms /\ e.cands = d.cands /\ e.sealed = d.sealed
    /\ Len(e.bags) = Len(d.bags) + n
    /\ \A b \in Bags(d) : e.bags[b] = d.bags[b]
    /\ \A i \in 1..n : /\ e.bags[Len(d.bags) + i].type = t
                       /\ e.bags[Len(d.bags) + i].count = Cardinality(sets[i])
                       /\ e.bags[Len(d.bags) + i].score = score[i]
    /\ \A b, a : <<b, a>> \in e.member <=>
           <<b, a>> \in d.member \/ \E i \in 1..n : b = Len(d.bags) + i /\ a \in sets[i]
    /\ Len(e.log) = Len(d.log) + Len(events)
    /\ \A m \in DOMAIN d.log : e.log[m] = d.log[m]
    /\ \A m \in DOMAIN events : e.log[Len(d.log) + m] = events[m]

LEMMA WithBagsRows ==
    ASSUME NEW d \in Database, NEW t \in Types, NEW n \in Nat, NEW sets,
           NewBagSets(d, t, n, sets),
           NEW key \in [1..n -> Keys \cup {None}],
           NEW score \in [1..n -> (SUBSET SUBSET AtomIds) \cup {None}],
           NEW events \in Seq(EventRow), NEW e,
           e = WithBags(d, t, sets, key, score, events)
    PROVE  e \in Database /\ BagsAdded(d, e, t, n, sets, score, events)
<1> DEFINE new == [i \in DOMAIN sets |-> Bag(t, key[i], score[i], sets[i])]
           pairs == UNION {{<<Len(d.bags) + i, a>> : a \in sets[i]} : i \in DOMAIN sets}
<1>1. DOMAIN sets = 1..n /\ \A i \in 1..n : sets[i] \in SUBSET AtomsIn(d)
  BY DEF NewBagSets, unresolved_atoms, AtomsOfType
<1>2. AtomsIn(d) \subseteq AtomIds /\ d.bags \in Seq(BagRow) /\ d.log \in Seq(EventRow)
  BY MatchingAssumption DEF Database, AtomsIn, AtomIds
<1>3. new \in Seq(BagRow) /\ Len(new) = n
  <2>1. \A i \in 1..n : Cardinality(sets[i]) \in Nat
    BY <1>1, <1>2, AtomSetsFinite
  <2>2. \A i \in 1..n : Bag(t, key[i], score[i], sets[i]) \in BagRow
    BY <2>1 DEF Bag, BagRow
  <2>3. QED
    BY <2>2, <1>1
<1>4. pairs \subseteq Nat \X AtomIds
  <2>1. \A i \in 1..n : \A a \in sets[i] : <<Len(d.bags) + i, a>> \in Nat \X AtomIds
    BY <1>1, <1>2
  <2>2. QED
    BY <2>1, <1>1
<1>5. \A b, a : <<b, a>> \in pairs <=> \E i \in 1..n : b = Len(d.bags) + i /\ a \in sets[i]
  BY <1>1
<1>6. /\ e = [d EXCEPT !.bags = d.bags \o new, !.member = d.member \cup pairs,
                        !.log = d.log \o events]
  BY DEF WithBags
<1> HIDE DEF new, pairs
<1>7. /\ e.natoms = d.natoms /\ e.cands = d.cands /\ e.sealed = d.sealed
      /\ e.bags = d.bags \o new /\ e.member = d.member \cup pairs
      /\ e.log = d.log \o events
  BY <1>6 DEF Database
<1>8. e \in Database
  <2>1. d.bags \o new \in Seq(BagRow) /\ d.log \o events \in Seq(EventRow)
    BY <1>2, <1>3
  <2>2. d.member \cup pairs \in SUBSET (Nat \X AtomIds)
    BY <1>4 DEF Database
  <2>3. QED
    BY <1>6, <2>1, <2>2 DEF Database
<1>9. /\ Len(e.bags) = Len(d.bags) + n
      /\ \A b \in Bags(d) : e.bags[b] = d.bags[b]
      /\ \A i \in 1..n : e.bags[Len(d.bags) + i] = new[i]
  <2> DEFINE old == d.bags
  <2>1. old \in Seq(BagRow) /\ e.bags = old \o new /\ Bags(d) = DOMAIN old
    BY <1>2, <1>7 DEF Bags
  <2> HIDE DEF old
  <2>2. /\ Len(e.bags) = Len(old) + Len(new) /\ DOMAIN old = 1..Len(old)
        /\ \A b \in 1..Len(old) : e.bags[b] = old[b]
        /\ \A i \in 1..Len(new) : e.bags[Len(old) + i] = new[i]
    BY <2>1, <1>3, Concatenated
  <2>3. QED
    BY <2>1, <2>2, <1>3 DEF old
<1>10. \A i \in 1..n : /\ new[i].type = t /\ new[i].count = Cardinality(sets[i])
                        /\ new[i].score = score[i]
  BY <1>1 DEF new, Bag
<1>11. /\ Len(e.log) = Len(d.log) + Len(events)
       /\ \A m \in DOMAIN d.log : e.log[m] = d.log[m]
       /\ \A m \in DOMAIN events : e.log[Len(d.log) + m] = events[m]
  <2> DEFINE old == d.log
  <2>1. old \in Seq(EventRow) /\ e.log = old \o events
    BY <1>2, <1>7
  <2> HIDE DEF old
  <2>2. /\ Len(e.log) = Len(old) + Len(events)
        /\ \A m \in DOMAIN old : e.log[m] = old[m]
        /\ \A m \in DOMAIN events : e.log[Len(old) + m] = events[m]
    BY <2>1, Concatenated
  <2>3. QED
    BY <2>2 DEF old
<1>12. QED
  BY ZenonT(40), <1>5, <1>7, <1>8, <1>9, <1>10, <1>11 DEF BagsAdded

\* What is new in the database with the bags.
NewBagsIn(d, e, n, sets, score, events) ==
    /\ e.cands = d.cands
    /\ \A b \in Bags(e) : b \in Bags(d) \/ \E i \in 1..n : b = Len(d.bags) + i
    /\ \A b \in Bags(d) : e.bags[b] = d.bags[b] /\ Members(e, b) = Members(d, b)
    /\ \A i \in 1..n : /\ Len(d.bags) + i \in Bags(e)
                       /\ Members(e, Len(d.bags) + i) = sets[i]
                       /\ e.bags[Len(d.bags) + i].score = score[i]
    /\ \A m \in News(d, e) : \E j \in DOMAIN events : e.log[m] = events[j]
    /\ \A j \in DOMAIN events : \E m \in News(d, e) : e.log[m] = events[j]

\* New bags of unresolved atoms leave a consistent database that continues the old one.
LEMMA WithBagsConsistent ==
    ASSUME NEW d \in Database, Consistent(d), NEW t \in Types, NEW n \in Nat, NEW sets,
           NewBagSets(d, t, n, sets),
           NEW key \in [1..n -> Keys \cup {None}],
           NEW score \in [1..n -> (SUBSET SUBSET AtomIds) \cup {None}],
           NEW events \in Seq(EventRow), NewBagEvents(d, n, sets, events), NEW e,
           e = WithBags(d, t, sets, key, score, events)
    PROVE  /\ e \in Database /\ Consistent(e) /\ Continues(d, e)
           /\ NewBagsIn(d, e, n, sets, score, events)
<1> DEFINE k == Len(d.bags)
           l == Len(d.log)
<1>1. e \in Database /\ BagsAdded(d, e, t, n, sets, score, events)
  BY WithBagsRows
<1>2. /\ e \in Database
      /\ e.natoms = d.natoms /\ e.cands = d.cands /\ e.sealed = d.sealed
      /\ Len(e.bags) = k + n
      /\ \A b \in Bags(d) : e.bags[b] = d.bags[b]
      /\ \A i \in 1..n : e.bags[k + i].type = t /\ e.bags[k + i].count = Cardinality(sets[i])
      /\ \A b, a : <<b, a>> \in e.member <=>
             <<b, a>> \in d.member \/ \E i \in 1..n : b = k + i /\ a \in sets[i]
      /\ Len(e.log) = l + Len(events)
      /\ \A m \in DOMAIN d.log : e.log[m] = d.log[m]
      /\ \A m \in DOMAIN events : e.log[l + m] = events[m]
  BY <1>1 DEF BagsAdded
<1>3. k \in Nat /\ l \in Nat /\ Len(events) \in Nat /\ DOMAIN events = 1..Len(events)
  BY DEF Database
<1>4. /\ \A i \in 1..n : sets[i] \subseteq AtomsIn(d)
      /\ \A i \in 1..n : \A a \in sets[i] : Atom[a].type = t
      /\ \A i \in 1..n : \A a \in sets[i] : \A b \in Bags(d) : a \notin Members(d, b)
      /\ \A i \in 1..n : sets[i] # {}
      /\ \A i, j \in 1..n : i # j => sets[i] \cap sets[j] = {}
  BY DEF NewBagSets, unresolved_atoms, AtomsOfType
<1>5. AtomsIn(e) = AtomsIn(d)
  BY <1>2 DEF AtomsIn
<1>6. /\ \A i \in 1..n : k + i \in Bags(e) /\ k + i \notin Bags(d)
      /\ \A i, j \in 1..n : k + i = k + j => i = j
      /\ Bags(d) \subseteq Bags(e)
      /\ \A b \in Bags(e) : b \in Bags(d) \/ \E i \in 1..n : b = k + i
  <2>1. \A b \in Bags(e) : b \notin Bags(d) => b - k \in 1..n /\ b = k + (b - k)
    BY <1>2, <1>3 DEF Bags
  <2>2. \A b \in Bags(e) : b \in Bags(d) \/ \E i \in 1..n : b = k + i
    BY <2>1
  <2>3. Bags(d) = 1..k /\ Bags(e) = 1..(k + n)
    BY <1>2 DEF Bags
  <2> HIDE DEF k
  <2>4. QED
    BY <1>3, <2>2, <2>3
<1>7. \A m \in News(d, e) : \E j \in DOMAIN events : m = l + j /\ e.log[m] = events[j]
  <2>1. \A m \in News(d, e) : m - l \in DOMAIN events /\ m = l + (m - l)
    BY <1>2, <1>3 DEF News
  <2>2. QED
    BY SMTT(30), <1>2, <2>1
<1>8. \A j \in DOMAIN events : l + j \in News(d, e)
  BY SMTT(30), <1>2, <1>3 DEF News
<1>9. \A b \in Bags(d) : Members(e, b) = Members(d, b)
  <2>1. ASSUME NEW b \in Bags(d), NEW a PROVE <<b, a>> \in e.member <=> <<b, a>> \in d.member
    <3> HIDE DEF k
    <3>1. \A i \in 1..n : b # k + i
      BY <1>6
    <3>2. <<b, a>> \in e.member <=>
            <<b, a>> \in d.member \/ \E i \in 1..n : b = k + i /\ a \in sets[i]
      BY <1>2
    <3>3. QED
      BY <3>1, <3>2
  <2>2. QED
    BY <1>5, <2>1 DEF Members
<1>10. \A i \in 1..n : Members(e, k + i) = sets[i]
  <2>1. \A i \in 1..n : \A a : <<k + i, a>> \notin d.member
    BY <1>6 DEF Consistent, OneBagPerAtom
  <2>2. ASSUME NEW i \in 1..n, NEW a PROVE <<k + i, a>> \in e.member <=> a \in sets[i]
    BY SMTT(30), <1>2, <1>6, <2>1
  <2>3. QED
    BY <1>4, <1>5, <2>2 DEF Members
<1> HIDE DEF k, l
<1>11. \A m \in News(d, e) :
            /\ e.log[m].kind \in {"create", "resolve"}
            /\ \E i \in 1..n : e.log[m].bag = k + i /\ e.log[m].atoms = sets[i]
  <2> SUFFICES ASSUME NEW m \in News(d, e)
               PROVE  /\ e.log[m].kind \in {"create", "resolve"}
                      /\ \E i \in 1..n : e.log[m].bag = k + i /\ e.log[m].atoms = sets[i]
    OBVIOUS
  <2>1. PICK j \in DOMAIN events : e.log[m] = events[j]
    BY <1>7
  <2>2. QED
    BY <2>1 DEF NewBagEvents, k
<1>12. Logged(d, e)
  <2>1. Len(d.log) <= Len(e.log)
    BY <1>2, <1>3 DEF l
  <2>2. QED
    BY <1>2, <1>4, <1>5, <1>6, <1>11, <2>1 DEF Logged
<1>13. OneBagPerAtom(e)
  <2>1. ASSUME NEW p \in e.member PROVE p \in Bags(e) \X AtomsIn(e)
    <3>1. PICK b, a : p = <<b, a>>
      BY <1>2 DEF Database
    <3>2. CASE p \in d.member
      BY <3>2, <1>5, <1>6 DEF Consistent, OneBagPerAtom
    <3>3. CASE \E i \in 1..n : b = k + i /\ a \in sets[i]
      BY <3>1, <3>3, <1>4, <1>5, <1>6
    <3>4. QED
      BY <3>1, <3>2, <3>3, <1>2
  <2>2. ASSUME NEW b \in Bags(e), NEW c \in Bags(e), b # c
        PROVE  Members(e, b) \cap Members(e, c) = {}
    <3>1. CASE b \in Bags(d) /\ c \in Bags(d)
      BY <3>1, <2>2, <1>9 DEF Consistent, OneBagPerAtom
    <3>2. CASE b \in Bags(d) /\ c \notin Bags(d)
      BY <3>2, <1>4, <1>6, <1>9, <1>10
    <3>3. CASE b \notin Bags(d) /\ c \in Bags(d)
      BY <3>3, <1>4, <1>6, <1>9, <1>10
    <3>4. CASE b \notin Bags(d) /\ c \notin Bags(d)
      BY <3>4, <2>2, <1>4, <1>6, <1>10
    <3>5. QED
      BY <3>1, <3>2, <3>3, <3>4
  <2>3. ASSUME NEW b \in Bags(e)
        PROVE  /\ e.bags[b].count = Cardinality(Members(e, b))
               /\ \A a \in Members(e, b) : Atom[a].type = e.bags[b].type
    <3>1. CASE b \in Bags(d)
      BY <3>1, <1>2, <1>9 DEF Consistent, OneBagPerAtom
    <3>2. CASE b \notin Bags(d)
      BY <3>2, <1>2, <1>4, <1>6, <1>10
    <3>3. QED
      BY <3>1, <3>2
  <2>4. QED
    BY <2>1, <2>2, <2>3 DEF OneBagPerAtom
<1>14. PlacedByLog(e)
  <2> SUFFICES ASSUME NEW a \in AtomsIn(e) PROVE Stays(d, e, a) \/ Moves(d, e, a)
    BY <1>2, <1>12, StepPlaces DEF Consistent
  <2>1. CASE \E i \in 1..n : a \in sets[i]
    <3>1. PICK i \in 1..n : a \in sets[i]
      BY <2>1
    <3>2. PICK j \in DOMAIN events :
            /\ events[j].kind = "create" /\ events[j].bag = k + i /\ events[j].atoms = sets[i]
            /\ \A q \in DOMAIN events :
                  events[q].kind = "create" /\ events[q].bag = k + i => q = j
      BY DEF NewBagEvents, k
    <3>3. e.log[l + j] = events[j] /\ l + j \in News(d, e)
      BY <1>2, <1>8
    <3>4. ASSUME NEW q \in News(d, e), Places(e.log[q]), a \in e.log[q].atoms
          PROVE  q = l + j
      <4>1. PICK x \in DOMAIN events : q = l + x /\ e.log[q] = events[x]
        BY <1>7
      <4>2. PICK y \in 1..n : e.log[q].bag = k + y /\ e.log[q].atoms = sets[y]
        BY <1>11
      <4>3. y = i
        BY <3>1, <3>4, <4>2, <1>4
      <4>4. e.log[q].kind = "create"
        BY <3>4, <1>11 DEF Places
      <4>5. QED
        BY <3>2, <4>1, <4>2, <4>3, <4>4
    <3>5. ASSUME NEW b \in Bags(e) PROVE a \in Members(e, b) <=> b = k + i
      BY <3>1, <1>4, <1>6, <1>9, <1>10
    <3>6. QED
      BY <3>1, <3>2, <3>3, <3>4, <3>5 DEF Moves, Places
  <2>2. CASE \A i \in 1..n : a \notin sets[i]
    BY SMTT(30), <2>2, <1>6, <1>9, <1>10, <1>11 DEF Stays
  <2>3. QED
    BY <2>1, <2>2
<1>15. RetiredByLog(e)
  <2>1. \A b \in Bags(e) : Lives(d, e, b)
    BY SMTT(30), <1>4, <1>6, <1>9, <1>10, <1>11 DEF Lives
  <2>2. QED
    BY <1>2, <1>12, <2>1, StepRetires DEF Consistent
<1>16. NamedByLog(e)
  BY <1>2, <1>12, StepNames DEF Consistent
<1>17. Continues(d, e)
  <2>1. Resolved(d) \subseteq Resolved(e)
    BY <1>6, <1>9 DEF Resolved
  <2>2. d.natoms <= e.natoms
    BY <1>2 DEF Database
  <2>3. QED
    BY <1>2, <1>6, <1>12, <2>1, <2>2, LogPositions DEF Continues
<1>18. \A j \in DOMAIN events : \E m \in News(d, e) : e.log[m] = events[j]
  BY <1>2, <1>8
<1>19. \A i \in 1..n : e.bags[k + i].score = score[i]
  BY <1>1 DEF BagsAdded, k
<1>20. NewBagsIn(d, e, n, sets, score, events)
  BY <1>2, <1>6, <1>7, <1>9, <1>10, <1>18, <1>19 DEF NewBagsIn, k
<1>21. QED
  BY <1>2, <1>13, <1>14, <1>15, <1>16, <1>17, <1>20 DEF Consistent

\* New bags without a confidence leave a sound database.
LEMMA WithBagsSound ==
    ASSUME NEW d \in Database, Sound(d), NEW t \in Types, NEW n \in Nat, NEW sets,
           NewBagSets(d, t, n, sets),
           NEW key \in [1..n -> Keys \cup {None}],
           NEW score \in [1..n -> {None}],
           NEW events \in Seq(EventRow), NewBagEvents(d, n, sets, events),
           \A m \in DOMAIN events : events[m].kind = "create", NEW e,
           e = WithBags(d, t, sets, key, score, events)
    PROVE  e \in Database /\ Sound(e) /\ Continues(d, e)
<1>1. score \in [1..n -> (SUBSET SUBSET AtomIds) \cup {None}]
  OBVIOUS
<1>2. Consistent(d)
  BY DEF Sound
<1>3. /\ e \in Database /\ Consistent(e) /\ Continues(d, e)
      /\ NewBagsIn(d, e, n, sets, score, events)
  BY <1>1, <1>2, WithBagsConsistent
<1>4. \A i \in 1..n : score[i] = None
  OBVIOUS
<1>5. Quiet(d, e)
  <2>1. \A b \in Bags(e) :
          \/ b \in Bags(d) /\ e.bags[b] = d.bags[b] /\ Members(e, b) = Members(d, b)
          \/ e.bags[b].score = None
    BY ZenonT(40), <1>3, <1>4 DEF NewBagsIn
  <2>2. \A m \in News(d, e) : e.log[m].kind = "create"
    BY <1>3 DEF NewBagsIn
  <2>3. QED
    BY <1>3, <2>1, <2>2 DEF Quiet, NewBagsIn
<1>6. QED
  BY <1>3, <1>5, QuietSound

-----------------------------------------------------------------------------
(* merge_bags().                                                           *)

Mergeable(d, n, order) ==
    /\ order \in [1..n -> Bags(d)]
    /\ \A i, j \in 1..n : i # j => order[i] # order[j]
    /\ \A i \in 1..n : d.bags[order[i]].type = d.bags[order[1]].type
    /\ \A i \in 1..n : Members(d, order[i]) # {}

\* The rows after a merge: one bag has all the members, and the log says so first.
BagsMerged(d, e, n, order, all) ==
    /\ e.natoms = d.natoms /\ e.cands = d.cands /\ e.sealed = d.sealed
    /\ Len(e.bags) = Len(d.bags)
    /\ \A b \in Bags(d) :
         /\ e.bags[b].type = d.bags[b].type
         /\ e.bags[b].count = IF b = order[1] THEN Cardinality(all)
                              ELSE IF \E i \in 1..n : b = order[i] THEN 0
                              ELSE d.bags[b].count
         /\ e.bags[b].score = IF b = order[1] THEN None ELSE d.bags[b].score
    /\ \A b, a : <<b, a>> \in e.member <=>
         \/ <<b, a>> \in d.member /\ \A i \in 1..n : b # order[i]
         \/ b = order[1] /\ a \in all
    /\ Len(e.log) = Len(d.log) + n
    /\ \A m \in DOMAIN d.log : e.log[m] = d.log[m]
    /\ e.log[Len(d.log) + 1] = Event("merge", order[1], all)
    /\ \A i \in 2..n : e.log[Len(d.log) + i] = Event("merge_into", order[i], {})

LEMMA MergeRows ==
    ASSUME NEW d \in Database, NEW n \in Nat, n >= 2, NEW order, Mergeable(d, n, order),
           NEW all, all = UNION {Members(d, order[i]) : i \in 1..n},
           NEW e, e = MergeBags(d, order)
    PROVE  e \in Database /\ BagsMerged(d, e, n, order, all)
<1> DEFINE merged == {order[i] : i \in 1..n}
           rows == [b \in Bags(d) |->
                IF b = order[1]
                THEN [d.bags[b] EXCEPT !.count = Cardinality(all), !.score = None]
                ELSE IF b \in merged THEN [d.bags[b] EXCEPT !.count = 0] ELSE d.bags[b]]
           pairs == {p \in d.member : p[1] \notin merged} \cup {<<order[1], a>> : a \in all}
           first == <<Event("merge", order[1], all)>>
           rest == [i \in 1..(n - 1) |-> Event("merge_into", order[i + 1], {})]
<1>1. DOMAIN order = 1..n /\ Len(order) = n /\ \A i \in 1..n : order[i] \in Bags(d)
  BY DEF Mergeable
<1>2. /\ AtomsIn(d) \subseteq AtomIds /\ d.bags \in Seq(BagRow) /\ d.log \in Seq(EventRow)
      /\ Bags(d) = 1..Len(d.bags) /\ Len(d.bags) \in Nat
  BY MatchingAssumption DEF Database, AtomsIn, AtomIds, Bags
<1>3. all \in SUBSET AtomsIn(d) /\ all \in SUBSET AtomIds
  BY <1>1, <1>2 DEF Members
<1>4. rows \in Seq(BagRow) /\ Len(rows) = Len(d.bags)
  <2>1. Cardinality(all) \in Nat
    BY <1>3, AtomSetsFinite
  <2>2. ASSUME NEW b \in Bags(d) PROVE rows[b] \in BagRow
    <3>1. d.bags[b] \in BagRow
      BY <1>2
    <3>2. QED
      BY <2>1, <3>1, BagRowWith
  <2>3. DOMAIN rows = 1..Len(d.bags) /\ rows = [b \in 1..Len(d.bags) |-> rows[b]]
    BY <1>2
  <2> HIDE DEF rows
  <2>4. rows \in [1..Len(d.bags) -> BagRow]
    BY <1>2, <2>2, <2>3
  <2>5. QED
    BY <1>2, <2>4
<1>5. pairs \subseteq Nat \X AtomIds
  <2>1. \A a \in all : <<order[1], a>> \in Nat \X AtomIds
    BY <1>1, <1>2, <1>3
  <2>2. QED
    BY <2>1 DEF Database
<1>6. first \in Seq(EventRow) /\ rest \in Seq(EventRow) /\ Len(first) = 1 /\ Len(rest) = n - 1
  <2>1. Event("merge", order[1], all) \in EventRow
    BY <1>1, <1>2, <1>3 DEF Event, EventRow
  <2>2. \A i \in 1..(n - 1) : Event("merge_into", order[i + 1], {}) \in EventRow
    BY <1>1, <1>2 DEF Event, EventRow
  <2>3. QED
    BY <2>1, <2>2
<1>7. e = [d EXCEPT !.bags = rows, !.member = pairs, !.log = (d.log \o first) \o rest]
  <2>1. {order[i] : i \in DOMAIN order} = merged
    BY <1>1
  <2>2. UNION {Members(d, order[i]) : i \in DOMAIN order} = all
    BY <1>1
  <2>3. QED
    BY <1>1, <2>1, <2>2 DEF MergeBags, Rescored
<1>8. /\ e \in Database
      /\ e.natoms = d.natoms /\ e.cands = d.cands /\ e.sealed = d.sealed
      /\ e.bags = rows /\ e.member = pairs /\ e.log = (d.log \o first) \o rest
  <2> HIDE DEF rows, pairs, first, rest
  <2>1. (d.log \o first) \o rest \in Seq(EventRow)
    BY <1>2, <1>6
  <2>2. pairs \in SUBSET (Nat \X AtomIds)
    BY <1>5
  <2> DEFINE log == (d.log \o first) \o rest
  <2>3. e = [d EXCEPT !.bags = rows, !.member = pairs, !.log = log] /\ log \in Seq(EventRow)
    BY <1>7, <2>1
  <2> HIDE DEF log
  <2>4. /\ e \in Database
        /\ e.natoms = d.natoms /\ e.cands = d.cands /\ e.sealed = d.sealed
        /\ e.bags = rows /\ e.member = pairs /\ e.log = log
    BY <1>4, <2>2, <2>3 DEF Database
  <2>5. QED
    BY <2>4 DEF log
<1>9. first[1] = Event("merge", order[1], all)
  OBVIOUS
<1>10. \A b \in Bags(d) :
         /\ rows[b].type = d.bags[b].type
         /\ rows[b].count = IF b = order[1] THEN Cardinality(all)
                            ELSE IF \E i \in 1..n : b = order[i] THEN 0
                            ELSE d.bags[b].count
         /\ rows[b].score = IF b = order[1] THEN None ELSE d.bags[b].score
  <2> SUFFICES ASSUME NEW b \in Bags(d)
               PROVE  /\ rows[b].type = d.bags[b].type
                      /\ rows[b].count = IF b = order[1] THEN Cardinality(all)
                                         ELSE IF \E i \in 1..n : b = order[i] THEN 0
                                         ELSE d.bags[b].count
                      /\ rows[b].score = IF b = order[1] THEN None ELSE d.bags[b].score
    OBVIOUS
  <2>1. d.bags[b] \in BagRow /\ Cardinality(all) \in Nat
    BY <1>2, <1>3, AtomSetsFinite
  <2>2. CASE b = order[1]
    <3>1. rows[b] = [d.bags[b] EXCEPT !.count = Cardinality(all), !.score = None]
      BY <2>2
    <3> HIDE DEF rows
    <3>2. QED
      BY <2>1, <2>2, <3>1 DEF BagRow
  <2>3. CASE b # order[1] /\ b \in merged
    <3>1. rows[b] = [d.bags[b] EXCEPT !.count = 0]
      BY <2>3
    <3> HIDE DEF rows
    <3>2. QED
      BY <2>1, <2>3, <3>1 DEF BagRow
  <2>4. CASE b # order[1] /\ b \notin merged
    BY <2>4
  <2>5. QED
    BY <2>2, <2>3, <2>4
<1>11. \A b, a : <<b, a>> \in pairs <=>
         \/ <<b, a>> \in d.member /\ \A i \in 1..n : b # order[i]
         \/ b = order[1] /\ a \in all
  OBVIOUS
<1>12. /\ Len(e.log) = Len(d.log) + n
       /\ \A m \in DOMAIN d.log : e.log[m] = d.log[m]
       /\ e.log[Len(d.log) + 1] = first[1]
       /\ \A i \in 1..(n - 1) : e.log[(Len(d.log) + 1) + i] = rest[i]
  <2> DEFINE old == d.log
  <2>1. old \in Seq(EventRow) /\ e.log = (old \o first) \o rest
    BY <1>2, <1>8
  <2> HIDE DEF old, first, rest
  <2> DEFINE mid == old \o first
  <2>2. /\ Len(mid) = Len(old) + Len(first) /\ mid \in Seq(EventRow)
        /\ Len(old) \in Nat /\ DOMAIN old = 1..Len(old)
        /\ \A m \in 1..Len(old) : mid[m] = old[m]
        /\ \A m \in 1..Len(first) : mid[Len(old) + m] = first[m]
    <3>1. old \in Seq(EventRow) /\ first \in Seq(EventRow)
      BY <2>1, <1>6
    <3>2. QED
      BY <3>1, Concatenated
  <2>21. e.log = mid \o rest
    BY <2>1
  <2> HIDE DEF mid
  <2>22. Len(mid) = Len(old) + 1 /\ mid[Len(old) + 1] = first[1]
    BY <2>2, <1>6
  <2>3. /\ Len(e.log) = Len(mid) + Len(rest)
        /\ \A m \in 1..Len(mid) : e.log[m] = mid[m]
        /\ \A i \in 1..Len(rest) : e.log[Len(mid) + i] = rest[i]
    <3>1. mid \in Seq(EventRow) /\ rest \in Seq(EventRow)
      BY <2>2, <1>6
    <3>2. QED
      BY <2>21, <3>1, Concatenated
  <2>4. \A m \in 1..Len(old) : e.log[m] = old[m]
    BY <2>2, <2>22, <2>3
  <2>5. e.log[Len(old) + 1] = first[1]
    BY <2>2, <2>22, <2>3
  <2>6. QED
    BY SMTT(30), <2>2, <2>22, <2>3, <2>4, <2>5, <1>6 DEF old
<1>13. \A i \in 2..n : e.log[Len(d.log) + i] = Event("merge_into", order[i], {})
  <2> SUFFICES ASSUME NEW i \in 2..n
               PROVE  e.log[Len(d.log) + i] = Event("merge_into", order[i], {})
    OBVIOUS
  <2>1. i - 1 \in 1..(n - 1) /\ (i - 1) + 1 = i /\ Len(d.log) \in Nat
    BY <1>2
  <2>2. rest[i - 1] = Event("merge_into", order[i], {})
    BY <2>1
  <2>3. (Len(d.log) + 1) + (i - 1) = Len(d.log) + i
    BY <2>1
  <2>4. QED
    BY <2>1, <2>2, <2>3, <1>12
<1>14. Len(e.bags) = Len(d.bags)
  BY <1>4, <1>8
<1> HIDE DEF rows, pairs, first, rest, merged
<1>15. QED
  BY <1>8, <1>9, <1>10, <1>11, <1>12, <1>13, <1>14 DEF BagsMerged

\* A merge leaves a consistent database that continues the old one.
LEMMA MergeBagsConsistent ==
    ASSUME NEW d \in Database, Consistent(d), NEW n \in Nat, n >= 2, NEW order,
           Mergeable(d, n, order), NEW e, e = MergeBags(d, order)
    PROVE  e \in Database /\ Consistent(e) /\ Continues(d, e) /\ Quiet(d, e)
<1> DEFINE all == UNION {Members(d, order[i]) : i \in 1..n}
           l == Len(d.log)
<1> HIDE DEF all
<1>1. e \in Database /\ BagsMerged(d, e, n, order, all)
  BY MergeRows DEF all
<1>2. /\ e.natoms = d.natoms /\ e.cands = d.cands /\ Len(e.bags) = Len(d.bags)
      /\ \A m \in DOMAIN d.log : e.log[m] = d.log[m]
      /\ Len(e.log) = l + n
      /\ e.log[l + 1] = Event("merge", order[1], all)
      /\ \A i \in 2..n : e.log[l + i] = Event("merge_into", order[i], {})
  BY <1>1 DEF BagsMerged
<1>3. l \in Nat /\ 1 \in 1..n /\ \A i \in 2..n : i \in 1..n
  BY DEF Database
<1>4. /\ AtomsIn(e) = AtomsIn(d) /\ Bags(e) = Bags(d)
  BY <1>2 DEF AtomsIn, Bags
<1>5. /\ \A i \in 1..n : order[i] \in Bags(d) /\ Members(d, order[i]) # {}
      /\ \A i \in 1..n : \A a \in Members(d, order[i]) : a \in all
      /\ \A a \in all : a \in AtomsIn(d) /\ \E i \in 1..n : a \in Members(d, order[i])
  BY DEF Mergeable, all, Members
<1>6. Members(e, order[1]) = all
  <2>1. \A a : <<order[1], a>> \in e.member <=> a \in all
    BY <1>1, <1>3 DEF BagsMerged
  <2>2. QED
    BY <2>1, <1>4, <1>5 DEF Members
<1>7. ASSUME NEW b \in Bags(d), \E i \in 1..n : b = order[i], b # order[1]
      PROVE  Members(e, b) = {}
  <2>1. \A a : <<b, a>> \notin e.member
    BY <1>1, <1>7 DEF BagsMerged
  <2>2. QED
    BY <2>1 DEF Members
<1>8. ASSUME NEW b \in Bags(d), \A i \in 1..n : b # order[i]
      PROVE  Members(e, b) = Members(d, b)
  <2>1. \A a : <<b, a>> \in e.member <=> <<b, a>> \in d.member
    BY SMTT(30), <1>1, <1>3, <1>8 DEF BagsMerged
  <2>2. QED
    BY <2>1, <1>4 DEF Members
<1>9. ASSUME NEW b \in Bags(d), \A i \in 1..n : b # order[i]
      PROVE  Members(d, b) \cap all = {}
  BY <1>5, <1>9 DEF Consistent, OneBagPerAtom
<1>10. \A m \in News(d, e) : m = l + 1 \/ \E i \in 2..n : m = l + i
  <2> SUFFICES ASSUME NEW m \in News(d, e), m # l + 1 PROVE \E i \in 2..n : m = l + i
    OBVIOUS
  <2>1. m - l \in 2..n /\ m = l + (m - l)
    BY <1>2, <1>3 DEF News
  <2>2. QED
    BY <2>1
<1>11. /\ l + 1 \in News(d, e)
       /\ \A i \in 2..n : l + i \in News(d, e) /\ l + i # l + 1
  BY <1>2, <1>3 DEF News
<1> HIDE DEF l
<1>12. /\ e.log[l + 1].kind = "merge" /\ e.log[l + 1].bag = order[1]
       /\ e.log[l + 1].atoms = all
       /\ \A i \in 2..n : /\ e.log[l + i].kind = "merge_into"
                         /\ e.log[l + i].bag = order[i] /\ e.log[l + i].atoms = {}
  BY <1>2, EventFields
<1>13. Logged(d, e)
  <2>1. \A m \in News(d, e) : e.log[m].bag \in Bags(e) /\ e.log[m].atoms \subseteq AtomsIn(e)
    BY <1>3, <1>4, <1>5, <1>10, <1>12
  <2>2. Len(d.log) <= Len(e.log)
    BY <1>2, <1>3 DEF l
  <2>3. QED
    BY <1>2, <1>4, <2>1, <2>2 DEF Logged
<1>14. OneBagPerAtom(e)
  <2>1. ASSUME NEW p \in e.member PROVE p \in Bags(e) \X AtomsIn(e)
    <3>1. PICK b, a : p = <<b, a>>
      BY <1>1 DEF Database
    <3>2. \/ <<b, a>> \in d.member
          \/ b = order[1] /\ a \in all
      <4>1. <<b, a>> \in e.member
        BY <3>1
      <4>2. <<b, a>> \in e.member <=>
                \/ <<b, a>> \in d.member /\ \A i \in 1..n : b # order[i]
                \/ b = order[1] /\ a \in all
        BY <1>1 DEF BagsMerged
      <4>3. QED
        BY <4>1, <4>2
    <3>3. QED
      BY <3>1, <3>2, <1>3, <1>4, <1>5 DEF Consistent, OneBagPerAtom
  <2>2. ASSUME NEW b \in Bags(e), NEW c \in Bags(e), b # c
        PROVE  Members(e, b) \cap Members(e, c) = {}
    <3>1. CASE (\A i \in 1..n : b # order[i]) /\ (\A i \in 1..n : c # order[i])
      BY <3>1, <2>2, <1>4, <1>8 DEF Consistent, OneBagPerAtom
    <3>2. CASE (\E i \in 1..n : b = order[i]) /\ b # order[1]
      BY <3>2, <1>4, <1>7
    <3>3. CASE (\E i \in 1..n : c = order[i]) /\ c # order[1]
      BY <3>3, <1>4, <1>7
    <3>4. CASE b = order[1] /\ \A i \in 1..n : c # order[i]
      BY <3>4, <1>4, <1>6, <1>8, <1>9
    <3>5. CASE c = order[1] /\ \A i \in 1..n : b # order[i]
      BY <3>5, <1>4, <1>6, <1>8, <1>9
    <3>6. QED
      BY <3>1, <3>2, <3>3, <3>4, <3>5, <2>2
  <2>3. ASSUME NEW b \in Bags(e)
        PROVE  /\ e.bags[b].count = Cardinality(Members(e, b))
               /\ \A a \in Members(e, b) : Atom[a].type = e.bags[b].type
    <3>1. /\ e.bags[b].type = d.bags[b].type
          /\ e.bags[b].count = IF b = order[1] THEN Cardinality(all)
                               ELSE IF \E i \in 1..n : b = order[i] THEN 0
                               ELSE d.bags[b].count
      BY <1>1, <1>4 DEF BagsMerged
    <3>2. CASE b = order[1]
      <4>1. \A a \in all : Atom[a].type = d.bags[order[1]].type
        <5> SUFFICES ASSUME NEW a \in all PROVE Atom[a].type = d.bags[order[1]].type
          OBVIOUS
        <5>1. PICK i \in 1..n : a \in Members(d, order[i])
          BY <1>5
        <5>2. Atom[a].type = d.bags[order[i]].type
          BY <5>1, <1>5 DEF Consistent, OneBagPerAtom
        <5>3. QED
          BY <5>2 DEF Mergeable
      <4>2. QED
        BY <3>1, <3>2, <4>1, <1>6
    <3>3. CASE b # order[1] /\ \E i \in 1..n : b = order[i]
      BY <3>1, <3>3, <1>4, <1>7, FS_EmptySet
    <3>4. CASE \A i \in 1..n : b # order[i]
      BY <3>1, <3>4, <1>3, <1>4, <1>8 DEF Consistent, OneBagPerAtom
    <3>5. QED
      BY <3>2, <3>3, <3>4
  <2>4. QED
    BY <2>1, <2>2, <2>3 DEF OneBagPerAtom
<1>15. PlacedByLog(e)
  <2> SUFFICES ASSUME NEW a \in AtomsIn(e) PROVE Stays(d, e, a) \/ Moves(d, e, a)
    BY <1>1, <1>13, StepPlaces DEF Consistent
  <2>1. CASE a \in all
    <3>1. ASSUME NEW b \in Bags(e) PROVE a \in Members(e, b) <=> b = order[1]
      BY <2>1, <1>4, <1>6, <1>7, <1>8, <1>9
    <3>2. ASSUME NEW q \in News(d, e), Places(e.log[q]) PROVE q = l + 1
      BY <3>2, <1>10, <1>12 DEF Places
    <3>3. QED
      BY <2>1, <3>1, <3>2, <1>11, <1>12 DEF Moves, Places
  <2>2. CASE a \notin all
    <3>1. ASSUME NEW b \in Bags(e) PROVE a \in Members(e, b) <=> a \in Members(d, b)
      BY <2>2, <1>4, <1>5, <1>6, <1>7, <1>8
    <3>2. QED
      BY <2>2, <3>1, <1>4, <1>10, <1>12 DEF Stays, Places
  <2>3. QED
    BY <2>1, <2>2
<1>16. RetiredByLog(e)
  <2> SUFFICES ASSUME NEW b \in Bags(e) PROVE Lives(d, e, b) \/ Retires(d, e, b)
    BY <1>1, <1>13, StepRetires DEF Consistent
  <2>1. \A m \in News(d, e) : e.log[m].kind = "merge_into" => \E i \in 2..n : e.log[m].bag = order[i]
    BY <1>10, <1>12
  <2>2. CASE b = order[1]
    <3>1. Members(e, b) # {} /\ Members(d, b) # {}
      BY <2>2, <1>3, <1>5, <1>6
    <3>2. \A i \in 2..n : b # order[i]
      BY <2>2, <1>3 DEF Mergeable
    <3>3. QED
      BY <3>1, <3>2, <2>1, <1>4 DEF Lives
  <2>3. CASE b # order[1] /\ \E i \in 1..n : b = order[i]
    <3>1. PICK i \in 2..n : b = order[i]
      BY <2>3
    <3>2. QED
      BY <2>3, <3>1, <1>4, <1>7, <1>11, <1>12 DEF Retires
  <2>4. CASE \A i \in 1..n : b # order[i]
    BY <2>1, <2>4, <1>3, <1>4, <1>8 DEF Lives
  <2>5. QED
    BY <2>2, <2>3, <2>4
<1>17. NamedByLog(e)
  BY <1>1, <1>13, StepNames DEF Consistent
<1>18. Continues(d, e)
  <2>1. Resolved(d) \subseteq Resolved(e)
    <3> SUFFICES ASSUME NEW b \in Bags(d), NEW a \in Members(d, b)
                 PROVE  \E c \in Bags(e) : a \in Members(e, c)
      BY DEF Resolved
    <3>1. CASE \E i \in 1..n : b = order[i]
      BY <3>1, <1>3, <1>4, <1>5, <1>6
    <3>2. CASE \A i \in 1..n : b # order[i]
      BY <3>2, <1>4, <1>8
    <3>3. QED
      BY <3>1, <3>2
  <2>2. \A b \in Bags(d) : e.bags[b].type = d.bags[b].type
    BY <1>1 DEF BagsMerged
  <2>3. d.natoms <= e.natoms
    BY <1>2 DEF Database
  <2>4. QED
    BY <1>1, <1>2, <1>4, <2>1, <2>2, <2>3, LogPositions, <1>13 DEF Continues
<1>19. Quiet(d, e)
  <2>1. \A m \in News(d, e) : e.log[m].kind # "resolve"
    BY <1>10, <1>12
  <2>2. ASSUME NEW b \in Bags(e)
        PROVE  \/ e.bags[b].score = None
               \/ Members(e, b) = {}
               \/ /\ b \in Bags(d)
                  /\ e.bags[b].score = d.bags[b].score /\ Members(e, b) = Members(d, b)
    <3>1. e.bags[b].score = IF b = order[1] THEN None ELSE d.bags[b].score
      BY <1>1, <1>4 DEF BagsMerged
    <3>2. CASE b = order[1]
      BY <3>1, <3>2
    <3>3. CASE b # order[1] /\ \E i \in 1..n : b = order[i]
      BY <3>3, <1>4, <1>7
    <3>4. CASE b # order[1] /\ \A i \in 1..n : b # order[i]
      BY <3>1, <3>4, <1>4, <1>8
    <3>5. QED
      BY <3>2, <3>3, <3>4
  <2>3. QED
    BY <1>2, <2>1, <2>2 DEF Quiet
<1>20. QED
  BY <1>1, <1>14, <1>15, <1>16, <1>17, <1>18, <1>19 DEF Consistent

LEMMA MergeBagsSound ==
    ASSUME NEW d \in Database, Sound(d), NEW n \in Nat, n >= 2, NEW order,
           Mergeable(d, n, order), NEW e, e = MergeBags(d, order)
    PROVE  e \in Database /\ Sound(e) /\ Continues(d, e)
<1>1. Consistent(d)
  BY DEF Sound
<1>2. e \in Database /\ Consistent(e) /\ Continues(d, e) /\ Quiet(d, e)
  BY <1>1, MergeBagsConsistent
<1>3. QED
  BY <1>2, QuietSound

-----------------------------------------------------------------------------
(* split_bag().                                                            *)

Splittable(d, b, A) == b \in Bags(d) /\ A \subseteq Members(d, b) /\ A # {} /\ A # Members(d, b)

\* The rows after a split: the new bag has the atoms, and the log names both bags.
BagSplit(d, e, b, A) ==
    /\ e.natoms = d.natoms /\ e.cands = d.cands /\ e.sealed = d.sealed
    /\ Len(e.bags) = Len(d.bags) + 1
    /\ \A c \in Bags(d) : e.bags[c].type = d.bags[c].type
    /\ \A c \in Bags(d) : c # b => /\ e.bags[c].count = d.bags[c].count
                                   /\ e.bags[c].score = d.bags[c].score
    /\ e.bags[b].score = None /\ e.bags[Len(d.bags) + 1].score = None
    /\ e.bags[b].count = Cardinality(Members(d, b)) - Cardinality(A)
    /\ e.bags[Len(d.bags) + 1].type = d.bags[b].type
    /\ e.bags[Len(d.bags) + 1].count = Cardinality(A)
    /\ \A c, a : <<c, a>> \in e.member <=>
         \/ <<c, a>> \in d.member /\ ~(c = b /\ a \in A)
         \/ c = Len(d.bags) + 1 /\ a \in A
    /\ Len(e.log) = Len(d.log) + 2
    /\ \A m \in DOMAIN d.log : e.log[m] = d.log[m]
    /\ e.log[Len(d.log) + 1] = Event("split", b, A)
    /\ e.log[Len(d.log) + 2] = Event("split_from", Len(d.bags) + 1, A)

LEMMA SplitRows ==
    ASSUME NEW d \in Database, NEW b, NEW A, Splittable(d, b, A),
           NEW e, e = SplitBag(d, b, A)
    PROVE  e \in Database /\ BagSplit(d, e, b, A)
<1> DEFINE k == Len(d.bags)
           left == Cardinality(Members(d, b)) - Cardinality(A)
           kept == [d.bags EXCEPT ![b] = Rescored(d.bags[b], left)]
           row == Bag(d.bags[b].type, None, None, A)
           rows == Append(kept, row)
           pairs == (d.member \ {<<b, a>> : a \in A}) \cup {<<k + 1, a>> : a \in A}
           news == <<Event("split", b, A), Event("split_from", k + 1, A)>>
           log == d.log \o news
<1>1. /\ AtomsIn(d) \subseteq AtomIds /\ d.bags \in Seq(BagRow) /\ d.log \in Seq(EventRow)
      /\ Bags(d) = 1..k /\ k \in Nat /\ b \in 1..k /\ DOMAIN d.bags = 1..k
  BY MatchingAssumption DEF Database, AtomsIn, AtomIds, Bags, Splittable
<1>2. A \in SUBSET AtomIds /\ Members(d, b) \in SUBSET AtomIds /\ A \subseteq Members(d, b)
  BY <1>1 DEF Members, Splittable
<1>3. Cardinality(A) \in Nat /\ left \in Nat
  <2>1. IsFiniteSet(Members(d, b)) /\ IsFiniteSet(A)
    BY <1>2, AtomSetsFinite
  <2>2. Cardinality(A) <= Cardinality(Members(d, b))
    BY <1>2, <2>1, FS_Subset
  <2>3. QED
    BY <1>2, <2>2, AtomSetsFinite
<1> HIDE DEF left
<1>4. /\ kept \in Seq(BagRow) /\ Len(kept) = k
      /\ \A c \in 1..k : kept[c].type = d.bags[c].type
      /\ \A c \in 1..k : c # b => kept[c] = d.bags[c]
      /\ kept[b].count = left /\ kept[b].score = None
  <2>1. kept = [c \in 1..k |-> IF c = b THEN [d.bags[c] EXCEPT !.count = left, !.score = None]
                               ELSE d.bags[c]]
    BY <1>1 DEF Rescored
  <2>2. ASSUME NEW c \in 1..k PROVE kept[c] \in BagRow /\ kept[c].type = d.bags[c].type
    <3>1. d.bags[c] \in BagRow
      BY <1>1
    <3>2. CASE c = b
      BY ZenonT(40), <2>1, <3>1, <3>2, <1>3 DEF BagRow
    <3>3. CASE c # b
      BY <2>1, <3>1, <3>3
    <3>4. QED
      BY <3>2, <3>3
  <2>3. kept[b].count = left /\ kept[b].score = None
    <3>1. d.bags[b] \in BagRow
      BY <1>1
    <3>2. QED
      BY <2>1, <3>1, <1>1 DEF BagRow
  <2>4. \A c \in 1..k : c # b => kept[c] = d.bags[c]
    BY <2>1
  <2>5. DOMAIN kept = 1..k
    BY <2>1
  <2>6. kept \in [1..k -> BagRow]
    <3> DEFINE f == kept
    <3>1. DOMAIN f = 1..k /\ f = [c \in 1..k |-> f[c]] /\ \A c \in 1..k : f[c] \in BagRow
      BY <2>1, <2>2
    <3> HIDE DEF f
    <3>2. f \in [1..k -> BagRow]
      BY <3>1
    <3>3. QED
      BY <3>2 DEF f
  <2> HIDE DEF kept
  <2>7. QED
    BY <1>1, <2>2, <2>3, <2>4, <2>5, <2>6
<1>5. row \in BagRow /\ row.type = d.bags[b].type /\ row.count = Cardinality(A) /\ row.score = None
  <2>1. d.bags[b] \in BagRow
    BY <1>1
  <2>2. d.bags[b].type \in Types
    BY <2>1 DEF BagRow
  <2>3. QED
    BY <2>2, <1>3 DEF Bag, BagRow
<1> HIDE DEF kept, row
<1>6. /\ rows \in Seq(BagRow) /\ Len(rows) = k + 1 /\ rows[k + 1] = row
      /\ \A c \in 1..k : rows[c] = kept[c]
  <2>1. kept \in Seq(BagRow) /\ Len(kept) = k /\ row \in BagRow
    BY <1>4, <1>5
  <2>2. QED
    BY <2>1, Appended
<1>7. pairs \in SUBSET (Nat \X AtomIds)
  <2>1. \A a \in A : <<k + 1, a>> \in Nat \X AtomIds
    BY <1>1, <1>2
  <2>2. QED
    BY <2>1 DEF Database
<1>8. /\ news \in Seq(EventRow) /\ Len(news) = 2
      /\ news[1] = Event("split", b, A) /\ news[2] = Event("split_from", k + 1, A)
  <2>1. Event("split", b, A) \in EventRow /\ Event("split_from", k + 1, A) \in EventRow
    BY <1>1, <1>2 DEF Event, EventRow
  <2>2. QED
    BY <2>1
<1>9. e = [d EXCEPT !.bags = rows, !.member = pairs, !.log = log]
  BY DEF SplitBag, kept, row, left
<1>10. \A c, a : <<c, a>> \in pairs <=>
         \/ <<c, a>> \in d.member /\ ~(c = b /\ a \in A)
         \/ c = k + 1 /\ a \in A
  OBVIOUS
<1> HIDE DEF news
<1>11. /\ log \in Seq(EventRow) /\ Len(log) = Len(d.log) + 2
       /\ \A m \in DOMAIN d.log : log[m] = d.log[m]
       /\ log[Len(d.log) + 1] = news[1] /\ log[Len(d.log) + 2] = news[2]
  <2> DEFINE old == d.log
  <2>1. old \in Seq(EventRow) /\ log = old \o news
    BY <1>1
  <2>0. news \in Seq(EventRow)
    BY <1>8
  <2> HIDE DEF old, log
  <2>2. /\ log \in Seq(EventRow) /\ Len(log) = Len(old) + Len(news)
        /\ DOMAIN old = 1..Len(old) /\ \A m \in 1..Len(old) : log[m] = old[m]
        /\ \A i \in 1..Len(news) : log[Len(old) + i] = news[i]
    BY <2>1, <2>0, Concatenated
  <2>3. QED
    BY <2>2, <1>8 DEF old
<1> HIDE DEF rows, pairs, log
<1>12. /\ e \in Database
       /\ e.natoms = d.natoms /\ e.cands = d.cands /\ e.sealed = d.sealed
       /\ e.bags = rows /\ e.member = pairs /\ e.log = log
  BY <1>6, <1>7, <1>9, <1>11 DEF Database
<1>13. Len(e.bags) = k + 1 /\ e.bags[k + 1] = row /\ \A c \in 1..k : e.bags[c] = kept[c]
  BY <1>6, <1>12
<1>14. /\ \A c \in Bags(d) : e.bags[c].type = d.bags[c].type
       /\ \A c \in Bags(d) : c # b => /\ e.bags[c].count = d.bags[c].count
                                      /\ e.bags[c].score = d.bags[c].score
       /\ e.bags[b].score = None
       /\ e.bags[b].count = Cardinality(Members(d, b)) - Cardinality(A)
  BY <1>1, <1>4, <1>13 DEF left
<1>15. /\ Len(e.bags) = Len(d.bags) + 1 /\ e.bags[Len(d.bags) + 1].score = None
       /\ e.bags[Len(d.bags) + 1].type = d.bags[b].type
       /\ e.bags[Len(d.bags) + 1].count = Cardinality(A)
  BY <1>5, <1>13
<1>16. \A c, a : <<c, a>> \in e.member <=>
         \/ <<c, a>> \in d.member /\ ~(c = b /\ a \in A)
         \/ c = Len(d.bags) + 1 /\ a \in A
  BY <1>10, <1>12
<1>17. /\ Len(e.log) = Len(d.log) + 2 /\ \A m \in DOMAIN d.log : e.log[m] = d.log[m]
       /\ e.log[Len(d.log) + 1] = Event("split", b, A)
       /\ e.log[Len(d.log) + 2] = Event("split_from", Len(d.bags) + 1, A)
  BY <1>8, <1>11, <1>12
<1>18. QED
  BY <1>12, <1>14, <1>15, <1>16, <1>17 DEF BagSplit

\* A split leaves a consistent database that continues the old one.
LEMMA SplitBagConsistent ==
    ASSUME NEW d \in Database, Consistent(d), NEW b, NEW A, Splittable(d, b, A),
           NEW e, e = SplitBag(d, b, A)
    PROVE  e \in Database /\ Consistent(e) /\ Continues(d, e) /\ Quiet(d, e)
<1> DEFINE k == Len(d.bags)
           l == Len(d.log)
<1>1. e \in Database /\ BagSplit(d, e, b, A)
  BY SplitRows
<1>2. /\ e.natoms = d.natoms /\ e.cands = d.cands /\ Len(e.bags) = k + 1
      /\ \A m \in DOMAIN d.log : e.log[m] = d.log[m]
      /\ Len(e.log) = l + 2
      /\ e.log[l + 1] = Event("split", b, A)
      /\ e.log[l + 2] = Event("split_from", k + 1, A)
  BY <1>1 DEF BagSplit
<1>3. l \in Nat /\ k \in Nat
  BY DEF Database
<1>4. /\ AtomsIn(e) = AtomsIn(d) /\ Bags(d) \subseteq Bags(e)
      /\ k + 1 \in Bags(e) /\ k + 1 \notin Bags(d)
      /\ \A c \in Bags(e) : c \in Bags(d) \/ c = k + 1
      /\ b \in Bags(d) /\ b # k + 1
  BY SMTT(30), <1>2, <1>3 DEF AtomsIn, Bags, Splittable
<1>5. A \subseteq Members(d, b) /\ A # {} /\ A # Members(d, b) /\ Members(d, b) \subseteq AtomsIn(d)
  BY DEF Splittable, Members
<1>6. \A m \in News(d, e) : m = l + 1 \/ m = l + 2
  BY <1>2, <1>3 DEF News
<1>7. l + 1 \in News(d, e) /\ l + 2 \in News(d, e) /\ l + 1 # l + 2
  BY <1>2, <1>3 DEF News
<1> HIDE DEF k, l
<1>8. \A c, a : <<c, a>> \in e.member <=>
         \/ <<c, a>> \in d.member /\ ~(c = b /\ a \in A)
         \/ c = k + 1 /\ a \in A
  BY <1>1 DEF BagSplit, k
<1>9. /\ Members(e, b) = Members(d, b) \ A
      /\ Members(e, k + 1) = A
      /\ \A c \in Bags(d) : c # b => Members(e, c) = Members(d, c)
  <2>1. \A a : <<k + 1, a>> \notin d.member
    BY <1>4 DEF Consistent, OneBagPerAtom
  <2>2. \A a : <<b, a>> \in e.member <=> <<b, a>> \in d.member /\ a \notin A
    BY <1>4, <1>8
  <2>3. \A a : <<k + 1, a>> \in e.member <=> a \in A
    BY <1>8, <2>1
  <2>4. \A c \in Bags(d) : c # b => \A a : <<c, a>> \in e.member <=> <<c, a>> \in d.member
    BY <1>4, <1>8
  <2>5. QED
    BY <1>4, <1>5, <2>2, <2>3, <2>4 DEF Members
<1>10. /\ e.log[l + 1].kind = "split" /\ e.log[l + 1].bag = b /\ e.log[l + 1].atoms = A
       /\ e.log[l + 2].kind = "split_from" /\ e.log[l + 2].bag = k + 1
       /\ e.log[l + 2].atoms = A
  BY <1>2, EventFields DEF k, l
<1>11. Logged(d, e)
  <2>1. Len(d.log) <= Len(e.log)
    BY <1>2, <1>3 DEF l
  <2>2. \A m \in News(d, e) : e.log[m].bag \in Bags(e) /\ e.log[m].atoms \subseteq AtomsIn(e)
    BY <1>4, <1>5, <1>6, <1>10
  <2>3. QED
    BY <1>2, <1>4, <2>1, <2>2 DEF Logged
<1>12. OneBagPerAtom(e)
  <2>1. ASSUME NEW p \in e.member PROVE p \in Bags(e) \X AtomsIn(e)
    <3>1. PICK c, a : p = <<c, a>>
      BY <1>1 DEF Database
    <3>2. \/ <<c, a>> \in d.member
          \/ c = k + 1 /\ a \in A
      BY <3>1, <1>8
    <3>3. QED
      BY <3>1, <3>2, <1>4, <1>5 DEF Consistent, OneBagPerAtom
  <2>2. ASSUME NEW c \in Bags(e), NEW f \in Bags(e), c # f
        PROVE  Members(e, c) \cap Members(e, f) = {}
    <3>1. \A x \in Bags(d) : Members(e, x) \subseteq Members(d, x)
      BY <1>9
    <3>2. CASE c \in Bags(d) /\ f \in Bags(d)
      BY <2>2, <3>1, <3>2 DEF Consistent, OneBagPerAtom
    <3>3. \A x \in Bags(d) : Members(e, x) \cap A = {}
      BY <1>4, <1>5, <1>9 DEF Consistent, OneBagPerAtom
    <3>4. QED
      BY <2>2, <3>2, <3>3, <1>4, <1>9
  <2>3. ASSUME NEW c \in Bags(e)
        PROVE  e.bags[c].count = Cardinality(Members(e, c))
    <3>1. CASE c = b
      <4>1. Members(d, b) \in SUBSET AtomIds
        BY <1>5, MatchingAssumption DEF Database, AtomsIn, AtomIds
      <4>2. Cardinality(Members(d, b) \ A) = Cardinality(Members(d, b)) - Cardinality(A)
        <5>1. IsFiniteSet(Members(d, b))
          BY <4>1, AtomSetsFinite
        <5>2. Cardinality(Members(d, b) \ A)
                = Cardinality(Members(d, b)) - Cardinality(Members(d, b) \cap A)
          BY <5>1, FS_Difference
        <5>3. Members(d, b) \cap A = A
          BY <1>5
        <5>4. QED
          BY <5>2, <5>3
      <4>3. QED
        BY <3>1, <4>2, <1>1, <1>9 DEF BagSplit
    <3>2. CASE c = k + 1
      BY <3>2, <1>1, <1>9 DEF BagSplit, k
    <3>3. CASE c \in Bags(d) /\ c # b
      BY <3>3, <1>1, <1>9 DEF BagSplit, Consistent, OneBagPerAtom
    <3>4. QED
      BY <3>1, <3>2, <3>3, <1>4
  <2>4. ASSUME NEW c \in Bags(e), NEW a \in Members(e, c)
        PROVE  Atom[a].type = e.bags[c].type
    <3>1. CASE c \in Bags(d)
      <4>1. a \in Members(d, c)
        BY <2>4, <3>1, <1>9
      <4>2. QED
        BY <3>1, <4>1, <1>1 DEF BagSplit, Consistent, OneBagPerAtom
    <3>2. CASE c = k + 1
      <4>1. a \in Members(d, b) /\ e.bags[c].type = d.bags[b].type
        BY <2>4, <3>2, <1>1, <1>5, <1>9 DEF BagSplit, k
      <4>2. QED
        BY <4>1, <1>4 DEF Consistent, OneBagPerAtom
    <3>3. QED
      BY <3>1, <3>2, <1>4
  <2>5. QED
    BY <2>1, <2>2, <2>3, <2>4 DEF OneBagPerAtom
<1>13. PlacedByLog(e)
  <2> SUFFICES ASSUME NEW a \in AtomsIn(e) PROVE Stays(d, e, a) \/ Moves(d, e, a)
    BY <1>1, <1>11, StepPlaces DEF Consistent
  <2>1. CASE a \in A
    <3>1. ASSUME NEW c \in Bags(e) PROVE a \in Members(e, c) <=> c = k + 1
      <4>1. CASE c \in Bags(d)
        BY <2>1, <4>1, <1>4, <1>5, <1>9 DEF Consistent, OneBagPerAtom
      <4>2. QED
        BY <2>1, <4>1, <1>4, <1>9
    <3>2. QED
      BY <2>1, <3>1, <1>6, <1>7, <1>10 DEF Moves, Places
  <2>2. CASE a \notin A
    BY <2>2, <1>4, <1>6, <1>9, <1>10 DEF Stays
  <2>3. QED
    BY <2>1, <2>2
<1>14. RetiredByLog(e)
  <2>1. \A c \in Bags(e) : Lives(d, e, c)
    <3>1. Members(e, b) # {} /\ Members(d, b) # {}
      BY <1>5, <1>9
    <3>2. QED
      BY <3>1, <1>4, <1>5, <1>6, <1>9, <1>10 DEF Lives
  <2>2. QED
    BY <1>1, <1>11, <2>1, StepRetires DEF Consistent
<1>15. NamedByLog(e)
  BY <1>1, <1>11, StepNames DEF Consistent
<1>16. Continues(d, e)
  <2>1. Resolved(d) \subseteq Resolved(e)
    <3> SUFFICES ASSUME NEW c \in Bags(d), NEW a \in Members(d, c)
                 PROVE  \E f \in Bags(e) : a \in Members(e, f)
      BY DEF Resolved
    <3>1. QED
      BY <1>4, <1>9
  <2>2. \A c \in Bags(d) : e.bags[c].type = d.bags[c].type
    BY <1>1 DEF BagSplit
  <2>3. d.natoms <= e.natoms
    BY <1>2 DEF Database
  <2>4. QED
    BY <1>2, <1>4, <1>11, <2>1, <2>2, <2>3, <1>1, LogPositions DEF Continues
<1>17. Quiet(d, e)
  <2>1. \A m \in News(d, e) : e.log[m].kind # "resolve"
    BY <1>6, <1>10
  <2>2. /\ e.bags[b].score = None /\ e.bags[k + 1].score = None
        /\ \A c \in Bags(d) : c # b => e.bags[c].score = d.bags[c].score
    BY <1>1 DEF BagSplit, k
  <2>3. QED
    BY <1>2, <1>4, <1>9, <2>1, <2>2 DEF Quiet
<1>18. QED
  BY <1>1, <1>12, <1>13, <1>14, <1>15, <1>16, <1>17 DEF Consistent

LEMMA SplitBagSound ==
    ASSUME NEW d \in Database, Sound(d), NEW b, NEW A, Splittable(d, b, A),
           NEW e, e = SplitBag(d, b, A)
    PROVE  e \in Database /\ Sound(e) /\ Continues(d, e)
<1>1. Consistent(d)
  BY DEF Sound
<1>2. e \in Database /\ Consistent(e) /\ Continues(d, e) /\ Quiet(d, e)
  BY <1>1, SplitBagConsistent
<1>3. QED
  BY <1>2, QuietSound

-----------------------------------------------------------------------------
(* Steps that leave the bags alone, and two steps one after the other.     *)

SameRows(d, e) ==
    /\ e.bags = d.bags /\ e.member = d.member /\ e.log = d.log
    /\ d.natoms <= e.natoms /\ d.cands \subseteq e.cands

SameBags(d, e) ==
    /\ e.bags = d.bags /\ e.member = d.member /\ e.log = d.log
    /\ d.natoms <= e.natoms /\ e.cands = d.cands

\* New atoms and candidates, or another sanitization, leave a consistent database consistent.
LEMMA SameRowsConsistent ==
    ASSUME NEW d \in Database, Consistent(d), NEW e \in Database, SameRows(d, e)
    PROVE  /\ Consistent(e) /\ Continues(d, e)
           /\ Bags(e) = Bags(d) /\ \A b : Members(e, b) = Members(d, b)
<1>1. /\ e.bags = d.bags /\ e.member = d.member /\ e.log = d.log
      /\ d.natoms <= e.natoms /\ d.cands \subseteq e.cands
      /\ d.natoms \in Nat /\ e.natoms \in Nat
  BY DEF SameRows, Database
<1>2. Bags(e) = Bags(d) /\ AtomsIn(d) \subseteq AtomsIn(e)
  BY <1>1 DEF Bags, AtomsIn
<1>3. d.member \subseteq Bags(d) \X AtomsIn(d)
  BY DEF Consistent, OneBagPerAtom
<1>4. \A b : Members(e, b) = Members(d, b)
  BY <1>1, <1>2, <1>3 DEF Members
<1>5. OneBagPerAtom(e)
  BY <1>1, <1>2, <1>3, <1>4 DEF Consistent, OneBagPerAtom
<1>6. PlacedByLog(e)
  <2> SUFFICES ASSUME NEW a \in AtomsIn(e) PROVE Stays(d, e, a)
    <3>1. Logged(d, e)
      BY <1>1, <1>2 DEF Logged, News, Database
    <3>2. QED
      BY <3>1, StepPlaces DEF Consistent
  <2>1. News(d, e) = {}
    BY <1>1 DEF News, Database
  <2>2. QED
    BY <1>2, <1>4, <2>1 DEF Stays
<1>7. RetiredByLog(e)
  BY <1>1, <1>2, <1>4 DEF Consistent, RetiredByLog
<1>8. NamedByLog(e)
  BY <1>1, <1>2 DEF Consistent, NamedByLog
<1>9. Continues(d, e)
  BY <1>1, <1>2, <1>4 DEF Continues, Resolved
<1>10. QED
  BY <1>2, <1>4, <1>5, <1>6, <1>7, <1>8, <1>9 DEF Consistent

\* Without new candidates a sound database stays sound.
LEMMA SameBagsSound ==
    ASSUME NEW d \in Database, Sound(d), NEW e \in Database, SameBags(d, e)
    PROVE  Sound(e) /\ Continues(d, e)
<1>1. Consistent(d) /\ SameRows(d, e) /\ e.cands = d.cands /\ e.bags = d.bags
  BY DEF Sound, SameBags, SameRows
<1>2. /\ Consistent(e) /\ Continues(d, e)
      /\ Bags(e) = Bags(d) /\ \A b : Members(e, b) = Members(d, b)
  BY <1>1, SameRowsConsistent
<1>3. News(d, e) = {}
  <2>1. e.log = d.log /\ Len(d.log) \in Nat
    BY DEF SameBags, Database
  <2>2. QED
    BY <2>1 DEF News
<1>4. Quiet(d, e)
  BY <1>1, <1>2, <1>3 DEF Quiet
<1>5. QED
  BY <1>2, <1>4, QuietSound

\* Every database continues itself.
LEMMA ContinuesItself ==
    ASSUME NEW d \in Database
    PROVE  Continues(d, d)
  BY DEF Continues, Database

\* What continues a continuation continues the beginning.
LEMMA ContinuesOn ==
    ASSUME NEW d \in Database, NEW e \in Database, NEW f \in Database,
           Continues(d, e), Continues(e, f)
    PROVE  Continues(d, f)
<1>1. d.natoms <= f.natoms
  BY DEF Continues, Database
<1>2. \A n \in DOMAIN d.log : n \in DOMAIN e.log /\ n \in DOMAIN f.log /\ f.log[n] = d.log[n]
  BY DEF Continues
<1>3. \A b \in Bags(d) : b \in Bags(e) /\ b \in Bags(f) /\ f.bags[b].type = d.bags[b].type
  BY DEF Continues
<1>4. d.cands \subseteq f.cands /\ Resolved(d) \subseteq Resolved(f)
  BY DEF Continues
<1>5. QED
  BY <1>1, <1>2, <1>3, <1>4 DEF Continues

-----------------------------------------------------------------------------
(* The sets that the resolve calls turn into bags.                         *)

\* Atoms of the database are atoms.
LEMMA AtomsAreIds ==
    ASSUME NEW d \in Database
    PROVE  AtomsIn(d) \subseteq AtomIds /\ \A t : unresolved_atoms(d, t) \subseteq AtomsIn(d)
  BY MatchingAssumption DEF Database, AtomsIn, AtomIds, unresolved_atoms, AtomsOfType

Disjoint(P) == {} \notin P /\ \A A, B \in P : A # B => A \cap B = {}

\* A listing of disjoint sets of unresolved atoms names each once.
LEMMA ListedSets ==
    ASSUME NEW d \in Database, NEW t \in Types, NEW P,
           P \subseteq SUBSET unresolved_atoms(d, t), Disjoint(P), NEW s \in Listings(P)
    PROVE  /\ s \in Seq(SUBSET AtomIds) /\ Len(s) \in Nat /\ NewBagSets(d, t, Len(s), s)
           /\ \A i \in 1..Len(s) : s[i] \in P
           /\ \A A \in P : \E i \in 1..Len(s) : s[i] = A
<1>1. PICK n \in 0..MaxAtoms :
        /\ s \in [1..n -> P]
        /\ \A i, j \in 1..n : i < j => \E a \in s[i] : \A b \in s[j] : a < b
        /\ \A A \in P : \E i \in 1..n : s[i] = A
  BY DEF Listings
<1>2. n \in Nat
  BY MatchingAssumption
<1>3. P \subseteq SUBSET AtomIds
  BY AtomsAreIds
<1>4. s \in Seq(SUBSET AtomIds) /\ Len(s) = n
  BY <1>1, <1>2, <1>3
<1>5. \A i, j \in 1..n : i < j => s[i] # s[j]
  <2> SUFFICES ASSUME NEW i \in 1..n, NEW j \in 1..n, i < j, s[i] = s[j] PROVE FALSE
    OBVIOUS
  <2>1. PICK a \in s[i] : \A b \in s[j] : a < b
    BY <1>1
  <2>2. s[i] \in SUBSET AtomIds
    BY <1>1, <1>3
  <2>3. a \in Nat
    BY <2>2 DEF AtomIds
  <2>4. QED
    BY <2>1, <2>3
<1>6. \A i, j \in 1..n : i # j => s[i] # s[j]
  BY <1>2, <1>5
<1>7. s \in [1..n -> SUBSET unresolved_atoms(d, t)]
  BY <1>1
<1>8. \A i \in 1..n : s[i] \in P
  BY <1>1
<1>9. \A i, j \in 1..n : i # j => s[i] \cap s[j] = {}
  BY <1>6, <1>8 DEF Disjoint
<1>10. \A i \in 1..n : s[i] # {}
  <2>1. {} \notin P
    BY DEF Disjoint
  <2>2. QED
    BY <1>8, <2>1
<1>11. NewBagSets(d, t, n, s)
  BY <1>7, <1>9, <1>10 DEF NewBagSets
<1>12. \A A \in P : \E i \in 1..n : s[i] = A
  BY <1>1
<1>13. QED
  BY <1>2, <1>4, <1>8, <1>11, <1>12

\* So does a sequence of them in any other order.
LEMMA ArrangedSets ==
    ASSUME NEW d \in Database, NEW t \in Types, NEW P,
           P \subseteq SUBSET unresolved_atoms(d, t), Disjoint(P), NEW s \in SetToSeqs(P)
    PROVE  s \in Seq(SUBSET AtomIds) /\ Len(s) \in Nat /\ NewBagSets(d, t, Len(s), s)
<1> DEFINE n == Cardinality(P)
<1>1. s \in [1..n -> P] /\ \A i, j \in 1..n : i # j => s[i] # s[j]
  BY DEF SetToSeqs
<1>2. P \subseteq SUBSET AtomIds
  BY AtomsAreIds
<1>3. n \in Nat
  <2>1. IsFiniteSet(AtomIds)
    BY MatchingAssumption, FS_Interval DEF AtomIds
  <2>2. IsFiniteSet(SUBSET AtomIds)
    BY <2>1, FS_SUBSET
  <2>3. IsFiniteSet(P)
    BY <1>2, <2>2, FS_Subset
  <2>4. QED
    BY <2>3, FS_CardinalityType
<1> HIDE DEF n
<1>4. s \in Seq(SUBSET AtomIds) /\ Len(s) = n
  BY <1>1, <1>2, <1>3
<1>5. s \in [1..n -> SUBSET unresolved_atoms(d, t)]
  BY <1>1
<1>6. \A i, j \in 1..n : i # j => s[i] \cap s[j] = {}
  BY <1>1 DEF Disjoint
<1>7. \A i \in 1..n : s[i] # {}
  <2>1. {} \notin P
    BY DEF Disjoint
  <2>2. QED
    BY <1>1, <2>1
<1>8. NewBagSets(d, t, n, s)
  BY <1>5, <1>6, <1>7 DEF NewBagSets
<1>9. QED
  BY <1>3, <1>4, <1>8

\* The events of create_bag(), one for each of the sets.
LEMMA CreatedEvents ==
    ASSUME NEW d \in Database, NEW t \in Types, NEW n \in Nat, NEW sets,
           NewBagSets(d, t, n, sets), NEW events,
           events = [i \in 1..n |-> Created(d, sets, i)]
    PROVE  /\ events \in Seq(EventRow) /\ NewBagEvents(d, n, sets, events)
           /\ \A m \in DOMAIN events : events[m].kind = "create"
<1>1. \A i \in 1..n : sets[i] \in SUBSET AtomIds
  BY AtomsAreIds DEF NewBagSets
<1>2. Len(d.bags) \in Nat
  BY DEF Database
<1>3. \A i \in 1..n : Created(d, sets, i) \in EventRow
  BY <1>1, <1>2 DEF Created, Event, EventRow
<1>4. events \in [1..n -> EventRow]
  BY <1>3
<1>5. events \in Seq(EventRow) /\ DOMAIN events = 1..n
  BY <1>4
<1>6. \A i \in 1..n : /\ events[i].kind = "create" /\ events[i].bag = Len(d.bags) + i
                      /\ events[i].atoms = sets[i]
  BY EventFields DEF Created
<1>7. ASSUME NEW i \in 1..n, NEW q \in 1..n, events[q].bag = Len(d.bags) + i
      PROVE  q = i
  <2>1. Len(d.bags) + q = Len(d.bags) + i
    BY <1>6, <1>7
  <2>2. QED
    BY <1>2, <2>1
<1>8. QED
  BY <1>5, <1>6, <1>7 DEF NewBagEvents

\* create_bag() of unresolved atoms.
LEMMA CreateBagSound ==
    ASSUME NEW d \in Database, Sound(d), NEW t \in Types,
           NEW A, A \subseteq unresolved_atoms(d, t), A # {}
    PROVE  LET e == CreateBag(d, t, A, None)
           IN  e \in Database /\ Sound(e) /\ Continues(d, e)
<1> DEFINE sets == <<A>>
           events == <<Created(d, sets, 1)>>
<1>1. NewBagSets(d, t, 1, sets)
  BY DEF NewBagSets
<1>2. sets = [i \in 1..1 |-> A]
  OBVIOUS
<1>3. events = [i \in 1..1 |-> Created(d, sets, i)]
  OBVIOUS
<1> HIDE DEF sets, events
<1>4. /\ events \in Seq(EventRow) /\ NewBagEvents(d, 1, sets, events)
      /\ \A m \in DOMAIN events : events[m].kind = "create"
  <2> DEFINE n == 1
  <2>1. n \in Nat /\ NewBagSets(d, t, n, sets) /\ events = [i \in 1..n |-> Created(d, sets, i)]
    BY <1>1, <1>3
  <2> HIDE DEF n
  <2>2. /\ events \in Seq(EventRow) /\ NewBagEvents(d, n, sets, events)
        /\ \A m \in DOMAIN events : events[m].kind = "create"
    BY <2>1, CreatedEvents
  <2>3. QED
    BY <2>2 DEF n
<1>5. <<None>> \in [1..1 -> Keys \cup {None}]
  OBVIOUS
<1>6. <<None>> \in [1..1 -> {None}]
  OBVIOUS
<1>7. CreateBag(d, t, A, None) = WithBags(d, t, sets, <<None>>, <<None>>, events)
  BY DEF CreateBag, sets, events
<1>8. QED
  BY <1>1, <1>4, <1>5, <1>6, <1>7, WithBagsSound

\* resolve(): the groups of equal keys.
LEMMA ResolveSound ==
    ASSUME NEW d \in Database, Sound(d), NEW t \in Types,
           NEW sets \in SetToSeqs(ExactGroups(d, t))
    PROVE  LET e == Resolve(d, t, sets)
           IN  e \in Database /\ Sound(e) /\ Continues(d, e)
<1> DEFINE n == Len(sets)
           events == [i \in DOMAIN sets |-> Created(d, sets, i)]
           key == [i \in DOMAIN sets |->
                IF Cardinality(sets[i]) > 1 THEN Atom[Least(sets[i])].block ELSE None]
           score == [i \in DOMAIN sets |-> None]
<1>1. ExactGroups(d, t) \subseteq SUBSET unresolved_atoms(d, t) /\ Disjoint(ExactGroups(d, t))
  BY DEF ExactGroups, Disjoint
<1>2. sets \in Seq(SUBSET AtomIds) /\ n \in Nat /\ NewBagSets(d, t, n, sets)
  BY <1>1, ArrangedSets
<1>3. DOMAIN sets = 1..n
  BY <1>2
<1>4. \A i \in 1..n : Least(sets[i]) \in AtomIds
  <2> SUFFICES ASSUME NEW i \in 1..n PROVE Least(sets[i]) \in AtomIds
    OBVIOUS
  <2>1. sets[i] \in SUBSET AtomIds /\ sets[i] # {}
    BY <1>2, <1>3 DEF NewBagSets
  <2>2. sets[i] \subseteq Nat
    BY <2>1 DEF AtomIds
  <2>3. QED
    BY <2>1, <2>2, LeastIsIn
<1>5. key \in [1..n -> Keys \cup {None}]
  BY <1>3, <1>4 DEF Keys
<1>6. score \in [1..n -> {None}]
  BY <1>3
<1>7. events = [i \in 1..n |-> Created(d, sets, i)]
  BY <1>3
<1> HIDE DEF n, events, key, score
<1>8. /\ events \in Seq(EventRow) /\ NewBagEvents(d, n, sets, events)
      /\ \A m \in DOMAIN events : events[m].kind = "create"
  BY <1>2, <1>7, CreatedEvents
<1>9. Resolve(d, t, sets) = WithBags(d, t, sets, key, score, events)
  BY DEF Resolve, key, score, events
<1>10. QED
  BY <1>2, <1>5, <1>6, <1>8, <1>9, WithBagsSound

\* The components are disjoint and consist of ends of the edges.
LEMMA ClusterParts ==
    ASSUME NEW edges
    PROVE  Cluster(edges) \subseteq SUBSET Ends(edges) /\ Disjoint(Cluster(edges))
  BY DEF Cluster, Disjoint

\* The ends of the edges, in any order, are unresolved atoms.
LEMMA EdgesAreUnresolved ==
    ASSUME NEW d, NEW t, NEW thr, NEW order \in SetToSeqs(MatchEdges(d, t, thr))
    PROVE  Ends(order) \subseteq unresolved_atoms(d, t)
<1>1. \A i \in DOMAIN order : order[i] \in MatchEdges(d, t, thr)
  BY DEF SetToSeqs
<1>2. QED
  BY <1>1 DEF Ends, MatchEdges, Candidates

\* The events of resolve_scored(): the components are the first k of the sets.
ScoredEvents(d, thr, k, sets, rest) ==
    [j \in 1..(2 * k) |->
        IF j % 2 = 1 THEN Created(d, sets, (j + 1) \div 2)
        ELSE [Event("resolve", Len(d.bags) + j \div 2, sets[j \div 2]) EXCEPT !.thr = thr]]
    \o [j \in 1..rest |-> Created(d, sets, k + j)]

\* One "resolve" event, with the threshold, for each of the first k sets.
GroupEvents(d, thr, k, sets, events) ==
    /\ \A m \in DOMAIN events : events[m].kind = "resolve" =>
         /\ events[m].thr = thr
         /\ \E i \in 1..k : events[m].bag = Len(d.bags) + i /\ events[m].atoms = sets[i]
    /\ \A i \in 1..k : \E m \in DOMAIN events :
         /\ events[m].kind = "resolve" /\ events[m].thr = thr
         /\ events[m].bag = Len(d.bags) + i /\ events[m].atoms = sets[i]

LEMMA ScoredEventRows ==
    ASSUME NEW d \in Database, NEW t \in Types, NEW thr \in Nat, NEW k \in Nat, NEW rest \in Nat,
           NEW sets, NewBagSets(d, t, k + rest, sets),
           NEW events, events = ScoredEvents(d, thr, k, sets, rest)
    PROVE  /\ events \in Seq(EventRow) /\ NewBagEvents(d, k + rest, sets, events)
           /\ GroupEvents(d, thr, k, sets, events)
<1> DEFINE first == [j \in 1..(2 * k) |->
                IF j % 2 = 1 THEN Created(d, sets, (j + 1) \div 2)
                ELSE [Event("resolve", Len(d.bags) + j \div 2, sets[j \div 2])
                        EXCEPT !.thr = thr]]
           second == [j \in 1..rest |-> Created(d, sets, k + j)]
           l == Len(d.bags)
<1>1. \A i \in 1..(k + rest) : sets[i] \in SUBSET AtomIds
  BY AtomsAreIds DEF NewBagSets
<1>2. l \in Nat
  BY DEF Database
<1>3. \A i \in 1..(k + rest) :
        /\ Created(d, sets, i) \in EventRow /\ Created(d, sets, i).kind = "create"
        /\ Created(d, sets, i).bag = l + i /\ Created(d, sets, i).atoms = sets[i]
  BY <1>1, <1>2 DEF Created, Event, EventRow
<1>4. \A i \in 1..(k + rest) :
        LET e == [Event("resolve", l + i, sets[i]) EXCEPT !.thr = thr]
        IN  /\ e \in EventRow /\ e.kind = "resolve" /\ e.bag = l + i /\ e.atoms = sets[i]
            /\ e.thr = thr
  BY <1>1, <1>2 DEF Event, EventRow
<1>5. \A j \in 1..(2 * k) : \/ j % 2 = 1 /\ (j + 1) \div 2 \in 1..k
                            \/ j % 2 # 1 /\ j \div 2 \in 1..k
  OBVIOUS
<1>6. \A i \in 1..k : 2 * i - 1 \in 1..(2 * k) /\ (2 * i - 1) % 2 = 1 /\ (2 * i - 1 + 1) \div 2 = i
  OBVIOUS
<1>7. \A j \in 1..(2 * k) : j % 2 = 1 => j = 2 * ((j + 1) \div 2) - 1
  OBVIOUS
<1>8. 1..k \subseteq 1..(k + rest)
  OBVIOUS
<1>9. \A j \in 1..(2 * k) : first[j] \in EventRow
  BY <1>3, <1>4, <1>5, <1>8
<1>10. \A j \in 1..rest : second[j] \in EventRow
  BY <1>3
<1>11. first \in Seq(EventRow) /\ second \in Seq(EventRow) /\ Len(first) = 2 * k /\ Len(second) = rest
  <2> DEFINE f == first
             g == second
             n == 2 * k
  <2>1. f = [j \in 1..n |-> f[j]] /\ g = [j \in 1..rest |-> g[j]]
    OBVIOUS
  <2>2. n \in Nat /\ (\A j \in 1..n : f[j] \in EventRow) /\ \A j \in 1..rest : g[j] \in EventRow
    BY <1>9, <1>10
  <2> HIDE DEF f, g, n
  <2>3. f \in [1..n -> EventRow] /\ g \in [1..rest -> EventRow]
    BY <2>1, <2>2
  <2>4. f \in Seq(EventRow) /\ g \in Seq(EventRow) /\ Len(f) = n /\ Len(g) = rest
    BY <2>2, <2>3
  <2>5. QED
    BY <2>4 DEF f, g, n
<1>12. ASSUME NEW j \in 1..(2 * k)
       PROVE  \E i \in 1..k :
                /\ first[j].kind \in {"create", "resolve"}
                /\ first[j].kind = "create" => j = 2 * i - 1
                /\ first[j].kind = "resolve" => first[j].thr = thr
                /\ first[j].bag = l + i /\ first[j].atoms = sets[i]
  BY <1>3, <1>4, <1>5, <1>7, <1>8
<1>13. \A i \in 1..k : /\ first[2 * i - 1].kind = "create" /\ first[2 * i - 1].bag = l + i
                       /\ first[2 * i - 1].atoms = sets[i]
  BY <1>3, <1>6, <1>8
<1>13a. \A i \in 1..k : /\ 2 * i \in 1..(2 * k) /\ first[2 * i].kind = "resolve"
                       /\ first[2 * i].thr = thr
                       /\ first[2 * i].bag = l + i /\ first[2 * i].atoms = sets[i]
  <2> SUFFICES ASSUME NEW i \in 1..k
               PROVE  /\ 2 * i \in 1..(2 * k) /\ first[2 * i].kind = "resolve"
                      /\ first[2 * i].thr = thr
                      /\ first[2 * i].bag = l + i /\ first[2 * i].atoms = sets[i]
    OBVIOUS
  <2> DEFINE j == 2 * i
  <2>1. j \in 1..(2 * k) /\ j % 2 # 1 /\ j \div 2 = i /\ i \in 1..(k + rest)
    OBVIOUS
  <2> HIDE DEF j, l
  <2>2. first[j] = [Event("resolve", l + i, sets[i]) EXCEPT !.thr = thr]
    BY <2>1 DEF l
  <2> HIDE DEF first
  <2>3. /\ first[j].kind = "resolve" /\ first[j].thr = thr
        /\ first[j].bag = l + i /\ first[j].atoms = sets[i]
    BY <2>1, <2>2, <1>4
  <2>4. QED
    BY <2>1, <2>3 DEF j
<1>14. \A j \in 1..rest : /\ second[j].kind = "create" /\ second[j].bag = l + (k + j)
                          /\ second[j].atoms = sets[k + j]
  <2>1. \A j \in 1..rest : k + j \in 1..(k + rest)
    OBVIOUS
  <2>2. QED
    BY <2>1, <1>3
<1>15. events = first \o second
  BY DEF ScoredEvents
<1> HIDE DEF first, second, l
<1>16. /\ events \in Seq(EventRow) /\ Len(events) = 2 * k + rest
       /\ \A j \in 1..(2 * k) : events[j] = first[j]
       /\ \A j \in 1..rest : events[2 * k + j] = second[j]
  <2>0. first \in Seq(EventRow) /\ second \in Seq(EventRow)
    BY <1>11
  <2>1. /\ Len(first \o second) = Len(first) + Len(second)
        /\ first \o second \in Seq(EventRow)
        /\ \A j \in 1..Len(first) : (first \o second)[j] = first[j]
        /\ \A j \in 1..Len(second) : (first \o second)[Len(first) + j] = second[j]
    BY <2>0, Concatenated
  <2>2. QED
    BY <2>1, <1>11, <1>15
<1>17. \A m \in 1..(2 * k + rest) :
         m \in 1..(2 * k) \/ \E j \in 1..rest : m = 2 * k + j
  <2> SUFFICES ASSUME NEW m \in 1..(2 * k + rest), m \notin 1..(2 * k)
               PROVE  \E j \in 1..rest : m = 2 * k + j
    OBVIOUS
  <2>1. m - 2 * k \in 1..rest /\ m = 2 * k + (m - 2 * k)
    OBVIOUS
  <2>2. QED
    BY <2>1
<1>18. \A i \in 1..(k + rest) : i \in 1..k \/ \E j \in 1..rest : i = k + j
  <2> SUFFICES ASSUME NEW i \in 1..(k + rest), i \notin 1..k
               PROVE  \E j \in 1..rest : i = k + j
    OBVIOUS
  <2>1. i - k \in 1..rest /\ i = k + (i - k)
    OBVIOUS
  <2>2. QED
    BY <2>1
<1> DEFINE At(i) == IF i <= k THEN 2 * i - 1 ELSE k + i
<1>19. ASSUME NEW m \in 1..(2 * k + rest)
       PROVE  \E i \in 1..(k + rest) :
                /\ events[m].kind \in {"create", "resolve"}
                /\ events[m].kind = "create" => m = At(i)
                /\ events[m].bag = l + i /\ events[m].atoms = sets[i]
  <2>1. CASE m \in 1..(2 * k)
    <3>1. PICK i \in 1..k :
                /\ first[m].kind \in {"create", "resolve"}
                /\ first[m].kind = "create" => m = 2 * i - 1
                /\ first[m].bag = l + i /\ first[m].atoms = sets[i]
      BY <2>1, <1>12
    <3>2. events[m] = first[m] /\ i \in 1..(k + rest) /\ At(i) = 2 * i - 1
      BY SMTT(30), <2>1, <1>8, <1>16
    <3> HIDE DEF At
    <3>3. QED
      BY <3>1, <3>2
  <2>2. CASE m \notin 1..(2 * k)
    <3>1. PICK j \in 1..rest : m = 2 * k + j
      BY <2>2, <1>17
    <3>2. events[m] = second[j]
      BY <3>1, <1>16
    <3>3. k + j \in 1..(k + rest) /\ At(k + j) = m
      BY <3>1
    <3> HIDE DEF At
    <3>4. QED
      BY <3>2, <3>3, <1>14
  <2>3. QED
    BY <2>1, <2>2
<1>20. ASSUME NEW i \in 1..(k + rest)
       PROVE  /\ At(i) \in 1..(2 * k + rest) /\ events[At(i)].kind = "create"
              /\ events[At(i)].bag = l + i /\ events[At(i)].atoms = sets[i]
  <2>1. CASE i \in 1..k
    <3>1. At(i) = 2 * i - 1 /\ 2 * i - 1 \in 1..(2 * k) /\ 2 * i - 1 \in 1..(2 * k + rest)
      BY <2>1
    <3>2. QED
      BY <3>1, <2>1, <1>13, <1>16
  <2>2. CASE i \notin 1..k
    <3>1. PICK j \in 1..rest : i = k + j
      BY <2>2, <1>18
    <3>2. At(i) = 2 * k + j /\ 2 * k + j \in 1..(2 * k + rest)
      BY <3>1
    <3>3. QED
      BY ZenonT(40), <3>1, <3>2, <1>14, <1>16
  <2>3. QED
    BY <2>1, <2>2
<1>21. DOMAIN events = 1..(2 * k + rest)
  BY <1>16
<1> HIDE DEF At
<1>22. ASSUME NEW i \in 1..(k + rest), NEW q \in DOMAIN events,
              events[q].kind = "create", events[q].bag = l + i
       PROVE  q = At(i)
  <2>1. PICK j \in 1..(k + rest) : q = At(j) /\ events[q].bag = l + j
    BY <1>19, <1>21, <1>22
  <2>2. l + i = l + j
    BY <1>22, <2>1
  <2>3. QED
    BY <1>2, <2>1, <2>2
<1>23. \A m \in DOMAIN events :
         /\ events[m].kind \in {"create", "resolve"}
         /\ \E i \in 1..(k + rest) : events[m].bag = l + i /\ events[m].atoms = sets[i]
  BY <1>19, <1>21
<1>24. \A i \in 1..(k + rest) : \E m \in DOMAIN events :
         /\ events[m].kind = "create"
         /\ events[m].bag = l + i /\ events[m].atoms = sets[i]
         /\ \A q \in DOMAIN events :
                events[q].kind = "create" /\ events[q].bag = l + i => q = m
  BY <1>20, <1>21, <1>22
<1>25. GroupEvents(d, thr, k, sets, events)
  <2>1. ASSUME NEW m \in DOMAIN events, events[m].kind = "resolve"
        PROVE  /\ events[m].thr = thr
               /\ \E i \in 1..k : events[m].bag = l + i /\ events[m].atoms = sets[i]
    <3>1. CASE m \in 1..(2 * k)
      BY <2>1, <3>1, <1>12, <1>16
    <3>2. CASE m \notin 1..(2 * k)
      <4>1. PICK j \in 1..rest : m = 2 * k + j
        BY <3>2, <1>17, <1>21
      <4>2. QED
        BY <2>1, <4>1, <1>14, <1>16
    <3>3. QED
      BY <3>1, <3>2
  <2>2. \A i \in 1..k : 2 * i \in DOMAIN events
    BY <1>21
  <2>3. ASSUME NEW i \in 1..k
        PROVE  \E m \in DOMAIN events :
                 /\ events[m].kind = "resolve" /\ events[m].thr = thr
                 /\ events[m].bag = l + i /\ events[m].atoms = sets[i]
    <3> DEFINE j == 2 * i
    <3>1. /\ j \in 1..(2 * k) /\ first[j].kind = "resolve" /\ first[j].thr = thr
          /\ first[j].bag = l + i /\ first[j].atoms = sets[i]
      BY <1>13a
    <3>2. j \in DOMAIN events
      BY <2>2
    <3> HIDE DEF j
    <3>3. events[j] = first[j]
      BY <3>1, <1>16
    <3>4. QED
      BY <3>1, <3>2, <3>3
  <2>4. QED
    BY <2>1, <2>3 DEF GroupEvents, l
<1>26. QED
  BY <1>16, <1>23, <1>24, <1>25 DEF NewBagEvents, l

\* A component stays one when the new edges do not touch it.
LEMMA ComponentStays ==
    ASSUME NEW A, NEW E, NEW F, Component(A, E), E \subseteq F,
           \A p \in F \ E : p \cap A = {}
    PROVE  Component(A, F)
  BY DEF Component

\* The edges inside a component reach all of it.
LEMMA ConfidenceCovers ==
    ASSUME NEW A, NEW E, Component(A, E), A # {}, A \subseteq UNION E
    PROVE  Confidence(E, A) # {} /\ UNION Confidence(E, A) = A
<1>1. \A a \in A : \E p \in E : a \in p /\ p \subseteq A
  BY DEF Component
<1>2. \A a \in A : \E p \in Confidence(E, A) : a \in p
  BY <1>1 DEF Confidence
<1>3. UNION Confidence(E, A) \subseteq A
  BY DEF Confidence
<1>4. QED
  BY <1>2, <1>3

\* The matches are pairs of atoms, and none is empty.
LEMMA MatchesArePairs ==
    ASSUME NEW d \in Database, NEW t, NEW thr
    PROVE  /\ MatchEdges(d, t, thr) \in SUBSET ((SUBSET AtomIds) \ {{}})
           /\ UNION Candidates(d, t) \subseteq unresolved_atoms(d, t)
<1>1. \A A : \A p \in CandidatePairs(A) : p # {}
  <2>1. ASSUME NEW A, NEW p \in BucketPairs(A) PROVE p # {}
    <3>1. PICK a, b : p = {a, b}
      BY DEF BucketPairs
    <3>2. QED
      BY <3>1
  <2>2. ASSUME NEW A, NEW p \in TokenPairs(A) PROVE p # {}
    <3>1. PICK a, b : p = {a, b}
      BY DEF TokenPairs
    <3>2. QED
      BY <3>1
  <2>3. QED
    BY <2>1, <2>2 DEF CandidatePairs
<1>2. \A p \in Candidates(d, t) : p # {} /\ p \subseteq unresolved_atoms(d, t)
  BY <1>1 DEF Candidates
<1>3. unresolved_atoms(d, t) \subseteq AtomIds
  BY AtomsAreIds
<1>4. QED
  BY <1>2, <1>3 DEF MatchEdges

\* What resolve_scored() groups: components of the edges E among the atoms U, and all
\* the other atoms of U one by one.
Grouped(U, E, n, k, sets, score) ==
    /\ \A i \in 1..k : /\ sets[i] # {} /\ sets[i] \subseteq UNION E
                       /\ Component(sets[i], E) /\ score[i] = Confidence(E, sets[i])
    /\ \A i \in 1..n : i \notin 1..k => score[i] = None
    /\ \A i \in 1..n : sets[i] \subseteq U
    /\ \A a \in U : \E i \in 1..n : a \in sets[i]

\* New bags of such groups, and all the candidates, leave a sound database.
LEMMA GroupedSound ==
    ASSUME NEW d \in Database, Sound(d), NEW f \in Database, NEW e \in Database,
           Consistent(e), Continues(d, e), SameRows(f, e),
           Bags(e) = Bags(f), \A b : Members(e, b) = Members(f, b),
           NEW t, NEW thr, NEW n \in Nat, NEW k \in 0..n, NEW sets, NEW score, NEW events,
           NewBagsIn(d, f, n, sets, score, events), GroupEvents(d, thr, k, sets, events),
           Grouped(unresolved_atoms(d, t), MatchEdges(d, t, thr), n, k, sets, score),
           e.cands = d.cands \cup Candidates(d, t)
    PROVE  Sound(e)
<1> DEFINE U == unresolved_atoms(d, t)
           C == Candidates(d, t)
           E == MatchEdges(d, t, thr)
           l == Len(d.bags)
<1>1. /\ \A b \in Bags(e) : b \in Bags(d) \/ \E i \in 1..n : b = l + i
      /\ \A b \in Bags(d) : e.bags[b] = d.bags[b] /\ Members(e, b) = Members(d, b)
      /\ \A i \in 1..n : /\ l + i \in Bags(e) /\ Members(e, l + i) = sets[i]
                         /\ e.bags[l + i].score = score[i]
  BY DEF NewBagsIn, SameRows
<1>2. /\ \A m \in News(d, e) : \E j \in DOMAIN events : e.log[m] = events[j]
      /\ \A j \in DOMAIN events : \E m \in News(d, e) : e.log[m] = events[j]
  BY DEF NewBagsIn, SameRows, News
<1>3. /\ \A m \in DOMAIN d.log : m \in DOMAIN e.log /\ e.log[m] = d.log[m]
      /\ Resolved(d) \subseteq Resolved(e)
  BY DEF Continues
<1>4. /\ \A m \in DOMAIN e.log : m \in DOMAIN d.log \/ m \in News(d, e)
      /\ \A m \in News(d, e) : m \in DOMAIN e.log
  <2>1. /\ DOMAIN d.log = 1..Len(d.log) /\ DOMAIN e.log = 1..Len(e.log)
        /\ Len(d.log) \in Nat /\ Len(e.log) \in Nat
    BY DEF Database
  <2>2. QED
    BY <2>1 DEF News
<1>5. /\ \A i \in 1..k : /\ sets[i] # {} /\ sets[i] \subseteq UNION E
                         /\ Component(sets[i], E) /\ score[i] = Confidence(E, sets[i])
      /\ \A i \in 1..n : i \notin 1..k => score[i] = None
      /\ \A i \in 1..n : sets[i] \subseteq U
      /\ \A a \in U : \E i \in 1..n : a \in sets[i]
  BY DEF Grouped
<1>6. 1..k \subseteq 1..n
  OBVIOUS
<1>7. UNION C \subseteq U
  BY MatchesArePairs
<1>8. U \cap Resolved(d) = {}
  BY DEF unresolved_atoms, Resolved
<1>9. /\ E \subseteq C /\ \A p \in E : Score(p) >= thr
      /\ E = {p \in C : Score(p) >= thr}
  BY DEF MatchEdges
<1>10. /\ UNION d.cands \subseteq Resolved(d)
       /\ \A m \in DOMAIN d.log : d.log[m].kind = "resolve" => d.log[m].atoms \subseteq Resolved(d)
       /\ EarnedScores(d) /\ GroupsAreComponents(d)
  BY DEF Sound, Settled
<1>11. e.cands = d.cands \cup C
  OBVIOUS
<1> HIDE DEF U, C, E, l
<1>12. U \subseteq Resolved(e)
  <2> SUFFICES ASSUME NEW a \in U PROVE \E b \in Bags(e) : a \in Members(e, b)
    BY DEF Resolved
  <2>1. PICK i \in 1..n : a \in sets[i]
    BY <1>5
  <2>2. QED
    BY <2>1, <1>1
<1>13. ASSUME NEW m \in News(d, e), e.log[m].kind = "resolve"
       PROVE  /\ e.log[m].thr = thr
              /\ \E i \in 1..k : e.log[m].bag = l + i /\ e.log[m].atoms = sets[i]
  <2>1. PICK j \in DOMAIN events : e.log[m] = events[j]
    BY <1>2
  <2>2. /\ events[j].thr = thr
        /\ \E i \in 1..k : events[j].bag = l + i /\ events[j].atoms = sets[i]
    BY <2>1, <1>13 DEF GroupEvents, l
  <2>3. QED
    BY <2>1, <2>2
<1>14. ASSUME NEW i \in 1..k
       PROVE  \E m \in DOMAIN e.log :
                /\ e.log[m].kind = "resolve" /\ e.log[m].thr = thr
                /\ e.log[m].bag = l + i /\ e.log[m].atoms = sets[i]
  <2>1. PICK j \in DOMAIN events :
            /\ events[j].kind = "resolve" /\ events[j].thr = thr
            /\ events[j].bag = l + i /\ events[j].atoms = sets[i]
    BY DEF GroupEvents, l
  <2>2. QED
    BY <2>1, <1>2, <1>4
<1>15. Settled(e)
  <2>1. UNION e.cands \subseteq Resolved(e)
    BY <1>3, <1>7, <1>10, <1>11, <1>12
  <2>2. ASSUME NEW m \in DOMAIN e.log, e.log[m].kind = "resolve"
        PROVE  e.log[m].atoms \subseteq Resolved(e)
    <3>1. CASE m \in DOMAIN d.log
      BY <2>2, <3>1, <1>3, <1>10
    <3>2. CASE m \in News(d, e)
      BY <2>2, <3>2, <1>5, <1>6, <1>12, <1>13
    <3>3. QED
      BY <3>1, <3>2, <1>4
  <2>3. QED
    BY <2>1, <2>2 DEF Settled
<1>16. EarnedScores(e)
  <2> SUFFICES ASSUME NEW b \in Bags(e), e.bags[b].score # None, Members(e, b) # {}
               PROVE  /\ e.bags[b].score # {} /\ UNION e.bags[b].score = Members(e, b)
                      /\ \E m \in DOMAIN e.log :
                           /\ e.log[m].kind = "resolve" /\ e.log[m].bag = b
                           /\ e.log[m].atoms = Members(e, b)
                           /\ \A p \in e.bags[b].score : Score(p) >= e.log[m].thr
    BY DEF EarnedScores
  <2>1. CASE b \in Bags(d)
    <3>1. e.bags[b] = d.bags[b] /\ Members(e, b) = Members(d, b)
      BY <2>1, <1>1
    <3>2. /\ d.bags[b].score # {} /\ UNION d.bags[b].score = Members(d, b)
          /\ \E m \in DOMAIN d.log :
               /\ d.log[m].kind = "resolve" /\ d.log[m].bag = b
               /\ d.log[m].atoms = Members(d, b)
               /\ \A p \in d.bags[b].score : Score(p) >= d.log[m].thr
      BY <2>1, <3>1, <1>10 DEF EarnedScores
    <3>3. QED
      BY <3>1, <3>2, <1>3
  <2>2. CASE b \notin Bags(d)
    <3>1. PICK i \in 1..n : b = l + i
      BY <2>2, <1>1
    <3>2. Members(e, b) = sets[i] /\ e.bags[b].score = score[i]
      BY <3>1, <1>1
    <3>3. i \in 1..k
      BY <3>2, <1>5
    <3>4. /\ score[i] = Confidence(E, sets[i])
          /\ Confidence(E, sets[i]) # {} /\ UNION Confidence(E, sets[i]) = sets[i]
      BY <3>3, <1>5, ConfidenceCovers
    <3>5. \A p \in score[i] : Score(p) >= thr
      BY <3>4, <1>9 DEF Confidence
    <3>6. PICK m \in DOMAIN e.log :
                /\ e.log[m].kind = "resolve" /\ e.log[m].thr = thr
                /\ e.log[m].bag = l + i /\ e.log[m].atoms = sets[i]
      BY <3>3, <1>14
    <3>7. QED
      BY <3>1, <3>2, <3>4, <3>5, <3>6
  <2>3. QED
    BY <2>1, <2>2
<1>17. GroupsAreComponents(e)
  <2> SUFFICES ASSUME NEW m \in DOMAIN e.log, e.log[m].kind = "resolve"
               PROVE  Component(e.log[m].atoms, {p \in e.cands : Score(p) >= e.log[m].thr})
    BY DEF GroupsAreComponents
  <2> DEFINE A == e.log[m].atoms
             F == {p \in e.cands : Score(p) >= e.log[m].thr}
  <2>1. CASE m \in DOMAIN d.log
    <3> DEFINE D == {p \in d.cands : Score(p) >= e.log[m].thr}
    <3>1. e.log[m] = d.log[m]
      BY <2>1, <1>3
    <3>2. Component(A, D) /\ A \subseteq Resolved(d)
      BY <2>1, <3>1, <1>10 DEF GroupsAreComponents
    <3>3. D \subseteq F /\ \A p \in F \ D : p \in C
      BY <1>11
    <3> HIDE DEF A, D, F
    <3>4. \A p \in F \ D : p \cap A = {}
      BY <3>2, <3>3, <1>7, <1>8
    <3>5. Component(A, F)
      BY <3>2, <3>3, <3>4, ComponentStays
    <3>6. QED
      BY <3>5 DEF A, F
  <2>2. CASE m \in News(d, e)
    <3>1. PICK i \in 1..k : A = sets[i]
      BY <2>2, <1>13
    <3>2. e.log[m].thr = thr
      BY <2>2, <1>13
    <3>3. Component(A, E) /\ A \subseteq U
      BY <3>1, <1>5, <1>6
    <3>4. E \subseteq F /\ \A p \in F \ E : p \in d.cands
      BY <3>2, <1>9, <1>11
    <3> HIDE DEF A, F
    <3>5. \A p \in F \ E : p \cap A = {}
      BY <3>3, <3>4, <1>8, <1>10
    <3>6. Component(A, F)
      BY <3>3, <3>4, <3>5, ComponentStays
    <3>7. QED
      BY <3>6 DEF A, F
  <2>3. QED
    BY <2>1, <2>2, <1>4
<1>18. QED
  BY <1>15, <1>16, <1>17 DEF Sound

\* resolve_scored(): the components of the matches, and the atoms that remain.
LEMMA ResolveScoredSound ==
    ASSUME NEW d \in Database, Sound(d), NEW t \in Types, NEW thr \in Thresholds,
           NEW order \in SetToSeqs(MatchEdges(d, t, thr)),
           NEW comps \in Listings(Cluster(order)),
           NEW singles \in
                Listings({{a} : a \in unresolved_atoms(d, t) \ UNION Cluster(order)})
    PROVE  LET e == ResolveScored(d, t, thr, comps, singles)
           IN  e \in Database /\ Sound(e) /\ Continues(d, e)
<1> DEFINE U == unresolved_atoms(d, t)
           P == Cluster(order)
           R == {{a} : a \in U \ UNION P}
           k == Len(comps)
           r == Len(singles)
           sets == comps \o singles
           edges == MatchEdges(d, t, thr)
           events == ScoredEvents(d, thr, k, sets, r)
           key == [i \in DOMAIN sets |-> IF i <= k THEN Atom[Least(sets[i])].key ELSE None]
           score == [i \in DOMAIN sets |-> IF i <= k THEN Confidence(edges, sets[i]) ELSE None]
<1>1. P \subseteq SUBSET U /\ Disjoint(P)
  BY ClusterParts, EdgesAreUnresolved
<1>2. R \subseteq SUBSET U /\ Disjoint(R)
  BY DEF Disjoint
<1>3. /\ comps \in Seq(SUBSET AtomIds) /\ k \in Nat /\ NewBagSets(d, t, k, comps)
      /\ \A i \in 1..k : comps[i] \in P
      /\ \A A \in P : \E i \in 1..k : comps[i] = A
  BY <1>1, ListedSets
<1>4. /\ singles \in Seq(SUBSET AtomIds) /\ r \in Nat /\ NewBagSets(d, t, r, singles)
      /\ \A i \in 1..r : singles[i] \in R
      /\ \A A \in R : \E i \in 1..r : singles[i] = A
  <2>1. singles \in Listings(R)
    OBVIOUS
  <2> HIDE DEF R
  <2>2. QED
    BY <1>2, <2>1, ListedSets DEF U
<1>5. /\ \A A \in P, B \in R : A \cap B = {}
      /\ \A a \in U : (\E A \in P : a \in A) \/ {a} \in R
  OBVIOUS
<1>5a. \A A \in P : A # {} /\ A \subseteq UNION edges /\ Component(A, edges)
  <2> DEFINE E == edges
  <2>1. E \in SUBSET ((SUBSET AtomIds) \ {{}}) /\ order \in SetToSeqs(E)
    BY MatchesArePairs
  <2> HIDE DEF E
  <2>2. \A A \in P : A # {} /\ A \subseteq UNION E /\ Component(A, E)
    BY <2>1, ClustersAreComponents
  <2>3. QED
    BY <2>2 DEF E
<1>6. edges \subseteq SUBSET AtomIds
  BY AtomsAreIds DEF MatchEdges, Candidates
<1>7. thr \in Nat
  BY ResolverAssumption
<1> HIDE DEF U, P, R, k, r, sets, edges
<1>8. /\ sets \in Seq(SUBSET AtomIds) /\ Len(sets) = k + r /\ DOMAIN sets = 1..(k + r)
      /\ \A i \in 1..k : sets[i] = comps[i]
      /\ \A j \in 1..r : sets[k + j] = singles[j]
  BY <1>3, <1>4, Concatenated DEF k, r, sets
<1>9. \A i \in 1..(k + r) : i \in 1..k \/ \E j \in 1..r : i = k + j
  <2> SUFFICES ASSUME NEW i \in 1..(k + r), i \notin 1..k
               PROVE  \E j \in 1..r : i = k + j
    OBVIOUS
  <2>1. i - k \in 1..r /\ i = k + (i - k)
    BY <1>3, <1>4
  <2>2. QED
    BY <2>1
<1>10. NewBagSets(d, t, k + r, sets)
  <2>1. \A i \in 1..(k + r) : sets[i] \in SUBSET U /\ sets[i] # {}
    BY <1>3, <1>4, <1>8, <1>9 DEF NewBagSets, U
  <2>2. ASSUME NEW i \in 1..(k + r), NEW j \in 1..(k + r), i # j
        PROVE  sets[i] \cap sets[j] = {}
    <3>1. CASE i \in 1..k /\ j \in 1..k
      BY <2>2, <3>1, <1>3, <1>8 DEF NewBagSets
    <3>2. CASE i \in 1..k /\ j \notin 1..k
      <4>1. PICK x \in 1..r : j = k + x
        BY <3>2, <1>9
      <4>2. sets[i] \in P /\ sets[j] \in R
        BY <3>2, <4>1, <1>3, <1>4, <1>8
      <4>3. QED
        BY <4>2, <1>5
    <3>3. CASE i \notin 1..k /\ j \in 1..k
      <4>1. PICK x \in 1..r : i = k + x
        BY <3>3, <1>9
      <4>2. sets[i] \in R /\ sets[j] \in P
        BY <3>3, <4>1, <1>3, <1>4, <1>8
      <4>3. QED
        BY <4>2, <1>5
    <3>4. CASE i \notin 1..k /\ j \notin 1..k
      <4>1. PICK x \in 1..r : i = k + x
        BY <3>4, <1>9
      <4>2. PICK y \in 1..r : j = k + y
        BY <3>4, <1>9
      <4>3. x # y
        BY <2>2, <4>1, <4>2
      <4>4. QED
        BY <4>1, <4>2, <4>3, <1>4, <1>8 DEF NewBagSets
    <3>5. QED
      BY <3>1, <3>2, <3>3, <3>4
  <2>3. sets \in [1..(k + r) -> SUBSET U]
    BY <1>8, <2>1
  <2>4. QED
    BY <2>1, <2>2, <2>3 DEF NewBagSets, U
<1>11. \A i \in 1..(k + r) : Least(sets[i]) \in AtomIds
  <2> SUFFICES ASSUME NEW i \in 1..(k + r) PROVE Least(sets[i]) \in AtomIds
    OBVIOUS
  <2>1. sets[i] \in SUBSET AtomIds /\ sets[i] # {}
    BY <1>8, <1>10 DEF NewBagSets
  <2>2. sets[i] \subseteq Nat
    BY <2>1 DEF AtomIds
  <2>3. QED
    BY <2>1, <2>2, LeastIsIn
<1>12. key \in [1..(k + r) -> Keys \cup {None}]
  BY <1>8, <1>11 DEF Keys
<1>13. /\ score \in [1..(k + r) -> (SUBSET SUBSET AtomIds) \cup {None}]
       /\ \A i \in 1..(k + r) : i \in 1..k => score[i] = Confidence(edges, sets[i])
       /\ \A i \in 1..(k + r) : i \notin 1..k => score[i] = None
  <2>1. score \in [1..(k + r) -> (SUBSET SUBSET AtomIds) \cup {None}]
    BY <1>6, <1>8 DEF Confidence
  <2>2. \A i \in 1..(k + r) : i \in 1..k <=> i <= k
    BY <1>3
  <2>3. QED
    BY <1>8, <2>1, <2>2
<1> HIDE DEF key, score
<1>14. /\ events \in Seq(EventRow) /\ NewBagEvents(d, k + r, sets, events)
       /\ GroupEvents(d, thr, k, sets, events)
  BY <1>3, <1>4, <1>7, <1>10, ScoredEventRows
<1>14a. Grouped(U, edges, k + r, k, sets, score)
  <2>1. 1..k \subseteq 1..(k + r) /\ \A j \in 1..r : k + j \in 1..(k + r)
    BY <1>3, <1>4
  <2>2. \A i \in 1..k : /\ sets[i] # {} /\ sets[i] \subseteq UNION edges
                       /\ Component(sets[i], edges) /\ score[i] = Confidence(edges, sets[i])
    BY <2>1, <1>3, <1>8, <1>13, <1>5a
  <2>3. \A i \in 1..(k + r) : sets[i] \subseteq U
    BY <1>10 DEF NewBagSets, U
  <2>4. ASSUME NEW a \in U PROVE \E i \in 1..(k + r) : a \in sets[i]
    <3>1. CASE \E A \in P : a \in A
      BY <3>1, <2>1, <1>3, <1>8
    <3>2. CASE {a} \in R
      <4>1. PICK j \in 1..r : singles[j] = {a}
        BY <3>2, <1>4
      <4>2. k + j \in 1..(k + r) /\ a \in sets[k + j]
        BY <4>1, <2>1, <1>8
      <4>3. QED
        BY <4>2
    <3>3. QED
      BY <3>1, <3>2, <1>5
  <2>5. QED
    BY <2>2, <2>3, <2>4, <1>13 DEF Grouped
<1> DEFINE f == WithBags(d, t, sets, key, score, events)
           e == [f EXCEPT !.cands = f.cands \cup Candidates(d, t)]
<1> HIDE DEF events
<1>15. /\ f \in Database /\ Consistent(f) /\ Continues(d, f)
       /\ NewBagsIn(d, f, k + r, sets, score, events)
  <2> DEFINE n == k + r
  <2>1. /\ n \in Nat /\ NewBagSets(d, t, n, sets) /\ Consistent(d)
        /\ key \in [1..n -> Keys \cup {None}]
        /\ score \in [1..n -> (SUBSET SUBSET AtomIds) \cup {None}]
        /\ events \in Seq(EventRow) /\ NewBagEvents(d, n, sets, events)
    BY <1>3, <1>4, <1>10, <1>12, <1>13, <1>14 DEF Sound
  <2> HIDE DEF n, f
  <2>2. f = WithBags(d, t, sets, key, score, events)
    BY DEF f
  <2>3. /\ f \in Database /\ Consistent(f) /\ Continues(d, f)
        /\ NewBagsIn(d, f, n, sets, score, events)
    BY <2>1, <2>2, WithBagsConsistent
  <2>4. QED
    BY <2>3 DEF n
<1>16. ResolveScored(d, t, thr, comps, singles) = e
  BY DEF ResolveScored, ScoredEvents, key, score, edges, sets, k, r, events
<1> HIDE DEF f
<1>17. Candidates(d, t) \subseteq SUBSET AtomIds
  BY AtomsAreIds DEF Candidates
<1>18. e \in Database /\ SameRows(f, e) /\ e.cands = d.cands \cup Candidates(d, t)
  <2> DEFINE cs == f.cands \cup Candidates(d, t)
  <2>1. f.cands = d.cands
    BY <1>15 DEF NewBagsIn
  <2>2. cs \in SUBSET SUBSET AtomIds /\ f.cands \subseteq cs /\ cs = d.cands \cup Candidates(d, t)
    BY <2>1, <1>15, <1>17 DEF Database
  <2>3. e = [f EXCEPT !.cands = cs] /\ f \in Database
    BY <1>15
  <2> HIDE DEF cs, e
  <2>4. e \in Database
    BY <2>2, <2>3 DEF Database
  <2>5. /\ e.bags = f.bags /\ e.member = f.member /\ e.log = f.log
        /\ f.natoms <= e.natoms /\ e.cands = cs
    BY <2>3 DEF Database
  <2>6. QED
    BY <2>2, <2>4, <2>5 DEF SameRows
<1> HIDE DEF e
<1>19. /\ Consistent(e) /\ Continues(f, e)
       /\ Bags(e) = Bags(f) /\ \A b : Members(e, b) = Members(f, b)
  BY <1>15, <1>18, SameRowsConsistent
<1>20. Continues(d, e)
  BY <1>15, <1>18, <1>19, ContinuesOn
<1>21. Sound(e)
  <2> DEFINE n == k + r
  <2>1. /\ n \in Nat /\ k \in 0..n
        /\ NewBagsIn(d, f, n, sets, score, events) /\ GroupEvents(d, thr, k, sets, events)
        /\ Grouped(unresolved_atoms(d, t), MatchEdges(d, t, thr), n, k, sets, score)
    BY <1>3, <1>4, <1>14, <1>15, <1>14a DEF U, edges
  <2> HIDE DEF n
  <2>2. QED
    BY <2>1, <1>15, <1>18, <1>19, <1>20, GroupedSound
<1>22. QED
  BY <1>16, <1>18, <1>20, <1>21

-----------------------------------------------------------------------------
(* Transactions.                                                           *)

\* An empty database is sound.
LEMMA NewDatabaseSound == NewDatabase \in Database /\ Sound(NewDatabase)
<1> DEFINE d == NewDatabase
<1>1. /\ d.natoms = 0 /\ d.bags = <<>> /\ d.member = {} /\ d.log = <<>> /\ d.cands = {}
      /\ d.sealed = FALSE
  BY DEF NewDatabase
<1>2. d \in Database
  BY MatchingAssumption DEF NewDatabase, Database
<1>3. Bags(d) = {} /\ AtomsIn(d) = {} /\ DOMAIN d.log = {}
  BY <1>1 DEF Bags, AtomsIn
<1> HIDE DEF d
<1>4. OneBagPerAtom(d)
  BY <1>1, <1>3 DEF OneBagPerAtom
<1>5. PlacedByLog(d)
  BY <1>3 DEF PlacedByLog
<1>6. RetiredByLog(d)
  BY <1>3 DEF RetiredByLog
<1>7. NamedByLog(d)
  BY <1>3 DEF NamedByLog
<1>8. Settled(d) /\ EarnedScores(d) /\ GroupsAreComponents(d)
  BY <1>1, <1>3 DEF Settled, EarnedScores, GroupsAreComponents
<1>10. Sound(d)
  BY <1>4, <1>5, <1>6, <1>7, <1>8 DEF Sound, Consistent
<1>9. QED
  BY <1>2, <1>10 DEF d

\* Whoever may write sees a sound database that continues what is committed.
LEMMA WriterSeesCurrent ==
    ASSUME ResolverInv, NEW c \in Conns, MayWrite(c)
    PROVE  /\ View(c) \in Database /\ Sound(View(c))
           /\ Continues(db, View(c)) /\ Covered(db, View(c))
           /\ lock \in {c, None}
           /\ mode[c] # "idle" => snap[c] = db
<1>1. Continues(db, db) /\ Covered(db, db)
  BY ContinuesItself DEF ResolverInv, TypeOK, Covered
<1>2. c # None
  BY ResolverAssumption
<1>3. CASE lock = c
  <2>1. View(c) = work
    BY <1>3 DEF View
  <2>2. QED
    BY <1>2, <1>3, <2>1 DEF ResolverInv, TypeOK, LockedViewIsCurrent
<1>4. CASE lock # c
  <2>1. lock = None /\ (mode[c] # "idle" => snap[c] = db)
    BY <1>4 DEF MayWrite
  <2>2. View(c) = db
    BY <1>4, <2>1 DEF View
  <2>3. QED
    BY <1>1, <2>1, <2>2 DEF ResolverInv, TypeOK
<1>5. QED
  BY <1>3, <1>4

\* A call that is done leaves its work with the lock.
LEMMA WriteKeeps ==
    ASSUME ResolverInv, NEW c \in Conns, MayWrite(c), NEW d, d \in Database, Sound(d),
           Continues(View(c), d), Write(c, d)
    PROVE  ResolverInv'
<1> DEFINE e == [d EXCEPT !.sealed = d.sealed /\ d = View(c)]
<1>1. /\ View(c) \in Database /\ Continues(db, View(c)) /\ Covered(db, View(c))
      /\ mode[c] # "idle" => snap[c] = db
  BY WriterSeesCurrent
<1>2. /\ e \in Database /\ SameBags(d, e) /\ e.sealed = (d.sealed /\ d = View(c))
      /\ Content(e) = Content(d)
  <2> DEFINE now == d.sealed /\ d = View(c)
  <2>1. now \in BOOLEAN
    OBVIOUS
  <2>2. e = [d EXCEPT !.sealed = now]
    OBVIOUS
  <2> HIDE DEF now, e
  <2>3. e \in Database
    BY <2>1, <2>2 DEF Database
  <2>4. /\ e.natoms = d.natoms /\ e.bags = d.bags /\ e.member = d.member /\ e.log = d.log
        /\ e.cands = d.cands /\ d.natoms \in Nat
    BY <2>2 DEF Database
  <2>5. e.sealed = now
    BY <2>2 DEF Database
  <2>6. QED
    BY <2>3, <2>4, <2>5 DEF now, SameBags, Content
<1> HIDE DEF e
<1>3. Sound(e) /\ Continues(d, e)
  BY <1>2, SameBagsSound
<1>4. db \in Database
  BY DEF ResolverInv, TypeOK
<1>5. Continues(db, e)
  BY <1>1, <1>2, <1>3, <1>4, ContinuesOn
<1>6. Covered(db, e)
  BY <1>1, <1>2 DEF Covered
<1>7. /\ lock' = c /\ work' = e /\ db' = db
      /\ snap' = [snap EXCEPT ![c] = IF mode[c] = "idle" THEN db ELSE snap[c]]
      /\ mode' = [mode EXCEPT ![c] = IF mode[c] = "idle" THEN "call" ELSE mode[c]]
  BY DEF Write, e
<1>8. c # None
  BY ResolverAssumption
<1>9. TypeOK'
  BY <1>2, <1>4, <1>7 DEF ResolverInv, TypeOK
<1>10. LockedViewIsCurrent'
  <2>1. mode'[c] # "idle" /\ snap'[c] = db
    BY <1>1, <1>7 DEF ResolverInv, TypeOK
  <2>2. QED
    BY <1>7, <2>1 DEF LockedViewIsCurrent
<1>11. Sound(db)' /\ Sound(work)'
  <2>1. Sound(db') /\ Sound(work')
    BY <1>3, <1>7 DEF ResolverInv
  <2>2. QED
    BY <2>1 DEF Sound, Consistent, OneBagPerAtom, PlacedByLog, RetiredByLog, NamedByLog, Settled,
       EarnedScores, GroupsAreComponents, Component, Resolved, Bags, AtomsIn, Members, Places
<1>12. QED
  BY <1>5, <1>6, <1>7, <1>9, <1>10, <1>11 DEF ResolverInv

\* The end of a transaction with a new committed database, or the old one.
LEMMA EndKeeps ==
    ASSUME ResolverInv, NEW c \in Conns, mode[c] # "idle" \/ MayWrite(c), End(c),
           db' \in Database, Sound(db'), lock \notin {c, None} => db' = db
    PROVE  ResolverInv'
<1>1. /\ NewDatabase \in Database /\ Sound(NewDatabase)
  BY NewDatabaseSound
<1>2. c # None
  BY ResolverAssumption
<1>3. TypeOK'
  BY <1>1 DEF ResolverInv, TypeOK, End
<1>4. LockedViewIsCurrent'
  <2> SUFFICES ASSUME NEW f \in Conns, lock' = f PROVE mode'[f] # "idle" /\ snap'[f] = db'
    BY DEF LockedViewIsCurrent
  <2>1. lock \notin {c, None} /\ lock = f
    BY ResolverAssumption DEF End
  <2>2. mode[f] # "idle" /\ snap[f] = db
    BY <2>1 DEF ResolverInv, LockedViewIsCurrent
  <2>3. mode' = [mode EXCEPT ![c] = "idle"] /\ snap' = [snap EXCEPT ![c] = NewDatabase]
    BY DEF End
  <2>4. QED
    BY <2>1, <2>2, <2>3 DEF ResolverInv, TypeOK
<1>5. Sound(db)' /\ Sound(work)'
  <2>1. Sound(db') /\ Sound(work')
    BY <1>1 DEF ResolverInv, End
  <2>2. QED
    BY <2>1 DEF Sound, Consistent, OneBagPerAtom, PlacedByLog, RetiredByLog, NamedByLog, Settled,
       EarnedScores, GroupsAreComponents, Component, Resolved, Bags, AtomsIn, Members, Places
<1>6. CASE lock \in {c, None}
  BY <1>3, <1>4, <1>5, <1>6 DEF ResolverInv, End
<1>7. CASE lock \notin {c, None}
  <2>1. lock' = lock /\ work' = work /\ db' = db
    BY <1>7 DEF End
  <2>2. QED
    BY <1>3, <1>4, <1>5, <2>1, <1>7 DEF ResolverInv
<1>8. QED
  BY <1>6, <1>7

\* ResolverInv holds at first.
LEMMA ResolverInit == Init => ResolverInv
<1> SUFFICES ASSUME Init PROVE ResolverInv
  OBVIOUS
<1>1. NewDatabase \in Database /\ Sound(NewDatabase)
  BY NewDatabaseSound
<1>2. TypeOK
  BY <1>1 DEF Init, TypeOK
<1>3. LockedViewIsCurrent
  BY ResolverAssumption DEF Init, LockedViewIsCurrent
<1>4. QED
  BY <1>1, <1>2, <1>3 DEF Init, ResolverInv

\* Every step keeps ResolverInv.
LEMMA ResolverStep == ResolverInv /\ [Next]_vars => ResolverInv'
<1> SUFFICES ASSUME ResolverInv, [Next]_vars PROVE ResolverInv'
  OBVIOUS
<1>1. ASSUME NEW c \in Conns, BeginOuter(c) PROVE ResolverInv'
  <2>1. db' = db /\ work' = work /\ lock' = lock
    BY <1>1 DEF BeginOuter
  <2>2. TypeOK'
    BY <1>1 DEF BeginOuter, ResolverInv, TypeOK
  <2>3. LockedViewIsCurrent'
    BY <1>1 DEF BeginOuter, ResolverInv, TypeOK, LockedViewIsCurrent
  <2>4. Sound(db)' /\ Sound(work)'
    <3>1. Sound(db') /\ Sound(work')
      BY <2>1 DEF ResolverInv
    <3>2. QED
      BY <3>1 DEF Sound, Consistent, OneBagPerAtom, PlacedByLog, RetiredByLog, NamedByLog, Settled,
         EarnedScores, GroupsAreComponents, Component, Resolved, Bags, AtomsIn, Members, Places
  <2>5. QED
    BY <2>1, <2>2, <2>3, <2>4 DEF ResolverInv
<1>2. ASSUME NEW c \in Conns, IngestAtom(c) PROVE ResolverInv'
  <2> DEFINE d == View(c)
             e == [d EXCEPT !.natoms = d.natoms + 1]
  <2>1. MayWrite(c) /\ d.natoms < MaxAtoms /\ Write(c, e)
    BY <1>2 DEF IngestAtom
  <2>2. d \in Database /\ Sound(d)
    BY <2>1, WriterSeesCurrent
  <2> HIDE DEF d
  <2>3. e \in Database /\ SameBags(d, e)
    <3> DEFINE n == d.natoms + 1
    <3>1. d.natoms \in Nat /\ MaxAtoms \in Nat
      BY <2>2, MatchingAssumption DEF Database
    <3>2. n \in 0..MaxAtoms /\ d.natoms <= n
      BY <2>1, <3>1
    <3> HIDE DEF n
    <3>3. e \in Database
      BY <2>2, <3>2 DEF Database, n
    <3>4. SameBags(d, e)
      BY <2>2, <3>2 DEF Database, SameBags, n
    <3>5. QED
      BY <3>3, <3>4
  <2> HIDE DEF e
  <2>4. Sound(e) /\ Continues(d, e)
    BY <2>2, <2>3, SameBagsSound
  <2>5. QED
    BY <2>1, <2>3, <2>4, WriteKeeps DEF d
<1>3. ASSUME NEW c \in Conns, AtomizeDb(c) PROVE ResolverInv'
  <2> DEFINE d == View(c)
  <2>1. PICK n \in (d.natoms + 1)..MaxAtoms : db' = [d EXCEPT !.natoms = n, !.sealed = FALSE]
    BY <1>3 DEF AtomizeDb
  <2>2. MayWrite(c) /\ End(c)
    BY <1>3 DEF AtomizeDb
  <2>3. d \in Database /\ Sound(d) /\ lock \in {c, None}
    BY <2>2, WriterSeesCurrent
  <2> HIDE DEF d
  <2>4. db' \in Database /\ SameBags(d, db')
    <3> DEFINE e == db'
    <3>1. e = [d EXCEPT !.natoms = n, !.sealed = FALSE]
      BY <2>1
    <3>2. d.natoms \in Nat /\ MaxAtoms \in Nat
      BY <2>3, MatchingAssumption DEF Database
    <3>3. n \in 0..MaxAtoms /\ d.natoms <= n
      BY <3>2
    <3> HIDE DEF e
    <3>4. e \in Database
      BY <2>3, <3>1, <3>3 DEF Database
    <3>5. SameBags(d, e)
      BY <2>3, <3>1, <3>3 DEF Database, SameBags
    <3>6. QED
      BY <3>4, <3>5 DEF e
  <2>5. Sound(db')
    BY <2>3, <2>4, SameBagsSound
  <2>6. QED
    BY <2>2, <2>3, <2>4, <2>5, EndKeeps
<1>4. ASSUME NEW c \in Conns, create_bag(c) PROVE ResolverInv'
  <2>1. MayWrite(c)
    BY <1>4 DEF create_bag
  <2>0. PICK t \in Types : \E A \in (SUBSET unresolved_atoms(View(c), t)) \ {{}} :
            Write(c, CreateBag(View(c), t, A, None))
    BY <1>4 DEF create_bag
  <2>2. PICK A \in (SUBSET unresolved_atoms(View(c), t)) \ {{}} :
            Write(c, CreateBag(View(c), t, A, None))
    BY <2>0
  <2>3. View(c) \in Database /\ Sound(View(c))
    BY <2>1, WriterSeesCurrent
  <2> DEFINE e == CreateBag(View(c), t, A, None)
  <2>4. e \in Database /\ Sound(e) /\ Continues(View(c), e)
    BY <2>2, <2>3, CreateBagSound
  <2> HIDE DEF e
  <2>5. Write(c, e)
    BY <2>2 DEF e
  <2>6. QED
    BY <2>1, <2>4, <2>5, WriteKeeps
<1>5. ASSUME NEW c \in Conns, merge_bags(c) PROVE ResolverInv'
  <2>1. MayWrite(c)
    BY <1>5 DEF merge_bags
  <2>0. PICK n \in 2..MaxBags : \E order \in [1..n -> Bags(View(c))] :
            /\ \A i, j \in 1..n : i # j => order[i] # order[j]
            /\ \A i \in 1..n : View(c).bags[order[i]].type = View(c).bags[order[1]].type
            /\ \A i \in 1..n : Members(View(c), order[i]) # {}
            /\ Write(c, MergeBags(View(c), order))
    BY <1>5 DEF merge_bags
  <2>2. PICK order \in [1..n -> Bags(View(c))] :
            /\ \A i, j \in 1..n : i # j => order[i] # order[j]
            /\ \A i \in 1..n : View(c).bags[order[i]].type = View(c).bags[order[1]].type
            /\ \A i \in 1..n : Members(View(c), order[i]) # {}
            /\ Write(c, MergeBags(View(c), order))
    BY <2>0
  <2>3. View(c) \in Database /\ Sound(View(c))
    BY <2>1, WriterSeesCurrent
  <2>4. n \in Nat /\ n >= 2
    OBVIOUS
  <2>5. Mergeable(View(c), n, order)
    BY <2>2 DEF Mergeable
  <2> DEFINE e == MergeBags(View(c), order)
  <2>6. e \in Database /\ Sound(e) /\ Continues(View(c), e)
    BY <2>3, <2>4, <2>5, MergeBagsSound
  <2> HIDE DEF e
  <2>7. Write(c, e)
    BY <2>2 DEF e
  <2>8. QED
    BY <2>1, <2>6, <2>7, WriteKeeps
<1>6. ASSUME NEW c \in Conns, split_bag(c) PROVE ResolverInv'
  <2>1. MayWrite(c)
    BY <1>6 DEF split_bag
  <2>0. PICK b \in Bags(View(c)) : \E A \in SUBSET Members(View(c), b) :
            /\ A # {} /\ A # Members(View(c), b)
            /\ Write(c, SplitBag(View(c), b, A))
    BY <1>6 DEF split_bag
  <2>2. PICK A \in SUBSET Members(View(c), b) :
            /\ A # {} /\ A # Members(View(c), b)
            /\ Write(c, SplitBag(View(c), b, A))
    BY <2>0
  <2>3. View(c) \in Database /\ Sound(View(c))
    BY <2>1, WriterSeesCurrent
  <2>4. Splittable(View(c), b, A)
    BY <2>2 DEF Splittable
  <2> DEFINE e == SplitBag(View(c), b, A)
  <2>5. e \in Database /\ Sound(e) /\ Continues(View(c), e)
    BY <2>3, <2>4, SplitBagSound
  <2> HIDE DEF e
  <2>6. Write(c, e)
    BY <2>2 DEF e
  <2>7. QED
    BY <2>1, <2>5, <2>6, WriteKeeps
<1>7. ASSUME NEW c \in Conns, resolve(c) PROVE ResolverInv'
  <2>1. MayWrite(c)
    BY <1>7 DEF resolve
  <2>0. PICK t \in Types : \E sets \in SetToSeqs(ExactGroups(View(c), t)) :
            Write(c, Resolve(View(c), t, sets))
    BY <1>7 DEF resolve
  <2>2. PICK sets \in SetToSeqs(ExactGroups(View(c), t)) :
            Write(c, Resolve(View(c), t, sets))
    BY <2>0
  <2>3. View(c) \in Database /\ Sound(View(c))
    BY <2>1, WriterSeesCurrent
  <2> DEFINE e == Resolve(View(c), t, sets)
  <2>4. e \in Database /\ Sound(e) /\ Continues(View(c), e)
    BY <2>2, <2>3, ResolveSound
  <2> HIDE DEF e
  <2>5. Write(c, e)
    BY <2>2 DEF e
  <2>6. QED
    BY <2>1, <2>4, <2>5, WriteKeeps
<1>8. ASSUME NEW c \in Conns, resolve_scored(c) PROVE ResolverInv'
  <2>1. MayWrite(c)
    BY <1>8 DEF resolve_scored
  <2>2. PICK t \in Types, thr \in Thresholds :
            \E order \in SetToSeqs(MatchEdges(View(c), t, thr)) :
            \E comps \in Listings(Cluster(order)) :
            \E singles \in Listings({{a} : a \in unresolved_atoms(View(c), t)
                                                    \ UNION Cluster(order)}) :
                Write(c, ResolveScored(View(c), t, thr, comps, singles))
    BY <1>8 DEF resolve_scored
  <2>3. PICK order \in SetToSeqs(MatchEdges(View(c), t, thr)) :
            \E comps \in Listings(Cluster(order)) :
            \E singles \in Listings({{a} : a \in unresolved_atoms(View(c), t)
                                                    \ UNION Cluster(order)}) :
                Write(c, ResolveScored(View(c), t, thr, comps, singles))
    BY <2>2
  <2>4. PICK comps \in Listings(Cluster(order)),
             singles \in Listings({{a} : a \in unresolved_atoms(View(c), t)
                                                    \ UNION Cluster(order)}) :
                Write(c, ResolveScored(View(c), t, thr, comps, singles))
    BY <2>3
  <2>5. View(c) \in Database /\ Sound(View(c))
    BY <2>1, WriterSeesCurrent
  <2> DEFINE e == ResolveScored(View(c), t, thr, comps, singles)
  <2>6. e \in Database /\ Sound(e) /\ Continues(View(c), e)
    BY <2>4, <2>5, ResolveScoredSound
  <2> HIDE DEF e
  <2>7. Write(c, e)
    BY <2>4 DEF e
  <2>8. QED
    BY <2>1, <2>6, <2>7, WriteKeeps
<1>9. ASSUME NEW c \in Conns, CallRefused(c) PROVE ResolverInv'
  <2>1. /\ View(c) \in Database /\ Sound(View(c))
        /\ Continues(db, View(c)) /\ Covered(db, View(c)) /\ snap[c] = db
    BY <1>9, WriterSeesCurrent DEF CallRefused
  <2>2. lock' = c /\ work' = View(c) /\ db' = db /\ mode' = mode /\ snap' = snap
    BY <1>9 DEF CallRefused
  <2>3. TypeOK'
    BY <2>1, <2>2 DEF ResolverInv, TypeOK
  <2>4. LockedViewIsCurrent'
    BY <1>9, <2>1, <2>2 DEF CallRefused, LockedViewIsCurrent
  <2>5. Sound(db)' /\ Sound(work)'
    <3>1. Sound(db') /\ Sound(work')
      BY <2>1, <2>2 DEF ResolverInv
    <3>2. QED
      BY <3>1 DEF Sound, Consistent, OneBagPerAtom, PlacedByLog, RetiredByLog, NamedByLog, Settled,
         EarnedScores, GroupsAreComponents, Component, Resolved, Bags, AtomsIn, Members, Places
  <2>6. QED
    BY <2>1, <2>2, <2>3, <2>4, <2>5 DEF ResolverInv
<1>10. ASSUME NEW c \in Conns, Commit(c) PROVE ResolverInv'
  <2>1. End(c) /\ mode[c] # "idle" /\ db' = IF lock = c THEN work ELSE db
    BY <1>10 DEF Commit
  <2>2. db' \in Database /\ Sound(db') /\ (lock \notin {c, None} => db' = db)
    BY <2>1 DEF ResolverInv, TypeOK
  <2>3. QED
    BY <2>1, <2>2, EndKeeps
<1>11. ASSUME NEW c \in Conns, Rollback(c) PROVE ResolverInv'
  <2>1. End(c) /\ mode[c] # "idle" /\ db' = db
    BY <1>11 DEF Rollback
  <2>2. QED
    BY <2>1, EndKeeps DEF ResolverInv, TypeOK
<1>12. ASSUME Seal PROVE ResolverInv'
  <2>1. /\ lock = None /\ db' = [db EXCEPT !.sealed = TRUE]
        /\ lock' = lock /\ mode' = mode /\ snap' = snap /\ work' = work
    BY <1>12 DEF Seal
  <2>2. db \in Database /\ Sound(db)
    BY DEF ResolverInv, TypeOK
  <2>3. db' \in Database /\ SameBags(db, db')
    <3> DEFINE e == db'
    <3>1. e = [db EXCEPT !.sealed = TRUE]
      BY <2>1
    <3> HIDE DEF e
    <3>2. e \in Database
      BY <2>2, <3>1 DEF Database
    <3>3. SameBags(db, e)
      BY <2>2, <3>1 DEF Database, SameBags
    <3>4. QED
      BY <3>2, <3>3 DEF e
  <2>4. Sound(db')
    BY <2>2, <2>3, SameBagsSound
  <2>5. TypeOK'
    BY <2>1, <2>3 DEF ResolverInv, TypeOK
  <2>6. LockedViewIsCurrent'
    BY <2>1, ResolverAssumption DEF LockedViewIsCurrent
  <2>7. Sound(db)' /\ Sound(work)'
    <3>1. Sound(db') /\ Sound(work')
      BY <2>1, <2>4 DEF ResolverInv
    <3>2. QED
      BY <3>1 DEF Sound, Consistent, OneBagPerAtom, PlacedByLog, RetiredByLog, NamedByLog, Settled,
         EarnedScores, GroupsAreComponents, Component, Resolved, Bags, AtomsIn, Members, Places
  <2>8. QED
    BY <2>1, <2>5, <2>6, <2>7 DEF ResolverInv
<1>13. CASE UNCHANGED vars
  <2>1. db' = db /\ work' = work /\ lock' = lock /\ mode' = mode /\ snap' = snap
    BY <1>13 DEF vars
  <2>2. TypeOK' /\ LockedViewIsCurrent'
    BY <2>1 DEF ResolverInv, TypeOK, LockedViewIsCurrent
  <2>3. Sound(db)' /\ Sound(work)'
    <3>1. Sound(db') /\ Sound(work')
      BY <2>1 DEF ResolverInv
    <3>2. QED
      BY <3>1 DEF Sound, Consistent, OneBagPerAtom, PlacedByLog, RetiredByLog, NamedByLog, Settled,
         EarnedScores, GroupsAreComponents, Component, Resolved, Bags, AtomsIn, Members, Places
  <2>4. QED
    BY <2>1, <2>2, <2>3 DEF ResolverInv
<1>14. QED
  BY <1>1, <1>2, <1>3, <1>4, <1>5, <1>6, <1>7, <1>8, <1>9, <1>10, <1>11, <1>12, <1>13
  DEF Next, Call

-----------------------------------------------------------------------------
(* The theorems.                                                           *)

\* The inductive invariant of the resolver: types, one writer with a current view,
\* and sound databases, committed and being written (resolver.py).
THEOREM ResolverSound == Spec => []ResolverInv
<1>1. Init => ResolverInv
  BY ResolverInit
<1>2. ResolverInv /\ [Next]_vars => ResolverInv'
  BY ResolverStep
<1>3. QED
  BY <1>1, <1>2, PTL DEF Spec

\* No interleaving of the calls puts an atom in two bags or in one of another type.
THEOREM AtomsInOneBag == Spec => []Partitioned
<1>1. ResolverInv => Partitioned
  BY DEF ResolverInv, Sound, Consistent, Partitioned, Visible
<1>2. QED
  BY <1>1, ResolverSound, PTL

\* The event log alone says which bag has which atoms.
THEOREM LogTellsPlaces == Spec => []HistoryPlaces
<1>1. ResolverInv => HistoryPlaces
  BY DEF ResolverInv, Sound, Consistent, HistoryPlaces, Visible
<1>2. QED
  BY <1>1, ResolverSound, PTL

\* The empty bags are those that a merge retired.
THEOREM OnlyMergesRetire == Spec => []RetiredStayEmpty
<1>1. ResolverInv => RetiredStayEmpty
  BY DEF ResolverInv, Sound, Consistent, RetiredStayEmpty, Visible
<1>2. QED
  BY <1>1, ResolverSound, PTL

\* A confidence is about the members that a bag has, and joins them by edges that reached
\* the threshold of the call (resolver.py resolve_scored, merge_bags, split_bag).
THEOREM ScoresAreEarned == Spec => []ScoreIsEarned
<1>1. ResolverInv => ScoreIsEarned
  BY DEF ResolverInv, Sound, ScoreIsEarned, Visible
<1>2. QED
  BY <1>1, ResolverSound, PTL

\* Every group of resolve_scored() is a component of the candidates that reached its
\* threshold, among all the candidates there ever are (matching.py cluster).
THEOREM GroupsAreConnected == Spec => []ScoredAreComponents
<1>1. ResolverInv => ScoredAreComponents
  BY DEF ResolverInv, Sound, ScoredAreComponents, Visible
<1>2. QED
  BY <1>1, ResolverSound, PTL

\* What a step may do to the committed database.
LEMMA CommitsContinue ==
    ASSUME ResolverInv, [Next]_vars
    PROVE  Continues(db, db') /\ (db'.sealed => Content(db') = Content(db))
<1>1. db \in Database
  BY DEF ResolverInv, TypeOK
<1>2. Continues(db, db)
  BY <1>1, ContinuesItself
<1>3. ASSUME NEW c \in Conns, AtomizeDb(c)
      PROVE  Continues(db, db') /\ (db'.sealed => Content(db') = Content(db))
  <2> DEFINE d == View(c)
  <2>1. PICK n \in (d.natoms + 1)..MaxAtoms : db' = [d EXCEPT !.natoms = n, !.sealed = FALSE]
    BY <1>3 DEF AtomizeDb
  <2>2. d \in Database /\ Sound(d) /\ Continues(db, d)
    BY <1>3, WriterSeesCurrent DEF AtomizeDb
  <2> DEFINE e == db'
  <2>3. e = [d EXCEPT !.natoms = n, !.sealed = FALSE]
    BY <2>1
  <2> HIDE DEF d, e
  <2>4. d.natoms \in Nat /\ MaxAtoms \in Nat
    BY <2>2, MatchingAssumption DEF Database
  <2>5. n \in 0..MaxAtoms /\ d.natoms <= n
    BY <2>4
  <2>6. e \in Database
    BY <2>2, <2>3, <2>5 DEF Database
  <2>7. SameBags(d, e)
    BY <2>2, <2>3, <2>5 DEF Database, SameBags
  <2>8. Continues(d, e)
    BY <2>2, <2>6, <2>7, SameBagsSound
  <2>9. e.sealed = FALSE
    BY <2>2, <2>3 DEF Database
  <2>10. QED
    BY <1>1, <2>2, <2>6, <2>8, <2>9, ContinuesOn DEF e
<1>4. ASSUME NEW c \in Conns, Commit(c)
      PROVE  Continues(db, db') /\ (db'.sealed => Content(db') = Content(db))
  <2>1. CASE lock = c
    <3>1. db' = work /\ lock # None
      BY <1>4, <2>1, ResolverAssumption DEF Commit
    <3>2. Continues(db, work) /\ Covered(db, work)
      BY <3>1 DEF ResolverInv
    <3>3. QED
      BY <3>1, <3>2 DEF Covered
  <2>2. CASE lock # c
    BY <1>2, <1>4, <2>2 DEF Commit
  <2>3. QED
    BY <2>1, <2>2
<1>5. CASE Seal
  <2> DEFINE e == db'
  <2>1. e = [db EXCEPT !.sealed = TRUE]
    BY <1>5 DEF Seal
  <2> HIDE DEF e
  <2>2. e \in Database
    BY <1>1, <2>1 DEF Database
  <2>3. SameBags(db, e)
    BY <1>1, <2>1 DEF Database, SameBags
  <2>4. Continues(db, e)
    BY <1>1, <2>2, <2>3, SameBagsSound DEF ResolverInv
  <2>5. Content(e) = Content(db)
    BY <1>1, <2>1 DEF Content, Database
  <2>6. QED
    BY <2>4, <2>5 DEF e
<1>6. CASE UNCHANGED db
  BY <1>2, <1>6
<1>7. ASSUME NEW c \in Conns, NEW d, Write(c, d) PROVE db' = db
  BY <1>7 DEF Write
<1>8. ASSUME NEW c \in Conns, BeginOuter(c) \/ CallRefused(c) \/ Rollback(c) PROVE db' = db
  BY <1>8 DEF BeginOuter, CallRefused, Rollback
<1>9. ASSUME NEW c \in Conns, IngestAtom(c) \/ create_bag(c) \/ merge_bags(c) PROVE db' = db
  BY <1>7, <1>9 DEF IngestAtom, create_bag, merge_bags
<1>10. ASSUME NEW c \in Conns, split_bag(c) \/ resolve(c) \/ resolve_scored(c) PROVE db' = db
  BY <1>7, <1>10 DEF split_bag, resolve, resolve_scored
<1>11. CASE UNCHANGED vars
  BY <1>6, <1>11 DEF vars
<1>12. QED
  BY <1>3, <1>4, <1>5, <1>6, <1>8, <1>9, <1>10, <1>11 DEF Next, Call

\* Committed history is never rewritten.
THEOREM HistoryIsKept == Spec => HistoryOnlyGrows
<1>1. ResolverInv /\ [Next]_vars => [Continues(db, db')]_vars
  BY CommitsContinue
<1>2. QED
  BY <1>1, ResolverSound, PTL DEF Spec, HistoryOnlyGrows

\* A certified database holds what was certified.
THEOREM SealIsRevoked == Spec => SealCovers
<1>1. ResolverInv /\ [Next]_vars => [db'.sealed => Content(db') = Content(db)]_vars
  BY CommitsContinue
<1>2. QED
  BY <1>1, ResolverSound, PTL DEF Spec, SealCovers

\* The bags with members are a partition of the atoms that are resolved.
LEMMA LiveBags ==
    ASSUME NEW d \in Database, Sound(d)
    PROVE  /\ Live(d) \in Abstract!Partitions(AtomsIn(d))
           /\ UNION Live(d) = Resolved(d)
<1>1. Live(d) \subseteq SUBSET AtomsIn(d) /\ {} \notin Live(d)
  BY DEF Live, Members
<1>2. ASSUME NEW x \in Live(d), NEW y \in Live(d), x # y PROVE x \cap y = {}
  <2>1. PICK b \in Bags(d) : x = Members(d, b)
    BY DEF Live
  <2>2. PICK c \in Bags(d) : y = Members(d, c)
    BY DEF Live
  <2>3. QED
    BY <1>2, <2>1, <2>2 DEF Sound, Consistent, OneBagPerAtom
<1>3. ASSUME NEW x \in Live(d), NEW a \in x, NEW b \in x
      PROVE  [i \in AtomIds |-> Atom[i].type][a] = [i \in AtomIds |-> Atom[i].type][b]
  <2>1. PICK c \in Bags(d) : x = Members(d, c)
    BY DEF Live
  <2>2. Atom[a].type = d.bags[c].type /\ Atom[b].type = d.bags[c].type
    BY <2>1 DEF Sound, Consistent, OneBagPerAtom
  <2>3. a \in AtomIds /\ b \in AtomIds
    BY <2>1, AtomsAreIds DEF Members
  <2>4. QED
    BY <2>2, <2>3
<1>4. UNION Live(d) = Resolved(d)
  BY DEF Live, Resolved
<1>5. QED
  BY <1>1, <1>2, <1>3, <1>4 DEF Abstract!Partitions

\* The resolver implements Partition: whatever calls interleave on whatever connections,
\* readers of committed rows see a partition that only gains resolved atoms.
THEOREM ResolverImplementsPartition == Spec => ImplementsPartition
<1>1. Init => Abstract!Init
  <2> SUFFICES ASSUME Init PROVE Abstract!Init
    OBVIOUS
  <2>1. db.natoms = 0 /\ db.bags = <<>>
    BY DEF Init, NewDatabase
  <2>2. AtomsIn(db) = {} /\ Bags(db) = {}
    BY <2>1 DEF AtomsIn, Bags
  <2>3. QED
    BY <2>2 DEF Abstract!Init, Live
<1>2. ResolverInv /\ ResolverInv' /\ [Next]_vars
        => [Abstract!Change]_<<AtomsIn(db), Live(db)>>
  <2> SUFFICES ASSUME ResolverInv, ResolverInv', [Next]_vars PROVE Abstract!Change
    OBVIOUS
  <2>1. Continues(db, db')
    BY CommitsContinue
  <2>2. db \in Database /\ Sound(db) /\ db' \in Database
    BY DEF ResolverInv, TypeOK
  <2>3. Sound(db')
    BY DEF ResolverInv, Sound, Consistent, OneBagPerAtom, PlacedByLog, RetiredByLog, NamedByLog,
           Settled, EarnedScores, GroupsAreComponents, Component, Resolved, Bags, AtomsIn,
           Members, Places
  <2>4. AtomsIn(db') \in SUBSET AtomIds /\ AtomsIn(db) \subseteq AtomsIn(db')
    BY SMTT(30), <2>1, <2>2, AtomsAreIds DEF Continues, AtomsIn, Database
  <2>5. /\ Live(db') \in Abstract!Partitions(AtomsIn(db'))
        /\ UNION Live(db') = Resolved(db') /\ UNION Live(db) = Resolved(db)
    BY <2>2, <2>3, LiveBags
  <2>6. UNION Live(db) \subseteq UNION Live(db')
    BY <2>1, <2>5 DEF Continues
  <2>7. AtomsIn(db)' = AtomsIn(db') /\ Live(db)' = Live(db')
    BY DEF AtomsIn, Live, Members, Bags
  <2>8. QED
    BY <2>4, <2>5, <2>6, <2>7 DEF Abstract!Change
<1>3. QED
  BY <1>1, <1>2, ResolverSound, PTL DEF Spec, ImplementsPartition, Abstract!Spec

=============================================================================
