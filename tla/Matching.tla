------------------------------ MODULE Matching ------------------------------
(***************************************************************************)
(* The block, score and cluster stages of icarus/core/matching.py, over    *)
(* the immutable observations that the resolver calls atoms.  A property   *)
(* value stands for what its comparator makes of the string: the string    *)
(* itself (cmp_exact), its normal form (cmp_norm_equal) or the last part   *)
(* of the path (cmp_path_suffix, whose count of equal trailing parts is    *)
(* reached only with two different last parts, so it is 0).                *)
(***************************************************************************)
EXTENDS Naturals, FiniteSets, Sequences, SequencesExt

CONSTANTS
    MaxAtoms,     \* bound on atoms
    Types,        \* entity types
    Atom,         \* what each atom observes; `words` are the tokens of its source key,
                  \* `indexed` those that atoms_fts has for it: of its type, its source
                  \* key and its properties
    Weight,       \* Weight[f]: weight of the rule of field f
    Graded,       \* fields compared by cmp_numeric_close, not for equality
    Scale,        \* a score of 1.0
    MaxBucket,    \* max_bucket
    Unset, Blank  \* a blocking value that is missing; one of spaces only

AtomIds == 1..MaxAtoms

ASSUME MatchingAssumption ==
    /\ MaxAtoms \in Nat
    /\ DOMAIN Atom = AtomIds
    /\ \A a \in AtomIds : Atom[a].type \in Types

Least(S) == CHOOSE x \in S : \A y \in S : x <= y

Greatest(S) == CHOOSE x \in S : \A y \in S : y <= x

-----------------------------------------------------------------------------
(* Block: the pairs worth scoring among A, the atoms of one type.          *)

\* Atoms with the same blocking key; a bucket that is too large is skipped.
BucketPairs(A) ==
    LET Bucket(a) == {b \in A : Atom[b].block = Atom[a].block}
        Usable == {a \in A : /\ Atom[a].block \notin {Unset, Blank}
                             /\ Cardinality(Bucket(a)) <= MaxBucket}
    IN  UNION {{{a, b} : b \in Bucket(a) \ {a}} : a \in Usable}

\* Atoms in whose index row a word of a's source key is: the first max_bucket of them.
TokenHits(a, A) ==
    LET Hits == {b \in A \ {a} : Atom[a].words \cap Atom[b].indexed # {}}
    IN  {b \in Hits : Cardinality({c \in Hits : c < b}) < MaxBucket}

TokenPairs(A) == UNION {{{a, b} : b \in TokenHits(a, A)} : a \in A}

CandidatePairs(A) == BucketPairs(A) \cup TokenPairs(A)

-----------------------------------------------------------------------------
(* Score: the weighted mean over the fields that both atoms have.          *)

\* 1 - |v - w| / max(v, w)
CmpNumericClose(v, w) ==
    IF v = w THEN Scale ELSE (Scale * Least({v, w})) \div Greatest({v, w})

Compare(f, v, w) ==
    IF f \in Graded THEN CmpNumericClose(v, w) ELSE IF v = w THEN Scale ELSE 0

ScorePair(a, b) ==
    LET p == Atom[a].props
        q == Atom[b].props
        Shared == DOMAIN p \cap DOMAIN q
        Total == MapThenSumSet(LAMBDA f : Weight[f], Shared)
    IN  IF Total = 0 THEN 0
        ELSE MapThenSumSet(LAMBDA f : Weight[f] * Compare(f, p[f], q[f]), Shared)
                \div Total

Score(pair) == ScorePair(Least(pair), Greatest(pair))

-----------------------------------------------------------------------------
(* Cluster: union-find.  A parent is never larger than its child, and the  *)
(* path compression of find() changes no root.                             *)

Find(parent) ==
    LET root[x \in DOMAIN parent] ==
            IF parent[x] = x THEN x ELSE root[parent[x]]
    IN  root

\* Variant: the ends of the edge are linked instead of their roots.
UnionOfEnds(parent, pair) ==
    LET roots == {Find(parent)[x] : x \in pair}
    IN  [x \in DOMAIN parent |-> IF x \in pair THEN Least(roots) ELSE parent[x]]

\* The smaller root becomes the representative.
Union(parent, pair) ==
    LET roots == {Find(parent)[x] : x \in pair}
    IN  [x \in DOMAIN parent |-> IF x \in roots THEN Least(roots) ELSE parent[x]]

Ends(edges) == UNION {edges[i] : i \in DOMAIN edges}

\* The forest after the edges of the sequence, in their order.
Forest(edges) ==
    LET after[n \in 0..Len(edges)] ==
            IF n = 0 THEN [x \in Ends(edges) |-> x] ELSE Union(after[n - 1], edges[n])
    IN  after[Len(edges)]

Cluster(edges) ==
    LET root == Find(Forest(edges))
    IN  {{y \in Ends(edges) : root[y] = root[x]} : x \in Ends(edges)}

=============================================================================
