---------------------------- MODULE IngestProofs ----------------------------
(***************************************************************************)
(* IngestInv is inductive: for any source and any number of attempts, what *)
(* is committed is exactly what the committed cursors say.  The walk never *)
(* passes over a directory because one that is not found yet lies behind   *)
(* its parent; and the files behind the cursors are always the first ones, *)
(* so that Ingest implements Catalog.                                      *)
(***************************************************************************)
EXTENDS Ingest, FiniteSetTheorems, WellFoundedInduction, TLAPS

-----------------------------------------------------------------------------
(* Numbers and finite sets.                                                *)

\* Lowest() is defined on every nonempty set of numbers.
LEMMA LowestIsIn ==
    ASSUME NEW S, S \subseteq Nat, S # {}
    PROVE  Lowest(S) \in S /\ \A y \in S : Lowest(S) <= y
<1>1. \E x \in S : \A y \in S : ~(<<y, x>> \in OpToRel(<, Nat))
  BY NatLessThanWellFounded, WFMin
<1>2. PICK x \in S : \A y \in S : ~(<<y, x>> \in OpToRel(<, Nat))
  BY <1>1
<1>3. \A y \in S : x <= y
  <2> SUFFICES ASSUME NEW y \in S, ~(x <= y) PROVE FALSE
    OBVIOUS
  <2>1. y < x
    OBVIOUS
  <2>2. <<y, x>> \in OpToRel(<, Nat)
    BY <2>1 DEF OpToRel
  <2>3. QED
    BY <1>2, <2>2
<1>4. QED
  BY <1>3 DEF Lowest

\* A nonempty set of files has a last one.
LEMMA LastFile ==
    ASSUME NEW S \in SUBSET Files, S # {}
    PROVE  \E n \in S : \A f \in S : f <= n
<1> DEFINE U == {n \in Nat : \A f \in S : f <= n}
<1>1. NFiles \in U
  BY IngestAssumption DEF Files
<1>2. PICK n \in U : \A m \in U : n <= m
  <2> HIDE DEF U
  <2>1. U \subseteq Nat
    BY DEF U
  <2>2. QED
    BY <1>1, <2>1, LowestIsIn
<1>3. n \in S
  <2> SUFFICES ASSUME n \notin S PROVE FALSE
    OBVIOUS
  <2>1. PICK f \in S : TRUE
    OBVIOUS
  <2>2. n \in Nat /\ f <= n /\ f \in Nat /\ f >= 1
    BY <2>1, IngestAssumption DEF Files
  <2>3. \A g \in S : g \in Nat /\ g <= n /\ g # n
    BY IngestAssumption DEF Files
  <2>4. \A g \in S : g <= n - 1
    BY <2>2, <2>3
  <2>5. n - 1 \in U
    BY <2>2, <2>4
  <2>6. QED
    BY <1>2, <2>2, <2>5
<1>4. QED
  BY <1>3

\* Sets of files are finite, so their sizes are numbers.
LEMMA FileSets ==
    ASSUME NEW S \in SUBSET Files
    PROVE  IsFiniteSet(S) /\ Cardinality(S) \in Nat
<1>1. IsFiniteSet(Files)
  BY IngestAssumption, FS_Interval DEF Files
<1>2. QED
  BY <1>1, FS_Subset, FS_CardinalityType

\* The size of a set of files with one more.
LEMMA OneMore ==
    ASSUME NEW S \in SUBSET Files, NEW f \in Files, f \notin S
    PROVE  Cardinality(S \cup {f}) = Cardinality(S) + 1
  BY FileSets, FS_AddElement

\* The inputs since the last commit stay below Interval.
LEMMA BelowInterval ==
    ASSUME NEW n \in 0..(Interval - 1), (n + 1) % Interval # 0
    PROVE  n + 1 \in 0..(Interval - 1)
<1>1. Interval \in Nat /\ Interval > 0
  BY IngestAssumption
<1>2. Interval % Interval = 0
  BY <1>1
<1>3. QED
  BY <1>1, <1>2

-----------------------------------------------------------------------------
(* The order of the walk.                                                  *)

\* Numbers and their names.
LEMMA Numbers ==
    /\ Dirs \subseteq Nat /\ Files \subseteq Nat /\ Wanted \subseteq Files
    /\ Binaries \subseteq Files /\ Binaries \subseteq Wanted
    /\ \A d \in Dirs : d >= 1
    /\ \A f \in Files : f >= 1 /\ Dir[f] \in Dirs
    /\ Root \in Dirs
  BY IngestAssumption DEF Dirs, Files, Wanted, Binaries, Root

\* A frontier is a function on some directories.
LEMMA FrontierType ==
    ASSUME NEW F \in Frontier
    PROVE  /\ DOMAIN F \in SUBSET Dirs
           /\ F \in [DOMAIN F -> Files \cup {0}]
           /\ \A d \in DOMAIN F : F[d] \in Files \cup {0} /\ F[d] \in Nat
<1>1. PICK D \in SUBSET Dirs : F \in [D -> Files \cup {0}]
  BY DEF Frontier
<1>2. DOMAIN F = D /\ \A d \in D : F[d] \in Files \cup {0}
  BY <1>1
<1>3. Files \cup {0} \subseteq Nat
  BY Numbers
<1>4. QED
  BY <1>1, <1>2, <1>3

\* Functions on directories are frontiers.
LEMMA IsFrontier ==
    ASSUME NEW D \in SUBSET Dirs, NEW F \in [D -> Files \cup {0}]
    PROVE  F \in Frontier
  BY DEF Frontier

\* When the first pending directory is done, every later directory is pending or lies
\* behind one that is.
LEMMA NoGap ==
    ASSUME NEW F \in SUBSET Dirs, NEW dir \in F, \A e \in F : dir <= e,
           \A d \in Dirs \ F : dir < d => dir < Parent[d],
           NEW d \in Dirs, dir < d
    PROVE  \E r \in F \ {dir} : r <= d
<1> DEFINE T == {x \in Dirs : dir < x /\ \A r \in F \ {dir} : ~(r <= x)}
<1> SUFFICES ASSUME T # {} PROVE FALSE
  OBVIOUS
<1>1. T \subseteq Nat
  BY Numbers
<1>2. PICK m \in T : \A y \in T : m <= y
  <2> HIDE DEF T
  <2> QED BY <1>1, LowestIsIn
<1>3. m \in Dirs /\ m \in Nat /\ dir \in Nat /\ dir >= 1 /\ dir < m
  BY <1>2, Numbers
<1>4. m \notin F
  BY <1>2, <1>3
<1>5. dir < Parent[m]
  BY <1>3, <1>4
<1>6. m # Root
  BY <1>3 DEF Root
<1>7. Parent[m] \in Dirs /\ Parent[m] < m /\ Parent[m] \in Nat
  BY <1>3, <1>6, IngestAssumption, Numbers
<1>8. \A r \in F \ {dir} : ~(r <= Parent[m])
  <2> SUFFICES ASSUME NEW r \in F \ {dir}, r <= Parent[m] PROVE FALSE
    OBVIOUS
  <2>1. r \in Nat
    BY Numbers
  <2>2. r <= m
    BY <2>1, <1>3, <1>7
  <2>3. QED
    BY <2>2, <1>2
<1>9. Parent[m] \in T
  BY <1>5, <1>7, <1>8
<1>10. QED
  BY <1>9, <1>2, <1>7, <1>3

\* The files behind the cursors while the first directory is being read.
LEMMA BehindReading ==
    ASSUME NEW F \in Frontier, NEW dir, First(dir, F), NEW todo,
           \A g \in Files : Dir[g] = dir => (g \in todo <=> g > F[dir])
    PROVE  Behind(F) = {f \in Wanted : Dir[f] < dir \/ (Dir[f] = dir /\ f \notin todo)}
<1>1. /\ dir \in DOMAIN F /\ DOMAIN F \subseteq Nat /\ dir \in Nat /\ F[dir] \in Nat
      /\ \A e \in DOMAIN F : dir <= e
  BY FrontierType, Numbers DEF First
<1> SUFFICES ASSUME NEW f \in Wanted
             PROVE  (\A d \in DOMAIN F : Dir[f] < d \/ (Dir[f] = d /\ f <= F[d]))
                    <=> (Dir[f] < dir \/ (Dir[f] = dir /\ f \notin todo))
  BY DEF Behind
<1>2. f \in Files /\ f \in Nat /\ Dir[f] \in Nat
  BY Numbers
<1>3. ASSUME \A d \in DOMAIN F : Dir[f] < d \/ (Dir[f] = d /\ f <= F[d])
      PROVE  Dir[f] < dir \/ (Dir[f] = dir /\ f \notin todo)
  BY <1>1, <1>2, <1>3
<1>4. ASSUME Dir[f] < dir
      PROVE  \A d \in DOMAIN F : Dir[f] < d
  BY <1>1, <1>2, <1>4
<1>5. ASSUME Dir[f] = dir, f \notin todo, NEW d \in DOMAIN F
      PROVE  Dir[f] < d \/ (Dir[f] = d /\ f <= F[d])
  <2>1. f <= F[dir]
    BY <1>1, <1>2, <1>5
  <2>2. d = dir \/ dir < d
    BY <1>1, <1>2
  <2>3. QED
    BY <2>1, <2>2, <1>5
<1>6. QED
  BY <1>3, <1>4, <1>5

\* Files behind cursors are the first ones.
LEMMA BehindIsUpTo ==
    ASSUME NEW F \in Frontier
    PROVE  \E n \in Wanted \cup {0} : Behind(F) = {f \in Wanted : f <= n}
<1>1. CASE Behind(F) = {}
  <2>1. \A f \in Wanted : f \in Nat /\ f >= 1
    BY Numbers
  <2>2. QED
    BY <1>1, <2>1
<1>2. CASE Behind(F) # {}
  <2>1. Behind(F) \in SUBSET Files
    BY Numbers DEF Behind
  <2>2. PICK n \in Behind(F) : \A f \in Behind(F) : f <= n
    BY <1>2, <2>1, LastFile
  <2>3. n \in Wanted /\ n \in Files /\ n \in Nat /\ Dir[n] \in Nat
    BY <2>2, Numbers DEF Behind
  <2>4. ASSUME NEW f \in Wanted, f <= n
        PROVE  f \in Behind(F)
    <3>1. f \in Files /\ f \in Nat /\ Dir[f] \in Nat
      BY Numbers
    <3>2. ~(Dir[n] < Dir[f])
      BY <2>3, <2>4, <3>1, IngestAssumption
    <3>3. ASSUME NEW d \in DOMAIN F
          PROVE  Dir[f] < d \/ (Dir[f] = d /\ f <= F[d])
      <4>1. Dir[n] < d \/ (Dir[n] = d /\ n <= F[d])
        BY <2>2 DEF Behind
      <4>2. d \in Nat /\ F[d] \in Nat
        BY FrontierType, Numbers
      <4>3. QED
        BY <4>1, <4>2, <3>1, <3>2, <2>3, <2>4
    <3>4. QED
      BY <3>3 DEF Behind
  <2>5. Behind(F) = {f \in Wanted : f <= n}
    BY <2>2, <2>4 DEF Behind
  <2>6. QED
    BY <2>3, <2>5
<1>3. QED
  BY <1>1, <1>2

\* All the files that leave a record, when nothing is pending.
LEMMA BehindNothing ==
    ASSUME NEW F, DOMAIN F = {}
    PROVE  Behind(F) = Wanted
  BY DEF Behind

-----------------------------------------------------------------------------
(* What the helpers make of an output and of a walk.                       *)

\* The columns of an output.
LEMMA Fields ==
    ASSUME NEW w \in Output
    PROVE  /\ w.tables \in SUBSET {"state", "frontier"}
           /\ w.state \in State \cup {None} /\ w.frontier \in Frontier
           /\ w.rows \in [Files -> Idents \cup {None}]
           /\ w.inner \in SUBSET Files /\ w.stamped \in SUBSET Files
           /\ Recorded(w) \in SUBSET Files
  BY DEF Output, Recorded

\* The memory of an attempt.
LEMMA WalkFields ==
    ASSUME NEW k \in Walk
    PROVE  /\ k.id \in Idents \cup {None} /\ k.counts \in Counts
           /\ k.processed \in 0..(Interval - 1)
           /\ k.mark \in SUBSET Files /\ k.dir \in Dirs \cup {0} /\ k.todo \in SUBSET Files
  BY DEF Walk

\* One more input since the last commit.
LEMMA WalkCounted ==
    ASSUME NEW k \in Walk, NEW n \in 0..(Interval - 1)
    PROVE  LET h == [k EXCEPT !.processed = n]
           IN  /\ h \in Walk /\ h.id = k.id /\ h.counts = k.counts /\ h.dir = k.dir
               /\ h.todo = k.todo /\ h.mark = k.mark
<1> DEFINE h == [k EXCEPT !.processed = n]
<1>1. h \in Walk
  BY DEF Walk
<1>2. /\ h.id = k.id /\ h.counts = k.counts /\ h.dir = k.dir
      /\ h.todo = k.todo /\ h.mark = k.mark
  BY DEF Walk
<1>3. QED
  BY <1>1, <1>2

\* No input since the last commit, and other watermarks.
LEMMA WalkReset ==
    ASSUME NEW k \in Walk, NEW m \in SUBSET Files
    PROVE  LET h == [k EXCEPT !.processed = 0, !.mark = m]
           IN  /\ h \in Walk /\ h.id = k.id /\ h.counts = k.counts /\ h.dir = k.dir
               /\ h.todo = k.todo /\ h.mark = m
<1> DEFINE h == [k EXCEPT !.processed = 0, !.mark = m]
<1>1. 0 \in 0..(Interval - 1)
  BY IngestAssumption
<1>2. h \in Walk
  BY <1>1 DEF Walk
<1>3. /\ h.id = k.id /\ h.counts = k.counts /\ h.dir = k.dir
      /\ h.todo = k.todo /\ h.mark = m
  BY DEF Walk
<1>4. QED
  BY <1>2, <1>3

\* A commit changes the counts and the stamps.
LEMMA StampedIs ==
    ASSUME NEW w \in Output, NEW k \in Walk, w.state # None
    PROVE  LET s == Stamped(w, k)
           IN  /\ s \in Output /\ s.state # None
               /\ s.state.id = w.state.id /\ s.state.counts = k.counts
               /\ s.tables = w.tables /\ s.frontier = w.frontier
               /\ s.rows = w.rows /\ s.inner = w.inner
               /\ s.stamped = w.stamped \cup Due(w, k)
               /\ Recorded(s) = Recorded(w)
<1> DEFINE t == [w.state EXCEPT !.counts = k.counts]
           s == Stamped(w, k)
           m == w.stamped \cup Due(w, k)
<1>1. w.state \in State /\ k.counts \in Counts
  BY Fields, WalkFields
<1>2. t \in State /\ t.id = w.state.id /\ t.counts = k.counts
  BY <1>1 DEF State
<1>3. t # None
  BY <1>2, IngestAssumption
<1>4. m \in SUBSET Files
  BY Fields DEF Due
<1>5. s = [w EXCEPT !.state = t, !.stamped = m]
  BY DEF Stamped
<1> HIDE DEF t, s, m
<1>6. /\ s \in Output /\ s.state = t /\ s.tables = w.tables /\ s.frontier = w.frontier
      /\ s.rows = w.rows /\ s.inner = w.inner /\ s.stamped = m
  <2>1. s = [tables |-> w.tables, state |-> t, frontier |-> w.frontier, rows |-> w.rows,
             inner |-> w.inner, stamped |-> m]
    BY <1>5 DEF Output
  <2>2. QED
    BY <2>1, <1>2, <1>4, Fields DEF Output
<1>7. Recorded(s) = Recorded(w)
  BY <1>6 DEF Recorded
<1>8. QED
  BY <1>2, <1>3, <1>6, <1>7 DEF s, m

\* The frontier of an output is replaced.
LEMMA WithFrontier ==
    ASSUME NEW w \in Output, NEW F \in Frontier
    PROVE  LET s == [w EXCEPT !.frontier = F]
           IN  /\ s \in Output /\ s.frontier = F
               /\ s.tables = w.tables /\ s.state = w.state
               /\ s.rows = w.rows /\ s.inner = w.inner /\ s.stamped = w.stamped
               /\ Recorded(s) = Recorded(w)
<1> DEFINE s == [w EXCEPT !.frontier = F]
<1>1. s = [tables |-> w.tables, state |-> w.state, frontier |-> F, rows |-> w.rows,
           inner |-> w.inner, stamped |-> w.stamped]
  BY DEF Output
<1> HIDE DEF s
<1>2. /\ s \in Output /\ s.frontier = F
      /\ s.tables = w.tables /\ s.state = w.state
      /\ s.rows = w.rows /\ s.inner = w.inner /\ s.stamped = w.stamped
  BY <1>1, Fields DEF Output
<1>3. Recorded(s) = Recorded(w)
  BY <1>2 DEF Recorded
<1>4. QED
  BY <1>2, <1>3 DEF s

\* The rows of a file are added, unless they are there or it has none.
LEMMA ExtractedIs ==
    ASSUME NEW w \in Output, NEW f \in Files, NEW id \in Idents
    PROVE  LET s == Extracted(w, f, id)
           IN  /\ s \in Output /\ s.frontier = w.frontier
               /\ s.tables = w.tables /\ s.state = w.state /\ s.stamped = w.stamped
               /\ Recorded(s) = Recorded(w) \cup ({f} \cap Wanted)
               /\ s.inner = w.inner \cup ({f} \cap Binaries)
               /\ \A g \in Files : g \in Recorded(w) => s.rows[g] = w.rows[g]
               /\ f \in Wanted /\ f \notin Recorded(w) => s.rows[f] = id
<1> DEFINE s == Extracted(w, f, id)
<1>1. CASE Kind[f] = "special"
  <2>1. s = w
    BY <1>1 DEF Extracted
  <2>2. f \notin Wanted /\ f \notin Binaries
    BY <1>1 DEF Wanted, Binaries
  <2> HIDE DEF s
  <2>3. QED
    BY <2>1, <2>2, Fields DEF s
<1>2. CASE Kind[f] # "special"
  <2> DEFINE r == [w.rows EXCEPT ![f] = IF w.rows[f] = None THEN id ELSE w.rows[f]]
             i == IF Kind[f] = "binary" THEN w.inner \cup {f} ELSE w.inner
  <2>1. s = [w EXCEPT !.rows = r, !.inner = i]
    BY <1>2 DEF Extracted, Output
  <2>2. r \in [Files -> Idents \cup {None}] /\ i \in SUBSET Files
    BY Fields
  <2>3. \A g \in Files : g # f => r[g] = w.rows[g]
    BY Fields
  <2>4. r[f] = IF w.rows[f] = None THEN id ELSE w.rows[f]
    BY Fields
  <2>5. f \in Wanted /\ (f \in Binaries <=> Kind[f] = "binary")
    BY <1>2 DEF Wanted, Binaries
  <2>6. i = w.inner \cup ({f} \cap Binaries)
    BY <2>5
  <2> HIDE DEF s, r, i
  <2>7. s = [tables |-> w.tables, state |-> w.state, frontier |-> w.frontier, rows |-> r,
             inner |-> i, stamped |-> w.stamped]
    BY <2>1 DEF Output
  <2>8. /\ s \in Output /\ s.frontier = w.frontier
        /\ s.tables = w.tables /\ s.state = w.state /\ s.stamped = w.stamped
        /\ s.rows = r /\ s.inner = i
    BY <2>2, <2>7, Fields DEF Output
  <2>9. None \notin Idents
    BY IngestAssumption
  <2>10. Recorded(s) = Recorded(w) \cup {f}
    BY <2>8, <2>3, <2>4, <2>9 DEF Recorded
  <2>11. \A g \in Files : g \in Recorded(w) => s.rows[g] = w.rows[g]
    BY <2>8, <2>3, <2>4 DEF Recorded
  <2>12. f \notin Recorded(w) => s.rows[f] = id
    BY <2>8, <2>4 DEF Recorded
  <2>13. QED
    BY <2>5, <2>6, <2>8, <2>10, <2>11, <2>12 DEF s
<1>3. QED
  BY <1>1, <1>2

-----------------------------------------------------------------------------
(* One more input.                                                         *)

\* The statistics count a file once, or no row of its own when all are there already.
LEMMA ExactlyExtracted ==
    ASSUME NEW w \in Output, NEW f \in Files, NEW id \in Idents, NEW S \in SUBSET Wanted,
           f \notin S, NEW k \in Walk, Exactly(w, S, k.counts)
    PROVE  /\ Counted(k, w, f) \in Counts
           /\ Exactly(Extracted(w, f, id), S \cup ({f} \cap Wanted), Counted(k, w, f))
<1> DEFINE s == Extracted(w, f, id)
           c == Counted(k, w, f)
<1>1. /\ Recorded(s) = Recorded(w) \cup ({f} \cap Wanted)
      /\ s.inner = w.inner \cup ({f} \cap Binaries)
  BY ExtractedIs
<1>2. k.counts \in Counts /\ k.counts.files \in Nat /\ k.counts.inner \in Nat
  BY WalkFields DEF Counts
<1>3. /\ w.inner = Recorded(w) \cap Binaries
      /\ k.counts.files = Cardinality(S)
      /\ \/ Recorded(w) = S /\ k.counts.inner = Cardinality(S \cap Binaries)
         \/ Recorded(w) = Wanted /\ k.counts.inner = 0
  BY DEF Exactly
<1>4. s.inner = Recorded(s) \cap Binaries
  BY <1>1, <1>3, Numbers
<1>5. CASE Kind[f] = "special"
  <2>1. {f} \cap Wanted = {} /\ c = k.counts
    BY <1>5 DEF Wanted, Counted
  <2> HIDE DEF s, c
  <2>2. Recorded(s) = Recorded(w) /\ S \cup ({f} \cap Wanted) = S
    BY <1>1, <2>1
  <2>3. Exactly(s, S, c)
    BY <1>3, <1>4, <2>1, <2>2 DEF Exactly
  <2>4. QED
    BY <1>2, <2>1, <2>2, <2>3 DEF s, c
<1>6. CASE Kind[f] # "special"
  <2> DEFINE more == IF Kind[f] = "binary" /\ f \notin w.inner THEN 1 ELSE 0
  <2>1. f \in Wanted /\ (f \in Binaries <=> Kind[f] = "binary")
    BY <1>6 DEF Wanted, Binaries
  <2>2. c = [files |-> k.counts.files + 1, inner |-> k.counts.inner + more]
    BY <1>6 DEF Counted
  <2>3. /\ more \in {0, 1}
        /\ f \in Binaries /\ f \notin w.inner => more = 1
        /\ f \notin Binaries \/ f \in w.inner => more = 0
    BY <2>1
  <2> HIDE DEF more
  <2>4. S \in SUBSET Files /\ S \cap Binaries \in SUBSET Files
    BY Numbers
  <2>5. Cardinality(S \cup {f}) = Cardinality(S) + 1
    BY <2>4, OneMore
  <2>6. ASSUME Recorded(w) = S, k.counts.inner = Cardinality(S \cap Binaries)
        PROVE  k.counts.inner + more = Cardinality((S \cup {f}) \cap Binaries)
    <3>1. f \notin w.inner
      BY <1>3, <2>6
    <3>2. CASE f \in Binaries
      <4>1. (S \cup {f}) \cap Binaries = (S \cap Binaries) \cup {f}
        BY <3>2
      <4>2. Cardinality((S \cap Binaries) \cup {f}) = Cardinality(S \cap Binaries) + 1
        BY <2>4, OneMore
      <4>3. more = 1
        BY <3>1, <3>2, <2>3
      <4>4. QED
        BY <4>1, <4>2, <4>3, <2>6
    <3>3. CASE f \notin Binaries
      <4>1. (S \cup {f}) \cap Binaries = S \cap Binaries
        BY <3>3
      <4>2. more = 0
        BY <3>3, <2>3
      <4>3. QED
        BY <4>1, <4>2, <2>6, <1>2
    <3>4. QED
      BY <3>2, <3>3
  <2>7. ASSUME Recorded(w) = Wanted, k.counts.inner = 0
        PROVE  k.counts.inner + more = 0
    <3>1. f \in Binaries => f \in w.inner
      BY <1>3, <2>1, <2>7
    <3>2. QED
      BY <3>1, <2>3, <2>7
  <2> HIDE DEF s, c
  <2>8. /\ c \in Counts /\ c.files = k.counts.files + 1
        /\ c.inner = k.counts.inner + more
    BY <1>2, <2>2, <2>3 DEF Counts
  <2>9. S \cup ({f} \cap Wanted) = S \cup {f} /\ Recorded(s) = Recorded(w) \cup {f}
    BY <1>1, <2>1
  <2>10. \/ Recorded(s) = S \cup {f} /\ c.inner = Cardinality((S \cup {f}) \cap Binaries)
         \/ Recorded(s) = Wanted /\ c.inner = 0
    BY <1>3, <2>1, <2>6, <2>7, <2>8, <2>9
  <2>11. Exactly(s, S \cup {f}, c)
    BY <1>3, <1>4, <2>5, <2>8, <2>10 DEF Exactly
  <2>12. QED
    BY <2>8, <2>9, <2>11 DEF s, c
<1>7. QED
  BY <1>5, <1>6

\* What is exact of an output is so of another with the same rows.
LEMMA ExactlySame ==
    ASSUME NEW w, NEW s, NEW S, NEW c, Exactly(w, S, c),
           Recorded(s) = Recorded(w), s.inner = w.inner
    PROVE  Exactly(s, S, c)
  BY DEF Exactly

\* Whoever owns the rows of an output owns the same rows of another.
LEMMA OwnedSame ==
    ASSUME NEW w \in Output, NEW s \in Output, Owned(w), s.rows = w.rows,
           w.state # None, s.state # None, s.state.id = w.state.id
    PROVE  Owned(s)
<1>1. Recorded(s) = Recorded(w)
  BY DEF Recorded
<1>2. QED
  BY <1>1 DEF Owned

\* What the walk knows depends on the frontier, the directory and what is left in it.
LEMMA WalkSame ==
    ASSUME NEW w, NEW s, NEW k, NEW h, s.frontier = w.frontier, h.dir = k.dir, h.todo = k.todo
    PROVE  Passed(s, h) = Passed(w, k) /\ (InDirectory(w, k) => InDirectory(s, h))
  BY DEF Passed, InDirectory

\* What is stamped, or will be, depends on the rows, on the identity and on the mark.
LEMMA StampedSame ==
    ASSUME NEW w, NEW s, NEW k, NEW h, s.rows = w.rows, s.stamped = w.stamped,
           h.id = k.id, h.mark = k.mark
    PROVE  OfRuns(s) = OfRuns(w) /\ (WillBeStamped(w, k) => WillBeStamped(s, h))
<1>1. Recorded(s) = Recorded(w)
  BY DEF Recorded
<1>2. OfRuns(s) = OfRuns(w)
  BY <1>1 DEF OfRuns
<1>3. QED
  BY <1>1, <1>2 DEF WillBeStamped, Due

\* One more input is processed: with a commit or without one.
LEMMA AdvancedKeeps ==
    ASSUME IngestInv, pc = "walk", pc' = pc, phase' = phase, stops' = stops,
           NEW w \in Output, NEW c \in Output, NEW k \in Walk, Advanced(w, c, k),
           w.state = db.state, w.stamped = db.stamped,
           c.state = db.state, c.stamped = db.stamped, c.rows = w.rows, c.inner = w.inner,
           k.id = walk.id, k.mark = walk.mark, Recorded(db) \subseteq Recorded(w),
           WillBeStamped(w, k), Owned(w), Found(w.frontier), Found(c.frontier),
           InDirectory(w, k), InDirectory(c, k), Exactly(w, Passed(w, k), k.counts),
           Passed(c, k) = Passed(w, k), Behind(c.frontier) = Passed(w, k)
    PROVE  IngestInv'
<1>1. Recorded(c) = Recorded(w)
  BY DEF Recorded
<1>2. /\ db \in Output /\ phase = "open" /\ walk.id # None /\ walk.mark \subseteq Recorded(db)
      /\ db.state # None /\ db.state.id = walk.id /\ stops \in 0..MaxStops
  BY DEF IngestInv, TypeOK
<1>3. CASE (k.processed + 1) % Interval = 0
  <2> DEFINE s == Stamped(c, k)
             h == [k EXCEPT !.processed = 0, !.mark = Recorded(c)]
  <2>1. db' = s /\ work' = s /\ walk' = h
    BY <1>3 DEF Advanced
  <2>2. /\ s \in Output /\ s.state # None
        /\ s.state.id = c.state.id /\ s.state.counts = k.counts
        /\ s.frontier = c.frontier /\ s.rows = c.rows /\ s.inner = c.inner
        /\ s.stamped = c.stamped \cup Due(c, k)
        /\ Recorded(s) = Recorded(c)
    BY <1>2, StampedIs
  <2>3. /\ h \in Walk /\ h.id = k.id /\ h.counts = k.counts /\ h.dir = k.dir
        /\ h.todo = k.todo /\ h.mark = Recorded(c)
    <3>1. Recorded(c) \in SUBSET Files
      BY Fields
    <3>2. QED
      BY <3>1, WalkReset
  <2> HIDE DEF s, h
  <2>4. Exactly(s, Passed(w, k), k.counts)
    BY <1>1, <2>2, ExactlySame
  <2>5. Behind(s.frontier) = Passed(w, k)
    BY <2>2
  <2>6. Passed(s, h) = Passed(w, k) /\ InDirectory(s, h)
    BY <2>2, <2>3, WalkSame
  <2>7. OfRuns(s) \subseteq s.stamped /\ WillBeStamped(s, h)
    <3>1. WillBeStamped(c, k)
      BY StampedSame
    <3>2. OfRuns(s) = OfRuns(c)
      BY <2>2 DEF OfRuns
    <3>3. QED
      BY <2>2, <3>1, <3>2 DEF WillBeStamped
  <2>8. Owned(s)
    BY <2>2, <1>2, OwnedSame
  <2>9. ExactlyBehind'
    BY <2>1, <2>2, <2>3, <2>4, <2>5, <2>6, <1>2 DEF ExactlyBehind
  <2>10. TypeOK'
    BY <2>1, <2>2, <2>3, <1>2 DEF TypeOK
  <2>11. AllStamped' /\ OneSource' /\ Owned(work')
    BY <2>1, <2>7, <2>8 DEF AllStamped, OneSource
  <2>12. Found(db'.frontier) /\ Found(work'.frontier) /\ InDirectory(work', walk')
    BY <2>1, <2>2, <2>6
  <2>13. QED
    BY <2>1, <2>2, <2>3, <2>7, <2>9, <2>10, <2>11, <2>12, <1>2 DEF IngestInv
<1>4. CASE (k.processed + 1) % Interval # 0
  <2> DEFINE h == [k EXCEPT !.processed = k.processed + 1]
  <2>1. db' = db /\ work' = w /\ walk' = h
    BY <1>4 DEF Advanced
  <2>2. /\ h \in Walk /\ h.id = k.id /\ h.counts = k.counts /\ h.dir = k.dir
        /\ h.todo = k.todo /\ h.mark = k.mark
    <3>1. k.processed + 1 \in 0..(Interval - 1)
      BY <1>4, WalkFields, BelowInterval
    <3>2. QED
      BY <3>1, WalkCounted
  <2> HIDE DEF h
  <2>3. Passed(w, h) = Passed(w, k) /\ InDirectory(w, h) /\ WillBeStamped(w, h)
    BY <2>2, WalkSame, StampedSame
  <2>4. ExactlyBehind'
    BY <2>1, <2>2, <2>3, <1>2 DEF ExactlyBehind, IngestInv
  <2>5. TypeOK'
    BY <2>1, <2>2, <1>2 DEF TypeOK
  <2>6. AllStamped' /\ OneSource' /\ Found(db'.frontier)
    BY <2>1 DEF AllStamped, OneSource, IngestInv
  <2>7. QED
    BY <2>1, <2>2, <2>3, <2>4, <2>5, <2>6, <1>2 DEF IngestInv
<1>5. QED
  BY <1>3, <1>4

-----------------------------------------------------------------------------
(* The steps before and after the walk.                                    *)

\* The empty output, the memory that is lost and the counts before the first input.
LEMMA Nothing ==
    /\ NewOutput \in Output /\ NoWalk \in Walk /\ NoCounts \in Counts
    /\ Recorded(NewOutput) = {} /\ NewOutput.state = None /\ NewOutput.inner = {}
    /\ NewOutput.stamped = {} /\ DOMAIN NewOutput.frontier = {}
    /\ NoCounts.files = 0 /\ NoCounts.inner = 0
    /\ NoFrontier \in Frontier /\ DOMAIN NoFrontier = {}
<1>1. DOMAIN NoFrontier = {} /\ NoFrontier \in [{} -> Files \cup {0}]
  BY DEF NoFrontier
<1>2. NoFrontier \in Frontier
  BY <1>1, IsFrontier
<1>3. NoCounts \in Counts /\ NoCounts.files = 0 /\ NoCounts.inner = 0
  BY DEF NoCounts, Counts
<1>4. 0 \in 0..(Interval - 1)
  BY IngestAssumption
<1>5. NoWalk \in Walk
  BY <1>3, <1>4 DEF NoWalk, Walk
<1>6. NewOutput \in Output
  BY <1>2 DEF NewOutput, Output
<1>7. /\ NewOutput.state = None /\ NewOutput.inner = {} /\ NewOutput.stamped = {}
      /\ NewOutput.frontier = NoFrontier /\ NewOutput.rows = [f \in Files |-> None]
  BY DEF NewOutput
<1>8. Recorded(NewOutput) = {}
  BY <1>7 DEF Recorded
<1>9. QED
  BY <1>1, <1>2, <1>3, <1>5, <1>6, <1>7, <1>8

\* Where nothing is pending everything was found.
LEMMA FoundNothing ==
    ASSUME NEW F, DOMAIN F = {}
    PROVE  Found(F)
  BY DEF Found

LEMMA InitInv == Init => IngestInv
<1> SUFFICES ASSUME Init PROVE IngestInv
  OBVIOUS
<1>1. db = NewOutput /\ work = NewOutput /\ walk = NoWalk /\ pc = "idle" /\ phase = "open"
  BY DEF Init
<1>2. TypeOK
  BY <1>1, Nothing, IngestAssumption DEF Init, TypeOK
<1>3. ExactlyBehind
  BY <1>1, Nothing DEF ExactlyBehind
<1>4. AllStamped /\ OneSource /\ Found(db.frontier)
  BY <1>1, Nothing, FoundNothing DEF AllStamped, OfRuns, OneSource, Owned
<1>5. QED
  BY <1>1, <1>2, <1>3, <1>4 DEF IngestInv

\* An attempt ends without a commit.
LEMMA EndKeeps ==
    ASSUME IngestInv, db' = db, work' = NewOutput, walk' = NoWalk, pc' = "idle",
           phase' = "open", stops' \in 0..MaxStops
    PROVE  IngestInv'
<1>1. TypeOK'
  BY Nothing DEF IngestInv, TypeOK
<1>2. ExactlyBehind'
  BY DEF IngestInv, ExactlyBehind
<1>3. AllStamped' /\ OneSource' /\ Found(db'.frontier)
  BY DEF IngestInv, AllStamped, OneSource
<1>4. QED
  BY <1>1, <1>2, <1>3 DEF IngestInv

LEMMA StopKeeps == IngestInv /\ Stop => IngestInv'
<1> SUFFICES ASSUME IngestInv, Stop PROVE IngestInv'
  OBVIOUS
<1>1. stops' \in 0..MaxStops
  BY IngestAssumption DEF Stop, IngestInv, TypeOK
<1>2. QED
  BY <1>1, EndKeeps DEF Stop

LEMMA RefusedKeeps == IngestInv /\ Refused => IngestInv'
<1> SUFFICES ASSUME IngestInv, Refused PROVE IngestInv'
  OBVIOUS
<1>1. phase' = "open" /\ stops' \in 0..MaxStops
  BY DEF Refused, IngestInv, TypeOK
<1>2. QED
  BY <1>1, EndKeeps DEF Refused

\* The memory of an attempt that begins.
LEMMA WalkBegun ==
    ASSUME NEW k, k \in Walk, k = NoWalk, NEW id \in Idents, NEW m \in SUBSET Files
    PROVE  LET h == [NoWalk EXCEPT !.id = id, !.mark = m]
           IN  h \in Walk /\ h.id = id /\ h.dir = 0 /\ h.mark = m
<1> DEFINE h == [k EXCEPT !.id = id, !.mark = m]
<1>1. h \in Walk
  BY DEF Walk
<1>2. h.id = id /\ h.dir = k.dir /\ h.mark = m
  BY DEF Walk
<1>3. k.dir = 0
  BY DEF NoWalk
<1>4. QED
  BY <1>1, <1>2, <1>3

LEMMA BeginKeeps == ASSUME IngestInv, NEW id \in Idents, Begin(id) PROVE IngestInv'
<1> DEFINE m == Recorded(db)
           h == [NoWalk EXCEPT !.id = id, !.mark = m]
<1>1. /\ pc' = "create" /\ phase = "open" /\ phase' = phase /\ db' = db /\ work' = db
      /\ walk' = h /\ stops' = stops
  BY DEF Begin
<1>2. m \in SUBSET Files
  BY DEF Recorded
<1>3. NoWalk \in Walk /\ NoWalk.dir = 0
  BY Nothing DEF NoWalk
<1>4. h \in Walk /\ h.id = id /\ h.mark = m /\ h.dir = 0
  <2> HIDE DEF m
  <2>1. QED
    BY <1>2, <1>3, WalkBegun
<1> HIDE DEF h, m
<1>5. id # None
  BY IngestAssumption
<1>6. m \subseteq Recorded(db) /\ WillBeStamped(db, h)
  BY DEF m, IngestInv, AllStamped, WillBeStamped
<1>7. TypeOK'
  BY <1>1, <1>4 DEF IngestInv, TypeOK
<1>8. ExactlyBehind'
  BY <1>1 DEF IngestInv, ExactlyBehind
<1>9. AllStamped' /\ OneSource' /\ Found(db'.frontier)
  BY <1>1 DEF IngestInv, AllStamped, OneSource
<1>10. QED
  BY <1>1, <1>4, <1>5, <1>6, <1>7, <1>8, <1>9 DEF IngestInv

\* The private tables of an output are others.
LEMMA WithTables ==
    ASSUME NEW w \in Output, NEW T \in SUBSET {"state", "frontier"}
    PROVE  LET s == [w EXCEPT !.tables = T]
           IN  /\ s \in Output /\ s.state = w.state /\ s.frontier = w.frontier
               /\ s.rows = w.rows /\ s.inner = w.inner /\ s.stamped = w.stamped
               /\ Recorded(s) = Recorded(w) /\ (Owned(w) => Owned(s))
<1> DEFINE s == [w EXCEPT !.tables = T]
<1>1. s = [tables |-> T, state |-> w.state, frontier |-> w.frontier, rows |-> w.rows,
           inner |-> w.inner, stamped |-> w.stamped]
  BY DEF Output
<1> HIDE DEF s
<1>2. /\ s \in Output /\ s.state = w.state /\ s.frontier = w.frontier
      /\ s.rows = w.rows /\ s.inner = w.inner /\ s.stamped = w.stamped
  BY <1>1, Fields DEF Output
<1>3. Recorded(s) = Recorded(w)
  BY <1>2 DEF Recorded
<1>4. Owned(w) => Owned(s)
  BY <1>2, <1>3 DEF Owned
<1>5. QED
  BY <1>2, <1>3, <1>4 DEF s

LEMMA CreateTableKeeps == IngestInv /\ CreateTable => IngestInv'
<1> SUFFICES ASSUME IngestInv, CreateTable PROVE IngestInv'
  OBVIOUS
<1>1. PICK t \in {"state", "frontier"} : db' = [db EXCEPT !.tables = @ \cup {t}]
  BY DEF CreateTable
<1> DEFINE T == db.tables \cup {t}
<1>2. db \in Output /\ T \in SUBSET {"state", "frontier"}
  BY Fields DEF IngestInv, TypeOK
<1>3. db' = [db EXCEPT !.tables = T]
  BY <1>1
<1> HIDE DEF T
<1>4. /\ db' \in Output /\ db'.state = db.state /\ db'.frontier = db.frontier
      /\ db'.rows = db.rows /\ db'.inner = db.inner /\ db'.stamped = db.stamped
      /\ Recorded(db') = Recorded(db) /\ (Owned(db) => Owned(db'))
  BY <1>2, <1>3, WithTables
<1>5. /\ work' = db' /\ pc = "create" /\ pc' = pc /\ walk' = walk /\ phase' = phase
      /\ stops' = stops
  BY DEF CreateTable
<1>6. TypeOK'
  BY <1>4, <1>5 DEF IngestInv, TypeOK
<1>7. ExactlyBehind'
  BY <1>4, <1>5, ExactlySame DEF IngestInv, ExactlyBehind
<1>8. AllStamped' /\ OneSource' /\ Found(db'.frontier)
  BY <1>4, StampedSame DEF IngestInv, AllStamped, OneSource
<1>9. WillBeStamped(db', walk')
  BY <1>4, <1>5, StampedSame DEF IngestInv
<1>10. QED
  BY <1>4, <1>5, <1>6, <1>7, <1>8, <1>9 DEF IngestInv

\* An attempt takes counts up.
LEMMA WalkCounts ==
    ASSUME NEW k \in Walk, NEW c \in Counts
    PROVE  LET h == [k EXCEPT !.counts = c]
           IN  h \in Walk /\ h.id = k.id /\ h.counts = c /\ h.dir = k.dir /\ h.mark = k.mark
<1> DEFINE h == [k EXCEPT !.counts = c]
<1>1. h \in Walk
  BY DEF Walk
<1>2. h.id = k.id /\ h.counts = c /\ h.dir = k.dir /\ h.mark = k.mark
  BY DEF Walk
<1>3. QED
  BY <1>1, <1>2

\* The state and the frontier of an output are others.
Restated(w, x, F) == [w EXCEPT !.state = x, !.frontier = F]

LEMMA RestatedIs ==
    ASSUME NEW w \in Output, NEW x \in State \cup {None}, NEW F \in Frontier
    PROVE  /\ Restated(w, x, F) \in Output
           /\ Restated(w, x, F).state = x /\ Restated(w, x, F).frontier = F
           /\ Restated(w, x, F).rows = w.rows /\ Restated(w, x, F).inner = w.inner
           /\ Restated(w, x, F).stamped = w.stamped
           /\ Recorded(Restated(w, x, F)) = Recorded(w)
<1> DEFINE s == [w EXCEPT !.state = x, !.frontier = F]
<1>1. s \in Output
  BY DEF Output
<1>2. /\ s.state = x /\ s.frontier = F
      /\ s.rows = w.rows /\ s.inner = w.inner /\ s.stamped = w.stamped
  BY DEF Output
<1>3. Recorded(s) = Recorded(w)
  BY <1>2 DEF Recorded
<1>4. Restated(w, x, F) = s
  BY DEF Restated
<1> HIDE DEF s
<1>5. QED
  BY <1>1, <1>2, <1>3, <1>4

\* Nothing is behind the cursor at the root, and everything else lies below it.
LEMMA AtRoot ==
    LET F == [d \in {Root} |-> 0] IN F \in Frontier /\ Behind(F) = {} /\ Found(F)
<1> DEFINE F == [d \in {Root} |-> 0]
<1>1. F \in Frontier
  <2>1. F \in [{Root} -> Files \cup {0}] /\ {Root} \in SUBSET Dirs
    BY Numbers
  <2> HIDE DEF F
  <2>2. QED
    BY <2>1, IsFrontier
<1>2. Behind(F) = {}
  <2>1. ASSUME NEW f \in Behind(F) PROVE FALSE
    <3>1. f \in Nat /\ f >= 1 /\ Dir[f] \in Nat /\ Dir[f] >= 1
      BY Numbers DEF Behind
    <3>2. Dir[f] < 1 \/ (Dir[f] = 1 /\ f <= 0)
      BY DEF Behind, Root
    <3>3. QED
      BY <3>1, <3>2
  <2>2. QED
    BY <2>1
<1>3. Found(F)
  <2>1. ASSUME NEW d \in Dirs \ {Root} PROVE Root <= Parent[d]
    <3>1. Parent[d] \in Dirs
      BY IngestAssumption
    <3>2. QED
      BY <3>1, Numbers DEF Root
  <2>2. QED
    BY <2>1 DEF Found
<1>4. QED
  BY <1>1, <1>2, <1>3

LEMMA EnterKeeps == IngestInv /\ Enter => IngestInv'
<1> SUFFICES ASSUME IngestInv, Enter PROVE IngestInv'
  OBVIOUS
<1>1. /\ pc = "create" /\ pc' = "walk" /\ phase' = phase /\ stops' = stops /\ work' = db'
      /\ work = db /\ walk.dir = 0 /\ phase = "open" /\ walk.id \in Idents
      /\ walk.mark \subseteq Recorded(db) /\ WillBeStamped(db, walk)
      /\ db \in Output /\ walk \in Walk
      /\ walk' = [walk EXCEPT !.counts = db'.state.counts]
      /\ stops \in 0..MaxStops
  BY WalkFields DEF Enter, IngestInv, TypeOK
\* The output that the walk begins from.
<1>2. /\ db' \in Output /\ db'.state # None /\ db'.state \in State
      /\ db'.state.id = walk.id /\ Recorded(db') = Recorded(db)
      /\ db'.rows = db.rows /\ db'.stamped = db.stamped
      /\ Exactly(db', Behind(db'.frontier), db'.state.counts)
      /\ Found(db'.frontier) /\ Owned(db')
  <2>1. CASE db.state = None
    <3> DEFINE x == [id |-> walk.id, counts |-> NoCounts]
               F == [d \in {Root} |-> 0]
    <3>1. db' = [db EXCEPT !.state = x, !.frontier = F]
      BY <1>1, <2>1 DEF Enter, Starting
    <3>2. x \in State /\ x # None /\ x.id = walk.id /\ x.counts = NoCounts
      <4>1. x \in State /\ x.id = walk.id /\ x.counts = NoCounts
        BY <1>1, Nothing DEF State
      <4>2. QED
        BY <4>1, IngestAssumption
    <3>3. F \in Frontier /\ Behind(F) = {} /\ Found(F)
      BY AtRoot
    <3> HIDE DEF x, F
    <3>4. /\ db' \in Output /\ db'.state = x /\ db'.frontier = F
          /\ db'.rows = db.rows /\ db'.inner = db.inner /\ db'.stamped = db.stamped
          /\ Recorded(db') = Recorded(db)
      <4>1. db' = Restated(db, x, F)
        BY <3>1 DEF Restated
      <4>2. QED
        BY <1>1, <3>2, <3>3, <4>1, RestatedIs
    <3>5. Recorded(db) \in {{}, Wanted} /\ db.inner = Recorded(db) \cap Binaries
      BY <2>1 DEF IngestInv, ExactlyBehind
    <3>6. Cardinality({}) = 0 /\ {} \cap Binaries = {}
      BY FS_EmptySet
    <3>7. Exactly(db', {}, NoCounts)
      BY <3>4, <3>5, <3>6, Nothing DEF Exactly
    <3>8. Owned(db')
      <4>1. Owned(db)
        BY DEF IngestInv, OneSource
      <4>2. QED
        BY <3>4, <3>5, <4>1 DEF Owned
    <3>9. QED
      BY <3>2, <3>3, <3>4, <3>7, <3>8
  <2>2. CASE db.state # None
    <3>1. db' = db /\ db.state.id = walk.id
      BY <1>1, <2>2 DEF Enter, Belongs
    <3>2. db.state \in State
      BY <1>1, <2>2, Fields
    <3>3. QED
      BY <1>1, <2>2, <3>1, <3>2 DEF IngestInv, ExactlyBehind, OneSource
  <2>3. QED
    BY <2>1, <2>2
<1>3. db'.state.counts \in Counts
  BY <1>2 DEF State
<1>4. /\ walk' \in Walk /\ walk'.id = walk.id /\ walk'.counts = db'.state.counts
      /\ walk'.dir = 0 /\ walk'.mark = walk.mark
  BY <1>1, <1>3, WalkCounts
<1>5. Passed(work', walk') = Behind(db'.frontier) /\ InDirectory(work', walk')
  BY <1>1, <1>4 DEF Passed, InDirectory
<1>6. TypeOK'
  BY <1>1, <1>2, <1>4 DEF TypeOK
<1>7. ExactlyBehind'
  BY <1>1, <1>2, <1>4, <1>5 DEF ExactlyBehind
<1>8. AllStamped' /\ OneSource' /\ WillBeStamped(db', walk')
  BY <1>1, <1>2, <1>4, StampedSame DEF IngestInv, AllStamped, OneSource
<1>9. walk'.id # None
  BY <1>1, <1>4, IngestAssumption
<1>10. QED
  BY <1>1, <1>2, <1>4, <1>5, <1>6, <1>7, <1>8, <1>9 DEF IngestInv

-----------------------------------------------------------------------------
(* The steps of the walk.                                                  *)

\* The directory of an attempt and what is left in it.
Opens(k, d, T) == [k EXCEPT !.dir = d, !.todo = T]

LEMMA OpensIs ==
    ASSUME NEW k \in Walk, NEW d \in Dirs \cup {0}, NEW T \in SUBSET Files
    PROVE  /\ Opens(k, d, T) \in Walk
           /\ Opens(k, d, T).id = k.id /\ Opens(k, d, T).counts = k.counts
           /\ Opens(k, d, T).dir = d /\ Opens(k, d, T).todo = T
           /\ Opens(k, d, T).mark = k.mark
<1> DEFINE h == [k EXCEPT !.dir = d, !.todo = T]
<1>1. h \in Walk
  BY DEF Walk
<1>2. /\ h.id = k.id /\ h.counts = k.counts /\ h.dir = d
      /\ h.todo = T /\ h.mark = k.mark
  BY DEF Walk
<1>3. Opens(k, d, T) = h
  BY DEF Opens
<1> HIDE DEF h
<1>4. QED
  BY <1>1, <1>2, <1>3

\* What the listing of the first pending directory finds joins the frontier.
LEMMA Opened ==
    ASSUME NEW F \in Frontier, Found(F), NEW dir, First(dir, F)
    PROVE  LET found == {d \in Dirs \ {Root} : Parent[d] = dir}
               G == [d \in DOMAIN F \cup found |-> IF d \in DOMAIN F THEN F[d] ELSE 0]
           IN  /\ G \in Frontier /\ First(dir, G) /\ Found(G)
               /\ \A d \in Dirs \ DOMAIN G : dir < d => dir < Parent[d]
<1> DEFINE found == {d \in Dirs \ {Root} : Parent[d] = dir}
           G == [d \in DOMAIN F \cup found |-> IF d \in DOMAIN F THEN F[d] ELSE 0]
<1>1. /\ DOMAIN F \in SUBSET Dirs /\ \A d \in DOMAIN F : F[d] \in Files \cup {0}
      /\ dir \in DOMAIN F /\ dir \in Nat /\ dir >= 1 /\ \A e \in DOMAIN F : dir <= e
  BY FrontierType, Numbers DEF First
<1>2. DOMAIN G = DOMAIN F \cup found /\ DOMAIN G \in SUBSET Dirs
  BY <1>1
<1>3. /\ \A d \in DOMAIN F : G[d] = F[d]
      /\ \A d \in DOMAIN G : d \notin DOMAIN F => G[d] = 0
  OBVIOUS
<1>4. G \in Frontier
  <2>1. G \in [DOMAIN G -> Files \cup {0}]
    BY <1>1
  <2> HIDE DEF G
  <2>2. QED
    BY <1>2, <2>1, IsFrontier
<1>5. \A d \in found : dir < d /\ d \in Nat
  BY IngestAssumption, Numbers
<1>6. ASSUME NEW d \in Dirs \ {Root}, d \notin found
      PROVE  Parent[d] # dir /\ Parent[d] \in Nat
  BY <1>6, IngestAssumption, Numbers
<1> HIDE DEF G
<1>7. First(dir, G)
  <2>1. \A e \in DOMAIN G : dir <= e
    BY <1>1, <1>2, <1>5
  <2>2. QED
    BY <1>1, <1>2, <2>1 DEF First
<1>8. ASSUME NEW d \in Dirs \ DOMAIN G, dir < d
      PROVE  dir < Parent[d]
  <2>1. d # Root
    BY <1>1, <1>8 DEF Root
  <2>2. d \notin found /\ d \notin DOMAIN F
    BY <1>2, <1>8
  <2>3. dir <= Parent[d]
    BY <1>1, <1>8, <2>2 DEF Found
  <2>4. QED
    BY <1>1, <1>6, <2>1, <2>2, <2>3
<1>9. Found(G)
  <2>1. ASSUME NEW d \in Dirs \ DOMAIN G, NEW m \in DOMAIN G, First(m, G), m < d
        PROVE  m <= Parent[d]
    <3>1. m = dir
      <4>1. m <= dir /\ dir <= m
        BY <1>7, <2>1 DEF First
      <4>2. m \in Nat
        BY <1>2, <2>1, Numbers
      <4>3. QED
        BY <1>1, <4>1, <4>2
    <3>2. dir < Parent[d] /\ Parent[d] \in Nat
      <4>1. d # Root
        BY <1>1, <2>1, <3>1 DEF Root
      <4>2. Parent[d] \in Nat
        BY <4>1, IngestAssumption, Numbers
      <4>3. QED
        BY <1>8, <2>1, <3>1, <4>2
    <3>3. QED
      BY <1>1, <3>1, <3>2
  <2>2. ASSUME NEW d \in DOMAIN G, G[d] # 0
        PROVE  First(d, G)
    <3>1. d \in DOMAIN F /\ F[d] # 0
      BY <1>3, <2>2
    <3>2. First(d, F)
      BY <3>1 DEF Found
    <3>3. d = dir
      BY <1>1, <3>2, FrontierType, Numbers DEF First
    <3>4. QED
      BY <1>7, <3>3
  <2>3. QED
    BY <2>1, <2>2 DEF Found
<1>10. QED
  BY <1>4, <1>7, <1>8, <1>9 DEF G

LEMMA OpenDirectoryKeeps == IngestInv /\ OpenDirectory => IngestInv'
<1> SUFFICES ASSUME IngestInv, OpenDirectory PROVE IngestInv'
  OBVIOUS
<1> DEFINE F == work.frontier
           dir == Lowest(DOMAIN F)
           found == {d \in Dirs \ {Root} : Parent[d] = dir}
           G == [d \in DOMAIN F \cup found |-> IF d \in DOMAIN F THEN F[d] ELSE 0]
           T == {f \in Files : Dir[f] = dir /\ f > F[dir]}
<1>1. /\ pc = "walk" /\ pc' = pc /\ db' = db /\ phase' = phase /\ stops' = stops
      /\ walk.dir = 0 /\ DOMAIN F # {}
      /\ work' = [work EXCEPT !.frontier = G]
      /\ walk' = [walk EXCEPT !.dir = dir, !.todo = T]
  BY DEF OpenDirectory, NextDirectory
<1>2. work \in Output /\ walk \in Walk /\ F \in Frontier /\ Found(F)
  BY <1>1, Fields DEF IngestInv, TypeOK
<1>3. T \in SUBSET Files
  OBVIOUS
<1>4. First(dir, F) /\ dir \in Dirs
  <2> DEFINE D == DOMAIN F
  <2>1. D \in SUBSET Dirs /\ D \subseteq Nat
    BY <1>2, FrontierType, Numbers
  <2> HIDE DEF D
  <2>2. D # {} => Lowest(D) \in D /\ \A y \in D : Lowest(D) <= y
    BY <2>1, LowestIsIn
  <2>3. QED
    BY <1>1, <2>1, <2>2 DEF First, D
<1>5. /\ G \in Frontier /\ First(dir, G) /\ Found(G)
      /\ \A d \in Dirs \ DOMAIN G : dir < d => dir < Parent[d]
  <2> HIDE DEF F, dir
  <2>1. QED
    BY <1>2, <1>4, Opened
<1>6. \A g \in Files : Dir[g] = dir => (g \in T <=> g > F[dir])
  OBVIOUS
<1>7. /\ \A f \in T : Dir[f] = dir
      /\ \A f \in T, g \in Files : Dir[g] = dir /\ f < g => g \in T
  <2> HIDE DEF dir
  <2>1. F[dir] \in Nat
    BY <1>2, <1>4, FrontierType DEF First
  <2> HIDE DEF F
  <2>2. QED
    BY <2>1, Numbers
<1> HIDE DEF G, T, dir, found
<1>8. /\ work' \in Output /\ work'.frontier = G /\ work'.state = work.state
      /\ work'.rows = work.rows /\ work'.inner = work.inner
      /\ work'.stamped = work.stamped /\ Recorded(work') = Recorded(work)
  BY <1>1, <1>2, <1>5, WithFrontier
<1>9. /\ walk' \in Walk /\ walk'.id = walk.id /\ walk'.counts = walk.counts
      /\ walk'.dir = dir /\ walk'.todo = T /\ walk'.mark = walk.mark
  <2>1. dir \in Dirs \cup {0}
    BY <1>4
  <2>2. QED
    <3>1. walk' = Opens(walk, dir, T)
      BY <1>1 DEF Opens
    <3>2. QED
      BY <1>2, <1>3, <2>1, <3>1, OpensIs
<1>10. dir # 0
  BY <1>4, Numbers
<1>11. Behind(F) = {f \in Wanted : Dir[f] < dir \/ (Dir[f] = dir /\ f \notin T)}
  <2> HIDE DEF F
  <2>1. QED
    BY <1>2, <1>4, <1>6, BehindReading
<1>12. Passed(work', walk') = Passed(work, walk)
  BY <1>1, <1>9, <1>10, <1>11 DEF Passed
<1>13. InDirectory(work', walk')
  BY <1>5, <1>7, <1>8, <1>9 DEF InDirectory
<1>14. Exactly(work', Passed(work', walk'), walk'.counts)
  <2>1. Exactly(work, Passed(work, walk), walk.counts)
    BY <1>1 DEF IngestInv, ExactlyBehind
  <2>2. QED
    BY <1>8, <1>9, <1>12, <2>1, ExactlySame
<1>15. Owned(work')
  <2>1. Owned(work)
    BY <1>1 DEF IngestInv
  <2>2. QED
    BY <1>8, <2>1 DEF Owned
<1>16. TypeOK'
  BY <1>1, <1>8, <1>9 DEF IngestInv, TypeOK
<1>17. ExactlyBehind'
  BY <1>1, <1>14 DEF IngestInv, ExactlyBehind
<1>18. AllStamped' /\ OneSource' /\ Found(db'.frontier)
  BY <1>1 DEF IngestInv, AllStamped, OneSource
<1>19. Found(work'.frontier) /\ WillBeStamped(work', walk')
  BY <1>1, <1>5, <1>8, <1>9, StampedSame DEF IngestInv
<1>20. QED
  BY <1>1, <1>8, <1>9, <1>13, <1>15, <1>16, <1>17, <1>18, <1>19 DEF IngestInv

\* The counts of an attempt and what is left in its directory.
Reads(k, c, T) == [k EXCEPT !.counts = c, !.todo = T]

LEMMA ReadsIs ==
    ASSUME NEW k \in Walk, NEW c \in Counts, NEW T \in SUBSET Files
    PROVE  /\ Reads(k, c, T) \in Walk
           /\ Reads(k, c, T).id = k.id /\ Reads(k, c, T).counts = c
           /\ Reads(k, c, T).dir = k.dir /\ Reads(k, c, T).todo = T
           /\ Reads(k, c, T).mark = k.mark
<1> DEFINE h == [k EXCEPT !.counts = c, !.todo = T]
<1>1. h \in Walk
  BY DEF Walk
<1>2. /\ h.id = k.id /\ h.counts = c /\ h.dir = k.dir
      /\ h.todo = T /\ h.mark = k.mark
  BY DEF Walk
<1>3. Reads(k, c, T) = h
  BY DEF Reads
<1> HIDE DEF h
<1>4. QED
  BY <1>1, <1>2, <1>3

\* The cursor of the directory that is read is moved.
LEMMA Moved ==
    ASSUME NEW F \in Frontier, Found(F), NEW dir, First(dir, F), NEW f \in Files
    PROVE  LET G == [F EXCEPT ![dir] = f]
           IN  /\ G \in Frontier /\ DOMAIN G = DOMAIN F /\ G[dir] = f
               /\ First(dir, G) /\ Found(G)
<1> DEFINE G == [F EXCEPT ![dir] = f]
<1>1. DOMAIN F \in SUBSET Dirs /\ F \in [DOMAIN F -> Files \cup {0}] /\ dir \in DOMAIN F
  BY FrontierType DEF First
<1>2. /\ G \in [DOMAIN F -> Files \cup {0}] /\ DOMAIN G = DOMAIN F /\ G[dir] = f
      /\ \A d \in DOMAIN F : d # dir => G[d] = F[d]
  BY <1>1
<1> HIDE DEF G
<1>3. G \in Frontier
  BY <1>1, <1>2, IsFrontier
<1>4. \A d : First(d, F) <=> First(d, G)
  BY <1>2 DEF First
<1>5. Found(G)
  BY <1>2, <1>4 DEF Found
<1>6. QED
  BY <1>2, <1>3, <1>4, <1>5 DEF G

\* Whose rows they are, with the rows of one more file.
LEMMA OwnedExtracted ==
    ASSUME NEW w \in Output, Owned(w), w.state # None, NEW f \in Files,
           w.state.id \in Idents
    PROVE  Owned(Extracted(w, f, w.state.id))
<1> DEFINE s == Extracted(w, f, w.state.id)
<1>1. /\ s.state = w.state /\ Recorded(s) = Recorded(w) \cup ({f} \cap Wanted)
      /\ \A g \in Files : g \in Recorded(w) => s.rows[g] = w.rows[g]
      /\ f \in Wanted /\ f \notin Recorded(w) => s.rows[f] = w.state.id
  BY ExtractedIs
<1>2. Recorded(w) \in SUBSET Files
  BY Fields
<1> HIDE DEF s
<1>3. CASE f \in Recorded(w) \/ f \notin Wanted
  <2>1. Recorded(s) = Recorded(w)
    BY <1>1, <1>3
  <2>2. \A g \in Recorded(s) : s.rows[g] = w.rows[g]
    BY <1>1, <1>2, <2>1
  <2>3. QED
    BY <1>1, <2>1, <2>2 DEF Owned, s
<1>4. CASE f \notin Recorded(w) /\ f \in Wanted
  <2>1. \A g \in Recorded(w) : w.rows[g] = w.state.id
    BY <1>4 DEF Owned
  <2>2. \A g \in Recorded(s) : s.rows[g] = s.state.id
    BY <1>1, <1>2, <1>4, <2>1
  <2>3. QED
    BY <2>2 DEF Owned, s
<1>5. QED
  BY <1>3, <1>4

\* The row of a file that was not there is above the watermarks.
LEMMA WillBeStampedExtracted ==
    ASSUME NEW w \in Output, NEW k \in Walk, NEW h \in Walk, NEW f \in Files, k.id \in Idents,
           h.id = k.id, h.mark = k.mark, k.mark \subseteq Recorded(w), WillBeStamped(w, k)
    PROVE  WillBeStamped(Extracted(w, f, k.id), h)
<1> DEFINE s == Extracted(w, f, k.id)
<1>1. /\ Recorded(s) = Recorded(w) \cup ({f} \cap Wanted) /\ s.stamped = w.stamped
      /\ \A g \in Files : g \in Recorded(w) => s.rows[g] = w.rows[g]
      /\ f \in Wanted /\ f \notin Recorded(w) => s.rows[f] = k.id
  BY ExtractedIs
<1>2. Recorded(w) \in SUBSET Files
  BY Fields
<1> HIDE DEF s
<1>3. Due(w, k) \subseteq Due(s, h)
  BY <1>1 DEF Due
<1>4. ASSUME NEW g \in OfRuns(s)
      PROVE  g \in s.stamped \cup Due(s, h)
  <2>1. g \in Recorded(s) /\ s.rows[g] \in Versioned
    BY DEF OfRuns
  <2>2. CASE g \in Recorded(w)
    <3>1. g \in OfRuns(w)
      BY <1>1, <1>2, <2>1, <2>2 DEF OfRuns
    <3>2. QED
      BY <1>1, <1>3, <3>1 DEF WillBeStamped
  <2>3. CASE g \notin Recorded(w)
    <3>1. g = f /\ f \in Wanted
      BY <1>1, <2>1, <2>3
    <3>2. k.id \in Versioned /\ g \notin k.mark
      BY <1>1, <2>1, <2>3, <3>1
    <3>3. QED
      BY <2>1, <3>2 DEF Due
  <2>4. QED
    BY <2>2, <2>3
<1>5. QED
  BY <1>4 DEF WillBeStamped, s

LEMMA DoFileKeeps == IngestInv /\ DoFile => IngestInv'
<1> SUFFICES ASSUME IngestInv, DoFile PROVE IngestInv'
  OBVIOUS
<1> DEFINE dir == walk.dir
           todo == walk.todo
           f == Lowest(todo)
           w == Extracted(work, f, walk.id)
           c == [w EXCEPT !.frontier[dir] = f]
           n == Counted(walk, work, f)
           k == Reads(walk, n, todo \ {f})
           F == work.frontier
           G == [F EXCEPT ![dir] = f]
           S == Passed(work, walk)
<1>1. /\ pc = "walk" /\ pc' = pc /\ phase' = phase /\ stops' = stops /\ dir # 0 /\ todo # {}
      /\ Advanced(w, c, k)
  BY DEF DoFile, Reads
<1>2. /\ work \in Output /\ walk \in Walk /\ F \in Frontier /\ Found(F) /\ Owned(work)
      /\ InDirectory(work, walk) /\ Exactly(work, S, walk.counts)
      /\ work.state = db.state /\ work.stamped = db.stamped
      /\ db.state # None /\ db.state.id = walk.id /\ walk.id \in Idents
      /\ Recorded(db) \subseteq Recorded(work)
  BY <1>1, Fields, WalkFields DEF IngestInv, TypeOK, ExactlyBehind
<1>3. /\ First(dir, F) /\ \A g \in todo : Dir[g] = dir
      /\ \A d \in Dirs \ DOMAIN F : dir < d => dir < Parent[d]
      /\ \A h \in todo, g \in Files : Dir[g] = dir /\ h < g => g \in todo
  BY <1>1, <1>2 DEF InDirectory
<1>4. todo \in SUBSET Files /\ dir \in Dirs
  BY <1>1, <1>2, WalkFields
<1>5. f \in todo /\ f \in Files /\ \A g \in todo : f <= g
  <2>1. todo \subseteq Nat
    BY <1>4, Numbers
  <2> HIDE DEF todo
  <2>2. QED
    BY <1>1, <1>4, <2>1, LowestIsIn
<1>6. S = {g \in Wanted : Dir[g] < dir \/ (Dir[g] = dir /\ g \notin todo)}
  BY <1>1 DEF Passed
<1> HIDE DEF dir, todo, f, S
<1>7. f \notin S /\ S \in SUBSET Wanted
  BY <1>3, <1>4, <1>5, <1>6, Numbers
<1>8. /\ w \in Output /\ w.frontier = F /\ w.state = work.state /\ w.stamped = work.stamped
      /\ Recorded(w) = Recorded(work) \cup ({f} \cap Wanted)
  BY <1>2, <1>5, ExtractedIs
<1>9. n \in Counts /\ Exactly(w, S \cup ({f} \cap Wanted), n)
  BY <1>2, <1>5, <1>7, ExactlyExtracted
<1>10. Owned(w)
  BY <1>2, <1>5, OwnedExtracted
<1> HIDE DEF n
<1>11. /\ k \in Walk /\ k.id = walk.id /\ k.counts = n /\ k.dir = dir
       /\ k.todo = todo \ {f} /\ k.mark = walk.mark
  BY <1>2, <1>4, <1>9, ReadsIs DEF dir
<1> HIDE DEF k
<1>12. WillBeStamped(w, k)
  <2>1. walk.mark \subseteq Recorded(work) /\ WillBeStamped(work, walk)
    BY <1>1, <1>2 DEF IngestInv
  <2>2. QED
    BY <1>2, <1>5, <1>11, <2>1, WillBeStampedExtracted
<1> HIDE DEF w
<1>13. G \in Frontier /\ DOMAIN G = DOMAIN F /\ G[dir] = f /\ First(dir, G) /\ Found(G)
  <2> HIDE DEF F
  <2>1. QED
    BY <1>2, <1>3, <1>5, Moved
<1>14. c = [w EXCEPT !.frontier = G]
  BY <1>8
<1> HIDE DEF F, G, c
<1>15. /\ c \in Output /\ c.frontier = G /\ c.state = w.state
       /\ c.rows = w.rows /\ c.inner = w.inner /\ c.stamped = w.stamped
  BY <1>8, <1>13, <1>14, WithFrontier
\* The files that are left are the last ones of the directory.
<1>16. ASSUME NEW g \in Files, Dir[g] = dir
       PROVE  g \in todo \ {f} <=> g > f
  <2>1. f \in Nat /\ g \in Nat
    BY <1>5, Numbers
  <2>2. g \in todo => f <= g
    BY <1>5
  <2>3. f < g => g \in todo
    BY <1>3, <1>5, <1>16
  <2>4. QED
    BY <2>1, <2>2, <2>3
<1>17. InDirectory(w, k) /\ InDirectory(c, k)
  <2>1. \A g \in todo \ {f} : Dir[g] = dir
    BY <1>3
  <2>2. ASSUME NEW h \in todo \ {f}, NEW g \in Files, Dir[g] = dir, h < g
        PROVE  g \in todo \ {f}
    <3>1. h \in Files /\ Dir[h] = dir /\ h \in Nat /\ g \in Nat /\ f \in Nat
      BY <1>3, <1>4, <1>5, <2>2, Numbers
    <3>2. h > f
      BY <1>16, <2>2, <3>1
    <3>3. g > f
      BY <2>2, <3>1, <3>2
    <3>4. QED
      BY <1>16, <2>2, <3>3
  <2>3. QED
    BY <1>3, <1>8, <1>11, <1>13, <1>15, <2>1, <2>2 DEF InDirectory
<1>18. Passed(w, k) = S \cup ({f} \cap Wanted) /\ Passed(c, k) = Passed(w, k)
  <2>1. dir # 0
    BY <1>1
  <2>2. Passed(w, k) = {g \in Wanted : Dir[g] < dir \/ (Dir[g] = dir /\ g \notin todo \ {f})}
    BY <1>11, <2>1 DEF Passed
  <2>3. Passed(c, k) = Passed(w, k)
    BY <1>11, <2>1 DEF Passed
  <2>4. QED
    BY <1>3, <1>5, <1>6, <2>2, <2>3
<1>19. Behind(c.frontier) = Passed(w, k)
  <2>1. Behind(G) = {g \in Wanted : Dir[g] < dir \/ (Dir[g] = dir /\ g \notin todo \ {f})}
    <3> DEFINE T == todo \ {f}
    <3>1. \A g \in Files : Dir[g] = dir => (g \in T <=> g > G[dir])
      BY <1>13, <1>16
    <3> HIDE DEF T
    <3>2. Behind(G) = {g \in Wanted : Dir[g] < dir \/ (Dir[g] = dir /\ g \notin T)}
      BY <1>13, <3>1, BehindReading
    <3>3. QED
      BY <3>2 DEF T
  <2>2. Passed(w, k) = {g \in Wanted : Dir[g] < dir \/ (Dir[g] = dir /\ g \notin todo \ {f})}
    BY <1>1, <1>11 DEF Passed
  <2>3. QED
    BY <1>15, <2>1, <2>2
<1>20. Exactly(w, Passed(w, k), k.counts)
  BY <1>9, <1>11, <1>18
<1>21. Recorded(db) \subseteq Recorded(w)
  BY <1>2, <1>8
<1>22. Found(w.frontier) /\ Found(c.frontier)
  BY <1>2, <1>8, <1>13, <1>15 DEF F
<1>23. w.state = db.state /\ w.stamped = db.stamped /\ c.state = db.state /\ c.stamped = db.stamped
  BY <1>2, <1>8, <1>15
<1>24. QED
  BY <1>1, <1>8, <1>10, <1>11, <1>12, <1>15, <1>17, <1>18, <1>19, <1>20, <1>21, <1>22, <1>23,
     AdvancedKeeps

\* What is behind the cursors and pending when the first directory is done.
LEMMA Closed ==
    ASSUME NEW F \in Frontier, Found(F), NEW dir \in Dirs, First(dir, F),
           \A d \in Dirs \ DOMAIN F : dir < d => dir < Parent[d]
    PROVE  LET rest == DOMAIN F \ {dir}
               G == [d \in rest |-> F[d]]
           IN  /\ G \in Frontier /\ Found(G)
               /\ Behind(G) = {f \in Wanted : Dir[f] <= dir}
<1> DEFINE rest == DOMAIN F \ {dir}
           G == [d \in rest |-> F[d]]
<1>1. /\ DOMAIN F \in SUBSET Dirs /\ \A d \in DOMAIN F : F[d] \in Files \cup {0}
      /\ dir \in DOMAIN F /\ dir \in Nat /\ \A e \in DOMAIN F : dir <= e /\ e \in Nat
  BY FrontierType, Numbers DEF First
<1>2. G \in Frontier
  <2>1. rest \in SUBSET Dirs /\ G \in [rest -> Files \cup {0}]
    BY <1>1
  <2> HIDE DEF rest, G
  <2>2. QED
    BY <2>1, IsFrontier
<1>3. DOMAIN G = rest /\ \A d \in rest : G[d] = F[d]
  OBVIOUS
<1> HIDE DEF G
<1>4. \A r \in rest : dir < r /\ r \in Nat
  BY <1>1
<1>5. \A r \in rest : G[r] = 0
  <2>1. ASSUME NEW r \in rest, F[r] # 0 PROVE FALSE
    <3>1. First(r, F)
      BY <2>1 DEF Found
    <3>2. r <= dir
      BY <1>1, <3>1 DEF First
    <3>3. QED
      BY <1>1, <1>4, <3>2
  <2>2. QED
    BY <1>3, <2>1
<1>6. ASSUME NEW d \in Dirs, dir < d
      PROVE  \E r \in rest : r <= d
  <2> DEFINE D == DOMAIN F
  <2>1. D \in SUBSET Dirs /\ dir \in D /\ \A e \in D : dir <= e
    BY <1>1
  <2>2. \A e \in Dirs \ D : dir < e => dir < Parent[e]
    OBVIOUS
  <2> HIDE DEF D
  <2>3. \E r \in D \ {dir} : r <= d
    BY <1>6, <2>1, <2>2, NoGap
  <2>4. QED
    BY <2>3 DEF D
<1> HIDE DEF rest
<1>7. Behind(G) = {f \in Wanted : Dir[f] <= dir}
  <2> SUFFICES ASSUME NEW f \in Wanted
               PROVE  (\A d \in rest : Dir[f] < d \/ (Dir[f] = d /\ f <= 0)) <=> Dir[f] <= dir
    BY <1>3, <1>5 DEF Behind
  <2>1. f \in Nat /\ f >= 1 /\ Dir[f] \in Nat /\ Dir[f] \in Dirs
    BY Numbers
  <2>2. ASSUME Dir[f] <= dir, NEW d \in rest
        PROVE  Dir[f] < d
    BY <1>1, <1>4, <2>1, <2>2
  <2>3. ASSUME \A d \in rest : Dir[f] < d \/ (Dir[f] = d /\ f <= 0), dir < Dir[f]
        PROVE  FALSE
    <3>1. PICK r \in rest : r <= Dir[f]
      BY <1>6, <2>1, <2>3
    <3>2. Dir[f] < r
      BY <2>1, <2>3
    <3>3. QED
      BY <1>4, <2>1, <3>1, <3>2
  <2>4. QED
    BY <1>1, <2>1, <2>2, <2>3
<1>8. Found(G)
  <2>1. ASSUME NEW d \in Dirs \ rest, NEW m \in rest, First(m, G), m < d
        PROVE  m <= Parent[d]
    <3>1. dir < m /\ m \in Nat /\ d \in Nat /\ dir < d
      BY <1>1, <1>4, <2>1, Numbers
    <3>2. d \notin DOMAIN F
      BY <2>1, <3>1, <1>1 DEF rest
    <3>3. dir < Parent[d]
      BY <3>1, <3>2
    <3>4. d # Root
      BY <1>1, <3>1, Numbers DEF Root
    <3>5. Parent[d] \in Dirs /\ Parent[d] \in Nat
      BY <3>4, IngestAssumption, Numbers
    <3>6. PICK r \in rest : r <= Parent[d]
      BY <1>6, <3>3, <3>5
    <3>7. m <= r /\ r \in Nat
      BY <1>3, <1>4, <2>1 DEF First
    <3>8. QED
      BY <3>1, <3>5, <3>6, <3>7
  <2>2. QED
    BY <1>3, <1>5, <2>1 DEF Found
<1>9. QED
  BY <1>2, <1>7, <1>8 DEF G, rest

\* An attempt is in no directory.
LEMMA WalkClosed ==
    ASSUME NEW k \in Walk
    PROVE  LET h == [k EXCEPT !.dir = 0]
           IN  /\ h \in Walk /\ h.id = k.id /\ h.counts = k.counts /\ h.dir = 0
               /\ h.todo = k.todo /\ h.mark = k.mark
<1> DEFINE h == [k EXCEPT !.dir = 0]
<1>1. h \in Walk
  BY DEF Walk
<1>2. /\ h.id = k.id /\ h.counts = k.counts /\ h.dir = 0
      /\ h.todo = k.todo /\ h.mark = k.mark
  BY DEF Walk
<1>3. QED
  BY <1>1, <1>2

LEMMA CloseDirectoryKeeps == IngestInv /\ CloseDirectory => IngestInv'
<1> SUFFICES ASSUME IngestInv, CloseDirectory PROVE IngestInv'
  OBVIOUS
<1> DEFINE dir == walk.dir
           F == work.frontier
           G == [d \in DOMAIN F \ {dir} |-> F[d]]
           w == [work EXCEPT !.frontier = G]
           k == [walk EXCEPT !.dir = 0]
           S == Passed(work, walk)
<1>1. /\ pc = "walk" /\ pc' = pc /\ phase' = phase /\ stops' = stops /\ dir # 0
      /\ walk.todo = {} /\ Advanced(w, w, k)
  BY DEF CloseDirectory
<1>2. /\ work \in Output /\ walk \in Walk /\ F \in Frontier /\ Found(F) /\ Owned(work)
      /\ InDirectory(work, walk) /\ Exactly(work, S, walk.counts)
      /\ work.state = db.state /\ work.stamped = db.stamped
      /\ Recorded(db) \subseteq Recorded(work)
  BY <1>1, Fields DEF IngestInv, TypeOK, ExactlyBehind
<1>3. First(dir, F) /\ \A d \in Dirs \ DOMAIN F : dir < d => dir < Parent[d]
  BY <1>1, <1>2 DEF InDirectory
<1>4. dir \in Dirs
  BY <1>1, <1>2, WalkFields
<1>5. S = {f \in Wanted : Dir[f] <= dir}
  <2>1. S = {f \in Wanted : Dir[f] < dir \/ Dir[f] = dir}
    BY <1>1 DEF Passed
  <2>2. \A f \in Wanted : Dir[f] \in Nat /\ dir \in Nat
    BY <1>4, Numbers
  <2> HIDE DEF S, dir
  <2>3. QED
    BY <2>1, <2>2
<1>6. G \in Frontier /\ Found(G) /\ Behind(G) = {f \in Wanted : Dir[f] <= dir}
  <2> HIDE DEF F, dir
  <2>1. QED
    BY <1>2, <1>3, <1>4, Closed
<1>7. /\ k \in Walk /\ k.id = walk.id /\ k.counts = walk.counts /\ k.dir = 0
      /\ k.mark = walk.mark
  BY <1>2, WalkClosed
<1> HIDE DEF k, G, dir, S
<1>8. /\ w \in Output /\ w.frontier = G /\ w.state = work.state /\ w.rows = work.rows
      /\ w.inner = work.inner /\ w.stamped = work.stamped /\ Recorded(w) = Recorded(work)
  BY <1>2, <1>6, WithFrontier
<1> HIDE DEF w
<1>9. Passed(w, k) = S /\ Behind(w.frontier) = S /\ InDirectory(w, k)
  BY <1>5, <1>6, <1>7, <1>8 DEF Passed, InDirectory
<1>10. Exactly(w, Passed(w, k), k.counts)
  BY <1>2, <1>7, <1>8, <1>9, ExactlySame
<1>11. Owned(w)
  BY <1>2, <1>8 DEF Owned
<1>12. Found(w.frontier) /\ WillBeStamped(w, k)
  BY <1>1, <1>6, <1>7, <1>8, StampedSame DEF IngestInv
<1>13. QED
  BY <1>1, <1>2, <1>7, <1>8, <1>9, <1>10, <1>11, <1>12, AdvancedKeeps

-----------------------------------------------------------------------------
(* The end of the walk.                                                    *)

LEMMA ExhaustedKeeps == IngestInv /\ Exhausted => IngestInv'
<1> SUFFICES ASSUME IngestInv, Exhausted PROVE IngestInv'
  OBVIOUS
<1> DEFINE s == Stamped(work, walk)
<1>1. /\ pc = "walk" /\ pc' = "drop" /\ walk' = walk /\ phase' = phase /\ stops' = stops
      /\ walk.dir = 0 /\ DOMAIN work.frontier = {} /\ db' = s /\ work' = s
  BY DEF Exhausted
<1>2. /\ work \in Output /\ walk \in Walk /\ Owned(work)
      /\ Exactly(work, Passed(work, walk), walk.counts)
      /\ work.state = db.state /\ work.stamped = db.stamped
      /\ db.state # None /\ db.state.id = walk.id /\ phase = "open" /\ walk.id # None
      /\ walk.mark \subseteq Recorded(db) /\ Recorded(db) \subseteq Recorded(work)
      /\ WillBeStamped(work, walk) /\ stops \in 0..MaxStops
  BY <1>1 DEF IngestInv, TypeOK, ExactlyBehind
<1>3. /\ s \in Output /\ s.state # None
      /\ s.state.id = work.state.id /\ s.state.counts = walk.counts
      /\ s.frontier = work.frontier
      /\ s.rows = work.rows /\ s.inner = work.inner
      /\ s.stamped = work.stamped \cup Due(work, walk)
      /\ Recorded(s) = Recorded(work)
  BY <1>2, StampedIs
<1> HIDE DEF s
<1>4. Passed(work, walk) = Behind(s.frontier) /\ Passed(s, walk) = Behind(s.frontier)
  BY <1>1, <1>3 DEF Passed
<1>5. Exactly(s, Behind(s.frontier), walk.counts)
  BY <1>2, <1>3, <1>4, ExactlySame
<1>6. Owned(s)
  BY <1>2, <1>3, OwnedSame
<1>7. Found(s.frontier) /\ DOMAIN s.frontier = {}
  BY <1>1, <1>3, FoundNothing
<1>8. OfRuns(s) \subseteq s.stamped /\ WillBeStamped(s, walk) /\ walk.mark \subseteq Recorded(s)
  BY <1>2, <1>3 DEF OfRuns, WillBeStamped
<1>9. TypeOK'
  BY <1>1, <1>2, <1>3 DEF TypeOK
<1>10. ExactlyBehind'
  BY <1>1, <1>2, <1>3, <1>4, <1>5 DEF ExactlyBehind
<1>11. AllStamped' /\ OneSource'
  BY <1>1, <1>6, <1>8 DEF AllStamped, OneSource
<1>12. QED
  BY <1>1, <1>2, <1>3, <1>6, <1>7, <1>8, <1>9, <1>10, <1>11 DEF IngestInv

\* The private tables and the frontier are dropped, or the private tables and the state.
Unqueued(w) == [w EXCEPT !.tables = @ \ {"frontier"}, !.frontier = NoFrontier]

Ended(w) == [w EXCEPT !.tables = {}, !.state = None]

LEMMA UnqueuedIs ==
    ASSUME NEW w \in Output
    PROVE  /\ Unqueued(w) \in Output /\ Unqueued(w).frontier = NoFrontier
           /\ Unqueued(w).state = w.state /\ Unqueued(w).rows = w.rows
           /\ Unqueued(w).inner = w.inner /\ Unqueued(w).stamped = w.stamped
           /\ Recorded(Unqueued(w)) = Recorded(w)
<1> DEFINE s == Unqueued(w)
<1>1. NoFrontier \in Frontier
  BY Nothing
<1>2. s \in Output
  BY <1>1 DEF Unqueued, Output
<1>3. /\ s.frontier = NoFrontier /\ s.state = w.state /\ s.rows = w.rows
      /\ s.inner = w.inner /\ s.stamped = w.stamped
  BY DEF Unqueued, Output
<1>4. Recorded(s) = Recorded(w)
  BY <1>3 DEF Recorded
<1>5. QED
  BY <1>2, <1>3, <1>4

LEMMA EndedIs ==
    ASSUME NEW w \in Output
    PROVE  /\ Ended(w) \in Output /\ Ended(w).frontier = w.frontier
           /\ Ended(w).state = None /\ Ended(w).rows = w.rows
           /\ Ended(w).inner = w.inner /\ Ended(w).stamped = w.stamped
           /\ Recorded(Ended(w)) = Recorded(w)
<1> DEFINE s == Ended(w)
<1>1. s \in Output
  BY DEF Ended, Output
<1>2. /\ s.frontier = w.frontier /\ s.state = None /\ s.rows = w.rows
      /\ s.inner = w.inner /\ s.stamped = w.stamped
  BY DEF Ended, Output
<1>3. Recorded(s) = Recorded(w)
  BY <1>2 DEF Recorded
<1>4. QED
  BY <1>1, <1>2, <1>3

LEMMA DropFrontierKeeps == IngestInv /\ DropFrontier => IngestInv'
<1> SUFFICES ASSUME IngestInv, DropFrontier PROVE IngestInv'
  OBVIOUS
<1>1. /\ pc = "drop" /\ pc' = pc /\ walk' = walk /\ phase' = phase /\ stops' = stops
      /\ db' = Unqueued(db) /\ work' = db'
  BY DEF DropFrontier, Unqueued
<1>2. /\ db \in Output /\ work = db /\ walk.dir = 0 /\ DOMAIN db.frontier = {}
      /\ db.state # None /\ walk \in Walk
      /\ Exactly(db, Behind(db.frontier), db.state.counts)
      /\ Exactly(db, Passed(db, walk), walk.counts)
  BY <1>1 DEF IngestInv, TypeOK, ExactlyBehind
<1>3. /\ db' \in Output /\ db'.frontier = NoFrontier
      /\ db'.state = db.state /\ db'.rows = db.rows
      /\ db'.inner = db.inner /\ db'.stamped = db.stamped
      /\ Recorded(db') = Recorded(db)
  BY <1>1, <1>2, UnqueuedIs
<1>4. DOMAIN db'.frontier = {} /\ Found(db'.frontier)
  BY <1>3, Nothing, FoundNothing
<1>5. /\ Behind(db'.frontier) = Wanted /\ Behind(db.frontier) = Wanted
      /\ Passed(db, walk) = Wanted /\ Passed(db', walk) = Wanted
  BY <1>2, <1>4, BehindNothing DEF Passed
<1>6. /\ Exactly(db', Wanted, db.state.counts) /\ Exactly(db', Wanted, walk.counts)
  BY <1>2, <1>3, <1>5, ExactlySame
<1>7. TypeOK'
  BY <1>1, <1>3 DEF IngestInv, TypeOK
<1>8. ExactlyBehind'
  BY <1>1, <1>2, <1>3, <1>5, <1>6 DEF ExactlyBehind, IngestInv
<1>9. AllStamped' /\ OneSource' /\ WillBeStamped(db', walk')
  BY <1>1, <1>2, <1>3, StampedSame DEF IngestInv, AllStamped, OneSource, Owned
<1>10. QED
  BY <1>1, <1>2, <1>3, <1>4, <1>7, <1>8, <1>9 DEF IngestInv

LEMMA DropStateKeeps == IngestInv /\ DropState => IngestInv'
<1> SUFFICES ASSUME IngestInv, DropState PROVE IngestInv'
  OBVIOUS
<1>1. /\ pc = "drop" /\ pc' = "idle" /\ phase' = "returned" /\ stops' = stops
      /\ walk' = [NoWalk EXCEPT !.counts = walk.counts]
      /\ db' = Ended(db) /\ work' = NewOutput
  BY DEF DropState, Ended
<1>2. /\ db \in Output /\ work = db /\ walk.dir = 0 /\ DOMAIN db.frontier = {}
      /\ walk \in Walk /\ Exactly(db, Passed(db, walk), walk.counts)
  BY <1>1 DEF IngestInv, TypeOK, ExactlyBehind
<1>3. /\ db' \in Output /\ db'.frontier = db.frontier
      /\ db'.state = None /\ db'.rows = db.rows
      /\ db'.inner = db.inner /\ db'.stamped = db.stamped
      /\ Recorded(db') = Recorded(db)
  BY <1>1, <1>2, EndedIs
<1>4. walk' \in Walk /\ walk'.counts = walk.counts
  <2>1. walk.counts \in Counts /\ NoWalk \in Walk
    BY <1>2, WalkFields, Nothing
  <2>2. QED
    BY <1>1, <2>1, WalkCounts
<1>5. Passed(db, walk) = Wanted
  BY <1>2, BehindNothing DEF Passed
<1>6. Exactly(db', Wanted, walk'.counts)
  BY <1>2, <1>3, <1>4, <1>5, ExactlySame
<1>7. Recorded(db') = Wanted /\ db'.inner = Recorded(db') \cap Binaries
  BY <1>6 DEF Exactly
<1>8. TypeOK'
  BY <1>1, <1>3, <1>4, Nothing DEF IngestInv, TypeOK
<1>9. ExactlyBehind'
  BY <1>1, <1>3, <1>6, <1>7 DEF ExactlyBehind
<1>10. AllStamped' /\ OneSource'
  BY <1>3, StampedSame DEF IngestInv, AllStamped, OneSource, Owned
<1>11. Found(db'.frontier)
  BY <1>2, <1>3, FoundNothing
<1>12. QED
  BY <1>1, <1>8, <1>9, <1>10, <1>11 DEF IngestInv

LEMMA CompleteKeeps == IngestInv /\ Complete => IngestInv'
<1> SUFFICES ASSUME IngestInv, Complete PROVE IngestInv'
  OBVIOUS
<1>1. /\ phase = "returned" /\ phase' = "complete" /\ db' = db /\ work' = work /\ pc' = pc
      /\ walk' = walk /\ stops' = stops
  BY DEF Complete
<1>2. pc = "idle" /\ pc' = "idle"
  BY <1>1 DEF IngestInv
<1>3. QED
  BY <1>1, <1>2 DEF IngestInv, TypeOK, ExactlyBehind, AllStamped, OneSource

LEMMA StutterKeeps == IngestInv /\ UNCHANGED vars => IngestInv'
  BY DEF vars, IngestInv, TypeOK, ExactlyBehind, AllStamped, OneSource

-----------------------------------------------------------------------------
(* Theorems.                                                               *)

LEMMA StepKeeps == IngestInv /\ [Next]_vars => IngestInv'
<1> SUFFICES ASSUME IngestInv, [Next]_vars PROVE IngestInv'
  OBVIOUS
<1>1. ASSUME NEW id \in Idents, Begin(id) PROVE IngestInv'
  BY <1>1, BeginKeeps
<1>2. CASE Finished
  BY <1>2, StutterKeeps DEF Finished
<1>3. QED
  BY <1>1, <1>2, CreateTableKeeps, EnterKeeps, RefusedKeeps, OpenDirectoryKeeps,
     DoFileKeeps, CloseDirectoryKeeps, ExhaustedKeeps, DropFrontierKeeps, DropStateKeeps,
     CompleteKeeps, StopKeeps, StutterKeeps DEF Next

\* Whatever the source, the interval between commits and the attempts that raise, die or
\* are refused, the private tables, the rows and the memory of the walk fit together.
THEOREM IngestInvariant == Spec => []IngestInv
  BY InitInv, StepKeeps, PTL DEF Spec

\* The committed rows are exactly the files behind the committed cursors, and the
\* statistics count each of them once.
THEOREM NothingTwiceOrLeftOut == Spec => []ExactlyBehind
<1>1. IngestInv => ExactlyBehind
  BY DEF IngestInv
<1>2. QED
  BY <1>1, IngestInvariant, PTL

\* Every committed row that was recorded in a run is stamped.
THEOREM EveryRowStamped == Spec => []AllStamped
<1>1. IngestInv => AllStamped
  BY DEF IngestInv
<1>2. QED
  BY <1>1, IngestInvariant, PTL

\* An output holds the rows of one source, parser and run, and progress is taken up by
\* whoever it belongs to.
THEOREM NobodyElsesRows == Spec => []OneSource
<1>1. IngestInv => OneSource
  BY DEF IngestInv
<1>2. QED
  BY <1>1, IngestInvariant, PTL

\* What is committed is always a first part of the inputs.
UpToOne == \E n \in Wanted \cup {0} : Recorded(db) = {f \in Wanted : f <= n}

LEMMA CommittedIsUpTo == IngestInv => UpToOne
<1> SUFFICES ASSUME IngestInv PROVE UpToOne
  OBVIOUS
<1>1. db.frontier \in Frontier /\ NoFrontier \in Frontier
  BY Fields, Nothing DEF IngestInv, TypeOK
<1>2. \E n \in Wanted \cup {0} : Wanted = {f \in Wanted : f <= n}
  <2>1. Behind(NoFrontier) = Wanted
    BY Nothing, BehindNothing
  <2>2. QED
    BY <1>1, <2>1, BehindIsUpTo
<1>3. {} = {f \in Wanted : f <= 0}
  <2>1. \A f \in Wanted : f \in Nat /\ f >= 1
    BY Numbers
  <2>2. QED
    BY <2>1
<1>4. \E n \in Wanted \cup {0} : Behind(db.frontier) = {f \in Wanted : f <= n}
  BY <1>1, BehindIsUpTo
<1>5. Recorded(db) \in {{}, Wanted, Behind(db.frontier)}
  BY DEF IngestInv, ExactlyBehind, Exactly
<1>6. QED
  BY <1>2, <1>3, <1>4, <1>5 DEF UpToOne

\* A commit takes no row back.
LEMMA StampedRows ==
    ASSUME NEW w \in Output, NEW k
    PROVE  Recorded(Stamped(w, k)) = Recorded(w)
  BY DEF Stamped, Output, Recorded

LEMMA NothingTakenBack ==
    ASSUME IngestInv, [Next]_vars
    PROVE  Recorded(db) \subseteq Recorded(db')
<1>1. db \in Output /\ work \in Output
  BY DEF IngestInv, TypeOK
<1>2. CASE db' = db
  BY <1>2
<1>3. CASE CreateTable
  <2>1. db'.rows = db.rows
    BY <1>1, <1>3 DEF CreateTable, Output
  <2>2. QED
    BY <2>1 DEF Recorded
<1>4. CASE Enter
  <2>1. work = db
    BY <1>4 DEF Enter, IngestInv
  <2>2. db'.rows = db.rows
    BY <1>1, <1>4, <2>1 DEF Enter, Starting, Output
  <2>3. QED
    BY <2>2 DEF Recorded
<1>5. CASE DoFile
  <2> DEFINE f == Lowest(walk.todo)
             w == Extracted(work, f, walk.id)
             c == [w EXCEPT !.frontier[walk.dir] = f]
             k == Reads(walk, Counted(walk, work, f), walk.todo \ {f})
  <2>1. pc = "walk" /\ walk.todo # {} /\ Advanced(w, c, k)
    BY <1>5 DEF DoFile, Reads
  <2>2. walk.todo \in SUBSET Files /\ walk.todo \subseteq Nat /\ walk.id \in Idents
    BY <2>1, WalkFields, Numbers DEF IngestInv, TypeOK
  <2>3. f \in Files
    BY <2>1, <2>2, LowestIsIn
  <2> HIDE DEF f
  <2>4. w \in Output /\ Recorded(work) \subseteq Recorded(w)
    BY <1>1, <2>2, <2>3, ExtractedIs
  <2> HIDE DEF w, k
  <2>5. /\ w.frontier \in Frontier
        /\ w.frontier = work.frontier /\ First(walk.dir, work.frontier)
    <3>1. w.frontier \in Frontier
      BY <2>4, Fields
    <3>2. w.frontier = work.frontier
      BY <1>1, <2>2, <2>3, ExtractedIs DEF w
    <3>3. First(walk.dir, work.frontier)
      BY <1>5, <2>1 DEF DoFile, IngestInv, InDirectory
    <3>4. QED
      BY <3>1, <3>2, <3>3
  <2>6. c \in Output /\ Recorded(c) = Recorded(w)
    <3> DEFINE G == [w.frontier EXCEPT ![walk.dir] = f]
    <3>1. G \in Frontier
      <4>1. Found(work.frontier)
        BY <2>1 DEF IngestInv
      <4>2. QED
        BY <2>3, <2>5, <4>1, Moved
    <3>2. c = [w EXCEPT !.frontier = G]
      OBVIOUS
    <3> HIDE DEF G, c
    <3>3. QED
      BY <2>4, <3>1, <3>2, WithFrontier
  <2> HIDE DEF c
  <2>7. db' = db \/ db' = Stamped(c, k)
    BY <2>1 DEF Advanced
  <2>8. Recorded(db) \subseteq Recorded(work)
    BY <2>1 DEF IngestInv
  <2>9. QED
    BY <2>4, <2>6, <2>7, <2>8, StampedRows
<1>6. CASE CloseDirectory
  <2> DEFINE G == [d \in DOMAIN work.frontier \ {walk.dir} |-> work.frontier[d]]
             w == [work EXCEPT !.frontier = G]
             k == [walk EXCEPT !.dir = 0]
  <2>1. pc = "walk" /\ walk.dir # 0 /\ Advanced(w, w, k)
    BY <1>6 DEF CloseDirectory
  <2>2. G \in Frontier
    <3> DEFINE F == work.frontier
               dir == walk.dir
    <3>1. F \in Frontier /\ Found(F) /\ First(dir, F) /\ dir \in Dirs
          /\ \A d \in Dirs \ DOMAIN F : dir < d => dir < Parent[d]
      BY <1>1, <2>1, Fields, WalkFields DEF IngestInv, InDirectory, TypeOK
    <3> HIDE DEF F, dir
    <3>2. [d \in DOMAIN F \ {dir} |-> F[d]] \in Frontier
      BY <3>1, Closed
    <3>3. QED
      BY <3>2 DEF F, dir
  <2> HIDE DEF G
  <2>3. w \in Output /\ Recorded(w) = Recorded(work)
    BY <1>1, <2>2, WithFrontier
  <2> HIDE DEF w, k
  <2>4. db' = db \/ db' = Stamped(w, k)
    BY <2>1 DEF Advanced
  <2>5. Recorded(db) \subseteq Recorded(work)
    BY <2>1 DEF IngestInv
  <2>6. QED
    BY <2>3, <2>4, <2>5, StampedRows
<1>7. CASE Exhausted
  <2>1. db' = Stamped(work, walk) /\ Recorded(db) \subseteq Recorded(work)
    BY <1>7 DEF Exhausted, IngestInv
  <2>2. QED
    BY <1>1, <2>1, StampedRows
<1>8. CASE DropFrontier
  BY <1>1, <1>8, UnqueuedIs DEF DropFrontier, Unqueued
<1>9. CASE DropState
  BY <1>1, <1>9, EndedIs DEF DropState, Ended
<1>10. db' = db \/ CreateTable \/ Enter \/ DoFile \/ CloseDirectory \/ Exhausted
       \/ DropFrontier \/ DropState
  BY DEF Next, vars, Begin, Refused, OpenDirectory, Complete, Stop, Finished
<1>11. QED
  BY <1>2, <1>3, <1>4, <1>5, <1>6, <1>7, <1>8, <1>9, <1>10

\* The extraction is complete for good, and only with every input recorded.
LEMMA CompletesOnce ==
    ASSUME IngestInv, [Next]_vars
    PROVE  /\ phase = "complete" => phase' = "complete" /\ db' = db
           /\ phase # "complete" /\ phase' = "complete" =>
                Recorded(db) = Wanted /\ db' = db
<1>1. pc # "idle" => phase = "open"
  BY DEF IngestInv
<1>2. phase # "open" => Recorded(db) = Wanted
  BY DEF IngestInv, ExactlyBehind, Exactly
<1>3. CASE Complete
  BY <1>2, <1>3 DEF Complete
<1>4. CASE Finished \/ UNCHANGED vars
  BY <1>4 DEF Finished, vars
<1>5. CASE ~Complete /\ ~Finished /\ ~UNCHANGED vars
  <2>1. phase # "complete" /\ phase' # "complete"
    BY <1>1, <1>5 DEF Next, Begin, CreateTable, Enter, Refused, OpenDirectory, DoFile,
       CloseDirectory, Exhausted, DropFrontier, DropState, Stop
  <2>2. QED
    BY <2>1
<1>6. QED
  BY <1>3, <1>4, <1>5

\* A step of the walk is a step of the catalog, or none.
LEMMA StepRefines ==
    ASSUME IngestInv, UpToOne', [Next]_vars
    PROVE  [Abstract!Advance \/ Abstract!Finish]_<<Recorded(db), phase = "complete">>
<1>1. CASE phase = "complete"
  BY <1>1, CompletesOnce
<1>2. CASE phase # "complete" /\ phase' = "complete"
  <2>1. Recorded(db) = Wanted /\ Recorded(db)' = Recorded(db)
    BY <1>2, CompletesOnce
  <2>2. Abstract!Finish
    BY <1>2, <2>1 DEF Abstract!Finish
  <2>3. QED
    BY <2>2
<1>3. CASE phase # "complete" /\ phase' # "complete"
  <2>1. Recorded(db) \subseteq Recorded(db)'
    BY NothingTakenBack
  <2>2. \E n \in Wanted \cup {0} : Recorded(db)' = {f \in Wanted : f <= n}
    BY DEF UpToOne
  <2>3. Abstract!Advance
    BY <1>3, <2>1, <2>2 DEF Abstract!Advance, Abstract!UpTo
  <2>4. QED
    BY <2>3
<1>4. QED
  BY <1>1, <1>2, <1>3

\* Whoever reads the output finds the inputs recorded in their order, none left out or
\* taken back, and all of them once the extraction is complete.
THEOREM Refines == Spec => ImplementsCatalog
<1>1. Init => Abstract!Init
  <2> SUFFICES ASSUME Init PROVE Abstract!Init
    OBVIOUS
  <2>1. db = NewOutput /\ phase = "open"
    BY DEF Init
  <2>2. QED
    BY <2>1, Nothing DEF Abstract!Init
<1>2. QED
  BY <1>1, IngestInvariant, CommittedIsUpTo, StepRefines, PTL
     DEF Spec, ImplementsCatalog, Abstract!Spec

=============================================================================
