------------------------------ MODULE Resolver ------------------------------
(***************************************************************************)
(* EntityResolver of icarus/core/resolver.py, called on the connections of *)
(* one database at the same time.  A call on an idle connection owns a     *)
(* BEGIN IMMEDIATE transaction; a call inside the caller's transaction is  *)
(* a savepoint that takes the write lock before it reads, and fails when   *)
(* somebody has committed since the caller's snapshot.  A call that raises *)
(* leaves nothing behind but, in the second case, the lock.                *)
(***************************************************************************)
EXTENDS Matching

CONSTANTS
    Conns,        \* connections
    None,
    Thresholds,   \* thresholds of resolve_scored()
    MaxBags,      \* bound on bags
    MaxEvents     \* bound on events

ASSUME ResolverAssumption ==
    /\ None \notin Conns
    /\ Thresholds \subseteq Nat
    /\ MaxBags \in Nat
    /\ MaxEvents \in Nat

VARIABLES
    db,      \* what is committed
    lock,    \* the connection with SQLite's write lock
    mode,    \* mode[c]: "idle", "call" (its own transaction), "outer" (the caller's)
    snap,    \* snap[c]: what was committed when c's transaction began to read
    work     \* the database as the holder of the lock sees it, its own writes included

vars == <<db, lock, mode, snap, work>>

\* A database: atoms 1..natoms, the rows of bags, bag_atoms (pairs of a bag and an
\* atom), resolution_event_log and match_candidates, and whether it is sanitized.
NewDatabase ==
    [natoms |-> 0, bags |-> <<>>, member |-> {}, log |-> <<>>, cands |-> {},
     sealed |-> FALSE]

Init ==
    /\ db = NewDatabase
    /\ lock = None
    /\ mode = [c \in Conns |-> "idle"]
    /\ snap = [c \in Conns |-> NewDatabase]
    /\ work = NewDatabase

-----------------------------------------------------------------------------
(* Reading a database d.                                                   *)

AtomsIn(d) == 1..d.natoms

Bags(d) == 1..Len(d.bags)

Members(d, b) == {a \in AtomsIn(d) : <<b, a>> \in d.member}

AtomsOfType(d, t) == {a \in AtomsIn(d) : Atom[a].type = t}

unresolved_atoms(d, t) == {a \in AtomsOfType(d, t) : \A b \in Bags(d) : a \notin Members(d, b)}

-----------------------------------------------------------------------------
(* What the calls write.                                                   *)

Event(kind, b, A) == [kind |-> kind, bag |-> b, atoms |-> A, thr |-> 0]

Bag(t, key, score, A) ==
    [type |-> t, key |-> key, score |-> score, count |-> Cardinality(A)]

\* The disjoint sets of P in a sequence, by their smallest atom, as cluster() and
\* resolve_scored() sort them.
Listings(P) ==
    UNION {{s \in [1..n -> P] :
                /\ \A i, j \in 1..n : i < j => \E a \in s[i] : \A b \in s[j] : a < b
                /\ \A A \in P : \E i \in 1..n : s[i] = A} : n \in 0..MaxAtoms}

\* create_bag() for each of the sets in turn, with the events of the calls.
WithBags(d, t, sets, key, score, events) ==
    [d EXCEPT
        !.bags = @ \o [i \in DOMAIN sets |-> Bag(t, key[i], score[i], sets[i])],
        !.member = @ \cup UNION {{<<Len(d.bags) + i, a>> : a \in sets[i]} : i \in DOMAIN sets},
        !.log = @ \o events]

\* Variant: every event names the first of the new bags.
CreatedAtFirst(d, sets, i) == Event("create", Len(d.bags) + 1, sets[i])

Created(d, sets, i) == Event("create", Len(d.bags) + i, sets[i])

CreateBag(d, t, A, key) ==
    WithBags(d, t, <<A>>, <<key>>, <<None>>, <<Created(d, <<A>>, 1)>>)

\* Variant: a confidence outlives the members it was computed for.
Recounted(row, n) == [row EXCEPT !.count = n]

\* Members were added or removed by hand: no confidence holds any more.
Rescored(row, n) == [row EXCEPT !.count = n, !.score = None]

MergeBags(d, order) ==
    LET all == UNION {Members(d, order[i]) : i \in DOMAIN order}
        survivor == order[1]
        merged == {order[i] : i \in DOMAIN order}
    IN  [d EXCEPT
            !.bags = [b \in Bags(d) |->
                IF b = survivor
                THEN Rescored(d.bags[b], Cardinality(all))
                ELSE IF b \in merged THEN [d.bags[b] EXCEPT !.count = 0] ELSE d.bags[b]],
            !.member = {p \in @ : p[1] \notin merged} \cup {<<survivor, a>> : a \in all},
            !.log = @ \o <<Event("merge", survivor, all)>>
                      \o [i \in 1..(Len(order) - 1) |-> Event("merge_into", order[i + 1], {})]]

SplitBag(d, b, A) ==
    LET new == Len(d.bags) + 1
        left == Cardinality(Members(d, b)) - Cardinality(A)
    IN  [d EXCEPT
            !.bags = Append([d.bags EXCEPT ![b] = Rescored(d.bags[b], left)],
                            Bag(d.bags[b].type, None, None, A)),
            !.member = (@ \ {<<b, a>> : a \in A}) \cup {<<new, a>> : a \in A},
            !.log = @ \o <<Event("split", b, A), Event("split_from", new, A)>>]

\* Exact keys: a value of spaces is a key here, a missing one is not.
ExactGroups(d, t) ==
    LET U == {a \in unresolved_atoms(d, t) : Atom[a].block # Unset}
    IN  {{b \in U : Atom[b].block = Atom[a].block} : a \in U}

Resolve(d, t, sets) ==
    WithBags(d, t, sets,
             [i \in DOMAIN sets |->
                IF Cardinality(sets[i]) > 1 THEN Atom[Least(sets[i])].block ELSE None],
             [i \in DOMAIN sets |-> None],
             [i \in DOMAIN sets |-> Created(d, sets, i)])

\* Candidates are looked for among all atoms of the type; unresolved pairs are kept.
Candidates(d, t) ==
    {p \in CandidatePairs(AtomsOfType(d, t)) : p \subseteq unresolved_atoms(d, t)}

MatchEdges(d, t, thr) == {p \in Candidates(d, t) : Score(p) >= thr}

\* The edges inside A: the confidence is the mean of their scores.
Confidence(edges, A) == {p \in edges : p \subseteq A}

\* Two events for each component, one for each of the single atoms that remain.
ResolveScored(d, t, thr, comps, singles) ==
    LET k == Len(comps)
        sets == comps \o singles
        edges == MatchEdges(d, t, thr)
    IN  [WithBags(d, t, sets,
                  [i \in DOMAIN sets |-> IF i <= k THEN Atom[Least(sets[i])].key ELSE None],
                  [i \in DOMAIN sets |-> IF i <= k THEN Confidence(edges, sets[i]) ELSE None],
                  [j \in 1..(2 * k) |->
                    IF j % 2 = 1 THEN Created(d, sets, (j + 1) \div 2)
                    ELSE [Event("resolve", Len(d.bags) + j \div 2, sets[j \div 2])
                            EXCEPT !.thr = thr]]
                  \o [j \in 1..Len(singles) |-> Created(d, sets, k + j)])
         EXCEPT !.cands = @ \cup Candidates(d, t)]

-----------------------------------------------------------------------------
(* Transactions.                                                           *)

\* Variant: the caller's transaction is not made to take the lock before it reads.
MayWriteStale(c) ==
    \/ mode[c] = "idle" /\ lock = None
    \/ mode[c] = "outer" /\ lock \in {c, None}

\* _write_transaction() is entered: BEGIN IMMEDIATE on an idle connection; the empty
\* UPDATE in the caller's transaction needs the lock and a snapshot that is current.
MayWrite(c) ==
    \/ mode[c] = "idle" /\ lock = None
    \/ mode[c] = "outer" /\ lock = c
    \/ mode[c] = "outer" /\ lock = None /\ snap[c] = db

View(c) == IF lock = c THEN work ELSE IF mode[c] = "idle" THEN db ELSE snap[c]

\* Variant: no call revokes the sanitization.
WriteSealed(c, d) ==
    /\ Len(d.log) <= MaxEvents
    /\ lock' = c
    /\ snap' = [snap EXCEPT ![c] = IF mode[c] = "idle" THEN db ELSE @]
    /\ work' = d
    /\ mode' = [mode EXCEPT ![c] = IF @ = "idle" THEN "call" ELSE @]
    /\ UNCHANGED db

\* The call has done its work; rows that changed revoke the sanitization.
Write(c, d) ==
    /\ Len(d.log) <= MaxEvents
    /\ lock' = c
    /\ snap' = [snap EXCEPT ![c] = IF mode[c] = "idle" THEN db ELSE @]
    /\ work' = [d EXCEPT !.sealed = @ /\ d = View(c)]
    /\ mode' = [mode EXCEPT ![c] = IF @ = "idle" THEN "call" ELSE @]
    /\ UNCHANGED db

\* The caller begins a transaction of its own and reads.
BeginOuter(c) ==
    /\ mode[c] = "idle"
    /\ mode' = [mode EXCEPT ![c] = "outer"]
    /\ snap' = [snap EXCEPT ![c] = db]
    /\ UNCHANGED <<db, lock, work>>

\* A call in the caller's transaction raises after its empty UPDATE.
CallRefused(c) ==
    /\ mode[c] = "outer" /\ MayWrite(c)
    /\ lock' = c
    /\ work' = View(c)
    /\ UNCHANGED <<db, mode, snap>>

\* The transaction of c is over.
End(c) ==
    /\ mode' = [mode EXCEPT ![c] = "idle"]
    /\ snap' = [snap EXCEPT ![c] = NewDatabase]
    /\ IF lock \in {c, None}
       THEN lock' = None /\ work' = NewDatabase
       ELSE UNCHANGED <<lock, work>>

Commit(c) ==
    /\ mode[c] # "idle"
    /\ db' = IF lock = c THEN work ELSE db
    /\ End(c)

\* The caller rolls back, a top-level call raises, or the process dies.
Rollback(c) ==
    /\ mode[c] # "idle"
    /\ End(c)
    /\ UNCHANGED db

-----------------------------------------------------------------------------
(* The calls.                                                              *)

IngestAtom(c) ==
    /\ MayWrite(c) /\ View(c).natoms < MaxAtoms
    /\ Write(c, [View(c) EXCEPT !.natoms = @ + 1])

\* atomize_db(): the new rows of one version, then a commit, the caller's too.
AtomizeDb(c) ==
    /\ MayWrite(c)
    /\ \E n \in (View(c).natoms + 1)..MaxAtoms :
            db' = [View(c) EXCEPT !.natoms = n, !.sealed = FALSE]
    /\ End(c)

create_bag(c) ==
    LET d == View(c) IN
    /\ MayWrite(c) /\ Len(d.bags) < MaxBags
    /\ \E t \in Types : \E A \in (SUBSET unresolved_atoms(d, t)) \ {{}} :
            Write(c, CreateBag(d, t, A, None))

merge_bags(c) ==
    LET d == View(c) IN
    /\ MayWrite(c)
    /\ \E n \in 2..MaxBags : \E order \in [1..n -> Bags(d)] :
            /\ \A i, j \in 1..n : i # j => order[i] # order[j]
            /\ \A i \in 1..n : d.bags[order[i]].type = d.bags[order[1]].type
            /\ \A i \in 1..n : Members(d, order[i]) # {}
            /\ Write(c, MergeBags(d, order))

\* Variant: split_bag() does not ask whether atoms would remain.
SplitBagWhole(c) ==
    LET d == View(c) IN
    /\ MayWrite(c) /\ Len(d.bags) < MaxBags
    /\ \E b \in Bags(d) : \E A \in SUBSET Members(d, b) :
            A # {} /\ Write(c, SplitBag(d, b, A))

split_bag(c) ==
    LET d == View(c) IN
    /\ MayWrite(c) /\ Len(d.bags) < MaxBags
    /\ \E b \in Bags(d) : \E A \in SUBSET Members(d, b) :
            /\ A # {} /\ A # Members(d, b)
            /\ Write(c, SplitBag(d, b, A))

\* The groups come in the order of unresolved_atoms(), whose query asks for none.
resolve(c) ==
    LET d == View(c) IN
    /\ MayWrite(c)
    /\ \E t \in Types : \E sets \in SetToSeqs(ExactGroups(d, t)) :
            /\ Len(d.bags) + Len(sets) <= MaxBags
            /\ Write(c, Resolve(d, t, sets))

\* The edges come out of a Python set: in any order.
resolve_scored(c) ==
    LET d == View(c) IN
    /\ MayWrite(c)
    /\ \E t \in Types, thr \in Thresholds :
       LET edges == MatchEdges(d, t, thr) IN
       \E order \in SetToSeqs(edges) :
       \E comps \in Listings(Cluster(order)) :
       \E singles \in Listings({{a} : a \in unresolved_atoms(d, t) \ UNION Cluster(order)}) :
            /\ Len(d.bags) + Len(comps) + Len(singles) <= MaxBags
            /\ Write(c, ResolveScored(d, t, thr, comps, singles))

\* finalize_sanitization(), outside this module: what is committed is certified.
Seal ==
    /\ lock = None
    /\ db' = [db EXCEPT !.sealed = TRUE]
    /\ UNCHANGED <<lock, mode, snap, work>>

Call(c) ==
    \/ IngestAtom(c) \/ AtomizeDb(c) \/ create_bag(c) \/ merge_bags(c) \/ split_bag(c)
    \/ resolve(c) \/ resolve_scored(c) \/ CallRefused(c)

Next ==
    \/ \E c \in Conns : BeginOuter(c) \/ Call(c) \/ Commit(c) \/ Rollback(c)
    \/ Seal

Spec == Init /\ [][Next]_vars

-----------------------------------------------------------------------------
(* Properties, of every database that some connection can see.             *)

Visible == {db, work}

Keys == {Atom[a].block : a \in AtomIds} \cup {Atom[a].key : a \in AtomIds}

BagRow == [type : Types, key : Keys \cup {None}, count : Nat,
           score : (SUBSET SUBSET AtomIds) \cup {None}]

EventRow ==
    [kind : {"create", "merge", "merge_into", "split", "split_from", "resolve"},
     bag : Nat, atoms : SUBSET AtomIds, thr : Nat]

Database ==
    [natoms : 0..MaxAtoms, bags : Seq(BagRow), member : SUBSET (Nat \X AtomIds),
     log : Seq(EventRow), cands : SUBSET SUBSET AtomIds, sealed : BOOLEAN]

TypeOK ==
    /\ db \in Database
    /\ lock \in Conns \cup {None}
    /\ mode \in [Conns -> {"idle", "call", "outer"}]
    /\ snap \in [Conns -> Database]
    /\ work \in Database

\* A connection that writes has read what is committed: between its snapshot and
\* its commit nobody else commits, so nothing it decided on has changed.
LockedViewIsCurrent == \A c \in Conns : lock = c => mode[c] # "idle" /\ snap[c] = db

\* bag_atoms would let an atom be in two bags: that each atom is in at most one,
\* one of its own type, and that atom_count counts the members, is the calls' work.
OneBagPerAtom(d) ==
    /\ d.member \subseteq Bags(d) \X AtomsIn(d)
    /\ \A b, c \in Bags(d) : b # c => Members(d, b) \cap Members(d, c) = {}
    /\ \A b \in Bags(d) :
         /\ d.bags[b].count = Cardinality(Members(d, b))
         /\ \A a \in Members(d, b) : Atom[a].type = d.bags[b].type

Partitioned == \A d \in Visible : OneBagPerAtom(d)

\* The event log alone says where every atom is: in the bag of the last event that
\* put it somewhere.
Places(e) == e.kind \in {"create", "merge", "split_from"}

PlacedByLog(d) ==
    \A a \in AtomsIn(d), b \in Bags(d) :
        a \in Members(d, b) <=>
            \E n \in DOMAIN d.log :
                /\ Places(d.log[n]) /\ d.log[n].bag = b /\ a \in d.log[n].atoms
                /\ \A m \in (n + 1)..Len(d.log) : Places(d.log[m]) => a \notin d.log[m].atoms

HistoryPlaces == \A d \in Visible : PlacedByLog(d)

\* A bag is empty exactly when it was merged into another: it is never filled again,
\* and no other call empties a bag.
RetiredByLog(d) ==
    \A b \in Bags(d) :
        Members(d, b) = {} <=>
            \E n \in DOMAIN d.log : d.log[n].kind = "merge_into" /\ d.log[n].bag = b

RetiredStayEmpty == \A d \in Visible : RetiredByLog(d)

\* A confidence is about the members the bag has now: those that resolve_scored()
\* put there, joined by edges each of which reaches the threshold of that call, and
\* so does their mean.
EarnedScores(d) ==
    \A b \in Bags(d) :
        LET edges == d.bags[b].score IN
        edges # None /\ Members(d, b) # {} =>
            /\ edges # {} /\ UNION edges = Members(d, b)
            /\ \E n \in DOMAIN d.log :
                 /\ d.log[n].kind = "resolve" /\ d.log[n].bag = b
                 /\ d.log[n].atoms = Members(d, b)
                 /\ \A p \in edges : Score(p) >= d.log[n].thr

ScoreIsEarned == \A d \in Visible : EarnedScores(d)

\* What resolve_scored() grouped is a connected component of the candidates that
\* reached its threshold: it can be walked from end to end, and no edge leaves it.
Component(A, E) ==
    /\ \A p \in E : p \cap A # {} => p \subseteq A
    /\ \A B \in (SUBSET A) \ {{}, A} : \E p \in E : p \cap B # {} /\ p \cap (A \ B) # {}

GroupsAreComponents(d) ==
    \A n \in DOMAIN d.log :
        d.log[n].kind = "resolve" =>
            Component(d.log[n].atoms, {p \in d.cands : Score(p) >= d.log[n].thr})

ScoredAreComponents == \A d \in Visible : GroupsAreComponents(d)

Resolved(d) == UNION {Members(d, b) : b \in Bags(d)}

\* No event, atom, bag or candidate of d is missing from e or rewritten there, and
\* what d has resolved is resolved in e.
Continues(d, e) ==
    /\ d.natoms <= e.natoms
    /\ DOMAIN d.log \subseteq DOMAIN e.log
    /\ \A n \in DOMAIN d.log : e.log[n] = d.log[n]
    /\ d.cands \subseteq e.cands
    /\ Bags(d) \subseteq Bags(e)
    /\ \A b \in Bags(d) : e.bags[b].type = d.bags[b].type
    /\ Resolved(d) \subseteq Resolved(e)

\* Committed history is never rewritten, whatever is written at the same time.
HistoryOnlyGrows == [][Continues(db, db')]_vars

\* A database that is certified holds what was certified.
Content(d) == <<d.natoms, d.bags, d.member, d.log, d.cands>>

SealCovers == [][db'.sealed => Content(db') = Content(db)]_vars

\* The entities as readers of committed rows see them.
Live(d) == {Members(d, b) : b \in Bags(d)} \ {{}}

Abstract == INSTANCE Partition
    WITH Atoms <- AtomIds, TypeOfAtom <- [a \in AtomIds |-> Atom[a].type],
         observed <- AtomsIn(db), entities <- Live(db)

ImplementsPartition == Abstract!Spec

\* What makes all of it inductive: the events name bags and atoms that exist, and a
\* transaction that has the lock continues what is committed.
NamedByLog(d) ==
    \A n \in DOMAIN d.log : d.log[n].bag \in Bags(d) /\ d.log[n].atoms \subseteq AtomsIn(d)

Consistent(d) ==
    OneBagPerAtom(d) /\ PlacedByLog(d) /\ RetiredByLog(d) /\ NamedByLog(d)

\* What resolve_scored() looked at is resolved, so that no later candidate touches it.
Settled(d) ==
    /\ UNION d.cands \subseteq Resolved(d)
    /\ \A n \in DOMAIN d.log : d.log[n].kind = "resolve" => d.log[n].atoms \subseteq Resolved(d)

Sound(d) == Consistent(d) /\ Settled(d) /\ EarnedScores(d) /\ GroupsAreComponents(d)

Covered(d, e) == e.sealed => d.sealed /\ Content(e) = Content(d)

ResolverInv ==
    /\ TypeOK
    /\ LockedViewIsCurrent
    /\ Sound(db) /\ Sound(work)
    /\ lock # None => Continues(db, work) /\ Covered(db, work)

=============================================================================
