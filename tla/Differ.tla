------------------------------- MODULE Differ -------------------------------
(***************************************************************************)
(* IcarusDiffer of icarus/core/differ.py: the comparison of two databases  *)
(* that were built apart, each with row ids in the order of its inserts.   *)
(***************************************************************************)
EXTENDS Naturals, Sequences, FiniteSets, SequencesExt, FiniteSetsExt

CONSTANTS
    Topics,        \* what pairs of databases are compared in
    RowsOf,        \* RowsOf[p][t]: the rows that a build may insert in a table
    MaxRows,       \* MaxRows[p][t]: bound on the rows of a table
    Contents,      \* how many contents of observations there are in canonical form
    Canonical,     \* Canonical[p]: the rank of a content among them
    Unkeyed,       \* tables of observations that have no natural key
    None           \* NULL

\* In the order in which a build fills them.
TableOrder == <<"files", "binaries", "entitlements", "observations", "bags">>
Tables == ToSet(TableOrder)

Ranks == 1..Contents

ASSUME DifferAssumption ==
    /\ MaxRows \in [Topics -> [Tables -> Nat]]
    /\ Contents \in Nat /\ Canonical \in [DOMAIN Canonical -> Ranks]
    /\ \A p \in Topics :
        /\ \A f \in RowsOf[p]["files"] : f.path # None
        /\ \A ob \in RowsOf[p]["observations"] : ob.properties \in DOMAIN Canonical
        /\ \A b \in RowsOf[p]["bags"] : b = [key |-> b.key, count |-> b.count, score |-> b.score]

VARIABLES
    old, new,   \* the rows of each table, in the order of their ids
    topic,      \* one of Topics
    report      \* what full_diff() returned

vars == <<old, new, topic, report>>

Empty == [t \in Tables |-> <<>>]

Init == old = Empty /\ new = Empty /\ topic \in Topics /\ report = None

Rows(d, t) == ToSet(d[t])

\* The references of a row are to rows that are there, of files.path and of a file's binary
\* there is one; an observation may name a row that is not there.
Insertable(d, t, row) ==
    CASE t = "files"        -> \A f \in Rows(d, t) : f.path # row.path
      [] t = "binaries"     -> /\ row.file \in DOMAIN d.files
                               /\ \A b \in Rows(d, t) : b.file # row.file
      [] t = "entitlements" -> row.binary \in DOMAIN d.binaries
      [] OTHER              -> TRUE

Inserted(d, t, row) ==
    /\ row \in RowsOf[topic][t] /\ Len(d[t]) < MaxRows[topic][t]
    /\ \A i, j \in DOMAIN TableOrder : TableOrder[i] = t /\ i < j => d[TableOrder[j]] = <<>>
    /\ Insertable(d, t, row)

InsertOld(t, row) ==
    /\ report = None /\ new = Empty
    /\ Inserted(old, t, row)
    /\ old' = [old EXCEPT ![t] = Append(@, row)]
    /\ UNCHANGED <<new, topic, report>>

\* The old database is built first.
InsertNew(t, row) ==
    /\ report = None
    /\ Inserted(new, t, row)
    /\ new' = [new EXCEPT ![t] = Append(@, row)]
    /\ UNCHANGED <<old, topic, report>>

-----------------------------------------------------------------------------
(* Natural keys.                                                           *)

\* NULL is not equal to anything, and IS itself.
Equal(x, y) == x = y /\ x # None

PathOf(d, b) == d.files[b.file].path

\* _natural_diff(): the rows whose key is not among those of the other side.
NaturalDiff(o, n) == [added |-> n \ o, removed |-> o \ n]

FileKeys(d) == {f.path : f \in Rows(d, "files")}

BinaryKeys(d) == {PathOf(d, b) : b \in Rows(d, "binaries")}

EntitlementKeys(d) == {<<d.binaries[e.binary].bundle, e.key>> : e \in Rows(d, "entitlements")}

\* Variant: the fallback is for a hash that the new side lacks.
ContentDiffersOneSided(f, g) ==
    IF g.sha256 # None THEN f.sha256 # g.sha256 ELSE f.size # g.size

\* The hashes, or the sizes if either hash is NULL.
ContentDiffers(f, g) ==
    IF f.sha256 # None /\ g.sha256 # None THEN f.sha256 # g.sha256 ELSE f.size # g.size

FilesChanged(o, n) ==
    {p \in Rows(o, "files") \X Rows(n, "files") :
        p[1].path = p[2].path /\ ContentDiffers(p[1], p[2])}

-----------------------------------------------------------------------------
(* structural_diff().                                                      *)

\* The rows whose name no other row has.
Sole(d, t, name) ==
    {r \in Rows(d, t) : Cardinality({i \in DOMAIN d[t] : d[t][i][name] = r[name]}) = 1}

\* Variant: the files are compared by their ids.
PlaceById(d, b) == b.file

Place(d, b) == PathOf(d, b)

BinaryMoved(o, n) ==
    {<<p[1].name, Place(o, p[1]), Place(n, p[2])>> :
        p \in {q \in Sole(o, "binaries", "name") \X Sole(n, "binaries", "name") :
                Equal(q[1].name, q[2].name) /\ Place(o, q[1]) # Place(n, q[2])}}

\* COALESCE of what identifies the owner of an entitlement.
Owner(d, e) ==
    LET b == d.binaries[e.binary]
    IN  IF b.bundle # None THEN b.bundle ELSE IF b.name # None THEN b.name ELSE PathOf(d, b)

EntitlementReassigned(o, n) ==
    {<<p[1].key, Owner(o, p[1]), Owner(n, p[2])>> :
        p \in {q \in Sole(o, "entitlements", "key") \X Sole(n, "entitlements", "key") :
                q[1].key = q[2].key /\ Owner(o, q[1]) # Owner(n, q[2])}}

-----------------------------------------------------------------------------
(* observation_diff().                                                     *)

\* The natural key of an observation's subject, NULL if it has none or is not there.
Subject(d, ob) ==
    IF ob.table \in Unkeyed \/ ob.id \notin DOMAIN d[ob.table] THEN None
    ELSE IF ob.table = "files" THEN d.files[ob.id].path
    ELSE PathOf(d, d.binaries[ob.id])

\* With the type and the time of its event, of which NULL is one value more.
Identity(d, ob) == <<ob.table, Subject(d, ob), ob.event>>

Identities(d) == {Identity(d, ob) : ob \in {x \in Rows(d, "observations") : Subject(d, x) # None}}

Unresolved(d) == {i \in DOMAIN d.observations : Subject(d, d.observations[i]) = None}

\* How many observations of an identity have a content.
Held(d, identity, c) ==
    Cardinality({i \in DOMAIN d.observations :
        Identity(d, d.observations[i]) = identity /\ Canonical[d.observations[i].properties] = c})

\* Variant: the contents that both sides have are all left out.
ExcessOfSets(mine, theirs, identity, c) ==
    IF Held(theirs, identity, c) > 0 THEN 0 ELSE Held(mine, identity, c)

\* Variant: nothing cancels.
ExcessOfAll(mine, theirs, identity, c) == Held(mine, identity, c)

\* What is left of a content when equal ones have cancelled one for one.
Excess(mine, theirs, identity, c) ==
    IF Held(mine, identity, c) > Held(theirs, identity, c)
    THEN Held(mine, identity, c) - Held(theirs, identity, c) ELSE 0

\* How many are left up to each content.
Accumulated(mine, theirs, identity) ==
    LET upTo[c \in 0..Contents] ==
            IF c = 0 THEN 0 ELSE upTo[c - 1] + Excess(mine, theirs, identity, c)
    IN  upTo

\* The contents left, in canonical order.
Remaining(mine, theirs, identity) ==
    LET upTo == Accumulated(mine, theirs, identity)
    IN  [i \in 1..upTo[Contents] |-> Min({c \in Ranks : upTo[c] >= i})]

\* Those of the two sides are paired in that order, the others are added or removed.
ObservationDiff(o, n) ==
    [identity \in Identities(o) \cup Identities(n) |->
        LET was == Remaining(o, n, identity)
            is == Remaining(n, o, identity)
            paired == Min({Len(was), Len(is)})
        IN  [changed |-> [i \in 1..paired |-> <<was[i], is[i]>>],
             removed |-> SubSeq(was, paired + 1, Len(was)),
             added |-> SubSeq(is, paired + 1, Len(is))]]

-----------------------------------------------------------------------------
(* resolution_diff(), and full_diff().                                     *)

Counted(b) == b.key # None /\ b.count > 0

\* The bag of a canonical key; the last one if there are several.
BagsByKey(d) ==
    LET live == {i \in DOMAIN d.bags : Counted(d.bags[i])}
        keys == {d.bags[i].key : i \in live}
    IN  [k \in keys |-> d.bags[Max({i \in live : d.bags[i].key = k})]]

ResolutionDiff(o, n) ==
    LET was == BagsByKey(o)
        is == BagsByKey(n)
        keys == NaturalDiff(DOMAIN was, DOMAIN is)
    IN  [added |-> {is[k] : k \in keys.added},
         removed |-> {was[k] : k \in keys.removed},
         changed |-> {<<was[k], is[k]>> : k \in
            {j \in DOMAIN was \cap DOMAIN is :
                was[j].count # is[j].count \/ was[j].score # is[j].score}}]

FullDiff(o, n) ==
    [files |-> NaturalDiff(FileKeys(o), FileKeys(n)),
     changed |-> FilesChanged(o, n),
     binaries |-> NaturalDiff(BinaryKeys(o), BinaryKeys(n)),
     entitlements |-> NaturalDiff(EntitlementKeys(o), EntitlementKeys(n)),
     moved |-> BinaryMoved(o, n),
     reassigned |-> EntitlementReassigned(o, n),
     observations |-> ObservationDiff(o, n),
     unresolved |-> <<{o.observations[i] : i \in Unresolved(o)}, {n.observations[i] : i \in Unresolved(n)}>>,
     resolution |-> ResolutionDiff(o, n)]

Compare ==
    /\ report = None
    /\ report' = FullDiff(old, new)
    /\ UNCHANGED <<old, new, topic>>

Compared == report # None /\ UNCHANGED vars

Next ==
    \/ \E t \in Tables : \E row \in RowsOf[topic][t] : InsertOld(t, row) \/ InsertNew(t, row)
    \/ Compare \/ Compared

Spec == Init /\ [][Next]_vars

-----------------------------------------------------------------------------
(* Properties.                                                             *)

\* What a database says, whatever the ids of its rows are.
Counts(seq, Of(_)) ==
    [x \in {Of(seq[i]) : i \in DOMAIN seq} |-> Cardinality({i \in DOMAIN seq : Of(seq[i]) = x})]

Observed(d) ==
    {<<x[1], x[2], Held(d, x[1], x[2])>> :
        x \in {y \in Identities(d) \X Ranks : Held(d, y[1], y[2]) > 0}}

Content(d) ==
    [files |-> Rows(d, "files"),
     binaries |-> {<<PathOf(d, b), b.name, b.bundle>> : b \in Rows(d, "binaries")},
     entitlements |-> Counts(d.entitlements, LAMBDA e : <<PathOf(d, d.binaries[e.binary]), e.key>>),
     observations |-> Observed(d),
     bags |-> Counts(d.bags, LAMBDA b : b)]

LiveBags(d) == {i \in DOMAIN d.bags : d.bags[i].key # None /\ d.bags[i].count > 0}

\* No two bags with members have one key.
OneBagPerKey(d) == \A i, j \in LiveBags(d) : d.bags[i].key = d.bags[j].key => i = j

\* Nothing is reported, other than observations whose subject cannot be told.
Silent(r) ==
    /\ \A t \in {"files", "binaries", "entitlements", "resolution"} :
            r[t].added = {} /\ r[t].removed = {}
    /\ r.changed = {} /\ r.moved = {} /\ r.reassigned = {} /\ r.resolution.changed = {}
    /\ \A identity \in DOMAIN r.observations :
            \A kind \in {"added", "removed", "changed"} : r.observations[identity][kind] = <<>>

\* Two builds of the same content, in any order of inserts, have no difference.
SameIsSilent ==
    report # None /\ Content(old) = Content(new) /\ OneBagPerKey(old) => Silent(report)

\* If no difference is reported the two databases have the same files with the same hashes
\* or sizes, the same binaries, entitlements and resolved bags, and as many observations
\* of every content.
SilentMeansSame ==
    report # None /\ Silent(report) /\ OneBagPerKey(old) /\ OneBagPerKey(new) =>
        /\ FileKeys(old) = FileKeys(new)
        /\ \A f \in Rows(old, "files"), g \in Rows(new, "files") :
                f.path = g.path => f.sha256 = g.sha256 \/ f.size = g.size
        /\ BinaryKeys(old) = BinaryKeys(new)
        /\ EntitlementKeys(old) = EntitlementKeys(new)
        /\ Observed(old) = Observed(new)
        /\ {old.bags[i] : i \in LiveBags(old)} = {new.bags[i] : i \in LiveBags(new)}

Swap(pairs) == {<<p[2], p[1]>> : p \in pairs}

Exchanged(d) == [d EXCEPT !.added = d.removed, !.removed = d.added]

\* The other way round the comparison says the same: additions are removals, every change
\* has its values exchanged.
SwapSwaps ==
    report # None =>
        LET back == FullDiff(new, old)
        IN  /\ \A t \in {"files", "binaries", "entitlements"} : back[t] = Exchanged(report[t])
            /\ back.changed = Swap(report.changed)
            /\ back.moved = {<<m[1], m[3], m[2]>> : m \in report.moved}
            /\ back.reassigned = {<<m[1], m[3], m[2]>> : m \in report.reassigned}
            /\ back.resolution =
                    [Exchanged(report.resolution) EXCEPT !.changed = Swap(report.resolution.changed)]
            /\ \A identity \in DOMAIN report.observations :
                    LET was == report.observations[identity]
                    IN  back.observations[identity] =
                            [Exchanged(was) EXCEPT !.changed =
                                [i \in DOMAIN was.changed |-> <<was.changed[i][2], was.changed[i][1]>>]]
            /\ back.unresolved = <<report.unresolved[2], report.unresolved[1]>>

\* Whoever renders a change (changed_field_values) finds a field whose values differ, and no
\* content is reported both as gone and as come.
ChangedDiffer ==
    report # None =>
        /\ \A p \in report.changed : p[1].sha256 # p[2].sha256 \/ p[1].size # p[2].size
        /\ \A m \in report.moved \cup report.reassigned : m[2] # m[3]
        /\ \A identity \in DOMAIN report.observations :
                LET d == report.observations[identity]
                    gone == ToSet(d.removed) \cup {p[1] : p \in ToSet(d.changed)}
                    come == ToSet(d.added) \cup {p[2] : p \in ToSet(d.changed)}
                IN  gone \cap come = {} /\ (d.removed = <<>> \/ d.added = <<>>)

=============================================================================
