------------------------------ MODULE MCSchema ------------------------------
(* An instance of Schema for TLC: two entity tables, of which files has a full-text  *)
(* index, two provenance columns, and the databases that an attempt may find.        *)
EXTENDS Schema, FiniteSets

TwoTables == <<"files", "kexts">>

TwoColumns == <<"source_version_id", "marking">>

Empty ==
    [version |-> None, objects |-> {}, columns |-> {}, whole |-> {}, linked |-> {},
     rows |-> [t \in Tables \cup {"atoms"} |-> {}], stale |-> {}, dangling |-> {}]

\* What the migrations up to a version leave.
UpTo(k) == UNION {Added(j) : j \in 3..k}

Entity == Object("table", Tables) \cup Object("index", Tables)
            \cup Object("fts", Searched) \cup Object("trigger", Searched) \cup Views

\* A database of version k that earlier releases made, with rows in its tables.
Legacy(k) ==
    [Empty EXCEPT
        !.version = k, !.objects = Entity \cup (UpTo(k) \cap (Expected \cup {Score})),
        !.columns = UpTo(k) \cap (Tables \X ToSet(Columns)), !.whole = Tables,
        !.rows = [t \in DOMAIN Empty.rows |-> IF t = "atoms" /\ k < 4 THEN {} ELSE {"here"}]]

\* Its objects other than tables were never made.
Bare(d) == [d EXCEPT !.objects = {o \in @ : o[1] \in {"table", "column"}}]

\* Its tables were made with the reference to versions(id).
Linked(d) == [d EXCEPT !.linked = Tables]

Dangling(d, S) == [d EXCEPT !.dangling = S]

Complete == [Linked(Legacy(Current)) EXCEPT !.objects = Expected \cup {Score}]

Whole ==
    {Legacy(k) : k \in 2..5} \cup {Bare(Legacy(k)) : k \in {2, 4}}
        \cup {Linked(Legacy(k)) : k \in {4, 5}}

Databases ==
    Whole
        \cup {Empty, [Empty EXCEPT !.version = 1], [Complete EXCEPT !.version = 7]}
        \cup {Complete, [Complete EXCEPT !.linked = {}], [Complete EXCEPT !.objects = @ \ Views]}
        \cup {Dangling(Legacy(2), {"kexts"}), Dangling(Legacy(3), {"other"}),
              Dangling(Complete, {"kexts"})}
        \cup {[Legacy(2) EXCEPT !.whole = {"files"}]}

=============================================================================
