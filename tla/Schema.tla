------------------------------- MODULE Schema -------------------------------
(***************************************************************************)
(* initialize_database() of icarus/core/schema.py: a fresh database, the   *)
(* migrations of an older one, the repairs that follow them and the        *)
(* validation of a current one, statement by statement, by attempts that   *)
(* may die or raise between any two and are followed by others.            *)
(***************************************************************************)
EXTENDS Naturals, Sequences, SequencesExt

CONSTANTS
    Entities,      \* ENTITY_TABLES, in its order
    Searched,      \* those with a full-text index
    Columns,       \* the provenance columns, source_version_id first
    Legacies,      \* the databases that an attempt may find
    None,
    MaxOpens,      \* bound on attempts
    MaxDeaths      \* bound on those that die

Current == 6
Tables == ToSet(Entities)
Provenance == Head(Columns)

\* A named object is its type and its name.  One stands for all that are made in a row:
\* "atoms" for the tables of resolution, the indexes of a table for each other.
Object(type, names) == {<<type, n>> : n \in names}
Late == {"atoms", "match", "mach"}
Fts == Object("fts", Searched \cup {"atoms"})
Triggers == Object("trigger", Searched \cup {"atoms", "atoms_update"})
Indexes == Object("index", Tables \cup Late)
Views == {<<"view", "surface">>}
CoreTables == Object("table", Tables \cup Late \cup {"versions"})

\* _EXPECTED_SCHEMA_OBJECTS.
Expected == CoreTables \cup Indexes \cup Fts \cup Triggers \cup Views

Score == <<"column", "score">>

ASSUME SchemaAssumption ==
    /\ Entities \in Seq(Tables) /\ Columns \in Seq(ToSet(Columns)) /\ Columns # <<>>
    /\ IsInjective(Entities) /\ Searched \subseteq Tables
    /\ Tables \cap (Late \cup {"versions", "atoms_update"}) = {}
    /\ Tables \cap {"table", "index", "fts", "trigger", "view", "column"} = {}
    /\ MaxOpens \in Nat /\ MaxDeaths \in Nat
    /\ None \notin Nat

VARIABLES
    db,       \* what is committed
    work,     \* what the attempt sees
    open,     \* it has a transaction: what it writes is not committed yet
    pc,       \* where the attempt is, or how the last one ended
    todo,     \* the statements it has before it
    held,     \* the table that is rebuilt, and the objects that were attached to it
    origin,   \* history: the database before the first attempt
    opens, deaths

vars == <<db, work, open, pc, todo, held, origin, opens, deaths>>

\* A database: its stamp; its named objects; the provenance columns of its tables; the
\* tables with all other columns; those that refer to versions(id); where their rows are
\* ("here", or "aside" in the table renamed); the full-text indexes that lack rows; the
\* tables with references to rows that do not exist.
Database ==
    [version : 0..9 \cup {None}, objects : SUBSET (Expected \cup {Score}),
     columns : SUBSET (Tables \X ToSet(Columns)), whole : SUBSET Tables,
     linked : SUBSET Tables, rows : [Tables \cup {"atoms"} -> SUBSET {"here", "aside"}],
     stale : SUBSET Fts, dangling : SUBSET (Tables \cup {"other"})]

\* What an attempt may find: an empty file; what an earlier release made, with at least the
\* tables and columns of its version and nothing half done; a database of another version.
Released(d) ==
    /\ d \in Database
    /\ d.stale = {} /\ \A t \in Tables \cup {"atoms"} : "aside" \notin d.rows[t]
    /\ d.version = None =>
         d.objects = {} /\ d.dangling = {} /\ \A t \in Tables \cup {"atoms"} : d.rows[t] = {}
    /\ d.version \in 2..3 => d.rows["atoms"] = {}
    /\ d.version \in 2..Current => Object("table", Tables) \subseteq d.objects
    /\ d.version \in 3..Current =>
         <<"table", "versions">> \in d.objects /\ Tables \X ToSet(Columns) \subseteq d.columns
    /\ d.version \in 4..Current => <<"table", "atoms">> \in d.objects
    /\ d.version \in 5..Current => <<"table", "mach">> \in d.objects

ASSUME LegaciesAssumption == \A d \in Legacies : Released(d)

Init ==
    /\ db \in Legacies /\ work = db /\ origin = db
    /\ open = FALSE /\ pc = "closed" /\ todo = <<>> /\ held = None
    /\ opens = 0 /\ deaths = 0

-----------------------------------------------------------------------------
(* The statements.                                                         *)

Statement(op, on) == [op |-> op, on |-> on]

\* ... IF NOT EXISTS.  A full-text index does not have the rows that were there before it.
Create(o, d) ==
    IF o \in d.objects THEN d
    ELSE [d EXCEPT
            !.objects = @ \cup {o},
            !.stale = IF o \in Fts /\ d.rows[o[2]] # {} THEN @ \cup {o} ELSE @,
            !.columns = IF o \in Object("table", Tables) THEN @ \cup ({o[2]} \X ToSet(Columns))
                        ELSE @,
            !.whole = IF o \in Object("table", Tables) THEN @ \cup {o[2]} ELSE @,
            !.linked = IF o \in Object("table", Tables) THEN @ \cup {o[2]} ELSE @]

\* A table of an entity as CORE_SCHEMA has it, empty; and its old self, out of the way.
Aside(t, d) ==
    [d EXCEPT !.objects = @ \ {<<"table", t>>},
              !.columns = @ \ ({t} \X ToSet(Columns)),
              !.rows[t] = {"aside" : x \in @}]

Attached(t) == {<<"index", t>>, <<"trigger", t>>}

Effect(s, d) ==
    CASE s.op = "create"  -> Create(s.on, d)
      [] s.op = "column"  -> [d EXCEPT !.columns = @ \cup {s.on}]
      [] s.op = "stamp"   -> [d EXCEPT !.version = s.on]
      [] s.op = "rebuild" -> [d EXCEPT !.stale = @ \ {s.on}]
      [] s.op = "detach"  -> [d EXCEPT !.objects = @ \ Attached(s.on)]
      [] s.op = "rename"  -> Aside(s.on, d)
      [] s.op = "copy"    -> [d EXCEPT !.rows[s.on] = @ \cup {"here" : x \in @}]
      [] s.op = "drop"    -> [d EXCEPT !.rows[s.on] = @ \ {"aside"}]
      [] s.op = "attach"  -> [d EXCEPT !.objects = @ \cup held.objects]

Creates(objects) == [i \in DOMAIN objects |-> Statement("create", objects[i])]

ColumnsOf(t) == [i \in DOMAIN Columns |-> Statement("column", <<t, Columns[i]>>)]

\* What the migration to a version makes, in its order.
Makes(version) ==
    CASE version = 3 -> Creates(<<<<"table", "versions">>>>)
                            \o FlattenSeq([i \in DOMAIN Entities |-> ColumnsOf(Entities[i])])
      [] version = 4 -> Creates(<<<<"table", "atoms">>, <<"index", "atoms">>, <<"fts", "atoms">>,
                                  <<"trigger", "atoms">>>>)
      [] version = 5 -> Creates(<<<<"table", "mach">>, <<"index", "mach">>>>)
      [] version = 6 -> Creates(<<<<"table", "match">>, <<"index", "match">>, Score>>)

\* Variant: the stamp comes first.
MigrationLate(version) == <<Statement("stamp", version)>> \o Makes(version)

\* migrate_v2_to_v3, migrate_v3_to_v4, migrate_v4_to_v5 and _v5_to_v6, by what they reach.
Migration(version) == Makes(version) \o <<Statement("stamp", version)>>

Migrations(version) ==
    CASE version = 2 -> Migration(3) \o Migration(4) \o Migration(5) \o Migration(6)
      [] version = 3 -> Migration(4) \o Migration(5) \o Migration(6)
      [] version = 4 -> Migration(5) \o Migration(6)
      [] version = 5 -> Migration(6)

\* Variant: without FTS_TRIGGERS.
NonTablesLate ==
    Creates(SetToSeq(Indexes) \o SetToSeq(Fts) \o SetToSeq(Views))

\* INDEXES, FTS_SCHEMA, FTS_TRIGGERS and VIEWS.
NonTables ==
    Creates(SetToSeq(Indexes) \o SetToSeq(Fts) \o SetToSeq(Triggers) \o SetToSeq(Views))

Fresh ==
    Creates(SetToSeq(CoreTables \cup {Score})) \o NonTables \o <<Statement("stamp", Current)>>

\* _rebuild_entity_table_with_fk(), after its BEGIN.
Rebuild(t) ==
    <<Statement("detach", t), Statement("rename", t), Statement("create", <<"table", t>>),
      Statement("copy", t), Statement("drop", t), Statement("attach", t)>>

-----------------------------------------------------------------------------
(* An attempt.                                                             *)

Ended == {"closed", "opened", "refused", "failed"}

Supported(version) == version = None \/ version \in 2..Current

\* _validate_current_schema().
Validated(d) == Expected \subseteq d.objects

Begin ==
    /\ pc \in Ended /\ opens < MaxOpens
    /\ opens' = opens + 1
    /\ pc' = IF ~Supported(db.version) \/ (db.version = Current /\ ~Validated(db)) THEN "refused"
             ELSE IF db.version = Current THEN "parity"
             ELSE IF db.version = None THEN "fresh"
             ELSE "migrate"
    /\ todo' = CASE pc' = "fresh"   -> Fresh
                 [] pc' = "migrate" -> Migrations(db.version)
                 [] OTHER           -> <<>>
    /\ UNCHANGED <<db, work, open, held, origin, deaths>>

\* INSERT opens a transaction that the migrations commit and the rest leaves open.
Opens(s) == (s.op = "stamp" /\ pc = "fresh") \/ s.op = "rebuild"

Execute ==
    /\ pc \in {"fresh", "migrate", "repair", "table"} /\ todo # <<>>
    /\ work' = Effect(Head(todo), work)
    /\ open' = (open \/ Opens(Head(todo)))
    /\ db' = IF open' THEN db ELSE work'
    /\ todo' = Tail(todo)
    /\ UNCHANGED <<pc, held, origin, opens, deaths>>

\* Variant: every full-text index that is there is taken to be complete.
MissingIndexesLate(d) == {}

\* The full-text indexes to be rebuilt: those absent on entry.
MissingIndexes(d) == Fts \ d.objects

\* _repair_migrated_non_fk_objects(), unless a table lacks a column that its DDL names.
EndScript ==
    /\ pc \in {"fresh", "migrate", "repair"} /\ todo = <<>>
    /\ IF pc = "migrate" /\ work.whole = Tables
       THEN /\ pc' = "repair"
            /\ todo' = NonTables \o [i \in DOMAIN SetToSeq(MissingIndexes(work)) |->
                            Statement("rebuild", SetToSeq(MissingIndexes(work))[i])]
       ELSE pc' = "parity" /\ todo' = todo
    /\ UNCHANGED <<db, work, open, held, origin, opens, deaths>>

\* _entity_table_needs_fk_repair().
NeedsRepair(t, d) == <<t, Provenance>> \in d.columns /\ t \notin d.linked

\* ENTITY_TABLES has t before the others that are to be rebuilt.
FirstToRebuild(t, d) ==
    \E i \in DOMAIN Entities :
        /\ t = Entities[i] /\ NeedsRepair(t, d)
        /\ \A j \in DOMAIN Entities : j < i => ~NeedsRepair(Entities[j], d)

\* Variant: without its BEGIN.
StartTableBare ==
    /\ pc \in {"parity", "tables"}
    /\ \E t \in Tables :
        /\ FirstToRebuild(t, work)
        /\ todo' = Rebuild(t)
        /\ held' = [table |-> t, objects |-> Attached(t) \cap work.objects]
    /\ db' = work /\ open' = FALSE
    /\ pc' = "table"
    /\ UNCHANGED <<work, origin, opens, deaths>>

\* _repair_migrated_entity_fks(): what was left open is committed, then each table is
\* rebuilt in a transaction of its own.
StartTable ==
    /\ pc \in {"parity", "tables"}
    /\ \E t \in Tables :
        /\ FirstToRebuild(t, work)
        /\ todo' = Rebuild(t)
        /\ held' = [table |-> t, objects |-> Attached(t) \cap work.objects]
    /\ db' = work /\ open' = TRUE
    /\ pc' = "table"
    /\ UNCHANGED <<work, origin, opens, deaths>>

\* Variant: the references are looked at when the table is committed.
EndTableLate ==
    /\ pc = "table" /\ todo = <<>>
    /\ db' = work /\ work' = work
    /\ pc' = IF held.table \in work.dangling THEN "failed" ELSE "tables"
    /\ open' = FALSE /\ held' = None
    /\ UNCHANGED <<todo, origin, opens, deaths>>

\* A table with references to nothing is rolled back, and the attempt raises.
EndTable ==
    /\ pc = "table" /\ todo = <<>>
    /\ IF held.table \in work.dangling
       THEN db' = db /\ work' = db /\ pc' = "failed"
       ELSE db' = work /\ work' = work /\ pc' = "tables"
    /\ open' = FALSE /\ held' = None
    /\ UNCHANGED <<todo, origin, opens, deaths>>

\* After a repair the references of the whole database are looked at.
Finish ==
    /\ pc \in {"parity", "tables"} /\ \A t \in Tables : ~NeedsRepair(t, work)
    /\ IF pc = "tables" /\ work.dangling # {}
       THEN pc' = "failed" /\ db' = db /\ work' = db
       ELSE pc' = "opened" /\ db' = work /\ work' = work
    /\ open' = FALSE
    /\ UNCHANGED <<todo, held, origin, opens, deaths>>

\* The process dies, or a statement raises and the connection is closed.
Die ==
    /\ pc \notin Ended /\ deaths < MaxDeaths
    /\ deaths' = deaths + 1
    /\ pc' = "closed" /\ work' = db /\ open' = FALSE /\ todo' = <<>> /\ held' = None
    /\ UNCHANGED <<db, origin, opens>>

Finished == pc \in Ended /\ opens = MaxOpens /\ UNCHANGED vars

Next ==
    \/ Begin \/ Execute \/ EndScript \/ StartTable \/ EndTable \/ Finish
    \/ Die \/ Finished

Spec == Init /\ [][Next]_vars

-----------------------------------------------------------------------------
(* Properties.                                                             *)

TypeOK ==
    /\ db \in Database /\ work \in Database /\ origin \in Database
    /\ open \in BOOLEAN
    /\ pc \in Ended \cup {"fresh", "migrate", "repair", "parity", "table", "tables"}
    /\ held = None \/ held \in [table : Tables, objects : SUBSET Expected]
    /\ opens \in 0..MaxOpens /\ deaths \in 0..MaxDeaths
    /\ ~open => work = db

\* What the migration to version k adds.
Added(k) == {Makes(k)[i].on : i \in DOMAIN Makes(k)}

Reached(k) == db.version \in k..Current

\* Wherever an attempt dies, the stamp tells what the database has: each migration's work
\* before its version, all of it before the version of a fresh database.
StampTells ==
    /\ \A k \in 3..Current :
        Reached(k) /\ origin.version \in 0..(k - 1) => Added(k) \subseteq db.objects \cup db.columns
    /\ Reached(Current) /\ origin.version = None => Expected \subseteq db.objects /\ db.linked = Tables

\* A database that was opened is current: complete (unless tables of it lacked columns),
\* every table referring to the versions, and searchable if no attempt died.
OpenedIsCurrent ==
    pc = "opened" =>
        /\ db.version = Current /\ db.linked = Tables
        /\ origin.whole = Tables \/ origin.version = None => Expected \subseteq db.objects
        /\ deaths = 0 => db.stale = {}

\* No attempt, completed, refused, failed or dead, takes anything from a database.
NothingIsLost ==
    [][/\ db.objects \subseteq db'.objects /\ db.columns \subseteq db'.columns
       /\ db.linked \subseteq db'.linked /\ db.whole \subseteq db'.whole
       /\ db.rows = db'.rows
       /\ db.version \in Nat => db.version <= db'.version]_vars

\* A table that was rebuilt has no reference to nothing.
RebuiltIsSound == db.linked \cap db.dangling \subseteq origin.linked

Refusable(d) == ~Supported(d.version) \/ (d.version = Current /\ ~Validated(d))

\* The types, the stamp and the soundness of what was rebuilt, at every statement.
SchemaInv == TypeOK /\ StampTells /\ RebuiltIsSound

\* What is refused was so before the first attempt...
OwnIsAccepted == pc = "refused" => Refusable(origin)

\* ... if none died and no table lacked columns.
UnbrokenIsAccepted == deaths = 0 /\ origin.whole = Tables => OwnIsAccepted

=============================================================================
