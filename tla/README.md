# ICARUS: TLA+ specifications, model checking and proofs

ICARUS parses system images and configuration sources into one SQLite database,
removes secrets from it with HYGEIA, marks it as verified when a final scan finds
nothing, and lets other commands query, compare, resolve and export it. The hard
part of the program is not what a parser decodes. It is that a build commits to
two databases without a common transaction and may die between any two commits;
that several commands of one machine use one output; that the marker "verified"
must never be seen on a database it is not true of; and that the passes over the
rows (walk, migration, resolution, comparison) must come to the same result
whatever was interrupted, repeated or inserted in another order. These
specifications are about that part.

Paths below are relative to `src/icarus/` of the repository unless they start
with `docs/` or `wiki/`.

## 1. Inventory

| Component | State it keeps | Operations | Interacts by |
|---|---|---|---|
| Build pipeline `core/pipeline.py` | output database (`versions`, `metadata`, rows); private checkpoint database (`checkpoint_meta`, `checkpoints`); the `Pipeline` object | `run`/`_run`, `get_last_checkpoint`, `save_checkpoint`, identity restore, upgrade and binding, `_finalize_version_record`, `_clear_checkpoint` | commits to two databases; calls phase handlers, HYGEIA, the schema, the lease |
| HYGEIA trust markers `integrations/hygeia.py` | five keys of `metadata` | `invalidate_sanitization`, `mark_sanitization_failed`, `sanitize_output`, `verify_clean`, `finalize_sanitization`, `remediate_legacy_output`, `sanitization_status` | every writer revokes in its own transaction; readers consult the status |
| Output lease `core/build_lock.py` | an `flock` on a sidecar, a thread-local set of held paths | `output_lease` (nests) | taken by builds, `resolve`, remediation |
| Command line `__main__.py` | none of its own; `--fresh` has a temporary output | `build`, `build --fresh`, `resolve`, `exec`, `query`, `diff`, `export` | replaces the output by `os.replace` |
| Resolution command `core/resolution.py` | a temporary output | `resolve_sources`, `_populate`, `_checkpoint` | the lease, the resolver, HYGEIA, `os.replace` |
| Query sessions `core/query.py` | a connection, `_write_pending`, the guard flags | `execute`, `commit`, `rollback`, `close` | revokes markers; no lease |
| Entity resolver `core/resolver.py` | atoms, bags, `bag_atoms`, the event log, match candidates | `ingest_atom`, `create_bag`, `merge_bags`, `split_bag`, `resolve`, `resolve_scored` | nested transactions on a caller's connection; revokes markers |
| Atomizer `core/atomize.py` | none | `atomize_db` | writes atoms on a caller's connection |
| Matching `core/matching.py` | none | `candidate_pairs`, `score_pair`, `cluster` | called by the resolver |
| Schema `core/schema.py` | `schema_version`, tables, indexes, full-text tables, triggers, views | `initialize_database`, migrations v2 to v6, repairs, rebuild of tables, validation | called by every build |
| Ingest progress `parsers/progress.py` | a frontier of directories, a cursor in each, statistics, stamps of rows | `IngestProgress`: `__enter__`, `walk`, `_commit`, `__exit__` | between the loop of a parser and the output |
| Differ `core/differ.py` | none | `full_diff` and its parts | reads two databases |
| Parser contract, registry, detection | the list of parsers | `register`, `detect` | pure functions of the inputs |
| Parsers, STIX export, GUI, evaluation, self-tests | none that outlives a call | decode, read, render | read a source or a database |

### What is hard, and what makes each part correct

- **Pipeline.** A crash between any two commits of the two databases; an exception
  in a handler, in the gate or in a checkpoint write; a checkpoint of an older
  release; `start_phase`; the same object run twice; a user who replaces or removes
  a file between builds. Correct means: a phase the checkpoint calls complete is in
  the output; what was running is not skipped; an output holds one run; the private
  key outlives the identity that was made with it; "verified" is never said of
  unsanitized or incomplete content; an interrupted build can be finished, and is.
- **Trust markers.** Writers that take no lease; guarded statements that fail in the
  middle of a pending transaction; a remediation that dies. Correct means: evidence
  describes the committed content, and an uncommitted change carries none.
- **Lease.** Opening and locking are two steps; blocks nest; `fork` copies the
  thread-local set and shares the descriptor; a process dies. Correct means: one
  thread at a time is inside, until its outermost block ends.
- **Publication.** A database is a main file and a write-ahead log, and only one of
  them is moved. Correct means: after a replacement the reader sees the new build,
  whole, and `resolve` replaces nothing that exists.
- **Resolver and matching.** Two connections decide about one atom; a call inside the
  caller's transaction reads a snapshot; merges and splits follow each other in any
  order; edges come out of a set. Correct means: an atom is in one bag, a count is the
  number of members, the log alone says where every atom is, a confidence belongs to
  the members it was computed for, a scored bag is a connected component, committed
  history only grows, and no change leaves a certificate in place.
- **Ingest.** Rows, cursors and statistics are committed once in some hundred inputs;
  the attempt dies in between; directories are found while others are pending; the
  private tables go away in two commits before the phase is recorded in a third.
  Correct means: what is committed is exactly the files behind the committed cursors,
  each counted once and stamped; progress is never taken up by somebody else; the walk
  ends.
- **Schema.** Migrations in several commits, stamps between them, a table renamed
  aside and copied. Correct means: the stamp tells what is there, nothing a database
  had is lost wherever an attempt dies, what is opened is current, and a database that
  the framework made is not refused.
- **Differ.** Ids are local to a database and depend on the order of inserts; keys may
  be NULL; observations are a multiset; names are ambiguous. Correct means: the report
  is empty exactly when the contents are the same, and it is symmetric.

`PROJECT.json` lists every hazard at the line where it bites, with the properties
that would catch it.

## 2. Modules

| Module | About | State variables and their code |
|---|---|---|
| `Pipeline`, `MCPipeline` | the resumable build | `file versions trust raw work`: the output; `sidecar meta status`: the checkpoint; `pc ctx`: the running process; `outcome faults` |
| `Lease` | what callers rely on: one owner | `owner` |
| `OutputLease`, `MCOutputLease` | the lock on the sidecar | `path locks`: the file system; `alive fd refs mark depth`: processes and threads |
| `Publish` | main file and write-ahead log | `main log`: the two files, page by page; `lease job`: builders; `writer`: an in-place writer; `told`: the last reported success |
| `Trust` | who records and who revokes evidence | `db`: committed content and markers; `conn`: each connection's transaction and guard flags; `remedy`: the remediation; `audited`: the content at the last recording (history) |
| `Partition` | what a reader of resolved entities relies on | `observed entities` |
| `Matching` | blocking, scores, union-find, as operators | |
| `Resolver`, `MCResolver` | the resolver's calls on connections of one database | `db`: committed rows; `lock`: SQLite's write lock; `mode snap`: each connection's transaction; `work`: what the holder of the lock sees |
| `Catalog` | what a reader of an extraction relies on | `recorded finished` |
| `Ingest`, `MCIngest` | the resumable walk of a parser | `db`: private tables and rows, committed; `work`: with the open transaction; `pc walk`: the attempt's memory; `phase`: the extraction for the build |
| `Schema`, `MCSchema` | creation, migration, repair | `db`: stamp, objects, columns, rows, references; `work open`: with the open transaction; `pc todo held`: the attempt; `origin`: the database it began with (history) |
| `Differ`, `MCDiffer` | comparison by natural keys | `old new`: the two databases; `topic`: what they are filled with; `report` |
| `PipelineProofs`, `OutputLeaseProofs`, `PublishProofs`, `TrustProofs`, `ResolverProofs`, `IngestProofs`, `SchemaProofs`, `DifferProofs` | theorems | |

They meet at narrow places. `Pipeline` runs one process because the lease excludes
others (`OutputLease`). `FreshReplace` of `Pipeline` is one step because `Publish`
shows what the replacement does to the files, and it is not offered after a build
that died, which is where `Publish` shows that it goes wrong. `Pipeline` lets nobody
else write during a build; `Trust` shows what writers without a lease do to the gate.
A handler of kind "parser" in `Pipeline` commits several times and returns; `Ingest`
is the inside of that handler, with its own deaths, and `phase = "complete"` there is
`SavePhaseComplete` here. `CompleteSchema` of `Pipeline` is all of `Schema`. `Resolver`
uses `Matching`, and its `sealed` is the certificate of `Trust` seen by one more writer.

### Pipeline

The program counter `pc` names the commit that the process makes next, so that
`Crash` between any two is a step of the model: `sidecar` (the file exists and is
empty), `intent` (the prepared record with the new key), `upgrade_intent` and
`upgrade_output` (an older identity), `create`, `schema`, `insert` (the output), then
`revoke`, `bind`, the phase loop (`phase`, `handler`, `complete`), its failures
(`failed`, `mark`) and the end (`gate`, `audit`, `gate_mark`, `gate_save`, `clear`).
A handler may commit several times (`HandlerCommits`) before it returns. What a
handler writes is abstracted to three values per phase (`none`, `some`, `done`), and
the content to whether the scan would find something (`raw`). `NextPhase` is
`get_last_checkpoint`. Identities are compared by their parts: the input, the run
id, the key; an HMAC is its key. A build that is refused leaves its object as far as it
was restored (`Tried`), which matters to a caller that runs the same object again. An
output that is not whole (`partial`) may have the tables an insert needs or not, so that
inserting the version may succeed or raise there.

### OutputLease

`OpenSidecar` and `Lock` are separate steps, since another process may open, lock
and leave in between. A lock belongs to the open file description, so a set of
processes holds it: `Fork` adds the child wherever the parent is. `mark[t]` is the
process in which the thread-local set of `t` was filled; the code compares it with
`os.getpid()`. Assumed: a pid is not given out again while a set that a fork copied
still names it (`FreePids`).

### Publish

A page is known by the build it comes from; `View` is what SQLite shows: the log
over the main file. `Mishaps` says what a command may meet: a writer that has the
output open when it starts, the log of one that was killed, or a reader that keeps the
temporary database's log from being folded completely (`busy`): a build does not look at
the result of the checkpoint, `resolve` does and raises. The published build may then
lack pages, so `ReplacementIsRead` is claimed without mishaps. The documentation
leaves the first outside the contract (`docs/INGEST_RECOVERY.md`: "unrelated
external SQLite writers are outside this coordination contract").

### Trust

A connection is in no transaction, in a deferred one that has read nothing
(`begun`), has a snapshot (`read`), has one that is too old to write from
(`stale`), or holds the write lock (`write`). A guarded statement is three steps:
`StatementBegin` (own transaction or not, savepoint), the statement, and
`StatementEnds` or a failure. A statement that may write can set the content and the
markers to anything. Raw use of `query.conn` is outside the contract
(`docs/PUBLIC_WRITES.md`) and not modelled, except in `icarus exec`, which uses it.
`finalize_sanitization` is two steps because it is two connections; the second checks
the source identities again and nothing else of the content (`Permitted`). It is driven here
by the remediation; a build calls the same function.

### Resolver and Matching

A database is the atoms `1..natoms` (inserts give the next id), the rows of `bags`,
the pairs of `bag_atoms`, the event log and the stored candidates. What the atoms
observe is the constant `Atom`; a value stands for what its comparator makes of the
string. A call on an idle connection owns `BEGIN IMMEDIATE`; a call inside the caller's
transaction is a savepoint that takes the lock by an empty `UPDATE` before it reads
(`MayWrite`): it fails when somebody committed since the caller's snapshot. A call that
raises leaves nothing but, in the second case, the lock (`CallRefused`). `resolve` takes
the exact groups in any order, since its query has no `ORDER BY`; the others sort. An
atom is found by all words of its full-text row (`indexed`), its type and properties
included, and asks with those of its source key only (`words`). Every call is
one action followed by `Commit` or `Rollback`; between them others read and are refused.
`resolve_scored` takes the edges in every order.
`Partition` is what readers rely on: disjoint groups of one type, and what was resolved
stays resolved; the refinement maps its entities to the members of the live bags.

### Ingest

Directories and files are numbered in the order of their encoded paths, which is the
order of the walk. The frontier maps each pending directory to its cursor, the last
file that was done there. `Advanced` is one more input: every `Interval` of them the
rows above the watermark are stamped and rows, cursor and statistics are committed
together; in between only the connection (`work`) sees them. `Stop` is an exception or
a death at any step; the next `Begin` reads what is committed. A file of kind "binary"
has a second row (`inner`), which is counted only when it is new. It is stamped along
with the first, by the watermark of its own table. Progress belongs to an
identity: source, parser and run. Those with a run are `Versioned`; a parser that is
called on a database without an active run stamps nothing. With two active runs
`__init__` raises before it changes anything. All identities walk one tree, as the builds
of one output do: a direct call of a parser with another source, once the state of a
finished walk is dropped, would add the rows of that source, and is not modelled.
`Catalog`: what is committed is a growing first part of the inputs, and the extraction
is complete only with all of them.

### Schema

A script is a sequence of statements (`todo`), one stated for each object it creates
that the properties tell apart; a step executes one and a death may follow any. Outside
a transaction each statement is committed at once, as `executescript` does it; the
stamp of a fresh database and the rebuild of a full-text index open a transaction that
the end commits (`open`). `Rebuild` is the renaming, copying and dropping of a table
whose foreign keys are missing, in a transaction of its own. `Makes` says
what each migration adds and `Migration` stamps it. `Legacies` are the databases an
attempt finds; `Released` says what they may be: empty, or with the tables and columns of
their version and nothing half done. The run has each version, with and without rows, a
table that lacks columns, references to nothing, and a version that is not supported.

### Differ

Two databases are filled apart, table by table in the order of a build and in every
order of rows, so that the same content comes with different ids. `FullDiff` is a
function of the two. What databases are compared in is split into five topics
(`contents`, `structure`, `subjects`, `multisets`, `bags`), each with small tables.
The copies of one content are counted along the rows (`Accumulated`), and `Contents`
bounds the rank of a canonical form.
Contents of observations have a canonical form: two spellings of one JSON are one. The
type and the time of an observation's event are one value (`event`), compared literally.
Observations whose subject is not found are a component of the report of their own
(`unresolved`); the code appends them, so marked, to the added and the removed ones.

## 3. Runs

| Run | Instance | States | Shows |
|---|---|---|---|
| `cli` | 4 phases, 2 inputs, 3 ids, 3 faults, command line only, from nothing or from an older release's crashed build, fairness | 55,669 | the two databases agree after every crash: `VerifiedIsComplete`, `CompletePhaseIsDurable`, `CrashedPhaseIsResumed`, `OneRunPerOutput`, `KeyOutlivesIdentity`, `InterruptedIsResumable`, `CheckpointKeepsItsRun`; and `InterruptedBuildFinishes` |
| `api` | 3 phases, 2 inputs, 4 ids, 2 faults, every entry of the Python API and every intervention | 533,714 | `VerifiedIsClean`, `NoEvidenceWhileBuilding` |
| `lease` | 2 processes, 3 threads, 2 inodes, nesting 2 | 432 | `LeaseInv`, `MutualExclusion`, refinement of `Lease` |
| `publish` | 2 processes, 4 builds, 2 pages, no mishap | 337 | `PublishInv`, `ReplacementIsRead`, `ResolveKeepsOutputs` |
| `trust` | 2 guarded sessions, 1 exec, 1 resolver connection, 1 clean, 1 dirty and 1 content with resume material | 138,828 | `TrustInv`, `EvidenceIsCurrent`, `PendingIsRevoked`, `NoIdleLock` |
| `resolver` | 2 connections, 4 atoms of 2 types, 2 bags, 6 events | 87,622 | `ResolverInv`, `HistoryPlaces`, `ScoreIsEarned`, `ScoredAreComponents`, `HistoryOnlyGrows`, `SealCovers`, refinement of `Partition` |
| `ingest` | 4 directories, 6 files, a commit every 3 inputs, 2 runs and no run, 4 attempts that stop | 2,248 | `IngestInv`, `ExactlyBehind`, refinement of `Catalog`, `WalkEnds` |
| `schema` | 18 databases, 3 opens, 2 deaths | 2,956 | `SchemaInv`, `OpenedIsCurrent`, `UnbrokenIsAccepted`, `NothingIsLost` |
| `differ` | 5 topics, up to 3 rows per table | 902,008 | `SameIsSilent`, `SilentMeansSame`, `SwapSwaps`, `ChangedDiffer` |
| `publish_killed`, `trust_gate`, `schema_stamp` | small | | each a disagreement between the code and what is written about it (section 6) |

Every property of a passing run has a variant of the code in the module (`Variant:`)
under which TLC finds it violated: a dropped guard, a swapped order, a missing reset.

**Bounds, and why they are enough.**
- `MaxFaults`: three crashes or exceptions let a build die, its retry die elsewhere,
  and that one's retry die again; what a retry finds depends only on the files, so a
  fourth finds nothing new. Three or four phases contain a parser before and phases
  after any point, and the sanitizer last; more only repeat the loop. `Tokens` are run
  ids and keys; those nothing refers to are used again, so the supply bounds how many
  are visible at once. `MaxVersions` bounds the rows that repeated API runs would add
  without end. `LegacyBuilds` starts from each point at which an older release may have
  stopped.
- `MaxDepth = 2`: the nested block of `Pipeline.run` inside the command; the second
  level is treated as any deeper one. Two pages tell a union of two databases from
  either of them. Three contents, one clean and two permitted, tell a content from
  another and what the scan finds from what the second check finds.
- `resolver`: three atoms of one type match in a chain (the first two only through the
  third), a fourth is of another type; six events let a scored chain be split into a
  second bag and merged again, or two bags of `resolve_scored` be merged; two connections
  suffice for a stale snapshot. A merge of more than two bags, and what follows one, is
  left to the theorems, which bound neither bags nor events. The atoms are chosen so that a blank
  blocking value, a bucket at its cap, a missing property and a graded score occur.
- `ingest`: a directory is found late (in the second, sorted after the third), one is
  empty of plain files, an interval of three leaves commits in the middle of a
  directory, at its end and at the end of the walk; four stops let each of
  the three identities be interrupted, refused and interrupted again.
- `schema`: two entity tables (one searched) and two provenance columns tell "all" from
  "the first"; two deaths and three opens let an attempt die, its repair die, and a
  third see the result. `differ`: two rows of a table have two orders; three
  observations are two of one content and one of another; one event is NULL.

For the properties named in section 5, the theorems remove the bounds.

Deadlock is checked in every run.

**Fairness.** `Pipeline.FairSpec`: a process that can go on does (`WF` of `Step`; a
handler is assumed to return, nothing is assumed of `HandlerCommits`), and a user whose
build was interrupted repeats the command with each of the inputs in turn (`WF` of each
`CliBuild`). The second is what the documentation tells the user to do; without it
nothing would restart a process that died. Crashes and exceptions have no fairness;
they are finitely many, which is a bound. The property is about the command line; it
does not say that a build whose gate keeps finding residue ever passes: the sanitizer
of the model cleans what it completes.
`Ingest.FairSpec`: an attempt goes on (`WF` of `Progress`), and the build is tried again
for each identity (`SF` of `Begin`: strong, because an attempt of another identity,
which is refused, makes it impossible for a moment). Stops are bounded by `MaxStops`.

## 4. Assumptions

- SQLite is external: a commit is atomic and durable, one connection writes at a time,
  a process that dies rolls back, a reader sees main file and log together. A statement
  that waits longer than the busy timeout fails without a change. Row ids grow.
- `flock`, `os.replace`, `fork` and the closing of files at process death behave as
  POSIX says. On Windows the lease uses another call, with the same steps.
- uuid4 run ids and random keys do not repeat among those in use.
- The scan finds what it is configured to find; "clean" means that.
- The source does not change during a build (`docs/THREAT_MODEL.md`): a directory lists
  the same files to every attempt, in particular a directory that cannot be read never
  can.
- Nobody but the resolver writes its tables; `icarus exec` may, and then only the
  certificate is claimed (`Trust`).

## 5. Proofs

The proof modules are checked by TLAPS from nothing, without further assumptions than
the named `ASSUME`s of the modules (types of the constants, `None` outside the sets).

**`PipelineProofs`**: every number and kind of phases, every entry, intervention and
number of faults. `TypeInv` strengthens `TypeOK` with where a phase index and a version
id may be used. `VerifiedClean` and `NoEvidence` need each other: `CleanInv` adds that a
process about to record an audit is looking at a content that passes the gate, which
holds because from `Revoke` on no step of a build leaves evidence in place.

Its second half is about builds from the command line (`CliOnly`) whose sanitizer is the
last phase (`SanitizesLast`, as `create_default_pipeline` has it). Without the first,
`start_phase` breaks the claims; without the second, a failed gate does (section 6).
`RunInv`: who is about to insert a row has found none, who has one has id 1.
`OrderInv`: while nothing runs the complete phases are a prefix (`InOrder`), and while a
process runs it stands at their end (`AtFrontier`). `WorkInv`: the checkpoint and the
output agree (`Agree`), and behind the phase that runs everything is done
(`DoneBehind`); none of the properties is inductive without them, because the
checkpoint alone does not say what the output holds.
`IdentityInv`, for `CliOnly` alone, is what the two identities know of each other:
whatever is written in the checkpoint names every version of the output by its run, its
input and the key of its HMAC, which an older release has not made yet (`Witness`,
`Known`); what the process has in memory is what it made durable before (`Memory`), so
that each of the commits between "prepared" and "bound" leaves a pair that the next
build recognises. `KeyOutlivesIdentity`, `InterruptedIsResumable` and
`CheckpointKeepsItsRun` follow from it.

**`OutputLeaseProofs`**: `LeaseInv` says that nobody has a file open but the one the
path names (the sidecar is never unlinked: that is what makes opening before locking
safe), that a process is in a lock only through a descriptor it shares, and that a
thread-local set valid in its process belongs to a thread inside. From it follow
exclusion, that whoever is inside has the lock, and that each step is a step or a
stutter of `Lease`.

**`PublishProofs`**: `PublishInv` ties a job's position to what its temporary file
holds (all of the build, unless the fold of a fresh build was kept from it);
`ReplacementRead` is for `Mishaps = {}`; `ResolveKeeps` needs no such condition.

**`TrustProofs`**: any number of connections. `TrustInv` adds to the properties that one
connection at most writes and that every savepoint to go back to is itself either the
committed state or without evidence; a step is private, a commit, or a publication of
the framework, and there is one lemma for each kind.

**`ResolverProofs`**: any number of connections, atoms, types, bags and events, any
observations. `ResolverInv` has four parts: the view of a connection that writes is
current (`LockedViewIsCurrent`, which is what the empty `UPDATE` is for); the committed
and the uncommitted database are each `Sound`; the uncommitted one continues the
committed one; and a certificate in it covers it. `Sound` is `Consistent` (one bag per
atom, the log places every atom, a bag is empty exactly when it was merged away, events
name what exists) with the two claims about scores, and with what makes those inductive:
whatever `resolve_scored` looked at is resolved afterwards (`Settled`), so that no later
candidate touches a group that exists. One lemma per call shows that it keeps a database
consistent and continues it, without saying what the matcher groups: `resolve` and
`resolve_scored` are instances of a lemma about any disjoint unresolved sets. All calls
but `resolve_scored` are `Quiet`: they add no candidate, no group and no confidence, and
a bag whose members they change loses its own. For `resolve_scored` the union-find is
proved: roots exist because a parent is never larger than its child (`RootsExist`),
linking two roots joins their classes and nothing else (`UnionIs`, `UnionConnects`), and
so the clusters of any edges in any order are the connected components
(`ClustersAreComponents`). The refinement follows too: a commit is one change of a
partition.

**`IngestProofs`**: any tree, interval, number of identities and of stops. A row of a
run is stamped or due at the next commit (`WillBeStamped`). `IngestInv`
adds to `ExactlyBehind` how the walk stands to the frontier: a directory that is not yet
found lies behind its parent (`Found`), so when the first pending directory is done
every later one is pending or lies behind one that is (lemma `NoGap`, by the least
counterexample), and the files that are left in a directory are its last ones
(`InDirectory`), so that the cursor tells the same as the set of files done
(`BehindReading`). The rows behind any frontier are a first part of the inputs
(`BehindIsUpTo`), which gives the refinement of `Catalog`.

**`SchemaProofs`**: any tables and columns (`SchemaAssumption`), any number of attempts
and deaths, and any database that a release may have left (`LegaciesAssumption`: what
`Released` says of it; of an unsupported version nothing). `IInv` says of what is
committed and, between statements that do not rebuild a table, of what the attempt sees
that it is `Good`: nothing the database began with is missing (`Better`), its stamp is
followed by all that the migrations to that version make (`Tells`), and no reference to
nothing is in a table that was linked since (`Sound`). Neither can be kept without the
script: `Building` and `Repairing` say that a stamp still to be executed has what it
needs before it (`Stamps`), that what is missing is still to be made, and that a
full-text index lacking rows is still to be rebuilt; `Rebuilding` says that the database
is one of the seven stages between the renaming of a table and its end, computed from
the committed one. `AtRest` is what an attempt of each outcome leaves to the next.

**`DifferProofs`**: any rows in any number and any order of inserts, whatever the rows say
(`DifferAssumption` types their fields). The invariant is that the two databases are
`Linked` (ids are `1..n` and a row refers to rows that exist) and that the report is
`FullDiff` of them. The multisets carry the proof: `SumsExist` and `AccumulatedIs` show
that the running counts are those of the rows, `RemainingIs` that what is left over on a
side is exactly its excess of a content, so that nothing remains if and only if both
hold every content equally often (`AlikeIsNothing`). Same contents then give a bijection
of the natural keys though ids differ, which is what every part of the report goes by.

**Only model-checked**: `InterruptedBuildFinishes` and `WalkEnds`, since liveness under
fairness is not in the prover's reach; and what the blocking and the scoring of `Matching`
make of concrete values: the theorems hold for any candidates and any scores.

## 6. Findings

1. **`publish_killed`** (`__main__.py:80`). `build --fresh` moves the main file only.
   If a writer of the old output was killed, its `-wal` file stays and is replayed over
   the new database by the next reader: pages of two databases. The comment at
   `__main__.py:55-60` promises that the existing output is never unioned. Reproduced
   with SQLite.
2. **`trust_gate`** (`integrations/hygeia.py:759`). The gate scans on one connection and
   records on another. `icarus exec` and writable sessions take no lease, so a write
   committed in between, whose revocation found nothing to revoke, is left under
   "verified": before it records, the second connection checks the source identities only. `docs/PUBLIC_WRITES.md:86-88` says that a changed database passes the
   verification before it receives fresh evidence. Reproduced with `cmd_exec`.
3. **`schema_stamp`** (`core/schema.py:770`). The migration to version 6 stamps the
   version before the repairs that complete it run. After a death in between, every
   later open validates a version 6 database, misses objects and refuses it; the comment
   at `core/schema.py:1062-1064` says that the migration is completed before that path
   is used. Reproduced with a version 2 database.

Disagreements seen while modelling, without a run:

- A `--skip-hygeia` build that dies after its last phase is resumed with no phase left;
  the marker "skipped" is revoked (`core/pipeline.py:921`) and not written again, against
  the comment at 1022-1024.
- `get_last_checkpoint` takes the highest complete phase, so a phase re-run with
  `start_phase` that crashed is skipped (`core/pipeline.py:219`, docstring line 5). With
  a phase after the sanitizer, marking sanitize as failed (`core/pipeline.py:996`) does
  not make the next build go back to it. `CrashedPhaseIsResumed` is therefore claimed of
  the command line and the default phases.
- Death between the creation of the checkpoint file and the first write to it leaves an
  empty file that every default retry refuses, with advice to remove it.
- An older database with a table that lacks a column is opened once (the repairs are
  skipped) and refused ever after; `UnbrokenIsAccepted` excludes it. Death between the
  creation of a full-text table and its `rebuild` leaves older rows out of the search for
  good, since the rebuild is decided by what was absent on entry; `OpenedIsCurrent`
  claims it only without deaths. A reference to nothing in a table that is not rebuilt
  makes the attempt that rebuilds another table fail, and is accepted by the next.
- A blocking value of spaces is a key for `resolve` and none for `candidate_pairs`. A bag
  keeps its canonical key when a split takes away the atom it came from, and its score
  when it is merged into another (`ScoreIsEarned` is about bags with members). Keys of
  bags may repeat over several resolutions, and the differ then compares the last one
  only, which is why its properties assume `OneBagPerKey`. The cap of a bucket counts
  resolved atoms too.
- An observation whose subject's file row is missing is reported as unresolved, never as
  a difference; ambiguous names take no part in moves and reassignments. `Silent` says so.

## 7. Not modelled

- Decoding of source formats, path handling, Mach-O, Markdown, layout of reports.
- STIX export, GUI and resolver evaluation read databases and keep no state. A reader
  checks the posture on one connection and reads on another (`gui/server.py:197`); that
  window is listed as a hazard without a property.
- Pattern matching and redaction: the scan is a predicate on the content.
- `_select_checkpoint` and the adoption of a checkpoint from the old namespace; the
  pragmas and memory sizes of `open_db`.
- Of the differ: sandbox rules, mach services, daemons, kexts and frameworks, which are
  natural keys like the modelled ones; `entitlement_diff`, whose report of dangerous
  entitlements compares bundles with `=`, so that those without one are always new.
- The projection of rows to atoms in `atomize_db`; `Resolver` takes the atoms as given.
- Parser registry, manifest validation, test harness and golden files.
- Refusal of links and special files by the lease: a check of the environment.

## 8. Plan

Done: `Pipeline`, `OutputLease` over `Lease`, `Publish`, `Trust`, `Resolver` over
`Partition` with `Matching`, `Ingest` over `Catalog`, `Schema`, `Differ`. Next:

1. `CheckpointNamespace`: `_select_checkpoint` and the adoption of a checkpoint of the
   old namespace under two leases; outputs that share a stem.
2. `BuildPromise`: what a caller of a build relies on (nothing, interrupted, published),
   implemented by `Pipeline`.
