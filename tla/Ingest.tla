------------------------------- MODULE Ingest -------------------------------
(***************************************************************************)
(* IngestProgress of icarus/parsers/progress.py as the filesystem parsers  *)
(* (windows.py, linux.py) drive it in the extraction phase of a build: a   *)
(* walk whose frontier of directories, cursor in a directory, rows and     *)
(* statistics are committed together, once in Interval inputs, so that an  *)
(* attempt that raises or dies is resumed by the next one.                 *)
(***************************************************************************)
EXTENDS Naturals, FiniteSets

CONSTANTS
    NDirs, NFiles,    \* bounds: the directories and files of the source
    Parent,           \* Parent[d]: the directory that lists d
    Dir,              \* Dir[f]: the directory that lists f
    Kind,             \* Kind[f]: "plain", "binary" (a row of its own besides), "special"
    Idents,           \* what progress belongs to: source, parser and run; the sources
                      \* of all of them list the same files
    Versioned,        \* those with a run: a versions row that is not completed
    None,
    Interval,         \* BATCH_COMMIT_INTERVAL
    MaxStops          \* bound on attempts that raise, die or are refused

\* Directories and files are numbered in the order of their encoded paths, in which a
\* directory comes before what it lists.  A directory that cannot be read lists nothing.
Root == 1
Dirs == 1..NDirs
Files == 1..NFiles

Counts == [files : Nat, inner : Nat]
State == [id : Idents, counts : Counts]

ASSUME IngestAssumption ==
    /\ NDirs \in Nat \ {0} /\ NFiles \in Nat /\ Interval \in Nat \ {0} /\ MaxStops \in Nat
    /\ Parent \in [Dirs \ {Root} -> Dirs]
    /\ \A d \in Dirs \ {Root} : Parent[d] < d
    /\ Dir \in [Files -> Dirs]
    /\ \A f, g \in Files : Dir[f] < Dir[g] => f < g
    /\ Kind \in [Files -> {"plain", "binary", "special"}]
    /\ None \notin Idents /\ None \notin State /\ Versioned \subseteq Idents

VARIABLES
    db,       \* what is committed in the output
    work,     \* what the attempt's connection sees, its open transaction included
    pc,       \* where the attempt is
    walk,     \* its memory: identity, counts, directory and files that remain in it
    phase,    \* the extraction for the build: "open", "returned", "complete"
    stops

vars == <<db, work, pc, walk, phase, stops>>

\* The private tables (state: whose progress it is and its counts; frontier: a cursor
\* for each pending directory, 0 for NULL) and the rows: who recorded which file, which
\* have a row for their contents, which are stamped with the run.
NoFrontier == [d \in {} |-> 0]

NewOutput ==
    [tables |-> {}, state |-> None, frontier |-> NoFrontier,
     rows |-> [f \in Files |-> None], inner |-> {}, stamped |-> {}]

NoCounts == [files |-> 0, inner |-> 0]

NoWalk ==
    [id |-> None, counts |-> NoCounts, processed |-> 0, mark |-> {}, dir |-> 0, todo |-> {}]

Init ==
    /\ db = NewOutput /\ work = NewOutput
    /\ pc = "idle" /\ walk = NoWalk
    /\ phase = "open" /\ stops = 0

Recorded(d) == {f \in Files : d.rows[f] # None}

Lowest(S) == CHOOSE x \in S : \A y \in S : x <= y

-----------------------------------------------------------------------------
(* __init__ and __enter__.                                                 *)

\* The watermarks: the rows that are there already.  With two runs that are not completed
\* __init__ raises before it changes anything: no step.
Begin(id) ==
    /\ pc = "idle" /\ phase = "open"
    /\ walk' = [NoWalk EXCEPT !.id = id, !.mark = Recorded(db)]
    /\ work' = db
    /\ pc' = "create"
    /\ UNCHANGED <<db, phase, stops>>

\* CREATE TABLE IF NOT EXISTS, twice, each its own commit.
CreateTable ==
    /\ pc = "create"
    /\ \E t \in {"state", "frontier"} :
        /\ t \notin work.tables /\ (t = "frontier" => "state" \in work.tables)
        /\ db' = [db EXCEPT !.tables = @ \cup {t}]
        /\ work' = db'
    /\ UNCHANGED <<pc, walk, phase, stops>>

Starting(w, id) == [w EXCEPT !.state = [id |-> id, counts |-> NoCounts],
                             !.frontier = [d \in {Root} |-> 0]]

\* Variant: no progress is taken up.
NoState(state, id) == state = None

Belongs(state, id) == state # None => state.id = id

\* Progress is taken up with its counts, or begun.
Enter ==
    /\ pc = "create" /\ work.tables = {"state", "frontier"}
    /\ Belongs(db.state, walk.id)
    /\ db' = IF db.state = None THEN Starting(work, walk.id) ELSE db
    /\ work' = db'
    /\ walk' = [walk EXCEPT !.counts = db'.state.counts]
    /\ pc' = "walk"
    /\ UNCHANGED <<phase, stops>>

-----------------------------------------------------------------------------
(* walk() and the parser's loop body.                                      *)

\* The rows that a commit stamps: those above the watermarks, if there is a run.  The row
\* for a file's contents is inserted with the file's and is above its own table's.
Due(w, k) == IF k.id \in Versioned THEN Recorded(w) \ k.mark ELSE {}

\* Variant: the rows are stamped in the transaction after the one that commits them.
StampedLate(w, k) ==
    [w EXCEPT !.state = [@ EXCEPT !.counts = k.counts],
              !.stamped = @ \cup IF k.id \in Versioned THEN k.mark ELSE {}]

\* _commit(): the rows are stamped, the counts are stored.
Stamped(w, k) ==
    [w EXCEPT !.state = [@ EXCEPT !.counts = k.counts], !.stamped = @ \cup Due(w, k)]

\* One more input is processed in w: every Interval of them there is a commit, of the
\* cursor too.
Advanced(w, cursored, k) ==
    IF (k.processed + 1) % Interval = 0
    THEN /\ db' = Stamped(cursored, k)
         /\ work' = db'
         /\ walk' = [k EXCEPT !.processed = 0, !.mark = Recorded(cursored)]
    ELSE /\ work' = w
         /\ walk' = [k EXCEPT !.processed = @ + 1]
         /\ UNCHANGED db

\* The order that walk() takes the directories in.
NextDirectory(pending) == Lowest(pending)

\* A directory is listed: its directories join the frontier, INSERT OR IGNORE.
OpenDirectory ==
    /\ pc = "walk" /\ walk.dir = 0 /\ DOMAIN work.frontier # {}
    /\ LET dir == NextDirectory(DOMAIN work.frontier)
           found == {d \in Dirs \ {Root} : Parent[d] = dir}
       IN  /\ work' = [work EXCEPT !.frontier =
                        [d \in DOMAIN @ \cup found |-> IF d \in DOMAIN @ THEN @[d] ELSE 0]]
           /\ walk' = [walk EXCEPT
                        !.dir = dir,
                        !.todo = {f \in Files : Dir[f] = dir /\ f > work.frontier[dir]}]
    /\ UNCHANGED <<db, pc, phase, stops>>

\* The rows of one file: INSERT OR IGNORE, and one more if there is none yet.
Extracted(w, f, id) ==
    IF Kind[f] = "special" THEN w
    ELSE [w EXCEPT !.rows[f] = IF @ = None THEN id ELSE @,
                   !.inner = IF Kind[f] = "binary" THEN @ \cup {f} ELSE @]

Counted(k, w, f) ==
    IF Kind[f] = "special" THEN k.counts
    ELSE [files |-> k.counts.files + 1,
          inner |-> k.counts.inner + IF Kind[f] = "binary" /\ f \notin w.inner THEN 1 ELSE 0]

\* Variant: the cursor is moved, and committed, before the rows of the file.
DoFileLate ==
    /\ pc = "walk" /\ walk.dir # 0 /\ walk.todo # {}
    /\ LET f == Lowest(walk.todo)
           k == [walk EXCEPT !.counts = Counted(walk, work, f), !.todo = @ \ {f}]
       IN  IF (k.processed + 1) % Interval = 0
           THEN /\ db' = Stamped([work EXCEPT !.frontier[walk.dir] = f], k)
                /\ work' = Extracted(db', f, walk.id)
                /\ walk' = [k EXCEPT !.processed = 0, !.mark = Recorded(work)]
           ELSE /\ work' = Extracted(work, f, walk.id)
                /\ walk' = [k EXCEPT !.processed = @ + 1]
                /\ UNCHANGED db
    /\ UNCHANGED <<pc, phase, stops>>

DoFile ==
    /\ pc = "walk" /\ walk.dir # 0 /\ walk.todo # {}
    /\ LET f == Lowest(walk.todo)
           w == Extracted(work, f, walk.id)
           k == [walk EXCEPT !.counts = Counted(walk, work, f), !.todo = @ \ {f}]
       IN  Advanced(w, [w EXCEPT !.frontier[walk.dir] = f], k)
    /\ UNCHANGED <<pc, phase, stops>>

CloseDirectory ==
    /\ pc = "walk" /\ walk.dir # 0 /\ walk.todo = {}
    /\ LET rest == DOMAIN work.frontier \ {walk.dir}
           w == [work EXCEPT !.frontier = [d \in rest |-> work.frontier[d]]]
       IN  Advanced(w, w, [walk EXCEPT !.dir = 0])
    /\ UNCHANGED <<pc, phase, stops>>

-----------------------------------------------------------------------------
(* __exit__, and the end of the phase.                                     *)

\* The frontier is empty: the last commit.
Exhausted ==
    /\ pc = "walk" /\ walk.dir = 0 /\ DOMAIN work.frontier = {}
    /\ db' = Stamped(work, walk)
    /\ work' = db'
    /\ pc' = "drop"
    /\ UNCHANGED <<walk, phase, stops>>

\* DROP TABLE, each its own commit, the frontier first.
DropFrontier ==
    /\ pc = "drop" /\ "frontier" \in db.tables
    /\ db' = [db EXCEPT !.tables = @ \ {"frontier"}, !.frontier = NoFrontier]
    /\ work' = db'
    /\ UNCHANGED <<pc, walk, phase, stops>>

DropState ==
    /\ pc = "drop" /\ "frontier" \notin db.tables
    /\ db' = [db EXCEPT !.tables = {}, !.state = None]
    /\ work' = NewOutput
    /\ pc' = "idle"
    /\ phase' = "returned"
    /\ walk' = [NoWalk EXCEPT !.counts = walk.counts]
    /\ UNCHANGED stops

\* Pipeline._run: save_checkpoint() of the phase.
Complete ==
    /\ phase = "returned"
    /\ phase' = "complete"
    /\ UNCHANGED <<db, work, pc, walk, stops>>

\* The attempt raises (an error of the database, an iterator that was not consumed, an
\* identity that is refused) or dies: what it did not commit is gone.
Stop ==
    /\ stops < MaxStops /\ stops' = stops + 1
    /\ pc # "idle" \/ phase = "returned"
    /\ pc' = "idle" /\ walk' = NoWalk /\ work' = NewOutput
    /\ phase' = "open"
    /\ UNCHANGED db

\* Progress of somebody else is refused.
Refused ==
    /\ pc = "create" /\ work.tables = {"state", "frontier"}
    /\ ~Belongs(db.state, walk.id)
    /\ pc' = "idle" /\ walk' = NoWalk /\ work' = NewOutput
    /\ UNCHANGED <<db, phase, stops>>

Finished == phase = "complete" /\ UNCHANGED vars

Next ==
    \/ \E id \in Idents : Begin(id)
    \/ CreateTable \/ Enter \/ Refused
    \/ OpenDirectory \/ DoFile \/ CloseDirectory \/ Exhausted
    \/ DropFrontier \/ DropState \/ Complete
    \/ Stop \/ Finished

Spec == Init /\ [][Next]_vars

\* An attempt that was begun goes on, and the build is tried again.
Progress ==
    \/ CreateTable \/ Enter \/ Refused \/ OpenDirectory \/ DoFile \/ CloseDirectory
    \/ Exhausted \/ DropFrontier \/ DropState \/ Complete

FairSpec == Spec /\ WF_vars(Progress) /\ \A id \in Idents : SF_vars(Begin(id))

-----------------------------------------------------------------------------
(* Properties.                                                             *)

Frontier == UNION {[D -> Files \cup {0}] : D \in SUBSET Dirs}

Output ==
    [tables : SUBSET {"state", "frontier"},
     state : State \cup {None}, frontier : Frontier,
     rows : [Files -> Idents \cup {None}], inner : SUBSET Files, stamped : SUBSET Files]

Walk ==
    [id : Idents \cup {None}, counts : Counts, processed : 0..(Interval - 1),
     mark : SUBSET Files, dir : Dirs \cup {0}, todo : SUBSET Files]

TypeOK ==
    /\ db \in Output /\ work \in Output
    /\ pc \in {"idle", "create", "walk", "drop"}
    /\ walk \in Walk
    /\ phase \in {"open", "returned", "complete"}
    /\ stops \in 0..MaxStops

Wanted == {f \in Files : Kind[f] # "special"}

Binaries == {f \in Files : Kind[f] = "binary"}

\* What the cursors of a frontier say is recorded.
Behind(frontier) ==
    {f \in Wanted : \A d \in DOMAIN frontier : Dir[f] < d \/ (Dir[f] = d /\ f <= frontier[d])}

\* What an attempt has recorded.
Passed(w, k) ==
    IF k.dir = 0 THEN Behind(w.frontier)
    ELSE {f \in Wanted : Dir[f] < k.dir \/ (Dir[f] = k.dir /\ f \notin k.todo)}

\* The rows of d are those of S; or all of them, when the source is walked once more
\* because the build died before it knew that the walk had ended, and then the statistics
\* have no inner rows.
Exactly(d, S, counts) ==
    /\ d.inner = Recorded(d) \cap Binaries
    /\ counts.files = Cardinality(S)
    /\ \/ Recorded(d) = S /\ counts.inner = Cardinality(S \cap Binaries)
       \/ Recorded(d) = Wanted /\ counts.inner = 0

\* Whatever attempts die, the committed rows are exactly the files behind the committed
\* frontier, and the statistics count each of them once.
ExactlyBehind ==
    /\ db.state # None => Exactly(db, Behind(db.frontier), db.state.counts)
    /\ db.state = None => Recorded(db) \in {{}, Wanted} /\ db.inner = Recorded(db) \cap Binaries
    /\ pc \in {"walk", "drop"} => Exactly(work, Passed(work, walk), walk.counts)
    /\ phase # "open" => Exactly(db, Wanted, walk.counts)

\* The rows that were recorded in a run.
OfRuns(d) == {f \in Recorded(d) : d.rows[f] \in Versioned}

\* They are stamped, or the next commit stamps them.
WillBeStamped(w, k) == OfRuns(w) \subseteq w.stamped \cup Due(w, k)

\* No reader finds a row without the run that recorded it.
AllStamped == OfRuns(db) \subseteq db.stamped

\* A frontier of one source is never consumed by a walk of another.
Owned(d) ==
    /\ \A f, g \in Recorded(d) : d.rows[f] = d.rows[g]
    /\ d.state # None /\ Recorded(d) # Wanted => \A f \in Recorded(d) : d.rows[f] = d.state.id

OneSource == Owned(db)

\* What makes it inductive: a directory that is pending is found before the walk is past
\* its parent, only the first one is begun, and the files left in it are its last ones.
First(d, frontier) == d \in DOMAIN frontier /\ \A e \in DOMAIN frontier : d <= e

Found(frontier) ==
    /\ \A d \in Dirs \ DOMAIN frontier : \A m \in DOMAIN frontier :
            First(m, frontier) /\ m < d => m <= Parent[d]
    /\ \A d \in DOMAIN frontier : frontier[d] # 0 => First(d, frontier)

InDirectory(w, k) ==
    k.dir # 0 =>
        /\ First(k.dir, w.frontier)
        /\ \A d \in Dirs \ DOMAIN w.frontier : k.dir < d => k.dir < Parent[d]
        /\ \A f \in k.todo : Dir[f] = k.dir
        /\ \A f \in k.todo, g \in Files : Dir[g] = k.dir /\ f < g => g \in k.todo

IngestInv ==
    /\ TypeOK /\ ExactlyBehind /\ AllStamped /\ OneSource
    /\ Found(db.frontier)
    /\ pc # "idle" =>
        /\ phase = "open" /\ walk.id # None /\ walk.mark \subseteq Recorded(db)
        /\ WillBeStamped(work, walk)
        /\ work.state = db.state /\ work.stamped = db.stamped
        /\ Recorded(db) \subseteq Recorded(work)
        /\ pc \in {"create", "drop"} => work = db /\ walk.dir = 0
    /\ pc \in {"walk", "drop"} => db.state # None /\ db.state.id = walk.id
    /\ pc = "walk" => Owned(work) /\ Found(work.frontier) /\ InDirectory(work, walk)
    /\ pc = "drop" => DOMAIN db.frontier = {}

Abstract == INSTANCE Catalog
    WITH Inputs <- Wanted, recorded <- Recorded(db), finished <- phase = "complete"

ImplementsCatalog == Abstract!Spec

\* The attempts come to an end, with the extraction complete.
WalkEnds == <>(phase = "complete")

=============================================================================
