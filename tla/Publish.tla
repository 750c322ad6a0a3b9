------------------------------ MODULE Publish ------------------------------
(***************************************************************************)
(* How a finished database takes the output's name: `icarus build --fresh` *)
(* and `icarus resolve` build a temporary sibling under the output lease,  *)
(* fold its write-ahead log into the one file that os.replace() moves, and *)
(* leave the side files of the output alone.                               *)
(*                                                                         *)
(* A database is a set of pages.  A page that SQLite has committed is in   *)
(* the main file or in the -wal file beside it, and whoever opens the name *)
(* reads the two together.  Each page is known by the build it comes from. *)
(***************************************************************************)
CONSTANTS
    Procs,    \* processes that build into this output
    Builds,   \* supply of builds, told apart by their pages
    Pages,
    None,     \* no build, no process, no page
    Mishaps   \* what a command may meet: when it starts, "open", another process has
              \* the output open for writing, or "killed", one died with it open; and
              \* "busy", another process has the temporary database open when it folds

ASSUME PublishAssumption ==
    /\ None \notin Procs \cup Builds
    /\ Pages # {}
    /\ Mishaps \subseteq {"open", "killed", "busy"}

VARIABLES
    main,     \* the main file under the output's name, page by page
    log,      \* the output's -wal file: committed pages not yet in the main file
    lease,    \* the process that holds the output lease
    job,      \* what each process is building in its temporary file
    writer,   \* the build whose database another process has open for writing
    told      \* the build of the last command that reported success

vars == <<main, log, lease, job, writer, told>>

NoPages == [g \in Pages |-> None]

Absent == main = NoPages

\* What a connection reads that is opened now.
View == [g \in Pages |-> IF log[g] # None THEN log[g] ELSE main[g]]

Job == [at : {"idle", "build", "fold", "drop", "recheck", "replace", "cleanup"},
        kind : {"fresh", "resolve"}, build : Builds \cup {None},
        file : SUBSET Pages, log : SUBSET Pages]

NoJob == [at |-> "idle", kind |-> "fresh", build |-> None, file |-> {}, log |-> {}]

TypeOK ==
    /\ main \in [Pages -> Builds \cup {None}]
    /\ log \in [Pages -> Builds \cup {None}]
    /\ lease \in Procs \cup {None}
    /\ job \in [Procs -> Job]
    /\ writer \in Builds \cup {None}
    /\ told \in Builds \cup {None}

\* Builds that nothing refers to any more may stand for new ones.
UnusedBuilds ==
    Builds \ ({told, writer} \cup {main[g] : g \in Pages} \cup {log[g] : g \in Pages}
                \cup {job[p].build : p \in Procs})

\* The state of the output that the user lets a command start from.
Undisturbed ==
    /\ "open" \notin Mishaps => writer = None
    /\ "killed" \notin Mishaps => writer # None \/ log = NoPages

\* Variant: the lease of another process does not keep this one out.
BeginUnleased(p, k, b) ==
    /\ job[p] = NoJob
    /\ Undisturbed
    /\ lease' = p
    /\ job' = [job EXCEPT ![p] = [NoJob EXCEPT !.at = "build", !.kind = k, !.build = b]]
    /\ UNCHANGED <<main, log, writer, told>>

\* The lease, then a temporary sibling with a name of its own.
Begin(p, k, b) ==
    /\ job[p] = NoJob
    /\ lease = None
    /\ Undisturbed
    /\ lease' = p
    /\ job' = [job EXCEPT ![p] = [NoJob EXCEPT !.at = "build", !.kind = k, !.build = b]]
    /\ UNCHANGED <<main, log, writer, told>>

\* _run_build with --fresh.
BeginFresh(p, b) == Begin(p, "fresh", b)

\* resolve_sources refuses an output that exists.
BeginResolve(p, b) == Absent /\ Begin(p, "resolve", b)

\* A commit in the temporary database, while the phases or _populate run.
Populate(p, g) ==
    /\ job[p].at = "build"
    /\ job' = [job EXCEPT ![p].log = @ \cup {g}]
    /\ UNCHANGED <<main, log, lease, writer, told>>

\* Everything is written and the final gate has passed.
Gate(p) ==
    /\ job[p].at = "build" /\ job[p].log = Pages
    /\ job' = [job EXCEPT ![p].at = "fold"]
    /\ UNCHANGED <<main, log, lease, writer, told>>

\* Variant: the log is not folded back first.
FoldNothing(p) ==
    /\ job[p].at = "fold"
    /\ job' = [job EXCEPT ![p].at = "drop"]
    /\ UNCHANGED <<main, log, lease, writer, told>>

\* PRAGMA wal_checkpoint(TRUNCATE) on the temporary database.  When it is busy, pages
\* are left in the log, though not all: the header is in the main file as soon as
\* there is a log.  _run_build does not look; _checkpoint does, and raises (Stop).
Fold(p) ==
    /\ job[p].at = "fold"
    /\ \E left \in SUBSET job[p].log :
         /\ left # {} => "busy" \in Mishaps /\ job[p].kind = "fresh" /\ left # job[p].log
         /\ job' = [job EXCEPT ![p].at = "drop", ![p].log = left,
                               ![p].file = @ \cup (job[p].log \ left)]
    /\ UNCHANGED <<main, log, lease, writer, told>>

\* Its side files are unlinked.
Drop(p) ==
    /\ job[p].at = "drop"
    /\ job' = [job EXCEPT ![p].log = {},
                 ![p].at = IF job[p].kind = "resolve" THEN "recheck" ELSE "replace"]
    /\ UNCHANGED <<main, log, lease, writer, told>>

\* resolve_sources looks again whether the output exists; if so it raises (Stop).
Recheck(p) ==
    /\ job[p].at = "recheck" /\ Absent
    /\ job' = [job EXCEPT ![p].at = "replace"]
    /\ UNCHANGED <<main, log, lease, writer, told>>

\* os.replace(temporary, output) moves the main file alone.
Replace(p) ==
    /\ job[p].at = "replace"
    /\ main' = [g \in Pages |-> IF g \in job[p].file THEN job[p].build ELSE None]
    /\ told' = job[p].build
    /\ job' = [job EXCEPT ![p].at = "cleanup"]
    /\ UNCHANGED <<log, lease, writer>>

\* The command ends and its lease with it.
Done(p) ==
    /\ job[p].at = "cleanup"
    /\ job' = [job EXCEPT ![p] = NoJob]
    /\ lease' = None
    /\ UNCHANGED <<main, log, writer, told>>

\* It ends before: an exception, whose handler removes the temporary files, or
\* death, which leaves them under a name that nobody uses again.
Stop(p) ==
    /\ job[p].at \notin {"idle", "cleanup"}
    /\ job' = [job EXCEPT ![p] = NoJob]
    /\ lease' = None
    /\ UNCHANGED <<main, log, writer, told>>

-----------------------------------------------------------------------------
(* Another process that writes to the output in place: `icarus exec`, a    *)
(* writable IcarusQuery, a build without --fresh.                          *)

Open ==
    /\ ~Absent /\ writer = None
    /\ "open" \notin Mishaps => lease = None
    /\ writer' = told
    /\ UNCHANGED <<main, log, lease, job, told>>

\* A commit goes to the -wal file, also after the main file was replaced.
Write(g) ==
    /\ writer # None
    /\ log' = [log EXCEPT ![g] = writer]
    /\ UNCHANGED <<main, lease, job, writer, told>>

\* Closing the last connection folds the log into the file that this connection
\* opened, which has no name any more once it was replaced, and removes it.
Close ==
    /\ writer # None
    /\ main' = IF writer = told THEN View ELSE main
    /\ log' = NoPages
    /\ writer' = None
    /\ UNCHANGED <<lease, job, told>>

\* Death leaves the log as it is.
Kill ==
    /\ writer # None
    /\ writer' = None
    /\ UNCHANGED <<main, log, lease, job, told>>

-----------------------------------------------------------------------------

Init ==
    /\ main = NoPages /\ log = NoPages
    /\ lease = None /\ job = [p \in Procs |-> NoJob]
    /\ writer = None /\ told = None

Builder(p) ==
    \/ \E b \in UnusedBuilds : BeginFresh(p, b) \/ BeginResolve(p, b)
    \/ \E g \in Pages : Populate(p, g)
    \/ Gate(p) \/ Fold(p) \/ Drop(p) \/ Recheck(p) \/ Replace(p)
    \/ Done(p) \/ Stop(p)

Writer == Open \/ (\E g \in Pages : Write(g)) \/ Close \/ Kill

Next == (\E p \in Procs : Builder(p)) \/ Writer

Spec == Init /\ [][Next]_vars

-----------------------------------------------------------------------------
(* Properties.                                                             *)

\* After a command has replaced the output, and through every later crash of
\* another, whoever opens the output reads that build, whole: no page is missing
\* and none is of an earlier database (`--fresh` "never reuses/unions the existing
\* output").
ReplacementIsRead == told # None => \A g \in Pages : View[g] = told

\* `icarus resolve` never takes the place of an output that exists, whatever other
\* processes build there meanwhile.
ResolveKeepsOutputs ==
    [][\A p \in Procs :
         job[p].kind = "resolve" /\ job[p].at = "replace" /\ job'[p].at = "cleanup"
           => Absent]_vars

\* What makes both inductive: who builds has the lease, what is about to be moved
\* is complete unless its fold was busy, a resolve under way has no output to
\* replace, and, without mishaps, nobody writes while somebody builds.
PublishInv ==
    /\ TypeOK
    /\ \A p \in Procs :
         /\ job[p].at # "idle" => lease = p
         /\ job[p].at = "idle" => job[p] = NoJob
         /\ job[p].at = "fold" => job[p].log = Pages
         /\ job[p].at \in {"drop", "recheck", "replace"} =>
              /\ job[p].file # {}
              /\ job[p].kind = "resolve" \/ "busy" \notin Mishaps => job[p].file = Pages
         /\ job[p].at \notin {"idle", "cleanup"} =>
              job[p].build # None /\ (job[p].kind = "resolve" => Absent)
    /\ Absent => writer = None
    /\ Mishaps = {} =>
         /\ lease # None => writer = None /\ log = NoPages
         /\ writer \in {None, told}
         /\ \A g \in Pages : main[g] = told /\ log[g] \in {None, told}

=============================================================================
