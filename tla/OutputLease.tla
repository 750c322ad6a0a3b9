---------------------------- MODULE OutputLease ----------------------------
(***************************************************************************)
(* output_lease of icarus/core/build_lock.py for one output: an advisory   *)
(* lock of the operating system on a sidecar file that is never unlinked,  *)
(* re-entrant for the thread that holds it through a thread-local set of   *)
(* paths.  Opening the sidecar and locking it are two steps.  The lock     *)
(* belongs to the open file: a forked child shares it, and its copy of the *)
(* thread-local set must not pass for a lease of its own.                  *)
(***************************************************************************)
EXTENDS Naturals

CONSTANTS
    Procs, Threads,
    ProcOf,      \* ProcOf[t]: the process of thread t
    Inodes,      \* files that the sidecar's path may come to name
    None,
    MaxDepth     \* bound on nested `with output_lease` blocks

ASSUME LeaseAssumption ==
    /\ ProcOf \in [Threads -> Procs]
    /\ None \notin Procs \cup Threads \cup Inodes
    /\ MaxDepth \in Nat

VARIABLES
    path,     \* the inode that the sidecar's path names
    locks,    \* locks[i]: processes with a descriptor that holds the lock of i
    alive,    \* running processes
    fd,       \* fd[t]: the inode that thread t has opened for its lease
    refs,     \* refs[t]: processes that share the file thread t has opened
    mark,     \* mark[t]: the pid with which _active.paths of t holds the key
    depth     \* depth[t]: `with` blocks that thread t is inside

vars == <<path, locks, alive, fd, refs, mark, depth>>

TypeOK ==
    /\ path \in Inodes \cup {None}
    /\ locks \in [Inodes -> SUBSET Procs]
    /\ alive \subseteq Procs
    /\ fd \in [Threads -> Inodes \cup {None}]
    /\ refs \in [Threads -> SUBSET Procs]
    /\ mark \in [Threads -> Procs \cup {None}]
    /\ depth \in [Threads -> Nat]

ThreadsOf(p) == {t \in Threads : ProcOf[t] = p}

FreeInodes ==
    {i \in Inodes : i # path /\ locks[i] = {} /\ \A t \in Threads : fd[t] # i}

\* Variant: the process in which the set was filled is not compared.
NestsAnywhere(t) == mark[t] # None

\* `key in _active.paths`, after the set of another process was thrown away.
Nests(t) == mark[t] = ProcOf[t]

EnterNested(t) ==
    /\ ProcOf[t] \in alive /\ Nests(t)
    /\ depth[t] < MaxDepth
    /\ depth' = [depth EXCEPT ![t] = @ + 1]
    /\ UNCHANGED <<path, locks, alive, fd, refs, mark>>

\* os.open(lock_path, O_CREAT | O_RDWR)
OpenSidecar(t) ==
    /\ ProcOf[t] \in alive /\ ~Nests(t)
    /\ fd[t] = None
    /\ path' \in IF path = None THEN FreeInodes ELSE {path}
    /\ fd' = [fd EXCEPT ![t] = path']
    /\ refs' = [refs EXCEPT ![t] = {ProcOf[t]}]
    /\ mark' = [mark EXCEPT ![t] = None]
    /\ UNCHANGED <<locks, alive, depth>>

\* Variant: a lock that is held is not noticed.
LockAnyway(t) ==
    /\ fd[t] # None /\ depth[t] = 0
    /\ locks' = [locks EXCEPT ![fd[t]] = refs[t]]
    /\ mark' = [mark EXCEPT ![t] = ProcOf[t]]
    /\ depth' = [depth EXCEPT ![t] = 1]
    /\ UNCHANGED <<path, alive, fd, refs>>

\* flock(fd, LOCK_EX | LOCK_NB) succeeds.
Lock(t) ==
    /\ fd[t] # None /\ depth[t] = 0
    /\ locks[fd[t]] = {}
    /\ locks' = [locks EXCEPT ![fd[t]] = refs[t]]
    /\ mark' = [mark EXCEPT ![t] = ProcOf[t]]
    /\ depth' = [depth EXCEPT ![t] = 1]
    /\ UNCHANGED <<path, alive, fd, refs>>

\* It does not: BuildInProgressError, at once.
LockRefused(t) ==
    /\ fd[t] # None /\ depth[t] = 0
    /\ locks[fd[t]] # {}
    /\ fd' = [fd EXCEPT ![t] = None]
    /\ refs' = [refs EXCEPT ![t] = {}]
    /\ UNCHANGED <<path, locks, alive, mark, depth>>

\* A nested block ends.
ExitNested(t) ==
    /\ depth[t] > 1
    /\ depth' = [depth EXCEPT ![t] = @ - 1]
    /\ UNCHANGED <<path, locks, alive, fd, refs, mark>>

\* Variant: the sidecar is unlinked with the lock.
ExitUnlinks(t) ==
    /\ depth[t] = 1
    /\ path' = None
    /\ depth' = [depth EXCEPT ![t] = 0]
    /\ mark' = [mark EXCEPT ![t] = None]
    /\ locks' = [locks EXCEPT ![fd[t]] = @ \ {ProcOf[t]}]
    /\ fd' = [fd EXCEPT ![t] = None]
    /\ refs' = [refs EXCEPT ![t] = {}]
    /\ UNCHANGED alive

\* The outermost block ends: the path leaves the set and os.close(fd) gives the
\* lock up, unless a forked child still has the file open.
Exit(t) ==
    /\ depth[t] = 1
    /\ depth' = [depth EXCEPT ![t] = 0]
    /\ mark' = [mark EXCEPT ![t] = None]
    /\ locks' = [locks EXCEPT ![fd[t]] = @ \ {ProcOf[t]}]
    /\ fd' = [fd EXCEPT ![t] = None]
    /\ refs' = [refs EXCEPT ![t] = {}]
    /\ UNCHANGED <<path, alive>>

-----------------------------------------------------------------------------
(* Processes.                                                              *)

\* Assumed of the system: a pid is not given out again while a set that a fork
\* copied still names it.
FreePids == {p \in Procs \ alive : \A t \in Threads : mark[t] # p}

Start(p) ==
    /\ p \in FreePids
    /\ alive' = alive \cup {p}
    /\ UNCHANGED <<path, locks, fd, refs, mark, depth>>

\* Thread t forks: thread u of the new process has t's thread-local set, and the
\* process every file that t's process has open.
Fork(t, u) ==
    LET parent == ProcOf[t]
        child  == ProcOf[u]
        With(S) == IF parent \in S THEN S \cup {child} ELSE S
    IN  /\ parent \in alive /\ child \in FreePids
        /\ alive' = alive \cup {child}
        /\ mark' = [mark EXCEPT ![u] = mark[t]]
        /\ locks' = [i \in Inodes |-> With(locks[i])]
        /\ refs' = [v \in Threads |-> With(refs[v])]
        /\ UNCHANGED <<path, fd, depth>>

\* The process ends; the system closes its files.
Die(p) ==
    /\ p \in alive
    /\ alive' = alive \ {p}
    /\ fd' = [t \in Threads |-> IF t \in ThreadsOf(p) THEN None ELSE fd[t]]
    /\ mark' = [t \in Threads |-> IF t \in ThreadsOf(p) THEN None ELSE mark[t]]
    /\ depth' = [t \in Threads |-> IF t \in ThreadsOf(p) THEN 0 ELSE depth[t]]
    /\ refs' = [t \in Threads |-> IF t \in ThreadsOf(p) THEN {} ELSE refs[t] \ {p}]
    /\ locks' = [i \in Inodes |-> locks[i] \ {p}]
    /\ UNCHANGED path

-----------------------------------------------------------------------------

\* The sidecar may be left from an earlier build.
Init ==
    /\ path \in Inodes \cup {None}
    /\ locks = [i \in Inodes |-> {}]
    /\ alive = {}
    /\ fd = [t \in Threads |-> None]
    /\ refs = [t \in Threads |-> {}]
    /\ mark = [t \in Threads |-> None]
    /\ depth = [t \in Threads |-> 0]

Enter(t) == EnterNested(t) \/ OpenSidecar(t) \/ Lock(t) \/ LockRefused(t)

Leave(t) == ExitNested(t) \/ Exit(t)

Next ==
    \/ \E t \in Threads : Enter(t) \/ Leave(t)
    \/ \E p \in Procs : Start(p) \/ Die(p)
    \/ \E t, u \in Threads : Fork(t, u)

Spec == Init /\ [][Next]_vars

-----------------------------------------------------------------------------
(* Properties.                                                             *)

Inside(t) == depth[t] > 0

\* Code of two threads, of one process, of unrelated processes or of a process and
\* its fork, is never inside the lease at the same time.
MutualExclusion == \A t, u \in Threads : Inside(t) /\ Inside(u) => t = u

\* The lease lasts until its outermost block ends: whoever is inside has the lock
\* of the very file that a newcomer would open, so the newcomer is refused.
InsideHasTheLock ==
    \A t \in Threads : Inside(t) => path # None /\ ProcOf[t] \in locks[path]

\* The lease as its callers see it.
owner == IF \E t \in Threads : Inside(t)
         THEN CHOOSE t \in Threads : Inside(t) ELSE None

Abstract == INSTANCE Lease WITH Threads <- Threads, None <- None, owner <- owner

ImplementsLease == Abstract!Spec

\* What makes both inductive: nobody has a file open but the one the path names, a
\* process appears in a lock only through a file it shares, and a thread-local set
\* that is valid in this process belongs to a thread that is inside.
LeaseInv ==
    /\ TypeOK
    /\ MutualExclusion
    /\ \A t \in Threads :
         /\ fd[t] # None => fd[t] = path
         /\ Inside(t) => fd[t] # None /\ ProcOf[t] \in locks[fd[t]]
         /\ mark[t] = ProcOf[t] => Inside(t)
         /\ fd[t] # None => ProcOf[t] \in refs[t]
         /\ ProcOf[t] \notin alive => fd[t] = None /\ mark[t] = None /\ depth[t] = 0
    /\ \A i \in Inodes : locks[i] \subseteq alive
    /\ \A t \in Threads : refs[t] \subseteq alive

=============================================================================
