------------------------- MODULE OutputLeaseProofs -------------------------
(***************************************************************************)
(* LeaseInv is inductive, so the lease excludes for any number of          *)
(* processes and threads, and OutputLease implements Lease.                *)
(***************************************************************************)
EXTENDS OutputLease, TLAPS

\* The sidecar is free or new at first, and nobody is inside.
LEMMA LeaseInit == Init => LeaseInv
  BY LeaseAssumption DEF Init, LeaseInv, TypeOK, MutualExclusion, Inside

\* Entering: only flock can let a second thread in, and it looks at the file that
\* whoever is inside has locked.
LEMMA EnterKeepsInv ==
    ASSUME LeaseInv, NEW t \in Threads, Enter(t)
    PROVE  LeaseInv'
<1> USE LeaseAssumption
<1>1. CASE EnterNested(t)
  BY <1>1 DEF EnterNested, LeaseInv, TypeOK, MutualExclusion, Inside, Nests
<1>2. CASE OpenSidecar(t)
  <2>1. depth[t] = 0
    BY <1>2 DEF OpenSidecar, LeaseInv, TypeOK, Inside, Nests
  <2>2. path' \in Inodes /\ (path # None => path' = path)
    BY <1>2 DEF OpenSidecar, LeaseInv, TypeOK, FreeInodes
  <2>3. \A v \in Threads : fd'[v] # None => fd'[v] = path'
    BY <1>2, <2>2 DEF OpenSidecar, LeaseInv, TypeOK
  <2>4. QED
    BY <1>2, <2>1, <2>2, <2>3
    DEF OpenSidecar, LeaseInv, TypeOK, MutualExclusion, Inside, Nests
<1>3. CASE Lock(t)
  <2>1. \A u \in Threads : depth[u] = 0
    BY <1>3 DEF Lock, LeaseInv, TypeOK, Inside
  <2>2. ProcOf[t] \in alive
    BY <1>3 DEF Lock, LeaseInv, TypeOK
  <2>3. QED
    BY <1>3, <2>1, <2>2 DEF Lock, LeaseInv, TypeOK, MutualExclusion, Inside
<1>4. CASE LockRefused(t)
  BY <1>4 DEF LockRefused, LeaseInv, TypeOK, MutualExclusion, Inside
<1>5. QED
  BY <1>1, <1>2, <1>3, <1>4 DEF Enter

\* Leaving: the thread that closes the file was the only one inside.
LEMMA LeaveKeepsInv ==
    ASSUME LeaseInv, NEW t \in Threads, Leave(t)
    PROVE  LeaseInv'
<1> USE LeaseAssumption
<1>1. CASE ExitNested(t)
  BY <1>1 DEF ExitNested, LeaseInv, TypeOK, MutualExclusion, Inside
<1>2. CASE Exit(t)
  <2>1. \A u \in Threads : u # t => depth[u] = 0
    BY <1>2 DEF Exit, LeaseInv, TypeOK, MutualExclusion, Inside
  <2>2. QED
    BY <1>2, <2>1 DEF Exit, LeaseInv, TypeOK, MutualExclusion, Inside
<1>3. QED
  BY <1>1, <1>2 DEF Leave

\* A new process is inside nothing, whatever it was forked from.
LEMMA ForkKeepsInv ==
    ASSUME LeaseInv, NEW t \in Threads, NEW u \in Threads, Fork(t, u)
    PROVE  LeaseInv'
<1> USE LeaseAssumption
<1>1. /\ ProcOf[t] \in alive /\ ProcOf[u] \in Procs /\ ProcOf[u] \notin alive
      /\ mark[t] # ProcOf[u]
      /\ alive' = alive \cup {ProcOf[u]}
      /\ mark' = [mark EXCEPT ![u] = mark[t]]
      /\ locks' = [i \in Inodes |-> IF ProcOf[t] \in locks[i]
                                    THEN locks[i] \cup {ProcOf[u]} ELSE locks[i]]
      /\ refs' = [v \in Threads |-> IF ProcOf[t] \in refs[v]
                                    THEN refs[v] \cup {ProcOf[u]} ELSE refs[v]]
      /\ UNCHANGED <<path, fd, depth>>
  BY DEF Fork, FreePids, LeaseInv, TypeOK
<1>2. TypeOK'
  BY <1>1 DEF LeaseInv, TypeOK
<1>3. MutualExclusion'
  BY <1>1 DEF LeaseInv, MutualExclusion, Inside
<1>4. \A v \in Threads :
        /\ fd'[v] # None => fd'[v] = path'
        /\ Inside(v)' => fd'[v] # None /\ ProcOf[v] \in locks'[fd'[v]]
        /\ fd'[v] # None => ProcOf[v] \in refs'[v]
  BY <1>1 DEF LeaseInv, TypeOK, Inside
<1>5. \A v \in Threads :
        /\ mark'[v] = ProcOf[v] => Inside(v)'
        /\ ProcOf[v] \notin alive' => fd'[v] = None /\ mark'[v] = None /\ depth'[v] = 0
  BY <1>1 DEF LeaseInv, TypeOK, Inside
<1>6. /\ \A i \in Inodes : locks'[i] \subseteq alive'
      /\ \A v \in Threads : refs'[v] \subseteq alive'
  BY <1>1 DEF LeaseInv, TypeOK
<1>7. QED
  BY <1>2, <1>3, <1>4, <1>5, <1>6 DEF LeaseInv

\* A process that starts or ends takes nobody else's lock.
LEMMA ProcessKeepsInv ==
    ASSUME LeaseInv, NEW p \in Procs, Start(p) \/ Die(p)
    PROVE  LeaseInv'
<1> USE LeaseAssumption
<1>1. CASE Start(p)
  BY <1>1 DEF Start, FreePids, LeaseInv, TypeOK, MutualExclusion, Inside
<1>2. CASE Die(p)
  <2>1. \A v \in Threads :
          IF ProcOf[v] = p
          THEN fd'[v] = None /\ mark'[v] = None /\ depth'[v] = 0 /\ refs'[v] = {}
          ELSE fd'[v] = fd[v] /\ mark'[v] = mark[v] /\ depth'[v] = depth[v]
               /\ refs'[v] = refs[v] \ {p}
    BY <1>2 DEF Die, ThreadsOf
  <2>2. TypeOK'
    BY <1>2, <2>1 DEF Die, LeaseInv, TypeOK
  <2>3. MutualExclusion'
    BY <2>1 DEF LeaseInv, MutualExclusion, Inside
  <2>4. \A v \in Threads :
          /\ fd'[v] # None => fd'[v] = path'
          /\ Inside(v)' => fd'[v] # None /\ ProcOf[v] \in locks'[fd'[v]]
          /\ mark'[v] = ProcOf[v] => Inside(v)'
          /\ fd'[v] # None => ProcOf[v] \in refs'[v]
          /\ ProcOf[v] \notin alive' => fd'[v] = None /\ mark'[v] = None /\ depth'[v] = 0
    BY <1>2, <2>1 DEF Die, LeaseInv, TypeOK, Inside
  <2>5. /\ \A i \in Inodes : locks'[i] \subseteq alive'
        /\ \A v \in Threads : refs'[v] \subseteq alive'
    BY <1>2, <2>1 DEF Die, LeaseInv, TypeOK
  <2>6. QED
    BY <2>2, <2>3, <2>4, <2>5 DEF LeaseInv
<1>3. QED
  BY <1>1, <1>2

LEMMA NextKeepsInv == LeaseInv /\ [Next]_vars => LeaseInv'
<1> SUFFICES ASSUME LeaseInv, [Next]_vars PROVE LeaseInv'
  OBVIOUS
<1>1. CASE UNCHANGED vars
  BY <1>1 DEF vars, LeaseInv, TypeOK, MutualExclusion, Inside
<1>2. CASE Next
  BY <1>2, EnterKeepsInv, LeaveKeepsInv, ForkKeepsInv, ProcessKeepsInv DEF Next
<1>3. QED
  BY <1>1, <1>2

\* The inductive invariant holds in every reachable state.
THEOREM LeaseInvariant == Spec => []LeaseInv
  BY LeaseInit, NextKeepsInv, PTL DEF Spec

\* No two threads, of whatever processes, are inside the lease of one output.
THEOREM Exclusion == Spec => []MutualExclusion
<1>1. LeaseInv => MutualExclusion
  BY DEF LeaseInv
<1>2. QED
  BY <1>1, LeaseInvariant, PTL

\* Whoever is inside holds the lock of the file that a newcomer would open.
THEOREM Locked == Spec => []InsideHasTheLock
<1>1. LeaseInv => InsideHasTheLock
  BY LeaseAssumption DEF LeaseInv, TypeOK, InsideHasTheLock, Inside
<1>2. QED
  BY <1>1, LeaseInvariant, PTL

-----------------------------------------------------------------------------
(* Refinement.                                                             *)

\* The owner is a thread exactly if somebody is inside, and that thread is known.
LEMMA OwnerKnown ==
    ASSUME LeaseInv
    PROVE  /\ (\E t \in Threads : Inside(t)) <=> owner \in Threads
           /\ (\A t \in Threads : ~Inside(t)) <=> owner = None
           /\ \A t \in Threads : Inside(t) => owner = t
  BY LeaseAssumption DEF LeaseInv, MutualExclusion, owner

\* Nobody comes in while another is inside, nor in the step in which he leaves.
LEMMA OthersStayOut ==
    ASSUME LeaseInv, [Next]_vars, NEW t \in Threads, NEW u \in Threads,
           Inside(t), u # t
    PROVE  ~Inside(u)'
<1> USE LeaseAssumption
<1>1. depth[u] = 0 /\ locks[path] # {} /\ (fd[u] # None => fd[u] = path)
  BY DEF LeaseInv, TypeOK, MutualExclusion, Inside
<1>2. CASE UNCHANGED vars
  BY <1>1, <1>2 DEF vars, Inside
<1>3. ASSUME NEW v \in Threads, Enter(v) PROVE depth'[u] = 0
  BY <1>1, <1>3 DEF Enter, EnterNested, OpenSidecar, Lock, LockRefused, Nests,
                    LeaseInv, TypeOK, Inside
<1>4. ASSUME NEW v \in Threads, Leave(v) PROVE depth'[u] = 0
  BY <1>1, <1>4 DEF Leave, ExitNested, Exit, LeaseInv, TypeOK
<1>5. ASSUME NEW p \in Procs, Start(p) \/ Die(p) PROVE depth'[u] = 0
  BY <1>1, <1>5 DEF Start, Die
<1>6. ASSUME NEW v \in Threads, NEW w \in Threads, Fork(v, w) PROVE depth'[u] = 0
  BY <1>1, <1>6 DEF Fork
<1>7. QED
  BY <1>2, <1>3, <1>4, <1>5, <1>6 DEF Next, Inside

\* A step after which somebody else would own the lease starts or ends ownership.
LEMMA StepRefines ==
    ASSUME LeaseInv, LeaseInv', [Next]_vars
    PROVE  [Abstract!Acquire \/ Abstract!Release]_owner
<1> USE LeaseAssumption
<1>1. CASE \A t \in Threads : ~Inside(t)
  <2>1. owner = None
    BY <1>1, OwnerKnown
  <2>2. owner' \in Threads \cup {None}
    BY DEF owner
  <2>3. QED
    BY <2>1, <2>2 DEF Abstract!Acquire
<1>2. CASE \E t \in Threads : Inside(t)
  <2>1. PICK t \in Threads : Inside(t)
    BY <1>2
  <2>2. owner = t
    BY <2>1, OwnerKnown
  <2>3. \A u \in Threads : Inside(u)' => u = t
    BY <2>1, OthersStayOut
  <2>4. CASE Inside(t)'
    <3>1. owner' = t
      BY <2>3, <2>4 DEF owner
    <3>2. QED
      BY <2>2, <3>1
  <2>5. CASE ~Inside(t)'
    <3>1. owner' = None
      BY <2>3, <2>5 DEF owner
    <3>2. QED
      BY <2>2, <3>1 DEF Abstract!Release
  <2>6. QED
    BY <2>4, <2>5
<1>3. QED
  BY <1>1, <1>2

\* The lease that the builds rely on (module Lease) is what the code provides.
THEOREM Implements == Spec => ImplementsLease
<1>1. Init => owner = None
  BY DEF Init, owner, Inside
<1>2. QED
  BY <1>1, LeaseInvariant, StepRefines, PTL DEF Spec, ImplementsLease, Abstract!Spec

=============================================================================
