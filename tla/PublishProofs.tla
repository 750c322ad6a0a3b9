--------------------------- MODULE PublishProofs ---------------------------
(***************************************************************************)
(* PublishInv is inductive for any number of processes, builds and pages.  *)
(* A resolve never replaces an output, whatever else goes on; and without  *)
(* a foreign log beside the output, what was published is what is read.    *)
(***************************************************************************)
EXTENDS Publish, TLAPS

LEMMA PublishInit == Init => PublishInv
  BY PublishAssumption DEF Init, PublishInv, TypeOK, Job, NoJob, NoPages, Absent

\* What a fold leaves in the main file.
Folded(j) ==
    j.file # {} /\ (j.kind = "resolve" \/ "busy" \notin Mishaps => j.file = Pages)

\* Taking the lease: nobody else builds.
LEMMA BeginKeepsInv ==
    ASSUME PublishInv, NEW p \in Procs, NEW b \in UnusedBuilds,
           BeginFresh(p, b) \/ BeginResolve(p, b)
    PROVE  PublishInv'
<1> USE PublishAssumption
<1>1. PICK k \in {"fresh", "resolve"} : Begin(p, k, b) /\ (k = "resolve" => Absent)
  BY DEF BeginFresh, BeginResolve
<1> DEFINE j == [NoJob EXCEPT !.at = "build", !.kind = k, !.build = b]
<1>2. /\ j \in Job /\ j.at = "build" /\ j.kind = k /\ j.build = b
      /\ b \in Builds
  BY DEF Job, NoJob, UnusedBuilds
<1>3. /\ job' = [job EXCEPT ![p] = j] /\ lease' = p /\ lease = None
      /\ UNCHANGED <<main, log, writer, told>>
      /\ Mishaps = {} => writer = None /\ log = NoPages
  BY <1>1 DEF Begin, Undisturbed
<1> HIDE DEF j
<1>4. \A q \in Procs : job[q].at = "idle"
  BY <1>3 DEF PublishInv
<1>5. TypeOK'
  BY <1>2, <1>3 DEF PublishInv, TypeOK
<1>6. \A q \in Procs : job'[q] = IF q = p THEN j ELSE job[q]
  BY <1>3 DEF PublishInv, TypeOK
<1>7. Absent' <=> Absent
  BY <1>3 DEF Absent, NoPages
<1>8. QED
  BY <1>1, <1>2, <1>3, <1>4, <1>5, <1>6, <1>7 DEF PublishInv, NoPages

\* Steps inside the temporary file touch nothing but the record of their process.
LEMMA TempKeepsInv ==
    ASSUME PublishInv, NEW p \in Procs,
           (\E g \in Pages : Populate(p, g)) \/ Gate(p) \/ Fold(p) \/ Drop(p) \/ Recheck(p)
    PROVE  PublishInv'
<1> USE PublishAssumption
<1>1. UNCHANGED <<main, log, lease, writer, told>>
  BY DEF Populate, Gate, Fold, Drop, Recheck
<1>2. Absent' <=> Absent
  BY <1>1 DEF Absent, NoPages
<1>3. job[p] \in Job
  BY DEF PublishInv, TypeOK
<1>4. \E j \in Job :
        /\ job' = [job EXCEPT ![p] = j]
        /\ j.at \notin {"idle", "cleanup"} /\ job[p].at \notin {"idle", "cleanup"}
        /\ j.kind = job[p].kind /\ j.build = job[p].build
        /\ j.at = "fold" => j.log = Pages
        /\ j.at \in {"drop", "recheck", "replace"} => Folded(j)
  <2>1. ASSUME NEW g \in Pages, Populate(p, g) PROVE <1>4
    <3> DEFINE j == [job[p] EXCEPT !.log = job[p].log \cup {g}]
    <3>1. j \in Job /\ j.at = "build" /\ j.kind = job[p].kind /\ j.build = job[p].build
      BY <1>3, <2>1 DEF Job, Populate
    <3>2. job' = [job EXCEPT ![p] = j] /\ job[p].at = "build"
      BY <2>1 DEF Populate
    <3> HIDE DEF j
    <3>3. QED
      BY <3>1, <3>2
  <2>2. CASE Gate(p)
    <3> DEFINE j == [job[p] EXCEPT !.at = "fold"]
    <3>1. /\ j \in Job /\ j.at = "fold" /\ j.kind = job[p].kind
          /\ j.build = job[p].build /\ j.log = Pages
      BY <1>3, <2>2 DEF Job, Gate
    <3>2. job' = [job EXCEPT ![p] = j] /\ job[p].at = "build"
      BY <2>2 DEF Gate
    <3> HIDE DEF j
    <3>3. QED
      BY <3>1, <3>2
  <2>3. CASE Fold(p)
    <3>1. PICK left \in SUBSET job[p].log :
            /\ left # {} =>
                 "busy" \in Mishaps /\ job[p].kind = "fresh" /\ left # job[p].log
            /\ job' = [job EXCEPT ![p].at = "drop", ![p].log = left,
                                  ![p].file = @ \cup (job[p].log \ left)]
      BY <2>3 DEF Fold
    <3>2. job[p].at = "fold" /\ job[p].log = Pages
      BY <2>3 DEF Fold, PublishInv
    <3> DEFINE f == job[p].file \cup (job[p].log \ left)
               j == [job[p] EXCEPT !.at = "drop", !.log = left, !.file = f]
    <3>3. f \in SUBSET Pages /\ f # {} /\ (left = {} => f = Pages)
      BY <1>3, <3>1, <3>2 DEF Job
    <3>4. job' = [job EXCEPT ![p] = j]
      BY <3>1
    <3> HIDE DEF f
    <3>5. /\ j \in Job /\ j.at = "drop" /\ j.kind = job[p].kind /\ j.build = job[p].build
          /\ j.file = f
      BY <1>3, <3>1, <3>2, <3>3 DEF Job
    <3> HIDE DEF j
    <3>6. Folded(j)
      BY <3>1, <3>3, <3>5 DEF Folded
    <3>7. QED
      BY <3>2, <3>4, <3>5, <3>6
  <2>4. CASE Drop(p)
    <3> DEFINE a == IF job[p].kind = "resolve" THEN "recheck" ELSE "replace"
               j == [job[p] EXCEPT !.log = {}, !.at = a]
    <3>1. /\ j \in Job /\ j.at \in {"recheck", "replace"} /\ j.kind = job[p].kind
          /\ j.build = job[p].build /\ Folded(j)
      BY <1>3, <2>4 DEF Job, Drop, PublishInv, Folded
    <3>2. job' = [job EXCEPT ![p] = j] /\ job[p].at = "drop"
      BY <2>4 DEF Drop
    <3> HIDE DEF j
    <3>3. QED
      BY <3>1, <3>2
  <2>5. CASE Recheck(p)
    <3> DEFINE j == [job[p] EXCEPT !.at = "replace"]
    <3>1. /\ j \in Job /\ j.at = "replace" /\ j.kind = job[p].kind
          /\ j.build = job[p].build /\ Folded(j)
      BY <1>3, <2>5 DEF Job, Recheck, PublishInv, Folded
    <3>2. job' = [job EXCEPT ![p] = j] /\ job[p].at = "recheck"
      BY <2>5 DEF Recheck
    <3> HIDE DEF j
    <3>3. QED
      BY <3>1, <3>2
  <2>6. QED
    BY <2>1, <2>2, <2>3, <2>4, <2>5
<1>5. PICK j \in Job :
        /\ job' = [job EXCEPT ![p] = j]
        /\ j.at \notin {"idle", "cleanup"} /\ job[p].at \notin {"idle", "cleanup"}
        /\ j.kind = job[p].kind /\ j.build = job[p].build
        /\ j.at = "fold" => j.log = Pages
        /\ j.at \in {"drop", "recheck", "replace"} => Folded(j)
  BY <1>4
<1>6. TypeOK'
  BY <1>1, <1>5 DEF PublishInv, TypeOK
<1>7. \A q \in Procs : job'[q] = IF q = p THEN j ELSE job[q]
  BY <1>5 DEF PublishInv, TypeOK
<1>8. QED
  BY <1>1, <1>2, <1>5, <1>6, <1>7 DEF PublishInv, NoPages, Folded

\* The file that is moved is a database, so the output exists from then on.
LEMMA ReplaceKeepsInv ==
    ASSUME PublishInv, NEW p \in Procs, Replace(p)
    PROVE  PublishInv'
<1> USE PublishAssumption
<1> DEFINE j == [job[p] EXCEPT !.at = "cleanup"]
<1>1. /\ job[p] \in Job /\ job[p].at = "replace" /\ job[p].file # {}
      /\ job[p].file \subseteq Pages /\ (Mishaps = {} => job[p].file = Pages)
      /\ job[p].build \in Builds /\ lease = p
  BY DEF Replace, PublishInv, TypeOK, Job
<1>2. /\ main' = [g \in Pages |-> IF g \in job[p].file THEN job[p].build ELSE None]
      /\ told' = job[p].build
      /\ UNCHANGED <<log, lease, writer>>
  BY <1>1 DEF Replace
<1>3. j \in Job /\ j.at = "cleanup" /\ job' = [job EXCEPT ![p] = j]
  <2>1. j \in Job /\ j.at = "cleanup"
    BY <1>1 DEF Job
  <2>2. job' = [job EXCEPT ![p] = j]
    BY DEF Replace
  <2>3. QED
    BY <2>1, <2>2
<1> HIDE DEF j
<1>4. \A q \in Procs : job'[q] = IF q = p THEN j ELSE job[q]
  BY <1>3 DEF PublishInv, TypeOK
<1>5. \A q \in Procs : q # p => job[q].at = "idle"
  BY <1>1 DEF PublishInv
<1>6. TypeOK'
  BY <1>1, <1>2, <1>3 DEF PublishInv, TypeOK
<1>7. ~Absent'
  BY <1>1, <1>2 DEF Absent, NoPages
<1>8. Mishaps = {} => writer = None /\ log = NoPages
  BY <1>1 DEF PublishInv
<1>9. QED
  BY <1>1, <1>2, <1>3, <1>4, <1>5, <1>6, <1>7, <1>8 DEF PublishInv, NoPages

\* A command that ends gives the lease back.
LEMMA EndKeepsInv ==
    ASSUME PublishInv, NEW p \in Procs, Done(p) \/ Stop(p)
    PROVE  PublishInv'
<1> USE PublishAssumption
<1>1. /\ job' = [job EXCEPT ![p] = NoJob] /\ lease' = None /\ job[p].at # "idle"
      /\ UNCHANGED <<main, log, writer, told>>
  BY DEF Done, Stop
<1>2. NoJob \in Job /\ NoJob.at = "idle"
  BY DEF Job, NoJob
<1>3. \A q \in Procs : q # p => job[q].at = "idle"
  BY <1>1 DEF PublishInv
<1>4. \A q \in Procs : job'[q] = IF q = p THEN NoJob ELSE job[q]
  BY <1>1 DEF PublishInv, TypeOK
<1>5. TypeOK'
  BY <1>1, <1>2 DEF PublishInv, TypeOK
<1>6. Absent' <=> Absent
  BY <1>1 DEF Absent, NoPages
<1>7. QED
  BY <1>1, <1>2, <1>3, <1>4, <1>5, <1>6 DEF PublishInv, NoPages

\* Writing in place never removes an output, and without mishaps it happens only
\* between builds and to the database that was published last.
LEMMA WriterKeepsInv ==
    ASSUME PublishInv, Writer
    PROVE  PublishInv'
<1> USE PublishAssumption
<1>1. UNCHANGED <<lease, job, told>>
  BY DEF Writer, Open, Write, Close, Kill
<1>2. CASE Open
  BY <1>1, <1>2 DEF Open, PublishInv, TypeOK, Absent, NoPages
<1>3. ASSUME NEW g \in Pages, Write(g) PROVE PublishInv'
  <2>1. /\ log' = [log EXCEPT ![g] = writer] /\ writer # None
        /\ UNCHANGED <<main, writer>>
    BY <1>3 DEF Write
  <2>2. (Absent' <=> Absent) /\ TypeOK'
    BY <1>1, <2>1 DEF PublishInv, TypeOK, Absent, NoPages
  <2>3. QED
    BY <1>1, <2>1, <2>2 DEF PublishInv, TypeOK, NoPages
<1>4. CASE Close
  <2>1. writer # None /\ writer' = None /\ log' = NoPages /\ ~Absent
    BY <1>4 DEF Close, PublishInv
  <2>2. main' = View \/ main' = main
    BY <1>4 DEF Close
  <2>3. PICK g \in Pages : main[g] # None
    BY <2>1 DEF Absent, NoPages, PublishInv, TypeOK
  <2>4. ~Absent'
    BY <2>2, <2>3 DEF Absent, NoPages, View
  <2>5. TypeOK'
    BY <1>1, <2>1, <2>2 DEF PublishInv, TypeOK, View, NoPages
  <2>6. Mishaps = {} => \A h \in Pages : main'[h] = told
    BY <2>2 DEF PublishInv, View
  <2>7. QED
    BY <1>1, <2>1, <2>4, <2>5, <2>6 DEF PublishInv, NoPages
<1>5. CASE Kill
  BY <1>1, <1>5 DEF Kill, PublishInv, TypeOK, Absent, NoPages
<1>6. QED
  BY <1>2, <1>3, <1>4, <1>5 DEF Writer

LEMMA PublishNext == PublishInv /\ [Next]_vars => PublishInv'
<1> SUFFICES ASSUME PublishInv, [Next]_vars PROVE PublishInv'
  OBVIOUS
<1>1. CASE UNCHANGED vars
  BY <1>1 DEF vars, PublishInv, TypeOK, Absent, NoPages
<1>2. ASSUME NEW p \in Procs, Builder(p) PROVE PublishInv'
  BY <1>2, BeginKeepsInv, TempKeepsInv, ReplaceKeepsInv, EndKeepsInv DEF Builder
<1>3. QED
  BY <1>1, <1>2, WriterKeepsInv DEF Next

\* The inductive invariant holds in every reachable state.
THEOREM PublishInvariant == Spec => []PublishInv
  BY PublishInit, PublishNext, PTL DEF Spec

\* Without mishaps, whoever opens the output after a command has replaced it reads
\* that build and nothing else.
THEOREM ReplacementRead == Mishaps = {} => (Spec => []ReplacementIsRead)
<1> SUFFICES ASSUME Mishaps = {} PROVE Spec => []ReplacementIsRead
  OBVIOUS
<1>1. PublishInv => ReplacementIsRead
  BY DEF PublishInv, ReplacementIsRead, View
<1>2. QED
  BY <1>1, PublishInvariant, PTL

\* `icarus resolve` replaces no output, with or without mishaps.
THEOREM ResolveKeeps == Spec => ResolveKeepsOutputs
<1>1. PublishInv /\ [Next]_vars =>
        [\A p \in Procs :
           job[p].kind = "resolve" /\ job[p].at = "replace" /\ job'[p].at = "cleanup"
             => Absent]_vars
  BY DEF PublishInv
<1>2. QED
  BY <1>1, PublishInvariant, PTL DEF Spec, ResolveKeepsOutputs

=============================================================================
