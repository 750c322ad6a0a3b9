------------------------------ MODULE Pipeline ------------------------------
(***************************************************************************)
(* The build protocol of icarus/core/pipeline.py: one output database, its *)
(* private checkpoint database beside it, and the process that drives a    *)
(* sequence of phases over the two.  The two databases share no            *)
(* transaction, so every commit to either one is an action of its own and  *)
(* the process may die between any two of them.  The output lease makes    *)
(* builds of one output exclusive (module OutputLease), so one process at  *)
(* a time is modelled.                                                     *)
(*                                                                         *)
(* Phases are numbered 1..N here and 0..N-1 in the code.                   *)
(***************************************************************************)
EXTENDS Naturals, Sequences

CONSTANTS
    N,              \* the number of phases
    Kind,           \* Kind[i]: what the handler of phase i does
    Inputs,         \* builds told apart by source, parser and config
    Tokens,         \* the supply of run ids (uuid4) and private keys
    None,           \* Python's None, where a token or an input is expected
    Entries,        \* the ways a caller starts a build: "cli", "api", "rerun"
    StartPhases,    \* the start_phase arguments used; 0 stands for None
    Interventions,  \* what the user does to the files between builds
    LegacyBuilds,   \* whether an older release may have left a crashed build
    MaxFaults,      \* bound on crashes and exceptions
    MaxVersions     \* bound on the rows of the versions table

Kinds == {"init", "parser", "verify", "resolve", "sanitize", "skip"}

ASSUME ConstantsAssumption ==
    /\ N \in Nat \ {0}
    /\ Kind \in [1..N -> Kinds]
    /\ None \notin Tokens \cup Inputs
    /\ Entries \subseteq {"cli", "api", "rerun"}
    /\ StartPhases \subseteq 0..N
    /\ Interventions \subseteq {"fresh", "remove_output", "remove_checkpoint"}
    /\ LegacyBuilds \in BOOLEAN
    /\ MaxFaults \in Nat
    /\ MaxVersions \in Nat

VARIABLES
    file,      \* output: "absent", "partial" (schema being created), "full"
    versions,  \* output: the versions table; a row's position is its id
    trust,     \* output: what sanitization_status says of the markers
    raw,       \* output: TRUE iff the scan would find unsanitized content
    work,      \* output: how much of phase i's result for the newest version
    sidecar,   \* checkpoint file: "absent", "empty" (no tables yet), "written"
    meta,      \* checkpoint: the checkpoint_meta table
    status,    \* checkpoint: the checkpoints table, one status per phase
    pc,        \* the commit the running process makes next; "idle" if none runs
    ctx,       \* the Pipeline object in that process's memory
    outcome,   \* how the last build ended; "died" if nobody closed the output
    faults     \* crashes and exceptions so far

output     == <<file, versions, trust, raw, work>>
checkpoint == <<sidecar, meta, status>>
vars == <<file, versions, trust, raw, work, sidecar, meta, status,
          pc, ctx, outcome, faults>>

Phases == 1..N

\* A row of the versions table.  Its public identity is the HMAC of the run and
\* the source under a key; key = None stands for the older unkeyed digest.
Row == [run : Tokens, input : Inputs, key : Tokens \cup {None},
        completed : BOOLEAN]

Meta == [state : {"none", "legacy", "upgrading", "prepared", "bound"},
         run : Tokens \cup {None}, key : Tokens \cup {None},
         input : Inputs \cup {None}, ver : Nat, resan : BOOLEAN]

NoMeta == [state |-> "none", run |-> None, key |-> None, input |-> None,
           ver |-> 0, resan |-> FALSE]

NoStatus == [i \in Phases |-> "none"]

NoWork == [i \in Phases |-> "none"]

Object == [live : BOOLEAN, input : Inputs \cup {None},
           run : Tokens \cup {None}, key : Tokens \cup {None}, ver : Nat,
           recover : BOOLEAN, upgrade : BOOLEAN, resan : BOOLEAN,
           fresh : Tokens \cup {None}, i : 1..(N + 1)]

NoObject == [live |-> FALSE, input |-> None, run |-> None, key |-> None,
             ver |-> 0, recover |-> FALSE, upgrade |-> FALSE, resan |-> FALSE,
             fresh |-> None, i |-> 1]

\* Where the process stands, by the commit or check it makes next.
Identifying == {"sidecar", "intent", "upgrade_intent", "upgrade_output"}
Creating    == {"create", "schema", "insert"}
InTry       == {"phase", "handler", "complete"}
Finishing   == {"gate", "audit", "gate_mark", "gate_save", "clear"}
PCs == {"idle"} \cup Identifying \cup Creating \cup {"revoke", "bind"} \cup InTry
       \cup {"failed", "mark"} \cup Finishing

TypeOK ==
    /\ file \in {"absent", "partial", "full"}
    /\ versions \in Seq(Row)
    /\ trust \in {"unknown", "verified", "failed", "skipped"}
    /\ raw \in BOOLEAN
    /\ work \in [Phases -> {"none", "partial", "done"}]
    /\ sidecar \in {"absent", "empty", "written"}
    /\ meta \in Meta
    /\ status \in [Phases -> {"none", "running", "complete", "failed"}]
    /\ pc \in PCs
    /\ ctx \in Object
    /\ outcome \in {"none", "done", "failed", "refused", "died"}
    /\ faults \in Nat

-----------------------------------------------------------------------------
(* What the code computes from the two databases before it writes.         *)

\* Variant: the resume point is one too far.
NextPhasePastLast(s) ==
    LET after == {k \in 1..(N + 1) : \A i \in Phases : i >= k => s[i] # "complete"}
    IN  1 + CHOOSE k \in after : \A j \in after : k <= j

\* Variant: every phase the checkpoint mentions counts as passed.
NextPhaseMentioned(s) ==
    LET after == {k \in 1..(N + 1) : \A i \in Phases : i >= k => s[i] = "none"}
    IN  CHOOSE k \in after : \A j \in after : k <= j

\* get_last_checkpoint() + 1: the first phase after every complete one.
\* Statuses other than 'complete' are not looked at.
NextPhase(s) ==
    LET after == {k \in 1..(N + 1) : \A i \in Phases : i >= k => s[i] # "complete"}
    IN  CHOOSE k \in after : \A j \in after : k <= j

SanitizeIndices == {i \in Phases : Kind[i] = "sanitize"}

\* The sanitize phase that a rewritten legacy identity sends the build back to.
FirstSanitize ==
    CHOOSE i \in SanitizeIndices : \A j \in SanitizeIndices : i <= j

\* The sanitize phase that a failed final gate marks as failed.
LastSanitize ==
    CHOOSE i \in SanitizeIndices : \A j \in SanitizeIndices : i >= j

RowsOf(run) == {v \in DOMAIN versions : versions[v].run = run}

\* _restore_prepared_identity: no phase has run, and the output holds either
\* nothing or the very version that the intent announced.
PreparedMatches(m) ==
    /\ status = NoStatus
    /\ \/ /\ RowsOf(m.run) # {}
          /\ \A v \in RowsOf(m.run) :
               versions[v].input = m.input /\ versions[v].key = m.key
       \/ versions = <<>>

\* Variant: an older, unkeyed identity is never accepted.
BoundMatchesKeyed(m) ==
    /\ m.ver \in DOMAIN versions
    /\ versions[m.ver].run = m.run
    /\ versions[m.ver].input = m.input
    /\ versions[m.ver].key # None /\ versions[m.ver].key = m.key

\* The rest of _restore_version_identity: the checkpoint names one versions row
\* of this output, with its run and its public identity.
BoundMatches(m) ==
    /\ m.ver \in DOMAIN versions
    /\ versions[m.ver].run = m.run
    /\ versions[m.ver].input = m.input
    /\ \/ versions[m.ver].key # None /\ versions[m.ver].key = m.key
       \/ versions[m.ver].key = None /\ m.state \in {"legacy", "upgrading"}

\* _validate_fingerprint and _restore_version_identity accept the checkpoint.
Restorable(m, a) ==
    /\ m.state # "none"
    /\ m.input = a
    /\ IF m.state = "prepared" THEN PreparedMatches(m) ELSE BoundMatches(m)

\* _checkpoint_owned_by_output: what a run without resume may discard.
OwnedByOutput ==
    /\ sidecar = "written"
    /\ meta.ver \in DOMAIN versions
    /\ versions[meta.ver].run = meta.run

\* Variant: a prepared intent is resumed without looking for the version row that
\* may already have been committed for it.
RestoredUnseen(c, m) ==
    LET r == [c EXCEPT !.run = m.run, !.key = m.key, !.resan = m.resan]
    IN  IF m.state = "prepared"
        THEN [r EXCEPT !.ver = 0, !.recover = RowsOf(m.run) = {}]
        ELSE [r EXCEPT !.ver = m.ver,
                       !.upgrade = m.state \in {"legacy", "upgrading"}]

\* Variant: the resumed object keeps the run id it was created with.
RestoredOwnRun(c, m) ==
    LET r == [c EXCEPT !.key = m.key, !.resan = m.resan]
    IN  IF m.state = "prepared"
        THEN [r EXCEPT !.ver = IF RowsOf(m.run) = {} THEN 0
                               ELSE CHOOSE v \in RowsOf(m.run) : TRUE,
                       !.recover = RowsOf(m.run) = {}]
        ELSE [r EXCEPT !.ver = m.ver,
                       !.upgrade = m.state \in {"legacy", "upgrading"}]

\* The Pipeline object after _restore_version_identity.  Each of the two flags is
\* assigned on one of its paths only; a reused object keeps the other.
Restored(c, m) ==
    LET r == [c EXCEPT !.run = m.run, !.key = m.key, !.resan = m.resan]
    IN  IF m.state = "prepared"
        THEN [r EXCEPT !.ver = IF RowsOf(m.run) = {} THEN 0
                               ELSE CHOOSE v \in RowsOf(m.run) : TRUE,
                       !.recover = RowsOf(m.run) = {}]
        ELSE [r EXCEPT !.ver = m.ver,
                       !.upgrade = m.state \in {"legacy", "upgrading"}]

\* Run ids and keys that nothing durable and no live object carries.
UsedTokens ==
    {meta.run, meta.key, ctx.run, ctx.key, ctx.fresh}
      \cup {versions[v].run : v \in DOMAIN versions}
      \cup {versions[v].key : v \in DOMAIN versions}

\* Pipeline.__init__: a new run id.  `fresh` is the key that token_bytes would
\* return, should this object need one.
NewObject(a, t) ==
    [NoObject EXCEPT !.live = TRUE, !.input = a, !.run = t, !.fresh = t]

\* The objects that a _restore_version_identity which raises may leave: none before the
\* fingerprint is compared, if this build has one; then the flag of an upgrade is taken
\* over before the inputs are compared, and a prepared identity before the output is.
Tried(c, m) ==
    LET flagged == [c EXCEPT !.resan = m.resan]
    IN  IF m.input # c.input THEN {c, flagged}
        ELSE IF m.state = "prepared" /\ status = NoStatus
        THEN {[flagged EXCEPT !.run = m.run, !.ver = 0, !.key = m.key, !.recover = FALSE]}
        ELSE {flagged}

\* The object outlives a failed or finished build only where a caller reuses it.
Kept(c) == IF "rerun" \in Entries THEN c ELSE NoObject

-----------------------------------------------------------------------------
(* Starting a build: Pipeline.run up to its first write.                   *)

\* Which write comes first once the identity is restored from the checkpoint.
FirstWrite(c) ==
    IF c.key = None \/ c.upgrade THEN "upgrade_intent"
    ELSE IF c.ver = 0 THEN "create" ELSE "revoke"

\* resume with a checkpoint present: validate it and take its identity over.
Resume(c, sp) ==
    /\ sidecar = "written"
    /\ Restorable(meta, c.input)
    /\ LET r == Restored(c, meta)
       IN  /\ ctx' = [r EXCEPT !.i = IF sp = 0 THEN NextPhase(status) ELSE sp]
           /\ pc' = FirstWrite(r)
    /\ UNCHANGED <<output, checkpoint, outcome, faults>>

\* No checkpoint to resume from, or one that the caller discards by resume=False
\* and that provably belongs to this output.
Start(c, sp) ==
    /\ c.ver # 0 \/ Len(versions) < MaxVersions
    /\ ctx' = [c EXCEPT !.i = IF sp = 0 THEN 1 ELSE sp]
    /\ pc' = "sidecar"
    /\ sidecar' = "absent" /\ meta' = NoMeta /\ status' = NoStatus
    /\ UNCHANGED <<output, outcome, faults>>

\* A check failed: the build raises and leaves every file as it found it, the object as c.
Refuse(c) ==
    /\ outcome' = IF outcome = "died" THEN "died" ELSE "refused"
    /\ ctx' = Kept(c)
    /\ UNCHANGED <<output, checkpoint, pc, faults>>

\* Pipeline.run(resume, start_phase) on the object c.
Run(c, resume, sp) ==
    \/ resume /\ Resume(c, sp)
    \/ resume /\ sidecar = "absent" /\ Start(c, sp)
    \/ ~resume /\ (sidecar = "absent" \/ OwnedByOutput) /\ Start(c, sp)
    \/ resume /\ sidecar = "empty" /\ Refuse(c)
    \/ /\ resume /\ sidecar = "written" /\ ~Restorable(meta, c.input)
       /\ \E d \in Tried(c, meta) : Refuse(d)
    \/ ~resume /\ sidecar # "absent" /\ ~OwnedByOutput /\ Refuse(c)

\* `icarus build` without --fresh: an output that exists is refused unless a
\* valid checkpoint shows that this very build was interrupted.
CliBuild(a, t) ==
    /\ "cli" \in Entries /\ pc = "idle"
    /\ IF file # "absent" /\ sidecar = "absent"
       THEN Refuse(NewObject(a, t))
       ELSE Run(NewObject(a, t), TRUE, 0)

\* A Python caller of Pipeline(...).run(resume, start_phase).
ApiBuild(a, t, resume, sp) ==
    /\ "api" \in Entries /\ pc = "idle"
    /\ Run(NewObject(a, t), resume, sp)

\* run() again on the object of an earlier call.
ApiRerun(resume, sp) ==
    /\ "rerun" \in Entries /\ pc = "idle" /\ ctx.live
    /\ Run(ctx, resume, sp)

-----------------------------------------------------------------------------
(* Establishing the run's identity before any content is written.          *)

\* _private_checkpoint_connection creates the file, owner-only, before SQLite
\* writes a page to it.
CreateSidecar ==
    /\ pc = "sidecar"
    /\ sidecar' = "empty"
    /\ pc' = "intent"
    /\ UNCHANGED <<output, meta, status, ctx, outcome, faults>>

\* Variant: the note that sanitization must be repeated is not kept.
IntentForgetful(state, c) ==
    [state |-> state, run |-> c.run, key |-> c.key, input |-> c.input,
     ver |-> c.ver, resan |-> FALSE]

\* The checkpoint_meta rows that _persist_identity_intent(state) commits.
Intent(state, c) ==
    [state |-> state, run |-> c.run, key |-> c.key, input |-> c.input,
     ver |-> c.ver, resan |-> meta.resan \/ state = "upgrading"]

\* Variant: a key that is already durable is replaced.
WithNewKey(c) == [c EXCEPT !.key = c.fresh]

WithKey(c) == IF c.key = None THEN [c EXCEPT !.key = c.fresh] ELSE c

\* _persist_identity_intent on a new checkpoint; an object that already has a
\* version proves at once that the output still holds it.
PersistIntent ==
    /\ pc = "intent"
    /\ LET c == WithKey(ctx)
           m == Intent(IF c.ver = 0 THEN "prepared" ELSE "bound", c)
       IN  /\ sidecar' = "written"
           /\ meta' = m
           /\ \/ c.ver = 0 /\ pc' = "create" /\ ctx' = c /\ UNCHANGED outcome
              \/ c.ver # 0 /\ Restorable(m, c.input)
                 /\ pc' = "revoke" /\ ctx' = c /\ UNCHANGED outcome
              \/ c.ver # 0 /\ ~Restorable(m, c.input)
                 /\ pc' = "idle" /\ ctx' = Kept(c) /\ outcome' = "refused"
    /\ UNCHANGED <<output, status, faults>>

\* Variant: the checkpoint calls itself bound before the output is rewritten.
UpgradeIntentEarly ==
    /\ pc = "upgrade_intent"
    /\ LET c == [WithKey(ctx) EXCEPT !.resan = TRUE]
       IN  ctx' = c /\ meta' = [Intent("upgrading", c) EXCEPT !.state = "bound"]
    /\ pc' = "upgrade_output"
    /\ UNCHANGED <<output, sidecar, status, outcome, faults>>

\* _upgrade_legacy_identity, first commit: the new key becomes durable while the
\* public identity is still the old one.
UpgradeIntent ==
    /\ pc = "upgrade_intent"
    /\ LET c == [WithKey(ctx) EXCEPT !.resan = TRUE]
       IN  ctx' = c /\ meta' = Intent("upgrading", c)
    /\ pc' = "upgrade_output"
    /\ UNCHANGED <<output, sidecar, status, outcome, faults>>

\* Variant: the markers survive the write.
KeptEvidence(t) == t

\* invalidate_sanitization: no marker survives, whatever it said.
Revoked(t) == "unknown"

\* Sanitized content that is written to again has to be sanitized again.
Unsanitized(w) ==
    [i \in Phases |-> IF Kind[i] = "sanitize" /\ w[i] = "done"
                      THEN "partial" ELSE w[i]]

\* _upgrade_legacy_identity, second commit: the HMAC replaces the old digest and
\* the evidence is revoked, in one transaction of the output; without the version
\* it raises, and connecting has created the file.
UpgradeOutput ==
    /\ pc = "upgrade_output"
    /\ \/ /\ ctx.ver \in DOMAIN versions
          /\ versions' = [versions EXCEPT ![ctx.ver].key = ctx.key]
          /\ trust' = Revoked(trust)
          /\ work' = Unsanitized(work)
          /\ ctx' = [ctx EXCEPT !.upgrade = FALSE]
          /\ pc' = "revoke"
          /\ UNCHANGED <<file, outcome>>
       \/ /\ ctx.ver \notin DOMAIN versions
          /\ file' = IF file = "absent" THEN "partial" ELSE file
          /\ ctx' = Kept(ctx)
          /\ pc' = "idle"
          /\ outcome' = "failed"
          /\ UNCHANGED <<versions, trust, work>>
    /\ UNCHANGED <<raw, checkpoint, faults>>

\* _create_version_record: initialize_database runs when the output is missing
\* or was left half created by the run being resumed.
CreateOutput ==
    /\ pc = "create"
    /\ \/ /\ file = "absent" \/ ctx.recover
          /\ file' = IF file = "full" THEN "full" ELSE "partial"
          /\ pc' = "schema"
       \/ /\ file # "absent" /\ ~ctx.recover
          /\ pc' = "insert"
          /\ UNCHANGED file
    /\ UNCHANGED <<versions, trust, raw, work, checkpoint, ctx, outcome, faults>>

CompleteSchema ==
    /\ pc = "schema"
    /\ file' = "full"
    /\ pc' = "insert"
    /\ UNCHANGED <<versions, trust, raw, work, checkpoint, ctx, outcome, faults>>

\* The versions row (its source_path is raw content) and the revocation commit
\* together.  They need two tables, which a half created output may have or not;
\* without them the build raises.
InsertVersion ==
    /\ pc = "insert"
    /\ \/ /\ versions' = Append(versions, [run |-> ctx.run, input |-> ctx.input,
                                           key |-> ctx.key, completed |-> FALSE])
          /\ trust' = Revoked(trust)
          /\ raw' \in {raw, TRUE}
          /\ work' = NoWork
          /\ ctx' = [ctx EXCEPT !.ver = Len(versions) + 1]
          /\ pc' = "bind"
          /\ UNCHANGED <<file, outcome>>
       \/ /\ file = "partial"
          /\ ctx' = Kept(ctx)
          /\ pc' = "idle"
          /\ outcome' = "failed"
          /\ UNCHANGED output
    /\ UNCHANGED <<checkpoint, faults>>

\* Variant: a resumed build trusts the evidence of the earlier attempt.
RevokeNothing ==
    /\ pc = "revoke"
    /\ pc' = "bind"
    /\ UNCHANGED <<output, checkpoint, ctx, outcome, faults>>

\* A resumed build revokes the evidence of the earlier attempt before it writes.
Revoke ==
    /\ pc = "revoke"
    /\ trust' = Revoked(trust)
    /\ pc' = "bind"
    /\ UNCHANGED <<file, versions, raw, work, checkpoint, ctx, outcome, faults>>

\* _persist_version_identity, then the jump back to sanitize after an upgrade.
Bind ==
    /\ pc = "bind"
    /\ meta' = Intent("bound", ctx)
    /\ ctx' = IF ctx.resan /\ SanitizeIndices # {} /\ FirstSanitize < ctx.i
              THEN [ctx EXCEPT !.i = FirstSanitize] ELSE ctx
    /\ pc' = "phase"
    /\ UNCHANGED <<output, sidecar, status, outcome, faults>>

-----------------------------------------------------------------------------
(* The phase loop.                                                         *)

\* Contents that one commit of a handler of this kind may leave behind.
RawAfter(k, r) ==
    CASE k \in {"parser", "resolve"} -> {r, TRUE}
      [] k = "sanitize"              -> {r, FALSE}
      [] OTHER                       -> {r}

\* save_checkpoint(i, s)
SaveStatus(s) == status' = [status EXCEPT ![ctx.i] = s]

\* Variant: a phase is recorded as complete when it starts.
SavePhaseEarly ==
    /\ pc = "phase" /\ ctx.i <= N
    /\ SaveStatus("complete")
    /\ pc' = "handler"
    /\ UNCHANGED <<output, sidecar, meta, ctx, outcome, faults>>

SavePhaseRunning ==
    /\ pc = "phase" /\ ctx.i <= N
    /\ SaveStatus("running")
    /\ pc' = "handler"
    /\ UNCHANGED <<output, sidecar, meta, ctx, outcome, faults>>

\* A parser, the resolver and the sanitizer commit several times on the way;
\* initialize_database and the verification write nothing on a built output.
HandlerCommits ==
    /\ pc = "handler" /\ Kind[ctx.i] \in {"parser", "resolve", "sanitize"}
    /\ work' = [work EXCEPT ![ctx.i] = "partial"]
    /\ raw' \in RawAfter(Kind[ctx.i], raw)
    /\ UNCHANGED <<file, versions, trust, checkpoint, pc, ctx, outcome, faults>>

\* The handler's last commit.  initialize_database completes the schema;
\* sanitize_output returns only when its own second scan finds nothing; the skip
\* handler records its marker.
HandlerReturns ==
    /\ pc = "handler"
    /\ work' = [work EXCEPT ![ctx.i] = "done"]
    /\ raw' \in RawAfter(Kind[ctx.i], raw)
    /\ Kind[ctx.i] = "sanitize" => ~raw'
    /\ trust' = IF Kind[ctx.i] = "skip" THEN "skipped" ELSE trust
    /\ file' = IF Kind[ctx.i] = "init" THEN "full" ELSE file
    /\ pc' = "complete"
    /\ UNCHANGED <<versions, checkpoint, ctx, outcome, faults>>

SavePhaseComplete ==
    /\ pc = "complete"
    /\ SaveStatus("complete")
    /\ ctx' = [ctx EXCEPT !.i = ctx.i + 1]
    /\ pc' = "phase"
    /\ UNCHANGED <<output, sidecar, meta, outcome, faults>>

\* The handler, or either save_checkpoint around it, raises an Exception.
PhaseRaises ==
    /\ pc \in InTry /\ ctx.i <= N
    /\ faults < MaxFaults
    /\ faults' = faults + 1
    /\ pc' = "failed"
    /\ UNCHANGED <<output, checkpoint, ctx, outcome>>

SavePhaseFailed ==
    /\ pc = "failed"
    /\ SaveStatus("failed")
    /\ IF Kind[ctx.i] = "sanitize"
       THEN pc' = "mark" /\ UNCHANGED <<ctx, outcome>>
       ELSE pc' = "idle" /\ ctx' = Kept(ctx) /\ outcome' = "failed"
    /\ UNCHANGED <<output, sidecar, meta, faults>>

\* mark_sanitization_failed is best effort here: its own error is swallowed.
MarkSanitizeFailed ==
    /\ pc = "mark"
    /\ trust' \in {"failed", trust}
    /\ pc' = "idle" /\ ctx' = Kept(ctx) /\ outcome' = "failed"
    /\ UNCHANGED <<file, versions, raw, work, checkpoint, faults>>

-----------------------------------------------------------------------------
(* After the last phase.                                                   *)

\* _finalize_version_record, once no phase is left to run.
FinalizeVersion ==
    /\ pc = "phase" /\ ctx.i > N
    /\ versions' = [versions EXCEPT ![ctx.ver].completed = TRUE]
    /\ pc' = IF SanitizeIndices # {} THEN "gate" ELSE "clear"
    /\ UNCHANGED <<file, trust, raw, work, checkpoint, ctx, outcome, faults>>

\* What verify_clean accepts: no finding, and no obsolete public identity.
GatePasses ==
    /\ ~raw
    /\ \A v \in DOMAIN versions : versions[v].key # None

\* finalize_sanitization, first half: a read-only scan of everything written.
GateScan ==
    /\ pc = "gate"
    /\ pc' = IF GatePasses THEN "audit" ELSE "gate_mark"
    /\ UNCHANGED <<output, checkpoint, ctx, outcome, faults>>

\* _record_finalized_audit replaces every other marker.
RecordAudit ==
    /\ pc = "audit"
    /\ trust' = "verified"
    /\ pc' = "clear"
    /\ UNCHANGED <<file, versions, raw, work, checkpoint, ctx, outcome, faults>>

\* The scan or the recording of its result raises.
GateRaises ==
    /\ pc \in {"gate", "audit"}
    /\ faults < MaxFaults
    /\ faults' = faults + 1
    /\ pc' = "gate_mark"
    /\ UNCHANGED <<output, checkpoint, ctx, outcome>>

GateMarksFailed ==
    /\ pc = "gate_mark"
    /\ trust' = "failed"
    /\ pc' = "gate_save"
    /\ UNCHANGED <<file, versions, raw, work, checkpoint, ctx, outcome, faults>>

\* The phase that a failed gate sends the next build back to.
GateSavesFailed ==
    /\ pc = "gate_save"
    /\ status' = [status EXCEPT ![LastSanitize] = "failed"]
    /\ pc' = "idle" /\ ctx' = Kept(ctx) /\ outcome' = "failed"
    /\ UNCHANGED <<output, sidecar, meta, faults>>

ClearCheckpoint ==
    /\ pc = "clear"
    /\ sidecar' = "absent" /\ meta' = NoMeta /\ status' = NoStatus
    /\ pc' = "idle"
    /\ ctx' = Kept([ctx EXCEPT !.resan = FALSE])
    /\ outcome' = "done"
    /\ UNCHANGED <<output, faults>>

-----------------------------------------------------------------------------
(* Faults and users.                                                       *)

\* The process dies, or an exception that the phase loop does not catch ends the
\* call (KeyboardInterrupt, a full disk) and the caller may keep the object.
\* What was committed stays.
Crash ==
    /\ pc # "idle"
    /\ faults < MaxFaults
    /\ faults' = faults + 1
    /\ pc' = "idle" /\ ctx' \in {NoObject, Kept(ctx)} /\ outcome' = "died"
    /\ UNCHANGED <<output, checkpoint>>

\* `icarus build --fresh` succeeds in a temporary file and replaces the output;
\* the output's own checkpoint is not its concern.  What a dead process left in
\* the write-ahead log beside the output is the subject of module Publish.
FreshReplace(a, t) ==
    /\ "fresh" \in Interventions /\ pc = "idle"
    /\ outcome # "died"
    /\ file' = "full"
    /\ versions' = <<[run |-> t, input |-> a, key |-> t, completed |-> TRUE]>>
    /\ work' = [i \in Phases |-> "done"]
    /\ IF SanitizeIndices # {} THEN trust' = "verified" /\ raw' = FALSE
                               ELSE trust' = "skipped" /\ raw' = TRUE
    /\ UNCHANGED <<checkpoint, pc, ctx, outcome, faults>>

\* What the messages of a refused build advise: remove or redirect the output,
\* or remove the checkpoint.
RemoveOutput ==
    /\ "remove_output" \in Interventions /\ pc = "idle"
    /\ file' = "absent" /\ versions' = <<>> /\ trust' = "unknown"
    /\ raw' = FALSE /\ work' = NoWork
    /\ UNCHANGED <<checkpoint, pc, ctx, outcome, faults>>

RemoveCheckpoint ==
    /\ "remove_checkpoint" \in Interventions /\ pc = "idle"
    /\ sidecar # "absent"
    /\ sidecar' = "absent" /\ meta' = NoMeta /\ status' = NoStatus
    /\ UNCHANGED <<output, pc, ctx, outcome, faults>>

-----------------------------------------------------------------------------

\* No output yet.
FreshInit ==
    /\ file = "absent" /\ versions = <<>> /\ trust = "unknown"
    /\ raw = FALSE /\ work = NoWork
    /\ sidecar = "absent" /\ meta = NoMeta /\ status = NoStatus

\* A build that an older release left after its first k phases: no private key,
\* an unkeyed public identity, an audit that is no longer recognised.
LegacyInit ==
    \E a \in Inputs, t \in Tokens, k \in 0..N, done \in BOOLEAN :
        /\ done => k = N
        /\ file = "full"
        /\ versions = <<[run |-> t, input |-> a, key |-> None, completed |-> done]>>
        /\ trust = "unknown"
        /\ work = [i \in Phases |-> IF i <= k THEN "done" ELSE "none"]
        /\ raw \in BOOLEAN
        /\ (\E i \in 1..k : Kind[i] = "sanitize") => ~raw
        /\ sidecar = "written"
        /\ meta = [NoMeta EXCEPT !.state = "legacy", !.run = t, !.input = a, !.ver = 1]
        /\ status = [i \in Phases |-> IF i <= k THEN "complete"
                                      ELSE IF i = k + 1 THEN "running" ELSE "none"]

Init ==
    /\ FreshInit \/ (LegacyBuilds /\ LegacyInit)
    /\ pc = "idle" /\ ctx = NoObject /\ outcome = "none" /\ faults = 0

\* A caller starts a build.
Call ==
    \/ \E a \in Inputs, t \in Tokens \ UsedTokens : CliBuild(a, t)
    \/ \E a \in Inputs, t \in Tokens \ UsedTokens, resume \in BOOLEAN,
          sp \in StartPhases : ApiBuild(a, t, resume, sp)
    \/ \E resume \in BOOLEAN, sp \in StartPhases : ApiRerun(resume, sp)

\* What the running process does by itself.
Step ==
    \/ CreateSidecar \/ PersistIntent
    \/ UpgradeIntent \/ UpgradeOutput
    \/ CreateOutput \/ CompleteSchema \/ InsertVersion
    \/ Revoke \/ Bind
    \/ SavePhaseRunning \/ HandlerReturns \/ SavePhaseComplete
    \/ SavePhaseFailed \/ MarkSanitizeFailed
    \/ FinalizeVersion \/ GateScan \/ RecordAudit
    \/ GateMarksFailed \/ GateSavesFailed
    \/ ClearCheckpoint

Fault == PhaseRaises \/ GateRaises \/ Crash

Intervention ==
    \/ \E a \in Inputs, t \in Tokens \ UsedTokens : FreshReplace(a, t)
    \/ RemoveOutput \/ RemoveCheckpoint

Next == Call \/ Step \/ HandlerCommits \/ Fault \/ Intervention

Spec == Init /\ [][Next]_vars

\* A handler that is running returns, a process that is running goes on, and the
\* user of an interrupted build starts it again with each of the inputs in turn.
\* Nothing is assumed of faults but that there are finitely many (MaxFaults).
FairSpec ==
    /\ Spec
    /\ WF_vars(Step)
    /\ \A a \in Inputs :
         WF_vars(\E t \in Tokens \ UsedTokens : CliBuild(a, t))

-----------------------------------------------------------------------------
(* Properties.                                                             *)

\* From the first commit that may follow the revocation on.
Building == pc \in PCs \ ({"idle", "revoke"} \cup Identifying \cup Creating)

\* A database that says "verified" holds nothing the scan would find and no
\* obsolete identity, however many crashed processes it was built by.
VerifiedIsClean == trust = "verified" => GatePasses

\* It also holds the complete result of every phase of its newest version.
VerifiedIsComplete ==
    trust = "verified" =>
        /\ \A i \in Phases : work[i] = "done"
        /\ versions # <<>> /\ versions[Len(versions)].completed

\* From the moment a build may write content until its final gate has passed, the
\* output carries no evidence of an earlier audit: a hard exit in between cannot
\* leave one behind.
NoEvidenceWhileBuilding ==
    (Building /\ pc # "clear") => trust # "verified"

\* The two databases agree across crashes: a phase that a resumable checkpoint
\* calls complete has its whole result in the output, except for a sanitize phase
\* that an identity upgrade sends the next build back to.
CompletePhaseIsDurable ==
    sidecar = "written" /\ Restorable(meta, meta.input) =>
        \A i \in Phases : status[i] = "complete" =>
            \/ work[i] = "done"
            \/ Kind[i] = "sanitize" /\ meta.resan

\* "Crash at phase N? Resume from phase N": a phase that was running or failed
\* when the build stopped is not skipped by the next one.
CrashedPhaseIsResumed ==
    pc = "idle" => \A i \in Phases :
        status[i] \in {"running", "failed"} => NextPhase(status) <= i

\* `icarus build` never unions two runs in one output.
OneRunPerOutput == Len(versions) <= 1

\* The key of a public HMAC is durable before the HMAC is published and until the
\* version is complete, under the run and input it was made for: an interrupted
\* version can always be recognised.
KeyOutlivesIdentity ==
    \A v \in DOMAIN versions :
        versions[v].key # None /\ ~versions[v].completed =>
            /\ sidecar = "written"
            /\ meta.key = versions[v].key
            /\ meta.run = versions[v].run
            /\ meta.input = versions[v].input

\* Wherever a build was interrupted, running it again with the same inputs is
\* accepted, unless it died between creating the checkpoint file and writing to it.
InterruptedIsResumable ==
    sidecar = "written" => Restorable(meta, meta.input)

\* Nothing but the end of the build takes a checkpoint away from its run.
CheckpointKeepsItsRun ==
    [][sidecar = "written" /\ sidecar' = "written" =>
          /\ meta'.run = meta.run
          /\ meta'.input = meta.input
          /\ meta.key # None => meta'.key = meta.key
          /\ meta.resan => meta'.resan]_vars

\* A final gate that fails sends the next build back to the sanitize phase, instead
\* of skipping every completed phase.
FailedGateReopensSanitize ==
    SanitizeIndices # {} /\ pc = "idle" /\ status[LastSanitize] = "failed"
        => NextPhase(status) <= LastSanitize

\* With finitely many faults, a build that left a checkpoint is finished by
\* running it again.
InterruptedBuildFinishes == (sidecar = "written") ~> (outcome = "done")

=============================================================================
