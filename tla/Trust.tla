------------------------------- MODULE Trust -------------------------------
(***************************************************************************)
(* Who may leave sanitization evidence in a finished database, and who     *)
(* takes it away: guarded query sessions, `icarus exec`, resolver and      *)
(* atomizer calls, the initializer's metadata, and the remediation of a    *)
(* legacy output, each on a connection of its own.                         *)
(*                                                                         *)
(* SQLite is external: one connection writes at a time, a transaction is   *)
(* private until it commits, a deferred transaction that read before       *)
(* somebody else's commit can no longer write, and a process that dies     *)
(* rolls back.  A statement that must wait for the lock longer than the    *)
(* busy timeout fails and changes nothing; it is not a step here.          *)
(***************************************************************************)
CONSTANTS
    Queries,    \* IcarusQuery(..., writable=True) sessions
    Execs,      \* `icarus exec` commands
    Resolvers,  \* EntityResolver connections, which the atomizer shares
    Contents,   \* what the database may hold apart from the trust markers
    Permitted,  \* those that _validate_source_identity_policy accepts: the metadata has
                \* no deprecated and no private resume material
    Clean,      \* the permitted contents in which a scan finds nothing
    None        \* no view: the connection is in no transaction

\* "legacy" is the complete evidence of an older release's audit format, which
\* sanitization_status() calls unknown and remediation accepts as input.
Marks == {"none", "failed", "skipped", "legacy", "verified"}

ASSUME TrustAssumption ==
    /\ Queries \cap Resolvers = {}
    /\ Queries \cap Execs = {}
    /\ Execs \cap Resolvers = {}
    /\ Clean \subseteq Permitted /\ Permitted \subseteq Contents
    /\ None \notin [content : Contents, marks : Marks]

VARIABLES
    db,       \* what is committed: the content and the trust markers
    audited,  \* history: the content at the moment evidence was last recorded
    conn,     \* the state of each connection
    remedy    \* where the remediation command is

vars == <<db, audited, conn, remedy>>

Conns == Queries \cup Execs \cup Resolvers

Database == [content : Contents, marks : Marks]

Conn == [tx : {"none", "begun", "read", "stale", "write"},
         at : {"idle", "begun", "ran", "mutating", "first", "more"},
         view : Database \cup {None}, save : Database \cup {None},
         owned : BOOLEAN, writes : BOOLEAN, pending : BOOLEAN]

RemedyAt == {"idle", "mark", "update", "sanitize", "scan", "record", "failing"}

TypeOK ==
    /\ db \in Database
    /\ audited \in Contents
    /\ conn \in [Conns -> Conn]
    /\ remedy \in RemedyAt

LockFree == \A c \in Conns : conn[c].tx # "write"

\* A connection outside any transaction.
NoTx == [tx |-> "none", at |-> "idle", view |-> None, save |-> None,
         owned |-> FALSE, writes |-> FALSE, pending |-> FALSE]

\* invalidate_sanitization() on the transaction's view of the database.
Revoke(d) == [d EXCEPT !.marks = "none"]

Init ==
    /\ db \in [content : Contents, marks : {"none", "skipped", "legacy"}]
             \cup [content : Clean, marks : {"verified"}]
    /\ audited = db.content
    /\ conn = [c \in Conns |-> NoTx]
    /\ remedy = "idle"

\* The connections once d is committed: a snapshot taken before is stale.
Stale(d) == [c \in Conns |-> IF conn[c].tx = "read" /\ d # db
                             THEN [conn[c] EXCEPT !.tx = "stale"]
                             ELSE conn[c]]

\* c commits d and goes on as k.
Commit(c, d, k) ==
    /\ db' = d
    /\ conn' = [Stale(d) EXCEPT ![c] = k]
    /\ UNCHANGED <<audited, remedy>>

\* c goes on as k; nobody else can see a difference.
Private(c, k) ==
    /\ conn' = [conn EXCEPT ![c] = k]
    /\ UNCHANGED <<db, audited, remedy>>

----------------------------------------------------------------------------
(* A guarded query session: IcarusQuery.execute(), commit(), rollback().   *)

\* _execute_writable_statement() up to the statement: a transaction of its own
\* unless one is pending, and a savepoint.
StatementBegin(q) ==
    /\ conn[q].at = "idle"
    /\ \/ /\ conn[q].tx = "none"
          /\ LockFree
          /\ Private(q, [NoTx EXCEPT !.tx = "write", !.at = "begun", !.owned = TRUE,
                                        !.view = db, !.save = db])
       \/ /\ conn[q].tx = "write"
          /\ Private(q, [conn[q] EXCEPT !.at = "begun", !.save = conn[q].view,
                                        !.owned = FALSE, !.writes = FALSE])

\* The statement runs under the authorizer.  One that may write can do anything
\* to the content and to the markers, or nothing at all.
StatementReads(q) ==
    /\ conn[q].at = "begun"
    /\ Private(q, [conn[q] EXCEPT !.at = "ran", !.writes = FALSE])

StatementWrites(q) ==
    /\ conn[q].at = "begun"
    /\ \E d \in Contents, m \in {conn[q].view.marks, "none", "skipped", "verified"} :
          Private(q, [conn[q] EXCEPT !.at = "ran", !.writes = TRUE,
                                     !.view = [content |-> d, marks |-> m]])

\* Variant: evidence is taken away by commit() alone.
StatementEndsRevokingLate(q) ==
    /\ conn[q].at = "ran"
    /\ Private(q, IF conn[q].writes THEN [conn[q] EXCEPT !.at = "idle", !.pending = TRUE]
                  ELSE IF conn[q].owned THEN NoTx
                  ELSE [conn[q] EXCEPT !.at = "idle"])

\* Variant: a read leaves the transaction open that it began.
StatementEndsHoldingLock(q) ==
    /\ conn[q].at = "ran"
    /\ Private(q, IF conn[q].writes
                  THEN [conn[q] EXCEPT !.at = "idle", !.view = Revoke(conn[q].view),
                                       !.pending = TRUE]
                  ELSE [conn[q] EXCEPT !.at = "idle"])

\* A write takes the markers with it; a read gives an owned transaction up.
StatementEnds(q) ==
    /\ conn[q].at = "ran"
    /\ Private(q, IF conn[q].writes
                  THEN [conn[q] EXCEPT !.at = "idle", !.view = Revoke(conn[q].view),
                                       !.pending = TRUE]
                  ELSE IF conn[q].owned THEN NoTx
                  ELSE [conn[q] EXCEPT !.at = "idle"])

\* The statement or its revocation raises: back to the savepoint, and out of an
\* owned transaction.
StatementFails(q) ==
    /\ \/ conn[q].at = "begun"
       \/ conn[q].at = "ran" /\ conn[q].writes
    /\ Private(q, IF conn[q].owned THEN NoTx
                  ELSE [conn[q] EXCEPT !.at = "idle", !.view = conn[q].save])

\* ... ON CONFLICT ROLLBACK ends the whole transaction, earlier writes included.
StatementRollsBack(q) ==
    /\ conn[q].at = "begun"
    /\ Private(q, NoTx)

QueryCommits(q) ==
    /\ conn[q].at = "idle"
    /\ conn[q].tx = "write"
    /\ Commit(q, IF conn[q].pending THEN Revoke(conn[q].view) ELSE conn[q].view,
              NoTx)

\* commit() raises: a deferred constraint leaves the transaction open, another
\* error has ended it; _write_pending keeps its value either way.
QueryCommitFails(q) ==
    /\ conn[q].at = "idle"
    /\ conn[q].tx = "write"
    /\ \/ Private(q, [conn[q] EXCEPT !.view = IF conn[q].pending
                                              THEN Revoke(conn[q].view) ELSE @])
       \/ Private(q, [NoTx EXCEPT !.pending = conn[q].pending])

\* rollback(), or close(), or a commit() with nothing to publish.
QueryGivesUp(q) ==
    /\ conn[q].at = "idle"
    /\ conn[q] # NoTx
    /\ Private(q, NoTx)

----------------------------------------------------------------------------
(* icarus exec: cmd_exec() brackets one unguarded statement.               *)

ExecRuns(e) ==
    /\ conn[e].tx = "none"
    /\ LockFree
    /\ \E d \in Contents, m \in {db.marks, "none", "skipped", "verified"} :
          Private(e, [NoTx EXCEPT !.tx = "write", !.at = "ran",
                                       !.view = [content |-> d, marks |-> m]])

\* Variant: the statement is committed as it is.
ExecCommitsUnrevoked(e) ==
    /\ conn[e].at = "ran"
    /\ Commit(e, conn[e].view, NoTx)

ExecCommits(e) ==
    /\ conn[e].at = "ran"
    /\ Commit(e, Revoke(conn[e].view), NoTx)

----------------------------------------------------------------------------
(* Resolver calls, alone or inside a transaction of their caller, and the  *)
(* atomizer on the same connection.                                        *)

CallerBegins(r) ==
    /\ conn[r].at = "idle" /\ conn[r].tx = "none"
    /\ Private(r, [NoTx EXCEPT !.tx = "begun"])

CallerReads(r) ==
    /\ conn[r].at = "idle" /\ conn[r].tx = "begun"
    /\ Private(r, [NoTx EXCEPT !.tx = "read"])

CallerCommits(r) ==
    /\ conn[r].at = "idle" /\ conn[r].tx # "none"
    /\ IF conn[r].tx = "write" THEN Commit(r, conn[r].view, NoTx)
                               ELSE Private(r, NoTx)

\* The write lock, for a connection that is not in a stale snapshot.
Locks(r) ==
    \/ conn[r].tx = "write"
    \/ conn[r].tx \in {"none", "begun", "read"} /\ LockFree

\* What r reads once it has the lock.
Seen(r) == IF conn[r].tx = "write" THEN conn[r].view ELSE db

\* Variant: nothing is saved to go back to.
MutationBeginsUnsaved(r) ==
    /\ conn[r].at = "idle"
    /\ Locks(r)
    /\ Private(r, [conn[r] EXCEPT !.tx = "write", !.at = "mutating", !.view = Seen(r),
                                  !.owned = (conn[r].tx = "none")])

\* _write_transaction(): BEGIN IMMEDIATE, or a savepoint and an empty UPDATE.
MutationBegins(r) ==
    /\ conn[r].at = "idle"
    /\ Locks(r)
    /\ Private(r, [conn[r] EXCEPT !.tx = "write", !.at = "mutating", !.view = Seen(r),
                                  !.save = Seen(r), !.owned = (conn[r].tx = "none")])

\* _atomic_mutation(): the body has changed rows, or has found nothing to do.
MutationResult(r) ==
    {conn[r].view} \cup {Revoke([conn[r].view EXCEPT !.content = d]) : d \in Contents}

MutationEnds(r) ==
    /\ conn[r].at = "mutating"
    /\ \E d \in MutationResult(r) :
          IF conn[r].owned THEN Commit(r, d, NoTx)
                           ELSE Private(r, [conn[r] EXCEPT !.at = "idle", !.view = d])

MutationFails(r) ==
    /\ conn[r].at = "mutating"
    /\ Private(r, IF conn[r].owned THEN NoTx
                  ELSE [conn[r] EXCEPT !.at = "idle", !.view = conn[r].save])

\* atomize_db(): _insert_atom() for each row; the first row that is new revokes.
AtomizeRow(r) ==
    /\ conn[r].at \in {"idle", "first"}
    /\ Locks(r)
    /\ \/ Private(r, [conn[r] EXCEPT !.tx = "write", !.at = "first", !.view = Seen(r)])
       \/ \E d \in Contents :
             Private(r, [conn[r] EXCEPT !.tx = "write", !.at = "more",
                                        !.view = Revoke([Seen(r) EXCEPT !.content = d])])

AtomizeMore(r) ==
    /\ conn[r].at = "more"
    /\ \E d \in Contents : Private(r, [conn[r] EXCEPT !.view.content = d])

AtomizeCommits(r) ==
    /\ conn[r].at \in {"first", "more"}
    /\ Commit(r, conn[r].view, NoTx)

\* The inserts so far stay in the transaction, for the caller to decide on.
AtomizeFails(r) ==
    /\ conn[r].at \in {"first", "more"}
    /\ Private(r, [conn[r] EXCEPT !.at = "idle"])

\* A row that must wait too long leaves the transaction begun for it open.
AtomizeBlocked(r) ==
    /\ conn[r].at = "idle" /\ conn[r].tx = "none"
    /\ ~LockFree
    /\ Private(r, [NoTx EXCEPT !.tx = "read"])

\* rollback() or close() by a resolver's caller, an error of exec, or the death
\* of any process: SQLite undoes what is not committed.
Dies(c) ==
    /\ conn[c] # NoTx
    /\ Private(c, NoTx)

----------------------------------------------------------------------------
(* Short transactions of the framework.                                    *)

Publish(d, at) ==
    /\ LockFree
    /\ db' = d
    /\ conn' = Stale(d)
    /\ remedy' = at

\* initialize_database(path, metadata=...) on a database of this version.
InitializeMetadata ==
    /\ \E d \in Contents : Publish(Revoke([db EXCEPT !.content = d]), remedy)
    /\ UNCHANGED audited

\* remediate_legacy_output(): eligibility is read before anything is written.
RemedyBegins ==
    /\ remedy = "idle"
    /\ db.marks = "legacy"
    /\ remedy' = "mark"
    /\ UNCHANGED <<db, audited, conn>>

\* mark_sanitization_failed(), before the first change.
MarkFailed(d) == [Revoke(d) EXCEPT !.marks = "failed"]

RemedyMarks ==
    /\ remedy = "mark"
    /\ Publish(MarkFailed(db), "update")
    /\ UNCHANGED audited

RemedyUpdates ==
    /\ remedy = "update"
    /\ \E d \in Contents : Publish([db EXCEPT !.content = d], "sanitize")
    /\ UNCHANGED audited

\* sanitize_output(): redact, then scan; a residue raises (RemedyFails).
RemedySanitizes ==
    /\ remedy = "sanitize"
    /\ \E d \in Clean : Publish([db EXCEPT !.content = d], "scan")
    /\ UNCHANGED audited

\* finalize_sanitization(): verify_clean() reads and closes its connection ...
GateScans ==
    /\ remedy = "scan"
    /\ remedy' = IF db.content \in Clean THEN "record" ELSE "failing"
    /\ UNCHANGED <<db, audited, conn>>

\* ... and _record_finalized_audit() opens another one.  It repeats the check of
\* the source identities, and raises (RemedyFails) when they are not permitted.
GateRecords ==
    /\ remedy = "record"
    /\ db.content \in Permitted
    /\ Publish([db EXCEPT !.marks = "verified"], "idle")
    /\ audited' = db.content

\* Any step may raise; the handler marks the output failed if it can.
RemedyFails ==
    /\ remedy # "idle"
    /\ \/ Publish(MarkFailed(db), "idle")
       \/ remedy' = "idle" /\ UNCHANGED <<db, conn>>
    /\ UNCHANGED audited

----------------------------------------------------------------------------
QueryStep(q) ==
    \/ StatementBegin(q) \/ StatementReads(q) \/ StatementWrites(q) \/ StatementEnds(q)
    \/ StatementFails(q) \/ StatementRollsBack(q)
    \/ QueryCommits(q) \/ QueryCommitFails(q) \/ QueryGivesUp(q)

ExecStep(e) == ExecRuns(e) \/ ExecCommits(e)

ResolverStep(r) ==
    \/ CallerBegins(r) \/ CallerReads(r) \/ CallerCommits(r)
    \/ MutationBegins(r) \/ MutationEnds(r) \/ MutationFails(r)
    \/ AtomizeRow(r) \/ AtomizeMore(r) \/ AtomizeCommits(r) \/ AtomizeFails(r)
    \/ AtomizeBlocked(r)

RemedyStep ==
    \/ RemedyBegins \/ RemedyMarks \/ RemedyUpdates \/ RemedySanitizes
    \/ GateScans \/ GateRecords \/ RemedyFails

Next ==
    \/ \E q \in Queries : QueryStep(q)
    \/ \E e \in Execs : ExecStep(e)
    \/ \E r \in Resolvers : ResolverStep(r)
    \/ \E c \in Conns : Dies(c)
    \/ InitializeMetadata
    \/ RemedyStep

Spec == Init /\ [][Next]_vars

----------------------------------------------------------------------------
\* Evidence describes the content it was recorded for: whoever commits another
\* content takes it away in the same transaction (docs/PUBLIC_WRITES.md).
EvidenceIsCurrent == db.marks = "verified" => db.content = audited

\* What a transaction shows apart from a statement that has not ended: the
\* committed state, or a change without any marker.
Held(d) == d = db \/ d.marks = "none"

\* What a connection has changed and not yet committed is without markers, also
\* after a failed statement, a failed commit or half an atomization: the caller
\* may commit it in any of these states.
PendingIsRevoked ==
    \A c \in Conns :
        conn[c].tx = "write" /\ conn[c].at # "ran" => Held(conn[c].view)

\* Between two statements a session holds the write lock only for writes that
\* its commit() will revoke evidence for: a read keeps nobody waiting.
NoIdleLock ==
    \A q \in Queries :
        conn[q].tx = "write" /\ conn[q].at = "idle" => conn[q].pending

\* From its first change on and until its gate has recorded, a remediation that
\* is interrupted leaves an output that no reader trusts, whatever others write.
RemediationRevokesFirst ==
    remedy \notin {"idle", "mark"} => db.marks \in {"none", "failed"}

\* Evidence is recorded for a content without resume material of a build.
EvidenceIsPermitted == db.marks = "verified" => audited \in Permitted

\* Evidence is recorded for a content that passed the scan: a changed database
\* passes the verification before it receives fresh evidence.
VerifiedPassedGate == db.marks = "verified" => audited \in Clean

----------------------------------------------------------------------------
\* The inductive invariant: what each connection may be in the middle of, and
\* that a savepoint to go back to is itself without evidence.
ConnInv(c, k) ==
    /\ c \in Queries => k.tx \in {"none", "write"} /\ k.at \in {"idle", "begun", "ran"}
    /\ c \in Execs => k.tx \in {"none", "write"} /\ k.at \in {"idle", "ran"}
    /\ c \in Resolvers => k.at \in {"idle", "mutating", "first", "more"}
    /\ k.at # "idle" => k.tx = "write"
    /\ k.tx = "write" =>
        /\ k.view \in Database
        /\ k.at # "ran" => Held(k.view)
        /\ k.at = "more" => k.view.marks = "none"
        /\ k.at \in {"begun", "ran", "mutating"} /\ c \notin Execs
               => k.save \in Database /\ Held(k.save)
        /\ k.at = "ran" /\ ~k.writes /\ c \in Queries => Held(k.view)
        /\ k.at = "idle" /\ c \in Queries => k.pending
        /\ k.at \in {"begun", "ran"} /\ c \in Queries /\ ~k.owned => k.pending

OneWriter ==
    \A a, b \in Conns : conn[a].tx = "write" /\ conn[b].tx = "write" => a = b

TrustInv ==
    /\ TypeOK
    /\ EvidenceIsCurrent
    /\ EvidenceIsPermitted
    /\ RemediationRevokesFirst
    /\ OneWriter
    /\ \A c \in Conns : ConnInv(c, conn[c])
============================================================================
