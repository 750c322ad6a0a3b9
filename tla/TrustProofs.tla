---------------------------- MODULE TrustProofs ----------------------------
(***************************************************************************)
(* TrustInv is inductive, for any number of sessions, commands and         *)
(* resolvers and any contents.  A step is one of three kinds: a connection *)
(* goes on in private, a connection commits, or the framework publishes a  *)
(* short transaction; each kind has a lemma, and each action is shown to   *)
(* be of its kind.                                                         *)
(***************************************************************************)
EXTENDS Trust, TLAPS

\* NoTx is a state of every connection, whatever the database says.
LEMMA NoTxOK ==
    ASSUME NEW c
    PROVE  /\ NoTx \in Conn
           /\ ConnInv(c, NoTx)
BY DEF NoTx, Conn, ConnInv

\* Revoking keeps a database a database.
LEMMA RevokeType ==
    ASSUME NEW d \in Database
    PROVE  /\ Revoke(d) \in Database
           /\ Revoke(d).marks = "none"
           /\ Revoke(d).content = d.content
BY DEF Revoke, Database, Marks

\* A connection that goes on in private, with a state of its kind and at most
\* the lock it can have.
LEMMA PrivateKeeps ==
    ASSUME TrustInv, NEW c \in Conns, NEW k \in Conn, ConnInv(c, k),
           k.tx = "write" => conn[c].tx = "write" \/ LockFree,
           Private(c, k)
    PROVE  TrustInv'
<1>1. TypeOK' BY DEF TrustInv, TypeOK, Private
<1>2. EvidenceIsCurrent' /\ EvidenceIsPermitted' /\ RemediationRevokesFirst'
    BY DEF TrustInv, EvidenceIsCurrent, EvidenceIsPermitted, RemediationRevokesFirst, Private
<1>3. OneWriter'
    BY DEF TrustInv, TypeOK, OneWriter, LockFree, Private
<1>4. ASSUME NEW a \in Conns PROVE ConnInv(a, conn[a])'
    <2>1. ConnInv(a, conn'[a])
        BY DEF TrustInv, TypeOK, Private
    <2> QED BY <2>1 DEF ConnInv, Held, Private
<1> QED BY <1>1, <1>2, <1>3, <1>4 DEF TrustInv

\* Committing makes other snapshots stale, and touches nobody who may write.
LEMMA StaleOK ==
    ASSUME TrustInv, NEW d \in Database, NEW a \in Conns
    PROVE  /\ Stale(d)[a] \in Conn
           /\ Stale(d)[a].tx = "write" <=> conn[a].tx = "write"
           /\ Stale(d)[a].tx # "write" => Stale(d)[a].at = "idle"
           /\ a \notin Resolvers => Stale(d)[a] = conn[a]
<1>1. conn[a] \in Conn /\ ConnInv(a, conn[a]) BY DEF TrustInv, TypeOK
<1>2. CASE conn[a].tx = "read" /\ d # db
    <2>1. Stale(d)[a] = [conn[a] EXCEPT !.tx = "stale"] BY <1>2 DEF Stale
    <2>2. Stale(d)[a] \in Conn /\ Stale(d)[a].tx = "stale" /\ Stale(d)[a].at = conn[a].at
        BY <1>1, <2>1 DEF Conn
    <2>3. a \in Resolvers /\ conn[a].at = "idle"
        BY <1>1, <1>2 DEF ConnInv, Conns
    <2> QED BY <1>2, <2>2, <2>3
<1>3. CASE ~(conn[a].tx = "read" /\ d # db)
    <2>1. Stale(d)[a] = conn[a] BY <1>3 DEF Stale
    <2> QED BY <1>1, <2>1 DEF ConnInv
<1> QED BY <1>2, <1>3

\* Nobody holds the lock after a commit of d, which leaves everyone as stated.
LEMMA AfterCommit ==
    ASSUME TrustInv, NEW d \in Database,
           \A a \in Conns :
               /\ conn'[a] \in Conn
               /\ conn'[a].tx # "write" /\ conn'[a].at = "idle"
               /\ a \notin Resolvers => conn'[a].tx = "none"
    PROVE  OneWriter' /\ \A a \in Conns : ConnInv(a, conn[a])'
<1>1. OneWriter' BY DEF OneWriter
<1>2. ASSUME NEW a \in Conns PROVE ConnInv(a, conn[a])'
    BY TrustAssumption DEF ConnInv
<1> QED BY <1>1, <1>2

\* A commit of the committed state, or of a change without markers.
LEMMA CommitKeeps ==
    ASSUME TrustInv, NEW c \in Conns, conn[c].tx = "write",
           NEW d \in Database, Held(d), Commit(c, d, NoTx)
    PROVE  TrustInv'
<1>1. ASSUME NEW a \in Conns
      PROVE  /\ conn'[a] \in Conn
             /\ conn'[a].tx # "write" /\ conn'[a].at = "idle"
             /\ a \notin Resolvers => conn'[a].tx = "none"
    <2>1. CASE a = c
        BY <2>1, NoTxOK DEF Commit, Stale, NoTx
    <2>2. CASE a # c
        <3>1. conn[a].tx # "write" BY <2>2 DEF TrustInv, OneWriter
        <3>2. conn'[a] = Stale(d)[a] BY <2>2 DEF Commit, Stale
        <3>3. a \notin Resolvers => conn[a].tx = "none"
            BY <3>1 DEF TrustInv, ConnInv, Conns
        <3> QED BY <3>1, <3>2, <3>3, StaleOK
    <2> QED BY <2>1, <2>2
<1>2. conn' \in [Conns -> Conn]
    BY <1>1 DEF Commit, Stale
<1>3. TypeOK' BY <1>2 DEF TrustInv, TypeOK, Commit
<1>4. EvidenceIsCurrent' /\ EvidenceIsPermitted' /\ RemediationRevokesFirst'
    BY DEF TrustInv, EvidenceIsCurrent, EvidenceIsPermitted, RemediationRevokesFirst, Held, Commit
<1> QED BY <1>1, <1>3, <1>4, AfterCommit DEF TrustInv

\* A short transaction of the framework, which needs the lock.
LEMMA PublishKeeps ==
    ASSUME TrustInv, NEW d \in Database, NEW at \in RemedyAt, Publish(d, at),
           audited' \in Contents,
           d.marks = "verified" => d.content = audited' /\ audited' \in Permitted,
           at \notin {"idle", "mark"} => d.marks \in {"none", "failed"}
    PROVE  TrustInv'
<1>1. ASSUME NEW a \in Conns
      PROVE  /\ conn'[a] \in Conn
             /\ conn'[a].tx # "write" /\ conn'[a].at = "idle"
             /\ a \notin Resolvers => conn'[a].tx = "none"
    <2>1. conn[a].tx # "write" BY DEF Publish, LockFree
    <2>2. a \notin Resolvers => conn[a].tx = "none"
        BY <2>1 DEF TrustInv, ConnInv, Conns
    <2>3. conn'[a] = Stale(d)[a] BY DEF Publish
    <2> QED BY <2>1, <2>2, <2>3, StaleOK
<1>2. conn' \in [Conns -> Conn]
    BY <1>1 DEF Publish, Stale
<1>3. TypeOK' BY <1>2 DEF TrustInv, TypeOK, Publish
<1>4. EvidenceIsCurrent' /\ EvidenceIsPermitted' /\ RemediationRevokesFirst'
    BY DEF EvidenceIsCurrent, EvidenceIsPermitted, RemediationRevokesFirst, Publish
<1> QED BY <1>1, <1>3, <1>4, AfterCommit DEF TrustInv

----------------------------------------------------------------------------
LEMMA InitInv == Init => TrustInv
<1> SUFFICES ASSUME Init PROVE TrustInv OBVIOUS
<1>1. TypeOK
    BY TrustAssumption, NoTxOK DEF Init, TypeOK, Database, Marks, RemedyAt
<1>2. EvidenceIsCurrent /\ EvidenceIsPermitted /\ RemediationRevokesFirst
    BY TrustAssumption DEF Init, EvidenceIsCurrent, EvidenceIsPermitted, RemediationRevokesFirst
<1>3. OneWriter BY DEF Init, OneWriter, NoTx
<1>4. \A c \in Conns : ConnInv(c, conn[c]) BY NoTxOK DEF Init
<1> QED BY <1>1, <1>2, <1>3, <1>4 DEF TrustInv

\* A guarded session keeps the invariant.
LEMMA QueryKeeps ==
    ASSUME TrustInv, NEW q \in Queries, QueryStep(q)
    PROVE  TrustInv'
<1> q \in Conns /\ q \notin Execs /\ q \notin Resolvers
    BY TrustAssumption DEF Conns
<1>0. /\ conn[q] \in Conn /\ ConnInv(q, conn[q])
      /\ db \in Database
    BY DEF TrustInv, TypeOK
<1>1. CASE StatementBegin(q)
    <2>1. CASE /\ LockFree
               /\ Private(q, [NoTx EXCEPT !.tx = "write", !.at = "begun", !.owned = TRUE,
                                          !.view = db, !.save = db])
        <3> DEFINE k == [NoTx EXCEPT !.tx = "write", !.at = "begun", !.owned = TRUE,
                                     !.view = db, !.save = db]
        <3>1. k \in Conn BY <1>0 DEF Conn, NoTx
        <3>2. ConnInv(q, k) BY <1>0 DEF ConnInv, NoTx, Held
        <3> QED BY <2>1, <3>1, <3>2, PrivateKeeps
    <2>2. CASE /\ conn[q].tx = "write"
               /\ Private(q, [conn[q] EXCEPT !.at = "begun", !.save = conn[q].view,
                                             !.owned = FALSE, !.writes = FALSE])
        <3> DEFINE k == [conn[q] EXCEPT !.at = "begun", !.save = conn[q].view,
                                        !.owned = FALSE, !.writes = FALSE]
        <3>0. conn[q].at = "idle" BY <1>1 DEF StatementBegin
        <3>1. k \in Conn BY <1>0, <2>2 DEF Conn, ConnInv
        <3>2. ConnInv(q, k) BY <1>0, <2>2, <3>0 DEF Conn, ConnInv
        <3> QED BY <2>2, <3>1, <3>2, PrivateKeeps
    <2> QED BY <1>1, <2>1, <2>2 DEF StatementBegin
<1>2. CASE StatementReads(q)
    <2> DEFINE k == [conn[q] EXCEPT !.at = "ran", !.writes = FALSE]
    <2>1. k \in Conn /\ k.tx = conn[q].tx BY <1>0 DEF Conn
    <2>2. ConnInv(q, k) BY <1>0, <1>2 DEF Conn, ConnInv, StatementReads
    <2> QED BY <1>2, <2>1, <2>2, PrivateKeeps DEF StatementReads
<1>3. CASE StatementWrites(q)
    <2>1. PICK d \in Contents, m \in {conn[q].view.marks, "none", "skipped", "verified"} :
             Private(q, [conn[q] EXCEPT !.at = "ran", !.writes = TRUE,
                                        !.view = [content |-> d, marks |-> m]])
        BY <1>3 DEF StatementWrites
    <2> DEFINE k == [conn[q] EXCEPT !.at = "ran", !.writes = TRUE,
                                    !.view = [content |-> d, marks |-> m]]
    <2>0. conn[q].at = "begun" /\ conn[q].tx = "write" /\ conn[q].view \in Database
        BY <1>0, <1>3 DEF StatementWrites, ConnInv
    <2>1a. [content |-> d, marks |-> m] \in Database BY <2>0 DEF Database, Marks
    <2>2. k \in Conn /\ k.tx = conn[q].tx BY <1>0, <2>1a DEF Conn
    <2>3. ConnInv(q, k) BY <1>0, <2>0, <2>1a DEF Conn, ConnInv
    <2> QED BY <2>1, <2>2, <2>3, PrivateKeeps
<1>4. CASE StatementEnds(q)
    <2>0. conn[q].at = "ran" /\ conn[q].tx = "write" /\ conn[q].view \in Database
        BY <1>0, <1>4 DEF StatementEnds, ConnInv
    <2>1. CASE conn[q].writes
        <3> DEFINE k == [conn[q] EXCEPT !.at = "idle", !.view = Revoke(conn[q].view),
                                        !.pending = TRUE]
        <3>1. k \in Conn /\ k.tx = conn[q].tx BY <1>0, <2>0, RevokeType DEF Conn
        <3>2. ConnInv(q, k)
            BY <1>0, <2>0, RevokeType DEF Conn, ConnInv, Held
        <3> QED BY <1>4, <2>1, <3>1, <3>2, PrivateKeeps DEF StatementEnds
    <2>2. CASE ~conn[q].writes /\ conn[q].owned
        BY <1>4, <2>2, NoTxOK, PrivateKeeps DEF StatementEnds, NoTx
    <2>3. CASE ~conn[q].writes /\ ~conn[q].owned
        <3> DEFINE k == [conn[q] EXCEPT !.at = "idle"]
        <3>1. k \in Conn /\ k.tx = conn[q].tx BY <1>0 DEF Conn
        <3>2. ConnInv(q, k) BY <1>0, <2>0, <2>3 DEF Conn, ConnInv
        <3> QED BY <1>4, <2>3, <3>1, <3>2, PrivateKeeps DEF StatementEnds
    <2> QED BY <2>1, <2>2, <2>3
<1>5. CASE StatementFails(q)
    <2>0. /\ conn[q].at \in {"begun", "ran"} /\ conn[q].tx = "write"
          /\ conn[q].save \in Database
        BY <1>0, <1>5 DEF StatementFails, ConnInv
    <2>1. CASE conn[q].owned
        BY <1>5, <2>1, NoTxOK, PrivateKeeps DEF StatementFails, NoTx
    <2>2. CASE ~conn[q].owned
        <3> DEFINE k == [conn[q] EXCEPT !.at = "idle", !.view = conn[q].save]
        <3>1. k \in Conn /\ k.tx = conn[q].tx BY <1>0, <2>0 DEF Conn
        <3>2. ConnInv(q, k) BY <1>0, <2>0, <2>2 DEF Conn, ConnInv
        <3> QED BY <1>5, <2>2, <3>1, <3>2, PrivateKeeps DEF StatementFails
    <2> QED BY <2>1, <2>2
<1>6. CASE StatementRollsBack(q)
    BY <1>6, NoTxOK, PrivateKeeps DEF StatementRollsBack, NoTx
<1>7. CASE QueryCommits(q)
    <2>0. conn[q].view \in Database /\ Held(conn[q].view)
        BY <1>0, <1>7 DEF QueryCommits, ConnInv
    <2> DEFINE d == IF conn[q].pending THEN Revoke(conn[q].view) ELSE conn[q].view
    <2>1. d \in Database /\ Held(d) BY <2>0, RevokeType DEF Held
    <2> QED BY <1>7, <2>1, CommitKeeps DEF QueryCommits
<1>8. CASE QueryCommitFails(q)
    <2>0. /\ conn[q].at = "idle" /\ conn[q].tx = "write"
          /\ conn[q].view \in Database /\ Held(conn[q].view)
        BY <1>0, <1>8 DEF QueryCommitFails, ConnInv
    <2> DEFINE d == IF conn[q].pending THEN Revoke(conn[q].view) ELSE conn[q].view
               k == [conn[q] EXCEPT !.view = d]
               n == [NoTx EXCEPT !.pending = conn[q].pending]
    <2>1. d \in Database /\ Held(d) BY <2>0, RevokeType DEF Held
    <2>2. k \in Conn /\ k.tx = conn[q].tx /\ n \in Conn /\ n.tx = "none"
        BY <1>0, <2>1 DEF Conn, NoTx
    <2>3. ConnInv(q, k) BY <1>0, <2>0, <2>1 DEF Conn, ConnInv
    <2>4. ConnInv(q, n) BY DEF ConnInv, NoTx
    <2>5. Private(q, k) \/ Private(q, n) BY <1>8 DEF QueryCommitFails
    <2> HIDE DEF k, n
    <2> QED BY <2>2, <2>3, <2>4, <2>5, PrivateKeeps
<1>9. CASE QueryGivesUp(q)
    BY <1>9, NoTxOK, PrivateKeeps DEF QueryGivesUp, NoTx
<1> QED
    BY <1>1, <1>2, <1>3, <1>4, <1>5, <1>6, <1>7, <1>8, <1>9 DEF QueryStep

\* An exec command keeps the invariant: its own bracket revokes.
LEMMA ExecKeeps ==
    ASSUME TrustInv, NEW e \in Execs, ExecStep(e)
    PROVE  TrustInv'
<1> e \in Conns /\ e \notin Queries /\ e \notin Resolvers
    BY TrustAssumption DEF Conns
<1>0. /\ conn[e] \in Conn /\ ConnInv(e, conn[e])
      /\ db \in Database
    BY DEF TrustInv, TypeOK
<1>1. CASE ExecRuns(e)
    <2>1. PICK d \in Contents, m \in {db.marks, "none", "skipped", "verified"} :
             Private(e, [NoTx EXCEPT !.tx = "write", !.at = "ran",
                                     !.view = [content |-> d, marks |-> m]])
        BY <1>1 DEF ExecRuns
    <2> DEFINE k == [NoTx EXCEPT !.tx = "write", !.at = "ran",
                                 !.view = [content |-> d, marks |-> m]]
    <2>2. [content |-> d, marks |-> m] \in Database BY <1>0 DEF Database, Marks
    <2>3. k \in Conn BY <2>2 DEF Conn, NoTx
    <2>4. ConnInv(e, k) BY <2>2 DEF ConnInv, NoTx
    <2>5. LockFree BY <1>1 DEF ExecRuns
    <2> QED BY <2>1, <2>3, <2>4, <2>5, PrivateKeeps
<1>2. CASE ExecCommits(e)
    <2>1. conn[e].tx = "write" /\ conn[e].view \in Database
        BY <1>0, <1>2 DEF ExecCommits, ConnInv
    <2>2. Revoke(conn[e].view) \in Database /\ Held(Revoke(conn[e].view))
        BY <2>1, RevokeType DEF Held
    <2> QED BY <1>2, <2>1, <2>2, CommitKeeps DEF ExecCommits
<1> QED BY <1>1, <1>2 DEF ExecStep

\* What a connection reads once it has the lock, and that it may have it.
LEMMA LocksOK ==
    ASSUME TrustInv, NEW r \in Resolvers, Locks(r)
    PROVE  /\ Seen(r) \in Database
           /\ conn[r].at # "ran" => Held(Seen(r))
           /\ conn[r].tx = "write" \/ LockFree
<1>1. conn[r] \in Conn /\ ConnInv(r, conn[r]) /\ db \in Database
    BY DEF TrustInv, TypeOK, Conns
<1> QED BY <1>1 DEF Locks, Seen, ConnInv, Held

\* Resolver and atomizer calls keep the invariant, inside a transaction of their
\* caller too.
LEMMA ResolverKeeps ==
    ASSUME TrustInv, NEW r \in Resolvers, ResolverStep(r)
    PROVE  TrustInv'
<1> r \in Conns /\ r \notin Queries /\ r \notin Execs
    BY TrustAssumption DEF Conns
<1>0. /\ conn[r] \in Conn /\ ConnInv(r, conn[r])
      /\ db \in Database
    BY DEF TrustInv, TypeOK
<1>1. CASE CallerBegins(r)
    <2> DEFINE k == [NoTx EXCEPT !.tx = "begun"]
    <2>1. k \in Conn /\ k.tx = "begun" /\ ConnInv(r, k) BY DEF Conn, NoTx, ConnInv
    <2> QED BY <1>1, <2>1, PrivateKeeps DEF CallerBegins
<1>2. CASE CallerReads(r) \/ AtomizeBlocked(r)
    <2> DEFINE k == [NoTx EXCEPT !.tx = "read"]
    <2>1. k \in Conn /\ k.tx = "read" /\ ConnInv(r, k) BY DEF Conn, NoTx, ConnInv
    <2> QED BY <1>2, <2>1, PrivateKeeps DEF CallerReads, AtomizeBlocked
<1>3. CASE CallerCommits(r)
    <2>1. CASE conn[r].tx = "write"
        <3>1. conn[r].view \in Database /\ Held(conn[r].view)
            BY <1>0, <1>3, <2>1 DEF CallerCommits, ConnInv
        <3> QED BY <1>3, <2>1, <3>1, CommitKeeps DEF CallerCommits
    <2>2. CASE conn[r].tx # "write"
        BY <1>3, <2>2, NoTxOK, PrivateKeeps DEF CallerCommits, NoTx
    <2> QED BY <2>1, <2>2
<1>4. CASE MutationBegins(r)
    <2> DEFINE k == [conn[r] EXCEPT !.tx = "write", !.at = "mutating", !.view = Seen(r),
                                    !.save = Seen(r), !.owned = (conn[r].tx = "none")]
    <2>1. /\ Seen(r) \in Database /\ Held(Seen(r))
          /\ conn[r].tx = "write" \/ LockFree
        BY <1>4, LocksOK DEF MutationBegins
    <2>2. k \in Conn BY <1>0, <2>1 DEF Conn
    <2>3. ConnInv(r, k) BY <1>0, <2>1 DEF Conn, ConnInv
    <2> QED BY <1>4, <2>1, <2>2, <2>3, PrivateKeeps DEF MutationBegins
<1>5. CASE MutationEnds(r)
    <2>1. /\ conn[r].tx = "write" /\ conn[r].view \in Database /\ Held(conn[r].view)
        BY <1>0, <1>5 DEF MutationEnds, ConnInv
    <2>2. PICK d \in MutationResult(r) :
             IF conn[r].owned THEN Commit(r, d, NoTx)
             ELSE Private(r, [conn[r] EXCEPT !.at = "idle", !.view = d])
        BY <1>5 DEF MutationEnds
    <2>3. d \in Database /\ Held(d)
        <3>1. CASE d = conn[r].view BY <2>1, <3>1
        <3>2. CASE \E e \in Contents : d = Revoke([conn[r].view EXCEPT !.content = e])
            BY <2>1, <3>2 DEF Revoke, Held, Database, Marks
        <3> QED BY <2>2, <3>1, <3>2 DEF MutationResult
    <2>4. CASE conn[r].owned
        BY <2>1, <2>2, <2>3, <2>4, CommitKeeps
    <2>5. CASE ~conn[r].owned
        <3> DEFINE k == [conn[r] EXCEPT !.at = "idle", !.view = d]
        <3>1. k \in Conn /\ k.tx = conn[r].tx BY <1>0, <2>3 DEF Conn
        <3>2. ConnInv(r, k) BY <1>0, <2>1, <2>3 DEF Conn, ConnInv
        <3> QED BY <2>2, <2>5, <3>1, <3>2, PrivateKeeps
    <2> QED BY <2>4, <2>5
<1>6. CASE MutationFails(r)
    <2>0. conn[r].at = "mutating" /\ conn[r].tx = "write"
          /\ conn[r].save \in Database /\ Held(conn[r].save)
        BY <1>0, <1>6 DEF MutationFails, ConnInv
    <2>1. CASE conn[r].owned
        BY <1>6, <2>1, NoTxOK, PrivateKeeps DEF MutationFails, NoTx
    <2>2. CASE ~conn[r].owned
        <3> DEFINE k == [conn[r] EXCEPT !.at = "idle", !.view = conn[r].save]
        <3>1. k \in Conn /\ k.tx = conn[r].tx BY <1>0, <2>0 DEF Conn
        <3>2. ConnInv(r, k) BY <1>0, <2>0 DEF Conn, ConnInv
        <3> QED BY <1>6, <2>2, <3>1, <3>2, PrivateKeeps DEF MutationFails
    <2> QED BY <2>1, <2>2
<1>7. CASE AtomizeRow(r)
    <2>1. /\ Seen(r) \in Database /\ Held(Seen(r))
          /\ conn[r].tx = "write" \/ LockFree
        BY <1>7, LocksOK DEF AtomizeRow
    <2>2. PICK v \in Database, at \in {"first", "more"} :
             /\ Held(v)
             /\ at = "more" => v.marks = "none"
             /\ Private(r, [conn[r] EXCEPT !.tx = "write", !.at = at, !.view = v])
        <3>1. CASE Private(r, [conn[r] EXCEPT !.tx = "write", !.at = "first",
                                              !.view = Seen(r)])
            BY <2>1, <3>1
        <3>2. ASSUME NEW d \in Contents,
                     Private(r, [conn[r] EXCEPT !.tx = "write", !.at = "more",
                                    !.view = Revoke([Seen(r) EXCEPT !.content = d])])
              PROVE  Revoke([Seen(r) EXCEPT !.content = d]) \in Database
                     /\ Revoke([Seen(r) EXCEPT !.content = d]).marks = "none"
            BY <2>1 DEF Revoke, Database, Marks
        <3> QED BY <1>7, <3>1, <3>2 DEF AtomizeRow, Held
    <2> DEFINE k == [conn[r] EXCEPT !.tx = "write", !.at = at, !.view = v]
    <2>3. k \in Conn BY <1>0 DEF Conn
    <2>4. ConnInv(r, k) BY <1>0, <2>2 DEF Conn, ConnInv
    <2> QED BY <2>1, <2>2, <2>3, <2>4, PrivateKeeps
<1>8. CASE AtomizeMore(r)
    <2>0. /\ conn[r].at = "more" /\ conn[r].tx = "write"
          /\ conn[r].view \in Database /\ conn[r].view.marks = "none"
        BY <1>0, <1>8 DEF AtomizeMore, ConnInv
    <2>1. PICK d \in Contents : Private(r, [conn[r] EXCEPT !.view.content = d])
        BY <1>8 DEF AtomizeMore
    <2> DEFINE k == [conn[r] EXCEPT !.view.content = d]
    <2>2. [conn[r].view EXCEPT !.content = d] \in Database
          /\ [conn[r].view EXCEPT !.content = d].marks = "none"
        BY <2>0 DEF Database
    <2>3. k \in Conn /\ k.tx = "write" /\ k.at = "more"
          /\ k.view = [conn[r].view EXCEPT !.content = d]
        BY <1>0, <2>0, <2>2 DEF Conn
    <2>4. ConnInv(r, k) BY <2>2, <2>3 DEF ConnInv, Held
    <2> QED BY <2>0, <2>1, <2>3, <2>4, PrivateKeeps
<1>9. CASE AtomizeCommits(r)
    <2>1. /\ conn[r].tx = "write" /\ conn[r].view \in Database /\ Held(conn[r].view)
        BY <1>0, <1>9 DEF AtomizeCommits, ConnInv
    <2> QED BY <1>9, <2>1, CommitKeeps DEF AtomizeCommits
<1>10. CASE AtomizeFails(r)
    <2> DEFINE k == [conn[r] EXCEPT !.at = "idle"]
    <2>1. k \in Conn /\ k.tx = conn[r].tx BY <1>0 DEF Conn
    <2>2. ConnInv(r, k) BY <1>0, <1>10 DEF Conn, ConnInv, AtomizeFails
    <2> QED BY <1>10, <2>1, <2>2, PrivateKeeps DEF AtomizeFails
<1> QED
    BY <1>1, <1>2, <1>3, <1>4, <1>5, <1>6, <1>7, <1>8, <1>9, <1>10 DEF ResolverStep

\* The initializer and the remediation keep the invariant.
LEMMA FrameworkKeeps ==
    ASSUME TrustInv, InitializeMetadata \/ RemedyStep
    PROVE  TrustInv'
<1>0. /\ db \in Database /\ remedy \in RemedyAt /\ audited \in Contents
      /\ remedy \notin {"idle", "mark"} => db.marks \in {"none", "failed"}
    BY DEF TrustInv, TypeOK, RemediationRevokesFirst
<1>1. CASE InitializeMetadata
    <2>1. PICK d \in Contents : Publish(Revoke([db EXCEPT !.content = d]), remedy)
        BY <1>1 DEF InitializeMetadata
    <2> DEFINE n == Revoke([db EXCEPT !.content = d])
    <2>2. n \in Database /\ n.marks = "none" BY <1>0 DEF Revoke, Database, Marks
    <2>3. audited' = audited BY <1>1 DEF InitializeMetadata
    <2> HIDE DEF n
    <2> QED BY <1>0, <2>1, <2>2, <2>3, PublishKeeps DEF n
<1>2. CASE RemedyMarks \/ RemedyFails
    <2>1. MarkFailed(db) \in Database /\ MarkFailed(db).marks = "failed"
        BY <1>0 DEF MarkFailed, Revoke, Database, Marks
    <2>2. CASE Publish(MarkFailed(db), "update") /\ UNCHANGED audited
        BY <1>0, <2>1, <2>2, PublishKeeps DEF RemedyAt
    <2>3. CASE Publish(MarkFailed(db), "idle") /\ UNCHANGED audited
        BY <1>0, <2>1, <2>3, PublishKeeps DEF RemedyAt
    <2>4. CASE remedy' = "idle" /\ UNCHANGED <<db, audited, conn>>
        BY <2>4 DEF TrustInv, TypeOK, EvidenceIsCurrent, EvidenceIsPermitted,
                    RemediationRevokesFirst, OneWriter, ConnInv, Held, RemedyAt
    <2> QED BY <1>2, <2>2, <2>3, <2>4 DEF RemedyMarks, RemedyFails
<1>3. CASE RemedyUpdates \/ RemedySanitizes
    <2>1. PICK d \in Contents, at \in {"sanitize", "scan"} :
             Publish([db EXCEPT !.content = d], at)
        BY <1>3, TrustAssumption DEF RemedyUpdates, RemedySanitizes
    <2>2. /\ [db EXCEPT !.content = d] \in Database
          /\ [db EXCEPT !.content = d].marks \in {"none", "failed"}
        BY <1>0, <1>3 DEF Database, RemedyUpdates, RemedySanitizes
    <2>3. audited' = audited BY <1>3 DEF RemedyUpdates, RemedySanitizes
    <2> QED BY <1>0, <2>1, <2>2, <2>3, PublishKeeps DEF RemedyAt
<1>4. CASE RemedyBegins \/ GateScans
    <2>1. /\ UNCHANGED <<db, audited, conn>> /\ remedy' \in RemedyAt
          /\ remedy' \notin {"idle", "mark"} => db.marks \in {"none", "failed"}
        BY <1>0, <1>4 DEF RemedyBegins, GateScans, RemedyAt
    <2> QED
        BY <2>1 DEF TrustInv, TypeOK, EvidenceIsCurrent, EvidenceIsPermitted,
                    RemediationRevokesFirst, OneWriter, ConnInv, Held
<1>5. CASE GateRecords
    <2>1. Publish([db EXCEPT !.marks = "verified"], "idle") /\ audited' = db.content
        BY <1>5 DEF GateRecords
    <2>2. /\ [db EXCEPT !.marks = "verified"] \in Database
          /\ [db EXCEPT !.marks = "verified"].content = db.content
          /\ db.content \in Contents /\ db.content \in Permitted
        BY <1>0, <1>5 DEF Database, Marks, GateRecords
    <2> QED BY <2>1, <2>2, PublishKeeps DEF RemedyAt
<1> QED BY <1>1, <1>2, <1>3, <1>4, <1>5 DEF RemedyStep

\* TrustInv holds in every reachable state: transactions hold no evidence for
\* what they changed, for any number of connections.
THEOREM TrustInvariant == Spec => []TrustInv
<1>1. Init => TrustInv BY InitInv
<1>2. TrustInv /\ [Next]_vars => TrustInv'
    <2> SUFFICES ASSUME TrustInv, [Next]_vars PROVE TrustInv' OBVIOUS
    <2>1. CASE \E q \in Queries : QueryStep(q) BY <2>1, QueryKeeps
    <2>2. CASE \E e \in Execs : ExecStep(e) BY <2>2, ExecKeeps
    <2>3. CASE \E r \in Resolvers : ResolverStep(r) BY <2>3, ResolverKeeps
    <2>4. CASE \E c \in Conns : Dies(c)
        BY <2>4, NoTxOK, PrivateKeeps DEF Dies, NoTx
    <2>5. CASE InitializeMetadata \/ RemedyStep BY <2>5, FrameworkKeeps
    <2>6. CASE UNCHANGED vars
        BY <2>6 DEF TrustInv, TypeOK, EvidenceIsCurrent, EvidenceIsPermitted,
                    RemediationRevokesFirst, OneWriter, ConnInv, Held, vars
    <2> QED BY <2>1, <2>2, <2>3, <2>4, <2>5, <2>6 DEF Next
<1> QED BY <1>1, <1>2, PTL DEF Spec

\* No writer of the framework commits a content under evidence recorded for
\* another one (invalidate_sanitization in the writer's own transaction).
THEOREM EvidenceCurrent == Spec => []EvidenceIsCurrent
<1>1. TrustInv => EvidenceIsCurrent BY DEF TrustInv
<1> QED BY <1>1, TrustInvariant, PTL

\* Whatever a caller may be left holding after a failure, it is free of evidence.
THEOREM PendingRevoked == Spec => []PendingIsRevoked
<1>1. TrustInv => PendingIsRevoked BY DEF TrustInv, ConnInv, PendingIsRevoked
<1> QED BY <1>1, TrustInvariant, PTL

\* A guarded session that only reads does not keep the write lock.
THEOREM ReadsHoldNoLock == Spec => []NoIdleLock
<1>1. TrustInv => NoIdleLock BY DEF TrustInv, ConnInv, NoIdleLock, Conns
<1> QED BY <1>1, TrustInvariant, PTL

\* An interrupted remediation leaves no evidence behind.
THEOREM RemedyUntrusted == Spec => []RemediationRevokesFirst
<1>1. TrustInv => RemediationRevokesFirst BY DEF TrustInv
<1> QED BY <1>1, TrustInvariant, PTL
============================================================================
