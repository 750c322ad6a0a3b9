--------------------------- MODULE PipelineProofs ---------------------------
(***************************************************************************)
(* Theorems about the build protocol, for every number and kind of phases, *)
(* every way of calling it and any number of faults.                       *)
(***************************************************************************)
EXTENDS Pipeline, SequenceTheorems, WellFoundedInduction, TLAPS

-----------------------------------------------------------------------------
(* Least and greatest phases.                                              *)

LEMMA LeastExists ==
    ASSUME NEW S, S \subseteq Nat, S # {}
    PROVE  \E x \in S : \A y \in S : x <= y
<1>1. PICK x \in S : \A y \in S : ~(<<y, x>> \in OpToRel(<, Nat))
  BY NatLessThanWellFounded, WFMin
<1>2. \A y \in S : ~(y < x)
  BY <1>1 DEF OpToRel
<1>3. QED
  BY <1>2

\* The resume point is a phase, or one past the last; it is the least index from
\* which no phase on is complete.
LEMMA NextPhaseIsLeast ==
    ASSUME NEW s \in [Phases -> {"none", "running", "complete", "failed"}]
    PROVE  /\ NextPhase(s) \in 1..(N + 1)
           /\ \A i \in Phases : i >= NextPhase(s) => s[i] # "complete"
           /\ \A k \in 1..(N + 1) :
                (\A i \in Phases : i >= k => s[i] # "complete")
                    => NextPhase(s) <= k
<1> DEFINE after == {k \in 1..(N + 1) : \A i \in Phases : i >= k => s[i] # "complete"}
<1>1. N + 1 \in after
  BY ConstantsAssumption DEF Phases
<1>2. after \subseteq Nat
  BY ConstantsAssumption
<1>3. \E k \in after : \A j \in after : k <= j
  BY <1>1, <1>2, LeastExists
<1>4. NextPhase(s) = CHOOSE k \in after : \A j \in after : k <= j
  BY DEF NextPhase
<1>5. NextPhase(s) \in after /\ \A j \in after : NextPhase(s) <= j
  <2> HIDE DEF after
  <2>1. QED BY <1>3, <1>4
<1>6. QED
  BY <1>5

\* The sanitize phase a rewritten identity is sent back to is the first one.
LEMMA FirstSanitizeIsLeast ==
    ASSUME SanitizeIndices # {}
    PROVE  /\ FirstSanitize \in SanitizeIndices
           /\ \A i \in SanitizeIndices : FirstSanitize <= i
<1>1. SanitizeIndices \subseteq Nat
  BY ConstantsAssumption DEF SanitizeIndices, Phases
<1>2. \E i \in SanitizeIndices : \A j \in SanitizeIndices : i <= j
  BY <1>1, LeastExists
<1>3. QED
  BY <1>2 DEF FirstSanitize

-----------------------------------------------------------------------------
(* Types.                                                                  *)

\* TypeOK is not inductive by itself: a version row takes its run and its input
\* from the running object, which takes them from the checkpoint it resumed, and
\* the index of a phase that finished is increased.
TypeInv ==
    /\ TypeOK
    /\ ctx.live => ctx.run \in Tokens /\ ctx.input \in Inputs
    /\ pc # "idle" => ctx.live
    /\ meta.state # "none" => meta.run \in Tokens
    /\ pc \in {"handler", "complete", "failed"} => ctx.i <= N

\* A recorded identity is well formed.
LEMMA IntentType ==
    ASSUME TypeInv, NEW s \in {"upgrading", "prepared", "bound"},
           NEW c \in Object, c.run \in Tokens
    PROVE  /\ Intent(s, c) \in Meta
           /\ Intent(s, c).state = s
           /\ Intent(s, c).run = c.run
  BY DEF Intent, Meta, Object, TypeInv, TypeOK

LEMMA RowsOfType ==
    ASSUME TypeInv, NEW t \in Tokens
    PROVE  RowsOf(t) \subseteq Nat
  BY LenProperties DEF RowsOf, TypeInv, TypeOK

\* What the two paths of Restored assign.
TookPrepared(o, v, b) == [o EXCEPT !.ver = v, !.recover = b]
TookBound(o, v, b) == [o EXCEPT !.ver = v, !.upgrade = b]

SameBut(d, o) ==
    /\ d \in Object
    /\ d.run = o.run /\ d.key = o.key /\ d.resan = o.resan
    /\ d.live = o.live /\ d.input = o.input /\ d.fresh = o.fresh

LEMMA TookShape ==
    \A o \in Object, v \in Nat, b \in BOOLEAN :
        /\ SameBut(TookPrepared(o, v, b), o) /\ TookPrepared(o, v, b).ver = v
        /\ TookPrepared(o, v, b).upgrade = o.upgrade
        /\ SameBut(TookBound(o, v, b), o) /\ TookBound(o, v, b).ver = v
        /\ TookBound(o, v, b).upgrade = b
<1> SUFFICES ASSUME NEW o \in Object, NEW v \in Nat, NEW b \in BOOLEAN
             PROVE  /\ SameBut(TookPrepared(o, v, b), o) /\ TookPrepared(o, v, b).ver = v
                    /\ TookPrepared(o, v, b).upgrade = o.upgrade
                    /\ SameBut(TookBound(o, v, b), o) /\ TookBound(o, v, b).ver = v
                    /\ TookBound(o, v, b).upgrade = b
  OBVIOUS
<1>1. /\ SameBut(TookPrepared(o, v, b), o) /\ TookPrepared(o, v, b).ver = v
      /\ TookPrepared(o, v, b).upgrade = o.upgrade
  BY ZenonT(60) DEF Object, TookPrepared, SameBut
<1>2. /\ SameBut(TookBound(o, v, b), o) /\ TookBound(o, v, b).ver = v
      /\ TookBound(o, v, b).upgrade = b
  BY ZenonT(60) DEF Object, TookBound, SameBut
<1>3. QED
  BY <1>1, <1>2

\* A restored object is well formed and has the identity of the checkpoint.
LEMMA RestoredType ==
    ASSUME TypeInv, NEW c \in Object, meta.state # "none"
    PROVE  LET d == Restored(c, meta)
           IN  /\ d \in Object
               /\ d.run = meta.run /\ d.key = meta.key /\ d.resan = meta.resan
               /\ d.live = c.live /\ d.input = c.input /\ d.fresh = c.fresh
               /\ meta.state # "prepared" =>
                    d.ver = meta.ver /\ d.upgrade = (meta.state \in {"legacy", "upgrading"})
               /\ meta.state = "prepared" => d.upgrade = c.upgrade
               /\ meta.state = "prepared" => \/ d.ver \in RowsOf(meta.run)
                                             \/ d.ver = 0 /\ RowsOf(meta.run) = {}
<1> DEFINE o == [c EXCEPT !.run = meta.run, !.key = meta.key, !.resan = meta.resan]
<1>1. /\ meta.run \in Tokens /\ meta.key \in Tokens \cup {None}
      /\ meta.resan \in BOOLEAN /\ meta.ver \in Nat
  BY DEF TypeInv, TypeOK, Meta
<1>2. /\ o \in Object
      /\ o.run = meta.run /\ o.key = meta.key /\ o.resan = meta.resan
      /\ o.live = c.live /\ o.input = c.input /\ o.fresh = c.fresh /\ o.upgrade = c.upgrade
  BY <1>1 DEF Object
<1>3. CASE meta.state = "prepared"
  <2> DEFINE v == IF RowsOf(meta.run) = {} THEN 0
                  ELSE CHOOSE v \in RowsOf(meta.run) : TRUE
             b == RowsOf(meta.run) = {}
  <2>1. v \in Nat
    BY <1>1, RowsOfType
  <2>2. b \in BOOLEAN
    OBVIOUS
  <2>3. Restored(c, meta) = TookPrepared(o, v, b)
    BY <1>3, Zenon DEF Restored, TookPrepared
  <2>4. v \in RowsOf(meta.run) \/ (v = 0 /\ RowsOf(meta.run) = {})
    OBVIOUS
  <2> HIDE DEF o, v, b
  <2>5. /\ SameBut(Restored(c, meta), o) /\ Restored(c, meta).ver = v
        /\ Restored(c, meta).upgrade = o.upgrade
    BY <1>2, <2>1, <2>2, <2>3, TookShape
  <2>6. QED
    BY <1>2, <1>3, <2>4, <2>5 DEF SameBut
<1>4. CASE meta.state # "prepared"
  <2> DEFINE b == meta.state \in {"legacy", "upgrading"}
  <2>1. b \in BOOLEAN
    OBVIOUS
  <2>2. Restored(c, meta) = TookBound(o, meta.ver, b)
    BY <1>4, Zenon DEF Restored, TookBound
  <2> HIDE DEF o, b
  <2>3. /\ SameBut(Restored(c, meta), o) /\ Restored(c, meta).ver = meta.ver
        /\ Restored(c, meta).upgrade = b
    BY <1>1, <1>2, <2>1, <2>2, TookShape
  <2>4. QED
    BY <1>2, <1>4, <2>3 DEF SameBut, b
<1>5. QED
  BY <1>3, <1>4

\* The flags of an object, and the columns of a row, assigned one at a time.
LEMMA FlagType ==
    \A o \in Object :
        /\ LET d == [o EXCEPT !.resan = TRUE]
           IN  /\ d \in Object
               /\ d.run = o.run /\ d.key = o.key /\ d.live = o.live /\ d.input = o.input
        /\ SameBut([o EXCEPT !.upgrade = FALSE], o)
        /\ LET d == [o EXCEPT !.resan = FALSE]
           IN  /\ d \in Object
               /\ d.run = o.run /\ d.key = o.key /\ d.live = o.live /\ d.input = o.input
  BY ZenonT(60) DEF Object, SameBut

\* The object a restore that raises leaves: of the same input and still in use.
LEMMA TriedType ==
    ASSUME TypeInv, NEW c \in Object, NEW d \in Tried(c, meta)
    PROVE  /\ d \in Object /\ d.live = c.live /\ d.input = c.input
           /\ d.run \in {c.run} \cup (Tokens \cap {meta.run})
           /\ d.upgrade = c.upgrade /\ d.fresh = c.fresh
           /\ c.ver = 0 => d.ver = 0
<1> DEFINE f == [c EXCEPT !.resan = meta.resan]
           g == [f EXCEPT !.run = meta.run, !.ver = 0, !.key = meta.key, !.recover = FALSE]
<1>1. /\ meta.run \in Tokens \cup {None} /\ meta.key \in Tokens \cup {None}
      /\ meta.resan \in BOOLEAN /\ (meta.state # "none" => meta.run \in Tokens)
  BY DEF TypeInv, TypeOK, Meta
<1>2. d = c \/ d = f \/ (d = g /\ meta.state = "prepared")
  BY Zenon DEF Tried
<1>3. /\ f \in Object /\ f.live = c.live /\ f.input = c.input /\ f.run = c.run
      /\ f.upgrade = c.upgrade /\ f.fresh = c.fresh /\ f.ver = c.ver
  BY <1>1 DEF Object
<1> HIDE DEF f
<1>4. /\ g \in Object /\ g.live = f.live /\ g.input = f.input /\ g.run = meta.run
      /\ g.upgrade = f.upgrade /\ g.fresh = f.fresh /\ g.ver = 0
  BY <1>1, <1>3 DEF Object
<1> HIDE DEF g
<1>5. CASE d = g /\ meta.state = "prepared"
  BY <1>1, <1>3, <1>4, <1>5
<1>6. CASE d = c \/ d = f
  BY <1>3, <1>6
<1>7. QED
  BY <1>2, <1>5, <1>6

LEMMA RowType ==
    ASSUME NEW r \in Row
    PROVE  /\ [r EXCEPT !.completed = TRUE] \in Row
           /\ \A k \in Tokens \cup {None} : [r EXCEPT !.key = k] \in Row
<1>1. [r EXCEPT !.completed = TRUE] \in Row
  BY ZenonT(60) DEF Row
<1>2. \A k \in Tokens \cup {None} : [r EXCEPT !.key = k] \in Row
  BY DEF Row
<1>3. QED
  BY <1>1, <1>2

LEMMA VersionsType ==
    ASSUME NEW w \in Seq(Row), NEW v
    PROVE  /\ [w EXCEPT ![v].completed = TRUE] \in Seq(Row)
           /\ \A k \in Tokens \cup {None} : [w EXCEPT ![v].key = k] \in Seq(Row)
<1>1. DOMAIN w = 1..Len(w)
  BY LenProperties
<1>2. CASE v \in 1..Len(w)
  <2>1. w[v] \in Row
    BY <1>2, ElementOfSeq
  <2>2. /\ [w[v] EXCEPT !.completed = TRUE] \in Row
        /\ \A k \in Tokens \cup {None} : [w[v] EXCEPT !.key = k] \in Row
    BY <2>1, RowType
  <2>3. QED
    BY <1>2, <2>2, ExceptSeq
<1>3. CASE v \notin 1..Len(w)
  <2>1. \A e : [w EXCEPT ![v] = e] = w
    BY <1>1, <1>3, LenProperties
  <2>2. QED
    BY <2>1
<1>4. QED
  BY <1>2, <1>3

LEMMA KeptType ==
    ASSUME TypeInv
    PROVE  /\ NoObject \in Object /\ ~NoObject.live
           /\ \A c \in Object : (c.live => c.run \in Tokens /\ c.input \in Inputs) =>
                /\ Kept(c) \in Object
                /\ Kept(c).live => Kept(c).run \in Tokens /\ Kept(c).input \in Inputs
<1>1. NoObject \in Object /\ ~NoObject.live
  BY ConstantsAssumption DEF NoObject, Object
<1>2. QED
  BY <1>1 DEF Kept

LEMMA TypeInit == Init => TypeInv
<1> SUFFICES ASSUME Init PROVE TypeInv
  OBVIOUS
<1>1. /\ pc = "idle" /\ ctx = NoObject /\ outcome = "none" /\ faults = 0
      /\ NoObject \in Object /\ NoMeta \in Meta /\ ~NoObject.live
      /\ NoMeta.state = "none"
  BY ConstantsAssumption DEF Init, NoObject, Object, NoMeta, Meta
<1>2. CASE FreshInit
  BY <1>1, <1>2, EmptySeq DEF FreshInit, TypeInv, TypeOK, PCs, NoWork, NoStatus
<1>3. CASE LegacyInit
  <2>1. PICK a \in Inputs, t \in Tokens, done \in BOOLEAN :
          /\ versions = <<[run |-> t, input |-> a, key |-> None, completed |-> done]>>
          /\ meta = [NoMeta EXCEPT !.state = "legacy", !.run = t, !.input = a, !.ver = 1]
    BY <1>3 DEF LegacyInit
  <2>2. [run |-> t, input |-> a, key |-> None, completed |-> done] \in Row
    BY DEF Row
  <2>3. versions \in Seq(Row)
    BY <2>1, <2>2
  <2>4. meta \in Meta /\ meta.run \in Tokens
    BY <2>1, <1>1 DEF NoMeta, Meta
  <2>5. /\ file \in {"absent", "partial", "full"} /\ trust = "unknown" /\ raw \in BOOLEAN
        /\ work \in [Phases -> {"none", "partial", "done"}]
        /\ status \in [Phases -> {"none", "running", "complete", "failed"}]
        /\ sidecar = "written"
    BY <1>3 DEF LegacyInit
  <2>6. QED
    BY <1>1, <2>3, <2>4, <2>5 DEF TypeInv, TypeOK, PCs
<1>4. QED
  BY <1>2, <1>3 DEF Init

LEMMA WithKeyType ==
    ASSUME TypeInv, ctx.live
    PROVE  LET c == WithKey(ctx)
           IN  c \in Object /\ c.live /\ c.run = ctx.run /\ c.input = ctx.input
  BY DEF WithKey, Object, TypeInv, TypeOK

\* The actions of a build, up to its first phase.
LEMMA TypeStart == TypeInv /\ Call => TypeInv'
<1> SUFFICES ASSUME TypeInv,
                    NEW c \in Object, c.live, c.run \in Tokens, c.input \in Inputs,
                    NEW resume \in BOOLEAN, NEW sp \in 0..N, pc = "idle",
                    Run(c, resume, sp) \/ Refuse(c)
             PROVE  TypeInv'
  <2> SUFFICES ASSUME TypeInv, Call PROVE TypeInv'
    OBVIOUS
  <2>1. ASSUME NEW a \in Inputs, NEW t \in Tokens
        PROVE  /\ NewObject(a, t) \in Object /\ NewObject(a, t).live
               /\ NewObject(a, t).run \in Tokens /\ NewObject(a, t).input \in Inputs
    <3>1. NoObject \in Object
      BY KeptType
    <3>2. \A o \in Object :
            LET d == [o EXCEPT !.live = TRUE, !.input = a, !.run = t, !.fresh = t]
            IN  d \in Object /\ d.live /\ d.run = t /\ d.input = a
      BY ZenonT(60) DEF Object
    <3>3. QED
      BY <3>1, <3>2, Zenon DEF NewObject
  <2>2. ctx \in Object /\ (ctx.live => ctx.run \in Tokens /\ ctx.input \in Inputs)
    BY DEF TypeInv, TypeOK
  <2>3. CASE \E a \in Inputs, t \in Tokens \ UsedTokens : CliBuild(a, t)
    <3>1. PICK a \in Inputs, t \in Tokens : CliBuild(a, t)
      BY <2>3
    <3>2. /\ pc = "idle"
          /\ Run(NewObject(a, t), TRUE, 0) \/ Refuse(NewObject(a, t))
      BY <3>1 DEF CliBuild
    <3>3. 0 \in 0..N
      BY ConstantsAssumption
    <3>4. QED
      BY <2>1, <3>2, <3>3
  <2>4. CASE \E a \in Inputs, t \in Tokens \ UsedTokens, resume \in BOOLEAN,
               sp \in StartPhases : ApiBuild(a, t, resume, sp)
    BY <2>1, <2>4, ConstantsAssumption DEF ApiBuild
  <2>5. CASE \E resume \in BOOLEAN, sp \in StartPhases : ApiRerun(resume, sp)
    BY <2>2, <2>5, ConstantsAssumption DEF ApiRerun
  <2>6. QED
    BY <2>3, <2>4, <2>5 DEF Call
<1> USE DEF output, checkpoint
<1>1. CASE Resume(c, sp)
  <2> DEFINE r == Restored(c, meta)
             k == IF sp = 0 THEN NextPhase(status) ELSE sp
  <2>1. meta.state # "none" /\ meta.run \in Tokens
    BY <1>1 DEF Resume, Restorable, TypeInv
  <2>2. r \in Object /\ r.run \in Tokens /\ r.live /\ r.input \in Inputs
    BY <2>1, RestoredType
  <2>3. k \in 1..(N + 1)
    BY NextPhaseIsLeast, ConstantsAssumption DEF TypeInv, TypeOK
  <2>4. /\ ctx' = [r EXCEPT !.i = k] /\ pc' = FirstWrite(r)
        /\ UNCHANGED <<output, checkpoint, outcome, faults>>
    BY <1>1 DEF Resume
  <2> HIDE DEF r, k
  <2>5. ctx' \in Object /\ ctx'.live /\ ctx'.run \in Tokens /\ ctx'.input \in Inputs
    BY <2>2, <2>3, <2>4 DEF Object
  <2>6. pc' \in {"upgrade_intent", "create", "revoke"}
    BY <2>4 DEF FirstWrite
  <2>7. QED
    BY <2>4, <2>5, <2>6 DEF TypeInv, TypeOK, PCs, Identifying, Creating
<1>2. CASE Start(c, sp)
  <2> DEFINE k == IF sp = 0 THEN 1 ELSE sp
  <2>1. k \in 1..(N + 1)
    <3>1. N \in Nat /\ N >= 1 /\ sp \in Nat /\ sp <= N
      BY ConstantsAssumption
    <3>2. QED
      BY <3>1
  <2>2. ctx' = [c EXCEPT !.i = k]
    BY <1>2 DEF Start
  <2> HIDE DEF k
  <2>3. ctx' \in Object /\ ctx'.live /\ ctx'.run \in Tokens /\ ctx'.input \in Inputs
    BY <2>1, <2>2 DEF Object
  <2>4. NoMeta \in Meta /\ NoMeta.state = "none"
    BY DEF NoMeta, Meta
  <2>5. QED
    BY <1>2, <2>3, <2>4 DEF Start, TypeInv, TypeOK, PCs, Identifying, NoStatus
<1>3. ASSUME NEW d \in Tried(c, meta) \cup {c}, Refuse(d) PROVE TypeInv'
  <2>1. d \in Object /\ d.live /\ d.run \in Tokens /\ d.input \in Inputs
    BY TriedType
  <2>2. ctx' \in Object /\ (ctx'.live => ctx'.run \in Tokens /\ ctx'.input \in Inputs)
    BY <1>3, <2>1, KeptType DEF Refuse
  <2>3. QED
    BY <1>3, <2>2 DEF Refuse, TypeInv, TypeOK, PCs
<1>4. QED
  BY <1>1, <1>2, <1>3 DEF Run

\* The actions that establish the run's identity.
LEMMA TypeIdentity ==
    TypeInv /\ (\/ CreateSidecar \/ PersistIntent \/ UpgradeIntent \/ UpgradeOutput
                \/ CreateOutput \/ CompleteSchema \/ InsertVersion \/ Revoke \/ Bind)
      => TypeInv'
<1> USE DEF output, checkpoint, TypeInv, TypeOK, PCs, Identifying, Creating
<1> SUFFICES ASSUME TypeInv PROVE
        (\/ CreateSidecar \/ PersistIntent \/ UpgradeIntent \/ UpgradeOutput
         \/ CreateOutput \/ CompleteSchema \/ InsertVersion \/ Revoke \/ Bind) => TypeInv'
  OBVIOUS
<1>0. ctx \in Object /\ ctx.ver \in Nat /\ ctx.key \in Tokens \cup {None}
  BY DEF Object
<1>1. CreateSidecar => TypeInv'
  BY DEF CreateSidecar
<1>2. ASSUME PersistIntent PROVE TypeInv'
  <2> DEFINE c == WithKey(ctx)
             s == IF c.ver = 0 THEN "prepared" ELSE "bound"
             m == Intent(s, c)
  <2>1. /\ c \in Object /\ c.live /\ c.run = ctx.run /\ c.input = ctx.input
        /\ ctx.run \in Tokens /\ ctx.input \in Inputs
    BY <1>2, WithKeyType DEF PersistIntent
  <2>2. m \in Meta /\ m.run = c.run
    BY <2>1, IntentType
  <2>3. /\ Kept(c) \in Object
        /\ Kept(c).live => Kept(c).run \in Tokens /\ Kept(c).input \in Inputs
    BY <2>1, KeptType
  <2>4. /\ sidecar' = "written" /\ meta' = m
        /\ \/ pc' \in {"create", "revoke"} /\ ctx' = c /\ UNCHANGED outcome
           \/ pc' = "idle" /\ ctx' = Kept(c) /\ outcome' = "refused"
        /\ UNCHANGED <<output, status, faults>>
    BY <1>2 DEF PersistIntent
  <2> HIDE DEF c, m
  <2>5. QED
    BY <2>1, <2>2, <2>3, <2>4
<1>3. ASSUME UpgradeIntent PROVE TypeInv'
  <2> DEFINE c == [WithKey(ctx) EXCEPT !.resan = TRUE]
  <2>1. /\ c \in Object /\ c.live /\ c.run = ctx.run /\ c.input = ctx.input
        /\ ctx.run \in Tokens /\ ctx.input \in Inputs
    BY <1>3, WithKeyType, FlagType DEF UpgradeIntent
  <2>2. Intent("upgrading", c) \in Meta /\ Intent("upgrading", c).run = c.run
    BY <2>1, IntentType
  <2>3. /\ ctx' = c /\ meta' = Intent("upgrading", c) /\ pc' = "upgrade_output"
        /\ UNCHANGED <<output, sidecar, status, outcome, faults>>
    BY <1>3 DEF UpgradeIntent
  <2> HIDE DEF c
  <2>4. QED
    BY <2>1, <2>2, <2>3
<1>4. ASSUME UpgradeOutput PROVE TypeInv'
  <2>1. ctx.live /\ ctx.run \in Tokens /\ ctx.input \in Inputs
    BY <1>4 DEF UpgradeOutput
  <2>2. CASE ctx.ver \in DOMAIN versions
    <3>1. /\ versions' = [versions EXCEPT ![ctx.ver].key = ctx.key]
          /\ trust' = "unknown" /\ work' = Unsanitized(work)
          /\ ctx' = [ctx EXCEPT !.upgrade = FALSE] /\ pc' = "revoke"
          /\ UNCHANGED <<file, outcome, raw, checkpoint, faults>>
      BY <1>4, <2>2 DEF UpgradeOutput, Revoked
    <3>2. versions' \in Seq(Row)
      BY <1>0, <3>1, VersionsType
    <3>3. work' \in [Phases -> {"none", "partial", "done"}]
      BY <3>1 DEF Unsanitized
    <3>4. /\ ctx' \in Object /\ ctx'.live /\ ctx'.run \in Tokens /\ ctx'.input \in Inputs
      BY <2>1, <3>1, FlagType DEF SameBut
    <3>5. QED
      BY <3>1, <3>2, <3>3, <3>4
  <2>3. CASE ctx.ver \notin DOMAIN versions
    BY <1>4, <2>1, <2>3, KeptType DEF UpgradeOutput
  <2>4. QED
    BY <2>2, <2>3
<1>5. CreateOutput => TypeInv'
  BY DEF CreateOutput
<1>6. CompleteSchema => TypeInv'
  BY DEF CompleteSchema
<1>7. ASSUME InsertVersion PROVE TypeInv'
  <2>1. ctx.live /\ ctx.run \in Tokens /\ ctx.input \in Inputs
    BY <1>7 DEF InsertVersion
  <2>2. CASE pc' = "bind"
    <3> DEFINE r == [run |-> ctx.run, input |-> ctx.input, key |-> ctx.key,
                     completed |-> FALSE]
    <3>1. /\ versions' = Append(versions, r) /\ trust' = "unknown" /\ raw' \in {raw, TRUE}
          /\ work' = NoWork /\ ctx' = [ctx EXCEPT !.ver = Len(versions) + 1]
          /\ pc' = "bind"
          /\ UNCHANGED <<file, outcome, checkpoint, faults>>
      BY <1>7, <2>2 DEF InsertVersion, Revoked
    <3>2. r \in Row
      BY <1>0, <2>1 DEF Row
    <3>3. versions' \in Seq(Row) /\ Len(versions) \in Nat
      BY <3>1, <3>2, AppendProperties, LenProperties
    <3>4. /\ ctx' \in Object /\ ctx'.live /\ ctx'.run \in Tokens /\ ctx'.input \in Inputs
      <4>1. \A n \in Nat : LET d == [ctx EXCEPT !.ver = n]
                           IN  /\ d \in Object
                               /\ d.live = ctx.live /\ d.run = ctx.run /\ d.input = ctx.input
        BY <1>0 DEF Object
      <4>2. Len(versions) + 1 \in Nat
        BY <3>3
      <4>3. QED
        BY <2>1, <3>1, <4>1, <4>2
    <3>5. QED
      BY <3>1, <3>3, <3>4 DEF NoWork
  <2>3. CASE pc' = "idle"
    BY <1>7, <2>1, <2>3, KeptType DEF InsertVersion
  <2>4. QED
    BY <1>7, <2>2, <2>3 DEF InsertVersion
<1>8. Revoke => TypeInv'
  BY DEF Revoke, Revoked
<1>9. ASSUME Bind PROVE TypeInv'
  <2>1. ctx.live /\ ctx.run \in Tokens /\ ctx.input \in Inputs
    BY <1>9 DEF Bind
  <2>2. meta' \in Meta /\ meta'.run = ctx.run
    BY <1>9, <1>0, <2>1, IntentType DEF Bind
  <2>3. \/ ctx' = ctx
        \/ SanitizeIndices # {} /\ ctx' = [ctx EXCEPT !.i = FirstSanitize]
    BY <1>9 DEF Bind
  <2>4. SanitizeIndices # {} => FirstSanitize \in 1..(N + 1)
    BY FirstSanitizeIsLeast, ConstantsAssumption DEF SanitizeIndices, Phases
  <2>5. ctx' \in Object /\ ctx'.live /\ ctx'.run \in Tokens /\ ctx'.input \in Inputs
    BY <2>1, <2>3, <2>4 DEF Object
  <2>6. /\ pc' = "phase"
        /\ UNCHANGED <<output, sidecar, status, outcome, faults>>
    BY <1>9 DEF Bind
  <2>7. QED
    BY <2>1, <2>2, <2>5, <2>6 DEF InTry
<1>10. QED
  BY <1>1, <1>2, <1>3, <1>4, <1>5, <1>6, <1>7, <1>8, <1>9

\* The phase loop.
LEMMA TypePhases ==
    TypeInv /\ (\/ SavePhaseRunning \/ HandlerCommits \/ HandlerReturns \/ SavePhaseComplete
                \/ SavePhaseFailed \/ MarkSanitizeFailed \/ PhaseRaises)
      => TypeInv'
<1> USE DEF output, checkpoint, TypeInv, TypeOK, PCs, InTry
<1> SUFFICES ASSUME TypeInv PROVE
        (\/ SavePhaseRunning \/ HandlerCommits \/ HandlerReturns \/ SavePhaseComplete
         \/ SavePhaseFailed \/ MarkSanitizeFailed \/ PhaseRaises) => TypeInv'
  OBVIOUS
<1>0. ctx \in Object /\ ctx.i \in 1..(N + 1) /\ raw \in BOOLEAN
  BY DEF Object
<1>1. SavePhaseRunning => TypeInv'
  BY DEF SavePhaseRunning, SaveStatus
<1>2. HandlerCommits => TypeInv'
  BY <1>0 DEF HandlerCommits, RawAfter
<1>3. ASSUME HandlerReturns PROVE TypeInv'
  <2>1. raw' \in BOOLEAN
    BY <1>0, <1>3 DEF HandlerReturns, RawAfter
  <2>2. work' \in [Phases -> {"none", "partial", "done"}]
    BY <1>3 DEF HandlerReturns
  <2>3. trust' \in {"unknown", "verified", "failed", "skipped"}
    BY <1>3 DEF HandlerReturns
  <2>4. QED
    BY <1>3, <2>1, <2>2, <2>3 DEF HandlerReturns
<1>4. ASSUME SavePhaseComplete PROVE TypeInv'
  <2>1. ctx.i + 1 \in 1..(N + 1)
    BY <1>0, <1>4, ConstantsAssumption DEF SavePhaseComplete
  <2>2. /\ ctx' \in Object /\ ctx'.live = ctx.live
        /\ ctx'.run = ctx.run /\ ctx'.input = ctx.input
    <3>1. \A n \in 1..(N + 1) : LET d == [ctx EXCEPT !.i = n]
                              IN  /\ d \in Object /\ d.live = ctx.live
                                  /\ d.run = ctx.run /\ d.input = ctx.input
      BY <1>0 DEF Object
    <3>2. QED
      BY <1>4, <2>1, <3>1 DEF SavePhaseComplete
  <2>3. QED
    BY <1>4, <2>2 DEF SavePhaseComplete, SaveStatus
<1>5. ASSUME SavePhaseFailed PROVE TypeInv'
  BY <1>5, KeptType DEF SavePhaseFailed, SaveStatus
<1>6. MarkSanitizeFailed => TypeInv'
  BY KeptType DEF MarkSanitizeFailed
<1>7. PhaseRaises => TypeInv'
  BY ConstantsAssumption DEF PhaseRaises
<1>8. QED
  BY <1>1, <1>2, <1>3, <1>4, <1>5, <1>6, <1>7

\* The final gate, the end of a build, and what happens to it from outside.
LEMMA TypeEnd ==
    TypeInv /\ (\/ FinalizeVersion \/ GateScan \/ RecordAudit \/ GateRaises
                \/ GateMarksFailed \/ GateSavesFailed \/ ClearCheckpoint
                \/ Crash \/ Intervention)
      => TypeInv'
<1> USE DEF output, checkpoint, TypeInv, TypeOK, PCs, Finishing
<1> SUFFICES ASSUME TypeInv PROVE
        (\/ FinalizeVersion \/ GateScan \/ RecordAudit \/ GateRaises
         \/ GateMarksFailed \/ GateSavesFailed \/ ClearCheckpoint
         \/ Crash \/ Intervention) => TypeInv'
  OBVIOUS
<1>0. NoMeta \in Meta /\ NoMeta.state = "none"
  BY DEF NoMeta, Meta
<1>1. FinalizeVersion => TypeInv'
  BY VersionsType DEF FinalizeVersion
<1>2. GateScan => TypeInv'
  BY DEF GateScan
<1>3. RecordAudit => TypeInv'
  BY DEF RecordAudit
<1>4. GateRaises => TypeInv'
  BY ConstantsAssumption DEF GateRaises
<1>5. GateMarksFailed => TypeInv'
  BY DEF GateMarksFailed
<1>6. GateSavesFailed => TypeInv'
  BY KeptType DEF GateSavesFailed
<1>7. ASSUME ClearCheckpoint PROVE TypeInv'
  <2> DEFINE c == [ctx EXCEPT !.resan = FALSE]
  <2>1. c \in Object /\ c.live = ctx.live /\ c.run = ctx.run /\ c.input = ctx.input
    BY FlagType
  <2> HIDE DEF c
  <2>2. /\ Kept(c) \in Object
        /\ Kept(c).live => Kept(c).run \in Tokens /\ Kept(c).input \in Inputs
    BY <2>1, KeptType
  <2>3. /\ sidecar' = "absent" /\ meta' = NoMeta /\ status' = NoStatus /\ pc' = "idle"
        /\ ctx' = Kept(c) /\ outcome' = "done"
        /\ UNCHANGED <<output, faults>>
    BY <1>7 DEF ClearCheckpoint, c
  <2>4. QED
    BY <1>0, <2>2, <2>3 DEF NoStatus
<1>8. Crash => TypeInv'
  BY KeptType, ConstantsAssumption DEF Crash
<1>9. ASSUME NEW a \in Inputs, NEW t \in Tokens \ UsedTokens, FreshReplace(a, t)
      PROVE  TypeInv'
  <2>1. [run |-> t, input |-> a, key |-> t, completed |-> TRUE] \in Row
    BY DEF Row
  <2>2. versions' \in Seq(Row)
    BY <1>9, <2>1 DEF FreshReplace
  <2>3. QED
    BY <1>9, <2>2 DEF FreshReplace
<1>10. RemoveOutput => TypeInv'
  BY EmptySeq DEF RemoveOutput, NoWork
<1>11. RemoveCheckpoint => TypeInv'
  BY <1>0 DEF RemoveCheckpoint, NoStatus
<1>12. QED
  BY <1>1, <1>2, <1>3, <1>4, <1>5, <1>6, <1>7, <1>8, <1>9, <1>10, <1>11
  DEF Intervention

LEMMA TypeNext == TypeInv /\ [Next]_vars => TypeInv'
<1>1. TypeInv /\ UNCHANGED vars => TypeInv'
  BY DEF vars, TypeInv, TypeOK
<1>2. QED
  BY <1>1, TypeStart, TypeIdentity, TypePhases, TypeEnd DEF Next, Step, Fault

\* The running process, the two databases and the phase bookkeeping keep their
\* types, whoever starts and interrupts builds, and in whatever order.
THEOREM TypeCorrect == Spec => []TypeOK
<1>1. Spec => []TypeInv
  BY TypeInit, TypeNext, PTL DEF Spec
<1>2. TypeInv => TypeOK
  BY DEF TypeInv
<1>3. QED
  BY <1>1, <1>2, PTL

-----------------------------------------------------------------------------
(* A verified output is clean.                                             *)

\* What the gate saw still holds when its result is recorded: nothing can write
\* to the output in between.
CleanInv ==
    /\ VerifiedIsClean
    /\ pc = "audit" => GatePasses
    /\ NoEvidenceWhileBuilding

\* An action that leaves the output alone and does not enter a building state
\* with evidence in place.
LEMMA CleanQuiet ==
    ASSUME CleanInv, UNCHANGED output, pc' # "audit",
           \/ pc' \in {"idle", "sidecar", "intent", "upgrade_intent", "upgrade_output",
                       "create", "schema", "insert", "revoke", "clear"}
           \/ Building /\ pc # "clear"
    PROVE  CleanInv'
  BY DEF CleanInv, VerifiedIsClean, GatePasses, NoEvidenceWhileBuilding, Building, PCs,
         Identifying, Creating, InTry, Finishing, output

LEMMA CleanNext == TypeInv /\ CleanInv /\ [Next]_vars => CleanInv'
<1> SUFFICES ASSUME TypeInv, CleanInv, [Next]_vars PROVE CleanInv'
  OBVIOUS
<1> USE DEF CleanInv, VerifiedIsClean, NoEvidenceWhileBuilding, Building, PCs,
            Identifying, Creating, InTry, Finishing
<1>1. CASE Call
  <2>1. ASSUME NEW c, NEW resume, NEW sp, pc = "idle",
               Run(c, resume, sp) \/ Refuse(c)
        PROVE  CleanInv'
    <3>1. UNCHANGED output
      BY <2>1 DEF Run, Resume, Start, Refuse, output, checkpoint
    <3>2. pc' \in {"idle", "sidecar", "upgrade_intent", "create", "revoke"}
      BY <2>1 DEF Run, Resume, Start, Refuse, FirstWrite
    <3>3. QED
      BY <3>1, <3>2, CleanQuiet
  <2>2. \E c, resume, sp : pc = "idle" /\ (Run(c, resume, sp) \/ Refuse(c))
    <3>1. ASSUME NEW a, NEW t, CliBuild(a, t)
          PROVE  /\ pc = "idle"
                 /\ Run(NewObject(a, t), TRUE, 0) \/ Refuse(NewObject(a, t))
      BY <3>1, Zenon DEF CliBuild
    <3>2. QED
      BY <1>1, <3>1, Zenon DEF Call, ApiBuild, ApiRerun
  <2>3. QED
    BY <2>1, <2>2
<1>2. CASE CreateSidecar
  BY <1>2, CleanQuiet DEF CreateSidecar
<1>3. CASE PersistIntent
  BY <1>3, CleanQuiet DEF PersistIntent
<1>4. CASE UpgradeIntent
  BY <1>4, CleanQuiet DEF UpgradeIntent
<1>5. CASE UpgradeOutput
  BY <1>5, CleanQuiet DEF UpgradeOutput, Revoked, GatePasses, output
<1>6. CASE CreateOutput
  BY <1>6 DEF CreateOutput, GatePasses
<1>7. CASE CompleteSchema
  BY <1>7 DEF CompleteSchema, GatePasses
<1>8. CASE InsertVersion
  BY <1>8, CleanQuiet DEF InsertVersion, Revoked, GatePasses, output
<1>9. CASE Revoke
  BY <1>9 DEF Revoke, Revoked, GatePasses
<1>10. CASE Bind
  BY <1>10, CleanQuiet DEF Bind
<1>11. CASE SavePhaseRunning \/ SavePhaseComplete \/ SavePhaseFailed
            \/ GateSavesFailed \/ PhaseRaises \/ GateRaises
  BY <1>11, CleanQuiet DEF SavePhaseRunning, SavePhaseComplete, SavePhaseFailed,
                           GateSavesFailed, PhaseRaises, GateRaises, checkpoint
<1>12. CASE HandlerCommits
  BY <1>12 DEF HandlerCommits, GatePasses
<1>13. CASE HandlerReturns
  <2>1. trust # "verified" /\ trust' # "verified" /\ pc' = "complete"
    BY <1>13 DEF HandlerReturns
  <2>2. QED
    BY <2>1
<1>14. CASE MarkSanitizeFailed
  BY <1>14 DEF MarkSanitizeFailed, GatePasses
<1>15. CASE FinalizeVersion
  BY <1>15 DEF FinalizeVersion
<1>16. CASE GateScan
  BY <1>16 DEF GateScan, GatePasses, output
<1>17. CASE RecordAudit
  BY <1>17 DEF RecordAudit, GatePasses
<1>18. CASE GateMarksFailed
  BY <1>18 DEF GateMarksFailed
<1>19. CASE ClearCheckpoint
  BY <1>19, CleanQuiet DEF ClearCheckpoint
<1>20. CASE Crash
  BY <1>20, CleanQuiet DEF Crash
<1>21. ASSUME NEW a \in Inputs, NEW t \in Tokens \ UsedTokens, FreshReplace(a, t)
       PROVE  CleanInv'
  BY <1>21, ConstantsAssumption DEF FreshReplace, GatePasses
<1>22. CASE RemoveOutput
  BY <1>22 DEF RemoveOutput
<1>23. CASE RemoveCheckpoint
  BY <1>23, CleanQuiet DEF RemoveCheckpoint
<1>24. CASE UNCHANGED vars
  BY <1>24 DEF vars, GatePasses
<1>25. QED
  BY <1>1, <1>2, <1>3, <1>4, <1>5, <1>6, <1>7, <1>8, <1>9, <1>10, <1>11, <1>12, <1>13,
     <1>14, <1>15, <1>16, <1>17, <1>18, <1>19, <1>20, <1>21, <1>22, <1>23, <1>24
  DEF Next, Step, Fault, Intervention

LEMMA CleanCorrect == Spec => []CleanInv
<1>1. Init => CleanInv
  BY DEF Init, FreshInit, LegacyInit, CleanInv, VerifiedIsClean, NoEvidenceWhileBuilding,
         Building, PCs, Identifying, Creating
<1>2. Spec => []TypeInv
  BY TypeInit, TypeNext, PTL DEF Spec
<1>3. QED
  BY <1>1, <1>2, CleanNext, PTL DEF Spec

\* However many processes, crashed or not, built on an output, and whichever of
\* them was told to resume, to start over or where to start: when the output says
\* that it was verified, a scan of it finds nothing.
THEOREM VerifiedClean == Spec => []VerifiedIsClean
<1>1. CleanInv => VerifiedIsClean
  BY DEF CleanInv
<1>2. QED
  BY <1>1, CleanCorrect, PTL

\* While a build can write to an output, no evidence of an earlier audit stands
\* in it, so that no crash can leave such evidence beside new content.
THEOREM NoEvidence == Spec => []NoEvidenceWhileBuilding
<1>1. CleanInv => NoEvidenceWhileBuilding
  BY DEF CleanInv
<1>2. QED
  BY <1>1, CleanCorrect, PTL

-----------------------------------------------------------------------------
(***************************************************************************)
(* Builds started by `icarus build` without --fresh: one run per output,   *)
(* no phase skipped after a crash, nothing missing from a verified output, *)
(* and an interrupted build can be resumed.                                *)
(***************************************************************************)

\* Every build is started by the command line, and nobody touches the files.
CliOnly == Entries = {"cli"} /\ Interventions = {}

\* Only the last phase sanitizes, as create_default_pipeline lays it out.
SanitizesLast == \A i \in Phases : Kind[i] = "sanitize" => i = N

\* Before the versions row exists.
Starting == {"sidecar", "intent"} \cup Creating

\* Once the versions row exists and has its identity.
Identified == {"revoke", "bind"} \cup InTry \cup {"failed", "mark"} \cup Finishing

\* The only way a command line starts a build.
LEMMA CliCall ==
    ASSUME CliOnly, TypeInv, Call
    PROVE  \E c \in Object :
             /\ pc = "idle" /\ c.live /\ c.ver = 0 /\ ~c.upgrade /\ c.fresh \in Tokens
             /\ \/ Refuse(c)
                \/ Resume(c, 0)
                \/ file = "absent" /\ Start(c, 0)
<1>1. PICK a \in Inputs, t \in Tokens : CliBuild(a, t)
  BY DEF CliOnly, Call, ApiBuild, ApiRerun
<1>2. LET c == NewObject(a, t)
      IN  c \in Object /\ c.live /\ c.ver = 0 /\ ~c.upgrade /\ c.fresh \in Tokens
  <2>1. NoObject \in Object /\ NoObject.ver = 0 /\ ~NoObject.upgrade
    BY KeptType DEF NoObject
  <2>2. \A o \in Object :
          LET d == [o EXCEPT !.live = TRUE, !.input = a, !.run = t, !.fresh = t]
          IN  /\ d \in Object /\ d.live /\ d.ver = o.ver /\ d.upgrade = o.upgrade
              /\ d.fresh = t
    BY ZenonT(60) DEF Object
  <2>3. QED
    BY <2>1, <2>2, Zenon DEF NewObject
<1>3. /\ pc = "idle"
      /\ \/ Refuse(NewObject(a, t))
         \/ (file = "absent" \/ sidecar # "absent") /\ Run(NewObject(a, t), TRUE, 0)
  BY <1>1, Zenon DEF CliBuild
<1>4. ASSUME NEW d \in Tried(NewObject(a, t), meta)
      PROVE  d \in Object /\ d.live /\ d.ver = 0 /\ ~d.upgrade /\ d.fresh \in Tokens
  BY <1>2, TriedType
<1>5. \/ Refuse(NewObject(a, t))
      \/ \E d \in Tried(NewObject(a, t), meta) : Refuse(d)
      \/ Resume(NewObject(a, t), 0)
      \/ file = "absent" /\ Start(NewObject(a, t), 0)
  BY <1>3, Zenon DEF Run
<1>6. QED
  BY <1>2, <1>3, <1>4, <1>5, Zenon

-----------------------------------------------------------------------------
(* One run per output.                                                     *)

\* A build that is about to add a versions row has found the table empty, and a
\* later one takes the row it finds as its own.
RunInv ==
    /\ OneRunPerOutput
    /\ file = "absent" => versions = <<>>
    /\ pc = "insert" => file # "absent"
    /\ pc \in Starting => versions = <<>>
    /\ pc \in Identified => ctx.ver = 1 /\ Len(versions) = 1

\* Where a resumed object finds its row, if it has one already.
LEMMA ResumedVersion ==
    ASSUME TypeInv, RunInv, NEW c \in Object, Resume(c, 0)
    PROVE  /\ ctx'.ver = 0 => versions = <<>> /\ status = NoStatus
           /\ ctx'.ver # 0 => ctx'.ver = 1 /\ Len(versions) = 1
           /\ ctx'.resan = meta.resan
           /\ ctx'.i = NextPhase(status)
<1> DEFINE r == Restored(c, meta)
<1>1. meta.state # "none" /\ Restorable(meta, c.input)
  BY DEF Resume, Restorable
<1>2. /\ r \in Object /\ r.resan = meta.resan
      /\ meta.state # "prepared" => r.ver = meta.ver
      /\ meta.state = "prepared" => \/ r.ver \in RowsOf(meta.run)
                                    \/ r.ver = 0 /\ RowsOf(meta.run) = {}
  BY <1>1, RestoredType
<1>3. /\ ctx'.ver = r.ver /\ ctx'.resan = r.resan /\ ctx'.i = NextPhase(status)
  <2>1. ctx' = [r EXCEPT !.i = NextPhase(status)]
    BY DEF Resume
  <2> HIDE DEF r
  <2>2. QED
    BY <1>2, <2>1 DEF Object
<1>4. DOMAIN versions = 1..Len(versions) /\ Len(versions) \in Nat /\ Len(versions) <= 1
  BY LenProperties DEF TypeInv, TypeOK, RunInv, OneRunPerOutput
<1> HIDE DEF r
<1>5. CASE r.ver \in DOMAIN versions
  BY <1>2, <1>3, <1>4, <1>5
<1>6. CASE r.ver \notin DOMAIN versions
  <2>1. meta.state = "prepared" /\ RowsOf(meta.run) = {} /\ r.ver = 0
    BY <1>1, <1>2, <1>6 DEF Restorable, BoundMatches, RowsOf
  <2>2. versions = <<>> /\ status = NoStatus
    BY <1>1, <2>1 DEF Restorable, PreparedMatches
  <2>3. QED
    BY <1>2, <1>3, <2>1, <2>2
<1>7. QED
  BY <1>5, <1>6

LEMMA RunNext ==
    ASSUME CliOnly
    PROVE  TypeInv /\ RunInv /\ [Next]_vars => RunInv'
<1> SUFFICES ASSUME TypeInv, RunInv, [Next]_vars PROVE RunInv'
  OBVIOUS
<1> USE DEF OneRunPerOutput, Starting, Identified, Creating, InTry, Finishing
<1>0. Len(<<>>) = 0 /\ Len(versions) \in Nat /\ ctx.ver \in Nat
  BY EmptySeq, LenProperties DEF TypeInv, TypeOK, Object
<1>1. CASE Call
  <2>1. PICK c \in Object : \/ Refuse(c) /\ pc = "idle"
                            \/ Resume(c, 0)
                            \/ file = "absent" /\ Start(c, 0)
    BY <1>1, CliCall
  <2>2. CASE Refuse(c) /\ pc = "idle"
    BY <2>2 DEF Refuse, RunInv, output
  <2>3. CASE Resume(c, 0)
    <3>1. /\ ctx'.ver = 0 => versions = <<>>
          /\ ctx'.ver # 0 => ctx'.ver = 1 /\ Len(versions) = 1
      BY <2>3, ResumedVersion
    <3>2. /\ pc' \in {"upgrade_intent", "create", "revoke"}
          /\ pc' = "create" => ctx'.ver = 0
          /\ pc' = "revoke" => ctx'.ver # 0
      <4> DEFINE r == Restored(c, meta)
      <4>1. ctx' = [r EXCEPT !.i = NextPhase(status)] /\ pc' = FirstWrite(r)
        BY <2>3 DEF Resume
      <4>2. r \in Object
        BY <2>3, RestoredType DEF Resume, Restorable
      <4> HIDE DEF r
      <4>3. ctx'.ver = r.ver
        BY <4>1, <4>2 DEF Object
      <4>4. QED
        BY <4>1, <4>3 DEF FirstWrite
    <3>3. QED
      BY <2>3, <3>1, <3>2 DEF RunInv, Resume, output
  <2>4. CASE file = "absent" /\ Start(c, 0)
    BY <2>4 DEF RunInv, Start, output
  <2>5. QED
    BY <2>1, <2>2, <2>3, <2>4
<1>2. CASE CreateSidecar
  BY <1>2 DEF RunInv, CreateSidecar, output
<1>3. CASE PersistIntent
  <2> DEFINE c == WithKey(ctx)
             m == Intent(IF c.ver = 0 THEN "prepared" ELSE "bound", c)
  <2>1. versions = <<>> /\ UNCHANGED output
    BY <1>3 DEF RunInv, PersistIntent
  <2>2. pc' = "revoke" => FALSE
    <3>1. ASSUME pc' = "revoke" PROVE c.ver # 0 /\ Restorable(m, c.input)
      BY <1>3, <3>1 DEF PersistIntent
    <3>2. ASSUME c.ver # 0 PROVE m.state = "bound"
      BY <3>2 DEF Intent
    <3>3. Restorable(m, c.input) /\ m.state = "bound" => m.ver \in DOMAIN versions
      BY DEF Restorable, BoundMatches
    <3>4. DOMAIN versions = {}
      BY <2>1
    <3>5. QED
      BY <3>1, <3>2, <3>3, <3>4
  <2>3. pc' \in {"create", "revoke", "idle"}
    BY <1>3 DEF PersistIntent
  <2>4. QED
    BY <2>1, <2>2, <2>3 DEF RunInv, output
<1>4. CASE UpgradeIntent
  BY <1>4 DEF RunInv, UpgradeIntent, output
<1>5. CASE UpgradeOutput
  <2>1. CASE ctx.ver \in DOMAIN versions
    <3>1. /\ versions' = [versions EXCEPT ![ctx.ver].key = ctx.key]
          /\ ctx' = [ctx EXCEPT !.upgrade = FALSE] /\ pc' = "revoke" /\ file' = file
      BY <1>5, <2>1 DEF UpgradeOutput
    <3>2. DOMAIN versions = 1..Len(versions)
      BY LenProperties DEF TypeInv, TypeOK
    <3>3. ctx.ver = 1 /\ Len(versions) = 1
      BY <1>0, <2>1, <3>2 DEF RunInv
    <3>4. versions' \in Seq(Row) /\ DOMAIN versions' = DOMAIN versions
      BY <3>1, TypeIdentity, <1>5 DEF TypeInv, TypeOK
    <3>5. Len(versions') = 1
      BY <3>2, <3>3, <3>4, LenProperties
    <3>6. ctx'.ver = ctx.ver
      BY <3>1, Zenon DEF TypeInv, TypeOK, Object
    <3>7. versions # <<>>
      BY <1>0, <3>3
    <3>8. QED
      BY <3>1, <3>3, <3>5, <3>6, <3>7 DEF RunInv
  <2>2. CASE ctx.ver \notin DOMAIN versions
    BY <1>5, <2>2 DEF RunInv, UpgradeOutput
  <2>3. QED
    BY <2>1, <2>2
<1>6. CASE CreateOutput
  BY <1>6 DEF RunInv, CreateOutput
<1>7. CASE CompleteSchema
  BY <1>7 DEF RunInv, CompleteSchema
<1>8. CASE InsertVersion
  <2>1. CASE pc' = "bind"
    <3> DEFINE e == [run |-> ctx.run, input |-> ctx.input, key |-> ctx.key,
                     completed |-> FALSE]
    <3>1. /\ versions = <<>> /\ versions' = Append(versions, e) /\ file' = file
          /\ ctx' = [ctx EXCEPT !.ver = Len(versions) + 1] /\ file # "absent"
      BY <1>8, <2>1 DEF RunInv, InsertVersion
    <3>2. Len(versions') = 1
      BY <3>1
    <3>3. ctx'.ver = 1
      BY <3>1, <1>0 DEF TypeInv, TypeOK, Object
    <3>4. QED
      BY <2>1, <3>1, <3>2, <3>3 DEF RunInv
  <2>2. CASE pc' = "idle"
    BY <1>8, <2>2 DEF RunInv, InsertVersion, output
  <2>3. QED
    BY <1>8, <2>1, <2>2 DEF InsertVersion
<1>9. CASE Revoke \/ HandlerCommits \/ HandlerReturns \/ RecordAudit
           \/ GateMarksFailed \/ MarkSanitizeFailed
  BY <1>9 DEF RunInv, Revoke, HandlerCommits, HandlerReturns, RecordAudit,
              GateMarksFailed, MarkSanitizeFailed, checkpoint
<1>10. CASE Bind
  <2>1. ctx'.ver = ctx.ver
    BY <1>10 DEF Bind, TypeInv, TypeOK, Object
  <2>2. QED
    BY <1>10, <2>1 DEF RunInv, Bind, output
<1>11. CASE SavePhaseRunning \/ SavePhaseFailed \/ GateSavesFailed \/ PhaseRaises
            \/ GateRaises \/ GateScan \/ ClearCheckpoint \/ Crash
  BY <1>11 DEF RunInv, SavePhaseRunning, SavePhaseFailed, GateSavesFailed, PhaseRaises,
               GateRaises, GateScan, ClearCheckpoint, Crash, output, checkpoint
<1>12. CASE SavePhaseComplete
  <2>1. ctx'.ver = ctx.ver
    BY <1>12 DEF SavePhaseComplete, TypeInv, TypeOK, Object
  <2>2. QED
    BY <1>12, <2>1 DEF RunInv, SavePhaseComplete, output
<1>13. CASE FinalizeVersion
  <2>1. /\ versions' = [versions EXCEPT ![ctx.ver].completed = TRUE]
        /\ UNCHANGED <<file, ctx>> /\ pc = "phase" /\ pc' \in {"gate", "clear"}
    BY <1>13 DEF FinalizeVersion
  <2>2. versions' \in Seq(Row) /\ DOMAIN versions' = DOMAIN versions
    BY <1>13, <2>1, TypeEnd DEF TypeInv, TypeOK
  <2>3. Len(versions') = Len(versions)
    BY <2>2, LenProperties DEF TypeInv, TypeOK
  <2>4. versions # <<>>
    <3>1. Len(versions) = 1
      BY <2>1 DEF RunInv
    <3>2. QED
      BY <1>0, <3>1
  <2>5. QED
    BY <2>1, <2>3, <2>4 DEF RunInv
<1>14. CASE Intervention
  BY <1>14 DEF CliOnly, Intervention, FreshReplace, RemoveOutput, RemoveCheckpoint
<1>15. CASE UNCHANGED vars
  BY <1>15 DEF RunInv, vars
<1>16. QED
  BY <1>1, <1>2, <1>3, <1>4, <1>5, <1>6, <1>7, <1>8, <1>9, <1>10, <1>11, <1>12, <1>13,
     <1>14, <1>15
  DEF Next, Step, Fault

LEMMA RunInit == Init => RunInv
<1> SUFFICES ASSUME Init PROVE RunInv
  OBVIOUS
<1>1. CASE FreshInit
  BY <1>1 DEF Init, FreshInit, RunInv, OneRunPerOutput, Starting, Identified, Creating,
              InTry, Finishing
<1>2. CASE LegacyInit
  <2>1. PICK r : versions = <<r>>
    BY <1>2 DEF LegacyInit
  <2>2. Len(versions) = 1 /\ file = "full" /\ pc = "idle"
    BY <1>2, <2>1 DEF LegacyInit, Init
  <2>3. QED
    BY <2>2 DEF RunInv, OneRunPerOutput, Starting, Identified, Creating, InTry, Finishing
<1>3. QED
  BY <1>1, <1>2 DEF Init

\* `icarus build` never unions two runs in one output, wherever earlier attempts
\* at it died.
THEOREM SingleRun == CliOnly => (Spec => []OneRunPerOutput)
<1> SUFFICES ASSUME CliOnly PROVE Spec => []OneRunPerOutput
  OBVIOUS
<1>1. TypeInv /\ RunInv /\ [Next]_vars => (TypeInv /\ RunInv)'
  BY TypeNext, RunNext
<1>2. RunInv => OneRunPerOutput
  BY DEF RunInv
<1>3. QED
  BY <1>1, <1>2, TypeInit, RunInit, PTL DEF Spec

-----------------------------------------------------------------------------
(* No phase is skipped.                                                    *)

\* Phases are passed in order: one that has begun has only complete ones before it.
InOrder == \A i, j \in Phases : i < j /\ status[j] # "none" => status[i] = "complete"

\* The running process stands right after the complete phases.
AtFrontier ==
    \A j \in Phases : /\ j < ctx.i => status[j] = "complete"
                      /\ j > ctx.i => status[j] = "none"

OrderInv ==
    /\ InOrder
    /\ pc # "idle" => AtFrontier
    /\ pc \in Starting => status = NoStatus
    /\ pc \in {"handler", "complete"} => status[ctx.i] = "running"
    /\ pc \in Finishing => ctx.i = N + 1
    /\ pc \in Finishing \ {"clear"} => SanitizeIndices # {}

\* When phases are passed in order, everything before the resume point is complete
\* and nothing after it has begun.
LEMMA ResumePoint ==
    ASSUME TypeInv, InOrder
    PROVE  \A j \in Phases : /\ j < NextPhase(status) => status[j] = "complete"
                             /\ j >= NextPhase(status) => status[j] # "complete"
                             /\ j > NextPhase(status) => status[j] = "none"
<1> DEFINE k == NextPhase(status)
<1>1. /\ k \in 1..(N + 1)
      /\ \A i \in Phases : i >= k => status[i] # "complete"
      /\ \A m \in 1..(N + 1) :
           (\A i \in Phases : i >= m => status[i] # "complete") => k <= m
  BY NextPhaseIsLeast DEF TypeInv, TypeOK
<1> HIDE DEF k
<1>2. N \in Nat
  BY ConstantsAssumption
<1>3. ASSUME NEW j \in Phases, j < k PROVE status[j] = "complete"
  <2>1. k - 1 \in 1..(N + 1) /\ ~(k <= k - 1)
    BY <1>1, <1>2, <1>3 DEF Phases
  <2>2. PICK i \in Phases : i >= k - 1 /\ status[i] = "complete"
    BY <1>1, <2>1
  <2>3. i = k - 1
    BY <1>1, <2>2 DEF Phases
  <2>4. QED
    BY <1>1, <1>3, <2>2, <2>3 DEF InOrder, Phases
<1>4. ASSUME NEW j \in Phases, j > k PROVE status[j] = "none"
  <2>1. k \in Phases /\ k < j
    BY <1>1, <1>2, <1>4 DEF Phases
  <2>2. status[k] # "complete"
    BY <1>1, <2>1 DEF Phases
  <2>3. QED
    BY <2>1, <2>2 DEF InOrder
<1>5. QED
  BY <1>1, <1>3, <1>4 DEF k

\* An action that leaves the statuses and the position of the process alone.
LEMMA OrderQuiet ==
    ASSUME OrderInv, pc # "idle", UNCHANGED status, ctx'.i = ctx.i \/ pc' = "idle",
           pc' \notin {"handler", "complete"},
           pc' \in Starting => pc \in Starting,
           pc' \in Finishing => ctx.i = N + 1,
           pc' \in Finishing \ {"clear"} => SanitizeIndices # {}
    PROVE  OrderInv'
<1>1. InOrder'
  BY DEF OrderInv, InOrder
<1>2. pc' # "idle" => AtFrontier' /\ ctx'.i = ctx.i
  BY DEF OrderInv, AtFrontier
<1>3. QED
  BY <1>1, <1>2 DEF OrderInv, Finishing

LEMMA OrderNext ==
    ASSUME CliOnly, SanitizesLast
    PROVE  TypeInv /\ RunInv /\ OrderInv /\ [Next]_vars => OrderInv'
<1> SUFFICES ASSUME TypeInv, RunInv, OrderInv, [Next]_vars PROVE OrderInv'
  OBVIOUS
<1> USE DEF Starting, Creating, Finishing, InTry
<1>0. /\ ctx \in Object /\ ctx.i \in 1..(N + 1) /\ N \in Nat
      /\ status \in [Phases -> {"none", "running", "complete", "failed"}]
  BY ConstantsAssumption DEF TypeInv, TypeOK, Object
<1>1. CASE Call
  <2>1. PICK c \in Object : \/ Refuse(c) /\ pc = "idle"
                            \/ Resume(c, 0)
                            \/ file = "absent" /\ Start(c, 0)
    BY <1>1, CliCall
  <2>2. CASE Refuse(c) /\ pc = "idle"
    BY <2>2 DEF Refuse, OrderInv, InOrder, checkpoint
  <2>3. CASE Resume(c, 0)
    <3>1. /\ ctx'.i = NextPhase(status) /\ status' = status
          /\ pc' \in {"upgrade_intent", "create", "revoke"}
      BY <2>3, ResumedVersion DEF Resume, FirstWrite, checkpoint
    <3>2. pc' = "create" => status = NoStatus
      <4>1. pc' = "create" => ctx'.ver = 0
        <5> DEFINE r == Restored(c, meta)
        <5>1. ctx' = [r EXCEPT !.i = NextPhase(status)] /\ pc' = FirstWrite(r)
          BY <2>3 DEF Resume
        <5>2. r \in Object
          BY <2>3, RestoredType DEF Resume, Restorable
        <5> HIDE DEF r
        <5>3. QED
          BY <5>1, <5>2 DEF Object, FirstWrite
      <4>2. QED
        BY <2>3, <4>1, ResumedVersion
    <3>3. AtFrontier'
      BY <3>1, ResumePoint DEF OrderInv, AtFrontier
    <3>4. QED
      BY <3>1, <3>2, <3>3 DEF OrderInv, InOrder
  <2>4. CASE file = "absent" /\ Start(c, 0)
    <3>1. status' = NoStatus /\ pc' = "sidecar" /\ ctx'.i = 1
      BY <2>4 DEF Start, Object
    <3>2. QED
      BY <3>1 DEF OrderInv, InOrder, AtFrontier, NoStatus, Phases
  <2>5. QED
    BY <2>1, <2>2, <2>3, <2>4
<1>2. CASE CreateSidecar
  BY <1>2, OrderQuiet DEF CreateSidecar
<1>3. CASE PersistIntent
  <2>1. ctx'.i = ctx.i \/ pc' = "idle"
    BY <1>0, <1>3 DEF PersistIntent, WithKey, Object
  <2>2. pc = "intent" /\ pc' \in {"create", "revoke", "idle"} /\ status' = status
    BY <1>3 DEF PersistIntent
  <2>3. QED
    BY <2>1, <2>2, OrderQuiet
<1>4. CASE UpgradeIntent
  <2>1. ctx'.i = ctx.i
    <3>1. WithKey(ctx) \in Object /\ WithKey(ctx).i = ctx.i
      BY <1>0 DEF WithKey, Object
    <3>2. \A o \in Object : [o EXCEPT !.resan = TRUE].i = o.i
      BY Zenon DEF Object
    <3>3. QED
      BY <1>4, <3>1, <3>2 DEF UpgradeIntent
  <2>2. QED
    BY <1>4, <2>1, OrderQuiet DEF UpgradeIntent
<1>5. CASE UpgradeOutput
  <2>1. ctx'.i = ctx.i \/ pc' = "idle"
    <3>1. \A o \in Object : [o EXCEPT !.upgrade = FALSE].i = o.i
      BY Zenon DEF Object
    <3>2. QED
      BY <1>0, <1>5, <3>1 DEF UpgradeOutput
  <2>2. pc = "upgrade_output" /\ pc' \in {"revoke", "idle"} /\ status' = status
    BY <1>5 DEF UpgradeOutput, checkpoint
  <2>3. QED
    BY <2>1, <2>2, OrderQuiet
<1>6. CASE CreateOutput
  BY <1>6, OrderQuiet DEF CreateOutput, checkpoint
<1>7. CASE CompleteSchema
  BY <1>7, OrderQuiet DEF CompleteSchema, checkpoint
<1>8. CASE InsertVersion
  <2>1. ctx'.i = ctx.i \/ pc' = "idle"
    BY <1>0, <1>8 DEF InsertVersion, Object
  <2>2. pc = "insert" /\ pc' \in {"bind", "idle"} /\ status' = status
    BY <1>8 DEF InsertVersion, checkpoint
  <2>3. QED
    BY <2>1, <2>2, OrderQuiet
<1>9. CASE Revoke
  BY <1>9, OrderQuiet DEF Revoke, checkpoint
<1>10. CASE Bind
  <2>1. status' = status /\ pc = "bind" /\ pc' = "phase"
    BY <1>10 DEF Bind
  <2>2. CASE ctx.resan /\ SanitizeIndices # {} /\ FirstSanitize < ctx.i
    <3>1. FirstSanitize = N
      BY <2>2, FirstSanitizeIsLeast DEF SanitizesLast, SanitizeIndices
    <3>2. ctx'.i = N
      BY <1>0, <1>10, <2>2, <3>1 DEF Bind, Object
    <3>3. QED
      BY <1>0, <2>1, <2>2, <3>1, <3>2 DEF OrderInv, InOrder, AtFrontier, Phases
  <2>3. CASE ~(ctx.resan /\ SanitizeIndices # {} /\ FirstSanitize < ctx.i)
    BY <1>10, <2>1, <2>3, OrderQuiet DEF Bind
  <2>4. QED
    BY <2>2, <2>3
<1>11. CASE SavePhaseRunning
  BY <1>0, <1>11 DEF SavePhaseRunning, SaveStatus, OrderInv, InOrder, AtFrontier, Phases
<1>12. CASE HandlerCommits \/ HandlerReturns
  BY <1>12 DEF HandlerCommits, HandlerReturns, OrderInv, InOrder, AtFrontier, checkpoint
<1>13. CASE SavePhaseComplete
  <2>1. ctx'.i = ctx.i + 1 /\ ctx.i \in Phases
    BY <1>0, <1>13 DEF SavePhaseComplete, Object, TypeInv, Phases
  <2>2. QED
    BY <1>0, <1>13, <2>1 DEF SavePhaseComplete, SaveStatus, OrderInv, InOrder, AtFrontier,
                              Phases
<1>14. CASE SavePhaseFailed
  BY <1>0, <1>14 DEF SavePhaseFailed, SaveStatus, OrderInv, InOrder, AtFrontier, TypeInv,
                     Phases
<1>15. CASE MarkSanitizeFailed \/ GateMarksFailed \/ RecordAudit \/ GateScan \/ GateRaises
            \/ PhaseRaises \/ Crash
  BY <1>15, OrderQuiet DEF OrderInv, MarkSanitizeFailed, GateMarksFailed, RecordAudit,
                           GateScan, GateRaises, PhaseRaises, Crash, checkpoint
<1>16. CASE FinalizeVersion
  <2>1. ctx.i = N + 1
    BY <1>0, <1>16 DEF FinalizeVersion
  <2>2. QED
    BY <1>16, <2>1, OrderQuiet DEF FinalizeVersion, checkpoint
<1>17. CASE GateSavesFailed
  <2>1. \A j \in Phases : status[j] = "complete"
    BY <1>0, <1>17 DEF GateSavesFailed, OrderInv, AtFrontier, Phases
  <2>2. LastSanitize = N
    <3>1. SanitizeIndices = {N}
      BY <1>17 DEF GateSavesFailed, OrderInv, SanitizeIndices, SanitizesLast
    <3>2. QED
      BY <1>0, <3>1 DEF LastSanitize
  <2>3. QED
    BY <1>17, <2>1, <2>2 DEF GateSavesFailed, OrderInv, InOrder, Phases
<1>18. CASE ClearCheckpoint
  BY <1>18 DEF ClearCheckpoint, OrderInv, InOrder, NoStatus
<1>19. CASE Intervention
  BY <1>19 DEF CliOnly, Intervention, FreshReplace, RemoveOutput, RemoveCheckpoint
<1>20. CASE UNCHANGED vars
  BY <1>20 DEF OrderInv, InOrder, AtFrontier, vars
<1>21. QED
  BY <1>1, <1>2, <1>3, <1>4, <1>5, <1>6, <1>7, <1>8, <1>9, <1>10, <1>11, <1>12, <1>13,
     <1>14, <1>15, <1>16, <1>17, <1>18, <1>19, <1>20
  DEF Next, Step, Fault

LEMMA OrderInit == Init => OrderInv
<1> SUFFICES ASSUME Init PROVE OrderInv
  OBVIOUS
<1>1. pc = "idle" /\ N \in Nat
  BY ConstantsAssumption DEF Init
<1>2. InOrder
  <2>1. CASE FreshInit
    BY <2>1 DEF FreshInit, NoStatus, InOrder
  <2>2. CASE LegacyInit
    <3>1. PICK k \in 0..N :
            status = [i \in Phases |-> IF i <= k THEN "complete"
                                      ELSE IF i = k + 1 THEN "running" ELSE "none"]
      BY <2>2 DEF LegacyInit
    <3>2. QED
      BY <1>1, <3>1 DEF InOrder, Phases
  <2>3. QED
    BY <2>1, <2>2 DEF Init
<1>3. QED
  BY <1>1, <1>2 DEF OrderInv, Starting, Creating, Finishing

LEMMA OrderCorrect == CliOnly /\ SanitizesLast => (Spec => [](TypeInv /\ RunInv /\ OrderInv))
<1> SUFFICES ASSUME CliOnly, SanitizesLast PROVE Spec => [](TypeInv /\ RunInv /\ OrderInv)
  OBVIOUS
<1>1. /\ TypeInv /\ RunInv /\ OrderInv /\ [Next]_vars
      => (TypeInv /\ RunInv /\ OrderInv)'
  BY TypeNext, RunNext, OrderNext
<1>2. QED
  BY <1>1, TypeInit, RunInit, OrderInit, PTL DEF Spec

\* A phase that was running or failed when a build stopped lies at or after the
\* resume point.
LEMMA NotSkipped ==
    ASSUME TypeInv, InOrder, NEW i \in Phases, status[i] \in {"running", "failed"}
    PROVE  NextPhase(status) <= i
<1>1. NextPhase(status) \in 1..(N + 1) /\ N \in Nat
  BY NextPhaseIsLeast, ConstantsAssumption DEF TypeInv, TypeOK
<1>2. ~(i < NextPhase(status))
  BY ResumePoint
<1>3. QED
  BY <1>1, <1>2 DEF Phases

\* "Crash at phase N? Resume from phase N" holds of every build of the command line
\* whose sanitize phase comes last, after any number of crashes.
THEOREM PhaseResumed == CliOnly /\ SanitizesLast => (Spec => []CrashedPhaseIsResumed)
<1> SUFFICES ASSUME CliOnly, SanitizesLast PROVE Spec => []CrashedPhaseIsResumed
  OBVIOUS
<1>1. TypeInv /\ RunInv /\ OrderInv => CrashedPhaseIsResumed
  BY NotSkipped DEF OrderInv, CrashedPhaseIsResumed
<1>2. QED
  BY <1>1, OrderCorrect, PTL

\* A failed final gate sends the next build back to its sanitize phase.
THEOREM GateReopens == CliOnly /\ SanitizesLast => (Spec => []FailedGateReopensSanitize)
<1> SUFFICES ASSUME CliOnly, SanitizesLast PROVE Spec => []FailedGateReopensSanitize
  OBVIOUS
<1>1. SanitizeIndices # {} => LastSanitize \in Phases
  <2>1. SanitizeIndices # {} => SanitizeIndices = {N} /\ N \in Phases
    BY ConstantsAssumption DEF SanitizeIndices, SanitizesLast, Phases
  <2>2. SanitizeIndices # {} => LastSanitize = N
    BY <2>1, ConstantsAssumption DEF LastSanitize
  <2>3. QED
    BY <2>1, <2>2
<1>2. TypeInv /\ RunInv /\ OrderInv => FailedGateReopensSanitize
  BY <1>1, NotSkipped DEF OrderInv, FailedGateReopensSanitize
<1>3. QED
  BY <1>2, OrderCorrect, PTL

-----------------------------------------------------------------------------
(* Nothing is missing from a verified output.                              *)

\* The two databases agree: a phase recorded as complete has its whole result in
\* the output, or the checkpoint remembers that it must be sanitized again.
Agree ==
    \A i \in Phases : status[i] = "complete" =>
        work[i] = "done" \/ (Kind[i] = "sanitize" /\ meta.resan)

\* Behind the running process everything is done.
DoneBehind == \A j \in Phases : j < ctx.i => work[j] = "done"

WorkInv ==
    /\ Agree
    /\ pc \in InTry \cup {"failed", "mark"} \cup Finishing => DoneBehind
    /\ pc # "idle" /\ meta.resan => ctx.resan
    /\ pc = "upgrade_output" => meta.resan
    /\ pc = "complete" => work[ctx.i] = "done"
    /\ pc \in Finishing => versions[1].completed
    /\ VerifiedIsComplete

\* An action that leaves both databases, and what the process knows, alone.
LEMMA WorkQuiet ==
    ASSUME WorkInv, UNCHANGED <<versions, trust, work, status, meta>>,
           pc' # "upgrade_output",
           \/ pc' = "idle"
           \/ /\ ctx'.i = ctx.i /\ ctx'.resan = ctx.resan /\ pc # "idle"
              /\ \/ pc' \notin InTry \cup {"failed", "mark"} \cup Finishing
                 \/ /\ pc \in InTry \cup {"failed", "mark"} \cup Finishing
                    /\ pc' # "complete"
                    /\ pc' \in Finishing => pc \in Finishing
    PROVE  WorkInv'
<1>1. Agree'
  BY DEF WorkInv, Agree
<1>2. VerifiedIsComplete'
  BY DEF WorkInv, VerifiedIsComplete
<1>3. CASE pc' = "idle"
  BY <1>1, <1>2, <1>3 DEF WorkInv, InTry, Finishing
<1>4. CASE pc' # "idle"
  BY <1>1, <1>2, <1>4 DEF WorkInv, DoneBehind, InTry, Finishing
<1>5. QED
  BY <1>3, <1>4

LEMMA WorkNext ==
    ASSUME CliOnly, SanitizesLast
    PROVE  TypeInv /\ CleanInv /\ RunInv /\ OrderInv /\ WorkInv /\ [Next]_vars => WorkInv'
<1> SUFFICES ASSUME TypeInv, CleanInv, RunInv, OrderInv, WorkInv, [Next]_vars
             PROVE  WorkInv'
  OBVIOUS
<1> USE DEF InTry, Finishing
<1>0. /\ ctx \in Object /\ ctx.i \in 1..(N + 1) /\ N \in Nat
      /\ status \in [Phases -> {"none", "running", "complete", "failed"}]
      /\ work \in [Phases -> {"none", "partial", "done"}]
  BY ConstantsAssumption DEF TypeInv, TypeOK, Object
<1>1. CASE Call
  <2>1. PICK c \in Object : \/ Refuse(c) /\ pc = "idle"
                            \/ Resume(c, 0)
                            \/ file = "absent" /\ Start(c, 0)
    BY <1>1, CliCall
  <2>2. CASE Refuse(c) /\ pc = "idle"
    BY <2>2, WorkQuiet DEF Refuse, output, checkpoint
  <2>3. CASE Resume(c, 0)
    <3>1. /\ ctx'.resan = meta.resan
          /\ pc' \in {"upgrade_intent", "create", "revoke"}
          /\ UNCHANGED <<versions, trust, work, status, meta>>
      BY <2>3, ResumedVersion DEF Resume, FirstWrite, output, checkpoint
    <3>2. QED
      BY <3>1 DEF WorkInv, Agree, VerifiedIsComplete
  <2>4. CASE file = "absent" /\ Start(c, 0)
    <3>1. /\ status' = NoStatus /\ meta' = NoMeta /\ pc' = "sidecar"
          /\ UNCHANGED <<versions, trust, work>>
      BY <2>4 DEF Start, output
    <3>2. QED
      BY <3>1 DEF WorkInv, Agree, VerifiedIsComplete, NoStatus, NoMeta
  <2>5. QED
    BY <2>1, <2>2, <2>3, <2>4
<1>2. CASE CreateSidecar
  BY <1>2, WorkQuiet DEF CreateSidecar, output
<1>3. CASE PersistIntent
  <2>1. status' = NoStatus /\ UNCHANGED <<versions, trust, work>>
    BY <1>3 DEF PersistIntent, OrderInv, Starting, output
  <2>2. pc' = "idle" \/ (pc' \in {"create", "revoke"} /\ ctx'.resan = ctx.resan
                           /\ meta'.resan = meta.resan)
    <3>1. WithKey(ctx).resan = ctx.resan
      BY <1>0 DEF WithKey, Object
    <3>2. \A s \in {"prepared", "bound"} : Intent(s, WithKey(ctx)).resan = meta.resan
      BY DEF Intent, TypeInv, TypeOK, Meta
    <3>3. QED
      BY <1>3, <3>1, <3>2 DEF PersistIntent
  <2>3. Agree' /\ VerifiedIsComplete'
    BY <2>1 DEF WorkInv, Agree, VerifiedIsComplete, NoStatus
  <2>4. QED
    BY <1>3, <2>2, <2>3 DEF WorkInv, PersistIntent
<1>4. CASE UpgradeIntent
  <2>1. ctx'.resan
    <3>1. WithKey(ctx) \in Object
      BY <1>0 DEF WithKey, Object, TypeInv, TypeOK
    <3>2. \A o \in Object : [o EXCEPT !.resan = TRUE].resan
      BY Zenon DEF Object
    <3>3. QED
      BY <1>4, <3>1, <3>2 DEF UpgradeIntent
  <2>2. meta'.resan
    BY <1>4 DEF UpgradeIntent, Intent
  <2>3. pc' = "upgrade_output" /\ UNCHANGED <<versions, trust, work, status>>
    BY <1>4 DEF UpgradeIntent, output
  <2>4. QED
    BY <2>1, <2>2, <2>3 DEF WorkInv, Agree, VerifiedIsComplete
<1>5. CASE UpgradeOutput
  <2>1. CASE ctx.ver \in DOMAIN versions
    <3>1. /\ trust' = "unknown" /\ work' = Unsanitized(work) /\ pc' = "revoke"
          /\ meta' = meta /\ status' = status /\ meta.resan /\ ctx.resan
      BY <1>5, <2>1 DEF UpgradeOutput, Revoked, WorkInv, checkpoint
    <3>2. ctx'.resan
      <4>1. \A o \in Object : [o EXCEPT !.upgrade = FALSE].resan = o.resan
        BY Zenon DEF Object
      <4>2. QED
        BY <1>0, <1>5, <2>1, <3>1, <4>1 DEF UpgradeOutput
    <3>3. Agree'
      BY <1>0, <3>1 DEF WorkInv, Agree, Unsanitized
    <3>4. QED
      BY <3>1, <3>2, <3>3 DEF WorkInv, VerifiedIsComplete
  <2>2. CASE ctx.ver \notin DOMAIN versions
    BY <1>5, <2>2, WorkQuiet DEF UpgradeOutput, checkpoint
  <2>3. QED
    BY <2>1, <2>2
<1>6. CASE CreateOutput
  BY <1>6, WorkQuiet DEF CreateOutput, checkpoint
<1>7. CASE CompleteSchema
  BY <1>7, WorkQuiet DEF CompleteSchema, checkpoint
<1>8. CASE InsertVersion
  <2>1. CASE pc' = "bind"
    <3>1. /\ trust' = "unknown" /\ pc' = "bind" /\ meta' = meta /\ status' = NoStatus
          /\ ctx'.resan = ctx.resan /\ pc # "idle"
      BY <1>0, <1>8, <2>1
      DEF InsertVersion, Revoked, OrderInv, Starting, Creating, checkpoint, Object
    <3>2. QED
      BY <3>1 DEF WorkInv, Agree, VerifiedIsComplete, NoStatus
  <2>2. CASE pc' = "idle"
    BY <1>8, <2>2, WorkQuiet DEF InsertVersion, output, checkpoint
  <2>3. QED
    BY <1>8, <2>1, <2>2 DEF InsertVersion
<1>9. CASE Revoke
  BY <1>9 DEF Revoke, Revoked, WorkInv, Agree, VerifiedIsComplete, checkpoint
<1>10. CASE Bind
  <2>1. /\ pc = "bind" /\ pc' = "phase" /\ UNCHANGED <<versions, trust, work, status>>
        /\ meta'.resan = meta.resan /\ ctx'.resan = ctx.resan
    <3>1. Intent("bound", ctx).resan = meta.resan
      BY DEF Intent, TypeInv, TypeOK, Meta
    <3>2. QED
      BY <1>0, <1>10, <3>1 DEF Bind, output, Object
  <2>2. ASSUME NEW j \in Phases, j < ctx'.i PROVE work[j] = "done"
    <3>1. FirstSanitize \in Nat /\ FirstSanitize < ctx.i => ctx'.i <= ctx.i
      BY <1>0, <1>10 DEF Bind, Object
    <3>2. SanitizeIndices # {} => FirstSanitize \in Nat
      BY FirstSanitizeIsLeast DEF SanitizeIndices, Phases
    <3>3. j < ctx.i
      BY <1>0, <1>10, <2>2, <3>1, <3>2 DEF Bind, Phases
    <3>4. status[j] = "complete"
      BY <2>1, <3>3 DEF OrderInv, AtFrontier
    <3>5. CASE Kind[j] = "sanitize" /\ meta.resan
      <4>1. j \in SanitizeIndices /\ FirstSanitize <= j /\ ctx.resan
        BY <2>1, <3>5, FirstSanitizeIsLeast DEF SanitizeIndices, WorkInv
      <4>2. ctx'.i = FirstSanitize
        BY <1>0, <1>10, <3>2, <3>3, <4>1 DEF Bind, Object, Phases
      <4>3. QED
        BY <2>2, <3>2, <4>1, <4>2 DEF Phases
    <3>6. QED
      BY <3>4, <3>5 DEF WorkInv, Agree
  <2>3. QED
    BY <2>1, <2>2 DEF WorkInv, Agree, DoneBehind, VerifiedIsComplete
<1>11. CASE SavePhaseRunning
  BY <1>0, <1>11 DEF SavePhaseRunning, SaveStatus, WorkInv, Agree, DoneBehind,
                     VerifiedIsComplete, output
<1>12. CASE HandlerCommits \/ HandlerReturns
  <2>1. /\ trust # "verified" /\ trust' # "verified"
        /\ status[ctx.i] = "running" /\ ctx.i <= N
        /\ pc = "handler" /\ pc' \in {"handler", "complete"}
    BY <1>12 DEF HandlerCommits, HandlerReturns, CleanInv, NoEvidenceWhileBuilding, Building,
                 PCs, Identifying, Creating, OrderInv, TypeInv
  <2>2. /\ UNCHANGED <<meta, status, ctx, versions>>
        /\ work' = [work EXCEPT ![ctx.i] = IF pc' = "complete" THEN "done" ELSE "partial"]
    BY <1>12 DEF HandlerCommits, HandlerReturns, checkpoint
  <2>3. ctx.i \in Phases
    BY <1>0, <2>1 DEF Phases
  <2>4. QED
    BY <1>0, <2>1, <2>2, <2>3 DEF WorkInv, Agree, DoneBehind, VerifiedIsComplete
<1>13. CASE SavePhaseComplete
  <2>1. /\ ctx'.i = ctx.i + 1 /\ ctx'.resan = ctx.resan /\ work[ctx.i] = "done"
        /\ status' = [status EXCEPT ![ctx.i] = "complete"] /\ pc = "complete"
        /\ pc' = "phase" /\ UNCHANGED <<versions, trust, work, meta>>
    BY <1>0, <1>13 DEF SavePhaseComplete, SaveStatus, WorkInv, Object, output
  <2>2. QED
    BY <1>0, <2>1 DEF WorkInv, Agree, DoneBehind, VerifiedIsComplete, Phases
<1>14. CASE SavePhaseFailed
  BY <1>0, <1>14 DEF SavePhaseFailed, SaveStatus, WorkInv, Agree, DoneBehind,
                     VerifiedIsComplete, output
<1>15. CASE MarkSanitizeFailed
  BY <1>15 DEF MarkSanitizeFailed, WorkInv, Agree, VerifiedIsComplete, checkpoint
<1>16. CASE FinalizeVersion
  <2>1. /\ versions' = [versions EXCEPT ![ctx.ver].completed = TRUE]
        /\ pc = "phase" /\ pc' \in {"gate", "clear"} /\ ctx.ver = 1 /\ Len(versions) = 1
        /\ trust # "verified" /\ UNCHANGED <<trust, work, status, meta, ctx>>
    BY <1>16 DEF FinalizeVersion, RunInv, Identified, CleanInv, NoEvidenceWhileBuilding,
                 Building, PCs, Identifying, Creating, checkpoint
  <2>2. 1 \in DOMAIN versions /\ versions[1] \in Row
    BY <2>1, LenProperties, ElementOfSeq DEF TypeInv, TypeOK
  <2>3. versions'[1].completed
    <3>1. \A r \in Row : [r EXCEPT !.completed = TRUE].completed
      BY Zenon DEF Row
    <3>2. versions'[1] = [versions[1] EXCEPT !.completed = TRUE]
      BY <2>1, <2>2
    <3>3. QED
      BY <2>2, <3>1, <3>2
  <2>4. QED
    BY <2>1, <2>3 DEF WorkInv, Agree, DoneBehind, VerifiedIsComplete
<1>17. CASE RecordAudit
  <2>1. /\ \A i \in Phases : work[i] = "done"
        /\ Len(versions) = 1 /\ versions[1].completed
    BY <1>0, <1>17 DEF RecordAudit, OrderInv, WorkInv, DoneBehind, RunInv, Identified, Phases
  <2>2. versions # <<>>
    BY <2>1, EmptySeq
  <2>3. VerifiedIsComplete'
    BY <1>17, <2>1, <2>2 DEF RecordAudit, VerifiedIsComplete
  <2>4. QED
    BY <1>17, <2>3 DEF RecordAudit, WorkInv, Agree, DoneBehind, checkpoint
<1>18. CASE GateMarksFailed
  BY <1>18 DEF GateMarksFailed, WorkInv, Agree, DoneBehind, VerifiedIsComplete, checkpoint
<1>19. CASE GateSavesFailed
  BY <1>0, <1>19 DEF GateSavesFailed, WorkInv, Agree, VerifiedIsComplete, output
<1>20. CASE ClearCheckpoint
  BY <1>20 DEF ClearCheckpoint, WorkInv, Agree, VerifiedIsComplete, NoStatus, output
<1>21. CASE GateScan \/ GateRaises \/ PhaseRaises \/ Crash
  BY <1>21, WorkQuiet DEF GateScan, GateRaises, PhaseRaises, Crash, output, checkpoint
<1>22. CASE Intervention
  BY <1>22 DEF CliOnly, Intervention, FreshReplace, RemoveOutput, RemoveCheckpoint
<1>23. CASE UNCHANGED vars
  BY <1>23 DEF WorkInv, Agree, DoneBehind, VerifiedIsComplete, vars
<1>24. QED
  BY <1>1, <1>2, <1>3, <1>4, <1>5, <1>6, <1>7, <1>8, <1>9, <1>10, <1>11, <1>12, <1>13,
     <1>14, <1>15, <1>16, <1>17, <1>18, <1>19, <1>20, <1>21, <1>22, <1>23
  DEF Next, Step, Fault

LEMMA WorkInit == Init => WorkInv
<1> SUFFICES ASSUME Init PROVE WorkInv
  OBVIOUS
<1>1. pc = "idle" /\ trust = "unknown" /\ N \in Nat
  BY ConstantsAssumption DEF Init, FreshInit, LegacyInit
<1>2. Agree
  <2>1. CASE FreshInit
    BY <2>1 DEF FreshInit, NoStatus, Agree
  <2>2. CASE LegacyInit
    <3>1. PICK k \in 0..N :
            /\ work = [i \in Phases |-> IF i <= k THEN "done" ELSE "none"]
            /\ status = [i \in Phases |-> IF i <= k THEN "complete"
                                         ELSE IF i = k + 1 THEN "running" ELSE "none"]
      BY <2>2 DEF LegacyInit
    <3>2. QED
      BY <1>1, <3>1 DEF Agree, Phases
  <2>3. QED
    BY <2>1, <2>2 DEF Init
<1>3. QED
  BY <1>1, <1>2 DEF WorkInv, VerifiedIsComplete, InTry, Finishing

LEMMA WorkCorrect == CliOnly /\ SanitizesLast => (Spec => []WorkInv)
<1> SUFFICES ASSUME CliOnly, SanitizesLast PROVE Spec => []WorkInv
  OBVIOUS
<1>1. Spec => [](TypeInv /\ RunInv /\ OrderInv)
  BY OrderCorrect
<1>2. QED
  BY <1>1, CleanCorrect, WorkInit, WorkNext, PTL DEF Spec

\* A phase that the checkpoint calls complete has its whole result in the output,
\* across any number of crashes between the two databases.
THEOREM CompleteDurable == CliOnly /\ SanitizesLast => (Spec => []CompletePhaseIsDurable)
<1> SUFFICES ASSUME CliOnly, SanitizesLast PROVE Spec => []CompletePhaseIsDurable
  OBVIOUS
<1>1. WorkInv => CompletePhaseIsDurable
  BY DEF WorkInv, Agree, CompletePhaseIsDurable
<1>2. QED
  BY <1>1, WorkCorrect, PTL

\* A verified output holds the complete result of every phase, however often the
\* build was interrupted and resumed on the way.
THEOREM VerifiedComplete == CliOnly /\ SanitizesLast => (Spec => []VerifiedIsComplete)
<1> SUFFICES ASSUME CliOnly, SanitizesLast PROVE Spec => []VerifiedIsComplete
  OBVIOUS
<1>1. WorkInv => VerifiedIsComplete
  BY DEF WorkInv
<1>2. QED
  BY <1>1, WorkCorrect, PTL

-----------------------------------------------------------------------------
(* An interrupted build is recognised.                                     *)

\* The process stands between the checkpoint's first write and the end of its
\* identification; or after it.
Carrying == Creating \cup {"upgrade_intent", "upgrade_output", "revoke", "bind"}
Bound == InTry \cup {"failed", "mark"} \cup Finishing

\* The checkpoint tells the row by its run, its input and the key of its identity,
\* which an older release has not made yet.
Known(r) ==
    /\ r.run = meta.run /\ r.input = meta.input
    /\ r.key = meta.key \/ (r.key = None /\ meta.state \in {"legacy", "upgrading"})

\* What a checkpoint says of the output, and its absence.
Witness ==
    /\ sidecar # "written" =>
         /\ status = NoStatus
         /\ \A v \in DOMAIN versions : versions[v].completed
         /\ pc \in {"idle", "sidecar", "intent"}
    /\ sidecar = "written" =>
         /\ meta.state # "none"
         /\ meta.state # "legacy" => meta.key # None
         /\ meta.state = "prepared" => status = NoStatus
         /\ meta.state # "prepared" => meta.ver = 1 /\ versions # <<>>
         /\ \A v \in DOMAIN versions : Known(versions[v])

\* What the running process has in memory agrees with what it made durable.
Memory ==
    /\ pc # "idle" => ctx.fresh # None
    /\ pc \in {"sidecar", "intent"} => sidecar # "written" /\ ctx.ver = 0
    /\ pc \in Carrying => ctx.run = meta.run /\ ctx.input = meta.input /\ ctx.key = meta.key
    /\ pc \in Creating => meta.state = "prepared"
    /\ pc = "upgrade_intent" => meta.state \in {"legacy", "upgrading"} /\ ctx.ver = 1
    /\ pc = "upgrade_output" => meta.state = "upgrading" /\ ctx.ver = 1
    /\ pc \in {"revoke", "bind"} =>
         meta.key # None /\ \A v \in DOMAIN versions : versions[v].key = meta.key
    /\ pc \in Bound => meta.state = "bound"
    /\ pc \in Finishing => \A v \in DOMAIN versions : versions[v].completed

IdentityInv == Witness /\ Memory

\* An action that leaves both databases' identities alone.
LEMMA IdentityQuiet ==
    ASSUME IdentityInv, UNCHANGED <<versions, sidecar, meta>>,
           status' = status \/ pc \in Bound,
           \/ pc' = "idle" /\ (sidecar # "written" => pc \in {"idle", "sidecar", "intent"})
           \/ /\ pc # "idle"
              /\ ctx'.fresh = ctx.fresh /\ ctx'.run = ctx.run /\ ctx'.input = ctx.input
              /\ ctx'.key = ctx.key /\ ctx'.ver = ctx.ver
              /\ \/ pc \in Bound /\ pc' \in Bound \ Finishing
                 \/ pc \in Finishing /\ pc' \in Finishing
                 \/ pc \in Creating /\ pc' \in Creating
                 \/ pc = "revoke" /\ pc' = "bind"
    PROVE  IdentityInv'
<1> USE DEF Bound, InTry, Finishing, Carrying, Creating
<1>1. status' # status => sidecar = "written" /\ meta.state # "prepared"
  BY DEF IdentityInv, Memory, Witness
<1>2. \A r : Known(r)' <=> Known(r)
  BY DEF Known
<1>3. Witness'
  BY <1>1, <1>2 DEF IdentityInv, Witness, Memory
<1>4. Memory'
  BY DEF IdentityInv, Memory
<1>5. QED
  BY <1>3, <1>4 DEF IdentityInv

\* A resumed build takes over what the checkpoint knows.
LEMMA IdentityResume ==
    ASSUME TypeInv, RunInv, IdentityInv,
           NEW c \in Object, ~c.upgrade, c.fresh \in Tokens, Resume(c, 0)
    PROVE  IdentityInv'
<1> DEFINE r == Restored(c, meta)
<1>1. /\ sidecar = "written" /\ Restorable(meta, c.input)
      /\ ctx' = [r EXCEPT !.i = NextPhase(status)] /\ pc' = FirstWrite(r)
      /\ UNCHANGED <<output, checkpoint>>
  BY DEF Resume
<1>2. /\ r \in Object /\ r.run = meta.run /\ r.key = meta.key /\ r.fresh = c.fresh
      /\ r.input = c.input
      /\ meta.state # "prepared" =>
           r.ver = meta.ver /\ r.upgrade = (meta.state \in {"legacy", "upgrading"})
      /\ meta.state = "prepared" => r.upgrade = c.upgrade
      /\ meta.state = "prepared" => \/ r.ver \in RowsOf(meta.run)
                                    \/ r.ver = 0 /\ RowsOf(meta.run) = {}
  BY <1>1, RestoredType DEF Restorable
<1>3. meta.input = c.input /\ meta.state # "none"
  BY <1>1 DEF Restorable
<1> HIDE DEF r
<1>4. /\ ctx'.run = r.run /\ ctx'.key = r.key /\ ctx'.fresh = r.fresh
      /\ ctx'.input = r.input /\ ctx'.ver = r.ver
  BY <1>1, <1>2 DEF Object
<1>5. ctx'.fresh # None
  BY <1>2, <1>4, ConstantsAssumption
<1>6. \A x : Known(x)' <=> Known(x)
  BY <1>1 DEF Known, checkpoint
<1>7. Witness'
  BY <1>1, <1>6 DEF IdentityInv, Witness, output, checkpoint
<1>8. CASE r.key = None \/ r.upgrade
  <2>1. meta.state \in {"legacy", "upgrading"} /\ r.ver = 1
    <3>1. meta.state # "prepared"
      BY <1>1, <1>2, <1>8 DEF IdentityInv, Witness
    <3>2. meta.state \in {"legacy", "upgrading"}
      BY <1>1, <1>2, <1>8, <3>1 DEF IdentityInv, Witness
    <3>3. QED
      BY <1>1, <1>2, <3>1, <3>2 DEF IdentityInv, Witness
  <2>2. pc' = "upgrade_intent"
    BY <1>1, <1>8 DEF FirstWrite
  <2>3. Memory'
    BY <1>1, <1>2, <1>3, <1>4, <1>5, <2>1, <2>2
    DEF Memory, Carrying, Creating, Bound, InTry, Finishing, checkpoint
  <2>4. QED
    BY <1>1, <1>7, <2>3 DEF IdentityInv, output
<1>9. CASE ~(r.key = None \/ r.upgrade)
  <2>1. pc' = (IF r.ver = 0 THEN "create" ELSE "revoke")
    BY <1>1, <1>9 DEF FirstWrite
  <2>2. meta.state \notin {"legacy", "upgrading"} /\ meta.key # None
    BY <1>2, <1>9
  <2>3. r.ver = 0 => meta.state = "prepared"
    BY <1>1, <1>2 DEF IdentityInv, Witness
  <2>4. \A v \in DOMAIN versions : versions[v].key = meta.key
    BY <1>1, <2>2 DEF IdentityInv, Witness, Known
  <2>5. Memory'
    BY <1>1, <1>2, <1>3, <1>4, <1>5, <2>1, <2>2, <2>3, <2>4
    DEF Memory, Carrying, Creating, Bound, InTry, Finishing, output, checkpoint
  <2>6. QED
    BY <1>1, <1>7, <2>5 DEF IdentityInv, output
<1>10. QED
  BY <1>8, <1>9

\* The identity of a row survives an assignment to one of its columns.
LEMMA RowKeeps ==
    ASSUME NEW r \in Row
    PROVE  /\ LET d == [r EXCEPT !.completed = TRUE]
              IN  d.run = r.run /\ d.input = r.input /\ d.key = r.key /\ d.completed
           /\ \A k : LET d == [r EXCEPT !.key = k]
                     IN  d.run = r.run /\ d.input = r.input /\ d.key = k
  BY ZenonT(60) DEF Row

LEMMA IdentityNext ==
    ASSUME CliOnly
    PROVE  TypeInv /\ RunInv /\ IdentityInv /\ [Next]_vars => IdentityInv'
<1> SUFFICES ASSUME TypeInv, RunInv, IdentityInv, [Next]_vars PROVE IdentityInv'
  OBVIOUS
<1> USE DEF Bound, InTry, Finishing, Carrying, Creating
<1>0. /\ ctx \in Object /\ Len(versions) \in Nat /\ versions \in Seq(Row)
      /\ DOMAIN versions = 1..Len(versions)
      /\ \A v \in DOMAIN versions : versions[v] \in Row
      /\ meta \in Meta /\ meta.resan \in BOOLEAN
  BY LenProperties, ElementOfSeq DEF TypeInv, TypeOK, Meta
<1>1. CASE Call
  <2>1. PICK c \in Object : /\ c.ver = 0 /\ ~c.upgrade /\ c.fresh \in Tokens
                            /\ \/ Refuse(c) /\ pc = "idle"
                               \/ Resume(c, 0)
                               \/ file = "absent" /\ Start(c, 0)
    BY <1>1, CliCall
  <2>2. CASE Refuse(c) /\ pc = "idle"
    BY <2>2, IdentityQuiet DEF Refuse, output, checkpoint, IdentityInv
  <2>3. CASE Resume(c, 0)
    BY <2>1, <2>3, IdentityResume
  <2>4. CASE file = "absent" /\ Start(c, 0)
    <3>1. /\ versions' = <<>> /\ sidecar' = "absent" /\ status' = NoStatus /\ pc' = "sidecar"
      BY <2>4 DEF Start, RunInv, output
    <3>2. ctx'.ver = 0 /\ ctx'.fresh # None
      <4>1. ctx' = [c EXCEPT !.i = 1]
        BY <2>4 DEF Start
      <4>2. ctx'.ver = c.ver /\ ctx'.fresh = c.fresh
        BY <4>1 DEF Object
      <4>3. QED
        BY <2>1, <4>2, ConstantsAssumption
    <3>3. QED
      BY <3>1, <3>2 DEF IdentityInv, Witness, Memory
  <2>5. QED
    BY <2>1, <2>2, <2>3, <2>4
<1>2. CASE CreateSidecar
  BY <1>2 DEF CreateSidecar, IdentityInv, Witness, Memory, output
<1>3. CASE PersistIntent
  <2> DEFINE c == WithKey(ctx)
  <2>1. /\ c.ver = 0 /\ c.key # None /\ c.fresh = ctx.fresh /\ ctx.fresh # None
    BY <1>0, <1>3 DEF PersistIntent, IdentityInv, Memory, WithKey, Object
  <2>2. /\ meta' = Intent("prepared", c) /\ pc' = "create" /\ ctx' = c
        /\ sidecar' = "written" /\ status' = status /\ UNCHANGED output
    BY <1>3, <2>1 DEF PersistIntent
  <2>3. /\ meta'.state = "prepared" /\ meta'.run = c.run /\ meta'.key = c.key
        /\ meta'.input = c.input
    BY <2>2 DEF Intent
  <2>4. versions' = <<>> /\ status = NoStatus
    BY <1>3, <2>2 DEF PersistIntent, RunInv, Starting, IdentityInv, Witness, Memory, output
  <2> HIDE DEF c
  <2>5. QED
    BY <2>1, <2>2, <2>3, <2>4 DEF IdentityInv, Witness, Memory
<1>4. CASE UpgradeIntent
  <2> DEFINE w == WithKey(ctx)
             c == [w EXCEPT !.resan = TRUE]
  <2>1. /\ w \in Object /\ w.run = ctx.run /\ w.input = ctx.input /\ w.ver = ctx.ver
        /\ w.fresh = ctx.fresh /\ ctx.fresh # None /\ w.key # None
        /\ ctx.key # None => w.key = ctx.key
    BY <1>0, <1>4 DEF UpgradeIntent, IdentityInv, Memory, WithKey, Object
  <2>2. /\ ctx' = c /\ meta' = Intent("upgrading", c) /\ pc = "upgrade_intent"
        /\ pc' = "upgrade_output" /\ UNCHANGED <<output, sidecar, status>>
    BY <1>4 DEF UpgradeIntent
  <2>3. /\ meta'.state = "upgrading" /\ meta'.run = c.run /\ meta'.key = c.key
        /\ meta'.input = c.input /\ meta'.ver = c.ver
    BY <2>2 DEF Intent
  <2> HIDE DEF w
  <2>4. /\ c.run = w.run /\ c.key = w.key /\ c.input = w.input /\ c.ver = w.ver
        /\ c.fresh = w.fresh
    <3>1. \A o \in Object :
            LET d == [o EXCEPT !.resan = TRUE]
            IN  d.run = o.run /\ d.key = o.key /\ d.input = o.input /\ d.ver = o.ver
                /\ d.fresh = o.fresh
      BY ZenonT(60) DEF Object
    <3>2. QED
      BY <2>1, <3>1
  <2> HIDE DEF c
  <2>5. /\ sidecar = "written" /\ ctx.ver = 1 /\ meta.state \in {"legacy", "upgrading"}
        /\ ctx.run = meta.run /\ ctx.input = meta.input /\ ctx.key = meta.key
        /\ versions # <<>>
    BY <2>2 DEF IdentityInv, Witness, Memory
  <2>6. \A v \in DOMAIN versions : Known(versions[v])'
    BY <2>1, <2>2, <2>3, <2>4, <2>5 DEF IdentityInv, Witness, Known, output
  <2>7. Witness'
    BY <2>1, <2>2, <2>3, <2>4, <2>5, <2>6 DEF Witness, output
  <2>8. Memory'
    BY <2>1, <2>2, <2>3, <2>4, <2>5 DEF Memory, output
  <2>9. QED
    BY <2>2, <2>7, <2>8 DEF IdentityInv, output
<1>5. CASE UpgradeOutput
  <2>1. /\ pc = "upgrade_output" /\ meta.state = "upgrading" /\ ctx.ver = 1 /\ meta.key # None
        /\ ctx.run = meta.run /\ ctx.input = meta.input /\ ctx.key = meta.key
        /\ sidecar = "written" /\ versions # <<>> /\ meta.ver = 1 /\ ctx.fresh # None
        /\ \A v \in DOMAIN versions : Known(versions[v])
    BY <1>5 DEF UpgradeOutput, IdentityInv, Witness, Memory
  <2>2. 1 \in DOMAIN versions /\ DOMAIN versions = {1}
    <3>1. Len(versions) # 0
      BY <1>0, <2>1, EmptySeq
    <3>2. Len(versions) = 1
      BY <1>0, <3>1 DEF RunInv, OneRunPerOutput
    <3>3. QED
      BY <1>0, <3>2
  <2>3. /\ versions' = [versions EXCEPT ![1].key = ctx.key] /\ pc' = "revoke"
        /\ ctx' = [ctx EXCEPT !.upgrade = FALSE]
        /\ UNCHANGED <<file, sidecar, meta, status>>
    BY <1>5, <2>1, <2>2 DEF UpgradeOutput, checkpoint
  <2>4. SameBut(ctx', ctx)
    BY <1>0, <2>3, FlagType
  <2>5. DOMAIN versions' = {1} /\ versions'[1] = [versions[1] EXCEPT !.key = ctx.key]
    BY <2>2, <2>3
  <2>6. /\ versions'[1].run = versions[1].run /\ versions'[1].input = versions[1].input
        /\ versions'[1].key = meta.key
    BY <1>0, <2>1, <2>2, <2>5, RowKeeps
  <2>7. \A v \in DOMAIN versions' : Known(versions[v])'
    <3>1. Known(versions[1])
      BY <2>1, <2>2
    <3>2. Known(versions[1])'
      BY <2>3, <2>6, <3>1 DEF Known
    <3>3. QED
      BY <2>5, <3>2 DEF Known
  <2>8. versions' # <<>>
    BY <2>5
  <2>9. Witness'
    BY <2>1, <2>3, <2>7, <2>8 DEF Witness
  <2>10. Memory'
    BY <2>1, <2>3, <2>4, <2>5, <2>6 DEF Memory, SameBut
  <2>11. QED
    BY <2>1, <2>3, <2>9, <2>10 DEF IdentityInv
<1>6. CASE CreateOutput
  BY <1>6, IdentityQuiet DEF CreateOutput, checkpoint, IdentityInv
<1>7. CASE CompleteSchema
  BY <1>7, IdentityQuiet DEF CompleteSchema, checkpoint
<1>8. CASE InsertVersion
  <2>1. CASE pc' = "bind"
    <3> DEFINE e == [run |-> ctx.run, input |-> ctx.input, key |-> ctx.key,
                     completed |-> FALSE]
    <3>1. /\ versions = <<>> /\ versions' = Append(versions, e)
          /\ ctx' = [ctx EXCEPT !.ver = Len(versions) + 1] /\ pc' = "bind" /\ pc = "insert"
          /\ UNCHANGED <<sidecar, meta, status>>
      BY <1>8, <2>1 DEF RunInv, Starting, InsertVersion, checkpoint
    <3>2. /\ sidecar = "written" /\ meta.state = "prepared" /\ meta.key # None
          /\ ctx.run = meta.run /\ ctx.input = meta.input /\ ctx.key = meta.key
          /\ ctx.fresh # None /\ status = NoStatus
      BY <3>1 DEF IdentityInv, Witness, Memory
    <3>3. versions' = <<e>>
      BY <3>1
    <3>4. DOMAIN versions' = {1} /\ versions'[1] = e /\ versions' # <<>>
      BY <3>3
    <3>5. /\ ctx'.run = ctx.run /\ ctx'.input = ctx.input /\ ctx'.key = ctx.key
          /\ ctx'.fresh = ctx.fresh
      BY <1>0, <3>1 DEF Object
    <3>6. \A v \in DOMAIN versions' : Known(versions[v])' /\ versions'[v].key = meta.key
      BY <3>1, <3>2, <3>4 DEF Known
    <3> HIDE DEF e
    <3>7. QED
      BY <2>1, <3>1, <3>2, <3>4, <3>5, <3>6 DEF IdentityInv, Witness, Memory
  <2>2. CASE pc' = "idle"
    BY <1>8, <2>2, IdentityQuiet DEF InsertVersion, output, checkpoint, IdentityInv, Witness
  <2>3. QED
    BY <1>8, <2>1, <2>2 DEF InsertVersion
<1>9. CASE Revoke
  BY <1>9, IdentityQuiet DEF Revoke, checkpoint, IdentityInv
<1>10. CASE Bind
  <2>1. /\ pc = "bind" /\ pc' = "phase" /\ meta' = Intent("bound", ctx)
        /\ UNCHANGED <<output, sidecar, status>>
        /\ ctx.ver = 1 /\ Len(versions) = 1
    BY <1>10 DEF Bind, RunInv, Identified
  <2>2. /\ ctx.run = meta.run /\ ctx.input = meta.input /\ ctx.key = meta.key
        /\ sidecar = "written" /\ meta.key # None /\ ctx.fresh # None
        /\ \A v \in DOMAIN versions : Known(versions[v]) /\ versions[v].key = meta.key
    BY <2>1 DEF IdentityInv, Witness, Memory
  <2>3. /\ meta'.state = "bound" /\ meta'.run = meta.run /\ meta'.input = meta.input
        /\ meta'.key = meta.key /\ meta'.ver = 1
    BY <2>1, <2>2 DEF Intent
  <2>4. ctx'.fresh = ctx.fresh
    BY <1>0, <1>10 DEF Bind, Object
  <2>5. versions # <<>>
    BY <2>1, EmptySeq
  <2>6. \A v \in DOMAIN versions : Known(versions[v])'
    BY <2>1, <2>2, <2>3 DEF Known, output
  <2>7. QED
    BY <2>1, <2>2, <2>3, <2>4, <2>5, <2>6 DEF IdentityInv, Witness, Memory, output
<1>11. CASE \/ SavePhaseRunning \/ HandlerCommits \/ HandlerReturns
            \/ SavePhaseFailed \/ MarkSanitizeFailed \/ GateScan \/ GateRaises
            \/ GateMarksFailed \/ GateSavesFailed \/ PhaseRaises \/ Crash
  BY <1>11, IdentityQuiet
  DEF SavePhaseRunning, SavePhaseFailed, HandlerCommits, HandlerReturns, MarkSanitizeFailed,
      GateScan, GateRaises, GateMarksFailed, GateSavesFailed, PhaseRaises, Crash, output,
      checkpoint, IdentityInv, Witness
<1>12. CASE SavePhaseComplete
  <2>1. /\ ctx'.run = ctx.run /\ ctx'.input = ctx.input /\ ctx'.key = ctx.key
        /\ ctx'.fresh = ctx.fresh /\ ctx'.ver = ctx.ver
    BY <1>0, <1>12 DEF SavePhaseComplete, Object
  <2>2. QED
    BY <1>12, <2>1, IdentityQuiet DEF SavePhaseComplete, output, IdentityInv
<1>13. CASE FinalizeVersion
  <2>1. /\ versions' = [versions EXCEPT ![ctx.ver].completed = TRUE] /\ pc = "phase"
        /\ pc' \in {"gate", "clear"} /\ ctx.ver = 1 /\ Len(versions) = 1
        /\ UNCHANGED <<file, checkpoint, ctx>>
    BY <1>13 DEF FinalizeVersion, RunInv, Identified
  <2>2. /\ DOMAIN versions' = {1} /\ 1 \in DOMAIN versions /\ versions[1] \in Row
        /\ versions'[1] = [versions[1] EXCEPT !.completed = TRUE]
    BY <1>0, <2>1
  <2>3. /\ versions'[1].run = versions[1].run /\ versions'[1].input = versions[1].input
        /\ versions'[1].key = versions[1].key /\ versions'[1].completed
    BY <2>2, RowKeeps
  <2>4. /\ sidecar = "written" /\ meta.state = "bound" /\ meta.key # None /\ ctx.fresh # None
        /\ Known(versions[1]) /\ meta.ver = 1
    BY <2>1, <2>2 DEF IdentityInv, Witness, Memory
  <2>5. \A v \in DOMAIN versions' : Known(versions[v])' /\ versions'[v].completed
    <3>1. Known(versions[1])'
      BY <2>1, <2>3, <2>4 DEF Known, checkpoint
    <3>2. QED
      BY <2>2, <2>3, <3>1 DEF Known
  <2>6. versions' # <<>>
    BY <2>2
  <2>7. QED
    BY <2>1, <2>4, <2>5, <2>6 DEF IdentityInv, Witness, Memory, checkpoint
<1>14. CASE RecordAudit
  BY <1>14, IdentityQuiet DEF RecordAudit, checkpoint, IdentityInv
<1>15. CASE ClearCheckpoint
  BY <1>15 DEF ClearCheckpoint, IdentityInv, Witness, Memory, output
<1>16. CASE Intervention
  BY <1>16 DEF CliOnly, Intervention, FreshReplace, RemoveOutput, RemoveCheckpoint
<1>17. CASE UNCHANGED vars
  BY <1>17 DEF IdentityInv, Witness, Memory, Known, vars
<1>18. QED
  BY <1>1, <1>2, <1>3, <1>4, <1>5, <1>6, <1>7, <1>8, <1>9, <1>10, <1>11, <1>12, <1>13,
     <1>14, <1>15, <1>16, <1>17
  DEF Next, Step, Fault

LEMMA IdentityInit == Init => IdentityInv
<1> SUFFICES ASSUME Init PROVE IdentityInv
  OBVIOUS
<1> USE DEF Bound, InTry, Finishing, Carrying, Creating
<1>1. pc = "idle"
  BY DEF Init
<1>2. CASE FreshInit
  BY <1>1, <1>2 DEF FreshInit, IdentityInv, Witness, Memory
<1>3. CASE LegacyInit
  <2>1. PICK a \in Inputs, t \in Tokens, done \in BOOLEAN :
          /\ versions = <<[run |-> t, input |-> a, key |-> None, completed |-> done]>>
          /\ meta = [NoMeta EXCEPT !.state = "legacy", !.run = t, !.input = a, !.ver = 1]
          /\ sidecar = "written"
    BY <1>3 DEF LegacyInit
  <2>2. /\ meta.state = "legacy" /\ meta.run = t /\ meta.input = a /\ meta.ver = 1
    BY <2>1 DEF NoMeta
  <2>3. versions # <<>> /\ \A v \in DOMAIN versions : Known(versions[v])
    BY <2>1, <2>2 DEF Known
  <2>4. QED
    BY <1>1, <2>1, <2>2, <2>3 DEF IdentityInv, Witness, Memory
<1>4. QED
  BY <1>2, <1>3 DEF Init

LEMMA IdentityCorrect == CliOnly => (Spec => [](TypeInv /\ RunInv /\ IdentityInv))
<1> SUFFICES ASSUME CliOnly PROVE Spec => [](TypeInv /\ RunInv /\ IdentityInv)
  OBVIOUS
<1>1. TypeInv /\ RunInv /\ IdentityInv /\ [Next]_vars => (TypeInv /\ RunInv /\ IdentityInv)'
  BY TypeNext, RunNext, IdentityNext
<1>2. QED
  BY <1>1, TypeInit, RunInit, IdentityInit, PTL DEF Spec

\* The key of a published identity is durable before the identity is, and until the
\* version is complete: no crash leaves a row that its checkpoint cannot recognise.
THEOREM KeyOutlives == CliOnly => (Spec => []KeyOutlivesIdentity)
<1> SUFFICES ASSUME CliOnly PROVE Spec => []KeyOutlivesIdentity
  OBVIOUS
<1>1. IdentityInv => KeyOutlivesIdentity
  BY DEF IdentityInv, Witness, Known, KeyOutlivesIdentity
<1>2. QED
  BY <1>1, IdentityCorrect, PTL

\* Wherever a build of the command line was interrupted, its checkpoint is accepted
\* by the next one with the same inputs.
THEOREM Resumable == CliOnly => (Spec => []InterruptedIsResumable)
<1> SUFFICES ASSUME CliOnly PROVE Spec => []InterruptedIsResumable
  OBVIOUS
<1>1. ASSUME TypeInv, RunInv, IdentityInv, sidecar = "written"
      PROVE  Restorable(meta, meta.input)
  <2>1. /\ meta.state # "none" /\ (meta.state # "legacy" => meta.key # None)
        /\ \A v \in DOMAIN versions : Known(versions[v])
    BY <1>1 DEF IdentityInv, Witness
  <2>2. DOMAIN versions = 1..Len(versions) /\ Len(versions) \in Nat
    BY <1>1, LenProperties DEF TypeInv, TypeOK
  <2>3. CASE meta.state = "prepared"
    <3>1. status = NoStatus
      BY <1>1, <2>3 DEF IdentityInv, Witness
    <3>2. \A v \in RowsOf(meta.run) : versions[v].input = meta.input /\ versions[v].key = meta.key
      BY <2>1, <2>3 DEF RowsOf, Known
    <3>3. RowsOf(meta.run) = DOMAIN versions
      BY <2>1 DEF RowsOf, Known
    <3>4. DOMAIN versions = {} => versions = <<>>
      <4>1. ASSUME DOMAIN versions = {} PROVE Len(versions) = 0
        BY <2>2, <4>1
      <4>2. QED
        BY <1>1, <4>1, EmptySeq DEF TypeInv, TypeOK
    <3>5. QED
      BY <2>3, <3>1, <3>2, <3>3, <3>4 DEF Restorable, PreparedMatches
  <2>4. CASE meta.state # "prepared"
    <3>1. meta.ver = 1 /\ versions # <<>>
      BY <1>1, <2>4 DEF IdentityInv, Witness
    <3>2. 1 \in DOMAIN versions
      <4>1. Len(versions) # 0
        BY <1>1, <3>1, EmptySeq DEF TypeInv, TypeOK
      <4>2. QED
        BY <2>2, <4>1
    <3>3. Known(versions[1])
      BY <2>1, <3>2
    <3>4. QED
      BY <2>1, <2>4, <3>1, <3>2, <3>3 DEF Restorable, BoundMatches, Known
  <2>5. QED
    BY <2>3, <2>4
<1>2. TypeInv /\ RunInv /\ IdentityInv => InterruptedIsResumable
  BY <1>1 DEF InterruptedIsResumable
<1>3. QED
  BY <1>2, IdentityCorrect, PTL

\* Nothing but the end of a build takes a checkpoint away from its run: neither the
\* rewriting of a legacy identity nor a resumed build changes the run, the input or
\* a key once it is there, or forgets that sanitization must be repeated.
THEOREM CheckpointKeeps == CliOnly => (Spec => CheckpointKeepsItsRun)
<1> SUFFICES ASSUME CliOnly PROVE Spec => CheckpointKeepsItsRun
  OBVIOUS
<1> DEFINE Keeps == /\ meta'.run = meta.run /\ meta'.input = meta.input
                    /\ meta.key # None => meta'.key = meta.key
                    /\ meta.resan => meta'.resan
<1>1. ASSUME TypeInv, IdentityInv, Next, sidecar = "written", sidecar' = "written"
      PROVE  Keeps
  <2> USE DEF Carrying, Creating
  <2>0. ctx \in Object /\ meta \in Meta
    BY <1>1 DEF TypeInv, TypeOK
  <2>1. CASE Call
    <3>1. PICK c \in Object : \/ Refuse(c)
                              \/ Resume(c, 0)
                              \/ Start(c, 0)
      BY <1>1, <2>1, CliCall
    <3>2. QED
      BY <1>1, <3>1 DEF Refuse, Resume, Start, checkpoint
  <2>2. CASE CreateSidecar \/ PersistIntent
    BY <1>1, <2>2 DEF CreateSidecar, PersistIntent, IdentityInv, Memory
  <2>3. CASE UpgradeIntent
    <3> DEFINE w == WithKey(ctx)
               c == [w EXCEPT !.resan = TRUE]
    <3>1. /\ meta' = Intent("upgrading", c) /\ ctx.run = meta.run /\ ctx.input = meta.input
          /\ ctx.key = meta.key
      BY <1>1, <2>3 DEF UpgradeIntent, IdentityInv, Memory
    <3>2. /\ w \in Object /\ w.run = ctx.run /\ w.input = ctx.input
          /\ ctx.key # None => w.key = ctx.key
      BY <1>1, <2>0, <2>3 DEF UpgradeIntent, IdentityInv, Memory, WithKey, TypeInv, TypeOK, Object
    <3> HIDE DEF w
    <3>3. c.run = w.run /\ c.key = w.key /\ c.input = w.input
      BY <3>2 DEF Object
    <3> HIDE DEF c
    <3>4. meta'.run = c.run /\ meta'.input = c.input /\ meta'.key = c.key /\ meta'.resan
      BY <3>1 DEF Intent
    <3>5. QED
      BY <3>1, <3>2, <3>3, <3>4
  <2>4. CASE Bind
    <3>1. /\ meta' = Intent("bound", ctx) /\ ctx.run = meta.run /\ ctx.input = meta.input
          /\ ctx.key = meta.key
      BY <1>1, <2>4 DEF Bind, IdentityInv, Memory
    <3>2. QED
      BY <3>1 DEF Intent
  <2>5. CASE UpgradeOutput \/ CreateOutput \/ CompleteSchema \/ InsertVersion \/ Revoke
             \/ SavePhaseRunning \/ HandlerCommits \/ HandlerReturns \/ SavePhaseComplete
             \/ SavePhaseFailed \/ MarkSanitizeFailed \/ FinalizeVersion \/ GateScan
             \/ RecordAudit \/ GateMarksFailed \/ GateSavesFailed \/ Fault
    BY <2>5 DEF UpgradeOutput, CreateOutput, CompleteSchema, InsertVersion, Revoke,
                SavePhaseRunning, HandlerCommits, HandlerReturns, SavePhaseComplete,
                SavePhaseFailed, MarkSanitizeFailed, FinalizeVersion, GateScan, RecordAudit,
                GateMarksFailed, GateSavesFailed, Fault, PhaseRaises, GateRaises, Crash,
                checkpoint
  <2>6. CASE ClearCheckpoint \/ Intervention
    BY <1>1, <2>6 DEF ClearCheckpoint, CliOnly, Intervention, FreshReplace, RemoveOutput,
                      RemoveCheckpoint
  <2>7. QED
    BY <1>1, <2>1, <2>2, <2>3, <2>4, <2>5, <2>6 DEF Next, Step
<1>2. TypeInv /\ IdentityInv /\ [Next]_vars
      => [sidecar = "written" /\ sidecar' = "written" =>
            /\ meta'.run = meta.run
            /\ meta'.input = meta.input
            /\ meta.key # None => meta'.key = meta.key
            /\ meta.resan => meta'.resan]_vars
  BY <1>1
<1>3. QED
  BY <1>2, IdentityCorrect, PTL DEF CheckpointKeepsItsRun, Spec

=============================================================================
