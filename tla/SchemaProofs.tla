---------------------------- MODULE SchemaProofs ----------------------------
(***************************************************************************)
(* Theorems about initialize_database(), for every number of entity        *)
(* tables, provenance columns and attempts, and wherever they die.         *)
(***************************************************************************)
EXTENDS Schema, FiniteSetTheorems, SequenceTheorems, WellFoundedInduction, TLAPS

-----------------------------------------------------------------------------
(* Scripts.                                                                *)

Others == Indexes \cup Fts \cup Triggers \cup Views
Cells == Tables \X ToSet(Columns)

\* The statements that are executed one by one.
Ops == {"create", "column", "stamp", "rebuild", "detach", "rename", "copy", "drop", "attach"}
Statements == [op : Ops, on : Expected \cup {Score} \cup Cells \cup Tables \cup 3..Current]

LEMMA LeastNat ==
    ASSUME NEW S, S \subseteq Nat, S # {}
    PROVE  \E x \in S : \A y \in S : x <= y
<1>1. PICK x \in S : \A y \in S : ~(<<y, x>> \in OpToRel(<, Nat))
  BY NatLessThanWellFounded, WFMin
<1>2. \A y \in S : ~(y < x)
  BY <1>1 DEF OpToRel
<1>3. QED
  BY <1>2

\* SetToSeq lists a finite set.
LEMMA Listed ==
    ASSUME NEW S, IsFiniteSet(S)
    PROVE  /\ SetToSeq(S) \in Seq(S)
           /\ \A x \in S : \E i \in DOMAIN SetToSeq(S) : SetToSeq(S)[i] = x
<1> DEFINE n == Cardinality(S)
<1>1. n \in Nat /\ ExistsBijection(1..n, S)
  BY FS_CardinalityType
<1>2. PICK f \in Bijection(1..n, S) : TRUE
  BY <1>1 DEF ExistsBijection
<1>3. f \in [1..n -> S] /\ IsInjective(f)
  BY <1>2 DEF Bijection, Injection
<1>4. SetToSeq(S) \in [1..n -> S] /\ IsInjective(SetToSeq(S))
  BY <1>3 DEF SetToSeq
<1>5. SetToSeq(S) \in Injection(1..n, S)
  BY <1>4 DEF Injection
<1>6. Cardinality(1..n) = n
  BY <1>1, FS_Interval
<1>7. SetToSeq(S) \in Surjection(1..n, S)
  BY <1>5, <1>6, FS_Injection
<1>8. QED
  BY <1>1, <1>4, <1>7 DEF Surjection

LEMMA ObjectFinite ==
    ASSUME NEW type, NEW S, IsFiniteSet(S)
    PROVE  IsFiniteSet(Object(type, S))
<1> DEFINE f == [x \in S |-> <<type, x>>]
<1>1. f \in Surjection(S, Object(type, S))
  BY DEF Surjection, Object
<1>2. QED
  BY <1>1, FS_Surjection

LEMMA TablesFinite == IsFiniteSet(Tables)
<1>1. Entities \in [1..Len(Entities) -> Tables] /\ Len(Entities) \in Nat
  BY SchemaAssumption
<1>2. Entities \in Surjection(1..Len(Entities), Tables)
  BY <1>1 DEF Surjection, Tables, ToSet
<1>3. QED
  BY <1>1, <1>2, FS_Surjection, FS_Interval

LEMMA ExpectedFinite ==
    /\ IsFiniteSet(Indexes) /\ IsFiniteSet(Fts) /\ IsFiniteSet(Triggers) /\ IsFiniteSet(Views)
    /\ IsFiniteSet(CoreTables \cup {Score})
<1>1. IsFiniteSet(Tables) /\ IsFiniteSet(Searched)
  BY TablesFinite, FS_Subset, SchemaAssumption
<1>2. IsFiniteSet({"atoms"}) /\ IsFiniteSet({"atoms", "atoms_update"}) /\ IsFiniteSet(Late)
        /\ IsFiniteSet(Late \cup {"versions"})
  <2>1. ASSUME NEW S, IsFiniteSet(S), NEW x
        PROVE  IsFiniteSet(S \cup {x})
    BY <2>1, FS_Singleton, FS_Union
  <2>2. IsFiniteSet({"atoms"})
    BY FS_Singleton
  <2>3. IsFiniteSet({"atoms"} \cup {"atoms_update"}) /\ IsFiniteSet({"atoms"} \cup {"match"})
    BY <2>1, <2>2
  <2>4. IsFiniteSet({"atoms"} \cup {"match"} \cup {"mach"})
    BY <2>1, <2>3
  <2>5. IsFiniteSet({"atoms"} \cup {"match"} \cup {"mach"} \cup {"versions"})
    BY <2>1, <2>4
  <2>6. /\ {"atoms"} \cup {"atoms_update"} = {"atoms", "atoms_update"}
        /\ {"atoms"} \cup {"match"} \cup {"mach"} = Late
    BY DEF Late
  <2>7. QED
    BY <2>2, <2>3, <2>4, <2>5, <2>6
<1>3. /\ IsFiniteSet(Tables \cup Late) /\ IsFiniteSet(Searched \cup {"atoms"})
      /\ IsFiniteSet(Searched \cup {"atoms", "atoms_update"})
      /\ IsFiniteSet(Tables \cup (Late \cup {"versions"}))
  BY <1>1, <1>2, FS_Union
<1>4. Tables \cup (Late \cup {"versions"}) = Tables \cup Late \cup {"versions"}
  OBVIOUS
<1>5. IsFiniteSet(CoreTables)
  BY <1>3, <1>4, ObjectFinite DEF CoreTables
<1>6. QED
  BY <1>3, <1>5, ObjectFinite, FS_Singleton, FS_Union DEF Indexes, Fts, Triggers, Views

\* What a concatenation contains.
Lists(s, x) == \E i \in 1..Len(s) : s[i] = x

LEMMA Joined ==
    ASSUME NEW S, NEW s \in Seq(S), NEW t \in Seq(S)
    PROVE  /\ s \o t \in Seq(S) /\ Len(s \o t) = Len(s) + Len(t)
           /\ \A x : Lists(s, x) \/ Lists(t, x) => Lists(s \o t, x)
<1>1. /\ s \o t \in Seq(S) /\ Len(s \o t) = Len(s) + Len(t)
      /\ \A i \in 1..Len(s \o t) : (s \o t)[i] = IF i <= Len(s) THEN s[i] ELSE t[i - Len(s)]
  BY ConcatProperties
<1>2. Len(s) \in Nat /\ Len(t) \in Nat
  BY LenProperties
<1>3. \A i \in 1..Len(s) : i \in 1..Len(s \o t) /\ (s \o t)[i] = s[i]
  BY <1>1, <1>2
<1>4. \A i \in 1..Len(t) : i + Len(s) \in 1..Len(s \o t) /\ (s \o t)[i + Len(s)] = t[i]
  <2> TAKE i \in 1..Len(t)
  <2>1. i + Len(s) \in 1..Len(s \o t) /\ ~(i + Len(s) <= Len(s)) /\ (i + Len(s)) - Len(s) = i
    BY <1>1, <1>2
  <2>2. QED
    BY <1>1, <2>1
<1>5. QED
  BY <1>1, <1>3, <1>4 DEF Lists

\* Creates: as many statements as objects, each of its object.
LEMMA Created ==
    ASSUME NEW S, NEW s \in Seq(S), S \subseteq Expected \cup {Score}
    PROVE  /\ Creates(s) \in Seq(Statements) /\ Len(Creates(s)) = Len(s)
           /\ \A i \in 1..Len(s) : Creates(s)[i] = Statement("create", s[i])
<1>1. Len(s) \in Nat /\ DOMAIN s = 1..Len(s) /\ \A i \in 1..Len(s) : s[i] \in S
  BY LenProperties
<1>2. \A i \in 1..Len(s) : Statement("create", s[i]) \in Statements
  BY <1>1 DEF Statement, Statements, Ops
<1>3. Creates(s) = [i \in 1..Len(s) |-> Statement("create", s[i])]
  BY <1>1 DEF Creates
<1>4. QED
  BY <1>1, <1>2, <1>3

LEMMA ListedObjects ==
    ASSUME NEW S, IsFiniteSet(S), NEW o \in S
    PROVE  Lists(SetToSeq(S), o)
<1>1. SetToSeq(S) \in Seq(S) /\ \E i \in DOMAIN SetToSeq(S) : SetToSeq(S)[i] = o
  BY Listed
<1>2. QED
  BY <1>1 DEF Lists

\* NonTables creates the objects that are no tables, and nothing else.
LEMMA NonTablesAre ==
    /\ NonTables \in Seq(Statements)
    /\ \A i \in DOMAIN NonTables : NonTables[i].op = "create" /\ NonTables[i].on \in Others
    /\ \A o \in Others : \E i \in DOMAIN NonTables : NonTables[i] = Statement("create", o)
<1> DEFINE a == SetToSeq(Indexes)
           b == SetToSeq(Fts)
           c == SetToSeq(Triggers)
           e == SetToSeq(Views)
           all == a \o b \o c \o e
<1>1. a \in Seq(Others) /\ b \in Seq(Others) /\ c \in Seq(Others) /\ e \in Seq(Others)
  <2>1. a \in Seq(Indexes) /\ b \in Seq(Fts) /\ c \in Seq(Triggers) /\ e \in Seq(Views)
    BY ExpectedFinite, Listed
  <2>2. QED
    BY <2>1, SeqMonotonic DEF Others
<1>2. \A o \in Others : Lists(a, o) \/ Lists(b, o) \/ Lists(c, o) \/ Lists(e, o)
  BY ExpectedFinite, ListedObjects DEF Others
<1>3. all \in Seq(Others) /\ \A o \in Others : \E i \in 1..Len(all) : all[i] = o
  <2> HIDE DEF a, b, c, e
  <2> DEFINE ab == a \o b
             abc == ab \o c
             abce == abc \o e
  <2>1. ab \in Seq(Others) /\ \A o : Lists(a, o) \/ Lists(b, o) => Lists(ab, o)
    BY <1>1, Joined
  <2>2. abc \in Seq(Others) /\ \A o : Lists(ab, o) \/ Lists(c, o) => Lists(abc, o)
    <3> HIDE DEF ab
    <3>1. QED BY <1>1, <2>1, Joined
  <2>3. abce \in Seq(Others) /\ \A o : Lists(abc, o) \/ Lists(e, o) => Lists(abce, o)
    <3> HIDE DEF abc
    <3>1. QED BY <1>1, <2>2, Joined
  <2>4. \A o \in Others : Lists(abce, o)
    <3> HIDE DEF ab, abc, abce
    <3>1. QED BY <1>2, <2>1, <2>2, <2>3
  <2>5. abce = all
    OBVIOUS
  <2>6. QED
    <3> HIDE DEF abce, all
    <3>1. QED BY <2>3, <2>4, <2>5 DEF Lists
<1>4. NonTables = Creates(all)
  BY DEF NonTables
<1>5. QED
  <2> HIDE DEF all
  <2>1. Others \subseteq Expected \cup {Score}
    BY DEF Others, Expected
  <2>2. /\ Creates(all) \in Seq(Statements) /\ Len(Creates(all)) = Len(all)
        /\ \A i \in 1..Len(all) : Creates(all)[i] = Statement("create", all[i])
    BY <1>3, <2>1, Created
  <2>3. DOMAIN NonTables = 1..Len(all) /\ \A i \in 1..Len(all) : all[i] \in Others
    BY <1>3, <1>4, <2>2
  <2>4. \A i \in 1..Len(all) : NonTables[i] = Statement("create", all[i])
    BY <1>4, <2>2
  <2>5. \A o : Statement("create", o).op = "create" /\ Statement("create", o).on = o
    BY DEF Statement
  <2>6. NonTables \in Seq(Statements)
    BY <1>4, <2>2
  <2>7. \A i \in DOMAIN NonTables : NonTables[i].op = "create" /\ NonTables[i].on \in Others
    <3> SUFFICES ASSUME NEW i \in DOMAIN NonTables
                 PROVE  NonTables[i].op = "create" /\ NonTables[i].on \in Others
      OBVIOUS
    <3>1. NonTables[i] = Statement("create", all[i]) /\ all[i] \in Others
      BY <2>3, <2>4
    <3>2. QED
      BY <3>1, <2>5
  <2>8. \A o \in Others : \E i \in DOMAIN NonTables : NonTables[i] = Statement("create", o)
    BY <1>3, <2>3, <2>4
  <2>9. QED
    BY <2>6, <2>7, <2>8

\* What FlattenSeq strings together.
LEMMA Flattened ==
    ASSUME NEW S, NEW ss \in Seq(Seq(S))
    PROVE  /\ FlattenSeq(ss) \in Seq(S)
           /\ \A i \in 1..Len(ss) : \A x : Lists(ss[i], x) => Lists(FlattenSeq(ss), x)
<1> DEFINE n == Len(ss)
<1>1. n \in Nat /\ \A i \in 1..n : ss[i] \in Seq(S)
  BY LenProperties
<1>2. CASE n = 0
  <2>1. ss = <<>>
    BY <1>2
  <2>2. FlattenSeq(ss) = <<>>
    BY <1>2, <2>1 DEF FlattenSeq
  <2>3. FlattenSeq(ss) \in Seq(S)
    BY <2>2
  <2>4. \A i \in 1..Len(ss) : FALSE
    BY <1>2
  <2>5. QED
    BY <2>3, <2>4
<1>3. CASE n # 0
  <2> DEFINE F(m, f) == f = [i \in 1..m |-> IF i = 1 THEN ss[i] ELSE f[i-1] \o ss[i]]
             bad == {m \in 1..n : ~ \E f : F(m, f)}
             flat == CHOOSE f : F(n, f)
  <2>1. bad = {}
    <3> SUFFICES ASSUME bad # {} PROVE FALSE
      OBVIOUS
    <3>1. PICK m \in bad : \A k \in bad : m <= k
      <4>1. bad \subseteq Nat
        <5> HIDE DEF F
        <5>1. QED BY <1>1
      <4> HIDE DEF bad
      <4>2. QED
        BY <4>1, LeastNat
    <3>2. CASE m = 1
      <4> DEFINE f == [i \in 1..1 |-> ss[i]]
      <4>1. F(1, f)
        OBVIOUS
      <4>2. QED
        BY <3>1, <3>2, <4>1
    <3>3. CASE m # 1
      <4>1. m - 1 \in 1..n /\ m - 1 \notin bad
        <5>1. m \in 1..n
          BY <3>1
        <5>2. m - 1 \in 1..n /\ ~(m <= m - 1)
          BY <1>1, <3>3, <5>1
        <5>3. QED
          BY <3>1, <5>2
      <4>2. PICK g : F(m - 1, g)
        BY <4>1
      <4> DEFINE f == [i \in 1..m |-> IF i = m THEN g[m - 1] \o ss[m] ELSE g[i]]
      <4>3. m \in 1..n
        BY <3>1
      <4>4. \A i \in 1..m : f[i] = IF i = 1 THEN ss[i] ELSE f[i-1] \o ss[i]
        <5> TAKE i \in 1..m
        <5>1. CASE i = m
          <6>1. m - 1 \in 1..m /\ m - 1 # m
            BY <1>1, <3>3, <4>3
          <6>2. QED
            BY <3>3, <5>1, <6>1
        <5>2. CASE i # m
          <6>1. i \in 1..(m - 1) /\ f[i] = g[i]
            BY <1>1, <4>3, <5>2
          <6>2. i # 1 => i - 1 \in 1..m /\ i - 1 # m /\ f[i - 1] = g[i - 1]
            BY <1>1, <4>3, <5>2
          <6>3. g[i] = IF i = 1 THEN ss[i] ELSE g[i-1] \o ss[i]
            BY <4>2, <6>1
          <6> HIDE DEF f
          <6>4. QED
            BY <6>1, <6>2, <6>3
        <5>3. QED
          BY <5>1, <5>2
      <4>5. F(m, f)
        <5>1. f = [i \in 1..m |-> f[i]]
          OBVIOUS
        <5> HIDE DEF f
        <5>2. QED
          BY <4>4, <5>1
      <4>6. m \notin bad
        BY <4>5
      <4>7. QED
        BY <3>1, <4>6
    <3>4. QED
      BY <3>2, <3>3
  <2>2. F(n, flat)
    <3>1. n \in 1..n
      BY <1>1, <1>3
    <3>2. \E f : F(n, f)
      BY <2>1, <3>1
    <3> HIDE DEF F
    <3>3. QED
      BY <3>2
  <2>3. FlattenSeq(ss) = flat[n]
    BY <1>3 DEF FlattenSeq
  <2> HIDE DEF flat
  <2>4. \A i \in 1..n : flat[i] = IF i = 1 THEN ss[i] ELSE flat[i-1] \o ss[i]
    BY <2>2
  <2> DEFINE G(i) == flat[i] \in Seq(S) /\ \A j \in 1..i : \A x : Lists(ss[j], x) => Lists(flat[i], x)
             wrong == {i \in 1..n : ~G(i)}
  <2>5. wrong = {}
    <3> SUFFICES ASSUME wrong # {} PROVE FALSE
      OBVIOUS
    <3>1. PICK m \in wrong : \A k \in wrong : m <= k
      <4>1. wrong \subseteq Nat
        BY <1>1
      <4> HIDE DEF wrong
      <4>2. QED
        BY <4>1, LeastNat
    <3>2. m \in 1..n /\ ~G(m)
      BY <3>1
    <3>3. CASE m = 1
      <4>1. flat[1] = ss[1]
        BY <2>4, <3>2, <3>3
      <4>2. G(1)
        BY <1>1, <3>2, <3>3, <4>1
      <4>3. QED
        BY <3>2, <3>3, <4>2
    <3>4. CASE m # 1
      <4>1. m - 1 \in 1..n /\ m - 1 \notin wrong
        <5>1. m - 1 \in 1..n /\ ~(m <= m - 1)
          BY <1>1, <3>2, <3>4
        <5>2. QED
          BY <3>1, <5>1
      <4>2. G(m - 1)
        BY <4>1
      <4>3. flat[m] = flat[m - 1] \o ss[m]
        BY <2>4, <3>2, <3>4
      <4>4. /\ flat[m] \in Seq(S)
            /\ \A x : Lists(flat[m - 1], x) \/ Lists(ss[m], x) => Lists(flat[m], x)
        <5>1. flat[m - 1] \in Seq(S) /\ ss[m] \in Seq(S)
          BY <1>1, <3>2, <4>2
        <5>2. QED
          BY <4>3, <5>1, Joined
      <4>5. \A j \in 1..m : j = m \/ j \in 1..(m - 1)
        BY <1>1, <3>2
      <4>6. QED
        BY <3>2, <4>2, <4>4, <4>5
    <3>5. QED
      BY <3>3, <3>4
  <2>6. n \in 1..n /\ G(n)
    <3>1. n \in 1..n
      BY <1>1, <1>3
    <3>2. QED
      BY <2>5, <3>1
  <2>7. QED
    BY <2>3, <2>6
<1>4. QED
  BY <1>2, <1>3

-----------------------------------------------------------------------------
(* Migrations.                                                             *)

\* The statements of a migration other than its stamp.
Migrates(s) ==
    \/ s.op = "create" /\ s.on \in (Expected \cup {Score}) \ Object("table", Tables)
    \/ s.op = "column" /\ s.on \in Cells

Script(s, k) ==
    /\ s \in Seq(Statements)
    /\ \A i \in 1..Len(s) :
        Migrates(s[i]) /\ (s[i].op = "create" /\ s[i].on \in Fts => k = 4 /\ s[i].on = <<"fts", "atoms">>)

\* The types of objects tell them apart.
LEMMA Apart ==
    /\ \A o \in Cells : o \notin Expected \cup {Score}
    /\ \A o \in Fts : o[1] = "fts" /\ o = <<"fts", o[2]>>
    /\ \A o \in Object("table", Tables) : o[1] = "table" /\ o = <<"table", o[2]>> /\ o[2] \in Tables
    /\ Score \notin Expected
    /\ \A t \in Tables : t \notin Late \cup {"versions", "atoms_update"}
<1>1. \A t \in Tables : t \notin {"table", "index", "fts", "trigger", "view", "column"}
  BY SchemaAssumption
<1>2. \A o \in Cells : o[1] \in Tables
  BY DEF Cells
<1>3. \A o \in Expected : o[1] \in {"table", "index", "fts", "trigger", "view"}
  BY DEF Expected, CoreTables, Indexes, Fts, Triggers, Views, Object
<1>4. Score[1] = "column"
  BY DEF Score
<1>5. \A o \in Fts : o[1] = "fts" /\ o = <<"fts", o[2]>>
  BY DEF Fts, Object
<1>6. \A o \in Object("table", Tables) : o[1] = "table" /\ o = <<"table", o[2]>> /\ o[2] \in Tables
  BY DEF Object
<1>7. \A t \in Tables : t \notin Late \cup {"versions", "atoms_update"}
  BY SchemaAssumption
<1>8. QED
  BY <1>1, <1>2, <1>3, <1>4, <1>5, <1>6, <1>7

\* What CREATE statements of objects other than the tables of entities are.
LEMMA CreatesMigrate ==
    ASSUME NEW S, NEW s \in Seq(S), S \subseteq (Expected \cup {Score}) \ Object("table", Tables),
           NEW k, \A o \in S : o \in Fts => k = 4 /\ o = <<"fts", "atoms">>
    PROVE  /\ Script(Creates(s), k)
           /\ \A i \in 1..Len(s) : Lists(Creates(s), Statement("create", s[i]))
<1>1. /\ Creates(s) \in Seq(Statements) /\ Len(Creates(s)) = Len(s)
      /\ \A i \in 1..Len(s) : Creates(s)[i] = Statement("create", s[i])
  BY Created
<1>2. \A i \in 1..Len(s) : s[i] \in S
  OBVIOUS
<1>3. \A o : Statement("create", o).op = "create" /\ Statement("create", o).on = o
  BY DEF Statement
<1>4. QED
  BY <1>1, <1>2, <1>3 DEF Script, Migrates, Lists

\* The columns of all tables.
LEMMA ColumnsAre ==
    LET all == FlattenSeq([i \in DOMAIN Entities |-> ColumnsOf(Entities[i])])
    IN  /\ Script(all, 3)
        /\ \A o \in Cells : Lists(all, Statement("column", o))
<1> DEFINE S == [op : {"column"}, on : Cells]
           parts == [i \in DOMAIN Entities |-> ColumnsOf(Entities[i])]
<1>1. /\ Len(Entities) \in Nat /\ DOMAIN Entities = 1..Len(Entities)
      /\ Len(Columns) \in Nat /\ DOMAIN Columns = 1..Len(Columns)
      /\ \A i \in 1..Len(Entities) : Entities[i] \in Tables
      /\ \A i \in 1..Len(Columns) : Columns[i] \in ToSet(Columns)
  BY SchemaAssumption
<1>2. ASSUME NEW t \in Tables
      PROVE  ColumnsOf(t) \in Seq(S) /\ \A c \in ToSet(Columns) : Lists(ColumnsOf(t), Statement("column", <<t, c>>))
  <2>1. \A i \in 1..Len(Columns) : Statement("column", <<t, Columns[i]>>) \in S
    BY <1>1 DEF Cells, Statement
  <2>2. ColumnsOf(t) = [i \in 1..Len(Columns) |-> Statement("column", <<t, Columns[i]>>)]
    BY <1>1 DEF ColumnsOf
  <2>3. ColumnsOf(t) \in Seq(S) /\ Len(ColumnsOf(t)) = Len(Columns)
    <3> HIDE DEF S
    <3>1. QED BY <1>1, <2>1, <2>2
  <2>4. \A c \in ToSet(Columns) : \E i \in 1..Len(Columns) : Columns[i] = c
    BY <1>1 DEF ToSet
  <2>5. QED
    BY <2>2, <2>3, <2>4 DEF Lists
<1>3. parts \in Seq(Seq(S)) /\ Len(parts) = Len(Entities) /\ \A i \in 1..Len(Entities) : parts[i] = ColumnsOf(Entities[i])
  <2> HIDE DEF S
  <2>1. QED BY <1>1, <1>2
<1>4. /\ FlattenSeq(parts) \in Seq(S)
      /\ \A i \in 1..Len(parts) : \A x : Lists(parts[i], x) => Lists(FlattenSeq(parts), x)
  <2> HIDE DEF S, parts
  <2>1. QED BY <1>3, Flattened
<1>5. \A t \in Tables : \E i \in 1..Len(Entities) : Entities[i] = t
  BY <1>1 DEF Tables, ToSet
<1>6. \A o \in Cells : Lists(FlattenSeq(parts), Statement("column", o))
  <2> SUFFICES ASSUME NEW t \in Tables, NEW c \in ToSet(Columns)
               PROVE  Lists(FlattenSeq(parts), Statement("column", <<t, c>>))
    BY DEF Cells
  <2>1. PICK i \in 1..Len(Entities) : Entities[i] = t
    BY <1>5
  <2>2. Lists(parts[i], Statement("column", <<t, c>>))
    <3> HIDE DEF parts
    <3>1. QED BY <1>2, <1>3, <2>1
  <2>3. QED
    <3> HIDE DEF parts
    <3>1. QED BY <1>3, <1>4, <2>2
<1>7. Script(FlattenSeq(parts), 3)
  <2> DEFINE all == FlattenSeq(parts)
  <2>1. S \subseteq Statements /\ \A s \in S : s.op = "column" /\ s.on \in Cells
    BY DEF Statements, Ops
  <2>2. all \in Seq(Statements) /\ \A i \in 1..Len(all) : all[i] \in S
    <3> HIDE DEF all, S
    <3>1. all \in Seq(S)
      BY <1>4 DEF all
    <3>2. QED
      BY <2>1, <3>1, SeqMonotonic
  <2>3. QED
    <3> HIDE DEF all, S
    <3>1. QED BY <2>1, <2>2 DEF Script, Migrates, all
<1>8. QED
  BY <1>6, <1>7

LEMMA ScriptJoin ==
    ASSUME NEW k, NEW s, NEW t, Script(s, k), Script(t, k)
    PROVE  /\ Script(s \o t, k)
           /\ \A x : Lists(s, x) \/ Lists(t, x) => Lists(s \o t, x)
<1>1. s \in Seq(Statements) /\ t \in Seq(Statements)
  BY DEF Script
<1>2. /\ s \o t \in Seq(Statements) /\ Len(s \o t) = Len(s) + Len(t)
      /\ \A i \in 1..Len(s \o t) : (s \o t)[i] = IF i <= Len(s) THEN s[i] ELSE t[i - Len(s)]
  BY <1>1, ConcatProperties
<1>3. \A i \in 1..Len(s \o t) :
        IF i <= Len(s) THEN i \in 1..Len(s) ELSE i - Len(s) \in 1..Len(t)
  BY <1>1, <1>2, LenProperties
<1>4. \A i \in 1..Len(s \o t) :
        \/ \E j \in 1..Len(s) : (s \o t)[i] = s[j]
        \/ \E j \in 1..Len(t) : (s \o t)[i] = t[j]
  BY <1>2, <1>3
<1>5. Script(s \o t, k)
  BY <1>2, <1>4 DEF Script
<1>6. QED
  BY <1>1, <1>5, Joined

LEMMA MakesAre ==
    ASSUME NEW k \in 3..Current
    PROVE  /\ Script(Makes(k), k)
           /\ k = 3 => Cells \subseteq Added(k) /\ <<"table", "versions">> \in Added(k)
           /\ k = 4 => <<"table", "atoms">> \in Added(k)
           /\ k = 5 => <<"table", "mach">> \in Added(k)
           /\ k = 6 => <<"table", "match">> \in Added(k)
<1>1. ASSUME NEW op, NEW o, Script(Makes(k), k), Lists(Makes(k), Statement(op, o))
      PROVE  o \in Added(k)
  BY <1>1 DEF Lists, Added, Statement, Script
<1> DEFINE made == {<<"table", n>> : n \in Late \cup {"versions"}}
                     \cup {<<"index", n>> : n \in Late} \cup {<<"trigger", "atoms">>, Score}
<1>2. /\ made \subseteq (Expected \cup {Score}) \ Object("table", Tables)
      /\ <<"fts", "atoms">> \in (Expected \cup {Score}) \ Object("table", Tables)
      /\ \A o \in made : o \notin Fts
  BY SchemaAssumption DEF Expected, CoreTables, Indexes, Fts, Triggers, Views, Object, Score, Late
<1>0. ASSUME NEW S, NEW s \in Seq(S), S \subseteq made \/ (k = 4 /\ S \subseteq made \cup {<<"fts", "atoms">>}),
             NEW o, Len(s) > 0, o = s[1]
      PROVE  Script(Creates(s), k) /\ Lists(Creates(s), Statement("create", o))
  <2>1. S \subseteq (Expected \cup {Score}) \ Object("table", Tables)
    <3> HIDE DEF made
    <3>1. QED BY <1>2, <1>0
  <2>2. \A x \in S : x \in Fts => k = 4 /\ x = <<"fts", "atoms">>
    <3> HIDE DEF made
    <3>1. QED BY <1>2, <1>0
  <2>3. /\ Script(Creates(s), k)
        /\ \A i \in 1..Len(s) : Lists(Creates(s), Statement("create", s[i]))
    BY <2>1, <2>2, CreatesMigrate
  <2>4. 1 \in 1..Len(s)
    BY <1>0
  <2>5. QED
    BY <2>3, <2>4, <1>0
<1>3. CASE k = 3
  <2> DEFINE s == <<<<"table", "versions">>>>
             all == FlattenSeq([i \in DOMAIN Entities |-> ColumnsOf(Entities[i])])
  <2>1. s \in Seq(made) /\ Len(s) = 1 /\ s[1] = <<"table", "versions">>
    BY DEF Late
  <2>2. Script(Creates(s), k) /\ Lists(Creates(s), Statement("create", <<"table", "versions">>))
    <3> HIDE DEF s, made
    <3>1. QED BY <1>0, <2>1
  <2>3. Script(all, 3) /\ \A o \in Cells : Lists(all, Statement("column", o))
    BY ColumnsAre
  <2>4. Makes(k) = Creates(s) \o all
    BY <1>3 DEF Makes
  <2> HIDE DEF all, s
  <2>5. Script(Makes(k), k) /\ \A x : Lists(Creates(s), x) \/ Lists(all, x) => Lists(Makes(k), x)
    <3>1. Script(Creates(s), k) /\ Script(all, k)
      BY <1>3, <2>2, <2>3
    <3>2. /\ Script(Creates(s) \o all, k)
          /\ \A x : Lists(Creates(s), x) \/ Lists(all, x) => Lists(Creates(s) \o all, x)
      BY <3>1, ScriptJoin
    <3>3. QED
      BY <2>4, <3>2
  <2>6. Lists(Makes(k), Statement("create", <<"table", "versions">>))
    BY <2>1, <2>2, <2>5
  <2>7. \A o \in Cells : Lists(Makes(k), Statement("column", o))
    BY <2>3, <2>5
  <2>8. <<"table", "versions">> \in Added(k)
    BY <1>1, <2>5, <2>6
  <2>9. Cells \subseteq Added(k)
    BY <1>1, <2>5, <2>7
  <2>10. QED
    BY <1>3, <2>5, <2>8, <2>9
<1>4. CASE k = 4
  <2> DEFINE s == <<<<"table", "atoms">>, <<"index", "atoms">>, <<"fts", "atoms">>, <<"trigger", "atoms">>>>
             S == made \cup {<<"fts", "atoms">>}
  <2>1. s \in Seq(S) /\ Len(s) = 4 /\ s[1] = <<"table", "atoms">>
    BY DEF Late
  <2>2. Script(Creates(s), k) /\ Lists(Creates(s), Statement("create", <<"table", "atoms">>))
    <3> HIDE DEF s, made
    <3>1. QED BY <1>4, <1>0, <2>1
  <2>3. Makes(k) = Creates(s)
    BY <1>4 DEF Makes
  <2>4. QED
    <3> HIDE DEF s, made
    <3>1. QED BY <1>1, <1>4, <2>1, <2>2, <2>3
<1>5. CASE k = 5
  <2> DEFINE s == <<<<"table", "mach">>, <<"index", "mach">>>>
  <2>1. s \in Seq(made) /\ Len(s) = 2 /\ s[1] = <<"table", "mach">>
    BY DEF Late
  <2>2. Script(Creates(s), k) /\ Lists(Creates(s), Statement("create", <<"table", "mach">>))
    <3> HIDE DEF s, made
    <3>1. QED BY <1>0, <2>1
  <2>3. Makes(k) = Creates(s)
    BY <1>5 DEF Makes
  <2>4. QED
    <3> HIDE DEF s, made
    <3>1. QED BY <1>1, <1>5, <2>1, <2>2, <2>3
<1>6. CASE k = 6
  <2> DEFINE s == <<<<"table", "match">>, <<"index", "match">>, Score>>
  <2>1. s \in Seq(made) /\ Len(s) = 3 /\ s[1] = <<"table", "match">>
    BY DEF Late
  <2>2. Script(Creates(s), k) /\ Lists(Creates(s), Statement("create", <<"table", "match">>))
    <3> HIDE DEF s, made
    <3>1. QED BY <1>0, <2>1
  <2>3. Makes(k) = Creates(s)
    BY <1>6 DEF Makes
  <2>4. QED
    <3> HIDE DEF s, made
    <3>1. QED BY <1>1, <1>6, <2>1, <2>2, <2>3
<1>7. k \in {3, 4, 5, 6}
  BY DEF Current
<1>8. QED
  BY <1>3, <1>4, <1>5, <1>6, <1>7

\* The i-th statement of s comes after one that creates o or adds it.
Pends(s, o, i) ==
    \E j \in 1..Len(s) : j < i /\ s[j].op \in {"create", "column"} /\ s[j].on = o

\* A script that takes a database of version v to version k.
Chain(s, v, k) ==
    /\ s \in Seq(Statements) /\ s # <<>> /\ s[Len(s)] = Statement("stamp", k)
    /\ \A i \in 1..Len(s) :
        /\ Migrates(s[i]) \/ (s[i].op = "stamp" /\ s[i].on \in (v + 1)..k)
        /\ s[i].op = "create" /\ s[i].on \in Fts => v < 4 /\ s[i].on = <<"fts", "atoms">>
    /\ \A i \in 1..Len(s) : s[i].op = "stamp" =>
        /\ \A j \in 1..Len(s) : j < i /\ s[j].op = "stamp" => s[j].on < s[i].on
        /\ \A m \in (v + 1)..s[i].on : \A o \in Added(m) : Pends(s, o, i)

LEMMA MigrationIs ==
    ASSUME NEW k \in 3..Current
    PROVE  Chain(Migration(k), k - 1, k)
<1> DEFINE m == Makes(k)
           z == Statement("stamp", k)
           s == m \o <<z>>
<1>1. m \in Seq(Statements) /\ Len(m) \in Nat
  BY MakesAre DEF Script
<1>2. z \in Statements
  BY DEF Statement, Statements, Ops
<1>3. /\ s \in Seq(Statements) /\ Len(s) = Len(m) + 1
      /\ \A i \in 1..Len(m) : s[i] = m[i]
      /\ s[Len(m) + 1] = z
  <2> HIDE DEF m, z
  <2>1. <<z>> \in Seq(Statements) /\ Len(<<z>>) = 1 /\ <<z>>[1] = z
    BY <1>2
  <2>2. QED
    BY <1>1, <2>1, ConcatProperties
<1>4. \A i \in 1..Len(m) : Migrates(m[i]) /\ m[i].op \in {"create", "column"}
        /\ (m[i].op = "create" /\ m[i].on \in Fts => k = 4 /\ m[i].on = <<"fts", "atoms">>)
  BY MakesAre DEF Script, Migrates
<1>5. \A o \in Added(k) : \E i \in 1..Len(m) : m[i].on = o
  BY <1>1 DEF Added
<1>6. z.op = "stamp" /\ z.on = k
  BY DEF Statement
<1>7. k \in Nat /\ Migration(k) = s
  BY DEF Current, Migration
<1> HIDE DEF m, z, s
<1>8. \A i \in 1..Len(s) : i = Len(m) + 1 \/ i \in 1..Len(m)
  BY <1>1, <1>3
<1>9. Len(s) = Len(m) + 1 /\ Len(m) + 1 \in 1..Len(s) /\ s # <<>>
  BY <1>1, <1>3
<1>10. s[Len(s)] = Statement("stamp", k)
  BY <1>3, <1>9 DEF z
<1>11. ASSUME NEW i \in 1..Len(s)
       PROVE  /\ Migrates(s[i]) \/ (s[i].op = "stamp" /\ s[i].on \in ((k - 1) + 1)..k)
              /\ s[i].op = "create" /\ s[i].on \in Fts => k - 1 < 4 /\ s[i].on = <<"fts", "atoms">>
  <2>1. CASE i = Len(m) + 1
    BY <1>3, <1>6, <1>7, <2>1
  <2>2. CASE i \in 1..Len(m)
    <3>1. k = 4 => k - 1 < 4
      OBVIOUS
    <3>2. QED
      BY <1>3, <1>4, <2>2, <3>1
  <2>3. QED
    BY <1>8, <2>1, <2>2
<1>12. ASSUME NEW i \in 1..Len(s), s[i].op = "stamp"
       PROVE  /\ \A j \in 1..Len(s) : j < i /\ s[j].op = "stamp" => s[j].on < s[i].on
              /\ \A n \in ((k - 1) + 1)..s[i].on : \A o \in Added(n) : Pends(s, o, i)
  <2>1. i = Len(m) + 1 /\ s[i].on = k
    BY <1>3, <1>4, <1>6, <1>8, <1>12
  <2>2. \A j \in 1..Len(s) : j < i => s[j].op # "stamp"
    BY <1>1, <1>3, <1>4, <1>8, <2>1
  <2>3. \A n \in ((k - 1) + 1)..s[i].on : n = k
    BY <1>7, <2>1
  <2>4. \A o \in Added(k) : Pends(s, o, i)
    <3> TAKE o \in Added(k)
    <3>1. PICK j \in 1..Len(m) : m[j].on = o
      BY <1>5
    <3>2. j \in 1..Len(s) /\ j < i /\ s[j].op \in {"create", "column"} /\ s[j].on = o
      BY <1>1, <1>3, <1>4, <2>1, <3>1
    <3>3. QED
      BY <3>2 DEF Pends
  <2>5. QED
    BY <2>2, <2>3, <2>4
<1>13. Chain(s, k - 1, k)
  BY <1>3, <1>9, <1>10, <1>11, <1>12 DEF Chain
<1>14. QED
  BY <1>7, <1>13

LEMMA ChainJoin ==
    ASSUME NEW v \in Nat, NEW k \in Nat, NEW l \in Nat, v < k, k < l,
           NEW s, NEW t, Chain(s, v, k), Chain(t, k, l)
    PROVE  Chain(s \o t, v, l)
<1> DEFINE u == s \o t
<1>1. /\ s \in Seq(Statements) /\ t \in Seq(Statements) /\ s # <<>> /\ t # <<>>
      /\ s[Len(s)] = Statement("stamp", k) /\ t[Len(t)] = Statement("stamp", l)
  BY DEF Chain
<1>2. Len(s) \in Nat /\ Len(t) \in Nat /\ Len(s) > 0 /\ Len(t) > 0
  BY <1>1
<1>3. /\ u \in Seq(Statements) /\ Len(u) = Len(s) + Len(t)
      /\ \A i \in 1..Len(s) : u[i] = s[i]
      /\ \A i \in 1..Len(t) : u[Len(s) + i] = t[i]
  <2>1. /\ u \in Seq(Statements) /\ Len(u) = Len(s) + Len(t)
        /\ \A i \in 1..Len(s) + Len(t) : u[i] = IF i <= Len(s) THEN s[i] ELSE t[i - Len(s)]
    BY <1>1, ConcatProperties
  <2> HIDE DEF u
  <2>2. \A i \in 1..Len(s) : i \in 1..Len(s) + Len(t) /\ i <= Len(s)
    BY <1>2
  <2>3. \A i \in 1..Len(t) : Len(s) + i \in 1..Len(s) + Len(t) /\ ~(Len(s) + i <= Len(s)) /\ (Len(s) + i) - Len(s) = i
    BY <1>2
  <2>4. QED
    BY <2>1, <2>2, <2>3
<1> HIDE DEF u
<1>4. \A i \in 1..Len(u) : i \in 1..Len(s) \/ \E j \in 1..Len(t) : i = Len(s) + j
  <2> TAKE i \in 1..Len(u)
  <2>1. CASE i <= Len(s)
    BY <1>2, <1>3, <2>1
  <2>2. CASE ~(i <= Len(s))
    <3>1. i - Len(s) \in 1..Len(t) /\ i = Len(s) + (i - Len(s))
      BY <1>2, <1>3, <2>2
    <3>2. QED
      BY <3>1
  <2>3. QED
    BY <2>1, <2>2
<1>5. u # <<>> /\ u[Len(u)] = Statement("stamp", l)
  <2>1. Len(t) \in 1..Len(t) /\ Len(u) > 0
    BY <1>2, <1>3
  <2>2. u[Len(s) + Len(t)] = t[Len(t)]
    BY <1>3, <2>1
  <2>3. u # <<>>
    BY <2>1
  <2>4. QED
    BY <1>1, <1>3, <2>2, <2>3
<1>6. ASSUME NEW i \in 1..Len(u)
      PROVE  /\ Migrates(u[i]) \/ (u[i].op = "stamp" /\ u[i].on \in (v + 1)..l)
             /\ u[i].op = "create" /\ u[i].on \in Fts => v < 4 /\ u[i].on = <<"fts", "atoms">>
  <2>1. CASE i \in 1..Len(s)
    <3>1. /\ Migrates(s[i]) \/ (s[i].op = "stamp" /\ s[i].on \in (v + 1)..k)
          /\ s[i].op = "create" /\ s[i].on \in Fts => v < 4 /\ s[i].on = <<"fts", "atoms">>
      BY <2>1 DEF Chain
    <3>2. (v + 1)..k \subseteq (v + 1)..l
      OBVIOUS
    <3>3. QED
      BY <1>3, <2>1, <3>1, <3>2
  <2>2. CASE \E j \in 1..Len(t) : i = Len(s) + j
    <3>1. PICK j \in 1..Len(t) : i = Len(s) + j
      BY <2>2
    <3>2. /\ Migrates(t[j]) \/ (t[j].op = "stamp" /\ t[j].on \in (k + 1)..l)
          /\ t[j].op = "create" /\ t[j].on \in Fts => k < 4 /\ t[j].on = <<"fts", "atoms">>
      BY DEF Chain
    <3>3. (k + 1)..l \subseteq (v + 1)..l /\ (k < 4 => v < 4)
      OBVIOUS
    <3>4. u[i] = t[j]
      BY <1>3, <3>1
    <3>5. QED
      BY <3>2, <3>3, <3>4
  <2>3. QED
    BY <1>4, <2>1, <2>2
<1>7. ASSUME NEW o, NEW i \in 1..Len(s), Pends(s, o, i)
      PROVE  Pends(u, o, i)
  <2>1. PICK j \in 1..Len(s) : j < i /\ s[j].op \in {"create", "column"} /\ s[j].on = o
    BY <1>7 DEF Pends
  <2>2. j \in 1..Len(u) /\ u[j] = s[j]
    BY <1>2, <1>3
  <2>3. QED
    BY <2>1, <2>2 DEF Pends
<1>8. ASSUME NEW o, NEW i \in 1..Len(t), Pends(t, o, i)
      PROVE  Pends(u, o, Len(s) + i)
  <2>1. PICK j \in 1..Len(t) : j < i /\ t[j].op \in {"create", "column"} /\ t[j].on = o
    BY <1>8 DEF Pends
  <2>2. Len(s) + j \in 1..Len(u) /\ u[Len(s) + j] = t[j] /\ Len(s) + j < Len(s) + i
    BY <1>2, <1>3, <2>1
  <2>3. QED
    BY <2>1, <2>2 DEF Pends
<1>9. ASSUME NEW o, NEW i \in 1..Len(t), Pends(s, o, Len(s))
      PROVE  Pends(u, o, Len(s) + i)
  <2>1. PICK j \in 1..Len(s) : j < Len(s) /\ s[j].op \in {"create", "column"} /\ s[j].on = o
    BY <1>9 DEF Pends
  <2>2. j \in 1..Len(u) /\ u[j] = s[j] /\ j < Len(s) + i
    BY <1>2, <1>3
  <2>3. QED
    BY <2>1, <2>2 DEF Pends
<1>10. Len(s) \in 1..Len(s) /\ s[Len(s)].op = "stamp" /\ s[Len(s)].on = k
  BY <1>1, <1>2 DEF Statement
<1>11. ASSUME NEW i \in 1..Len(u), u[i].op = "stamp"
       PROVE  /\ \A j \in 1..Len(u) : j < i /\ u[j].op = "stamp" => u[j].on < u[i].on
              /\ \A m \in (v + 1)..u[i].on : \A o \in Added(m) : Pends(u, o, i)
  <2>1. CASE i \in 1..Len(s)
    <3>1. u[i] = s[i] /\ s[i].op = "stamp"
      BY <1>3, <1>11, <2>1
    <3>2. /\ \A j \in 1..Len(s) : j < i /\ s[j].op = "stamp" => s[j].on < s[i].on
          /\ \A m \in (v + 1)..s[i].on : \A o \in Added(m) : Pends(s, o, i)
      BY <2>1, <3>1 DEF Chain
    <3>3. \A j \in 1..Len(u) : j < i => j \in 1..Len(s) /\ u[j] = s[j]
      <4>1. \A j \in 1..Len(u) : j < i => j \in 1..Len(s)
        BY <1>2, <1>3, <2>1
      <4>2. QED
        BY <1>3, <4>1
    <3>4. QED
      BY <1>7, <2>1, <3>1, <3>2, <3>3
  <2>2. CASE \E j \in 1..Len(t) : i = Len(s) + j
    <3>1. PICK n \in 1..Len(t) : i = Len(s) + n
      BY <2>2
    <3>2. u[i] = t[n] /\ t[n].op = "stamp"
      BY <1>3, <1>11, <3>1
    <3>3. /\ \A j \in 1..Len(t) : j < n /\ t[j].op = "stamp" => t[j].on < t[n].on
          /\ \A m \in (k + 1)..t[n].on : \A o \in Added(m) : Pends(t, o, n)
          /\ t[n].on \in (k + 1)..l
      BY <3>2 DEF Chain, Migrates
    <3>4. \A j \in 1..Len(s) : s[j].op = "stamp" => s[j].on \in (v + 1)..k
      BY DEF Chain, Migrates
    <3>5. \A j \in 1..Len(u) : j < i /\ u[j].op = "stamp" => u[j].on < u[i].on
      <4> SUFFICES ASSUME NEW j \in 1..Len(u), j < i, u[j].op = "stamp"
                   PROVE  u[j].on < u[i].on
        OBVIOUS
      <4>1. CASE j \in 1..Len(s)
        <5>1. u[j] = s[j] /\ s[j].on \in (v + 1)..k
          BY <1>3, <3>4, <4>1
        <5>2. u[j].on \in (v + 1)..k /\ u[i].on \in (k + 1)..l
          BY <3>2, <3>3, <5>1, ZenonT(30)
        <5>3. QED
          BY <5>2
      <4>2. CASE \E x \in 1..Len(t) : j = Len(s) + x
        <5>1. PICK x \in 1..Len(t) : j = Len(s) + x
          BY <4>2
        <5>2. u[j] = t[x] /\ x < n
          BY <1>2, <1>3, <3>1, <5>1
        <5>3. QED
          BY <3>2, <3>3, <5>2
      <4>3. QED
        BY <1>4, <4>1, <4>2
    <3>6. \A m \in (v + 1)..u[i].on : \A o \in Added(m) : Pends(u, o, i)
      <4> SUFFICES ASSUME NEW m \in (v + 1)..u[i].on, NEW o \in Added(m)
                   PROVE  Pends(u, o, i)
        OBVIOUS
      <4>1. CASE m <= k
        <5>1. m \in (v + 1)..s[Len(s)].on
          BY <1>10, <4>1
        <5>2. Pends(s, o, Len(s))
          BY <1>10, <5>1 DEF Chain
        <5>3. QED
          BY <1>9, <3>1, <5>2
      <4>2. CASE ~(m <= k)
        <5>1. m \in (k + 1)..t[n].on
          BY <3>2, <3>3, <4>2
        <5>2. QED
          BY <1>8, <3>1, <3>3, <5>1
      <4>3. QED
        BY <4>1, <4>2
    <3>7. QED
      BY <3>5, <3>6
  <2>3. QED
    BY <1>4, <2>1, <2>2
<1>12. QED
  BY <1>3, <1>5, <1>6, <1>11 DEF Chain, u

\* Each migration of a database of version 2 to 5 takes it to the current one.
LEMMA MigrationsAre ==
    ASSUME NEW v \in 2..5
    PROVE  Chain(Migrations(v), v, Current)
<1>1. Chain(Migration(3), 2, 3) /\ Chain(Migration(4), 3, 4) /\ Chain(Migration(5), 4, 5) /\ Chain(Migration(6), 5, 6)
  <2>1. 3 \in 3..Current /\ 4 \in 3..Current /\ 5 \in 3..Current /\ 6 \in 3..Current
    BY DEF Current
  <2>2. Chain(Migration(3), 3 - 1, 3) /\ Chain(Migration(4), 4 - 1, 4) /\ Chain(Migration(5), 5 - 1, 5) /\ Chain(Migration(6), 6 - 1, 6)
    BY <2>1, MigrationIs
  <2>3. 3 - 1 = 2 /\ 4 - 1 = 3 /\ 5 - 1 = 4 /\ 6 - 1 = 5
    OBVIOUS
  <2>4. QED
    BY <2>2, <2>3
<1>3. Chain(Migration(5) \o Migration(6), 4, 6)
  BY <1>1, ChainJoin
<1>4. Chain(Migration(4) \o (Migration(5) \o Migration(6)), 3, 6)
  BY <1>1, <1>3, ChainJoin
<1>5. Chain(Migration(3) \o (Migration(4) \o (Migration(5) \o Migration(6))), 2, 6)
  BY <1>1, <1>4, ChainJoin
<1>6. /\ Migration(3) \in Seq(Statements) /\ Migration(4) \in Seq(Statements)
      /\ Migration(5) \in Seq(Statements) /\ Migration(6) \in Seq(Statements)
  BY <1>1 DEF Chain
<1>7. /\ Migration(4) \o (Migration(5) \o Migration(6)) = Migration(4) \o Migration(5) \o Migration(6)
      /\ Migration(3) \o (Migration(4) \o (Migration(5) \o Migration(6)))
            = Migration(3) \o Migration(4) \o Migration(5) \o Migration(6)
  <2>1. ASSUME NEW a \in Seq(Statements), NEW b \in Seq(Statements), NEW c \in Seq(Statements)
        PROVE  a \o (b \o c) = a \o b \o c /\ b \o c \in Seq(Statements) /\ a \o b \in Seq(Statements)
    <3>1. (a \o b) \o c = a \o (b \o c)
      BY ConcatAssociative, SMTT(30)
    <3>2. b \o c \in Seq(Statements) /\ a \o b \in Seq(Statements)
      BY ConcatProperties
    <3>3. QED
      BY <3>1, <3>2
  <2> DEFINE a == Migration(3)
             b == Migration(4)
             c == Migration(5)
             e == Migration(6)
  <2> HIDE DEF a, b, c, e
  <2>2. a \in Seq(Statements) /\ b \in Seq(Statements) /\ c \in Seq(Statements) /\ e \in Seq(Statements)
    BY <1>6 DEF a, b, c, e
  <2>3. b \o (c \o e) = b \o c \o e /\ b \o c \in Seq(Statements) /\ c \o e \in Seq(Statements)
    BY <2>1, <2>2
  <2>4. a \o (b \o (c \o e)) = a \o b \o (c \o e) /\ a \o b \in Seq(Statements)
    <3> DEFINE ce == c \o e
    <3> HIDE DEF ce
    <3>1. ce \in Seq(Statements)
      BY <2>3 DEF ce
    <3>2. a \o (b \o ce) = a \o b \o ce /\ a \o b \in Seq(Statements)
      BY <2>1, <2>2, <3>1
    <3>3. QED
      BY <3>2 DEF ce
  <2>5. a \o b \o (c \o e) = a \o b \o c \o e
    BY <2>1, <2>2, <2>4
  <2>6. QED
    BY <2>3, <2>4, <2>5 DEF a, b, c, e
<1>8. v = 2 \/ v = 3 \/ v = 4 \/ v = 5
  OBVIOUS
<1>9. QED
  BY <1>1, <1>3, <1>4, <1>5, <1>7, <1>8 DEF Migrations, Current

\* The script of an empty file creates all that is expected, and then stamps.
LEMMA FreshIs ==
    /\ Fresh \in Seq(Statements) /\ Fresh # <<>> /\ Fresh[Len(Fresh)] = Statement("stamp", Current)
    /\ \A i \in 1..Len(Fresh) : \/ i < Len(Fresh) /\ Fresh[i].op = "create" /\ Fresh[i].on \in Expected \cup {Score}
                               \/ i = Len(Fresh)
    /\ \A o \in Expected : Pends(Fresh, o, Len(Fresh))
<1> DEFINE a == SetToSeq(CoreTables \cup {Score})
           b == Creates(a) \o NonTables
           z == Statement("stamp", Current)
<1>1. a \in Seq(CoreTables \cup {Score}) /\ \A o \in CoreTables \cup {Score} : Lists(a, o)
  BY ExpectedFinite, Listed, ListedObjects
<1>2. CoreTables \cup {Score} \subseteq Expected \cup {Score} /\ Expected = CoreTables \cup Others
        /\ Others \subseteq Expected \cup {Score}
  BY DEF Expected, Others
<1>3. /\ Creates(a) \in Seq(Statements) /\ Len(Creates(a)) = Len(a)
      /\ \A i \in 1..Len(a) : Creates(a)[i] = Statement("create", a[i])
  <2> HIDE DEF a
  <2>1. QED BY <1>1, <1>2, Created
<1>4. \A o : Statement("create", o).op = "create" /\ Statement("create", o).on = o
  BY DEF Statement
<1>5. /\ \A i \in 1..Len(Creates(a)) : Creates(a)[i].op = "create" /\ Creates(a)[i].on \in Expected \cup {Score}
      /\ \A o \in CoreTables : Lists(Creates(a), Statement("create", o))
  <2> HIDE DEF a
  <2>1. \A i \in 1..Len(a) : a[i] \in CoreTables \cup {Score}
    BY <1>1
  <2>2. QED
    BY <1>1, <1>2, <1>3, <1>4, <2>1 DEF Lists
<1>6. /\ NonTables \in Seq(Statements)
      /\ \A i \in 1..Len(NonTables) : NonTables[i].op = "create" /\ NonTables[i].on \in Expected \cup {Score}
      /\ \A o \in Others : Lists(NonTables, Statement("create", o))
  BY <1>2, NonTablesAre DEF Lists
<1>7. /\ b \in Seq(Statements)
      /\ \A o \in Expected : Lists(b, Statement("create", o))
      /\ \A i \in 1..Len(b) : b[i].op = "create" /\ b[i].on \in Expected \cup {Score}
  <2> DEFINE c == Creates(a)
  <2> HIDE DEF a, c
  <2>1. c \in Seq(Statements)
    BY <1>3 DEF c
  <2>2. /\ c \o NonTables \in Seq(Statements) /\ Len(c \o NonTables) = Len(c) + Len(NonTables)
        /\ \A x : Lists(c, x) \/ Lists(NonTables, x) => Lists(c \o NonTables, x)
    BY <1>6, <2>1, Joined
  <2>3. \A i \in 1..Len(c \o NonTables) :
          \/ i \in 1..Len(c) /\ (c \o NonTables)[i] = c[i]
          \/ i - Len(c) \in 1..Len(NonTables) /\ (c \o NonTables)[i] = NonTables[i - Len(c)]
    BY <1>6, <2>1, ConcatProperties, LenProperties
  <2>4. b = c \o NonTables
    BY DEF c
  <2> HIDE DEF b
  <2>5. QED
    BY <1>2, <1>5, <1>6, <2>2, <2>3, <2>4 DEF c
<1>8. z \in Statements /\ Fresh = b \o <<z>>
  BY DEF z, Statement, Statements, Ops, Fresh, Current
<1> HIDE DEF b, z
<1>9. /\ Fresh \in Seq(Statements) /\ Len(Fresh) = Len(b) + 1 /\ Fresh[Len(b) + 1] = z
      /\ \A i \in 1..Len(b) : Fresh[i] = b[i]
  <2>1. <<z>> \in Seq(Statements) /\ Len(<<z>>) = 1 /\ <<z>>[1] = z
    BY <1>8
  <2>2. QED
    BY <1>7, <1>8, <2>1, ConcatProperties
<1>10. Len(b) \in Nat /\ Fresh # <<>>
  BY <1>7, <1>9
<1>11. Fresh[Len(Fresh)] = Statement("stamp", Current)
  BY <1>9 DEF z
<1>12. \A i \in 1..Len(Fresh) : i < Len(Fresh) => i \in 1..Len(b)
  BY <1>9, <1>10
<1>13. \A i \in 1..Len(Fresh) : ~(i < Len(Fresh)) => i = Len(Fresh)
  BY <1>9, <1>10
<1>14. \A o \in Expected : Pends(Fresh, o, Len(Fresh))
  <2> TAKE o \in Expected
  <2>1. PICK i \in 1..Len(b) : b[i] = Statement("create", o)
    BY <1>7 DEF Lists
  <2>2. i \in 1..Len(Fresh) /\ i < Len(Fresh) /\ Fresh[i] = b[i]
    BY <1>9, <1>10
  <2>3. QED
    BY <1>4, <2>1, <2>2 DEF Pends
<1>15. QED
  BY <1>7, <1>9, <1>10, <1>11, <1>12, <1>13, <1>14

-----------------------------------------------------------------------------
(* The inductive invariant.                                                *)

Has(d, o) == o \in d.objects \cup d.columns

\* Nothing of d is lost in e.
Better(d, e) ==
    /\ d.objects \subseteq e.objects /\ d.columns \subseteq e.columns
    /\ d.linked \subseteq e.linked /\ d.whole \subseteq e.whole
    /\ d.rows = e.rows /\ d.dangling = e.dangling
    /\ d.version # None => e.version # None /\ d.version <= e.version

\* What a database that was g has to have before it is stamped k.
Needs(k, g) ==
    IF g.version = None THEN Expected
    ELSE UNION {Added(m) : m \in {j \in 3..k : g.version < j}}

Tells(d, g) == d.version \in 3..Current => \A o \in Needs(d.version, g) : Has(d, o)

\* A database that was an empty file.
Made(d, g) ==
    g.version = None =>
        /\ d.version \in {None, Current}
        /\ \A t \in Tables : <<"table", t>> \in d.objects =>
                t \in d.linked /\ {t} \X ToSet(Columns) \subseteq d.columns

Sound(d, g) == d.linked \cap d.dangling \subseteq g.linked

\* What holds between any two statements that do not rebuild a table.
Good(d, g) ==
    /\ Better(g, d) /\ Tells(d, g) /\ Made(d, g) /\ Sound(d, g)
    /\ Supported(g.version) \/ d = g

Full(d, g) ==
    /\ d.version = Current
    /\ g.whole = Tables \/ g.version = None => Expected \subseteq d.objects

Searchable(d) == deaths = 0 => d.stale = {}

AtRest ==
    pc \in Ended =>
        /\ ~open /\ todo = <<>> /\ held = None /\ Searchable(db)
        /\ deaths = 0 /\ origin.whole = Tables => db = origin \/ Full(db, origin)
        /\ pc = "refused" => Refusable(db)
        /\ pc = "opened" => Full(db, origin) /\ db.linked = Tables

\* The statements of a script that makes a database or migrates it.
Allowed(s, p) ==
    IF p = "fresh" THEN \/ s.op = "create" /\ s.on \in Expected \cup {Score}
                        \/ s.op = "stamp" /\ s.on = Current
    ELSE Migrates(s) \/ (s.op = "stamp" /\ s.on \in 3..Current)

\* The i-th statement of s stamps a later version than those before it, and after all it needs.
Stamps(i, s, d, g) ==
    /\ d.version # None => d.version < s[i].on
    /\ \A j \in 1..Len(s) : j < i /\ s[j].op = "stamp" => s[j].on < s[i].on
    /\ \A o \in Needs(s[i].on, g) : Has(d, o) \/ Pends(s, o, i)

Building ==
    pc \in {"fresh", "migrate"} =>
        /\ held = None /\ Searchable(work)
        /\ \A i \in 1..Len(todo) :
            /\ Allowed(todo[i], pc)
            /\ todo[i].op = "create" /\ todo[i].on \in Fts => work.rows[todo[i].on[2]] = {}
            /\ todo[i].op = "stamp" => Stamps(i, todo, work, origin)
        /\ todo # <<>> => ~open /\ todo[Len(todo)] = Statement("stamp", Current)
        /\ todo = <<>> => work.version = Current
        /\ pc = "fresh" => origin.version = None
        /\ pc = "migrate" => ~open /\ origin.version \in 2..5 /\ work.version \in 2..Current

Repairing ==
    pc = "repair" =>
        /\ held = None /\ work.version = Current /\ CoreTables \subseteq work.objects
        /\ \A i \in 1..Len(todo) :
            \/ todo[i].op = "create" /\ todo[i].on \in Others
            \/ todo[i].op = "rebuild" /\ todo[i].on \in Fts
        /\ \A i, j \in 1..Len(todo) : i < j /\ todo[i].op = "rebuild" => todo[j].op = "rebuild"
        /\ \A o \in Others : o \in work.objects \/ Lists(todo, Statement("create", o))
        /\ deaths = 0 => \A o \in Fts :
             o \in work.stale \/ o \notin work.objects => Lists(todo, Statement("rebuild", o))

Parity ==
    pc \in {"parity", "tables"} =>
        /\ todo = <<>> /\ held = None /\ Full(work, origin) /\ Searchable(work)
        /\ pc = "tables" => ~open

\* The database after each statement of Rebuild(t).
Detached(t, d) == [d EXCEPT !.objects = @ \ Attached(t)]
Renamed(t, d) == Aside(t, Detached(t, d))
Recreated(t, d) == Create(<<"table", t>>, Renamed(t, d))
Copied(t, d) == [Recreated(t, d) EXCEPT !.rows[t] = @ \cup {"here" : x \in @}]
Dropped(t, d) == [Copied(t, d) EXCEPT !.rows[t] = @ \ {"aside"}]
Rebuilt(t, d) == [Dropped(t, d) EXCEPT !.objects = @ \cup (Attached(t) \cap d.objects)]

Stage(n, t, d) ==
    CASE n = 0 -> d              [] n = 1 -> Detached(t, d) [] n = 2 -> Renamed(t, d)
      [] n = 3 -> Recreated(t, d) [] n = 4 -> Copied(t, d)  [] n = 5 -> Dropped(t, d)
      [] n = 6 -> Rebuilt(t, d)

Rebuilding ==
    pc = "table" =>
        /\ open /\ Full(db, origin) /\ Searchable(db) /\ held.table \in Tables
        /\ held = [table |-> held.table, objects |-> Attached(held.table) \cap db.objects]
        /\ \E n \in 0..6 : /\ todo = SubSeq(Rebuild(held.table), n + 1, 6)
                           /\ work = Stage(n, held.table, db)

IInv ==
    /\ TypeOK
    /\ origin \in Legacies /\ todo \in Seq(Statements)
    /\ Good(db, origin)
    /\ pc # "table" => Good(work, origin) /\ Better(db, work)
    /\ AtRest /\ Building /\ Repairing /\ Parity /\ Rebuilding


-----------------------------------------------------------------------------
(* The statements.                                                         *)

\* CREATE ... IF NOT EXISTS takes nothing away.
LEMMA CreateIs ==
    ASSUME NEW d \in Database, NEW o \in Expected \cup {Score}
    PROVE  LET e == Create(o, d)
           IN  /\ e \in Database
               /\ e.version = d.version /\ e.rows = d.rows /\ e.dangling = d.dangling
               /\ e.objects = d.objects \cup {o}
               /\ d.columns \subseteq e.columns /\ d.whole \subseteq e.whole
               /\ d.linked \subseteq e.linked /\ e.linked \subseteq d.linked \cup {o[2]}
               /\ o \notin Object("table", Tables) =>
                    e.linked = d.linked /\ e.columns = d.columns /\ e.whole = d.whole
               /\ o \in Object("table", Tables) /\ o \notin d.objects =>
                    o[2] \in e.linked /\ {o[2]} \X ToSet(Columns) \subseteq e.columns
               /\ e.stale \subseteq d.stale \cup {o}
               /\ o \notin Fts \/ o \in d.objects => e.stale = d.stale
               /\ o \in Fts /\ d.rows[o[2]] = {} => e.stale = d.stale
<1>1. CASE o \in d.objects
  <2>1. Create(o, d) = d
    BY <1>1 DEF Create
  <2>2. d.objects = d.objects \cup {o}
    BY <1>1
  <2>3. QED
    BY <1>1, <2>1, <2>2
<1>2. CASE o \notin d.objects
  <2> DEFINE e == Create(o, d)
  <2>1. /\ d.objects \in SUBSET (Expected \cup {Score}) /\ d.columns \in SUBSET (Tables \X ToSet(Columns))
        /\ d.whole \in SUBSET Tables /\ d.linked \in SUBSET Tables /\ d.stale \in SUBSET Fts
    BY DEF Database
  <2>2. e = [version |-> d.version, objects |-> d.objects \cup {o},
             columns |-> IF o \in Object("table", Tables) THEN d.columns \cup ({o[2]} \X ToSet(Columns)) ELSE d.columns,
             whole |-> IF o \in Object("table", Tables) THEN d.whole \cup {o[2]} ELSE d.whole,
             linked |-> IF o \in Object("table", Tables) THEN d.linked \cup {o[2]} ELSE d.linked,
             rows |-> d.rows,
             stale |-> IF o \in Fts /\ d.rows[o[2]] # {} THEN d.stale \cup {o} ELSE d.stale,
             dangling |-> d.dangling]
    BY <1>2 DEF Create, Database
  <2>3. o \in Object("table", Tables) => o[2] \in Tables
    BY Apart
  <2>4. o \in Object("table", Tables) => {o[2]} \X ToSet(Columns) \subseteq Tables \X ToSet(Columns)
    BY <2>3
  <2>5. /\ d.version \in 0..9 \cup {None} /\ d.rows \in [Tables \cup {"atoms"} -> SUBSET {"here", "aside"}]
        /\ d.dangling \in SUBSET (Tables \cup {"other"})
    BY DEF Database
  <2> HIDE DEF e
  <2>6. e \in Database
    BY <2>1, <2>2, <2>3, <2>4, <2>5 DEF Database
  <2>7. /\ e.version = d.version /\ e.rows = d.rows /\ e.dangling = d.dangling
        /\ e.objects = d.objects \cup {o}
        /\ o \notin Object("table", Tables) =>
              e.linked = d.linked /\ e.columns = d.columns /\ e.whole = d.whole
        /\ o \in Object("table", Tables) =>
              /\ e.linked = d.linked \cup {o[2]} /\ e.columns = d.columns \cup ({o[2]} \X ToSet(Columns))
              /\ e.whole = d.whole \cup {o[2]}
        /\ e.stale = IF o \in Fts /\ d.rows[o[2]] # {} THEN d.stale \cup {o} ELSE d.stale
    BY <2>2
  <2>8. QED
    BY <1>2, <2>6, <2>7 DEF e
<1>3. QED
  BY <1>1, <1>2

LEMMA VersionOrder ==
    /\ None \notin Nat /\ 0..9 \subseteq Nat
    /\ \A d \in Database : d.version \in 0..9 \/ d.version = None
BY SchemaAssumption DEF Database

\* What only adds to a database keeps what holds of it.
LEMMA Grows ==
    ASSUME NEW d \in Database, NEW e \in Database, NEW g \in Database,
           Good(d, g), Supported(g.version),
           e.version = d.version, e.rows = d.rows, e.dangling = d.dangling,
           d.objects \subseteq e.objects, d.columns \subseteq e.columns,
           d.linked \subseteq e.linked, d.whole \subseteq e.whole,
           Made(e, g), Sound(e, g)
    PROVE  Good(e, g) /\ Better(d, e)
<1>1. Better(g, d) /\ Tells(d, g)
  BY DEF Good
<1>2. Better(d, e)
  BY VersionOrder DEF Better
<1>3. Better(g, e)
  BY <1>1 DEF Better
<1>4. Tells(e, g)
  BY <1>1 DEF Tells, Has
<1>5. QED
  BY <1>2, <1>3, <1>4 DEF Good

LEMMA Found ==
    ASSUME NEW g \in Legacies
    PROVE  /\ g \in Database /\ Released(g) /\ g.stale = {}
           /\ \A t \in Tables \cup {"atoms"} : "aside" \notin g.rows[t]
           /\ g.version = None => g.objects = {} /\ g.dangling = {} /\ \A t \in Tables \cup {"atoms"} : g.rows[t] = {}
<1>1. Released(g)
  BY LegaciesAssumption
<1>2. QED
  BY <1>1 DEF Released

LEMMA CreateKeeps ==
    ASSUME NEW d \in Database, NEW g \in Legacies, Good(d, g), Supported(g.version),
           NEW o \in Expected \cup {Score}, o \in Object("table", Tables) => g.version = None
    PROVE  Good(Create(o, d), g) /\ Better(d, Create(o, d))
<1> DEFINE e == Create(o, d)
<1>1. /\ e \in Database
      /\ e.version = d.version /\ e.rows = d.rows /\ e.dangling = d.dangling
      /\ e.objects = d.objects \cup {o}
      /\ d.columns \subseteq e.columns /\ d.whole \subseteq e.whole
      /\ d.linked \subseteq e.linked /\ e.linked \subseteq d.linked \cup {o[2]}
      /\ o \notin Object("table", Tables) =>
            e.linked = d.linked /\ e.columns = d.columns /\ e.whole = d.whole
      /\ o \in Object("table", Tables) /\ o \notin d.objects =>
            o[2] \in e.linked /\ {o[2]} \X ToSet(Columns) \subseteq e.columns
  BY CreateIs
<1> HIDE DEF e
<1>2. g \in Database /\ (g.version = None => g.dangling = {})
  BY Found
<1>3. Made(d, g) /\ Sound(d, g) /\ d.dangling = g.dangling
  BY DEF Good, Better
<1>4. Sound(e, g)
  <2>1. CASE o \in Object("table", Tables)
    BY <1>1, <1>2, <1>3, <2>1 DEF Sound
  <2>2. CASE o \notin Object("table", Tables)
    BY <1>1, <1>3, <2>2 DEF Sound
  <2>3. QED
    BY <2>1, <2>2
<1>5. Made(e, g)
  <2> SUFFICES ASSUME g.version = None, NEW t \in Tables, <<"table", t>> \in e.objects
               PROVE  t \in e.linked /\ {t} \X ToSet(Columns) \subseteq e.columns
    BY <1>1, <1>3 DEF Made
  <2>1. CASE <<"table", t>> \in d.objects
    <3>1. t \in d.linked /\ {t} \X ToSet(Columns) \subseteq d.columns
      BY <1>3, <2>1 DEF Made
    <3>2. QED
      BY <1>1, <3>1
  <2>2. CASE <<"table", t>> \notin d.objects
    <3>1. o = <<"table", t>> /\ o \in Object("table", Tables) /\ o[2] = t
      BY <1>1, <2>2 DEF Object
    <3>2. QED
      BY <1>1, <2>2, <3>1
  <2>3. QED
    BY <2>1, <2>2
<1>6. Good(e, g) /\ Better(d, e)
  BY <1>1, <1>2, <1>4, <1>5, Grows
<1>7. QED
  BY <1>6 DEF e

LEMMA ColumnKeeps ==
    ASSUME NEW d \in Database, NEW g \in Legacies, Good(d, g), Supported(g.version), NEW o \in Cells
    PROVE  LET e == [d EXCEPT !.columns = @ \cup {o}]
           IN  /\ e \in Database /\ Good(e, g) /\ Better(d, e)
               /\ e.stale = d.stale /\ e.objects = d.objects /\ e.columns = d.columns \cup {o}
               /\ e.version = d.version /\ e.rows = d.rows
<1> DEFINE e == [d EXCEPT !.columns = @ \cup {o}]
<1>1. e \in Database
  BY DEF Database, Cells
<1>2. /\ e.version = d.version /\ e.rows = d.rows /\ e.dangling = d.dangling
      /\ e.objects = d.objects /\ e.columns = d.columns \cup {o} /\ e.linked = d.linked /\ e.whole = d.whole
      /\ e.stale = d.stale
  BY DEF Database
<1> HIDE DEF e
<1>3. g \in Database
  BY Found
<1>4. Made(e, g) /\ Sound(e, g)
  BY <1>2 DEF Good, Made, Sound
<1>5. Good(e, g) /\ Better(d, e)
  BY <1>1, <1>2, <1>3, <1>4, Grows
<1>6. QED
  BY <1>1, <1>2, <1>5 DEF e

LEMMA RebuildKeeps ==
    ASSUME NEW d \in Database, NEW g \in Legacies, Good(d, g), Supported(g.version), NEW o
    PROVE  LET e == [d EXCEPT !.stale = @ \ {o}]
           IN  /\ e \in Database /\ Good(e, g) /\ Better(d, e)
               /\ e.stale = d.stale \ {o} /\ e.objects = d.objects /\ e.version = d.version
<1> DEFINE e == [d EXCEPT !.stale = @ \ {o}]
<1>1. e \in Database
  BY DEF Database
<1>2. /\ e.version = d.version /\ e.rows = d.rows /\ e.dangling = d.dangling
      /\ e.objects = d.objects /\ e.columns = d.columns /\ e.linked = d.linked /\ e.whole = d.whole
      /\ e.stale = d.stale \ {o}
  BY DEF Database
<1> HIDE DEF e
<1>3. g \in Database
  BY Found
<1>4. Made(e, g) /\ Sound(e, g)
  BY <1>2 DEF Good, Made, Sound
<1>5. Good(e, g) /\ Better(d, e)
  BY <1>1, <1>2, <1>3, <1>4, Grows
<1>6. QED
  BY <1>1, <1>2, <1>5 DEF e

\* A stamp later than the last, when all that it needs is there.
LEMMA StampKeeps ==
    ASSUME NEW d \in Database, NEW g \in Legacies, Good(d, g), Supported(g.version),
           NEW k \in 3..Current, g.version = None => k = Current,
           d.version # None => d.version < k,
           \A o \in Needs(k, g) : Has(d, o)
    PROVE  LET e == [d EXCEPT !.version = k]
           IN  /\ e \in Database /\ Good(e, g) /\ Better(d, e)
               /\ e.stale = d.stale /\ e.objects = d.objects /\ e.columns = d.columns
               /\ e.version = k /\ e.rows = d.rows
<1> DEFINE e == [d EXCEPT !.version = k]
<1>1. e \in Database
  BY DEF Database, Current
<1>2. /\ e.version = k /\ e.rows = d.rows /\ e.dangling = d.dangling
      /\ e.objects = d.objects /\ e.columns = d.columns /\ e.linked = d.linked /\ e.whole = d.whole
      /\ e.stale = d.stale
  BY DEF Database
<1> HIDE DEF e
<1>3. g \in Database
  BY Found
<1>4. Made(e, g) /\ Sound(e, g)
  BY <1>2 DEF Good, Made, Sound
<1>5. Better(d, e)
  <2>1. k # None /\ (d.version # None => d.version <= k)
    BY <1>1, <1>2, VersionOrder DEF Current
  <2>2. QED
    BY <1>2, <2>1 DEF Better
<1>6. Better(g, e)
  <2>1. Better(g, d)
    BY DEF Good
  <2>2. g.version # None => d.version # None /\ g.version <= d.version
    BY <2>1 DEF Better
  <2>3. g.version # None => e.version # None /\ g.version <= e.version
    BY <1>1, <1>2, <1>3, <2>2, VersionOrder DEF Current
  <2>4. QED
    BY <1>2, <2>1, <2>3 DEF Better
<1>7. Tells(e, g)
  BY <1>2 DEF Tells, Has
<1>8. QED
  BY <1>1, <1>2, <1>4, <1>5, <1>6, <1>7 DEF Good, e

-----------------------------------------------------------------------------
(* The rebuilding of a table.                                              *)

LEMMA RebuildRuns ==
    ASSUME NEW t, NEW n \in 0..6
    PROVE  /\ n = 6 <=> SubSeq(Rebuild(t), n + 1, 6) = <<>>
           /\ n < 6 => /\ Head(SubSeq(Rebuild(t), n + 1, 6)) = Rebuild(t)[n + 1]
                       /\ Tail(SubSeq(Rebuild(t), n + 1, 6)) = SubSeq(Rebuild(t), (n + 1) + 1, 6)
           /\ Rebuild(t) = SubSeq(Rebuild(t), 0 + 1, 6)
<1> DEFINE r == Rebuild(t)
           S == {r[i] : i \in 1..6}
<1>1. r \in Seq(S) /\ Len(r) = 6 /\ \A i \in 1..6 : r[i] \in S
  BY DEF Rebuild
<1> HIDE DEF r, S
<1>2. n < 6 => n + 1 \in 1..Len(r) /\ 6 \in (n + 1)..Len(r)
  BY <1>1
<1>3. n < 6 => /\ Head(SubSeq(r, n + 1, 6)) = r[n + 1]
               /\ Tail(SubSeq(r, n + 1, 6)) = SubSeq(r, (n + 1) + 1, 6)
  BY <1>1, <1>2, HeadTailOfSubSeq
<1>4. n = 6 => SubSeq(r, n + 1, 6) = <<>>
  BY SubSeqEmpty
<1>5. n < 6 => SubSeq(r, n + 1, 6) # <<>>
  <2>1. \A i \in n + 1..6 : r[i] \in S
    BY <1>1
  <2>2. n < 6 => Len(SubSeq(r, n + 1, 6)) = 6 - (n + 1) + 1
    BY <2>1, SubSeqProperties
  <2>3. n < 6 => Len(SubSeq(r, n + 1, 6)) # 0
    BY <2>2
  <2>4. Len(<<>>) = 0
    OBVIOUS
  <2>5. QED
    BY <2>3, <2>4
<1>6. r = SubSeq(r, 1, 6)
  BY <1>1, SubSeqFull
<1>7. n = 6 \/ n < 6
  OBVIOUS
<1>8. QED
  BY <1>3, <1>4, <1>5, <1>6, <1>7 DEF r

LEMMA StageSteps ==
    ASSUME NEW n \in 0..5, NEW t, NEW d, held.objects = Attached(t) \cap d.objects
    PROVE  Effect(Rebuild(t)[n + 1], Stage(n, t, d)) = Stage(n + 1, t, d)
<1> DEFINE r == Rebuild(t)
<1>1. /\ r[1] = Statement("detach", t) /\ r[2] = Statement("rename", t)
      /\ r[3] = Statement("create", <<"table", t>>) /\ r[4] = Statement("copy", t)
      /\ r[5] = Statement("drop", t) /\ r[6] = Statement("attach", t)
  BY DEF Rebuild
<1>2. /\ Stage(0, t, d) = d /\ Stage(1, t, d) = Detached(t, d) /\ Stage(2, t, d) = Renamed(t, d)
      /\ Stage(3, t, d) = Recreated(t, d) /\ Stage(4, t, d) = Copied(t, d)
      /\ Stage(5, t, d) = Dropped(t, d) /\ Stage(6, t, d) = Rebuilt(t, d)
  BY DEF Stage
<1>3. ASSUME NEW e
      PROVE  /\ Effect(Statement("detach", t), e) = [e EXCEPT !.objects = @ \ Attached(t)]
             /\ Effect(Statement("rename", t), e) = Aside(t, e)
             /\ Effect(Statement("create", <<"table", t>>), e) = Create(<<"table", t>>, e)
             /\ Effect(Statement("copy", t), e) = [e EXCEPT !.rows[t] = @ \cup {"here" : x \in @}]
             /\ Effect(Statement("drop", t), e) = [e EXCEPT !.rows[t] = @ \ {"aside"}]
             /\ Effect(Statement("attach", t), e) = [e EXCEPT !.objects = @ \cup held.objects]
  BY DEF Effect, Statement
<1> HIDE DEF r
<1>4. n = 0 \/ n = 1 \/ n = 2 \/ n = 3 \/ n = 4 \/ n = 5
  OBVIOUS
<1>5. Effect(r[1], d) = Detached(t, d)
  BY <1>1, <1>3 DEF Detached
<1>6. Effect(r[2], Detached(t, d)) = Renamed(t, d)
  BY <1>1, <1>3 DEF Renamed
<1>7. Effect(r[3], Renamed(t, d)) = Recreated(t, d)
  BY <1>1, <1>3 DEF Recreated
<1>8. Effect(r[4], Recreated(t, d)) = Copied(t, d)
  BY <1>1, <1>3 DEF Copied
<1>9. Effect(r[5], Copied(t, d)) = Dropped(t, d)
  BY <1>1, <1>3 DEF Dropped
<1>10. Effect(r[6], Dropped(t, d)) = Rebuilt(t, d)
  BY <1>1, <1>3 DEF Rebuilt
<1>11. QED
  BY <1>2, <1>4, <1>5, <1>6, <1>7, <1>8, <1>9, <1>10 DEF r

\* A database stays one while a table is rebuilt; what it then has.
LEMMA StagesAre ==
    ASSUME NEW d \in Database, NEW t \in Tables
    PROVE  /\ \A n \in 0..6 : Stage(n, t, d) \in Database
           /\ LET e == Stage(6, t, d)
              IN  /\ e.version = d.version /\ e.dangling = d.dangling /\ e.stale = d.stale
                  /\ e.objects = d.objects \cup {<<"table", t>>}
                  /\ d.columns \subseteq e.columns /\ {t} \X ToSet(Columns) \subseteq e.columns
                  /\ d.whole \subseteq e.whole /\ d.linked \subseteq e.linked
                  /\ t \in e.linked /\ e.linked \subseteq d.linked \cup {t}
                  /\ "aside" \notin d.rows[t] => e.rows = d.rows
<1> DEFINE C == {t} \X ToSet(Columns)
           T == <<"table", t>>
           Rows == [Tables \cup {"atoms"} -> SUBSET {"here", "aside"}]
           d1 == Detached(t, d)
           d2 == Renamed(t, d)
           d3 == Recreated(t, d)
           d4 == Copied(t, d)
           d5 == Dropped(t, d)
           d6 == Rebuilt(t, d)
           Alike(x, y) == /\ x.version = y.version /\ x.dangling = y.dangling /\ x.stale = y.stale
                          /\ x.whole = y.whole /\ x.linked = y.linked
<1>1. T \in Object("table", Tables) /\ T \notin Fts /\ T[2] = t /\ T \in Expected \cup {Score}
        /\ T \notin Attached(t)
  BY Apart DEF Object, Expected, CoreTables, Attached
<1>2. d1 \in Database /\ Alike(d1, d) /\ d1.objects = d.objects \ Attached(t)
        /\ d1.columns = d.columns /\ d1.rows = d.rows
  BY DEF Detached, Database
<1> HIDE DEF d1
<1>3. d2 \in Database /\ Alike(d2, d1) /\ d2.objects = d1.objects \ {T} /\ d2.columns = d1.columns \ C
        /\ d2.rows = [d1.rows EXCEPT ![t] = {"aside" : x \in @}]
  <2>1. d2 = Aside(t, d1)
    BY DEF Renamed, d1
  <2>2. Aside(t, d1) \in Database
    BY <1>2 DEF Aside, Database
  <2>3. LET e == Aside(t, d1)
        IN  /\ Alike(e, d1) /\ e.objects = d1.objects \ {<<"table", t>>}
            /\ e.columns = d1.columns \ ({t} \X ToSet(Columns))
    BY <1>2 DEF Aside, Database
  <2>4. Aside(t, d1).rows = [d1.rows EXCEPT ![t] = {"aside" : x \in @}]
    BY <1>2 DEF Aside, Database
  <2> HIDE DEF d2
  <2>5. QED
    BY <2>1, <2>2, <2>3, <2>4
<1> HIDE DEF d2, T
<1>4. /\ d3 \in Database /\ d3.version = d2.version /\ d3.rows = d2.rows /\ d3.dangling = d2.dangling
      /\ d3.objects = d2.objects \cup {T} /\ d3.stale = d2.stale
      /\ d2.columns \subseteq d3.columns /\ d2.whole \subseteq d3.whole
      /\ d2.linked \subseteq d3.linked /\ d3.linked \subseteq d2.linked \cup {t}
      /\ t \in d3.linked /\ C \subseteq d3.columns
  <2>1. d3 = Create(T, d2) /\ T \notin d2.objects
    BY <1>3 DEF Recreated, d2, T
  <2> HIDE DEF d3, C
  <2>2. QED
    BY <1>1, <1>3, <2>1, CreateIs DEF C
<1> HIDE DEF d3, C
<1>5. d4 \in Database /\ Alike(d4, d3) /\ d4.objects = d3.objects /\ d4.columns = d3.columns
        /\ d4.rows = [d3.rows EXCEPT ![t] = @ \cup {"here" : x \in @}]
  <2>1. d4 = [d3 EXCEPT !.rows[t] = @ \cup {"here" : x \in @}]
    BY DEF Copied, d3
  <2>2. [d3 EXCEPT !.rows[t] = @ \cup {"here" : x \in @}] \in Database
    BY <1>4 DEF Database
  <2>3. LET e == [d3 EXCEPT !.rows[t] = @ \cup {"here" : x \in @}]
        IN  Alike(e, d3) /\ e.objects = d3.objects /\ e.columns = d3.columns
              /\ e.rows = [d3.rows EXCEPT ![t] = @ \cup {"here" : x \in @}]
    BY <1>4 DEF Database
  <2> HIDE DEF d4
  <2>4. QED
    BY <2>1, <2>2, <2>3, Zenon
<1> HIDE DEF d4
<1>6. d5 \in Database /\ Alike(d5, d4) /\ d5.objects = d4.objects /\ d5.columns = d4.columns
        /\ d5.rows = [d4.rows EXCEPT ![t] = @ \ {"aside"}]
  <2>1. d5 = [d4 EXCEPT !.rows[t] = @ \ {"aside"}]
    BY DEF Dropped, d4
  <2>2. [d4 EXCEPT !.rows[t] = @ \ {"aside"}] \in Database
    BY <1>5 DEF Database
  <2>3. LET e == [d4 EXCEPT !.rows[t] = @ \ {"aside"}]
        IN  Alike(e, d4) /\ e.objects = d4.objects /\ e.columns = d4.columns
              /\ e.rows = [d4.rows EXCEPT ![t] = @ \ {"aside"}]
    BY <1>5 DEF Database
  <2> HIDE DEF d5
  <2>4. QED
    BY <2>1, <2>2, <2>3, Zenon
<1> HIDE DEF d5
<1>7. d6 \in Database /\ Alike(d6, d5) /\ d6.objects = d5.objects \cup (Attached(t) \cap d.objects)
        /\ d6.columns = d5.columns /\ d6.rows = d5.rows
  <2> DEFINE x == Attached(t) \cap d.objects
  <2>1. d6 = [d5 EXCEPT !.objects = @ \cup x]
    BY DEF Rebuilt, d5
  <2>2. x \subseteq Expected \cup {Score}
    BY DEF Database
  <2> HIDE DEF x
  <2>3. [d5 EXCEPT !.objects = @ \cup x] \in Database
    BY <1>6, <2>2 DEF Database
  <2>4. LET e == [d5 EXCEPT !.objects = @ \cup x]
        IN  Alike(e, d5) /\ e.objects = d5.objects \cup x /\ e.columns = d5.columns /\ e.rows = d5.rows
    BY <1>6 DEF Database
  <2> HIDE DEF d6
  <2>5. QED
    BY <2>1, <2>3, <2>4, Zenon DEF x
<1> HIDE DEF d6
<1>8. /\ Stage(0, t, d) = d /\ Stage(1, t, d) = d1 /\ Stage(2, t, d) = d2 /\ Stage(3, t, d) = d3
      /\ Stage(4, t, d) = d4 /\ Stage(5, t, d) = d5 /\ Stage(6, t, d) = d6
  BY DEF Stage, d1, d2, d3, d4, d5, d6
<1>9. \A n \in 0..6 : n = 0 \/ n = 1 \/ n = 2 \/ n = 3 \/ n = 4 \/ n = 5 \/ n = 6
  OBVIOUS
<1>10. \A n \in 0..6 : Stage(n, t, d) \in Database
  BY <1>2, <1>3, <1>4, <1>5, <1>6, <1>7, <1>8, <1>9
<1>11. "aside" \notin d.rows[t] => d6.rows = d.rows
  <2> DEFINE r == d.rows
             r1 == d2.rows
             r2 == d4.rows
             r3 == d6.rows
             K == Tables \cup {"atoms"}
  <2> SUFFICES ASSUME "aside" \notin r[t] PROVE r3 = r
    OBVIOUS
  <2>1. r \in Rows /\ r1 \in Rows /\ r2 \in Rows /\ r3 \in Rows
    BY <1>3, <1>5, <1>7 DEF Database
  <2>2. /\ r1 = [r EXCEPT ![t] = {"aside" : x \in @}] /\ r2 = [r1 EXCEPT ![t] = @ \cup {"here" : x \in @}]
        /\ r3 = [r2 EXCEPT ![t] = @ \ {"aside"}]
    <3>1. r1 = [r EXCEPT ![t] = {"aside" : x \in @}]
      BY <1>2, <1>3
    <3>2. r2 = [r1 EXCEPT ![t] = @ \cup {"here" : x \in @}]
      BY <1>4, <1>5
    <3>3. r3 = [r2 EXCEPT ![t] = @ \ {"aside"}]
      BY <1>6, <1>7
    <3>4. QED
      BY <3>1, <3>2, <3>3, Zenon
  <2> HIDE DEF r, r1, r2, r3
  <2>3. t \in K /\ r[t] \subseteq {"here", "aside"}
    BY <2>1
  <2>4. /\ r1[t] = {"aside" : x \in r[t]} /\ r2[t] = r1[t] \cup {"here" : x \in r1[t]}
        /\ r3[t] = r2[t] \ {"aside"}
    BY <2>1, <2>2, <2>3
  <2>5. r3[t] = r[t]
    BY <2>3, <2>4
  <2>6. \A u \in K : u # t => r1[u] = r[u] /\ r2[u] = r1[u] /\ r3[u] = r2[u]
    BY <2>1, <2>2
  <2>7. \A u \in K : r3[u] = r[u]
    BY <2>5, <2>6
  <2>8. QED
    BY <2>1, <2>7
<1>12. d6.objects = d.objects \cup {T}
  BY <1>1, <1>2, <1>3, <1>4, <1>5, <1>6, <1>7
<1>13. /\ d.columns \subseteq d6.columns /\ C \subseteq d6.columns
  BY <1>2, <1>3, <1>4, <1>5, <1>6, <1>7
<1>14. /\ d6.version = d.version /\ d6.dangling = d.dangling /\ d6.stale = d.stale
       /\ d.whole \subseteq d6.whole /\ d.linked \subseteq d6.linked
       /\ t \in d6.linked /\ d6.linked \subseteq d.linked \cup {t}
  BY <1>2, <1>3, <1>4, <1>5, <1>6, <1>7
<1>15. QED
  BY <1>8, <1>10, <1>11, <1>12, <1>13, <1>14 DEF C, T

\* A table rebuilt loses nothing; and if it has no reference to nothing, that is good.
LEMMA RelinkKeeps ==
    ASSUME NEW d \in Database, NEW g \in Legacies, Good(d, g), Supported(g.version),
           NEW t \in Tables, t \notin d.dangling
    PROVE  LET e == Stage(6, t, d)
           IN  /\ e \in Database /\ Good(e, g) /\ Better(d, e)
               /\ e.stale = d.stale /\ e.version = d.version
<1> DEFINE e == Stage(6, t, d)
<1>1. "aside" \notin d.rows[t]
  BY Found DEF Good, Better
<1>2. 6 \in 0..6
  OBVIOUS
<1>3. e \in Database
  BY <1>2, StagesAre
<1>4. /\ e.version = d.version /\ e.dangling = d.dangling /\ e.stale = d.stale
      /\ e.objects = d.objects \cup {<<"table", t>>}
      /\ d.columns \subseteq e.columns /\ {t} \X ToSet(Columns) \subseteq e.columns
      /\ d.whole \subseteq e.whole /\ d.linked \subseteq e.linked
      /\ t \in e.linked /\ e.linked \subseteq d.linked \cup {t}
      /\ e.rows = d.rows
  BY <1>1, StagesAre
<1> HIDE DEF e
<1>5. g \in Database
  BY Found
<1>6. Sound(e, g)
  BY <1>4 DEF Good, Sound
<1>7. Made(e, g)
  <2>1. Made(d, g)
    BY DEF Good
  <2>2. \A u \in Tables : <<"table", u>> = <<"table", t>> => u = t
    OBVIOUS
  <2>3. QED
    BY <1>4, <2>1, <2>2 DEF Made
<1>8. Good(e, g) /\ Better(d, e)
  BY <1>3, <1>4, <1>5, <1>6, <1>7, Grows
<1>9. QED
  BY <1>3, <1>4, <1>8 DEF e

-----------------------------------------------------------------------------
(* The invariant is inductive.                                             *)

LEMMA BetterTrans ==
    ASSUME NEW c \in Database, NEW d \in Database, NEW e \in Database, Better(c, d), Better(d, e)
    PROVE  Better(c, e)
<1>1. /\ c.version # None => d.version # None /\ c.version <= d.version
      /\ d.version # None => e.version # None /\ d.version <= e.version
  BY DEF Better
<1>2. c.version # None => e.version # None /\ c.version <= e.version
  BY <1>1, VersionOrder
<1>3. QED
  BY <1>2 DEF Better

LEMMA BetterSelf ==
    ASSUME NEW d \in Database
    PROVE  Better(d, d)
BY VersionOrder DEF Better

\* The statements left after the first.
LEMMA TailIs ==
    ASSUME NEW s \in Seq(Statements), s # <<>>
    PROVE  /\ Head(s) = s[1] /\ Head(s) \in Statements /\ 1 \in 1..Len(s)
           /\ Tail(s) \in Seq(Statements) /\ Len(Tail(s)) = Len(s) - 1 /\ Len(Tail(s)) \in Nat
           /\ \A i \in 1..Len(Tail(s)) : i + 1 \in 1..Len(s) /\ Tail(s)[i] = s[i + 1]
           /\ \A i \in 1..Len(s) : i # 1 => i - 1 \in 1..Len(Tail(s)) /\ Tail(s)[i - 1] = s[i]
           /\ Tail(s) = <<>> <=> Len(s) = 1
           /\ Tail(s) # <<>> => Tail(s)[Len(Tail(s))] = s[Len(s)]
<1>1. Len(s) \in Nat /\ Len(s) > 0
  OBVIOUS
<1>2. Tail(s) \in Seq(Statements) /\ Len(Tail(s)) = Len(s) - 1 /\ \A i \in 1..Len(Tail(s)) : Tail(s)[i] = s[i + 1]
  BY <1>1, HeadTailProperties
<1>3. Head(s) = s[1] /\ Head(s) \in Statements /\ 1 \in 1..Len(s)
  BY <1>1, HeadTailProperties
<1>4. Len(Tail(s)) \in Nat /\ \A i \in 1..Len(Tail(s)) : i + 1 \in 1..Len(s)
  BY <1>1, <1>2
<1>5. \A i \in 1..Len(s) : i # 1 => i - 1 \in 1..Len(Tail(s)) /\ Tail(s)[i - 1] = s[i]
  <2> TAKE i \in 1..Len(s)
  <2> SUFFICES ASSUME i # 1 PROVE i - 1 \in 1..Len(Tail(s)) /\ Tail(s)[i - 1] = s[i]
    OBVIOUS
  <2>1. i - 1 \in 1..Len(Tail(s)) /\ (i - 1) + 1 = i
    BY <1>1, <1>2
  <2>2. QED
    BY <1>2, <2>1
<1>6. Tail(s) = <<>> <=> Len(Tail(s)) = 0
  BY <1>2
<1>7. Tail(s) = <<>> <=> Len(s) = 1
  BY <1>1, <1>2, <1>6
<1>8. Tail(s) # <<>> => Len(s) \in 1..Len(s) /\ Len(s) # 1
  BY <1>1, <1>7
<1>9. Tail(s) # <<>> => Tail(s)[Len(Tail(s))] = s[Len(s)]
  BY <1>2, <1>5, <1>8
<1>10. QED
  BY <1>2, <1>3, <1>4, <1>5, <1>7, <1>9

LEMMA TailLists ==
    ASSUME NEW s \in Seq(Statements), s # <<>>, NEW x, Lists(s, x), x # Head(s)
    PROVE  Lists(Tail(s), x)
<1>1. PICK i \in 1..Len(s) : s[i] = x
  BY DEF Lists
<1>2. i # 1
  BY <1>1, TailIs
<1>3. i - 1 \in 1..Len(Tail(s)) /\ Tail(s)[i - 1] = x
  BY <1>1, <1>2, TailIs
<1>4. QED
  BY <1>3 DEF Lists

\* What is to come before a stamp is there, or still to come, after each statement.
LEMMA StampsTail ==
    ASSUME NEW s \in Seq(Statements), s # <<>>, NEW d \in Database, NEW e \in Database, NEW g,
           NEW i \in 1..Len(Tail(s)), Stamps(i + 1, s, d, g), Tail(s)[i].op = "stamp",
           d.objects \subseteq e.objects, d.columns \subseteq e.columns,
           Head(s).op \in {"create", "column"} => Has(e, Head(s).on),
           Head(s).op = "stamp" => e.version = Head(s).on,
           Head(s).op # "stamp" => e.version = d.version
    PROVE  Stamps(i, Tail(s), e, g)
<1> DEFINE t == Tail(s)
<1>1. t[i] = s[i + 1] /\ i + 1 \in 1..Len(s) /\ Head(s) = s[1] /\ 1 \in 1..Len(s) /\ 1 < i + 1
  BY TailIs
<1>2. e.version # None => e.version < t[i].on
  BY <1>1 DEF Stamps
<1>3. \A j \in 1..Len(t) : j < i /\ t[j].op = "stamp" => t[j].on < t[i].on
  <2> SUFFICES ASSUME NEW j \in 1..Len(t), j < i, t[j].op = "stamp" PROVE t[j].on < t[i].on
    OBVIOUS
  <2>1. j + 1 \in 1..Len(s) /\ t[j] = s[j + 1] /\ j + 1 < i + 1
    BY TailIs
  <2>2. QED
    BY <1>1, <2>1 DEF Stamps
<1>4. ASSUME NEW o \in Needs(t[i].on, g)
      PROVE  Has(e, o) \/ Pends(t, o, i)
  <2>1. Has(d, o) \/ Pends(s, o, i + 1)
    BY <1>1, <1>4 DEF Stamps
  <2>2. CASE Has(d, o)
    BY <2>2 DEF Has
  <2>3. CASE Pends(s, o, i + 1)
    <3>1. PICK j \in 1..Len(s) : j < i + 1 /\ s[j].op \in {"create", "column"} /\ s[j].on = o
      BY <2>3 DEF Pends
    <3>2. CASE j = 1
      BY <1>1, <3>1, <3>2
    <3>3. CASE j # 1
      <4>1. j - 1 \in 1..Len(t) /\ t[j - 1] = s[j]
        BY <3>3, TailIs
      <4>2. j - 1 < i
        BY <3>1
      <4>3. QED
        BY <3>1, <4>1, <4>2 DEF Pends
    <3>4. QED
      BY <3>2, <3>3
  <2>4. QED
    BY <2>1, <2>2, <2>3
<1>5. QED
  BY <1>2, <1>3, <1>4 DEF Stamps

\* An attempt that runs is one of a supported version.
LEMMA Running ==
    ASSUME IInv, pc \notin Ended
    PROVE  Supported(origin.version) /\ origin \in Legacies /\ origin \in Database
<1>1. /\ pc \in {"fresh", "migrate", "repair", "parity", "table", "tables"}
      /\ origin \in Database /\ origin \in Legacies
  BY DEF IInv, TypeOK
<1>2. CASE pc \in {"fresh", "migrate"}
  BY <1>2, <1>1 DEF IInv, Building, Supported, Current
<1>3. CASE pc \in {"repair", "parity", "tables"}
  <2>1. work.version = Current /\ Good(work, origin)
    BY <1>3 DEF IInv, Repairing, Parity, Full
  <2>2. QED
    BY <1>1, <2>1 DEF Good, Supported, Current
<1>4. CASE pc = "table"
  <2>1. db.version = Current /\ Good(db, origin)
    BY <1>4 DEF IInv, Rebuilding, Full
  <2>2. QED
    BY <1>1, <2>1 DEF Good, Supported, Current
<1>5. QED
  BY <1>1, <1>2, <1>3, <1>4

LEMMA InvInit == Init => IInv
<1> SUFFICES ASSUME Init PROVE IInv
  OBVIOUS
<1>1. db \in Legacies /\ work = db /\ origin = db /\ db \in Database
  BY Found DEF Init
<1>2. open = FALSE /\ pc = "closed" /\ todo = <<>> /\ held = None /\ opens = 0 /\ deaths = 0
  BY DEF Init
<1>3. TypeOK
  <2>1. open \in BOOLEAN
    BY <1>2, Zenon
  <2>2. opens \in 0..MaxOpens /\ deaths \in 0..MaxDeaths
    BY <1>2, SchemaAssumption
  <2>3. QED
    BY <1>1, <1>2, <2>1, <2>2 DEF TypeOK, Ended
<1>4. Better(db, db)
  BY <1>1, BetterSelf
<1>5. Tells(db, db)
  <2> SUFFICES ASSUME db.version \in 3..Current, NEW o \in Needs(db.version, db) PROVE FALSE
    BY DEF Tells
  <2>1. db.version # None
    BY VersionOrder DEF Current
  <2>2. PICK m \in {j \in 3..db.version : db.version < j} : o \in Added(m)
    BY <2>1 DEF Needs
  <2>3. QED
    BY <2>2 DEF Current
<1>6. Made(db, db)
  BY <1>1, Found DEF Made
<1>7. Good(db, origin) /\ Good(work, origin)
  BY <1>1, <1>4, <1>5, <1>6 DEF Good, Sound
<1>8. AtRest
  BY <1>1, <1>2, Found DEF AtRest, Searchable
<1>9. QED
  BY <1>1, <1>2, <1>3, <1>4, <1>7, <1>8 DEF IInv, Building, Repairing, Parity, Rebuilding

LEMMA InvBegin ==
    ASSUME IInv, Begin
    PROVE  IInv' /\ Better(db, db')
<1> DEFINE v == db.version
<1>1. /\ pc \in Ended /\ ~open /\ work = db /\ todo = <<>> /\ held = None /\ Searchable(db)
      /\ db \in Database /\ origin \in Database /\ origin \in Legacies /\ Good(db, origin)
  BY DEF IInv, TypeOK, AtRest, Begin
<1>2. /\ db' = db /\ work' = work /\ open' = open /\ held' = held /\ origin' = origin /\ deaths' = deaths
      /\ opens' = opens + 1 /\ opens < MaxOpens
  BY DEF Begin
<1>3. Better(db, db')
  BY <1>1, <1>2, BetterSelf
<1>4. /\ pc' \in {"refused", "parity", "fresh", "migrate"}
      /\ pc' = "refused" => Refusable(db) /\ todo' = <<>>
      /\ pc' = "parity" => v = Current /\ Validated(db) /\ todo' = <<>>
      /\ pc' = "fresh" => v = None /\ todo' = Fresh
      /\ pc' = "migrate" => Supported(v) /\ v # None /\ v # Current /\ todo' = Migrations(v)
  BY DEF Begin, Refusable
<1>5. TypeOK'
  <2>1. opens' \in 0..MaxOpens
    BY <1>2, SchemaAssumption DEF IInv, TypeOK
  <2>2. QED
    BY <1>1, <1>2, <1>4, <2>1 DEF IInv, TypeOK, Ended
<1>6. Good(db, origin)' /\ Good(work, origin)' /\ Better(db, work)' /\ Searchable(work)' /\ Searchable(db)'
  BY <1>1, <1>2, <1>3 DEF Searchable
<1>7. CASE pc' = "refused"
  <2>1. AtRest'
    BY <1>1, <1>2, <1>4, <1>6, <1>7 DEF IInv, AtRest
  <2>2. QED
    BY <1>1, <1>2, <1>3, <1>4, <1>5, <1>6, <1>7, <2>1, EmptySeq DEF IInv, Building, Repairing, Parity, Rebuilding
<1>8. CASE pc' = "parity"
  <2>1. Parity'
    BY <1>1, <1>2, <1>4, <1>6, <1>8 DEF Parity, Full, Validated
  <2>2. QED
    BY <1>1, <1>2, <1>3, <1>4, <1>5, <1>6, <1>8, <2>1, EmptySeq DEF IInv, AtRest, Ended, Building, Repairing, Rebuilding
<1>9. CASE pc' = "fresh"
  <2>1. v = None /\ todo' = Fresh /\ origin.version = None
    BY <1>1, <1>4, <1>9 DEF Good, Better
  <2>2. \A o \in Fts : work.rows[o[2]] = {}
    <3>1. \A o \in Fts : o[2] \in Tables \cup {"atoms"}
      BY SchemaAssumption DEF Fts, Object
    <3>2. QED
      BY <1>1, <2>1, <3>1, Found DEF Good, Better
  <2>3. ASSUME NEW i \in 1..Len(Fresh)
        PROVE  /\ Allowed(Fresh[i], "fresh")
               /\ Fresh[i].op = "create" /\ Fresh[i].on \in Fts => work.rows[Fresh[i].on[2]] = {}
               /\ Fresh[i].op = "stamp" => Stamps(i, Fresh, work, origin)
    <3>1. Allowed(Fresh[i], "fresh")
      BY FreshIs DEF Allowed, Statement
    <3>2. ASSUME Fresh[i].op = "stamp"
          PROVE  Stamps(i, Fresh, work, origin)
      <4>1. i = Len(Fresh) /\ Fresh[i].on = Current
        BY <3>2, FreshIs DEF Statement
      <4>2. \A j \in 1..Len(Fresh) : j < i => Fresh[j].op = "create"
        BY <4>1, FreshIs
      <4>3. Needs(Current, origin) = Expected
        BY <2>1 DEF Needs
      <4>4. QED
        BY <1>1, <2>1, <4>1, <4>2, <4>3, FreshIs DEF Stamps
    <3>3. QED
      BY <2>2, <3>1, <3>2
  <2>4. Building'
    BY <1>1, <1>2, <1>6, <1>9, <2>1, <2>3, FreshIs DEF Building
  <2>5. todo' \in Seq(Statements)
    BY <2>1, FreshIs
  <2>6. QED
    BY <1>1, <1>2, <1>3, <1>5, <1>6, <1>9, <2>4, <2>5 DEF IInv, AtRest, Ended, Parity, Repairing, Rebuilding
<1>10. CASE pc' = "migrate"
  <2> DEFINE s == Migrations(v)
  <2>1. v \in 2..5 /\ todo' = s
    BY <1>4, <1>10 DEF Supported, Current
  <2>2. Chain(s, v, Current)
    BY <2>1, MigrationsAre
  <2>3. origin.version \in 2..5 /\ origin.version <= v
    <3>1. origin.version # None
      BY <1>1, <2>1, VersionOrder DEF Good, Made, Current
    <3>2. origin.version \in 0..9 /\ origin.version <= v
      BY <1>1, <3>1, VersionOrder DEF Good, Better
    <3>3. Supported(origin.version)
      BY <1>1, <2>1 DEF Good, Supported, Current
    <3>4. QED
      BY <2>1, <3>1, <3>2, <3>3 DEF Supported, Current
  <2> HIDE DEF s
  <2>4. ASSUME NEW i \in 1..Len(s)
        PROVE  /\ Allowed(s[i], "migrate")
               /\ s[i].op = "create" /\ s[i].on \in Fts => work.rows[s[i].on[2]] = {}
               /\ s[i].op = "stamp" => Stamps(i, s, work, origin)
    <3>1. /\ Migrates(s[i]) \/ (s[i].op = "stamp" /\ s[i].on \in (v + 1)..Current)
          /\ s[i].op = "create" /\ s[i].on \in Fts => v < 4 /\ s[i].on = <<"fts", "atoms">>
      BY <2>2 DEF Chain
    <3>2. Allowed(s[i], "migrate")
      <4>1. (v + 1)..Current \subseteq 3..Current
        BY <2>1 DEF Current
      <4>2. QED
        BY <3>1, <4>1 DEF Allowed
    <3>3. v < 4 => work.rows["atoms"] = {}
      <4>1. v < 4 => origin.version \in 2..3
        BY <2>1, <2>3
      <4>2. v < 4 => origin.rows["atoms"] = {}
        BY <1>1, <4>1, Found DEF Released
      <4>3. QED
        BY <1>1, <4>2 DEF Good, Better
    <3>4. ASSUME s[i].op = "stamp"
          PROVE  Stamps(i, s, work, origin)
      <4>1. /\ \A j \in 1..Len(s) : j < i /\ s[j].op = "stamp" => s[j].on < s[i].on
            /\ \A m \in (v + 1)..s[i].on : \A o \in Added(m) : Pends(s, o, i)
        BY <2>2, <3>4 DEF Chain
      <4>2. s[i].on \in (v + 1)..Current
        BY <3>1, <3>4 DEF Migrates
      <4>3. v < s[i].on
        BY <2>1, <4>2 DEF Current
      <4>4. ASSUME NEW o \in Needs(s[i].on, origin)
            PROVE  Has(work, o) \/ Pends(s, o, i)
        <5>1. PICK m \in {j \in 3..s[i].on : origin.version < j} : o \in Added(m)
          BY <2>3, VersionOrder DEF Needs
        <5>2. CASE m <= v
          <6>1. m \in {j \in 3..v : origin.version < j} /\ v \in 3..Current
            BY <2>1, <4>2, <5>1, <5>2 DEF Current
          <6>2. o \in Needs(v, origin)
            BY <2>3, <5>1, <6>1, VersionOrder DEF Needs
          <6>3. Tells(db, origin)
            BY <1>1 DEF Good
          <6>4. QED
            BY <1>1, <6>1, <6>2, <6>3 DEF Tells
        <5>3. CASE ~(m <= v)
          <6>1. m \in (v + 1)..s[i].on
            BY <2>1, <4>2, <5>1, <5>3 DEF Current
          <6>2. QED
            BY <4>1, <5>1, <6>1
        <5>4. QED
          BY <5>2, <5>3
      <4>5. QED
        BY <1>1, <4>1, <4>3, <4>4 DEF Stamps
    <3>5. <<"fts", "atoms">>[2] = "atoms"
      OBVIOUS
    <3>6. QED
      BY <3>1, <3>2, <3>3, <3>4, <3>5
  <2>5. /\ s \in Seq(Statements) /\ s # <<>> /\ s[Len(s)] = Statement("stamp", Current)
    BY <2>2 DEF Chain
  <2>6. work.version \in 2..Current
    BY <1>1, <2>1 DEF Current
  <2>7. Building'
    BY <1>1, <1>2, <1>6, <1>10, <2>1, <2>3, <2>4, <2>5, <2>6 DEF Building
  <2>8. QED
    BY <1>1, <1>2, <1>3, <1>5, <1>6, <1>10, <2>1, <2>5, <2>7 DEF IInv, AtRest, Ended, Parity, Repairing, Rebuilding
<1>11. QED
  BY <1>4, <1>7, <1>8, <1>9, <1>10

\* A statement of a script that makes a database or migrates it.
LEMMA InvScript ==
    ASSUME IInv, Execute, pc \in {"fresh", "migrate"}
    PROVE  IInv' /\ Better(db, db')
<1> DEFINE h == Head(todo)
           t == Tail(todo)
           e == Effect(h, work)
<1>1. /\ todo # <<>> /\ todo \in Seq(Statements) /\ open = FALSE /\ work = db /\ held = None
      /\ db \in Database /\ work \in Database /\ origin \in Database /\ origin \in Legacies
      /\ Good(work, origin) /\ Supported(origin.version) /\ Searchable(work)
  <2>1. pc \notin Ended
    BY DEF Ended
  <2>2. QED
    BY <2>1, Running DEF IInv, TypeOK, Execute, Building
<1>2. /\ work' = e /\ todo' = t /\ pc' = pc /\ held' = held /\ origin' = origin /\ opens' = opens /\ deaths' = deaths
      /\ open' = (open \/ Opens(h)) /\ db' = IF open' THEN db ELSE work'
  BY DEF Execute
<1>3. /\ h = todo[1] /\ h \in Statements /\ Allowed(h, pc) /\ 1 \in 1..Len(todo)
      /\ h.op = "create" /\ h.on \in Fts => work.rows[h.on[2]] = {}
      /\ h.op = "stamp" => Stamps(1, todo, work, origin)
  <2>1. h = todo[1] /\ h \in Statements /\ 1 \in 1..Len(todo)
    BY <1>1, TailIs
  <2>2. Building
    BY DEF IInv
  <2> HIDE DEF h
  <2>3. QED
    BY <2>1, <2>2 DEF Building
<1>4. /\ t \in Seq(Statements) /\ Len(t) \in Nat /\ (t = <<>> <=> Len(todo) = 1)
      /\ \A i \in 1..Len(t) : i + 1 \in 1..Len(todo) /\ t[i] = todo[i + 1]
      /\ t # <<>> => t[Len(t)] = todo[Len(todo)]
  BY <1>1, TailIs
<1>5. /\ h.op = "create" => h.on \in Expected \cup {Score} /\ (h.on \in Object("table", Tables) => origin.version = None)
      /\ h.op = "column" => h.on \in Cells
      /\ h.op = "stamp" => h.on \in 3..Current /\ (origin.version = None => h.on = Current)
      /\ h.op \in {"create", "column", "stamp"}
  <2>1. pc = "fresh" => origin.version = None
    BY DEF IInv, Building
  <2>2. pc # "fresh" => origin.version # None
    BY VersionOrder DEF IInv, Building
  <2> HIDE DEF h
  <2>3. QED
    BY <1>3, <2>1, <2>2 DEF Allowed, Migrates, Current
<1> HIDE DEF h
<1>6. /\ e \in Database /\ Good(e, origin) /\ Better(work, e) /\ e.stale = work.stale
      /\ h.op \in {"create", "column"} => Has(e, h.on)
      /\ h.op = "stamp" => e.version = h.on
      /\ h.op # "stamp" => e.version = work.version
      /\ e.rows = work.rows
  <2>1. CASE h.op = "create"
    <3>1. e = Create(h.on, work)
      BY <2>1 DEF Effect
    <3>2. Good(e, origin) /\ Better(work, e)
      BY <1>1, <1>5, <2>1, <3>1, CreateKeeps
    <3>3. /\ e \in Database /\ e.version = work.version /\ e.rows = work.rows /\ e.objects = work.objects \cup {h.on}
          /\ h.on \notin Fts \/ h.on \in work.objects => e.stale = work.stale
          /\ h.on \in Fts /\ work.rows[h.on[2]] = {} => e.stale = work.stale
      <4> HIDE DEF e
      <4>1. QED BY <1>1, <1>5, <2>1, <3>1, CreateIs
    <3>4. e.stale = work.stale
      BY <1>3, <2>1, <3>3
    <3> HIDE DEF e
    <3>5. QED
      BY <2>1, <3>2, <3>3, <3>4 DEF Has
  <2>2. CASE h.op = "column"
    <3>1. e = [work EXCEPT !.columns = @ \cup {h.on}]
      BY <2>2 DEF Effect
    <3>2. /\ e \in Database /\ Good(e, origin) /\ Better(work, e)
          /\ e.stale = work.stale /\ e.objects = work.objects /\ e.columns = work.columns \cup {h.on}
          /\ e.version = work.version /\ e.rows = work.rows
      <4>1. h.on \in Cells
        BY <1>5, <2>2
      <4> HIDE DEF e
      <4>2. QED BY <1>1, <3>1, <4>1, ColumnKeeps, ZenonT(40)
    <3> HIDE DEF e
    <3>3. QED
      BY <2>2, <3>2 DEF Has
  <2>3. CASE h.op = "stamp"
    <3>1. e = [work EXCEPT !.version = h.on]
      BY <2>3 DEF Effect
    <3>2. \A o \in Needs(h.on, origin) : Has(work, o)
      <4>1. \A o : ~Pends(todo, o, 1)
        BY DEF Pends
      <4>2. QED
        BY <1>3, <2>3, <4>1 DEF Stamps
    <3>3. work.version # None => work.version < h.on
      BY <1>3, <2>3 DEF Stamps
    <3>4. /\ e \in Database /\ Good(e, origin) /\ Better(work, e)
          /\ e.stale = work.stale /\ e.objects = work.objects /\ e.columns = work.columns
          /\ e.version = h.on /\ e.rows = work.rows
      <4>1. h.on \in 3..Current /\ (origin.version = None => h.on = Current)
        BY <1>5, <2>3
      <4> HIDE DEF e
      <4>2. QED BY <1>1, <3>1, <3>2, <3>3, <4>1, StampKeeps
    <3> HIDE DEF e
    <3>5. QED
      BY <2>3, <3>4
  <2>4. QED
    BY <1>5, <2>1, <2>2, <2>3
<1> HIDE DEF e, t
<1>7. open' \in BOOLEAN /\ (open' => pc = "fresh" /\ h.op = "stamp")
  <2>1. Opens(h) => pc = "fresh" /\ h.op = "stamp"
    BY <1>5 DEF Opens
  <2>2. open' <=> Opens(h)
    BY <1>1, <1>2
  <2>3. open' \in BOOLEAN
    BY <1>2, Zenon
  <2>4. QED
    BY <2>1, <2>2, <2>3
<1>8. db' \in Database /\ Good(db', origin) /\ Better(db, db') /\ Better(db', work') /\ (~open' => work' = db')
  <2>1. Better(e, e) /\ Better(work, work)
    BY <1>1, <1>6, BetterSelf
  <2>2. QED
    BY <1>1, <1>2, <1>6, <2>1
<1>9. TypeOK'
  BY <1>1, <1>2, <1>6, <1>7, <1>8 DEF IInv, TypeOK
<1>10. ASSUME NEW i \in 1..Len(t)
       PROVE  /\ Allowed(t[i], pc)
              /\ t[i].op = "create" /\ t[i].on \in Fts => e.rows[t[i].on[2]] = {}
              /\ t[i].op = "stamp" => Stamps(i, t, e, origin)
  <2>1. t[i] = todo[i + 1] /\ i + 1 \in 1..Len(todo)
    BY <1>4
  <2>2. /\ Allowed(todo[i + 1], pc)
        /\ todo[i + 1].op = "create" /\ todo[i + 1].on \in Fts => work.rows[todo[i + 1].on[2]] = {}
        /\ todo[i + 1].op = "stamp" => Stamps(i + 1, todo, work, origin)
    BY <2>1 DEF IInv, Building
  <2>3. ASSUME t[i].op = "stamp"
        PROVE  Stamps(i, t, e, origin)
    <3>1. Stamps(i + 1, todo, work, origin)
      BY <2>1, <2>2, <2>3
    <3>2. work.objects \subseteq e.objects /\ work.columns \subseteq e.columns
      BY <1>6 DEF Better
    <3>3. QED
      BY <1>1, <1>6, <2>3, <3>1, <3>2, StampsTail DEF t, h
  <2>4. QED
    BY <1>6, <2>1, <2>2, <2>3
<1>11. /\ t # <<>> => ~open' /\ t[Len(t)] = Statement("stamp", Current)
       /\ t = <<>> => e.version = Current
  <2>1. todo[Len(todo)] = Statement("stamp", Current) /\ Len(todo) \in Nat
    BY <1>1 DEF IInv, Building
  <2>2. Statement("stamp", Current).op = "stamp" /\ Statement("stamp", Current).on = Current
    BY DEF Statement
  <2>3. t = <<>> => e.version = Current
    BY <1>3, <1>4, <1>6, <2>1, <2>2
  <2>4. ASSUME t # <<>> PROVE ~open'
    <3>1. Len(todo) \in 1..Len(todo) /\ 1 < Len(todo)
      BY <1>1, <1>3, <1>4, <2>1, <2>4
    <3>2. Stamps(Len(todo), todo, work, origin)
      BY <2>1, <2>2, <3>1 DEF IInv, Building
    <3>3. h.op = "stamp" => h.on < Current
      BY <1>3, <2>1, <2>2, <3>1, <3>2 DEF Stamps
    <3>4. pc = "fresh" /\ h.op = "stamp" => h.on = Current
      BY <1>3 DEF Allowed
    <3>5. QED
      BY <1>7, <3>3, <3>4 DEF Current
  <2>5. QED
    BY <1>4, <2>1, <2>3, <2>4
<1>12. pc = "migrate" => ~open' /\ origin.version \in 2..5 /\ e.version \in 2..Current
  <2>1. pc = "migrate" => origin.version \in 2..5 /\ work.version \in 2..Current
    BY DEF IInv, Building
  <2>2. pc = "migrate" => e.version \in 2..Current
    BY <1>5, <1>6, <2>1 DEF Current
  <2>3. QED
    BY <1>7, <2>1, <2>2
<1>13. pc = "fresh" => origin.version = None
  BY DEF IInv, Building
<1>14. Searchable(work)'
  BY <1>1, <1>2, <1>6 DEF Searchable
<1>15. Building'
  BY <1>1, <1>2, <1>10, <1>11, <1>12, <1>13, <1>14 DEF Building
<1>16. QED
  BY <1>1, <1>2, <1>4, <1>6, <1>8, <1>9, <1>15 DEF IInv, AtRest, Ended, Repairing, Parity, Rebuilding

\* A statement of the repair of the objects that are no tables.
LEMMA InvRepair ==
    ASSUME IInv, Execute, pc = "repair"
    PROVE  IInv' /\ Better(db, db')
<1> DEFINE h == Head(todo)
           t == Tail(todo)
           e == Effect(h, work)
<1>1. /\ todo # <<>> /\ todo \in Seq(Statements) /\ open \in BOOLEAN /\ (~open => work = db) /\ held = None
      /\ db \in Database /\ work \in Database /\ origin \in Database /\ origin \in Legacies
      /\ Good(db, origin) /\ Good(work, origin) /\ Supported(origin.version) /\ Better(db, work)
      /\ work.version = Current /\ CoreTables \subseteq work.objects
  <2>1. pc \notin Ended
    BY DEF Ended
  <2>2. QED
    BY <2>1, Running DEF IInv, TypeOK, Execute, Repairing
<1>2. /\ work' = e /\ todo' = t /\ pc' = pc /\ held' = held /\ origin' = origin /\ opens' = opens /\ deaths' = deaths
      /\ open' = (open \/ Opens(h)) /\ db' = IF open' THEN db ELSE work'
  BY DEF Execute
<1>3. /\ h = todo[1] /\ h \in Statements /\ 1 \in 1..Len(todo)
      /\ t \in Seq(Statements) /\ Len(t) \in Nat /\ (t = <<>> <=> Len(todo) = 1)
      /\ \A i \in 1..Len(t) : i + 1 \in 1..Len(todo) /\ t[i] = todo[i + 1]
      /\ \A x : Lists(todo, x) /\ x # h => Lists(t, x)
  BY <1>1, TailIs, TailLists
<1> HIDE DEF h, t
<1>4. /\ \A i \in 1..Len(todo) :
            \/ todo[i].op = "create" /\ todo[i].on \in Others
            \/ todo[i].op = "rebuild" /\ todo[i].on \in Fts
      /\ \A i, j \in 1..Len(todo) : i < j /\ todo[i].op = "rebuild" => todo[j].op = "rebuild"
      /\ \A o \in Others : o \in work.objects \/ Lists(todo, Statement("create", o))
      /\ deaths = 0 => \A o \in Fts :
            o \in work.stale \/ o \notin work.objects => Lists(todo, Statement("rebuild", o))
  BY DEF IInv, Repairing
<1>5. \A op, o : Statement(op, o).op = op /\ Statement(op, o).on = o
  BY DEF Statement
<1>6. h = Statement(h.op, h.on)
  BY <1>3 DEF Statement, Statements
<1>7. \/ h.op = "create" /\ h.on \in Others
      \/ h.op = "rebuild" /\ h.on \in Fts
  BY <1>3, <1>4
<1>8. Others \subseteq Expected /\ Fts \subseteq Others /\ \A o \in Others : o \notin Object("table", Tables)
  BY DEF Others, Expected, Indexes, Fts, Triggers, Views, Object
<1>9. h.op = "create" =>
        /\ e \in Database /\ Good(e, origin) /\ Better(work, e) /\ e.version = Current
        /\ e.objects = work.objects \cup {h.on} /\ e.stale \subseteq work.stale \cup {h.on}
        /\ h.on \in work.objects => e.stale = work.stale
  <2> SUFFICES ASSUME h.op = "create"
               PROVE  /\ e \in Database /\ Good(e, origin) /\ Better(work, e) /\ e.version = Current
                      /\ e.objects = work.objects \cup {h.on} /\ e.stale \subseteq work.stale \cup {h.on}
                      /\ h.on \in work.objects => e.stale = work.stale
    OBVIOUS
  <2>1. e = Create(h.on, work) /\ h.on \in Expected \cup {Score} /\ h.on \notin Object("table", Tables)
    BY <1>7, <1>8 DEF Effect
  <2>2. Good(e, origin) /\ Better(work, e)
    BY <1>1, <2>1, CreateKeeps
  <2> HIDE DEF e
  <2>3. QED
    BY <1>1, <2>1, <2>2, CreateIs
<1>10. h.op = "rebuild" =>
        /\ e \in Database /\ Good(e, origin) /\ Better(work, e) /\ e.version = Current
        /\ e.objects = work.objects /\ e.stale = work.stale \ {h.on}
  <2> SUFFICES ASSUME h.op = "rebuild"
               PROVE  /\ e \in Database /\ Good(e, origin) /\ Better(work, e) /\ e.version = Current
                      /\ e.objects = work.objects /\ e.stale = work.stale \ {h.on}
    OBVIOUS
  <2>1. e = [work EXCEPT !.stale = @ \ {h.on}]
    BY DEF Effect
  <2>2. /\ e \in Database /\ Good(e, origin) /\ Better(work, e)
        /\ e.stale = work.stale \ {h.on} /\ e.objects = work.objects /\ e.version = work.version
    <3> HIDE DEF e
    <3>1. QED BY <1>1, <2>1, RebuildKeeps, Zenon
  <2> HIDE DEF e
  <2>3. QED
    BY <1>1, <2>2
<1> HIDE DEF e
<1>11. e \in Database /\ Good(e, origin) /\ Better(work, e) /\ e.version = Current /\ work.objects \subseteq e.objects
  BY <1>7, <1>9, <1>10
<1>12. open' \in BOOLEAN
  BY <1>2, Zenon
<1>13. db' \in Database /\ Good(db', origin) /\ Better(db, db') /\ Better(db', work') /\ (~open' => work' = db')
  <2>1. Better(e, e) /\ Better(db, db) /\ Better(db, e)
    BY <1>1, <1>11, BetterSelf, BetterTrans
  <2>2. QED
    BY <1>1, <1>2, <1>11, <2>1
<1>14. TypeOK'
  BY <1>1, <1>2, <1>11, <1>12, <1>13 DEF IInv, TypeOK
<1>15. \A o \in Others : o \in e.objects \/ Lists(t, Statement("create", o))
  <2> TAKE o \in Others
  <2>1. CASE o \in work.objects
    BY <1>11, <2>1
  <2>2. CASE Lists(todo, Statement("create", o)) /\ Statement("create", o) # h
    BY <1>3, <2>2
  <2>3. CASE Statement("create", o) = h
    BY <1>5, <1>9, <2>3
  <2>4. QED
    BY <1>4, <2>1, <2>2, <2>3
<1>16. ASSUME deaths = 0, NEW o \in Fts, o \in e.stale \/ o \notin e.objects
       PROVE  Lists(t, Statement("rebuild", o))
  <2>1. CASE h.op = "create"
    <3>1. o \in work.stale \/ o \notin work.objects
      BY <1>9, <1>11, <1>16, <2>1
    <3>2. Statement("rebuild", o) # h
      BY <1>5, <2>1
    <3>3. QED
      BY <1>3, <1>4, <1>16, <3>1, <3>2
  <2>2. CASE h.op = "rebuild"
    <3>1. o \in e.objects
      <4>1. o \in Others /\ Statement("create", o) # h
        BY <1>5, <1>8, <2>2
      <4>2. ASSUME Lists(t, Statement("create", o)) PROVE FALSE
        <5>1. PICK i \in 1..Len(t) : t[i] = Statement("create", o)
          BY <4>2 DEF Lists
        <5>2. i + 1 \in 1..Len(todo) /\ todo[i + 1].op = "create" /\ 1 < i + 1
          BY <1>3, <1>5, <5>1
        <5>3. todo[i + 1].op = "rebuild"
          BY <1>3, <1>4, <2>2, <5>2
        <5>4. QED
          BY <5>2, <5>3
      <4>3. QED
        BY <1>15, <4>1, <4>2
    <3>2. o \in work.stale /\ o # h.on
      BY <1>10, <1>16, <2>2, <3>1
    <3>3. Statement("rebuild", o) # h
      BY <1>5, <3>2
    <3>4. QED
      BY <1>3, <1>4, <1>16, <3>2, <3>3
  <2>3. QED
    BY <1>7, <2>1, <2>2
<1>17. /\ \A i \in 1..Len(t) :
            \/ t[i].op = "create" /\ t[i].on \in Others
            \/ t[i].op = "rebuild" /\ t[i].on \in Fts
       /\ \A i, j \in 1..Len(t) : i < j /\ t[i].op = "rebuild" => t[j].op = "rebuild"
  <2>1. \A i \in 1..Len(t) :
            \/ t[i].op = "create" /\ t[i].on \in Others
            \/ t[i].op = "rebuild" /\ t[i].on \in Fts
    BY <1>3, <1>4
  <2>2. ASSUME NEW i \in 1..Len(t), NEW j \in 1..Len(t), i < j, t[i].op = "rebuild"
        PROVE  t[j].op = "rebuild"
    <3>1. /\ i + 1 \in 1..Len(todo) /\ t[i] = todo[i + 1] /\ j + 1 \in 1..Len(todo) /\ t[j] = todo[j + 1]
          /\ i + 1 < j + 1
      BY <1>3, <2>2
    <3>2. QED
      BY <1>4, <2>2, <3>1
  <2>3. QED
    BY <2>1, <2>2
<1>18. CoreTables \subseteq e.objects
  BY <1>1, <1>11
<1>19. Repairing'
  BY <1>1, <1>2, <1>11, <1>15, <1>16, <1>17, <1>18 DEF Repairing
<1>20. QED
  BY <1>1, <1>2, <1>3, <1>11, <1>13, <1>14, <1>19 DEF IInv, AtRest, Ended, Building, Parity, Rebuilding

\* A statement of the rebuilding of a table.
LEMMA InvRebuild ==
    ASSUME IInv, Execute, pc = "table"
    PROVE  IInv' /\ Better(db, db')
<1> DEFINE k == held.table
<1>1. /\ todo # <<>> /\ todo \in Seq(Statements) /\ open /\ db \in Database /\ k \in Tables
      /\ held.objects = Attached(k) \cap db.objects
  <2>1. held = [table |-> k, objects |-> Attached(k) \cap db.objects] /\ k \in Tables /\ open
    BY DEF IInv, Rebuilding
  <2>2. held.objects = Attached(k) \cap db.objects
    BY <2>1
  <2>3. QED
    BY <2>1, <2>2 DEF IInv, TypeOK, Execute
<1>2. PICK n \in 0..6 : todo = SubSeq(Rebuild(k), n + 1, 6) /\ work = Stage(n, k, db)
  BY DEF IInv, Rebuilding
<1>3. n \in 0..5 /\ Head(todo) = Rebuild(k)[n + 1] /\ Tail(todo) = SubSeq(Rebuild(k), (n + 1) + 1, 6)
  <2>1. n # 6
    BY <1>1, <1>2, RebuildRuns
  <2>2. n < 6 /\ n \in 0..5
    BY <2>1
  <2>3. QED
    BY <1>2, <2>2, RebuildRuns
<1>4. Effect(Head(todo), work) = Stage(n + 1, k, db)
  BY <1>1, <1>2, <1>3, StageSteps
<1>5. /\ work' = Stage(n + 1, k, db) /\ todo' = SubSeq(Rebuild(k), (n + 1) + 1, 6) /\ open' = TRUE /\ db' = db
      /\ pc' = pc /\ held' = held /\ origin' = origin /\ opens' = opens /\ deaths' = deaths
  <2>1. open' = TRUE
    BY <1>1, Zenon DEF Execute
  <2>2. QED
    BY <1>3, <1>4, <2>1 DEF Execute
<1>6. work' \in Database /\ n + 1 \in 0..6
  <2>1. n + 1 \in 0..6
    BY <1>3
  <2>2. QED
    BY <1>1, <1>5, <2>1, StagesAre
<1>7. todo' \in Seq(Statements)
  <2>1. Tail(todo) \in Seq(Statements)
    BY <1>1, TailIs
  <2>2. QED
    BY <1>3, <1>5, <2>1
<1>8. TypeOK'
  <2>1. open' \in BOOLEAN
    BY <1>5, Zenon
  <2>2. QED
    BY <1>5, <1>6, <2>1 DEF IInv, TypeOK
<1>9. Rebuilding'
  BY <1>5, <1>6 DEF IInv, Rebuilding, Searchable
<1>10. QED
  BY <1>1, <1>5, <1>7, <1>8, <1>9, BetterSelf DEF IInv, AtRest, Ended, Building, Repairing, Parity

\* The tables that are expected are there after a migration.
LEMMA CoreIsThere ==
    ASSUME NEW d \in Database, NEW g \in Legacies, Good(d, g), g.version \in 2..5, d.version = Current
    PROVE  CoreTables \subseteq d.objects /\ Cells \subseteq d.columns
<1>1. /\ Object("table", Tables) \subseteq g.objects
      /\ g.version \in 3..Current => <<"table", "versions">> \in g.objects /\ Tables \X ToSet(Columns) \subseteq g.columns
      /\ g.version \in 4..Current => <<"table", "atoms">> \in g.objects
      /\ g.version \in 5..Current => <<"table", "mach">> \in g.objects
  BY Found DEF Released, Current
<1>2. g.objects \subseteq d.objects /\ g.columns \subseteq d.columns
  BY DEF Good, Better
<1>3. ASSUME NEW m \in 3..Current, g.version < m, NEW o \in Added(m)
      PROVE  Has(d, o)
  <2>1. g.version # None
    BY VersionOrder
  <2>2. o \in Needs(Current, g)
    BY <1>3, <2>1 DEF Needs
  <2>3. QED
    BY <2>2 DEF Good, Tells, Current
<1>4. d.objects \subseteq Expected \cup {Score} /\ d.columns \subseteq Cells
  BY DEF Database, Cells
<1>5. \A o \in Expected : Has(d, o) => o \in d.objects
  BY <1>4, Apart DEF Has
<1>6. \A o \in Cells : Has(d, o) => o \in d.columns
  BY <1>4, Apart DEF Has
<1>7. /\ <<"table", "versions">> \in Expected /\ <<"table", "atoms">> \in Expected
      /\ <<"table", "mach">> \in Expected /\ <<"table", "match">> \in Expected
  BY DEF Expected, CoreTables, Object, Late
<1>8. 3 \in 3..Current /\ 4 \in 3..Current /\ 5 \in 3..Current /\ 6 \in 3..Current
  BY DEF Current
<1>9. Cells \subseteq d.columns /\ <<"table", "versions">> \in d.objects
  <2>1. CASE g.version = 2
    <3>1. Cells \subseteq Added(3) /\ <<"table", "versions">> \in Added(3)
      BY <1>8, MakesAre
    <3>2. g.version < 3
      BY <2>1
    <3>3. QED
      BY <1>3, <1>5, <1>6, <1>7, <1>8, <3>1, <3>2
  <2>2. CASE g.version # 2
    <3>1. g.version \in 3..Current
      BY <2>2 DEF Current
    <3>2. QED
      BY <1>1, <1>2, <3>1 DEF Cells
  <2>3. QED
    BY <2>1, <2>2
<1>10. <<"table", "atoms">> \in d.objects
  <2>1. CASE g.version < 4
    <3>1. <<"table", "atoms">> \in Added(4)
      BY <1>8, MakesAre
    <3>2. QED
      BY <1>3, <1>5, <1>7, <1>8, <2>1, <3>1
  <2>2. CASE ~(g.version < 4)
    <3>1. g.version \in 4..Current
      BY <2>2 DEF Current
    <3>2. QED
      BY <1>1, <1>2, <3>1
  <2>3. QED
    BY <2>1, <2>2
<1>11. <<"table", "mach">> \in d.objects
  <2>1. CASE g.version < 5
    <3>1. <<"table", "mach">> \in Added(5)
      BY <1>8, MakesAre
    <3>2. QED
      BY <1>3, <1>5, <1>7, <1>8, <2>1, <3>1
  <2>2. CASE ~(g.version < 5)
    <3>1. g.version \in 5..Current
      BY <2>2 DEF Current
    <3>2. QED
      BY <1>1, <1>2, <3>1
  <2>3. QED
    BY <2>1, <2>2
<1>12. <<"table", "match">> \in d.objects
  <2>1. <<"table", "match">> \in Added(6) /\ g.version < 6
    BY <1>8, MakesAre
  <2>2. QED
    BY <1>3, <1>5, <1>7, <1>8, <2>1
<1>13. CoreTables = Object("table", Tables) \cup {<<"table", "atoms">>, <<"table", "match">>, <<"table", "mach">>, <<"table", "versions">>}
  BY DEF CoreTables, Object, Late
<1>14. QED
  BY <1>1, <1>2, <1>9, <1>10, <1>11, <1>12, <1>13

LEMMA InvEndScript ==
    ASSUME IInv, EndScript
    PROVE  IInv' /\ Better(db, db')
<1>1. /\ todo = <<>> /\ pc \in {"fresh", "migrate", "repair"} /\ held = None
      /\ db \in Database /\ work \in Database /\ origin \in Database /\ origin \in Legacies
      /\ Good(db, origin) /\ Good(work, origin) /\ Better(db, work) /\ work.version = Current
  BY DEF IInv, TypeOK, EndScript, Building, Repairing
<1>2. /\ db' = db /\ work' = work /\ open' = open /\ held' = held /\ origin' = origin /\ opens' = opens /\ deaths' = deaths
  BY DEF EndScript
<1>3. Better(db, db') /\ Good(db, origin)' /\ Good(work, origin)' /\ Better(db, work)'
  BY <1>1, <1>2, BetterSelf
<1>4. CASE pc = "migrate" /\ work.whole = Tables
  <2> DEFINE M == SetToSeq(MissingIndexes(work))
             r == [i \in DOMAIN M |-> Statement("rebuild", M[i])]
             s == NonTables \o r
  <2>1. pc' = "repair" /\ todo' = s
    BY <1>4 DEF EndScript
  <2>2. IsFiniteSet(MissingIndexes(work)) /\ MissingIndexes(work) \subseteq Fts
    BY ExpectedFinite, FS_Subset DEF MissingIndexes
  <2>3. M \in Seq(MissingIndexes(work)) /\ \A o \in MissingIndexes(work) : \E i \in DOMAIN M : M[i] = o
    BY <2>2, Listed
  <2>4. M \in Seq(Fts) /\ Len(M) \in Nat /\ DOMAIN M = 1..Len(M) /\ \A i \in 1..Len(M) : M[i] \in Fts
    <3> HIDE DEF M
    <3>1. M \in Seq(Fts)
      BY <2>2, <2>3, SeqMonotonic
    <3>2. QED
      BY <3>1
  <2> HIDE DEF M
  <2>5. \A o \in Fts : Statement("rebuild", o) \in Statements
    BY DEF Statement, Statements, Ops, Expected
  <2>6. /\ r \in Seq(Statements) /\ Len(r) = Len(M)
        /\ \A i \in 1..Len(M) : r[i] = Statement("rebuild", M[i])
    BY <2>4, <2>5
  <2> HIDE DEF r
  <2>7. \A op, o : Statement(op, o).op = op /\ Statement(op, o).on = o
    BY DEF Statement
  <2>8. \A i \in 1..Len(r) : r[i].op = "rebuild" /\ r[i].on \in Fts
    BY <2>4, <2>6, <2>7
  <2>9. \A o \in MissingIndexes(work) : Lists(r, Statement("rebuild", o))
    BY <2>3, <2>4, <2>6 DEF Lists
  <2>10. /\ NonTables \in Seq(Statements) /\ Len(NonTables) \in Nat
         /\ \A i \in 1..Len(NonTables) : NonTables[i].op = "create" /\ NonTables[i].on \in Others
         /\ \A o \in Others : Lists(NonTables, Statement("create", o))
    BY NonTablesAre DEF Lists
  <2>11. /\ s \in Seq(Statements) /\ Len(s) = Len(NonTables) + Len(r)
         /\ \A x : Lists(NonTables, x) \/ Lists(r, x) => Lists(s, x)
    BY <2>6, <2>10, Joined
  <2>12. \A i \in 1..Len(s) : s[i] = IF i <= Len(NonTables) THEN NonTables[i] ELSE r[i - Len(NonTables)]
    BY <2>6, <2>10, <2>11, ConcatProperties
  <2>13. \A i \in 1..Len(s) :
            IF i <= Len(NonTables) THEN i \in 1..Len(NonTables) ELSE i - Len(NonTables) \in 1..Len(r)
    BY <2>6, <2>10, <2>11
  <2> HIDE DEF s
  <2>14. \A i \in 1..Len(s) :
            IF i <= Len(NonTables) THEN s[i].op = "create" /\ s[i].on \in Others
            ELSE s[i].op = "rebuild" /\ s[i].on \in Fts
    BY <2>8, <2>10, <2>12, <2>13
  <2>15. \A i, j \in 1..Len(s) : i < j /\ s[i].op = "rebuild" => s[j].op = "rebuild"
    <3> SUFFICES ASSUME NEW i \in 1..Len(s), NEW j \in 1..Len(s), i < j, s[i].op = "rebuild"
                 PROVE  s[j].op = "rebuild"
      OBVIOUS
    <3>1. ~(i <= Len(NonTables))
      BY <2>14
    <3>2. ~(j <= Len(NonTables))
      BY <2>10, <3>1
    <3>3. QED
      BY <2>14, <3>2
  <2>16. CoreTables \subseteq work.objects
    <3>1. origin.version \in 2..5
      BY <1>4 DEF IInv, Building
    <3>2. QED
      BY <1>1, <3>1, CoreIsThere
  <2>17. ASSUME deaths = 0, NEW o \in Fts, o \in work.stale \/ o \notin work.objects
         PROVE  Lists(s, Statement("rebuild", o))
    <3>1. work.stale = {}
      BY <1>4, <2>17 DEF IInv, Building, Searchable
    <3>2. o \in MissingIndexes(work)
      BY <2>17, <3>1 DEF MissingIndexes
    <3>3. QED
      BY <2>9, <2>11, <3>2
  <2>18. Repairing'
    BY <1>1, <1>2, <2>1, <2>10, <2>11, <2>14, <2>15, <2>16, <2>17 DEF Repairing
  <2>19. TypeOK'
    BY <1>2, <2>1 DEF IInv, TypeOK
  <2>20. QED
    BY <1>1, <1>2, <1>3, <2>1, <2>11, <2>18, <2>19 DEF IInv, AtRest, Ended, Building, Parity, Rebuilding
<1>5. CASE ~(pc = "migrate" /\ work.whole = Tables)
  <2>1. pc' = "parity" /\ todo' = <<>>
    BY <1>1, <1>5 DEF EndScript
  <2>2. Full(work, origin) /\ Searchable(work)
    <3>1. CASE pc = "fresh"
      <4>1. origin.version = None /\ Searchable(work)
        BY <3>1 DEF IInv, Building
      <4>2. \A o \in Expected : Has(work, o)
        BY <1>1, <4>1 DEF Good, Tells, Needs, Current
      <4>3. Expected \subseteq work.objects
        <5>1. work.columns \subseteq Cells
          BY <1>1 DEF Database, Cells
        <5>2. QED
          BY <4>2, <5>1, Apart DEF Has
      <4>4. QED
        BY <1>1, <4>1, <4>3 DEF Full
    <3>2. CASE pc = "migrate"
      <4>1. origin.version # None /\ Searchable(work)
        BY <3>2, VersionOrder DEF IInv, Building
      <4>2. origin.whole # Tables
        <5>1. origin.whole \subseteq work.whole /\ work.whole \subseteq Tables
          BY <1>1 DEF Good, Better, Database
        <5>2. QED
          BY <1>5, <3>2, <5>1
      <4>3. QED
        BY <1>1, <4>1, <4>2 DEF Full
    <3>3. CASE pc = "repair"
      <4>1. /\ CoreTables \subseteq work.objects
            /\ \A o \in Others : o \in work.objects \/ Lists(todo, Statement("create", o))
            /\ deaths = 0 => \A o \in Fts :
                  o \in work.stale \/ o \notin work.objects => Lists(todo, Statement("rebuild", o))
        BY <3>3 DEF IInv, Repairing
      <4>2. \A x : ~Lists(todo, x)
        BY <1>1 DEF Lists
      <4>3. Expected \subseteq work.objects
        BY <4>1, <4>2 DEF Expected, Others
      <4>4. deaths = 0 => work.stale = {}
        BY <1>1, <4>1, <4>2 DEF Database
      <4>5. QED
        BY <1>1, <4>3, <4>4 DEF Full, Searchable
    <3>4. QED
      BY <1>1, <3>1, <3>2, <3>3
  <2>3. Parity'
    BY <1>1, <1>2, <2>1, <2>2 DEF Parity, Searchable
  <2>4. TypeOK'
    BY <1>2, <2>1 DEF IInv, TypeOK
  <2>5. QED
    BY <1>1, <1>2, <1>3, <2>1, <2>3, <2>4, EmptySeq DEF IInv, AtRest, Ended, Building, Repairing, Rebuilding
<1>6. QED
  BY <1>4, <1>5

LEMMA InvStartTable ==
    ASSUME IInv, StartTable
    PROVE  IInv' /\ Better(db, db')
<1>1. /\ pc \in {"parity", "tables"} /\ db \in Database /\ work \in Database
      /\ origin \in Database /\ origin \in Legacies
      /\ Good(work, origin) /\ Better(db, work) /\ Full(work, origin) /\ Searchable(work)
  BY DEF IInv, TypeOK, StartTable, Parity
<1>2. PICK t \in Tables : todo' = Rebuild(t) /\ held' = [table |-> t, objects |-> Attached(t) \cap work.objects]
  BY DEF StartTable
<1>3. /\ db' = work /\ open' = TRUE /\ pc' = "table" /\ work' = work /\ origin' = origin
      /\ opens' = opens /\ deaths' = deaths
  BY DEF StartTable
<1>4. todo' \in Seq(Statements)
  <2>1. /\ Statement("detach", t) \in Statements /\ Statement("rename", t) \in Statements
        /\ Statement("create", <<"table", t>>) \in Statements /\ Statement("copy", t) \in Statements
        /\ Statement("drop", t) \in Statements /\ Statement("attach", t) \in Statements
    BY DEF Statement, Statements, Ops, Expected, CoreTables, Object
  <2>2. QED
    BY <1>2, <2>1 DEF Rebuild
<1>5. held'.table = t /\ held' \in [table : Tables, objects : SUBSET Expected]
  <2>1. Attached(t) \cap work.objects \subseteq Expected
    BY <1>1 DEF Attached, Database, Score
  <2>2. QED
    BY <1>2, <2>1
<1>6. TypeOK'
  <2>1. open' \in BOOLEAN
    BY <1>3, Zenon
  <2>2. QED
    BY <1>1, <1>3, <1>5, <2>1 DEF IInv, TypeOK
<1>7. Rebuilding'
  <2>1. /\ todo' = SubSeq(Rebuild(t), 0 + 1, 6) /\ work' = Stage(0, t, db') /\ 0 \in 0..6
    <3>1. Rebuild(t) = SubSeq(Rebuild(t), 0 + 1, 6)
      BY RebuildRuns
    <3>2. QED
      BY <1>2, <1>3, <3>1 DEF Stage
  <2>2. Full(db, origin)' /\ Searchable(db)' /\ open'
    BY <1>1, <1>3 DEF Full, Searchable
  <2>3. held'.table = t /\ held' = [table |-> t, objects |-> Attached(t) \cap db'.objects]
    BY <1>2, <1>3, <1>5
  <2>4. QED
    BY <1>2, <2>1, <2>2, <2>3 DEF Rebuilding
<1>8. QED
  BY <1>1, <1>3, <1>4, <1>6, <1>7 DEF IInv, AtRest, Ended, Building, Repairing, Parity

LEMMA InvEndTable ==
    ASSUME IInv, EndTable
    PROVE  IInv' /\ Better(db, db')
<1> DEFINE k == held.table
           e == Stage(6, k, db)
<1>1. /\ pc = "table" /\ todo = <<>> /\ db \in Database /\ origin \in Database /\ origin \in Legacies
      /\ k \in Tables /\ Good(db, origin) /\ Full(db, origin) /\ Searchable(db)
  BY DEF IInv, TypeOK, EndTable, Rebuilding
<1>2. PICK n \in 0..6 : todo = SubSeq(Rebuild(k), n + 1, 6) /\ work = Stage(n, k, db)
  BY <1>1 DEF IInv, Rebuilding
<1>3. n = 6 /\ work = e
  BY <1>1, <1>2, RebuildRuns
<1>4. Supported(origin.version)
  BY <1>1, Running DEF Ended
<1>5. /\ open' = FALSE /\ held' = None /\ todo' = todo /\ origin' = origin /\ opens' = opens /\ deaths' = deaths
  BY DEF EndTable
<1>6. e.dangling = db.dangling
  BY <1>1, StagesAre
<1>7. open' \in BOOLEAN
  BY <1>5, Zenon
<1>8. CASE k \in work.dangling
  <2>1. db' = db /\ work' = db /\ pc' = "failed"
    BY <1>8 DEF EndTable
  <2>2. TypeOK'
    BY <1>1, <1>5, <1>7, <2>1 DEF IInv, TypeOK, Ended
  <2>3. Better(db, db)
    BY <1>1, BetterSelf
  <2>4. Full(db, origin)' /\ Searchable(db)'
    BY <1>1, <1>5, <2>1 DEF Full, Searchable
  <2>5. AtRest'
    BY <1>1, <1>5, <2>1, <2>4 DEF AtRest
  <2>6. QED
    BY <1>1, <1>5, <2>1, <2>2, <2>3, <2>5, EmptySeq DEF IInv, Building, Repairing, Parity, Rebuilding
<1>9. CASE k \notin work.dangling
  <2>1. db' = e /\ work' = e /\ pc' = "tables"
    BY <1>3, <1>9 DEF EndTable
  <2>2. k \notin db.dangling
    BY <1>3, <1>6, <1>9
  <2>3. e \in Database /\ Good(e, origin) /\ Better(db, e) /\ e.stale = db.stale /\ e.version = db.version
    BY <1>1, <1>4, <2>2, RelinkKeeps
  <2> HIDE DEF e
  <2>4. TypeOK'
    BY <1>1, <1>5, <1>7, <2>1, <2>3 DEF IInv, TypeOK, Ended
  <2>5. Full(e, origin) /\ Searchable(work)'
    BY <1>1, <1>5, <2>1, <2>3 DEF Full, Searchable, Better
  <2>6. Parity'
    BY <1>1, <1>5, <2>1, <2>5 DEF Parity
  <2>7. QED
    BY <1>1, <1>5, <2>1, <2>3, <2>4, <2>6, BetterSelf, EmptySeq DEF IInv, AtRest, Ended, Building, Repairing, Rebuilding
<1>10. QED
  BY <1>8, <1>9

LEMMA InvFinish ==
    ASSUME IInv, Finish
    PROVE  IInv' /\ Better(db, db')
<1>1. /\ pc \in {"parity", "tables"} /\ db \in Database /\ work \in Database
      /\ origin \in Database /\ origin \in Legacies /\ todo = <<>> /\ held = None
      /\ Good(db, origin) /\ Good(work, origin) /\ Better(db, work) /\ Full(work, origin) /\ Searchable(work)
      /\ \A t \in Tables : ~NeedsRepair(t, work)
      /\ pc = "tables" => work = db
  BY DEF IInv, TypeOK, Finish, Parity
<1>2. Supported(origin.version)
  BY <1>1, Running DEF Ended
<1>3. /\ open' = FALSE /\ held' = held /\ todo' = todo /\ origin' = origin /\ opens' = opens /\ deaths' = deaths
  BY DEF Finish
<1>4. open' \in BOOLEAN
  BY <1>3, Zenon
<1>5. CASE pc = "tables" /\ work.dangling # {}
  <2>1. pc' = "failed" /\ db' = db /\ work' = db /\ db = work
    BY <1>1, <1>5 DEF Finish
  <2>2. TypeOK'
    BY <1>1, <1>3, <1>4, <2>1 DEF IInv, TypeOK, Ended
  <2>3. Full(db, origin)' /\ Searchable(db)'
    BY <1>1, <1>3, <2>1 DEF Full, Searchable
  <2>4. AtRest'
    BY <1>1, <1>3, <2>1, <2>3 DEF AtRest
  <2>5. QED
    BY <1>1, <1>3, <2>1, <2>2, <2>4, BetterSelf, EmptySeq DEF IInv, Building, Repairing, Parity, Rebuilding
<1>6. CASE ~(pc = "tables" /\ work.dangling # {})
  <2>1. pc' = "opened" /\ db' = work /\ work' = work
    BY <1>6 DEF Finish
  <2>2. TypeOK'
    BY <1>1, <1>3, <1>4, <2>1 DEF IInv, TypeOK, Ended
  <2>3. Full(db, origin)' /\ Searchable(db)'
    BY <1>1, <1>3, <2>1 DEF Full, Searchable
  <2>4. work.linked = Tables
    <3>1. Provenance \in ToSet(Columns)
      BY SchemaAssumption DEF Provenance, ToSet
    <3>2. work.linked \subseteq Tables
      BY <1>1 DEF Database
    <3>3. Cells \subseteq work.columns \/ origin.version = None
      <4>1. CASE origin.version \in 2..5
        BY <1>1, <4>1, CoreIsThere DEF Full
      <4>2. CASE origin.version = Current
        BY <1>1, <4>2, Found DEF Released, Good, Better, Cells, Current
      <4>3. QED
        BY <1>2, <4>1, <4>2 DEF Supported, Current
    <3>4. CASE Cells \subseteq work.columns
      <4>1. \A t \in Tables : <<t, Provenance>> \in work.columns
        BY <3>1, <3>4 DEF Cells
      <4>2. QED
        BY <1>1, <3>2, <4>1 DEF NeedsRepair
    <3>5. CASE origin.version = None
      <4>1. \A t \in Tables : <<"table", t>> \in work.objects
        BY <1>1, <3>5 DEF Full, Expected, CoreTables, Object
      <4>2. QED
        BY <1>1, <3>2, <3>5, <4>1 DEF Good, Made
    <3>6. QED
      BY <3>3, <3>4, <3>5
  <2>5. AtRest'
    BY <1>1, <1>3, <2>1, <2>3, <2>4 DEF AtRest
  <2>6. QED
    BY <1>1, <1>3, <2>1, <2>2, <2>5, BetterSelf, EmptySeq DEF IInv, Building, Repairing, Parity, Rebuilding
<1>7. QED
  BY <1>5, <1>6

LEMMA InvDie ==
    ASSUME IInv, Die
    PROVE  IInv' /\ Better(db, db')
<1>1. db \in Database /\ origin \in Legacies /\ Good(db, origin) /\ deaths \in 0..MaxDeaths /\ deaths < MaxDeaths
  BY DEF IInv, TypeOK, Die
<1>2. /\ deaths' = deaths + 1 /\ pc' = "closed" /\ work' = db /\ open' = FALSE /\ todo' = <<>> /\ held' = None
      /\ db' = db /\ origin' = origin /\ opens' = opens
  BY DEF Die
<1>3. deaths' \in 0..MaxDeaths /\ deaths' # 0
  BY <1>1, <1>2, SchemaAssumption
<1>4. open' \in BOOLEAN
  BY <1>2, Zenon
<1>5. TypeOK'
  BY <1>1, <1>2, <1>3, <1>4 DEF IInv, TypeOK, Ended
<1>6. AtRest'
  BY <1>2, <1>3 DEF AtRest, Searchable
<1>7. QED
  BY <1>1, <1>2, <1>5, <1>6, BetterSelf, EmptySeq DEF IInv, Building, Repairing, Parity, Rebuilding

LEMMA InvStays ==
    ASSUME IInv, UNCHANGED vars
    PROVE  IInv' /\ Better(db, db')
<1>1. /\ db' = db /\ work' = work /\ open' = open /\ pc' = pc /\ todo' = todo /\ held' = held /\ origin' = origin
      /\ opens' = opens /\ deaths' = deaths
  BY DEF vars
<1>2. TypeOK' /\ AtRest'
  BY <1>1 DEF IInv, TypeOK, AtRest, Searchable
<1>3. Building' /\ Repairing'
  BY <1>1 DEF IInv, Building, Repairing, Searchable
<1>4. Parity' /\ Rebuilding'
  BY <1>1 DEF IInv, Parity, Rebuilding, Searchable
<1>5. QED
  BY <1>1, <1>2, <1>3, <1>4, BetterSelf DEF IInv, TypeOK

LEMMA InvNext ==
    ASSUME IInv, [Next]_vars
    PROVE  IInv' /\ Better(db, db')
<1>1. CASE Begin
  BY <1>1, InvBegin
<1>2. CASE Execute
  <2>1. pc \in {"fresh", "migrate"} \/ pc = "repair" \/ pc = "table"
    BY <1>2 DEF Execute
  <2>2. QED
    BY <1>2, <2>1, InvScript, InvRepair, InvRebuild
<1>3. CASE EndScript
  BY <1>3, InvEndScript
<1>4. CASE StartTable
  BY <1>4, InvStartTable
<1>5. CASE EndTable
  BY <1>5, InvEndTable
<1>6. CASE Finish
  BY <1>6, InvFinish
<1>7. CASE Die
  BY <1>7, InvDie
<1>8. CASE Finished \/ UNCHANGED vars
  <2>1. UNCHANGED vars
    BY <1>8 DEF Finished
  <2>2. QED
    BY <2>1, InvStays
<1>9. QED
  BY <1>1, <1>2, <1>3, <1>4, <1>5, <1>6, <1>7, <1>8 DEF Next

LEMMA Invariance == Spec => []IInv
<1>1. Init => IInv
  BY InvInit
<1>2. IInv /\ [Next]_vars => IInv'
  BY InvNext
<1>3. QED
  BY <1>1, <1>2, PTL DEF Spec

-----------------------------------------------------------------------------
(* The theorems.                                                           *)

\* What the stamp says of a database, wherever the attempts on it died.
LEMMA StampIsTrue == IInv => StampTells
<1> SUFFICES ASSUME IInv PROVE StampTells
  OBVIOUS
<1>1. db \in Database /\ origin \in Database /\ Tells(db, origin) /\ Made(db, origin)
  BY DEF IInv, TypeOK, Good
<1>2. ASSUME NEW k \in 3..Current, Reached(k), origin.version \in 0..(k - 1)
      PROVE  Added(k) \subseteq db.objects \cup db.columns
  <2>1. origin.version # None /\ origin.version < k
    BY <1>2, VersionOrder DEF Current
  <2>2. db.version \in 3..Current /\ k \in {j \in 3..db.version : origin.version < j}
    BY <1>2, <2>1 DEF Reached, Current
  <2>3. Added(k) \subseteq Needs(db.version, origin)
    BY <2>1, <2>2 DEF Needs
  <2>4. QED
    BY <1>1, <2>2, <2>3 DEF Tells, Has
<1>3. ASSUME Reached(Current), origin.version = None
      PROVE  Expected \subseteq db.objects /\ db.linked = Tables
  <2>1. db.version \in 3..Current
    BY <1>3 DEF Reached, Current
  <2>2. \A o \in Expected : Has(db, o)
    BY <1>1, <1>3, <2>1 DEF Tells, Needs
  <2>3. db.columns \subseteq Cells /\ db.linked \subseteq Tables
    BY <1>1 DEF Database, Cells
  <2>4. Expected \subseteq db.objects
    BY <2>2, <2>3, Apart DEF Has
  <2>5. \A t \in Tables : <<"table", t>> \in db.objects
    BY <2>4 DEF Expected, CoreTables, Object
  <2>6. QED
    BY <1>1, <1>3, <2>3, <2>4, <2>5 DEF Made
<1>4. QED
  BY <1>2, <1>3 DEF StampTells

\* At every statement the stamp of the database tells what it has, and no table that was
\* rebuilt refers to a row that does not exist.
THEOREM SchemaSafe == Spec => []SchemaInv
<1>1. IInv => SchemaInv
  BY StampIsTrue DEF SchemaInv, IInv, Good, Sound, RebuiltIsSound
<1>2. QED
  BY <1>1, Invariance, PTL

\* A database that initialize_database() returns is current, and complete.
THEOREM Opened == Spec => []OpenedIsCurrent
<1>1. IInv => OpenedIsCurrent
  BY DEF IInv, AtRest, Ended, Full, Searchable, OpenedIsCurrent
<1>2. QED
  BY <1>1, Invariance, PTL

\* An attempt that nothing interrupts leaves no database that the next one refuses.
THEOREM Accepted == Spec => []UnbrokenIsAccepted
<1>1. IInv => UnbrokenIsAccepted
  <2> SUFFICES ASSUME IInv, deaths = 0, origin.whole = Tables, pc = "refused"
               PROVE  Refusable(origin)
    BY DEF UnbrokenIsAccepted, OwnIsAccepted
  <2>1. Refusable(db) /\ (db = origin \/ Full(db, origin))
    BY DEF IInv, AtRest, Ended
  <2>2. ~Full(db, origin)
    BY <2>1 DEF Full, Refusable, Validated, Supported, Current
  <2>3. QED
    BY <2>1, <2>2
<1>2. QED
  BY <1>1, Invariance, PTL

\* No attempt takes anything from a database that is committed, in any of its steps.
THEOREM NothingLost == Spec => NothingIsLost
<1>1. ASSUME IInv, [Next]_vars
      PROVE  /\ db.objects \subseteq db'.objects /\ db.columns \subseteq db'.columns
             /\ db.linked \subseteq db'.linked /\ db.whole \subseteq db'.whole
             /\ db.rows = db'.rows
             /\ db.version \in Nat => db.version <= db'.version
  <2>1. Better(db, db') /\ db \in Database
    BY <1>1, InvNext DEF IInv, TypeOK
  <2>2. QED
    BY <2>1, VersionOrder DEF Better
<1>2. QED
  BY <1>1, Invariance, PTL DEF Spec, NothingIsLost

=============================================================================
