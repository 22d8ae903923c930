--------------------------- MODULE MigrationProofs ---------------------------
(***************************************************************************)
(* Migration's safety properties, for every value of the constants: any    *)
(* number of model versions that add and remove any columns, any batch     *)
(* size, any number of events and faults, every dialect and mode.          *)
(*                                                                         *)
(* BufferFits and NothingDropped follow from what the recorded version     *)
(* says about the table (TableInv): while events are read the table has    *)
(* the columns of that version, and where no version is recorded there is  *)
(* no table.  In the middle of a migration neither holds; there DdlInv     *)
(* says what the statements still to be executed will make of the table.   *)
(* ViewInv does the same for the views.  HistoryTrue follows from HistInv: *)
(* a line of the history is its event, whatever was written before it.     *)
(*                                                                         *)
(* RowCurrent is the second part.  The row is what a batch, a fold over    *)
(* its statements, makes of the row before, and after a lost answer the    *)
(* same statements are executed again over a row that is ahead of them;    *)
(* RowInv says that the events still to come put it right (Converges).     *)
(***************************************************************************)
EXTENDS Migration, SequenceTheorems, FiniteSetTheorems, NaturalsInduction,
        WellFoundedInduction, TLAPS

-----------------------------------------------------------------------------
(* The inductive invariant, without the row. *)

(* The version the DDL brings the table to. *)
Goal == IF goal = "boot" THEN mine ELSE log[cur].ver

(* The worker has an event in hand. *)
Handling == pc = "event" \/ (pc = "ddl" /\ goal # "boot")

(* A statement that starts the table anew, one that makes it, and one that     *)
(* touches view v.                                                             *)
Anew(d) == d.k \in {"drop", "create", "history"}
Makes(d) == d.k \in {"create", "history"}
Touches(d, v) == d.k = "history" \/ (d.k \in {"view", "drop_view"} /\ d.view = v)

(* Types, without the row (see RowType). *)
FlagType ==
  /\ RegistryTypeOK
  /\ cfg \in Configs
  /\ pc \in {"down", "boot", "ddl", "ready", "event", "flush", "ack"}
  /\ mine \in 0..MaxVersion
  /\ goal \in {"boot", "table", "columns"}
  /\ cur \in 0..MaxEvents
  /\ diff \subseteq Columns
  /\ force \in BOOLEAN
  /\ faults \in 0..MaxFaults

DataType ==
  /\ log \in Seq(Events) /\ Len(log) <= cfg.events
  /\ acked \subseteq DOMAIN log
  /\ todo \in Seq(Ddls)
  /\ buf \in Seq(Stmts)
  /\ hist \in Seq(HistRecords)

TableType ==
  known \in Tables /\ tab \in Tables /\ need \subseteq Columns /\ views \in [ViewNames -> Tables]

(* The cache and the tracker agree, no version is ahead of the API's, and a    *)
(* version is recorded where the code reads one.                               *)
VersionInv ==
  /\ cacheVer # NoVersion => cacheVer = trackVer
  /\ trackVer <= latest /\ mine <= latest
  /\ pc = "boot" => trackVer = mine
  /\ (pc = "ddl" /\ goal = "boot") => trackVer = mine /\ mine # NoVersion
  /\ (pc = "ddl" /\ goal = "table") => trackVer = NoVersion
  /\ (pc = "ddl" /\ goal = "columns") => trackVer # NoVersion
  /\ (pc \in {"event", "flush", "ack"} \/ buf # <<>>) => trackVer # NoVersion
  /\ tab.there => latest # NoVersion
  /\ pc = "down" => buf = <<>>

(* The source's events: versions only grow, and what the JSON leaves out is    *)
(* null.                                                                       *)
LogInv ==
  /\ \A n \in DOMAIN log : log[n].ver \in 1..latest
  /\ \A m, n \in DOMAIN log : m < n => log[m].ver <= log[n].ver
  /\ \A n \in DOMAIN log : \A c \in Columns :
       (c \notin log[n].shown \/ log[n].op = "DELETE") => log[n].row[c] = Null

(* The event in hand. *)
CurInv ==
  Handling =>
    /\ cur \in DOMAIN log
    /\ cur \notin acked \cup Pending
    /\ pc = "event" => Cols[log[cur].ver] \subseteq Cols[trackVer]

(* The table has what the recorded version has, as soon as events are read. *)
TableInv ==
  /\ ~tab.there => tab.cols = {} /\ hist = <<>>
  /\ known.cols \subseteq tab.cols
  /\ ((pc = "boot" \/ Serving) /\ trackVer = NoVersion) => ~tab.there
  /\ ((Serving \/ (pc = "ddl" /\ goal = "columns")) /\ trackVer # NoVersion)
       => tab.there /\ Cols[trackVer] \subseteq tab.cols

(* The statements to come: a table is made anew only where there is none, and  *)
(* when all are executed the table has the columns of the goal.                *)
Covered ==
  \/ /\ tab.there
     /\ \A c \in Cols[Goal] :
          c \in tab.cols \/ \E i \in DOMAIN todo : todo[i].k = "alter" /\ c \in todo[i].cols
  \/ /\ ~tab.there
     /\ \E i \in DOMAIN todo : Makes(todo[i]) /\ Cols[Goal] \subseteq todo[i].cols

DdlInv ==
  pc = "ddl" =>
    /\ \A i \in DOMAIN todo : Anew(todo[i]) => ~tab.there
    /\ \A i \in DOMAIN todo : todo[i].k = "alter" => tab.there
    /\ \A i, j \in DOMAIN todo : (i < j /\ Makes(todo[i])) => ~Anew(todo[j])
    /\ Covered

(* ... and both views show them, unless a fault came between. *)
Shows(t) == t.there /\ Cols[Goal] \subseteq t.cols
WillShow(v) ==
  \/ Shows(views[v]) /\ \A i \in DOMAIN todo : ~Touches(todo[i], v)
  \/ \E i \in DOMAIN todo :
       /\ todo[i].k = "view" /\ todo[i].view = v /\ Cols[Goal] \subseteq todo[i].cols
       /\ \A j \in DOMAIN todo : i < j => ~Touches(todo[j], v)

ViewInv ==
  (faults = 0 /\ Appending) =>
    /\ pc \in {"down", "boot"} => ~tab.there
    /\ pc = "ddl" => \A v \in ViewNames : WillShow(v)
    /\ ViewsServe

(* append mode: a statement carries its event, and the columns it is going to  *)
(* be executed with keep what KeptColumns promises.                            *)
StmtInv ==
  \A i \in DOMAIN buf :
    /\ buf[i].msg \in DOMAIN log
    /\ Appending =>
         /\ ~buf[i].bad
         /\ buf[i].op = log[buf[i].msg].op
         /\ buf[i].ins = log[buf[i].msg].row
         /\ KeptColumns(log[buf[i].msg].ver)
              \subseteq IF cfg.dialect = "snowflake" THEN Cols[trackVer] ELSE buf[i].cols

(* An ordered stream: everything before an event is settled or before it in    *)
(* the batch.                                                                  *)
LineInv ==
  cfg.ordered =>
    /\ \A m \in acked : \A j \in 1..(m - 1) : j \in acked
    /\ \A i \in DOMAIN buf : \A j \in 1..(buf[i].msg - 1) :
         j \in acked \/ \E h \in DOMAIN buf : h < i /\ buf[h].msg = j
    /\ Handling => \A j \in 1..(cur - 1) : j \in acked \cup Pending

(* A line of the history is its event. *)
HistInv ==
  \A i \in DOMAIN hist :
    /\ hist[i].mvcc \in DOMAIN log
    /\ hist[i].op = log[hist[i].mvcc].op
    /\ \A c \in KeptColumns(log[hist[i].mvcc].ver) : hist[i].val[c] = log[hist[i].mvcc].row[c]

MInv ==
  /\ FlagType /\ DataType /\ TableType
  /\ VersionInv /\ LogInv /\ CurInv /\ TableInv /\ BufferFits /\ DdlInv /\ ViewInv
  /\ StmtInv /\ LineInv /\ HistInv

-----------------------------------------------------------------------------
(* What the planned statements do. *)

(* A plan that makes the table with columns S, a plan that adds the columns S, *)
(* and a plan that ends with both views over S.                                *)
MakesTable(p, S) ==
  /\ p \in Seq(Ddls) /\ p # <<>>
  /\ \A i \in DOMAIN p : p[i].k # "alter"
  /\ \A i, j \in DOMAIN p : (i < j /\ Makes(p[i])) => ~Anew(p[j])
  /\ \E i \in DOMAIN p : Makes(p[i]) /\ S \subseteq p[i].cols

AddsColumns(p, S) ==
  /\ p \in Seq(Ddls)
  /\ \A i \in DOMAIN p : ~Anew(p[i])
  /\ \A c \in S : \E i \in DOMAIN p : p[i].k = "alter" /\ c \in p[i].cols

EndsWithViews(p, S) ==
  \A v \in ViewNames : \E i \in DOMAIN p :
    /\ p[i].k = "view" /\ p[i].view = v /\ S \subseteq p[i].cols
    /\ \A j \in DOMAIN p : i < j => ~Touches(p[j], v)

LEMMA DdlFields ==
  ASSUME NEW k \in DdlKinds, NEW v \in ViewNames, NEW S \in SUBSET Columns
  PROVE  /\ Ddl(k, v, S) \in Ddls
         /\ Ddl(k, v, S).k = k /\ Ddl(k, v, S).view = v /\ Ddl(k, v, S).cols = S
BY DEF Ddl, Ddls

(* The elements of a concatenation of short plans. *)
LEMMA Concat12 ==
  ASSUME NEW a \in Ddls, NEW b \in Ddls, NEW c \in Ddls
  PROVE  LET p == <<a>> \o <<b, c>>
         IN  p \in Seq(Ddls) /\ DOMAIN p = 1..3 /\ p[1] = a /\ p[2] = b /\ p[3] = c
OBVIOUS

LEMMA Concat222 ==
  ASSUME NEW a \in Ddls, NEW b \in Ddls, NEW c \in Ddls,
         NEW d \in Ddls, NEW e \in Ddls, NEW f \in Ddls
  PROVE  LET p == <<a, b>> \o <<c, d>> \o <<e, f>>
         IN  /\ p \in Seq(Ddls) /\ DOMAIN p = 1..6
             /\ p[1] = a /\ p[2] = b /\ p[3] = c /\ p[4] = d /\ p[5] = e /\ p[6] = f
OBVIOUS

LEMMA Concat212 ==
  ASSUME NEW a \in Ddls, NEW b \in Ddls, NEW c \in Ddls, NEW e \in Ddls, NEW f \in Ddls
  PROVE  LET p == <<a, b>> \o <<c>> \o <<e, f>>
         IN  /\ p \in Seq(Ddls) /\ DOMAIN p = 1..5
             /\ p[1] = a /\ p[2] = b /\ p[3] = c /\ p[4] = e /\ p[5] = f
OBVIOUS

LEMMA Concat202 ==
  ASSUME NEW a \in Ddls, NEW b \in Ddls, NEW e \in Ddls, NEW f \in Ddls
  PROVE  LET p == <<a, b>> \o <<>> \o <<e, f>>
         IN  /\ p \in Seq(Ddls) /\ DOMAIN p = 1..4
             /\ p[1] = a /\ p[2] = b /\ p[3] = e /\ p[4] = f
OBVIOUS

LEMMA ConcatShort ==
  ASSUME NEW a \in Ddls, NEW b \in Ddls
  PROVE  /\ <<a>> \o <<b>> \in Seq(Ddls) /\ DOMAIN (<<a>> \o <<b>>) = 1..2
         /\ (<<a>> \o <<b>>)[1] = a /\ (<<a>> \o <<b>>)[2] = b
         /\ <<>> \o <<a>> = <<a>> /\ <<a>> \o <<>> = <<a>>
         /\ <<>> \o <<a>> \o <<>> = <<a>>
         /\ <<>> \o <<a, b>> = <<a, b>>
         /\ <<a>> \in Seq(Ddls) /\ DOMAIN <<a>> = 1..1 /\ <<a>>[1] = a
OBVIOUS

(* append mode: the history table of every dialect, and its views. *)
LEMMA HistoryPlan ==
  ASSUME NEW S \in SUBSET Columns,
         cfg.dialect \in {"postgresql", "mysql", "sqlserver", "snowflake"}
  PROVE  MakesTable(HistoryDdl(S), S) /\ EndsWithViews(HistoryDdl(S), S)
<1> DEFINE p == HistoryDdl(S)
           cur0 == Ddl("view", "current", S)
           tim0 == Ddl("view", "timeline", S)
<1>1. /\ cur0 \in Ddls /\ cur0.k = "view" /\ cur0.view = "current" /\ cur0.cols = S
      /\ tim0 \in Ddls /\ tim0.k = "view" /\ tim0.view = "timeline" /\ tim0.cols = S
  BY DdlFields DEF DdlKinds, ViewNames
<1>2. CreateViews(S) = <<cur0, tim0>>
  BY DEF CreateViews
<1>3. CASE cfg.dialect \in {"postgresql", "snowflake"}
  <2> PICK a \in Ddls : /\ a.k \in {"history", "create"} /\ a.cols = S
                        /\ p = <<a>> \o <<cur0, tim0>>
    <3>1. /\ Ddl("history", "current", S) \in Ddls
          /\ Ddl("history", "current", S).k = "history" /\ Ddl("history", "current", S).cols = S
          /\ Ddl("create", "current", S) \in Ddls
          /\ Ddl("create", "current", S).k = "create" /\ Ddl("create", "current", S).cols = S
      BY DdlFields DEF DdlKinds, ViewNames
    <3>2. p = PostgresHistory(S) \/ p = SnowflakeHistory(S)
      BY <1>3 DEF HistoryDdl
    <3> QED
      BY <3>1, <3>2, <1>2 DEF PostgresHistory, SnowflakeHistory
  <2>1. p \in Seq(Ddls) /\ DOMAIN p = 1..3 /\ p[1] = a /\ p[2] = cur0 /\ p[3] = tim0
    BY <1>1, Concat12
  <2>2. p # <<>>
    BY <2>1
  <2> HIDE DEF p, cur0, tim0
  <2>3. MakesTable(p, S)
    BY <1>1, <2>1, <2>2 DEF MakesTable, Makes, Anew
  <2>4. EndsWithViews(p, S)
    <3>1. \A j \in DOMAIN p : 2 < j => j = 3
      BY <2>1
    <3>2. \A j \in DOMAIN p : ~(3 < j)
      BY <2>1
    <3>3. 2 \in DOMAIN p /\ 3 \in DOMAIN p
      BY <2>1
    <3>4. ~Touches(tim0, "current")
      BY <1>1 DEF Touches
    <3>5. \A j \in DOMAIN p : 2 < j => ~Touches(p[j], "current")
      BY <2>1, <3>1, <3>4
    <3> QED
      BY <1>1, <2>1, <3>2, <3>3, <3>5 DEF EndsWithViews, ViewNames
  <2> QED
    BY <2>3, <2>4 DEF p
<1>4. CASE cfg.dialect \in {"mysql", "sqlserver"}
  <2> DEFINE a == Ddl("drop_view", "timeline", {})
             b == Ddl("drop_view", "current", {})
             c == Ddl("drop", "current", {})
             d == Ddl("create", "current", S)
  <2>1. /\ a \in Ddls /\ a.k = "drop_view" /\ b \in Ddls /\ b.k = "drop_view"
        /\ c \in Ddls /\ c.k = "drop" /\ d \in Ddls /\ d.k = "create" /\ d.cols = S
    BY DdlFields DEF DdlKinds, ViewNames
  <2>2. p = <<a, b>> \o <<c, d>> \o <<cur0, tim0>>
    BY <1>2, <1>4 DEF HistoryDdl, MysqlHistory, SqlserverHistory, DropViews
  <2>3. /\ p \in Seq(Ddls) /\ DOMAIN p = 1..6
        /\ p[1] = a /\ p[2] = b /\ p[3] = c /\ p[4] = d /\ p[5] = cur0 /\ p[6] = tim0
    BY <1>1, <2>1, <2>2, Concat222
  <2>4. p # <<>>
    BY <2>3
  <2> HIDE DEF p, cur0, tim0, a, b, c, d
  <2>5. MakesTable(p, S)
    <3>1. \A i, j \in DOMAIN p : (i < j /\ Makes(p[i])) => i \in {4} /\ j \in {5, 6}
      BY <1>1, <2>1, <2>3 DEF Makes
    <3>2. \A i \in DOMAIN p : p[i].k # "alter"
      BY <1>1, <2>1, <2>3
    <3> QED
      BY <1>1, <2>1, <2>3, <2>4, <3>1, <3>2 DEF MakesTable, Makes, Anew
  <2>6. EndsWithViews(p, S)
    <3>1. \A j \in DOMAIN p : 5 < j => j = 6
      BY <2>3
    <3>2. \A j \in DOMAIN p : ~(6 < j)
      BY <2>3
    <3> QED
      BY <1>1, <2>3, <3>1, <3>2 DEF EndsWithViews, Touches, ViewNames
  <2> QED
    BY <2>5, <2>6 DEF p
<1> QED
  BY <1>3, <1>4

(* migrate_new_table, in either mode. *)
LEMMA TablePlan ==
  ASSUME cfg \in Configs, NEW v \in Versions, NEW k
  PROVE  /\ MakesTable(MigrateNewTable(v, k), Cols[v])
         /\ Appending => EndsWithViews(MigrateNewTable(v, k), Cols[v])
<1>1. Cols[v] \in SUBSET Columns
  BY MigrationAssumption
<1>2. cfg.dialect \in {"postgresql", "mysql", "sqlserver", "snowflake"}
  BY MigrationAssumption DEF ConfigType
<1>3. CASE Appending
  BY <1>1, <1>2, <1>3, HistoryPlan DEF MigrateNewTable
<1>4. CASE ~Appending
  <2> DEFINE p == MigrateNewTable(v, k)
             a == Ddl("drop", "current", {})
             b == [k |-> "create", view |-> "current", cols |-> Cols[v], need |-> cfg.required[v]]
  <2>0. cfg.required[v] \in SUBSET Columns
    BY MigrationAssumption DEF ConfigType
  <2>1. /\ a \in Ddls /\ a.k = "drop"
        /\ b \in Ddls /\ b.k = "create" /\ b.cols = Cols[v]
    BY <1>1, <2>0, DdlFields DEF DdlKinds, ViewNames, Ddls
  <2>2. p = <<a>> \o <<b>> \/ p = <<>> \o <<b>>
    BY <1>4 DEF MigrateNewTable, CreateTable
  <2> HIDE DEF p, a, b
  <2>3. \/ p \in Seq(Ddls) /\ DOMAIN p = 1..2 /\ p[1] = a /\ p[2] = b /\ p # <<>>
        \/ p \in Seq(Ddls) /\ DOMAIN p = 1..1 /\ p[1] = b /\ p # <<>>
    <3>1. CASE p = <<a>> \o <<b>>
      BY <2>1, <3>1, ConcatShort
    <3>2. CASE p = <<>> \o <<b>>
      BY <2>1, <3>2, ConcatShort
    <3> QED
      BY <2>2, <3>1, <3>2
  <2>4. MakesTable(p, Cols[v])
    BY <2>1, <2>3 DEF MakesTable, Makes, Anew
  <2> QED
    BY <1>4, <2>4 DEF p
<1> QED
  BY <1>3, <1>4

(* migrate_new_columns, in either mode. *)
LEMMA ColumnsPlan ==
  ASSUME NEW v \in Versions, NEW new \in SUBSET Columns, NEW k \in Tables
  PROVE  /\ AddsColumns(MigrateNewColumns(v, new, k), new \ k.cols)
         /\ Appending => EndsWithViews(MigrateNewColumns(v, new, k), Cols[v])
<1> DEFINE S == Cols[v]
           p == MigrateNewColumns(v, new, k)
           x == Ddl("drop_view", "timeline", {})
           y == Ddl("drop_view", "current", {})
           z == Ddl("alter", "current", new \ k.cols)
           cur0 == Ddl("view", "current", S)
           tim0 == Ddl("view", "timeline", S)
           add == AddNewColumns(new, k)
<1>1. S \in SUBSET Columns /\ new \ k.cols \in SUBSET Columns
  BY MigrationAssumption
<1>2. /\ cur0 \in Ddls /\ cur0.k = "view" /\ cur0.view = "current" /\ cur0.cols = S
      /\ tim0 \in Ddls /\ tim0.k = "view" /\ tim0.view = "timeline" /\ tim0.cols = S
      /\ x \in Ddls /\ x.k = "drop_view" /\ y \in Ddls /\ y.k = "drop_view"
      /\ z \in Ddls /\ z.k = "alter" /\ z.cols = new \ k.cols
  BY <1>1, DdlFields DEF DdlKinds, ViewNames
<1>3. \/ add = <<z>>
      \/ add = <<>> /\ new \ k.cols = {}
  BY DEF AddNewColumns
<1>4. \/ Appending /\ p = <<x, y>> \o add \o <<cur0, tim0>>
      \/ Appending /\ p = add \o <<cur0, tim0>>
      \/ ~Appending /\ p = <<>> \o add \o <<>>
      \/ ~Appending /\ p = add \o <<>>
  BY DEF MigrateNewColumns, SnowflakeNewColumns, CreateViews, DropViews
<1> HIDE DEF add, p, x, y, z, cur0, tim0, S
<1>5. CASE add = <<z>>
  <2>1. \/ /\ p \in Seq(Ddls) /\ DOMAIN p = 1..5
           /\ p[1] = x /\ p[2] = y /\ p[3] = z /\ p[4] = cur0 /\ p[5] = tim0
        \/ p \in Seq(Ddls) /\ DOMAIN p = 1..3 /\ p[1] = z /\ p[2] = cur0 /\ p[3] = tim0
        \/ ~Appending /\ p \in Seq(Ddls) /\ DOMAIN p = 1..1 /\ p[1] = z
    <3>1. CASE p = <<x, y>> \o <<z>> \o <<cur0, tim0>>
      BY <1>2, <3>1, Concat212
    <3>2. CASE p = <<z>> \o <<cur0, tim0>>
      BY <1>2, <3>2, Concat12
    <3>3. CASE ~Appending /\ (p = <<>> \o <<z>> \o <<>> \/ p = <<z>> \o <<>>)
      <4>1. /\ <<>> \o <<z>> \o <<>> = <<z>> /\ <<z>> \o <<>> = <<z>>
            /\ <<z>> \in Seq(Ddls) /\ DOMAIN <<z>> = 1..1 /\ <<z>>[1] = z
        BY <1>2, ConcatShort, Zenon
      <4>2. p = <<z>>
        BY <3>3, <4>1, Zenon
      <4> QED
        BY <3>3, <4>1, <4>2, Zenon
    <3> QED
      BY <1>4, <1>5, <3>1, <3>2, <3>3
  <2>2. AddsColumns(p, new \ k.cols)
    BY <1>2, <2>1 DEF AddsColumns, Anew
  <2>3. Appending => EndsWithViews(p, S)
    BY <1>2, <2>1 DEF EndsWithViews, Touches, ViewNames
  <2> QED
    BY <2>2, <2>3 DEF p, S
<1>6. CASE add = <<>> /\ new \ k.cols = {}
  <2>1. \/ /\ p \in Seq(Ddls) /\ DOMAIN p = 1..4
           /\ p[1] = x /\ p[2] = y /\ p[3] = cur0 /\ p[4] = tim0
        \/ p \in Seq(Ddls) /\ DOMAIN p = 1..2 /\ p[1] = cur0 /\ p[2] = tim0
        \/ ~Appending /\ p \in Seq(Ddls) /\ DOMAIN p = {}
    <3>1. CASE p = <<x, y>> \o <<>> \o <<cur0, tim0>>
      BY <1>2, <3>1, Concat202
    <3>2. CASE p = <<>> \o <<cur0, tim0>>
      <4>1. p = <<cur0, tim0>>
        BY <1>2, <3>2, ConcatShort
      <4> QED
        BY <1>2, <4>1
    <3>3. CASE ~Appending /\ (p = <<>> \o <<>> \o <<>> \/ p = <<>> \o <<>>)
      <4>1. p = <<>>
        BY <3>3
      <4> QED
        BY <3>3, <4>1
    <3> QED
      BY <1>4, <1>6, <3>1, <3>2, <3>3
  <2>2. AddsColumns(p, new \ k.cols)
    BY <1>2, <1>6, <2>1 DEF AddsColumns, Anew
  <2>3. Appending => EndsWithViews(p, S)
    BY <1>2, <2>1 DEF EndsWithViews, Touches, ViewNames
  <2> QED
    BY <2>2, <2>3 DEF p, S
<1> QED
  BY <1>3, <1>5, <1>6

-----------------------------------------------------------------------------
(* Facts about the state and the operators. *)

LEMMA ConfigFacts ==
  ASSUME cfg \in Configs
  PROVE  /\ cfg.dialect \in {"postgresql", "mysql", "sqlserver", "snowflake"}
         /\ cfg.mode \in {"upsert", "append"}
         /\ cfg.events \in 0..MaxEvents
         /\ cfg.dialect = "snowflake" => Appending
         /\ \A v \in Versions : cfg.required[v] \subseteq Cols[v]
BY MigrationAssumption DEF ConfigType, Appending

(* get_table_version answers with the tracker's version, cached or not. *)
LEMMA Recorded ==
  ASSUME VersionInv
  PROVE  TableVersion = trackVer
BY DEF VersionInv, TableVersion

LEMMA ColsFacts ==
  ASSUME NEW v \in Versions
  PROVE  Cols[v] \in SUBSET Columns
BY MigrationAssumption

LEMMA VersionFacts ==
  ASSUME NEW v \in Versions
  PROVE  v \in Nat /\ v # NoVersion /\ v \in 0..MaxVersion
BY VersionAssumption DEF Versions, NoVersion, VersionAssumption

LEMMA LogFacts ==
  ASSUME MInv
  PROVE  /\ Len(log) \in Nat /\ DOMAIN log = 1..Len(log) /\ Len(log) <= MaxEvents
         /\ \A n \in DOMAIN log : /\ n \in 1..MaxEvents
                                  /\ log[n] \in Events
                                  /\ log[n].ver \in Versions /\ log[n].ver <= latest
<1>1. /\ Len(log) \in Nat /\ DOMAIN log = 1..Len(log)
      /\ \A n \in DOMAIN log : log[n] \in Events
  BY ElementOfSeq, LenProperties DEF MInv, DataType
<1>2. Len(log) <= MaxEvents
  BY <1>1, ConfigFacts, DialectAssumption DEF MInv, DataType, FlagType, DialectAssumption
<1>3. \A n \in DOMAIN log : log[n].ver \in 1..latest
  BY DEF MInv, LogInv
<1>4. \A n \in DOMAIN log : log[n].ver \in Versions /\ log[n].ver <= latest
  BY <1>3, VersionAssumption DEF MInv, FlagType, RegistryTypeOK, Versions, VersionAssumption
<1> QED
  BY <1>1, <1>2, <1>4, DialectAssumption DEF DialectAssumption

(* The event of a change. *)
LEMMA ChangeFacts ==
  ASSUME NEW op \in Ops, NEW val \in Vals, NEW D \in SUBSET Columns, latest \in Versions,
         op = "DELETE" => \A c \in Columns : val[c] = Null,
         NEW e, e = Change(op, val, D)
  PROVE  /\ e \in Events /\ e.ver = latest /\ e.op = op
         /\ \A c \in Columns : (c \notin e.shown \/ op = "DELETE") => e.row[c] = Null
<1> DEFINE S == Cols[latest]
           after == [c \in Columns |-> IF c \in S THEN val[c] ELSE Null]
           shown == IF cfg.omit THEN {c \in Columns : after[c] # Null} ELSE S
<1>1. S \subseteq Columns
  BY ColsFacts
<1>2. after \in Vals
  BY DialectAssumption DEF Vals, Values, Null, Zero, DialectAssumption
<1>3. e = [op |-> op, ver |-> latest, row |-> after, diff |-> D, shown |-> shown]
  BY DEF Change
<1>4. shown \subseteq Columns
  BY <1>1
<1>5. \A c \in Columns : (c \notin shown \/ op = "DELETE") => after[c] = Null
  OBVIOUS
<1> HIDE DEF after, shown, S
<1>6. latest \in Nat
  BY VersionAssumption DEF Versions, VersionAssumption
<1> QED
  BY <1>2, <1>3, <1>4, <1>5, <1>6 DEF Events

LEMMA PublishFacts ==
  ASSUME MInv, Publish
  PROVE  \E e \in Events :
           /\ log' = Append(log, e)
           /\ Len(log) < cfg.events
           /\ e.ver = latest /\ latest \in Versions
           /\ \A c \in Columns : (c \notin e.shown \/ e.op = "DELETE") => e.row[c] = Null
<1> DEFINE n == Len(log) + 1
           val(D, old) == [c \in Columns |-> IF c \in D THEN n ELSE old[c]]
<1>1. latest \in Versions
  BY VersionAssumption
     DEF Publish, MInv, FlagType, RegistryTypeOK, Versions, NoVersion, VersionAssumption
<1>2. Len(log) < cfg.events /\ n \in Values
  BY LogFacts, ConfigFacts, DialectAssumption
     DEF Publish, MInv, FlagType, Values, Zero, DialectAssumption
<1>3. NoRow.val \in Vals /\ \A c \in Columns : NoRow.val[c] = Null
  BY DialectAssumption DEF NoRow, Vals, Values, Zero, Null, DialectAssumption
<1>4. \A D \in SUBSET Columns : \A old \in Vals : val(D, old) \in Vals
  BY <1>2 DEF Vals
<1>5. Cols[latest] \in SUBSET Columns /\ cfg.required[latest] \in SUBSET Columns
  BY <1>1, ColsFacts, ConfigFacts DEF MInv, FlagType
<1>6. Source.there => Source.val \in Vals
  <2> SUFFICES ASSUME Source.there PROVE Source.val \in Vals
    OBVIOUS
  <2>1. log # <<>>
    BY DEF Source, NoRow
  <2>2. Len(log) \in DOMAIN log
    BY <2>1, LogFacts, EmptySeq DEF MInv, DataType
  <2>3. log[Len(log)].row \in Vals
    BY <2>2, LogFacts DEF Events
  <2> QED
    BY <2>1, <2>3 DEF Source
<1>7. \E op \in Ops : \E x \in Vals : \E D \in SUBSET Columns :
        /\ log' = Append(log, Change(op, x, D))
        /\ op = "DELETE" => \A c \in Columns : x[c] = Null
  <2>1. \/ \E D \in {cfg.required[latest], Cols[latest]} :
               log' = Append(log, Change("INSERT", val(D, NoRow.val), {}))
        \/ /\ Source.there
           /\ \E D \in SUBSET Cols[latest] \ {{}} :
                log' = Append(log, Change("UPDATE", val(D, Source.val), D))
        \/ log' = Append(log, Change("DELETE", NoRow.val, {}))
    BY DEF Publish
  <2> HIDE DEF val, n
  <2>2. CASE \E D \in {cfg.required[latest], Cols[latest]} :
               log' = Append(log, Change("INSERT", val(D, NoRow.val), {}))
    BY <1>3, <1>4, <1>5, <2>2 DEF Ops
  <2>3. CASE /\ Source.there
             /\ \E D \in SUBSET Cols[latest] \ {{}} :
                  log' = Append(log, Change("UPDATE", val(D, Source.val), D))
    BY <1>4, <1>5, <1>6, <2>3 DEF Ops
  <2>4. CASE log' = Append(log, Change("DELETE", NoRow.val, {}))
    BY <1>3, <2>4 DEF Ops
  <2> QED
    BY <2>1, <2>2, <2>3, <2>4
<1> QED
  BY <1>1, <1>2, <1>7, ChangeFacts

(* The statement of an event: it names no column that the schema S lacks, and  *)
(* in append mode it names all of them and carries the object.                 *)
LEMMA StmtFacts ==
  ASSUME cfg \in Configs, NEW e \in Events, NEW n \in Nat, NEW S \in SUBSET Columns,
         NEW s, s = ToSql(cfg.dialect, cfg.mode, e, n, S)
  PROVE  /\ s \in Stmts /\ s.cols \subseteq S /\ s.msg = n
         /\ Appending => /\ ~s.bad /\ s.op = e.op /\ s.cols = S
                         /\ \A c \in Columns :
                              s.ins[c] = IF e.op = "DELETE" \/ c \notin e.shown
                                         THEN Null ELSE e.row[c]
<1>1. Given(e) \in Vals /\ \A c \in Columns : Given(e)[c] = IF c \in e.shown THEN e.row[c] ELSE Null
  BY DialectAssumption DEF Given, Events, Vals, Values, Zero, Null, DialectAssumption
<1>2. ASSUME NEW T \in SUBSET S, NEW sets \in SUBSET Columns, NEW whole \in BOOLEAN,
             NEW bad \in BOOLEAN, NEW ins \in Vals,
             s = Stmt(e, n, T, sets, whole, bad, ins)
      PROVE  s \in Stmts /\ s.cols = T /\ s.msg = n /\ s.bad = bad /\ s.ins = ins /\ s.op = e.op
  BY <1>1, <1>2 DEF Stmt, Stmts, Events
<1>3. CASE Appending
  <2> DEFINE after == IF e.op = "DELETE" THEN [c \in Columns |-> Null] ELSE Given(e)
  <2>1. after \in Vals
    BY <1>1, DialectAssumption DEF Vals, Values, Null, Zero, DialectAssumption
  <2>2. s = Stmt(e, n, S, {}, FALSE, FALSE, after)
    BY <1>3 DEF ToSql, AppendStmt, Appending
  <2>3. s \in Stmts /\ s.cols = S /\ s.msg = n /\ s.bad = FALSE /\ s.ins = after /\ s.op = e.op
    BY <1>2, <2>1, <2>2
  <2>4. \A c \in Columns : after[c] = IF e.op = "DELETE" \/ c \notin e.shown THEN Null ELSE e.row[c]
    BY <1>1
  <2> QED
    BY <2>3, <2>4
<1>4. CASE ~Appending
  <2>1. cfg.mode # "append" /\ cfg.dialect \in {"postgresql", "mysql", "sqlserver"}
    BY <1>4, ConfigFacts DEF Appending
  <2>2. CASE e.op = "DELETE"
    <3>1. s = Stmt(e, n, {}, {}, FALSE, FALSE, Given(e))
      BY <2>1, <2>2 DEF ToSql
    <3>2. {} \in SUBSET S /\ {} \in SUBSET Columns
      OBVIOUS
    <3>3. s \in Stmts /\ s.cols = {} /\ s.msg = n
      BY <1>1, <1>2, <3>1, <3>2
    <3> QED
      BY <1>4, <3>3
  <2>3. CASE e.op # "DELETE" /\ cfg.dialect = "postgresql"
    <3> DEFINE sets == IF e.op = "UPDATE" THEN e.diff \cap S \cap e.shown ELSE S
               bare == e.op = "UPDATE" /\ \E c \in e.diff \cap S : c \notin e.shown
    <3>1. s = Stmt(e, n, S, sets, FALSE, bare, Given(e))
      BY <2>1, <2>3 DEF ToSql, PostgresStmt
    <3>2. sets \in SUBSET Columns /\ bare \in BOOLEAN
      OBVIOUS
    <3> HIDE DEF sets, bare
    <3> QED
      BY <1>1, <1>2, <1>4, <3>1, <3>2
  <2>4. CASE e.op # "DELETE" /\ cfg.dialect = "mysql"
    BY <1>1, <1>2, <1>4, <2>1, <2>4 DEF ToSql, MysqlStmt
  <2>5. CASE e.op # "DELETE" /\ cfg.dialect = "sqlserver"
    <3> DEFINE sets == IF e.diff # {} THEN e.diff \cap S ELSE S
               ins == [c \in Columns |-> IF c \in IntColumns \cap S /\ Given(e)[c] = Null
                                         THEN Zero ELSE Given(e)[c]]
    <3>1. s = Stmt(e, n, S, sets, FALSE, FALSE, ins)
      BY <2>1, <2>5 DEF ToSql, SqlserverStmt
    <3>2. sets \in SUBSET Columns
      OBVIOUS
    <3>3. ins \in Vals
      BY <1>1, DialectAssumption DEF Vals, Values, Zero, Null, DialectAssumption
    <3> HIDE DEF sets, ins
    <3> QED
      BY <1>2, <1>4, <3>1, <3>2, <3>3
  <2> QED
    BY <2>1, <2>2, <2>3, <2>4, <2>5
<1> QED
  BY <1>3, <1>4

(* The statements that are executed are the buffered ones, in some order;      *)
(* Snowflake's have the columns of the recorded version.                       *)
LEMMA BatchFacts ==
  ASSUME MInv, NEW ss \in Batches
  PROVE  /\ ss \in Seq(Stmts) /\ Len(ss) = Len(buf)
         /\ \A i \in DOMAIN ss : \E j \in DOMAIN buf :
              /\ ss[i].op = buf[j].op /\ ss[i].bad = buf[j].bad
              /\ ss[i].ins = buf[j].ins /\ ss[i].msg = buf[j].msg
              /\ ss[i].cols = IF cfg.dialect = "snowflake" THEN Cols[trackVer] ELSE buf[j].cols
<1>1. /\ buf \in Seq(Stmts) /\ Len(buf) \in Nat /\ DOMAIN buf = 1..Len(buf)
      /\ \A j \in DOMAIN buf : buf[j] \in Stmts
  BY ElementOfSeq, LenProperties DEF MInv, DataType
<1>2. CASE cfg.dialect # "snowflake"
  BY <1>1, <1>2 DEF Batches
<1>3. CASE cfg.dialect = "snowflake"
  <2>1. PICK p \in [DOMAIN buf -> DOMAIN buf] :
               ss = [i \in DOMAIN buf |-> [buf[p[i]] EXCEPT !.cols = Cols[trackVer]]]
    BY <1>3, Recorded DEF Batches, Bijection, Injection, MInv
  <2>2. buf # <<>> => trackVer \in Versions
    BY VersionAssumption
       DEF MInv, VersionInv, FlagType, RegistryTypeOK, Versions, NoVersion, VersionAssumption
  <2>3. ASSUME NEW i \in DOMAIN buf
        PROVE  /\ ss[i] \in Stmts
               /\ ss[i].op = buf[p[i]].op /\ ss[i].bad = buf[p[i]].bad
               /\ ss[i].ins = buf[p[i]].ins /\ ss[i].msg = buf[p[i]].msg
               /\ ss[i].cols = Cols[trackVer]
    <3>1. p[i] \in DOMAIN buf /\ buf[p[i]] \in Stmts
      BY <1>1
    <3>2. buf # <<>>
      BY <1>1, <2>3, EmptySeq
    <3>3. Cols[trackVer] \in SUBSET Columns
      BY <2>2, <3>2, ColsFacts
    <3>4. ss[i] = [buf[p[i]] EXCEPT !.cols = Cols[trackVer]]
      BY <2>1
    <3> QED
      BY <3>1, <3>3, <3>4 DEF Stmts
  <2>4. DOMAIN ss = 1..Len(buf)
    BY <1>1, <2>1
  <2>5. ss \in [1..Len(buf) -> Stmts]
    BY <1>1, <2>1, <2>3
  <2>6. ss \in Seq(Stmts) /\ Len(ss) = Len(buf)
    BY <1>1, <2>4, <2>5, SeqDef
  <2> QED
    BY <1>1, <1>3, <2>3, <2>4, <2>6
<1> QED
  BY <1>2, <1>3

(* A line of the history for every statement that is executed. *)
LEMMA HistRowsFacts ==
  ASSUME NEW q \in Seq(Stmts)
  PROVE  /\ HistRows(q) \in Seq(HistRecords) /\ Len(HistRows(q)) = Len(q)
         /\ \A i \in DOMAIN q : HistRows(q)[i] = HistRow(q[i])
<1>1. Len(q) \in Nat /\ DOMAIN q = 1..Len(q) /\ \A i \in DOMAIN q : q[i] \in Stmts
  BY ElementOfSeq, LenProperties
<1>2. ASSUME NEW s \in Stmts PROVE HistRow(s) \in HistRecords
  <2> DEFINE val == [c \in Columns |-> IF c \in s.cols THEN s.ins[c] ELSE Null]
  <2>1. s.op \in Ops /\ s.msg \in Nat /\ s.ins \in Vals
    BY DEF Stmts
  <2>2. val \in Vals
    BY <2>1, DialectAssumption DEF Vals, Values, Null, Zero, DialectAssumption
  <2>3. HistRow(s) = [op |-> s.op, val |-> val, mvcc |-> s.msg]
    BY DEF HistRow
  <2> HIDE DEF val
  <2> QED
    BY <2>1, <2>2, <2>3 DEF HistRecords
<1>3. HistRows(q) \in [1..Len(q) -> HistRecords]
  BY <1>1, <1>2 DEF HistRows
<1>4. HistRows(q) \in Seq(HistRecords) /\ Len(HistRows(q)) = Len(q)
  BY <1>1, <1>3, SeqDef
<1> QED
  BY <1>4 DEF HistRows

LEMMA ExecuteFacts ==
  ASSUME MInv, NEW q \in Seq(Stmts), Execute(q)
  PROVE  /\ hist' \in Seq(HistRecords) /\ Len(hist) <= Len(hist')
         /\ \A i \in DOMAIN hist' :
              \/ i \in DOMAIN hist /\ hist'[i] = hist[i]
              \/ Appending /\ \E j \in DOMAIN q : hist'[i] = HistRow(q[j])
<1>1. hist \in Seq(HistRecords) /\ Len(hist) \in Nat /\ DOMAIN hist = 1..Len(hist)
  BY LenProperties DEF MInv, DataType
<1>2. CASE ~Appending
  BY <1>1, <1>2 DEF Execute
<1>3. CASE Appending
  <2> DEFINE r == HistRows(q)
  <2>1. /\ r \in Seq(HistRecords) /\ Len(r) = Len(q) /\ Len(q) \in Nat /\ DOMAIN q = 1..Len(q)
        /\ \A i \in DOMAIN q : r[i] = HistRow(q[i])
    BY HistRowsFacts, LenProperties
  <2> HIDE DEF r
  <2>2. hist' = hist \o r
    BY <1>3 DEF Execute, r
  <2>3. /\ hist' \in Seq(HistRecords) /\ Len(hist') = Len(hist) + Len(r)
        /\ \A i \in 1..(Len(hist) + Len(r)) :
             hist'[i] = IF i <= Len(hist) THEN hist[i] ELSE r[i - Len(hist)]
    <3>1. /\ hist \o r \in Seq(HistRecords) /\ Len(hist \o r) = Len(hist) + Len(r)
          /\ \A i \in 1..(Len(hist) + Len(r)) :
               (hist \o r)[i] = IF i <= Len(hist) THEN hist[i] ELSE r[i - Len(hist)]
      BY <1>1, <2>1, ConcatProperties
    <3> QED
      BY <2>2, <3>1, Zenon
  <2>4. DOMAIN hist' = 1..(Len(hist) + Len(q))
    BY <2>1, <2>3, LenProperties
  <2>5. ASSUME NEW i \in DOMAIN hist'
        PROVE  \/ i \in DOMAIN hist /\ hist'[i] = hist[i]
               \/ \E j \in DOMAIN q : hist'[i] = HistRow(q[j])
    <3>1. CASE i <= Len(hist)
      BY <1>1, <2>1, <2>3, <2>4, <2>5, <3>1
    <3>2. CASE ~(i <= Len(hist))
      <4>1. i - Len(hist) \in DOMAIN q
        BY <1>1, <2>1, <2>4, <2>5, <3>2
      <4>2. hist'[i] = r[i - Len(hist)]
        BY <1>1, <2>1, <2>3, <2>4, <2>5, <3>2
      <4> QED
        BY <2>1, <4>1, <4>2
    <3> QED
      BY <3>1, <3>2
  <2> QED
    BY <1>1, <1>3, <2>1, <2>3, <2>5
<1> QED
  BY <1>2, <1>3

(* What a flush that is complete or cut short adds to the history. *)
LEMMA FlushFacts ==
  ASSUME MInv, Flush \/ FlushLost
  PROVE  /\ hist' \in Seq(HistRecords) /\ Len(hist) <= Len(hist')
         /\ \A i \in DOMAIN hist' :
              \/ i \in DOMAIN hist /\ hist'[i] = hist[i]
              \/ Appending /\ \E ss \in Batches : \E j \in DOMAIN ss : hist'[i] = HistRow(ss[j])
<1>1. CASE Flush
  BY <1>1, ExecuteFacts, BatchFacts DEF Flush
<1>2. CASE FlushLost
  <2>0. PICK ss \in Batches : \E n \in 0..Len(ss) : Execute(SubSeq(ss, 1, n))
    BY <1>2 DEF FlushLost
  <2>1. PICK n \in 0..Len(ss) : Execute(SubSeq(ss, 1, n))
    BY <2>0
  <2>2. /\ ss \in Seq(Stmts) /\ Len(ss) \in Nat /\ DOMAIN ss = 1..Len(ss)
        /\ \A i \in 1..n : i \in DOMAIN ss /\ ss[i] \in Stmts
    BY BatchFacts, ElementOfSeq, LenProperties
  <2> DEFINE q == SubSeq(ss, 1, n)
  <2>3. q \in Seq(Stmts) /\ Len(q) = n /\ \A i \in 1..n : q[i] = ss[i]
    <3>1. 1 \in Int /\ n \in Int /\ (IF 1 <= n THEN n - 1 + 1 ELSE 0) = n
      BY <2>2
    <3>2. /\ q \in Seq(Stmts) /\ Len(q) = IF 1 <= n THEN n - 1 + 1 ELSE 0
          /\ \A i \in 1..(n - 1 + 1) : q[i] = ss[1 + i - 1]
      BY <2>2, <3>1, SubSeqProperties
    <3> HIDE DEF q
    <3>3. \A i \in 1..n : i \in 1..(n - 1 + 1) /\ 1 + i - 1 = i
      BY <2>2
    <3> QED
      BY <3>1, <3>2, <3>3
  <2>4. \A j \in DOMAIN q : j \in DOMAIN ss /\ q[j] = ss[j]
    BY <2>2, <2>3, LenProperties
  <2>5. Execute(q)
    BY <2>1
  <2> HIDE DEF q
  <2> QED
    BY <2>3, <2>4, <2>5, ExecuteFacts
<1> QED
  BY <1>1, <1>2

-----------------------------------------------------------------------------
(* What the actions do, in terms of the plans above. *)

(* The five ways a worker ends; only a rejected batch is not a fault. *)
Ending == ApiFails \/ FlushRejected \/ FlushLost \/ AckFails \/ Crash

LEMMA EndingFacts ==
  ASSUME Ending
  PROVE  /\ pc' = "down" /\ todo' = <<>> /\ buf' = <<>> /\ cur' = 0 /\ diff' = {}
         /\ force' = FALSE /\ goal' = "boot" /\ mine' = NoVersion /\ known' = None
         /\ cacheVer' = NoVersion
         /\ UNCHANGED <<latest, trackVer, trackSch, cfg, log, tab, need, views>>
         /\ FlushRejected \/ (faults < MaxFaults /\ faults' = faults + 1)
         /\ FlushRejected => faults' = faults
         /\ AckFails \/ acked' = acked
         /\ FlushLost \/ hist' = hist
<1>1. Ending => Stop
  BY DEF Ending, ApiFails, FlushRejected, FlushLost, AckFails, Crash
<1>2. UNCHANGED <<latest, trackVer, trackSch, cfg, log, tab, need, views>>
  BY DEF Ending, ApiFails, FlushRejected, FlushLost, AckFails, Crash, trackerVars, destVars
<1>3. /\ FlushRejected \/ (faults < MaxFaults /\ faults' = faults + 1)
      /\ FlushRejected => faults' = faults
      /\ AckFails \/ acked' = acked
      /\ FlushLost \/ hist' = hist
  BY DEF Ending, ApiFails, FlushRejected, FlushLost, AckFails, Crash, destVars
<1> QED
  BY <1>1, <1>2, <1>3 DEF Stop, DropCache

LEMMA ReconcileFacts ==
  ASSUME MInv, Reconcile
  PROVE  /\ pc = "boot" /\ known' = tab /\ goal' = "boot" /\ cacheVer' \in {cacheVer, trackVer}
         /\ \/ mine = NoVersion /\ pc' = "ready" /\ todo' = <<>>
            \/ /\ mine \in Versions /\ tab.there /\ Cols[mine] \subseteq tab.cols
               /\ pc' = "ready" /\ todo' = <<>>
            \/ /\ mine \in Versions /\ pc' = "ddl"
               /\ Appending => EndsWithViews(todo', Cols[mine])
               /\ \/ ~tab.there /\ MakesTable(todo', Cols[mine])
                  \/ tab.there /\ AddsColumns(todo', Cols[mine] \ tab.cols)
<1>1. pc = "boot" /\ known' = tab /\ goal' = "boot"
  BY DEF Reconcile, RefreshSchema
<1>2. cacheVer' \in {cacheVer, trackVer}
  BY Recorded DEF MInv, Reconcile, CacheTableVersion
<1>3. mine = NoVersion \/ mine \in Versions
  BY VersionAssumption DEF MInv, FlagType, Versions, NoVersion, VersionAssumption
<1>4. tab \in Tables /\ cfg \in Configs
  BY DEF MInv, TableType, FlagType
<1>5. CASE mine = NoVersion
  BY <1>1, <1>2, <1>5 DEF Reconcile
<1>6. CASE mine # NoVersion /\ ~tab.there
  <2>1. todo' = MigrateNewTable(mine, tab) /\ pc' = IF todo' = <<>> THEN "ready" ELSE "ddl"
    BY <1>6 DEF Reconcile
  <2>2. MakesTable(todo', Cols[mine]) /\ (Appending => EndsWithViews(todo', Cols[mine]))
    BY <1>3, <1>4, <1>6, <2>1, TablePlan
  <2>3. todo' # <<>>
    BY <2>2 DEF MakesTable
  <2> QED
    BY <1>1, <1>2, <1>3, <1>6, <2>1, <2>2, <2>3
<1>7. CASE mine # NoVersion /\ tab.there /\ Cols[mine] \subseteq tab.cols
  BY <1>1, <1>2, <1>3, <1>7 DEF Reconcile
<1>8. CASE mine # NoVersion /\ tab.there /\ ~(Cols[mine] \subseteq tab.cols)
  <2> DEFINE new == Cols[mine] \ tab.cols
  <2>1. /\ todo' = MigrateNewColumns(mine, new, tab)
        /\ pc' = IF todo' = <<>> THEN "ready" ELSE "ddl"
    BY <1>8 DEF Reconcile
  <2>2. new \in SUBSET Columns /\ new # {} /\ new \ tab.cols = new
    BY <1>3, <1>8, ColsFacts
  <2> HIDE DEF new
  <2>3. AddsColumns(todo', new) /\ (Appending => EndsWithViews(todo', Cols[mine]))
    BY <1>3, <1>4, <1>8, <2>1, <2>2, ColumnsPlan
  <2>4. todo' # <<>>
    BY <2>2, <2>3 DEF AddsColumns
  <2> QED
    BY <1>1, <1>2, <1>3, <1>8, <2>1, <2>3, <2>4 DEF new
<1> QED
  BY <1>5, <1>6, <1>7, <1>8

(* The plan of Receive for event n. *)
ReceivePlan(n) ==
  \/ /\ pc' = "event" /\ UNCHANGED <<todo, goal>>
     /\ trackVer # NoVersion /\ Cols[log[n].ver] \subseteq Cols[trackVer]
  \/ /\ pc' = "ddl" /\ goal' = "table" /\ trackVer = NoVersion
     /\ MakesTable(todo', Cols[log[n].ver])
     /\ Appending => EndsWithViews(todo', Cols[log[n].ver])
  \/ /\ pc' = "ddl" /\ goal' = "columns" /\ trackVer # NoVersion
     /\ AddsColumns(todo', (Cols[log[n].ver] \ Cols[trackVer]) \ known.cols)
     /\ Appending => EndsWithViews(todo', Cols[log[n].ver])

LEMMA ReceiveFacts ==
  ASSUME MInv, Receive
  PROVE  /\ pc = "ready" /\ cacheVer' = trackVer /\ trackSch' \subseteq Versions
         /\ UNCHANGED <<latest, trackVer, cfg, log, acked, mine, known, force, buf,
                        tab, hist, views, faults>>
         /\ \E n \in DOMAIN log :
              /\ n \notin acked \cup Pending
              /\ cfg.ordered => \A m \in 1..(n - 1) : m \in acked \cup Pending
              /\ cur' = n /\ diff' = log[n].diff
              /\ ReceivePlan(n)
<1>1. PICK n \in 1..MaxEvents :
        /\ Deliverable(n) /\ cur' = n /\ diff' = log[n].diff
        /\ LET v == TableVersion
               new == IF v = NoVersion THEN {} ELSE Cols[log[n].ver] \ Cols[v]
           IN  \/ /\ v = log[n].ver \/ (v # NoVersion /\ new = {})
                  /\ pc' = "event"
                  /\ UNCHANGED <<todo, goal>>
               \/ /\ v = NoVersion
                  /\ pc' = "ddl"
                  /\ goal' = "table"
                  /\ todo' = MigrateNewTable(log[n].ver, known)
               \/ /\ v # NoVersion /\ new # {}
                  /\ pc' = "ddl"
                  /\ goal' = "columns"
                  /\ todo' = MigrateNewColumns(log[n].ver, new, known)
        /\ StoreSchemas({log[n].ver} \cup ({TableVersion} \ {NoVersion}))
  BY DEF Receive
<1>2. TableVersion = trackVer
  BY Recorded DEF MInv
<1>3. n \in DOMAIN log /\ log[n].ver \in Versions
  BY <1>1, LogFacts DEF Deliverable
<1>4. trackVer = NoVersion \/ trackVer \in Versions
  BY VersionAssumption
     DEF MInv, FlagType, RegistryTypeOK, Versions, NoVersion, VersionAssumption
<1>5. trackSch' \subseteq Versions
  BY <1>1, <1>2, <1>3, <1>4 DEF StoreSchemas, MInv, FlagType, RegistryTypeOK
<1>6. ReceivePlan(n)
  <2> DEFINE new == Cols[log[n].ver] \ Cols[trackVer]
  <2>1. log[n].ver # NoVersion
    BY <1>3, VersionAssumption DEF Versions, NoVersion, VersionAssumption
  <2>2. CASE /\ trackVer = log[n].ver \/ (trackVer # NoVersion /\ new = {})
             /\ pc' = "event" /\ UNCHANGED <<todo, goal>>
    BY <2>1, <2>2 DEF ReceivePlan
  <2>3. CASE /\ trackVer = NoVersion /\ pc' = "ddl" /\ goal' = "table"
             /\ todo' = MigrateNewTable(log[n].ver, known)
    <3>1. /\ MakesTable(todo', Cols[log[n].ver])
          /\ Appending => EndsWithViews(todo', Cols[log[n].ver])
      BY <1>3, <2>3, TablePlan DEF MInv, FlagType
    <3> QED
      BY <2>3, <3>1 DEF ReceivePlan
  <2>4. CASE /\ trackVer # NoVersion /\ pc' = "ddl" /\ goal' = "columns"
             /\ todo' = MigrateNewColumns(log[n].ver, new, known)
    <3>1. new \in SUBSET Columns /\ known \in Tables
      BY <1>3, ColsFacts DEF MInv, TableType
    <3> HIDE DEF new
    <3>2. /\ AddsColumns(todo', new \ known.cols)
          /\ Appending => EndsWithViews(todo', Cols[log[n].ver])
      BY <1>3, <2>4, <3>1, ColumnsPlan
    <3> QED
      BY <2>4, <3>2 DEF ReceivePlan, new
  <2> QED
    BY <1>1, <1>2, <2>2, <2>3, <2>4
<1>7. n \notin acked \cup Pending /\ (cfg.ordered => \A m \in 1..(n - 1) : m \in acked \cup Pending)
  BY <1>1 DEF Deliverable
<1>8. /\ pc = "ready" /\ cacheVer' = trackVer
      /\ UNCHANGED <<latest, trackVer, cfg, log, acked, mine, known, force, buf,
                     tab, hist, views, faults>>
  BY <1>2 DEF Receive, CacheTableVersion, destVars
<1> QED
  BY <1>1, <1>3, <1>5, <1>6, <1>7, <1>8

(* The first statement is taken from todo, or loses one of its columns. *)
Popped ==
  /\ todo' \in Seq(Ddls) /\ DOMAIN todo' = 1..(Len(todo) - 1)
  /\ \A i \in DOMAIN todo' : todo'[i] = todo[i + 1]
Shrunk(c) ==
  /\ todo' \in Seq(Ddls) /\ DOMAIN todo' = DOMAIN todo
  /\ todo'[1].k = "alter" /\ todo'[1].cols = todo[1].cols \ {c}
  /\ \A i \in DOMAIN todo : i # 1 => todo'[i] = todo[i]

LEMMA ExecFacts ==
  ASSUME MInv, ExecDdl
  PROVE  /\ pc = "ddl"
         /\ UNCHANGED <<registryVars, cfg, log, acked, pc, mine, known, goal, cur, diff, force, buf, faults>>
         /\ Len(todo) \in Nat /\ 1 \in DOMAIN todo /\ DOMAIN todo = 1..Len(todo) /\ todo[1] \in Ddls
         /\ \/ /\ Anew(todo[1]) /\ Popped /\ hist' = <<>>
               /\ tab' = IF todo[1].k = "drop" THEN None ELSE Table(todo[1].cols)
               /\ need' = todo[1].need
               /\ views' = IF todo[1].k = "history" THEN [v \in ViewNames |-> None] ELSE views
            \/ /\ todo[1].k = "alter"
               /\ \E c \in todo[1].cols \ tab.cols :
                    /\ tab' = Table(tab.cols \cup {c})
                    /\ (todo[1].cols = {c} /\ Popped) \/ Shrunk(c)
               /\ UNCHANGED <<need, hist, views>>
            \/ /\ todo[1].k \in {"view", "drop_view"} /\ Popped
               /\ views' = [views EXCEPT ![todo[1].view] =
                              IF todo[1].k = "view" THEN Table(todo[1].cols) ELSE None]
               /\ UNCHANGED <<tab, need, hist>>
<1> DEFINE d == todo[1]
<1>1. /\ todo \in Seq(Ddls) /\ todo # <<>> /\ Len(todo) \in Nat /\ Len(todo) >= 1
      /\ DOMAIN todo = 1..Len(todo) /\ 1 \in DOMAIN todo /\ d \in Ddls
  BY ElementOfSeq, LenProperties, EmptySeq DEF MInv, DataType, ExecDdl
<1>2. Head(todo) = d
  BY <1>1
<1>3. /\ Tail(todo) \in Seq(Ddls) /\ Len(Tail(todo)) = Len(todo) - 1
      /\ \A i \in 1..Len(Tail(todo)) : Tail(todo)[i] = todo[i + 1]
  BY <1>1, HeadTailProperties
<1>4. DOMAIN Tail(todo) = 1..(Len(todo) - 1)
  BY <1>3, LenProperties
<1>5. ASSUME todo' = Tail(todo) PROVE Popped
  BY <1>3, <1>4, <1>5 DEF Popped
<1>6. ASSUME NEW c, d.k = "alter", todo' = <<[d EXCEPT !.cols = @ \ {c}]>> \o Tail(todo)
      PROVE  Shrunk(c)
  <2> DEFINE e == [d EXCEPT !.cols = @ \ {c}]
             t == Tail(todo)
  <2>1. e \in Ddls /\ e.k = "alter" /\ e.cols = d.cols \ {c}
    BY <1>1, <1>6 DEF Ddls
  <2> HIDE DEF e, d, t
  <2>2. t \in Seq(Ddls) /\ Len(t) = Len(todo) - 1 /\ \A i \in 1..Len(t) : t[i] = todo[i + 1]
    BY <1>3 DEF t
  <2>3. <<e>> \in Seq(Ddls) /\ Len(<<e>>) = 1 /\ <<e>>[1] = e
    BY <2>1
  <2>4. /\ <<e>> \o t \in Seq(Ddls) /\ Len(<<e>> \o t) = Len(<<e>>) + Len(t)
        /\ \A i \in 1..(Len(<<e>>) + Len(t)) :
             (<<e>> \o t)[i] = IF i <= Len(<<e>>) THEN <<e>>[i] ELSE t[i - Len(<<e>>)]
    BY <2>2, <2>3, ConcatProperties
  <2>5. todo' = <<e>> \o t
    BY <1>6 DEF e, t
  <2>6. /\ todo' \in Seq(Ddls) /\ Len(todo') = Len(todo)
        /\ \A i \in 1..Len(todo) : todo'[i] = IF i <= 1 THEN <<e>>[i] ELSE t[i - 1]
    <3>1. Len(<<e>>) + Len(t) = Len(todo)
      BY <1>1, <2>2, <2>3
    <3>2. /\ todo' \in Seq(Ddls) /\ Len(todo') = Len(<<e>>) + Len(t)
          /\ \A i \in 1..(Len(<<e>>) + Len(t)) :
               todo'[i] = IF i <= Len(<<e>>) THEN <<e>>[i] ELSE t[i - Len(<<e>>)]
      BY <2>4, <2>5, Zenon
    <3> QED
      BY <2>3, <3>1, <3>2, Zenon
  <2>7. DOMAIN todo' = DOMAIN todo
    BY <1>1, <2>6, LenProperties
  <2>8. todo'[1] = e
    BY <1>1, <2>3, <2>6
  <2>9. \A i \in DOMAIN todo : i # 1 => todo'[i] = todo[i]
    <3> SUFFICES ASSUME NEW i \in DOMAIN todo, i # 1 PROVE todo'[i] = todo[i]
      OBVIOUS
    <3>1. i \in 1..Len(todo) /\ ~(i <= 1) /\ i - 1 \in 1..Len(t) /\ (i - 1) + 1 = i
      BY <1>1, <2>2
    <3>2. todo'[i] = t[i - 1]
      BY <2>6, <3>1
    <3> QED
      BY <2>2, <3>1, <3>2
  <2> QED
    BY <2>1, <2>6, <2>7, <2>8, <2>9 DEF Shrunk, d
<1>7. /\ pc = "ddl"
      /\ UNCHANGED <<registryVars, cfg, log, acked, pc, mine, known, goal, cur, diff, force, buf, faults>>
  BY DEF ExecDdl
<1>8. \/ /\ d.k \in {"drop", "create", "history"}
         /\ tab' = IF d.k = "drop" THEN None ELSE Table(d.cols)
         /\ need' = d.need
         /\ hist' = <<>>
         /\ views' = IF d.k = "history" THEN [v \in ViewNames |-> None] ELSE views
         /\ todo' = Tail(todo)
      \/ /\ d.k = "alter"
         /\ \E c \in d.cols \ tab.cols :
              /\ tab' = Table(tab.cols \cup {c})
              /\ todo' = IF d.cols = {c} THEN Tail(todo)
                         ELSE <<[d EXCEPT !.cols = @ \ {c}]>> \o Tail(todo)
         /\ UNCHANGED <<need, hist, views>>
      \/ /\ d.k \in {"view", "drop_view"}
         /\ views' = [views EXCEPT ![d.view] = IF d.k = "view" THEN Table(d.cols) ELSE None]
         /\ todo' = Tail(todo)
         /\ UNCHANGED <<tab, need, hist>>
  BY <1>2 DEF ExecDdl
<1> HIDE DEF d
<1>9. \/ /\ Anew(d) /\ Popped /\ hist' = <<>>
         /\ tab' = IF d.k = "drop" THEN None ELSE Table(d.cols)
         /\ need' = d.need
         /\ views' = IF d.k = "history" THEN [v \in ViewNames |-> None] ELSE views
      \/ /\ d.k = "alter"
         /\ \E c \in d.cols \ tab.cols :
              /\ tab' = Table(tab.cols \cup {c})
              /\ (d.cols = {c} /\ Popped) \/ Shrunk(c)
         /\ UNCHANGED <<need, hist, views>>
      \/ /\ d.k \in {"view", "drop_view"} /\ Popped
         /\ views' = [views EXCEPT ![d.view] = IF d.k = "view" THEN Table(d.cols) ELSE None]
         /\ UNCHANGED <<tab, need, hist>>
  <2>1. CASE d.k \in {"drop", "create", "history"}
    BY <1>5, <1>8, <2>1 DEF Anew
  <2>2. CASE d.k = "alter"
    BY <1>5, <1>6, <1>8, <2>2
  <2>3. CASE d.k \in {"view", "drop_view"}
    BY <1>5, <1>8, <2>3
  <2> QED
    BY <1>8, <2>1, <2>2, <2>3
<1> QED
  BY <1>1, <1>7, <1>9 DEF d

LEMMA BufFacts ==
  ASSUME MInv
  PROVE  /\ Len(buf) \in Nat /\ DOMAIN buf = 1..Len(buf)
         /\ \A i \in DOMAIN buf : buf[i] \in Stmts /\ buf[i].msg \in DOMAIN log
         /\ Pending \subseteq DOMAIN log
<1>1. /\ Len(buf) \in Nat /\ DOMAIN buf = 1..Len(buf)
      /\ \A i \in DOMAIN buf : buf[i] \in Stmts
  BY ElementOfSeq, LenProperties DEF MInv, DataType
<1>2. \A i \in DOMAIN buf : buf[i].msg \in DOMAIN log
  BY DEF MInv, StmtInv
<1> QED
  BY <1>1, <1>2 DEF Pending

(* A new event leaves the others where they are. *)
LEMMA PublishKeeps ==
  ASSUME MInv, Publish
  PROVE  \A n \in DOMAIN log : n \in DOMAIN log' /\ log'[n] = log[n]
<1>1. PICK e \in Events : log' = Append(log, e)
  BY PublishFacts
<1>2. /\ Append(log, e) \in Seq(Events) /\ Len(Append(log, e)) = Len(log) + 1
      /\ \A i \in 1..Len(log) : Append(log, e)[i] = log[i]
  BY AppendProperties DEF MInv, DataType
<1>3. /\ log' \in Seq(Events) /\ Len(log') = Len(log) + 1
      /\ \A i \in 1..Len(log) : log'[i] = log[i]
  BY <1>1, <1>2, Zenon
<1>4. DOMAIN log' = 1..(Len(log) + 1)
  BY <1>3, LenProperties
<1> QED
  BY <1>3, <1>4, LogFacts

LEMMA FinishFacts ==
  ASSUME MInv, FinishDdl
  PROVE  /\ pc = "ddl" /\ todo = <<>> /\ known' = tab
         /\ UNCHANGED <<latest, trackSch, cfg, log, acked, mine, todo, goal, cur, buf,
                        tab, hist, views, faults>>
         /\ tab.there /\ Cols[Goal] \subseteq tab.cols
         /\ \/ goal = "boot" /\ pc' = "ready" /\ UNCHANGED <<diff, force, trackVer, cacheVer>>
            \/ /\ goal # "boot" /\ cur \in DOMAIN log /\ log[cur].ver \in Versions
               /\ pc' = "event" /\ force' = TRUE /\ diff' \subseteq Columns
               /\ trackVer' = log[cur].ver /\ cacheVer' = log[cur].ver
<1>1. /\ pc = "ddl" /\ todo = <<>> /\ known' = tab
      /\ UNCHANGED <<latest, trackSch, cfg, log, acked, mine, todo, goal, cur, buf,
                     tab, hist, views, faults>>
  BY DEF FinishDdl, RefreshSchema, destVars
<1>2. tab.there /\ Cols[Goal] \subseteq tab.cols
  <2>1. DOMAIN todo = {}
    BY <1>1
  <2> QED
    BY <1>1, <2>1 DEF MInv, DdlInv, Covered
<1>3. CASE goal = "boot"
  BY <1>1, <1>2, <1>3 DEF FinishDdl
<1>4. CASE goal # "boot"
  <2>1. cur \in DOMAIN log /\ log[cur].ver \in Versions
    BY <1>1, <1>4, LogFacts DEF MInv, CurInv, Handling
  <2>2. Cols[log[cur].ver] \in SUBSET Columns /\ diff \subseteq Columns
    BY <2>1, ColsFacts DEF MInv, FlagType
  <2>3. /\ pc' = "event" /\ force' = TRUE
        /\ diff' \in {diff, diff \cup (Cols[log[cur].ver] \ Cols[TableVersion])}
        /\ trackVer' = log[cur].ver /\ cacheVer' = log[cur].ver
    BY <1>4 DEF FinishDdl, SetTableVersion
  <2> QED
    BY <1>1, <1>2, <1>4, <2>1, <2>2, <2>3
<1> QED
  BY <1>3, <1>4

LEMMA ProcessFacts ==
  ASSUME MInv, Process
  PROVE  /\ pc = "event" /\ cur \in DOMAIN log /\ cur \notin acked \cup Pending
         /\ trackVer \in Versions
         /\ pc' \in {"flush", "ready"} /\ cur' = 0 /\ diff' = {} /\ force' = FALSE
         /\ UNCHANGED <<registryVars, cfg, log, acked, mine, known, todo, goal, tab, hist,
                        views, faults>>
         /\ buf' \in Seq(Stmts) /\ DOMAIN buf' = 1..(Len(buf) + 1) /\ buf' # <<>>
         /\ \A i \in DOMAIN buf : buf'[i] = buf[i]
         /\ \E s \in Stmts : /\ buf'[Len(buf) + 1] = s
                             /\ s.cols \subseteq Cols[trackVer] /\ s.msg = cur
                             /\ Appending => /\ ~s.bad /\ s.op = log[cur].op
                                             /\ s.cols = Cols[trackVer]
                                             /\ s.ins = log[cur].row
<1>1. /\ pc = "event" /\ cur' = 0 /\ diff' = {} /\ force' = FALSE /\ pc' \in {"flush", "ready"}
      /\ UNCHANGED <<registryVars, cfg, log, acked, mine, known, todo, goal, tab, hist, views, faults>>
  BY DEF Process, destVars
<1>2. cur \in DOMAIN log /\ cur \notin acked \cup Pending
  BY <1>1 DEF MInv, CurInv, Handling
<1>3. trackVer \in Versions /\ Cols[trackVer] \in SUBSET Columns
  BY <1>1, ColsFacts, VersionAssumption
     DEF MInv, VersionInv, FlagType, RegistryTypeOK, Versions, NoVersion, VersionAssumption
<1> DEFINE e == [log[cur] EXCEPT !.diff = diff]
           s == ToSql(cfg.dialect, cfg.mode, e, cur, Cols[trackVer])
<1>4. log[cur] \in Events /\ cur \in Nat
  BY <1>2, LogFacts
<1>5. e \in Events /\ e.op = log[cur].op /\ e.row = log[cur].row /\ e.shown = log[cur].shown
  BY <1>4 DEF Events, MInv, FlagType
<1>6. buf' = Append(buf, s)
  BY Recorded DEF Process, MInv
<1> HIDE DEF e
<1>7. /\ s \in Stmts /\ s.cols \subseteq Cols[trackVer] /\ s.msg = cur
      /\ Appending => /\ ~s.bad /\ s.op = e.op /\ s.cols = Cols[trackVer]
                      /\ \A c \in Columns :
                           s.ins[c] = IF e.op = "DELETE" \/ c \notin e.shown
                                      THEN Null ELSE e.row[c]
  BY <1>3, <1>4, <1>5, StmtFacts DEF MInv, FlagType
<1> HIDE DEF s
<1>8. Appending => s.ins = log[cur].row
  <2> SUFFICES ASSUME Appending PROVE s.ins = log[cur].row
    OBVIOUS
  <2>1. s.ins \in [Columns -> Values] /\ log[cur].row \in [Columns -> Values]
    BY <1>4, <1>7 DEF Stmts, Events, Vals
  <2>2. \A c \in Columns : s.ins[c] = log[cur].row[c]
    BY <1>2, <1>5, <1>7 DEF MInv, LogInv
  <2> QED
    BY <2>1, <2>2
<1>9. /\ buf' \in Seq(Stmts) /\ buf' # <<>> /\ Len(buf') = Len(buf) + 1
      /\ \A i \in 1..Len(buf) : buf'[i] = buf[i]
      /\ buf'[Len(buf) + 1] = s
  <2>1. buf \in Seq(Stmts)
    BY DEF MInv, DataType
  <2>2. /\ Append(buf, s) \in Seq(Stmts) /\ Append(buf, s) # <<>>
        /\ Len(Append(buf, s)) = Len(buf) + 1
        /\ \A i \in 1..Len(buf) : Append(buf, s)[i] = buf[i]
        /\ Append(buf, s)[Len(buf) + 1] = s
    BY <1>7, <2>1, AppendProperties
  <2>3. buf' = Append(buf, s)
    BY <1>6 DEF s
  <2> QED
    BY <2>2, <2>3, Zenon
<1>10. DOMAIN buf' = 1..(Len(buf) + 1)
  BY <1>9, LenProperties
<1> QED
  BY <1>1, <1>2, <1>3, <1>5, <1>7, <1>8, <1>9, <1>10, BufFacts

LEMMA NextCases ==
  ASSUME [Next]_vars
  PROVE  \/ SchemaChange \/ Publish \/ Boot \/ Reconcile \/ Receive \/ ExecDdl \/ FinishDdl
         \/ Process \/ FlushIdle \/ Flush \/ Ack \/ Ending \/ CacheExpires \/ UNCHANGED vars
BY DEF Next, Work, Ending

-----------------------------------------------------------------------------
(* Every step keeps the invariant, conjunct by conjunct. *)

LEMMA FlagStep == MInv /\ [Next]_vars => FlagType'
<1> SUFFICES ASSUME MInv, [Next]_vars PROVE FlagType'
  OBVIOUS
<1> USE DEF FlagType, RegistryTypeOK, NoVersion
<1>0. FlagType
  BY DEF MInv
<1>1. CASE SchemaChange
  BY <1>0, <1>1, VersionAssumption DEF SchemaChange, trackerVars, workerVars, VersionAssumption
<1>2. CASE Publish
  BY <1>0, <1>2 DEF Publish, registryVars, workerVars
<1>3. CASE Boot
  BY <1>0, <1>3, VersionAssumption DEF Boot, SeedRegistry, Versions, VersionAssumption
<1>4. CASE Reconcile
  BY <1>0, <1>4, ReconcileFacts, VersionAssumption DEF Reconcile, trackerVars, VersionAssumption
<1>5. CASE Receive
  <2>1. PICK n \in DOMAIN log : cur' = n /\ diff' = log[n].diff /\ ReceivePlan(n)
    BY <1>5, ReceiveFacts
  <2>2. cur' \in 0..MaxEvents /\ diff' \subseteq Columns
    BY <2>1, LogFacts, DialectAssumption DEF Events, DialectAssumption
  <2>3. pc' \in {"event", "ddl"} /\ goal' \in {goal, "table", "columns"}
    BY <2>1 DEF ReceivePlan
  <2> QED
    BY <1>0, <1>5, <2>2, <2>3, ReceiveFacts
<1>6. CASE ExecDdl
  BY <1>0, <1>6 DEF ExecDdl, registryVars
<1>7. CASE FinishDdl
  <2>1. CASE goal = "boot"
    BY <1>0, <1>7, <2>1, FinishFacts
  <2>2. CASE goal # "boot"
    <3>1. log[cur].ver \in 0..MaxVersion
      <4>1. log[cur].ver \in Versions
        BY <1>7, <2>2, FinishFacts
      <4> QED
        BY <4>1, VersionFacts
    <3>2. force' \in BOOLEAN /\ pc' = "event" /\ diff' \subseteq Columns
      BY <1>7, <2>2, FinishFacts
    <3>3. trackVer' = log[cur].ver /\ cacheVer' = log[cur].ver
      BY <1>7, <2>2, FinishFacts
    <3>4. UNCHANGED <<latest, trackSch, cfg, mine, goal, cur, faults>>
      BY <1>7, FinishFacts
    <3> QED
      BY <1>0, <3>1, <3>2, <3>3, <3>4
  <2> QED
    BY <2>1, <2>2
<1>8. CASE Process
  BY <1>0, <1>8, ProcessFacts, DialectAssumption DEF registryVars, DialectAssumption
<1>9. CASE FlushIdle
  BY <1>0, <1>9 DEF FlushIdle, registryVars
<1>10. CASE Flush
  BY <1>0, <1>10 DEF Flush, registryVars
<1>11. CASE Ack
  BY <1>0, <1>11 DEF Ack, registryVars
<1>12. CASE Ending
  BY <1>0, <1>12, EndingFacts, DialectAssumption, MigrationAssumption, VersionAssumption
     DEF DialectAssumption, MigrationAssumption, VersionAssumption
<1>13. CASE CacheExpires
  BY <1>0, <1>13, VersionAssumption
     DEF CacheExpires, DropCache, trackerVars, workerVars, VersionAssumption
<1>14. CASE UNCHANGED vars
  BY <1>0, <1>14 DEF vars, registryVars, workerVars
<1> QED
  BY <1>1, <1>2, <1>3, <1>4, <1>5, <1>6, <1>7, <1>8, <1>9, <1>10, <1>11, <1>12, <1>13, <1>14,
     NextCases

LEMMA DataStep == MInv /\ [Next]_vars => DataType'
<1> SUFFICES ASSUME MInv, [Next]_vars PROVE DataType'
  OBVIOUS
<1>0. DataType
  BY DEF MInv
<1>1. CASE UNCHANGED <<cfg, log, acked, todo, buf, hist>>
  BY <1>0, <1>1 DEF DataType
<1>2. CASE Publish
  <2>1. PICK e \in Events : log' = Append(log, e) /\ Len(log) < cfg.events
    BY <1>2, PublishFacts
  <2>2. /\ Append(log, e) \in Seq(Events) /\ Len(Append(log, e)) = Len(log) + 1
    BY <1>0, AppendProperties DEF DataType
  <2>3. log' \in Seq(Events) /\ Len(log') = Len(log) + 1
    BY <2>1, <2>2, Zenon
  <2>4. DOMAIN log' = 1..(Len(log) + 1)
    BY <2>3, LenProperties
  <2>5. acked \subseteq DOMAIN log' /\ Len(log') <= cfg.events
    BY <1>0, <2>1, <2>3, <2>4, LogFacts, ConfigFacts DEF DataType, MInv, FlagType
  <2> QED
    BY <1>0, <1>2, <2>3, <2>5 DEF DataType, Publish, workerVars, destVars
<1>3. CASE Reconcile
  <2>1. todo' \in Seq(Ddls)
    BY <1>3, ReconcileFacts, EmptySeq DEF MakesTable, AddsColumns
  <2> QED
    BY <1>0, <1>3, <2>1 DEF DataType, Reconcile, destVars
<1>4. CASE Receive
  <2>1. todo' \in Seq(Ddls)
    BY <1>0, <1>4, ReceiveFacts DEF ReceivePlan, DataType, MakesTable, AddsColumns
  <2> QED
    BY <1>0, <1>4, <2>1, ReceiveFacts DEF DataType
<1>5. CASE ExecDdl
  <2>1. todo' \in Seq(Ddls)
    BY <1>5, ExecFacts DEF Popped, Shrunk
  <2>2. hist' \in Seq(HistRecords)
    BY <1>0, <1>5, ExecFacts, EmptySeq DEF DataType
  <2> QED
    BY <1>0, <1>5, <2>1, <2>2, ExecFacts DEF DataType
<1>6. CASE FinishDdl
  BY <1>0, <1>6, FinishFacts DEF DataType
<1>7. CASE Process
  BY <1>0, <1>7, ProcessFacts DEF DataType
<1>8. CASE Flush
  BY <1>0, <1>8, FlushFacts DEF DataType, Flush
<1>9. CASE Ack
  <2>1. acked' \subseteq DOMAIN log /\ buf' = <<>>
    BY <1>0, <1>9, BufFacts DEF DataType, Ack
  <2> QED
    BY <1>0, <1>9, <2>1, EmptySeq DEF DataType, Ack, destVars
<1>10. CASE Ending
  <2>1. acked' \subseteq DOMAIN log
    <3>1. CASE AckFails
      <4>1. PICK n \in 0..(Len(buf) - 1) : acked' = acked \cup {buf[i].msg : i \in 1..n}
        BY <3>1 DEF AckFails
      <4>2. \A i \in 1..n : i \in DOMAIN buf
        BY <4>1, BufFacts
      <4> QED
        BY <1>0, <4>1, <4>2, BufFacts DEF DataType
    <3>2. CASE acked' = acked
      BY <1>0, <3>2 DEF DataType
    <3> QED
      BY <1>10, <3>1, <3>2, EndingFacts
  <2>2. hist' \in Seq(HistRecords)
    BY <1>0, <1>10, EndingFacts, FlushFacts DEF DataType
  <2>3. todo' \in Seq(Ddls) /\ buf' \in Seq(Stmts)
    BY <1>10, EndingFacts, EmptySeq
  <2> QED
    BY <1>0, <1>10, <2>1, <2>2, <2>3, EndingFacts DEF DataType
<1> QED
  BY <1>1, <1>2, <1>3, <1>4, <1>5, <1>6, <1>7, <1>8, <1>9, <1>10, NextCases
     DEF SchemaChange, Boot, FlushIdle, CacheExpires, vars, workerVars, destVars

LEMMA TableTypeStep == MInv /\ [Next]_vars => TableType'
<1> SUFFICES ASSUME MInv, [Next]_vars PROVE TableType'
  OBVIOUS
<1>0. TableType
  BY DEF MInv
<1>1. CASE known' \in {known, tab, None} /\ UNCHANGED <<tab, need, views>>
  <2>1. None \in Tables
    BY DEF None, Tables
  <2> QED
    BY <1>0, <1>1, <2>1 DEF TableType
<1>2. CASE ExecDdl
  <2>1. /\ None \in Tables
        /\ \A S \in SUBSET Columns : Table(S) \in Tables
        /\ tab.cols \in SUBSET Columns /\ todo[1].cols \in SUBSET Columns
        /\ todo[1].view \in ViewNames /\ todo[1].need \in SUBSET Columns
    BY <1>0, <1>2, ExecFacts DEF None, Table, Tables, TableType, Ddls
  <2>2. known' = known
    BY <1>2, ExecFacts
  <2>3. tab' \in Tables /\ need' \subseteq Columns
    BY <1>0, <1>2, <2>1, ExecFacts DEF TableType
  <2>4. views' \in [ViewNames -> Tables]
    <3>1. CASE views' = views \/ views' = [v \in ViewNames |-> None]
      BY <1>0, <2>1, <3>1 DEF TableType
    <3>2. CASE views' = [views EXCEPT ![todo[1].view] =
                           IF todo[1].k = "view" THEN Table(todo[1].cols) ELSE None]
      BY <1>0, <2>1, <3>2 DEF TableType
    <3> QED
      BY <1>2, <3>1, <3>2, ExecFacts
  <2> QED
    BY <1>0, <2>2, <2>3, <2>4 DEF TableType
<1>3. CASE Reconcile
  BY <1>1, <1>3, ReconcileFacts DEF Reconcile, destVars
<1>4. CASE Receive
  BY <1>1, <1>4, ReceiveFacts DEF Receive, destVars
<1>5. CASE FinishDdl
  BY <1>1, <1>5, FinishFacts DEF FinishDdl, destVars
<1>6. CASE Process
  BY <1>1, <1>6, ProcessFacts DEF Process, destVars
<1>7. CASE Ending
  BY <1>1, <1>7, EndingFacts
<1> QED
  BY <1>1, <1>2, <1>3, <1>4, <1>5, <1>6, <1>7, NextCases
     DEF SchemaChange, Publish, Boot, FlushIdle, Flush, Ack, CacheExpires, vars, workerVars, destVars

(* A migration only adds to the destination. *)
LEMMA TableGrows ==
  ASSUME MInv, [Next]_vars
  PROVE  /\ tab.there => tab'.there
         /\ tab.cols \subseteq tab'.cols
         /\ Len(hist) <= Len(hist')
<1>0. hist \in Seq(HistRecords) /\ Len(hist) \in Nat
  BY LenProperties DEF MInv, DataType
<1>1. CASE UNCHANGED <<tab, hist>>
  BY <1>0, <1>1
<1>2. CASE ExecDdl
  <2>1. CASE Anew(todo[1])
    <3>1. ~tab.there /\ tab.cols = {} /\ hist = <<>>
      BY <1>2, <2>1, ExecFacts DEF MInv, DdlInv, TableInv
    <3>2. hist' = <<>>
      BY <1>2, <2>1, ExecFacts DEF Anew
    <3> QED
      BY <1>0, <3>1, <3>2
  <2>2. CASE ~Anew(todo[1])
    <3>1. hist' = hist /\ (tab' = tab \/ \E c : tab' = Table(tab.cols \cup {c}))
      BY <1>2, <2>2, ExecFacts
    <3> QED
      BY <1>0, <3>1 DEF Table
  <2> QED
    BY <2>1, <2>2
<1>3. CASE Flush
  BY <1>3, FlushFacts DEF Flush
<1>4. CASE Ending
  BY <1>0, <1>4, EndingFacts, FlushFacts
<1>5. CASE Receive
  BY <1>1, <1>5, ReceiveFacts
<1>6. CASE FinishDdl
  BY <1>1, <1>6, FinishFacts
<1>7. CASE Process
  BY <1>1, <1>7, ProcessFacts
<1> QED
  BY <1>1, <1>2, <1>3, <1>4, <1>5, <1>6, <1>7, NextCases
     DEF SchemaChange, Publish, Boot, Reconcile, FlushIdle, Ack, CacheExpires, vars, destVars

LEMMA VersionStep == MInv /\ [Next]_vars => VersionInv'
<1> SUFFICES ASSUME MInv, [Next]_vars PROVE VersionInv'
  OBVIOUS
<1> USE DEF NoVersion
<1>0. /\ VersionInv
      /\ latest \in Nat /\ trackVer \in Nat /\ mine \in Nat /\ cacheVer \in Nat
  BY VersionAssumption DEF MInv, FlagType, RegistryTypeOK, VersionAssumption
<1>1. CASE SchemaChange
  BY <1>0, <1>1 DEF VersionInv, SchemaChange, trackerVars, workerVars, destVars
<1>2. CASE Publish
  BY <1>0, <1>2 DEF VersionInv, Publish, registryVars, workerVars, destVars
<1>3. CASE Boot
  BY <1>0, <1>3 DEF VersionInv, Boot, SeedRegistry, destVars
<1>4. CASE Reconcile
  <2>1. trackVer = mine /\ pc' \in {"ready", "ddl"} /\ (pc' = "ddl" => mine # NoVersion)
    BY <1>0, <1>4, ReconcileFacts, VersionAssumption DEF VersionInv, Versions, VersionAssumption
  <2>2. UNCHANGED <<latest, trackVer, mine, buf, tab>>
    BY <1>4 DEF Reconcile, trackerVars, destVars
  <2> QED
    BY <1>0, <1>4, <2>1, <2>2, ReconcileFacts DEF VersionInv
<1>5. CASE Receive
  <2>1. PICK n \in DOMAIN log : ReceivePlan(n)
    BY <1>5, ReceiveFacts
  <2>2. \/ pc' = "event" /\ trackVer # NoVersion
        \/ pc' = "ddl" /\ goal' = "table" /\ trackVer = NoVersion
        \/ pc' = "ddl" /\ goal' = "columns" /\ trackVer # NoVersion
    BY <2>1 DEF ReceivePlan
  <2> QED
    BY <1>0, <1>5, <2>2, ReceiveFacts DEF VersionInv
<1>6. CASE ExecDdl
  <2>1. UNCHANGED <<latest, trackVer, cacheVer, mine, pc, goal, buf>> /\ pc = "ddl"
    BY <1>6, ExecFacts DEF registryVars
  <2>2. latest # NoVersion
    <3>1. CASE goal = "boot"
      BY <1>0, <2>1, <3>1 DEF VersionInv
    <3>2. CASE goal # "boot"
      <4>1. cur \in DOMAIN log
        BY <2>1, <3>2 DEF MInv, CurInv, Handling
      <4> QED
        BY <1>0, <4>1, LogFacts, VersionAssumption DEF Versions, VersionAssumption
    <3> QED
      BY <3>1, <3>2
  <2> QED
    BY <1>0, <2>1, <2>2 DEF VersionInv
<1>7. CASE FinishDdl
  <2>1. CASE goal = "boot"
    BY <1>0, <1>7, <2>1, FinishFacts DEF VersionInv
  <2>2. CASE goal # "boot"
    <3>1. log[cur].ver <= latest /\ log[cur].ver # NoVersion
      <4>1. cur \in DOMAIN log /\ log[cur].ver \in Versions
        BY <1>7, <2>2, FinishFacts
      <4> QED
        BY <4>1, VersionFacts, LogFacts
    <3> QED
      BY <1>0, <1>7, <2>2, <3>1, FinishFacts DEF VersionInv
  <2> QED
    BY <2>1, <2>2
<1>8. CASE Process
  <2>1. trackVer # NoVersion
    BY <1>0, <1>8, ProcessFacts DEF VersionInv
  <2> QED
    BY <1>0, <1>8, <2>1, ProcessFacts DEF VersionInv, registryVars
<1>9. CASE FlushIdle
  BY <1>0, <1>9 DEF VersionInv, FlushIdle, registryVars, destVars
<1>10. CASE Flush
  BY <1>0, <1>10 DEF VersionInv, Flush, registryVars
<1>11. CASE Ack
  BY <1>0, <1>11 DEF VersionInv, Ack, registryVars, destVars
<1>12. CASE Ending
  BY <1>0, <1>12, EndingFacts DEF VersionInv
<1>13. CASE CacheExpires
  BY <1>0, <1>13 DEF VersionInv, CacheExpires, DropCache, trackerVars, workerVars, destVars
<1>14. CASE UNCHANGED vars
  BY <1>0, <1>14 DEF VersionInv, vars, registryVars, workerVars, destVars
<1> QED
  BY <1>1, <1>2, <1>3, <1>4, <1>5, <1>6, <1>7, <1>8, <1>9, <1>10, <1>11, <1>12, <1>13, <1>14,
     NextCases

LEMMA LogStep == MInv /\ [Next]_vars => LogInv'
<1> SUFFICES ASSUME MInv, [Next]_vars PROVE LogInv'
  OBVIOUS
<1>0. LogInv /\ latest \in Nat
  BY VersionAssumption DEF MInv, FlagType, RegistryTypeOK, VersionAssumption
<1>1. CASE log' = log /\ latest' \in {latest, latest + 1}
  BY <1>0, <1>1 DEF LogInv
<1>2. CASE Publish
  <2>1. PICK e \in Events :
           /\ log' = Append(log, e) /\ e.ver = latest /\ latest \in Versions
           /\ \A c \in Columns : (c \notin e.shown \/ e.op = "DELETE") => e.row[c] = Null
    BY <1>2, PublishFacts
  <2>2. /\ log' \in Seq(Events) /\ Len(log') = Len(log) + 1
        /\ \A i \in 1..Len(log) : log'[i] = log[i]
        /\ log'[Len(log) + 1] = e
    <3>1. /\ Append(log, e) \in Seq(Events) /\ Len(Append(log, e)) = Len(log) + 1
          /\ \A i \in 1..Len(log) : Append(log, e)[i] = log[i]
          /\ Append(log, e)[Len(log) + 1] = e
      BY AppendProperties DEF MInv, DataType
    <3> QED
      BY <2>1, <3>1, Zenon
  <2>3. DOMAIN log' = 1..(Len(log) + 1)
    BY <2>2, LenProperties
  <2>4. latest' = latest /\ latest \in 1..latest
    BY <1>2, <2>1, VersionAssumption DEF Publish, registryVars, Versions, VersionAssumption
  <2>5. \A n \in DOMAIN log' : (n \in DOMAIN log /\ log'[n] = log[n]) \/ (n = Len(log) + 1 /\ log'[n] = e)
    BY <2>2, <2>3, LogFacts
  <2>6. \A n \in DOMAIN log' : log'[n].ver \in 1..latest
    BY <1>0, <2>1, <2>4, <2>5 DEF LogInv
  <2>7. \A m, n \in DOMAIN log' : m < n => log'[m].ver <= log'[n].ver
    <3> SUFFICES ASSUME NEW m \in DOMAIN log', NEW n \in DOMAIN log', m < n
                 PROVE  log'[m].ver <= log'[n].ver
      OBVIOUS
    <3>1. m \in DOMAIN log /\ log'[m] = log[m]
      BY <2>3, <2>5, LogFacts
    <3>2. CASE n \in DOMAIN log /\ log'[n] = log[n]
      BY <1>0, <3>1, <3>2 DEF LogInv
    <3>3. CASE log'[n] = e
      BY <2>1, <3>1, <3>3, LogFacts
    <3> QED
      BY <2>5, <3>2, <3>3
  <2>8. \A n \in DOMAIN log' : \A c \in Columns :
          (c \notin log'[n].shown \/ log'[n].op = "DELETE") => log'[n].row[c] = Null
    BY <1>0, <2>1, <2>5 DEF LogInv
  <2> QED
    BY <2>4, <2>6, <2>7, <2>8 DEF LogInv
<1>3. CASE Receive
  BY <1>1, <1>3, ReceiveFacts
<1>4. CASE ExecDdl
  BY <1>1, <1>4, ExecFacts DEF registryVars
<1>5. CASE FinishDdl
  BY <1>1, <1>5, FinishFacts
<1>6. CASE Process
  BY <1>1, <1>6, ProcessFacts DEF registryVars
<1>7. CASE Ending
  BY <1>1, <1>7, EndingFacts
<1> QED
  BY <1>1, <1>2, <1>3, <1>4, <1>5, <1>6, <1>7, NextCases
     DEF SchemaChange, Boot, Reconcile, FlushIdle, Flush, Ack, CacheExpires, vars, registryVars

LEMMA CurStep == MInv /\ [Next]_vars => CurInv'
<1> SUFFICES ASSUME MInv, [Next]_vars PROVE CurInv'
  OBVIOUS
<1>0. CurInv
  BY DEF MInv
<1>1. CASE ~Handling'
  BY <1>1 DEF CurInv
<1>2. CASE /\ UNCHANGED <<pc, goal, cur, acked, buf, trackVer>>
           /\ \A n \in DOMAIN log : n \in DOMAIN log' /\ log'[n] = log[n]
  BY <1>0, <1>2 DEF CurInv, Handling, Pending
<1>3. CASE Publish
  BY <1>2, <1>3, PublishKeeps DEF Publish, registryVars, workerVars
<1>4. CASE Receive
  <2>1. PICK n \in DOMAIN log : n \notin acked \cup Pending /\ cur' = n /\ ReceivePlan(n)
    BY <1>4, ReceiveFacts
  <2>2. UNCHANGED <<log, acked, buf, trackVer>> /\ Pending' = Pending
    BY <1>4, ReceiveFacts DEF Pending
  <2>3. pc' = "event" => Cols[log[n].ver] \subseteq Cols[trackVer]
    BY <2>1 DEF ReceivePlan
  <2> QED
    BY <2>1, <2>2, <2>3 DEF CurInv
<1>5. CASE ExecDdl
  BY <1>2, <1>5, ExecFacts DEF registryVars
<1>6. CASE FinishDdl
  <2>1. CASE goal = "boot"
    BY <1>1, <1>6, <2>1, FinishFacts DEF Handling
  <2>2. CASE goal # "boot"
    <3>1. Handling /\ Pending' = Pending
      BY <1>6, <2>2, FinishFacts DEF Handling, Pending
    <3>2. trackVer' = log[cur].ver /\ UNCHANGED <<log, acked, cur>>
      BY <1>6, <2>2, FinishFacts
    <3> QED
      BY <1>0, <3>1, <3>2 DEF CurInv
  <2> QED
    BY <2>1, <2>2
<1>7. CASE Process
  BY <1>1, <1>7, ProcessFacts DEF Handling
<1>8. CASE Ending
  BY <1>1, <1>8, EndingFacts DEF Handling
<1>9. CASE Boot \/ FlushIdle \/ Flush \/ Ack
  BY <1>1, <1>9 DEF Handling, Boot, FlushIdle, Flush, Ack
<1>10. CASE Reconcile
  BY <1>1, <1>10, ReconcileFacts DEF Handling
<1> QED
  BY <1>2, <1>3, <1>4, <1>5, <1>6, <1>7, <1>8, <1>9, <1>10, NextCases
     DEF SchemaChange, CacheExpires, vars, registryVars, trackerVars, workerVars

LEMMA TableStep == MInv /\ [Next]_vars => TableInv'
<1> SUFFICES ASSUME MInv, [Next]_vars PROVE TableInv'
  OBVIOUS
<1> USE DEF NoVersion
<1>0. TableInv /\ VersionInv
  BY DEF MInv
<1>1. CASE SchemaChange \/ Publish \/ CacheExpires \/ UNCHANGED vars
  BY <1>0, <1>1
     DEF TableInv, Serving, SchemaChange, Publish, CacheExpires, vars, registryVars, trackerVars,
         workerVars, destVars
<1>2. CASE Boot
  <2>1. trackVer' = NoVersion => latest = NoVersion
    BY <1>0, <1>2, VersionAssumption
       DEF Boot, SeedRegistry, VersionInv, MInv, FlagType, RegistryTypeOK, VersionAssumption
  <2>2. pc' = "boot" /\ UNCHANGED <<known, tab, hist>>
    BY <1>2 DEF Boot, destVars
  <2> QED
    BY <1>0, <2>1, <2>2 DEF TableInv, VersionInv, Serving
<1>3. CASE Reconcile
  <2>1. UNCHANGED <<trackVer, tab, hist>> /\ known' = tab /\ trackVer = mine /\ goal' = "boot"
    BY <1>0, <1>3, ReconcileFacts DEF Reconcile, trackerVars, destVars, VersionInv
  <2>2. \/ mine = NoVersion
        \/ tab.there /\ Cols[mine] \subseteq tab.cols
        \/ pc' = "ddl" /\ mine # NoVersion
    BY <1>3, ReconcileFacts, VersionAssumption DEF Versions, VersionAssumption
  <2>3. pc = "boot"
    BY <1>3, ReconcileFacts
  <2> QED
    BY <1>0, <2>1, <2>2, <2>3 DEF TableInv, Serving
<1>4. CASE Receive
  <2>1. UNCHANGED <<trackVer, tab, hist, known>> /\ pc = "ready"
    BY <1>4, ReceiveFacts
  <2>2. PICK n \in DOMAIN log : ReceivePlan(n)
    BY <1>4, ReceiveFacts
  <2> QED
    BY <1>0, <2>1, <2>2 DEF TableInv, Serving, ReceivePlan
<1>5. CASE ExecDdl
  <2>1. UNCHANGED <<pc, goal, trackVer, known>> /\ pc = "ddl"
    BY <1>5, ExecFacts DEF registryVars
  <2>2. (tab.there => tab'.there) /\ tab.cols \subseteq tab'.cols
    BY TableGrows
  <2>3. ~tab'.there => tab'.cols = {} /\ hist' = <<>>
    BY <1>0, <1>5, ExecFacts DEF Table, None, Anew, TableInv
  <2> QED
    BY <1>0, <2>1, <2>2, <2>3 DEF TableInv, Serving
<1>6. CASE FinishDdl
  <2>1. UNCHANGED <<tab, hist>> /\ known' = tab /\ tab.there /\ Cols[Goal] \subseteq tab.cols
    BY <1>6, FinishFacts
  <2>2. trackVer' = Goal /\ trackVer' # NoVersion
    <3>1. CASE goal = "boot"
      BY <1>0, <1>6, <3>1, FinishFacts DEF Goal, VersionInv
    <3>2. CASE goal # "boot"
      <4>1. log[cur].ver \in Versions /\ trackVer' = log[cur].ver
        BY <1>6, <3>2, FinishFacts
      <4>2. log[cur].ver # NoVersion
        BY <4>1, VersionFacts
      <4> QED
        BY <3>2, <4>1, <4>2 DEF Goal
    <3> QED
      BY <3>1, <3>2
  <2> QED
    BY <1>0, <2>1, <2>2 DEF TableInv
<1>7. CASE Process
  <2>1. UNCHANGED <<tab, hist, known, trackVer>> /\ pc = "event"
    BY <1>7, ProcessFacts DEF registryVars
  <2>2. pc' \in {"flush", "ready"}
    BY <1>7, ProcessFacts
  <2> QED
    BY <1>0, <2>1, <2>2 DEF TableInv, Serving
<1>8. CASE FlushIdle \/ Ack
  BY <1>0, <1>8 DEF TableInv, Serving, FlushIdle, Ack, registryVars, destVars
<1>9. CASE Flush
  <2>1. UNCHANGED <<tab, known, trackVer>> /\ pc = "flush" /\ pc' = "ack"
    BY <1>9 DEF Flush, registryVars
  <2>2. tab.there
    BY <1>0, <2>1 DEF TableInv, VersionInv, Serving
  <2> QED
    BY <1>0, <2>1, <2>2 DEF TableInv, Serving
<1>10. CASE Ending
  <2>1. UNCHANGED tab /\ known' = None /\ pc' = "down"
    BY <1>10, EndingFacts
  <2>2. ~tab.there => hist' = <<>>
    <3>1. CASE FlushLost
      BY <1>0, <3>1 DEF TableInv, VersionInv, Serving, FlushLost
    <3>2. CASE hist' = hist
      BY <1>0, <3>2 DEF TableInv
    <3> QED
      BY <1>10, <3>1, <3>2, EndingFacts
  <2> QED
    BY <1>0, <2>1, <2>2 DEF TableInv, Serving, None
<1> QED
  BY <1>1, <1>2, <1>3, <1>4, <1>5, <1>6, <1>7, <1>8, <1>9, <1>10, NextCases

LEMMA BufferStep == MInv /\ [Next]_vars => BufferFits'
<1> SUFFICES ASSUME MInv, [Next]_vars PROVE BufferFits'
  OBVIOUS
<1>0. BufferFits /\ tab.cols \subseteq tab'.cols
  BY TableGrows DEF MInv
<1>1. CASE buf' = buf
  BY <1>0, <1>1 DEF BufferFits
<1>2. CASE buf' = <<>>
  <2>1. DOMAIN buf' = {}
    BY <1>2
  <2> QED
    BY <2>1 DEF BufferFits
<1>3. CASE Process
  <2>1. Cols[trackVer] \subseteq tab.cols /\ tab' = tab
    <3>1. trackVer \in Versions /\ pc = "event" /\ tab' = tab
      BY <1>3, ProcessFacts
    <3>2. trackVer # NoVersion
      BY <3>1, VersionFacts
    <3> QED
      BY <3>1, <3>2 DEF MInv, TableInv, Serving
  <2>2. \A i \in DOMAIN buf' : (i \in DOMAIN buf /\ buf'[i] = buf[i]) \/ i = Len(buf) + 1
    BY <1>3, ProcessFacts, BufFacts
  <2>3. buf'[Len(buf) + 1].cols \subseteq Cols[trackVer]
    BY <1>3, ProcessFacts
  <2> QED
    BY <1>0, <2>1, <2>2, <2>3 DEF BufferFits
<1>4. CASE Receive
  BY <1>1, <1>4, ReceiveFacts
<1>5. CASE ExecDdl
  BY <1>1, <1>5, ExecFacts
<1>6. CASE FinishDdl
  BY <1>1, <1>6, FinishFacts
<1>7. CASE Ending
  BY <1>2, <1>7, EndingFacts
<1> QED
  BY <1>1, <1>2, <1>3, <1>4, <1>5, <1>6, <1>7, NextCases
     DEF SchemaChange, Publish, Boot, Reconcile, FlushIdle, Flush, Ack, CacheExpires, vars, workerVars

LEMMA DdlStep == MInv /\ [Next]_vars => DdlInv'
<1> SUFFICES ASSUME MInv, [Next]_vars, pc' = "ddl" PROVE DdlInv'
  BY DEF DdlInv
<1>0. pc = "ddl" => DdlInv
  BY DEF MInv
<1>1. ASSUME UNCHANGED <<pc, goal, mine, cur, todo, tab>>,
             \A n \in DOMAIN log : n \in DOMAIN log' /\ log'[n] = log[n]
      PROVE  DdlInv'
  <2>1. Goal' = Goal
    BY <1>1 DEF MInv, CurInv, Handling, Goal
  <2> QED
    BY <1>0, <1>1, <2>1 DEF DdlInv, Covered, Makes, Anew
<1>2. CASE SchemaChange \/ CacheExpires \/ UNCHANGED vars
  BY <1>1, <1>2 DEF SchemaChange, CacheExpires, vars, workerVars, destVars
<1>3. CASE Publish
  BY <1>1, <1>3, PublishKeeps DEF Publish, workerVars, destVars
<1>4. ASSUME NEW S, S = Cols[Goal'], ~tab'.there, MakesTable(todo', S) PROVE DdlInv'
  BY <1>4 DEF DdlInv, Covered, MakesTable, Makes, Anew
<1>5. ASSUME NEW S, tab'.there, AddsColumns(todo', S), Cols[Goal'] \subseteq S \cup tab'.cols
      PROVE  DdlInv'
  <2>1. \A i \in DOMAIN todo' : ~Anew(todo'[i]) /\ ~Makes(todo'[i])
    BY <1>5 DEF AddsColumns, Anew, Makes
  <2>2. \A c \in S : \E i \in DOMAIN todo' : todo'[i].k = "alter" /\ c \in todo'[i].cols
    BY <1>5 DEF AddsColumns
  <2> QED
    BY <1>5, <2>1, <2>2 DEF DdlInv, Covered
<1>6. CASE Reconcile
  <2>1. Goal' = mine /\ tab' = tab
    BY <1>6, ReconcileFacts DEF Goal, Reconcile, destVars
  <2> QED
    BY <1>4, <1>5, <1>6, <2>1, ReconcileFacts
<1>7. CASE Receive
  <2>1. PICK n \in DOMAIN log : cur' = n /\ ReceivePlan(n)
    BY <1>7, ReceiveFacts
  <2>2. UNCHANGED <<log, tab>> /\ pc = "ready"
    BY <1>7, ReceiveFacts
  <2>3. goal' # "boot" => Goal' = log[n].ver
    BY <2>1, <2>2 DEF Goal
  <2>4. CASE /\ goal' = "table" /\ trackVer = NoVersion /\ MakesTable(todo', Cols[log[n].ver])
    <3>1. ~tab'.there
      BY <2>2, <2>4 DEF MInv, TableInv, Serving
    <3> QED
      BY <1>4, <2>3, <2>4, <3>1
  <2>5. CASE /\ goal' = "columns" /\ trackVer # NoVersion
             /\ AddsColumns(todo', (Cols[log[n].ver] \ Cols[trackVer]) \ known.cols)
    <3>1. tab.there /\ Cols[trackVer] \subseteq tab.cols /\ known.cols \subseteq tab.cols
      BY <2>2, <2>5 DEF MInv, TableInv, Serving
    <3> DEFINE S == (Cols[log[n].ver] \ Cols[trackVer]) \ known.cols
    <3>2. Goal' = log[n].ver /\ tab' = tab
      BY <2>2, <2>3, <2>5
    <3>3. Cols[Goal'] \subseteq S \cup tab'.cols /\ tab'.there
      BY <3>1, <3>2
    <3>4. AddsColumns(todo', S)
      BY <2>5
    <3> HIDE DEF S
    <3> QED
      BY <1>5, <3>3, <3>4
  <2> QED
    BY <2>1, <2>4, <2>5 DEF ReceivePlan
<1>8. CASE ExecDdl
  <2>1. /\ pc = "ddl" /\ Len(todo) \in Nat /\ 1 \in DOMAIN todo /\ DOMAIN todo = 1..Len(todo)
        /\ Goal' = Goal
    BY <1>8, ExecFacts DEF Goal
  <2>2. DdlInv /\ Covered
    BY <1>0, <2>1 DEF DdlInv
  <2>3. ASSUME Popped
        PROVE  /\ \A i \in DOMAIN todo' : i + 1 \in DOMAIN todo /\ todo'[i] = todo[i + 1]
               /\ \A i \in DOMAIN todo : i # 1 => /\ i - 1 \in DOMAIN todo'
                                                   /\ todo'[i - 1] = todo[i]
    <3>1. \A i \in DOMAIN todo' : i + 1 \in DOMAIN todo /\ todo'[i] = todo[i + 1]
      BY <2>1, <2>3 DEF Popped
    <3>2. \A i \in DOMAIN todo : i # 1 => i - 1 \in DOMAIN todo' /\ (i - 1) + 1 = i
      BY <2>1, <2>3 DEF Popped
    <3> QED
      BY <3>1, <3>2
  <2>4. CASE Anew(todo[1])
    <3>1. ~tab.there /\ Popped
      BY <1>8, <2>1, <2>2, <2>4, ExecFacts DEF DdlInv, Anew
    <3>2. \A i \in DOMAIN todo' : todo'[i].k # "alter"
      BY <2>1, <2>2, <2>3, <3>1 DEF DdlInv
    <3>3. \A i, j \in DOMAIN todo' : (i < j /\ Makes(todo'[i])) => ~Anew(todo'[j])
      <4> SUFFICES ASSUME NEW i \in DOMAIN todo', NEW j \in DOMAIN todo', i < j, Makes(todo'[i])
                   PROVE  ~Anew(todo'[j])
        OBVIOUS
      <4>1. i + 1 \in DOMAIN todo /\ j + 1 \in DOMAIN todo /\ i + 1 < j + 1
        BY <2>1, <2>3, <3>1 DEF Popped
      <4> QED
        BY <2>1, <2>2, <2>3, <3>1, <4>1 DEF DdlInv
    <3>4. CASE todo[1].k = "drop"
      <4>1. tab' = None
        BY <1>8, <2>4, <3>4, ExecFacts DEF Anew
      <4>2. PICK i \in DOMAIN todo : Makes(todo[i]) /\ Cols[Goal] \subseteq todo[i].cols
        BY <2>2, <3>1 DEF Covered
      <4>3. i # 1
        BY <3>4, <4>2 DEF Makes
      <4>4. i - 1 \in DOMAIN todo' /\ todo'[i - 1] = todo[i]
        BY <2>3, <3>1, <4>3
      <4>5. Covered'
        BY <2>1, <4>1, <4>2, <4>4 DEF Covered, None, Makes
      <4> QED
        BY <3>2, <3>3, <4>1, <4>5 DEF DdlInv, None, Makes, Anew
    <3>5. CASE todo[1].k # "drop"
      <4>1. tab' = Table(todo[1].cols) /\ Makes(todo[1])
        BY <1>8, <2>4, <3>5, ExecFacts DEF Anew, Makes
      <4>2. \A i \in DOMAIN todo' : ~Anew(todo'[i])
        <5> SUFFICES ASSUME NEW i \in DOMAIN todo' PROVE ~Anew(todo'[i])
          OBVIOUS
        <5>1. i + 1 \in DOMAIN todo /\ 1 < i + 1 /\ todo'[i] = todo[i + 1]
          BY <2>1, <2>3, <3>1 DEF Popped
        <5> QED
          BY <2>1, <2>2, <4>1, <5>1 DEF DdlInv
      <4>3. Cols[Goal] \subseteq todo[1].cols
        <5>1. PICK i \in DOMAIN todo : Makes(todo[i]) /\ Cols[Goal] \subseteq todo[i].cols
          BY <2>2, <3>1 DEF Covered
        <5>2. i = 1
          <6>1. Anew(todo[i])
            BY <5>1 DEF Makes, Anew
          <6>2. i # 1 => 1 < i
            BY <2>1
          <6> QED
            BY <2>1, <2>2, <4>1, <6>1, <6>2 DEF DdlInv
        <5> QED
          BY <5>1, <5>2
      <4>4. Covered'
        BY <2>1, <4>1, <4>3 DEF Covered, Table
      <4> QED
        BY <3>2, <3>3, <4>1, <4>2, <4>4 DEF DdlInv, Table, Makes, Anew
    <3> QED
      BY <3>4, <3>5
  <2>5. CASE todo[1].k = "alter"
    <3>1. tab.there
      BY <2>1, <2>2, <2>5 DEF DdlInv
    <3>2. PICK c \in todo[1].cols \ tab.cols :
             /\ tab' = Table(tab.cols \cup {c})
             /\ (todo[1].cols = {c} /\ Popped) \/ Shrunk(c)
      BY <1>8, <2>5, ExecFacts DEF Anew
    <3>3. tab'.there /\ tab'.cols = tab.cols \cup {c}
      BY <3>2 DEF Table
    <3>4. \A i \in DOMAIN todo : ~Anew(todo[i])
      BY <2>1, <2>2, <3>1 DEF DdlInv
    <3>5. CASE todo[1].cols = {c} /\ Popped
      <4>1. \A i \in DOMAIN todo' : ~Anew(todo'[i]) /\ ~Makes(todo'[i])
        BY <2>3, <3>4, <3>5 DEF Anew, Makes
      <4>2. \A x \in Cols[Goal] :
              x \in tab'.cols \/ \E i \in DOMAIN todo' : todo'[i].k = "alter" /\ x \in todo'[i].cols
        BY <2>2, <2>3, <3>1, <3>3, <3>5 DEF Covered
      <4> QED
        BY <2>1, <3>3, <4>1, <4>2 DEF DdlInv, Covered
    <3>6. CASE Shrunk(c)
      <4>1. \A i \in DOMAIN todo' : ~Anew(todo'[i]) /\ ~Makes(todo'[i])
        BY <3>4, <3>6 DEF Anew, Makes, Shrunk
      <4>2. \A x \in Cols[Goal] :
              x \in tab'.cols \/ \E i \in DOMAIN todo' : todo'[i].k = "alter" /\ x \in todo'[i].cols
        <5> SUFFICES ASSUME NEW x \in Cols[Goal], x \notin tab'.cols
                     PROVE  \E i \in DOMAIN todo' : todo'[i].k = "alter" /\ x \in todo'[i].cols
          OBVIOUS
        <5>1. PICK i \in DOMAIN todo : todo[i].k = "alter" /\ x \in todo[i].cols
          BY <2>2, <3>1, <3>3 DEF Covered
        <5> QED
          BY <3>3, <3>6, <5>1 DEF Shrunk
      <4> QED
        BY <2>1, <3>3, <4>1, <4>2 DEF DdlInv, Covered
    <3> QED
      BY <3>2, <3>5, <3>6
  <2>6. CASE todo[1].k \in {"view", "drop_view"}
    <3>1. tab' = tab /\ Popped
      BY <1>8, <2>6, ExecFacts DEF Anew
    <3>2. \A i \in DOMAIN todo' : i + 1 \in DOMAIN todo /\ todo'[i] = todo[i + 1]
      BY <2>3, <3>1
    <3>3. \A i, j \in DOMAIN todo' : (i < j /\ Makes(todo'[i])) => ~Anew(todo'[j])
      <4> SUFFICES ASSUME NEW i \in DOMAIN todo', NEW j \in DOMAIN todo', i < j, Makes(todo'[i])
                   PROVE  ~Anew(todo'[j])
        OBVIOUS
      <4>1. i + 1 < j + 1
        BY <2>1, <3>1 DEF Popped
      <4> QED
        BY <2>1, <2>2, <3>2, <4>1 DEF DdlInv
    <3>4. Covered'
      <4>1. \A i \in DOMAIN todo : (todo[i].k = "alter" \/ Makes(todo[i])) => i # 1
        BY <2>6 DEF Makes
      <4>2. \A i \in DOMAIN todo : i # 1 => i - 1 \in DOMAIN todo' /\ todo'[i - 1] = todo[i]
        BY <2>3, <3>1
      <4>3. CASE tab.there
        <5>1. \A x \in Cols[Goal] :
                x \in tab.cols \/ \E i \in DOMAIN todo : todo[i].k = "alter" /\ x \in todo[i].cols
          BY <2>2, <4>3 DEF Covered
        <5>2. \A x \in Cols[Goal] :
                x \in tab.cols \/ \E i \in DOMAIN todo' : todo'[i].k = "alter" /\ x \in todo'[i].cols
          BY <4>1, <4>2, <5>1
        <5> QED
          BY <2>1, <3>1, <4>3, <5>2 DEF Covered
      <4>4. CASE ~tab.there
        <5>1. \E i \in DOMAIN todo : Makes(todo[i]) /\ Cols[Goal] \subseteq todo[i].cols
          BY <2>2, <4>4 DEF Covered
        <5>2. \E i \in DOMAIN todo' : Makes(todo'[i]) /\ Cols[Goal] \subseteq todo'[i].cols
          BY <4>1, <4>2, <5>1
        <5> QED
          BY <2>1, <3>1, <4>4, <5>2 DEF Covered, Makes
      <4> QED
        BY <4>3, <4>4
    <3> QED
      BY <2>1, <2>2, <3>1, <3>2, <3>3, <3>4 DEF DdlInv, Makes, Anew
  <2> QED
    BY <1>8, <2>4, <2>5, <2>6, ExecFacts
<1>9. CASE Ending
  BY <1>9, EndingFacts
<1>10. CASE Process
  BY <1>10, ProcessFacts
<1>11. CASE FinishDdl
  BY <1>11, FinishFacts
<1> QED
  BY <1>2, <1>3, <1>6, <1>7, <1>8, <1>9, <1>10, <1>11, NextCases
     DEF Boot, FlushIdle, Flush, Ack

(* append mode: no batch is ever rejected. *)
LEMMA NothingRejected ==
  ASSUME MInv, Appending
  PROVE  ~FlushRejected
<1> SUFFICES ASSUME FlushRejected PROVE FALSE
  OBVIOUS
<1>1. pc = "flush"
  BY DEF FlushRejected
<1>2. PICK ss \in Batches : ~Accepted(ss)
  BY DEF FlushRejected
<1>3. PICK i \in DOMAIN ss : ss[i].bad \/ ~(ss[i].cols \subseteq tab.cols)
  BY <1>2 DEF Accepted
<1>4. PICK j \in DOMAIN buf :
         /\ ss[i].bad = buf[j].bad
         /\ ss[i].cols = IF cfg.dialect = "snowflake" THEN Cols[trackVer] ELSE buf[j].cols
  BY BatchFacts
<1>5. ~buf[j].bad /\ buf[j].cols \subseteq tab.cols
  BY DEF MInv, StmtInv, BufferFits
<1>6. Cols[trackVer] \subseteq tab.cols
  BY <1>1 DEF MInv, TableInv, VersionInv, Serving
<1> QED
  BY <1>3, <1>4, <1>5, <1>6

LEMMA ViewStep == MInv /\ [Next]_vars => ViewInv'
<1> SUFFICES ASSUME MInv, [Next]_vars, faults' = 0, Appending'
             PROVE  /\ pc' \in {"down", "boot"} => ~tab'.there
                    /\ pc' = "ddl" => \A v \in ViewNames : WillShow(v)'
                    /\ ViewsServe'
  BY DEF ViewInv
<1>1. faults \in Nat /\ cfg' = cfg /\ (faults' = faults \/ faults' = faults + 1)
  <2>1. faults \in Nat
    BY MigrationAssumption DEF MInv, FlagType, MigrationAssumption
  <2>2. CASE Ending
    BY <2>1, <2>2, EndingFacts
  <2>3. CASE ~Ending
    BY <2>1, <2>3
       DEF Next, Work, Ending, SchemaChange, Publish, Boot, Reconcile, Receive, ExecDdl, FinishDdl,
           Process, FlushIdle, Flush, Ack, CacheExpires, vars
  <2> QED
    BY <2>2, <2>3, <2>1
<1>2. faults = 0 /\ Appending
  BY <1>1 DEF Appending
<1>3. /\ pc \in {"down", "boot"} => ~tab.there
      /\ pc = "ddl" => \A v \in ViewNames : WillShow(v)
      /\ ViewsServe
  BY <1>2 DEF MInv, ViewInv
<1>4. ~Ending
  <2>1. Ending => FlushRejected \/ faults' = faults + 1
    BY EndingFacts
  <2>2. ~FlushRejected
    BY <1>2, NothingRejected
  <2> QED
    BY <1>1, <1>2, <2>1, <2>2
<1>5. TableVersion = trackVer /\ TableVersion' = trackVer'
  <2>1. VersionInv'
    BY VersionStep
  <2> QED
    BY <2>1, Recorded DEF MInv, VersionInv, TableVersion
<1>6. (Serving /\ tab.there /\ trackVer # NoVersion) =>
        \A v \in ViewNames : views[v].there /\ Cols[trackVer] \subseteq views[v].cols
  BY <1>2, <1>3, <1>5 DEF ViewsServe
<1>7. SUFFICES /\ pc' \in {"down", "boot"} => ~tab'.there
               /\ pc' = "ddl" => \A v \in ViewNames : WillShow(v)'
               /\ (Serving' /\ tab'.there /\ trackVer' # NoVersion) =>
                    \A v \in ViewNames : views'[v].there /\ Cols[trackVer'] \subseteq views'[v].cols
  BY <1>5 DEF ViewsServe
<1>8. ASSUME UNCHANGED <<pc, goal, mine, cur, todo, tab, views, trackVer>>,
             \A n \in DOMAIN log : n \in DOMAIN log' /\ log'[n] = log[n]
      PROVE  /\ pc' \in {"down", "boot"} => ~tab'.there
             /\ pc' = "ddl" => \A v \in ViewNames : WillShow(v)'
             /\ (Serving' /\ tab'.there /\ trackVer' # NoVersion) =>
                  \A v \in ViewNames : views'[v].there /\ Cols[trackVer'] \subseteq views'[v].cols
  <2>1. pc = "ddl" => Goal' = Goal
    BY <1>8 DEF MInv, CurInv, Handling, Goal
  <2>2. pc' = "ddl" => \A v \in ViewNames : WillShow(v)'
    BY <1>3, <1>8, <2>1 DEF WillShow, Shows, Touches
  <2> QED
    BY <1>3, <1>6, <1>8, <2>2 DEF Serving
<1>9. CASE SchemaChange \/ CacheExpires \/ UNCHANGED vars
  BY <1>8, <1>9 DEF SchemaChange, CacheExpires, vars, registryVars, trackerVars, workerVars, destVars
<1>10. CASE Publish
  BY <1>8, <1>10, PublishKeeps DEF Publish, registryVars, workerVars, destVars
<1>11. CASE Boot
  BY <1>3, <1>11 DEF Boot, destVars, Serving
<1>12. ASSUME NEW S, S = Cols[Goal'], EndsWithViews(todo', S) PROVE \A v \in ViewNames : WillShow(v)'
  BY <1>12 DEF EndsWithViews, WillShow, Touches
<1>13. CASE Reconcile
  <2>1. Goal' = mine /\ UNCHANGED <<tab, views, trackVer>> /\ pc = "boot"
    BY <1>13, ReconcileFacts DEF Goal, Reconcile, destVars, trackerVars
  <2>2. ~tab'.there
    BY <1>3, <2>1
  <2>3. pc' = "ddl" => EndsWithViews(todo', Cols[Goal'])
    BY <1>2, <1>13, <2>1, ReconcileFacts
  <2> QED
    BY <1>12, <2>2, <2>3
<1>14. CASE Receive
  <2>1. PICK n \in DOMAIN log : cur' = n /\ ReceivePlan(n)
    BY <1>14, ReceiveFacts
  <2>2. UNCHANGED <<log, tab, views, trackVer>> /\ pc = "ready"
    BY <1>14, ReceiveFacts
  <2>3. goal' # "boot" => Goal' = log[n].ver
    BY <2>1, <2>2 DEF Goal
  <2>4. pc' = "ddl" => EndsWithViews(todo', Cols[Goal'])
    BY <1>2, <2>1, <2>3 DEF ReceivePlan
  <2>5. pc' \in {"event", "ddl"}
    BY <2>1 DEF ReceivePlan
  <2> QED
    BY <1>6, <1>12, <2>2, <2>4, <2>5 DEF Serving
<1>15. CASE ExecDdl
  <2>1. /\ pc = "ddl" /\ pc' = "ddl" /\ Len(todo) \in Nat /\ 1 \in DOMAIN todo
        /\ DOMAIN todo = 1..Len(todo) /\ Goal' = Goal
    BY <1>15, ExecFacts DEF Goal
  <2>2. SUFFICES ASSUME NEW v \in ViewNames PROVE WillShow(v)'
    BY <2>1 DEF Serving
  <2>3. WillShow(v)
    BY <1>3, <2>1
  <2>4. Popped \/ \E c : Shrunk(c) /\ todo[1].k = "alter"
    BY <1>15, ExecFacts
  <2>5. views \in [ViewNames -> Tables] /\ todo[1].view \in ViewNames
    BY <1>15, ExecFacts DEF MInv, TableType, Ddls
  <2>6. ~Touches(todo[1], v) => views'[v] = views[v]
    <3> SUFFICES ASSUME ~Touches(todo[1], v) PROVE views'[v] = views[v]
      OBVIOUS
    <3>1. CASE Anew(todo[1]) \/ todo[1].k = "alter"
      BY <1>15, <3>1, ExecFacts DEF Touches, Anew
    <3>2. CASE todo[1].k \in {"view", "drop_view"}
      <4>1. todo[1].view # v
        BY <3>2 DEF Touches
      <4>2. views' = [views EXCEPT ![todo[1].view] =
                        IF todo[1].k = "view" THEN Table(todo[1].cols) ELSE None]
        BY <1>15, <3>2, ExecFacts DEF Anew
      <4> QED
        BY <2>5, <4>1, <4>2
    <3> QED
      BY <1>15, <3>1, <3>2, ExecFacts
  <2>7. CASE Shows(views[v]) /\ \A i \in DOMAIN todo : ~Touches(todo[i], v)
    <3>1. \A i \in DOMAIN todo' : ~Touches(todo'[i], v)
      <4>1. CASE Popped
        <5>1. \A i \in DOMAIN todo' : i + 1 \in DOMAIN todo /\ todo'[i] = todo[i + 1]
          BY <2>1, <4>1 DEF Popped
        <5> QED
          BY <2>7, <5>1
      <4>2. CASE \E c : Shrunk(c) /\ todo[1].k = "alter"
        BY <2>7, <4>2 DEF Shrunk, Touches
      <4> QED
        BY <2>4, <4>1, <4>2
    <3>2. views'[v] = views[v]
      BY <2>1, <2>6, <2>7
    <3> QED
      BY <2>1, <2>7, <3>1, <3>2 DEF WillShow, Shows, Touches
  <2>8. ASSUME NEW i \in DOMAIN todo,
               todo[i].k = "view", todo[i].view = v, Cols[Goal] \subseteq todo[i].cols,
               \A j \in DOMAIN todo : i < j => ~Touches(todo[j], v)
        PROVE  WillShow(v)'
    <3>1. CASE i = 1
      <4>1. Popped /\ views'[v] = Table(todo[1].cols)
        <5>1. /\ Popped
              /\ views' = [views EXCEPT ![todo[1].view] =
                             IF todo[1].k = "view" THEN Table(todo[1].cols) ELSE None]
          BY <1>15, <2>8, <3>1, ExecFacts DEF Anew
        <5> QED
          BY <2>5, <2>8, <3>1, <5>1
      <4>2. \A j \in DOMAIN todo' : j + 1 \in DOMAIN todo /\ 1 < j + 1 /\ todo'[j] = todo[j + 1]
        BY <2>1, <4>1 DEF Popped
      <4>3. \A j \in DOMAIN todo' : ~Touches(todo'[j], v)
        BY <2>8, <3>1, <4>2
      <4> QED
        BY <2>1, <2>8, <3>1, <4>1, <4>3 DEF WillShow, Shows, Table, Touches
    <3>2. CASE i # 1 /\ Popped
      <4>1. i - 1 \in DOMAIN todo' /\ todo'[i - 1] = todo[i]
        <5>1. i - 1 \in DOMAIN todo' /\ (i - 1) + 1 = i
          BY <2>1, <3>2 DEF Popped
        <5> QED
          BY <3>2, <5>1 DEF Popped
      <4>2. ASSUME NEW j \in DOMAIN todo', i - 1 < j PROVE ~Touches(todo'[j], v)
        <5>1. j + 1 \in DOMAIN todo /\ i < j + 1 /\ todo'[j] = todo[j + 1]
          BY <2>1, <3>2, <4>2 DEF Popped
        <5> QED
          BY <2>8, <5>1
      <4> QED
        BY <2>1, <2>8, <4>1, <4>2 DEF WillShow, Touches
    <3>3. CASE i # 1 /\ \E c : Shrunk(c)
      <4>1. DOMAIN todo' = DOMAIN todo /\ \A j \in DOMAIN todo : j # 1 => todo'[j] = todo[j]
        BY <3>3 DEF Shrunk
      <4>2. \A j \in DOMAIN todo' : i < j => j # 1
        BY <2>1, <4>1
      <4> QED
        BY <2>1, <2>8, <3>3, <4>1, <4>2 DEF WillShow, Touches
    <3> QED
      BY <2>4, <3>1, <3>2, <3>3
  <2> QED
    BY <2>3, <2>7, <2>8 DEF WillShow
<1>16. CASE FinishDdl
  <2>1. pc = "ddl" /\ DOMAIN todo = {} /\ views' = views /\ pc' \in {"ready", "event"}
    <3>1. pc = "ddl" /\ todo = <<>> /\ views' = views
      BY <1>16, FinishFacts
    <3>2. pc' \in {"ready", "event"}
      BY <1>16, FinishFacts
    <3> QED
      BY <3>1, <3>2
  <2>2. trackVer' = Goal
    <3>1. CASE goal = "boot"
      BY <1>16, <3>1, FinishFacts DEF Goal, MInv, VersionInv
    <3>2. CASE goal # "boot"
      BY <1>16, <3>2, FinishFacts DEF Goal
    <3> QED
      BY <3>1, <3>2
  <2>3. \A v \in ViewNames : Shows(views[v])
    BY <1>3, <2>1 DEF WillShow
  <2> QED
    BY <2>1, <2>2, <2>3 DEF Shows
<1>17. CASE Process
  <2>1. UNCHANGED <<tab, views, trackVer>> /\ pc = "event"
    BY <1>17, ProcessFacts DEF registryVars
  <2>2. pc' \in {"flush", "ready"}
    BY <1>17, ProcessFacts
  <2> QED
    BY <1>6, <2>1, <2>2 DEF Serving
<1>18. CASE FlushIdle \/ Flush \/ Ack
  BY <1>6, <1>18 DEF FlushIdle, Flush, Ack, Serving, registryVars, destVars
<1> QED
  BY <1>4, <1>9, <1>10, <1>11, <1>13, <1>14, <1>15, <1>16, <1>17, <1>18, NextCases

(* What StmtInv says of one statement. *)
Carries(s) ==
  /\ s.msg \in DOMAIN log
  /\ Appending =>
       /\ ~s.bad
       /\ s.op = log[s.msg].op
       /\ s.ins = log[s.msg].row
       /\ KeptColumns(log[s.msg].ver)
            \subseteq IF cfg.dialect = "snowflake" THEN Cols[trackVer] ELSE s.cols

LEMMA StmtStep == MInv /\ [Next]_vars => StmtInv'
<1> SUFFICES ASSUME MInv, [Next]_vars PROVE StmtInv'
  OBVIOUS
<1>0. \A i \in DOMAIN buf : Carries(buf[i])
  BY DEF MInv, StmtInv, Carries
<1>1. SUFFICES ASSUME NEW i \in DOMAIN buf', NEW s, s = buf'[i] PROVE Carries(s)'
  <2>1. ASSUME NEW i \in DOMAIN buf'
        PROVE  /\ buf'[i].msg \in DOMAIN log'
               /\ Appending' =>
                    /\ ~buf'[i].bad
                    /\ buf'[i].op = log'[buf'[i].msg].op
                    /\ buf'[i].ins = log'[buf'[i].msg].row
                    /\ KeptColumns(log[buf[i].msg].ver)'
                         \subseteq IF cfg'.dialect = "snowflake" THEN Cols[trackVer'] ELSE buf'[i].cols
    <3>1. PICK s : s = buf'[i]
      OBVIOUS
    <3>2. Carries(s)'
      BY <1>1, <3>1
    <3> QED
      BY <3>1, <3>2 DEF Carries, KeptColumns
  <2> QED
    BY <2>1 DEF StmtInv
<1>2. CASE buf' = <<>>
  <2>1. DOMAIN buf' = {}
    BY <1>2
  <2> QED
    BY <1>1, <2>1
<1>3. ASSUME cfg' = cfg, trackVer' = trackVer,
             \A n \in DOMAIN log : n \in DOMAIN log' /\ log'[n] = log[n],
             Carries(s)
      PROVE  Carries(s)'
  BY <1>3 DEF Carries, Appending, KeptColumns
<1>4. CASE /\ UNCHANGED <<buf, cfg, trackVer>>
           /\ \A n \in DOMAIN log : n \in DOMAIN log' /\ log'[n] = log[n]
  BY <1>0, <1>1, <1>3, <1>4
<1>5. CASE SchemaChange \/ Reconcile \/ FlushIdle \/ Flush \/ CacheExpires \/ UNCHANGED vars
  BY <1>4, <1>5
     DEF SchemaChange, Reconcile, FlushIdle, Flush, CacheExpires, vars, registryVars, trackerVars,
         workerVars
<1>6. CASE Publish
  BY <1>4, <1>6, PublishKeeps DEF Publish, registryVars, workerVars
<1>7. CASE Boot
  <2>1. buf = <<>>
    BY <1>7 DEF MInv, VersionInv, Boot
  <2> QED
    BY <1>2, <1>7, <2>1 DEF Boot
<1>8. CASE Receive
  BY <1>4, <1>8, ReceiveFacts
<1>9. CASE ExecDdl
  BY <1>4, <1>9, ExecFacts DEF registryVars
<1>10. CASE FinishDdl
  <2>1. CASE goal = "boot"
    BY <1>4, <1>10, <2>1, FinishFacts
  <2>2. CASE goal # "boot"
    <3>1. /\ UNCHANGED <<buf, cfg, log>> /\ trackVer' = log[cur].ver
          /\ cur \in DOMAIN log /\ log[cur].ver \in Versions /\ pc = "ddl"
      BY <1>10, <2>2, FinishFacts
    <3>2. Carries(s) /\ s = buf[i] /\ buf[i].msg \in DOMAIN log /\ i \in DOMAIN buf
      BY <1>0, <1>1, <3>1 DEF Carries
    <3>3. cfg.ordered => log[buf[i].msg].ver <= log[cur].ver
      <4> SUFFICES ASSUME cfg.ordered PROVE log[buf[i].msg].ver <= log[cur].ver
        OBVIOUS
      <4>1. Handling /\ cur \notin acked \cup Pending
        BY <2>2, <3>1 DEF MInv, CurInv, Handling
      <4>2. buf[i].msg < cur
        <5>1. buf[i].msg \in Nat /\ cur \in Nat /\ cur >= 1 /\ buf[i].msg # cur
          BY <3>1, <3>2, <4>1, LogFacts DEF Pending
        <5>2. ASSUME cur \in 1..(buf[i].msg - 1) PROVE FALSE
          BY <3>2, <4>1, <5>2 DEF MInv, LineInv, Pending
        <5> QED
          BY <5>1, <5>2
      <4> QED
        BY <3>1, <3>2, <4>2 DEF MInv, LogInv
    <3>4. cfg.dialect = "snowflake" => KeptColumns(log[buf[i].msg].ver) \subseteq Cols[log[cur].ver]
      BY <3>1, <3>3 DEF KeptColumns
    <3> QED
      BY <3>1, <3>2, <3>4 DEF Carries, Appending, KeptColumns
  <2> QED
    BY <2>1, <2>2
<1>11. CASE Process
  <2>1. UNCHANGED <<cfg, log, trackVer>> /\ cur \in DOMAIN log /\ trackVer \in Versions
    BY <1>11, ProcessFacts DEF registryVars
  <2>2. PICK t \in Stmts :
          /\ buf'[Len(buf) + 1] = t /\ t.msg = cur
          /\ Appending => /\ ~t.bad /\ t.op = log[cur].op /\ t.cols = Cols[trackVer]
                          /\ t.ins = log[cur].row
    BY <1>11, ProcessFacts
  <2>3. KeptColumns(log[cur].ver) \subseteq Cols[trackVer]
    <3>1. Cols[log[cur].ver] \subseteq Cols[trackVer]
      BY <1>11, ProcessFacts DEF MInv, CurInv, Handling
    <3>2. KeptColumns(log[cur].ver) \subseteq Cols[log[cur].ver]
      BY DEF KeptColumns
    <3> QED
      BY <3>1, <3>2
  <2>4. Carries(t)
    BY <2>1, <2>2, <2>3 DEF Carries
  <2>5. (i \in DOMAIN buf /\ buf'[i] = buf[i]) \/ buf'[i] = t
    BY <1>11, <2>2, ProcessFacts, BufFacts
  <2> QED
    BY <1>0, <1>1, <1>3, <2>1, <2>4, <2>5
<1>12. CASE Ack
  BY <1>2, <1>12 DEF Ack
<1>13. CASE Ending
  BY <1>2, <1>13, EndingFacts
<1> QED
  BY <1>5, <1>6, <1>7, <1>8, <1>9, <1>10, <1>11, <1>12, <1>13, NextCases

LEMMA LineStep == MInv /\ [Next]_vars => LineInv'
<1> SUFFICES ASSUME MInv, [Next]_vars, cfg'.ordered PROVE LineInv'
  BY DEF LineInv
<1>0. cfg' = cfg
  BY EndingFacts, NextCases
     DEF SchemaChange, Publish, Boot, Reconcile, Receive, ExecDdl, FinishDdl, Process, FlushIdle,
         Flush, Ack, CacheExpires, vars
<1>1. /\ \A m \in acked : \A j \in 1..(m - 1) : j \in acked
      /\ \A i \in DOMAIN buf : \A j \in 1..(buf[i].msg - 1) :
           j \in acked \/ \E h \in DOMAIN buf : h < i /\ buf[h].msg = j
      /\ Handling => \A j \in 1..(cur - 1) : j \in acked \cup Pending
  BY <1>0 DEF MInv, LineInv
<1>2. CASE UNCHANGED <<acked, buf>> /\ (Handling' => Handling /\ cur' = cur)
  BY <1>1, <1>2 DEF LineInv, Pending
<1>3. CASE SchemaChange \/ Publish \/ CacheExpires \/ UNCHANGED vars
  BY <1>2, <1>3 DEF Handling, SchemaChange, Publish, CacheExpires, vars, workerVars
<1>4. CASE Boot \/ FlushIdle \/ Flush
  BY <1>2, <1>4 DEF Handling, Boot, FlushIdle, Flush
<1>5. CASE Reconcile
  <2>1. pc' \in {"ready", "ddl"} /\ goal' = "boot"
    BY <1>5, ReconcileFacts
  <2> QED
    BY <1>2, <1>5, <2>1 DEF Handling, Reconcile
<1>6. CASE Receive
  <2>1. PICK n \in DOMAIN log :
           cur' = n /\ (cfg.ordered => \A m \in 1..(n - 1) : m \in acked \cup Pending)
    BY <1>6, ReceiveFacts
  <2>2. UNCHANGED <<acked, buf>>
    BY <1>6, ReceiveFacts
  <2> QED
    BY <1>0, <1>1, <2>1, <2>2 DEF LineInv, Pending
<1>7. CASE ExecDdl
  BY <1>2, <1>7, ExecFacts DEF Handling
<1>8. CASE FinishDdl
  <2>1. UNCHANGED <<acked, buf, cur, goal>> /\ pc = "ddl"
    BY <1>8, FinishFacts
  <2>2. goal = "boot" => pc' = "ready"
    BY <1>8, FinishFacts
  <2> QED
    BY <1>2, <2>1, <2>2 DEF Handling
<1>9. CASE Process
  <2>1. acked' = acked /\ ~Handling' /\ Handling
    BY <1>9, ProcessFacts DEF Handling
  <2>2. /\ DOMAIN buf' = 1..(Len(buf) + 1) /\ DOMAIN buf = 1..Len(buf) /\ Len(buf) \in Nat
        /\ \A i \in DOMAIN buf : i \in DOMAIN buf' /\ i < Len(buf) + 1 /\ buf'[i] = buf[i]
    BY <1>9, ProcessFacts, BufFacts
  <2>3. buf'[Len(buf) + 1].msg = cur
    BY <1>9, ProcessFacts
  <2>4. ASSUME NEW i \in DOMAIN buf', NEW j \in 1..(buf'[i].msg - 1)
        PROVE  j \in acked \/ \E h \in DOMAIN buf' : h < i /\ buf'[h].msg = j
    <3>1. CASE i \in DOMAIN buf
      BY <1>1, <2>2, <2>4, <3>1
    <3>2. CASE i = Len(buf) + 1
      <4>1. j \in acked \cup Pending
        BY <1>1, <2>1, <2>3, <2>4, <3>2
      <4> QED
        BY <2>2, <3>2, <4>1 DEF Pending
    <3> QED
      BY <2>2, <3>1, <3>2
  <2> QED
    BY <1>1, <2>1, <2>4 DEF LineInv
<1>10. CASE Ack
  <2>1. acked' = acked \cup Pending /\ DOMAIN buf' = {} /\ ~Handling'
    BY <1>10 DEF Ack, Handling
  <2>2. ASSUME NEW m \in Pending, NEW j \in 1..(m - 1) PROVE j \in acked \cup Pending
    BY <1>1, <2>2 DEF Pending
  <2> QED
    BY <1>1, <2>1, <2>2 DEF LineInv
<1>11. CASE Ending
  <2>1. DOMAIN buf' = {} /\ ~Handling'
    <3>1. buf' = <<>> /\ pc' = "down"
      BY <1>11, EndingFacts
    <3> QED
      BY <3>1 DEF Handling
  <2>2. \A m \in acked' : \A j \in 1..(m - 1) : j \in acked'
    <3>1. CASE acked' = acked
      BY <1>1, <3>1
    <3>2. CASE AckFails
      <4>1. PICK n \in 0..(Len(buf) - 1) : acked' = acked \cup {buf[i].msg : i \in 1..n}
        BY <3>2 DEF AckFails
      <4>2. \A i \in 1..n : i \in DOMAIN buf /\ \A h \in DOMAIN buf : h < i => h \in 1..n
        BY <4>1, BufFacts
      <4>3. ASSUME NEW i \in 1..n, NEW j \in 1..(buf[i].msg - 1) PROVE j \in acked'
        BY <1>1, <4>1, <4>2, <4>3
      <4> QED
        BY <1>1, <4>1, <4>3
    <3> QED
      BY <1>11, <3>1, <3>2, EndingFacts
  <2> QED
    BY <2>1, <2>2 DEF LineInv
<1> QED
  BY <1>3, <1>4, <1>5, <1>6, <1>7, <1>8, <1>9, <1>10, <1>11, NextCases

(* What HistInv says of one line. *)
IsEvent(r) ==
  /\ r.mvcc \in DOMAIN log
  /\ r.op = log[r.mvcc].op
  /\ \A c \in KeptColumns(log[r.mvcc].ver) : r.val[c] = log[r.mvcc].row[c]

LEMMA HistStep == MInv /\ [Next]_vars => HistInv'
<1> SUFFICES ASSUME MInv, [Next]_vars PROVE HistInv'
  OBVIOUS
<1>0. \A i \in DOMAIN hist : IsEvent(hist[i])
  BY DEF MInv, HistInv, IsEvent
<1>1. ASSUME cfg' = cfg, \A n \in DOMAIN log : n \in DOMAIN log' /\ log'[n] = log[n],
             \A i \in DOMAIN hist' : IsEvent(hist'[i])
      PROVE  HistInv'
  BY <1>1 DEF HistInv, IsEvent, KeptColumns
<1>2. CASE /\ UNCHANGED <<cfg, hist>>
           /\ \A n \in DOMAIN log : n \in DOMAIN log' /\ log'[n] = log[n]
  BY <1>0, <1>1, <1>2
<1>3. CASE \/ SchemaChange \/ Boot \/ Reconcile \/ FlushIdle \/ Ack \/ CacheExpires
           \/ UNCHANGED vars
  BY <1>2, <1>3
     DEF SchemaChange, Boot, Reconcile, FlushIdle, Ack, CacheExpires, vars, destVars
<1>4. CASE Publish
  BY <1>2, <1>4, PublishKeeps DEF Publish, destVars
<1>5. CASE Receive
  BY <1>2, <1>5, ReceiveFacts
<1>6. CASE FinishDdl
  BY <1>2, <1>6, FinishFacts
<1>7. CASE Process
  BY <1>2, <1>7, ProcessFacts
<1>8. CASE ExecDdl
  <2>1. UNCHANGED <<cfg, log>>
    BY <1>8, ExecFacts
  <2>2. hist' = hist \/ DOMAIN hist' = {}
    BY <1>8, ExecFacts
  <2> QED
    BY <1>0, <1>1, <2>1, <2>2
<1>9. ASSUME Flush \/ FlushLost PROVE \A i \in DOMAIN hist' : IsEvent(hist'[i])
  <2>1. ASSUME Appending, NEW ss \in Batches, NEW j \in DOMAIN ss PROVE IsEvent(HistRow(ss[j]))
    <3>1. PICK k \in DOMAIN buf :
            /\ ss[j].op = buf[k].op /\ ss[j].ins = buf[k].ins /\ ss[j].msg = buf[k].msg
            /\ ss[j].cols = IF cfg.dialect = "snowflake" THEN Cols[trackVer] ELSE buf[k].cols
      BY <2>1, BatchFacts
    <3>2. /\ buf[k].msg \in DOMAIN log /\ buf[k].op = log[buf[k].msg].op
          /\ buf[k].ins = log[buf[k].msg].row
          /\ KeptColumns(log[buf[k].msg].ver)
               \subseteq IF cfg.dialect = "snowflake" THEN Cols[trackVer] ELSE buf[k].cols
      BY <2>1 DEF MInv, StmtInv
    <3>3. /\ HistRow(ss[j]).op = ss[j].op /\ HistRow(ss[j]).mvcc = ss[j].msg
          /\ \A c \in Columns :
               HistRow(ss[j]).val[c] = IF c \in ss[j].cols THEN ss[j].ins[c] ELSE Null
      BY DEF HistRow
    <3>4. KeptColumns(log[buf[k].msg].ver) \subseteq Columns
      <4>1. Cols[log[buf[k].msg].ver] \in SUBSET Columns
        BY <3>2, LogFacts, ColsFacts
      <4> QED
        BY <4>1 DEF KeptColumns
    <3> QED
      BY <3>1, <3>2, <3>3, <3>4 DEF IsEvent
  <2> QED
    BY <1>0, <1>9, <2>1, FlushFacts
<1>10. CASE Flush
  BY <1>1, <1>9, <1>10 DEF Flush
<1>11. CASE Ending
  <2>1. UNCHANGED <<cfg, log>> /\ (hist' = hist \/ FlushLost)
    BY <1>11, EndingFacts
  <2> QED
    BY <1>0, <1>1, <1>9, <2>1
<1> QED
  BY <1>3, <1>4, <1>5, <1>6, <1>7, <1>8, <1>10, <1>11, NextCases

-----------------------------------------------------------------------------
(* The order of the history's lines. *)

(* A set of naturals has a least element, and a bounded one a greatest. *)
LEMMA NatLeast ==
  ASSUME NEW T \in SUBSET Nat, T # {}
  PROVE  \E t \in T : \A u \in T : t <= u
<1>1. PICK t \in T : \A u \in T : ~ (<<u, t>> \in OpToRel(<, Nat))
  BY NatLessThanWellFounded, WFMin, Zenon
<1>2. ASSUME NEW u \in T PROVE t <= u
  <2>1. ~ (<<u, t>> \in {r \in Nat \X Nat : r[1] < r[2]})
    BY <1>1 DEF OpToRel
  <2> QED
    BY <2>1
<1> QED
  BY <1>2

LEMMA NatGreatest ==
  ASSUME NEW n \in Nat, NEW T \in SUBSET (0..n), T # {}
  PROVE  \E t \in T : \A u \in T : u <= t
<1> DEFINE R == {n - u : u \in T}
<1>1. R \in SUBSET Nat /\ R # {}
  OBVIOUS
<1>2. PICK r \in R : \A s \in R : r <= s
  <2> HIDE DEF R
  <2> QED
    BY <1>1, NatLeast
<1>3. PICK t \in T : r = n - t
  OBVIOUS
<1>4. \A u \in T : n - t <= n - u
  BY <1>2, <1>3
<1> QED
  BY <1>4

(* Lines as HistoryTrue needs them: numbered, with times up to n. *)
Lines(h, n) == n \in Nat /\ \E l \in Nat : DOMAIN h = 1..l /\ \A i \in 1..l : h[i].mvcc \in 0..n

LEMMA BeforeOrder ==
  ASSUME NEW h, NEW n, Lines(h, n), NEW i \in DOMAIN h, NEW j \in DOMAIN h
  PROVE  /\ i # j => Before(h, i, j) \/ Before(h, j, i)
         /\ ~(Before(h, i, j) /\ Before(h, j, i))
         /\ ~Before(h, i, i)
         /\ Before(h, i, j) => h[i].mvcc <= h[j].mvcc
         /\ i \in Nat /\ h[i].mvcc \in Nat
BY DEF Lines, Before

LEMMA FirstLine ==
  ASSUME NEW h, NEW n, Lines(h, n), NEW S \in SUBSET DOMAIN h, S # {}
  PROVE  \E f \in S : \A k \in S \ {f} : Before(h, f, k)
<1> DEFINE T == {h[i].mvcc : i \in S}
<1>1. T \in SUBSET Nat /\ T # {}
  BY BeforeOrder
<1>2. PICK m \in T : \A u \in T : m <= u
  <2> HIDE DEF T
  <2> QED
    BY <1>1, NatLeast
<1> DEFINE I == {i \in S : h[i].mvcc = m}
<1>3. I \in SUBSET Nat /\ I # {}
  BY <1>2, BeforeOrder
<1>4. PICK f \in I : \A u \in I : f <= u
  <2> HIDE DEF I
  <2> QED
    BY <1>3, NatLeast
<1>5. ASSUME NEW k \in S \ {f} PROVE Before(h, f, k)
  <2>1. f \in Nat /\ k \in Nat /\ h[f].mvcc = m /\ h[k].mvcc \in Nat /\ m \in Nat
    BY <1>1, <1>3, <1>4, BeforeOrder
  <2>2. m <= h[k].mvcc /\ (h[k].mvcc = m => f <= k)
    BY <1>2, <1>4
  <2> QED
    BY <1>5, <2>1, <2>2 DEF Before
<1> QED
  BY <1>4, <1>5

LEMMA LastLine ==
  ASSUME NEW h, NEW n, Lines(h, n), NEW S \in SUBSET DOMAIN h, S # {}
  PROVE  \E f \in S : \A k \in S \ {f} : Before(h, k, f)
<1>0. PICK l \in Nat : DOMAIN h = 1..l /\ \A i \in 1..l : h[i].mvcc \in 0..n
  BY DEF Lines
<1>1. n \in Nat
  BY DEF Lines
<1> DEFINE T == {h[i].mvcc : i \in S}
<1>2. T \in SUBSET (0..n) /\ T # {}
  BY <1>0
<1>3. PICK m \in T : \A u \in T : u <= m
  <2> HIDE DEF T
  <2> QED
    BY <1>1, <1>2, NatGreatest
<1> DEFINE I == {i \in S : h[i].mvcc = m}
<1>4. I \in SUBSET (0..l) /\ I # {}
  BY <1>0, <1>3
<1>5. PICK f \in I : \A u \in I : u <= f
  <2> HIDE DEF I
  <2> QED
    BY <1>4, NatGreatest
<1>6. ASSUME NEW k \in S \ {f} PROVE Before(h, k, f)
  <2>1. f \in Nat /\ k \in Nat /\ h[f].mvcc = m /\ h[k].mvcc \in Nat /\ m \in Nat
    BY <1>2, <1>4, <1>5, BeforeOrder
  <2>2. h[k].mvcc <= m /\ (h[k].mvcc = m => k <= f)
    BY <1>3, <1>5
  <2> QED
    BY <1>6, <2>1, <2>2 DEF Before
<1> QED
  BY <1>5, <1>6

(* The line valid at time t is the last of those up to t, if t was written. *)
LEMMA ValidLine ==
  ASSUME NEW h, NEW n, Lines(h, n), NEW t \in Nat, t # 0,
         \A j \in DOMAIN h : h[j].mvcc # 0,
         NEW i \in DOMAIN h, h[i].mvcc = t,
         \A k \in DOMAIN h : (h[k].mvcc <= t /\ k # i) => Before(h, k, i)
  PROVE  TimelineAt(h, t) = {i}
<1> DEFINE later(k) == {j \in DOMAIN h : Before(h, k, j)}
<1>1. ASSUME NEW k \in DOMAIN h
      PROVE  \/ later(k) = {} /\ ValidTo(h, k) = 0
             \/ /\ later(k) # {}
                /\ \E f \in later(k) : /\ ValidTo(h, k) = h[f].mvcc
                                       /\ \A x \in later(k) \ {f} : Before(h, f, x)
  <2>1. CASE later(k) = {}
    BY <2>1 DEF ValidTo
  <2>2. CASE later(k) # {}
    <3> DEFINE f == CHOOSE j \in later(k) : \A x \in later(k) \ {j} : Before(h, j, x)
    <3>1. \E j \in later(k) : \A x \in later(k) \ {j} : Before(h, j, x)
      <4>1. later(k) \in SUBSET DOMAIN h
        OBVIOUS
      <4> HIDE DEF later
      <4> QED
        BY <2>2, <4>1, FirstLine
    <3>2. f \in later(k) /\ \A x \in later(k) \ {f} : Before(h, f, x)
      BY <3>1
    <3>3. ValidTo(h, k) = h[f].mvcc
      BY <2>2 DEF ValidTo
    <3> HIDE DEF f
    <3> QED
      BY <2>2, <3>2, <3>3
  <2> QED
    BY <2>1, <2>2
<1>2. i \in TimelineAt(h, t)
  <2>1. CASE ValidTo(h, i) = 0
    BY <2>1 DEF TimelineAt
  <2>2. ASSUME NEW f \in later(i), ValidTo(h, i) = h[f].mvcc PROVE t < h[f].mvcc
    <3>1. f \in DOMAIN h /\ Before(h, i, f) /\ h[f].mvcc \in Nat
      BY BeforeOrder
    <3>2. f # i /\ ~Before(h, f, i)
      BY <3>1, BeforeOrder
    <3> QED
      BY <3>1, <3>2
  <2> QED
    BY <1>1, <2>1, <2>2 DEF TimelineAt
<1>3. ASSUME NEW k \in TimelineAt(h, t), k # i PROVE FALSE
  <2>1. k \in DOMAIN h /\ h[k].mvcc <= t /\ (ValidTo(h, k) = 0 \/ t < ValidTo(h, k))
    BY DEF TimelineAt
  <2>2. i \in later(k)
    BY <1>3, <2>1
  <2>3. PICK f \in later(k) : /\ ValidTo(h, k) = h[f].mvcc
                              /\ \A x \in later(k) \ {f} : Before(h, f, x)
    BY <1>1, <2>1, <2>2
  <2>4. f \in DOMAIN h /\ h[f].mvcc # 0 /\ h[f].mvcc \in Nat
    BY BeforeOrder
  <2>5. h[f].mvcc <= t
    BY <2>2, <2>3, <2>4, BeforeOrder
  <2> QED
    BY <2>1, <2>3, <2>4, <2>5
<1> QED
  BY <1>2, <1>3 DEF TimelineAt

LEMMA HistoryIsTrue == MInv => HistoryTrue
<1> SUFFICES ASSUME MInv, Appending, NEW t \in 1..Len(log), 1..t \subseteq Written
             PROVE  /\ \E i \in DOMAIN hist :
                         /\ TimelineAt(hist, t) = {i}
                         /\ hist[i].op = log[t].op
                         /\ \A c \in KeptColumns(log[t].ver) : hist[i].val[c] = log[t].row[c]
                    /\ t = Len(log) =>
                         /\ CurrentView(hist).there = Source.there
                         /\ \A c \in KeptColumns(log[t].ver) :
                              CurrentView(hist).val[c] = Source.val[c]
  BY DEF HistoryTrue
<1>1. t \in Nat /\ t # 0 /\ t \in DOMAIN log /\ Len(log) \in Nat /\ DOMAIN log = 1..Len(log)
  BY LogFacts
<1>2. \A i \in DOMAIN hist : hist[i].mvcc \in 1..Len(log)
  BY <1>1 DEF MInv, HistInv
<1>3. Lines(hist, Len(log)) /\ \A i \in DOMAIN hist : hist[i].mvcc # 0 /\ hist[i].mvcc \in Nat
  <2>1. Len(hist) \in Nat /\ DOMAIN hist = 1..Len(hist)
    BY LenProperties DEF MInv, DataType
  <2>2. \A i \in 1..Len(hist) : /\ hist[i].mvcc \in 0..Len(log)
                                /\ hist[i].mvcc # 0 /\ hist[i].mvcc \in Nat
    BY <1>1, <1>2, <2>1
  <2>3. Lines(hist, Len(log))
    BY <1>1, <2>1, <2>2 DEF Lines
  <2> QED
    BY <2>1, <2>2, <2>3
<1> DEFINE S == {i \in DOMAIN hist : hist[i].mvcc <= t}
<1>4. PICK w \in DOMAIN hist : hist[w].mvcc = t
  BY <1>1 DEF Written
<1>5. PICK i \in S : \A k \in S \ {i} : Before(hist, k, i)
  <2>1. S \in SUBSET DOMAIN hist /\ S # {}
    BY <1>1, <1>4
  <2> HIDE DEF S
  <2> QED
    BY <1>3, <2>1, LastLine
<1>6. i \in DOMAIN hist /\ hist[i].mvcc = t
  <2>1. w = i \/ Before(hist, w, i)
    BY <1>1, <1>4, <1>5
  <2>2. hist[w].mvcc <= hist[i].mvcc
    BY <1>1, <1>3, <1>4, <1>5, <2>1, BeforeOrder
  <2> QED
    BY <1>1, <1>3, <1>4, <1>5, <2>2
<1>7. TimelineAt(hist, t) = {i}
  <2>1. \A k \in DOMAIN hist : (hist[k].mvcc <= t /\ k # i) => Before(hist, k, i)
    BY <1>5
  <2> QED
    BY <1>1, <1>3, <1>6, <2>1, ValidLine
<1>8. /\ hist[i].op = log[t].op
      /\ \A c \in KeptColumns(log[t].ver) : hist[i].val[c] = log[t].row[c]
  BY <1>6 DEF MInv, HistInv
<1>9. ASSUME t = Len(log)
      PROVE  /\ CurrentView(hist).there = Source.there
             /\ \A c \in KeptColumns(log[t].ver) : CurrentView(hist).val[c] = Source.val[c]
  <2> DEFINE x == CHOOSE x \in DOMAIN hist : \A j \in DOMAIN hist \ {x} : Before(hist, j, x)
  <2>1. \A j \in DOMAIN hist : j \in S
    BY <1>1, <1>2, <1>9
  <2>2. \A j \in DOMAIN hist \ {i} : Before(hist, j, i)
    BY <1>5, <2>1
  <2>3. x \in DOMAIN hist /\ \A j \in DOMAIN hist \ {x} : Before(hist, j, x)
    BY <1>6, <2>2
  <2>4. x = i
    <3> HIDE DEF x
    <3> QED
      BY <1>3, <1>6, <2>2, <2>3, BeforeOrder
  <2>5. hist # <<>>
    BY <1>6
  <2>6. CurrentView(hist) = IF hist[i].op = "DELETE" THEN NoRow
                            ELSE [there |-> TRUE, val |-> hist[i].val]
    BY <2>4, <2>5 DEF CurrentView
  <2>7. log # <<>>
    BY <1>1
  <2>8. Source.there = (log[t].op # "DELETE") /\ Source.val = log[t].row
    BY <1>9, <2>7 DEF Source
  <2>9. KeptColumns(log[t].ver) \subseteq Columns
    <3>1. Cols[log[t].ver] \in SUBSET Columns
      BY <1>1, LogFacts, ColsFacts
    <3> QED
      BY <3>1 DEF KeptColumns
  <2>10. CASE log[t].op = "DELETE"
    <3>1. \A c \in KeptColumns(log[t].ver) : log[t].row[c] = Null
      BY <1>1, <2>9, <2>10 DEF MInv, LogInv
    <3>2. NoRow.there = FALSE /\ \A c \in Columns : NoRow.val[c] = Null
      BY DEF NoRow
    <3> QED
      BY <1>8, <2>6, <2>8, <2>9, <2>10, <3>1, <3>2
  <2>11. CASE log[t].op # "DELETE"
    <3>1. CurrentView(hist) = [there |-> TRUE, val |-> hist[i].val]
      BY <1>8, <2>6, <2>11
    <3>2. CurrentView(hist).there = TRUE /\ CurrentView(hist).val = hist[i].val
      BY <3>1
    <3>3. Source.there = TRUE
      BY <2>8, <2>11
    <3> QED
      BY <1>8, <2>8, <3>2, <3>3
  <2> QED
    BY <2>10, <2>11
<1> QED
  BY <1>6, <1>7, <1>8, <1>9

-----------------------------------------------------------------------------
(* The theorems. *)

LEMMA InitMInv == Init => MInv
<1> SUFFICES ASSUME Init PROVE MInv
  OBVIOUS
<1>1. DOMAIN log = {} /\ DOMAIN buf = {} /\ DOMAIN todo = {} /\ DOMAIN hist = {} /\ Len(log) = 0
  BY DEF Init
<1>2. FlagType
  <2>1. RegistryTypeOK /\ mine \in 0..MaxVersion
    BY VersionAssumption DEF Init, RegistryInit, RegistryTypeOK, NoVersion, VersionAssumption
  <2>2. cur \in 0..MaxEvents /\ faults \in 0..MaxFaults
    BY DialectAssumption, MigrationAssumption DEF Init, DialectAssumption, MigrationAssumption
  <2>3. force \in BOOLEAN
    BY DEF Init
  <2> QED
    BY <2>1, <2>2, <2>3 DEF Init, FlagType
<1>3. DataType
  BY <1>1, <1>2, EmptySeq, ConfigFacts DEF Init, DataType, FlagType
<1>4. TableType
  BY DEF Init, TableType, Tables, None
<1>5. VersionInv
  BY DEF Init, RegistryInit, VersionInv, NoVersion, None
<1>6. LogInv /\ BufferFits /\ StmtInv /\ HistInv
  BY <1>1 DEF LogInv, BufferFits, StmtInv, HistInv
<1>7. CurInv /\ DdlInv
  BY DEF Init, CurInv, Handling, DdlInv
<1>8. TableInv
  BY DEF Init, RegistryInit, TableInv, None, Serving
<1>9. ViewInv
  BY DEF Init, ViewInv, None, ViewsServe, Serving
<1>10. LineInv
  BY <1>1 DEF Init, LineInv, Handling
<1> QED
  BY <1>2, <1>3, <1>4, <1>5, <1>6, <1>7, <1>8, <1>9, <1>10 DEF MInv

LEMMA NextMInv == MInv /\ [Next]_vars => MInv'
BY FlagStep, DataStep, TableTypeStep, VersionStep, LogStep, CurStep, TableStep, BufferStep,
   DdlStep, ViewStep, StmtStep, LineStep, HistStep
   DEF MInv

LEMMA MigrationInvariant == Spec => []MInv
BY InitMInv, NextMInv, PTL DEF Spec

(***************************************************************************)
(* No statement in the batch names a column that the table does not have,  *)
(* whatever migration was interrupted before: to_sql builds it with the    *)
(* recorded version, and handle_possible_migration and                     *)
(* update_destination_schema have brought the table up to it by then.      *)
(***************************************************************************)
THEOREM MigrationBufferFits == Spec => []BufferFits
<1>1. MInv => BufferFits
  BY DEF MInv
<1> QED
  BY <1>1, MigrationInvariant, PTL

(***************************************************************************)
(* append mode: as long as nothing failed, both views exist and show every *)
(* column of the recorded version whenever events are streamed into the    *)
(* table; migrate_new_columns drops them only in between.                  *)
(***************************************************************************)
THEOREM MigrationViewsServe == Spec => []ViewsServeIfCalm
<1>1. MInv => ViewsServeIfCalm
  <2> SUFFICES ASSUME MInv, faults = 0 PROVE ViewsServe
    BY DEF ViewsServeIfCalm
  <2>1. CASE Appending
    BY <2>1 DEF MInv, ViewInv
  <2>2. CASE ~Appending
    BY <2>2 DEF ViewsServe
  <2> QED
    BY <2>1, <2>2
<1> QED
  BY <1>1, MigrationInvariant, PTL

(***************************************************************************)
(* append mode: at every time up to which everything was written,          *)
(* <table>_timeline has exactly one valid row and it is the event of that  *)
(* time, and once everything was written <table>_current is the object,    *)
(* however often and in whatever order the events were written.            *)
(***************************************************************************)
THEOREM MigrationHistoryTrue == Spec => []HistoryTrue
BY MigrationInvariant, HistoryIsTrue, PTL

(***************************************************************************)
(* append mode: the destination never rejects a batch, so a flush only     *)
(* ends the worker when the connection is lost.                            *)
(***************************************************************************)
THEOREM MigrationAppendAccepted == Spec => [][Appending => ~FlushRejected]_vars
<1>1. MInv /\ [Next]_vars => [Appending => ~FlushRejected]_vars
  BY NothingRejected
<1> QED
  BY <1>1, MigrationInvariant, PTL DEF Spec
-----------------------------------------------------------------------------
(* Induction over numbers, and folds. *)
(* What holds of 0 and, with a number, of the next one up to n. *)
LEMMA Induction ==
  ASSUME NEW n \in Nat, NEW S, 0 \in S,
         \A k \in 0..(n - 1) : k \in S => k + 1 \in S
  PROVE  \A k \in 0..n : k \in S
<1> DEFINE B == {k \in 0..n : k \notin S}
<1> SUFFICES ASSUME B # {} PROVE FALSE
  OBVIOUS
<1>1. PICK m \in B : \A k \in B : m <= k
  <2>1. B \in SUBSET Nat
    OBVIOUS
  <2> HIDE DEF B
  <2> QED
    BY <2>1, NatLeast
<1>2. m # 0 /\ m \in 0..n /\ m \notin S
  OBVIOUS
<1>3. m - 1 \in 0..(n - 1) /\ (m - 1) + 1 = m
  BY <1>2
<1>4. m - 1 \in S
  <2>1. m - 1 \notin B
    BY <1>1, <1>2
  <2> QED
    BY <2>1, <1>3
<1> QED
  BY <1>2, <1>3, <1>4

LEMMA MaxOf ==
  ASSUME NEW n \in Nat, NEW u \in SUBSET (1..n), u # {}
  PROVE  Max(u) \in u /\ \A v \in u : v <= Max(u)
<1> DEFINE S == {n - v : v \in u}
<1>1. S \in SUBSET Nat /\ S # {}
  <2>1. \A v \in u : n - v \in Nat
    OBVIOUS
  <2> QED
    BY <2>1
<1> HIDE DEF S
<1>2. PICK t \in S : \A w \in S : t <= w
  BY <1>1, NatLeast
<1>3. PICK v \in u : t = n - v
  BY DEF S
<1>4. \A w \in u : n - v <= n - w
  BY <1>2, <1>3 DEF S
<1>5. \A w \in u : v >= w
  BY <1>4
<1>6. Max(u) \in u /\ \A w \in u : Max(u) >= w
  BY <1>5 DEF Max
<1> QED
  BY <1>6

LEMMA MaxSegment ==
  ASSUME NEW k \in Nat \ {0}
  PROVE  Max(1..k) = k /\ (1..k) \ {Max(1..k)} = 1..(k - 1)
<1>1. Max(1..k) \in 1..k /\ \A v \in 1..k : v <= Max(1..k)
  <2>1. k \in Nat /\ 1..k \in SUBSET (1..k) /\ 1..k # {}
    OBVIOUS
  <2> QED
    BY <2>1, MaxOf
<1>2. Max(1..k) = k
  BY <1>1
<1> QED
  BY <1>2

(* F can be folded over s from b, with values in T. *)
CanFold(T, E, F, b, s) == F \in [T \X E -> T] /\ b \in T /\ s \in Seq(E)

(* g solves the equation by which the community modules define a fold. *)
Solves(g, T, F, b, s, k) ==
  /\ g \in [SUBSET (1..k) -> T]
  /\ \A u \in SUBSET (1..k) :
       g[u] = IF u = {} THEN b ELSE F[<<g[u \ {Max(u)}], s[Max(u)]>>]

LEMMA FoldExists ==
  ASSUME NEW T, NEW E, NEW F, NEW b, NEW s, CanFold(T, E, F, b, s)
  PROVE  \E g : Solves(g, T, F, b, s, Len(s))
<1> DEFINE N == Len(s)
           S == {k \in Nat : \E g : Solves(g, T, F, b, s, k)}
<1> USE DEF CanFold, Solves
<1>1. N \in Nat /\ \A i \in 1..N : s[i] \in E
  BY LenProperties, ElementOfSeq
<1>2. 0 \in S
  <2> DEFINE g == [u \in SUBSET (1..0) |-> b]
  <2>1. \A u \in SUBSET (1..0) : u = {}
    OBVIOUS
  <2>2. Solves(g, T, F, b, s, 0)
    BY <2>1
  <2> QED
    BY <2>2
<1>3. ASSUME NEW k \in 0..(N - 1), k \in S PROVE k + 1 \in S
  <2>1. PICK h : Solves(h, T, F, b, s, k)
    BY <1>3
  <2>2. k \in Nat /\ k + 1 \in 1..N /\ s[k + 1] \in E
    BY <1>1
  <2> DEFINE g == [u \in SUBSET (1..(k + 1)) |->
                     IF k + 1 \in u THEN F[<<h[u \ {k + 1}], s[k + 1]>>] ELSE h[u]]
  <2>3. ASSUME NEW u \in SUBSET (1..(k + 1)), k + 1 \in u
        PROVE  /\ u \ {k + 1} \in SUBSET (1..k) /\ Max(u) = k + 1 /\ u # {}
               /\ g[u] = F[<<h[u \ {k + 1}], s[k + 1]>>] /\ g[u] \in T
               /\ g[u \ {k + 1}] = h[u \ {k + 1}]
    <3>1. u \ {k + 1} \in SUBSET (1..k)
      BY <2>2
    <3>2. Max(u) \in u /\ k + 1 <= Max(u)
      <4>1. k + 1 \in Nat /\ u # {}
        BY <2>2, <2>3
      <4> QED
        BY <2>3, <4>1, MaxOf
    <3>3. Max(u) = k + 1
      <4>1. Max(u) \in 1..(k + 1)
        BY <3>2
      <4> QED
        BY <2>2, <3>2, <4>1
    <3>4. h[u \ {k + 1}] \in T
      BY <2>1, <3>1
    <3>5. F[<<h[u \ {k + 1}], s[k + 1]>>] \in T
      BY <3>4, <2>2
    <3> QED
      BY <3>1, <3>3, <3>5, <2>3
  <2>4. ASSUME NEW u \in SUBSET (1..(k + 1)), k + 1 \notin u
        PROVE  /\ u \in SUBSET (1..k) /\ g[u] = h[u] /\ h[u] \in T
               /\ u # {} => g[u \ {Max(u)}] = h[u \ {Max(u)}]
    <3>1. u \in SUBSET (1..k)
      BY <2>2, <2>4
    <3>2. g[u] = h[u] /\ h[u] \in T
      BY <2>1, <2>4, <3>1
    <3>3. g[u \ {Max(u)}] = h[u \ {Max(u)}]
      BY <2>4
    <3> QED
      BY <3>1, <3>2, <3>3
  <2>5. g \in [SUBSET (1..(k + 1)) -> T]
    BY <2>3, <2>4
  <2> HIDE DEF g
  <2>6. ASSUME NEW u \in SUBSET (1..(k + 1))
        PROVE  g[u] = IF u = {} THEN b ELSE F[<<g[u \ {Max(u)}], s[Max(u)]>>]
    <3>1. CASE k + 1 \in u
      BY <2>3, <3>1
    <3>2. CASE k + 1 \notin u
      BY <2>1, <2>4, <3>2
    <3> QED
      BY <3>1, <3>2
  <2>7. Solves(g, T, F, b, s, k + 1)
    BY <2>5, <2>6
  <2> HIDE DEF Solves
  <2> QED
    BY <2>2, <2>7
<1>4. N \in S
  <2> HIDE DEF S
  <2>1. \A k \in 0..N : k \in S
    BY <1>1, <1>2, <1>3, Induction
  <2>2. N \in 0..N
    BY <1>1
  <2> QED
    BY <2>1, <2>2
<1> QED
  BY <1>4

(* t holds the values of a fold of F from b over the prefixes of s. *)
IsTrace(t, T, F, b, s) ==
  /\ t \in [0..Len(s) -> T]
  /\ t[0] = b
  /\ \A k \in 1..Len(s) : t[k] = F[<<t[k - 1], s[k]>>]

(* What FoldLeft computes is the end of such a trace. *)
LEMMA FoldTrace ==
  ASSUME NEW T, NEW E, NEW F, NEW b, NEW s, CanFold(T, E, F, b, s), NEW h,
         h[{}] = b,
         \A u \in SUBSET (1..Len(s)) :
           (u # {} /\ h[u \ {Max(u)}] \in T) => h[u] = F[<<h[u \ {Max(u)}], s[Max(u)]>>]
  PROVE  IsTrace([k \in 0..Len(s) |-> h[1..k]], T, F, b, s)
<1> DEFINE N == Len(s)
           t == [k \in 0..N |-> h[1..k]]
           S == {k \in 0..N : h[1..k] \in T}
<1> USE DEF CanFold
<1>1. N \in Nat /\ \A i \in 1..N : s[i] \in E
  BY LenProperties, ElementOfSeq
<1>2. h[1..0] = b
  <2>1. 1..0 = {}
    OBVIOUS
  <2> QED
    BY <2>1
<1>3. ASSUME NEW k \in 1..N, h[1..(k - 1)] \in T
      PROVE  h[1..k] = F[<<h[1..(k - 1)], s[k]>>] /\ h[1..k] \in T
  <2>1. k \in Nat \ {0} /\ k <= N
    BY <1>1
  <2>2. 1..k \in SUBSET (1..N) /\ 1..k # {}
    <3>1. (\A i \in 1..k : i \in 1..N) /\ 1 \in 1..k
      BY <1>1, <2>1
    <3> QED
      BY <3>1
  <2>3. Max(1..k) = k /\ (1..k) \ {Max(1..k)} = 1..(k - 1)
    BY <2>1, MaxSegment
  <2>4. h[1..k] = F[<<h[1..(k - 1)], s[k]>>]
    BY <1>3, <2>2, <2>3
  <2>5. s[k] \in E
    BY <1>1
  <2> QED
    BY <1>3, <2>4, <2>5
<1>4. \A k \in 0..N : k \in S
  <2>1. 0 \in S
    BY <1>1, <1>2
  <2>2. ASSUME NEW k \in 0..(N - 1), k \in S PROVE k + 1 \in S
    <3>1. k + 1 \in 1..N /\ (k + 1) - 1 = k /\ k + 1 \in 0..N
      BY <1>1
    <3>2. h[1..((k + 1) - 1)] \in T
      BY <2>2, <3>1
    <3> QED
      BY <1>3, <3>1, <3>2
  <2> HIDE DEF S
  <2> QED
    BY <1>1, <2>1, <2>2, Induction
<1>5. t \in [0..N -> T]
  BY <1>4
<1>6. t[0] = b
  BY <1>1, <1>2
<1>7. ASSUME NEW k \in 1..N PROVE t[k] = F[<<t[k - 1], s[k]>>]
  <2>1. k \in 0..N /\ k - 1 \in 0..N
    BY <1>1
  <2>2. h[1..(k - 1)] \in T
    BY <1>4, <2>1
  <2> QED
    BY <1>3, <2>1, <2>2
<1> QED
  BY <1>5, <1>6, <1>7 DEF IsTrace

-----------------------------------------------------------------------------
(* upsert mode: the row.  RowCurrent says what the row is when all is settled; *)
(* until then a batch may have been written and not acked, and its statements  *)
(* are executed again over a row that is ahead of them.  So the invariant is   *)
(* about what the events still to come will make of the row.                   *)

(* After event n the object exists; before the first one it does not. *)
There(n) == n # 0 /\ log[n].op # "DELETE"

(* The source's events follow from each other: an object is inserted where     *)
(* there is none, and an update leaves the columns alone that are not in its   *)
(* diff.                                                                       *)
SourceInv ==
  \A n \in DOMAIN log :
    /\ log[n].op = "INSERT" <=> ~There(n - 1)
    /\ log[n].diff \subseteq Cols[log[n].ver]
    /\ \A c \in Columns : c \notin Cols[log[n].ver] => log[n].row[c] = Null
    /\ log[n].op = "UPDATE" =>
         \A c \in Cols[log[n].ver] \ log[n].diff : log[n].row[c] = log[n - 1].row[c]

(* A migration only adds to the diff of the event in hand. *)
DiffInv == Handling => log[cur].diff \subseteq diff

(* An upsert writes its event: where it inserts or replaces the row, all of    *)
(* it; where it updates it, the diff at least.                                 *)
Upserts(s) ==
  /\ s.op = log[s.msg].op
  /\ s.op # "DELETE" =>
       \A c \in Columns :
         /\ c \in s.sets => s.upd[c] = log[s.msg].row[c]
         /\ SameValue(c, IF c \in s.cols THEN s.ins[c] ELSE Null, log[s.msg].row[c])
  /\ s.op = "UPDATE" => (s.whole \/ s.bad \/ log[s.msg].diff \subseteq s.sets)

UpsertInv == ~Appending => \A i \in DOMAIN buf : Upserts(buf[i])

(* The columns that can still be in the object. *)
Live ==
  {c \in Columns : \A n \in DOMAIN log : \E w \in Versions : log[n].ver <= w /\ c \in Cols[w]}

(* Event i writes the row, or column c of it, whatever was there before. *)
Replaces(i) == log[i].op # "UPDATE"
Rewrites(i, c) == Replaces(i) \/ c \in log[i].diff

(* Column c of row r is the one of event k, or a later event writes it. *)
Right(r, c, k) ==
  \/ SameValue(c, r.val[c], log[k].row[c])
  \/ \E i \in (k + 1)..Len(log) : Rewrites(i, c)

(* Executing the events after a makes of row r what it makes of the object     *)
(* after a: r exists as the object does, or a later event sees to that, and    *)
(* so for every column.  Where the object does not exist after a, the next     *)
(* event inserts it, and a row that is there already is updated by it.         *)
Base(a) == IF There(a) THEN a ELSE a + 1
Converges(r, a) ==
  /\ (r.there <=> There(a)) \/ \E i \in (a + 1)..Len(log) : Replaces(i)
  /\ (r.there /\ Base(a) <= Len(log)) => \A c \in Live : Right(r, c, Base(a))

(* An ordered stream: the events up to a are settled, and the batch and the    *)
(* event in hand are the next ones.                                            *)
InLine(a) ==
  /\ acked = 1..a
  /\ \A i \in DOMAIN buf : buf[i].msg = a + i
  /\ Handling => cur = a + Len(buf) + 1

RowInv ==
  (NoColumnReturns /\ ~Appending /\ cfg.ordered) =>
    \E a \in 0..Len(log) :
      /\ InLine(a)
      /\ Converges(row, a)
      /\ pc = "ack" => Converges(row, a + Len(buf))

RowType == row \in Rows /\ (~tab.there => row = NoRow)

UInv == MInv /\ SourceInv /\ DiffInv /\ UpsertInv /\ RowType /\ RowInv

LEMMA EventFacts ==
  ASSUME MInv, SourceInv, NEW n \in DOMAIN log
  PROVE  /\ n \in 1..Len(log) /\ n \in Nat /\ n # 0 /\ n - 1 \in 0..Len(log)
         /\ log[n].op \in {"INSERT", "UPDATE", "DELETE"}
         /\ There(n) <=> log[n].op # "DELETE"
         /\ log[n].op = "INSERT" <=> ~There(n - 1)
         /\ There(n - 1) => n - 1 \in DOMAIN log
<1>1. /\ Len(log) \in Nat /\ DOMAIN log = 1..Len(log) /\ log[n] \in Events
  BY LogFacts
<1>2. n \in 1..Len(log) /\ n \in Nat /\ n # 0 /\ n - 1 \in 0..Len(log)
  BY <1>1
<1>3. log[n].op \in {"INSERT", "UPDATE", "DELETE"}
  BY <1>1 DEF Events, Ops
<1>4. n - 1 # 0 => n - 1 \in DOMAIN log
  BY <1>1, <1>2
<1> QED
  BY <1>2, <1>3, <1>4 DEF There, SourceInv

(* An update leaves a column that can still be in the object as it was, unless *)
(* the column is in its diff.                                                  *)
LEMMA UpdateKeeps ==
  ASSUME MInv, SourceInv, NoColumnReturns, NEW n \in DOMAIN log, log[n].op = "UPDATE",
         NEW c \in Live, c \notin log[n].diff
  PROVE  n - 1 \in DOMAIN log /\ log[n].row[c] = log[n - 1].row[c]
<1>1. n - 1 \in DOMAIN log
  BY EventFacts
<1>2. CASE c \in Cols[log[n].ver]
  BY <1>1, <1>2 DEF SourceInv
<1>3. CASE c \notin Cols[log[n].ver]
  <2>1. c \in Columns
    BY DEF Live
  <2>2. log[n].row[c] = Null
    BY <1>3, <2>1 DEF SourceInv
  <2>3. c \notin Cols[log[n - 1].ver]
    <3> SUFFICES ASSUME c \in Cols[log[n - 1].ver] PROVE FALSE
      OBVIOUS
    <3>1. PICK w \in Versions : log[n].ver <= w /\ c \in Cols[w]
      BY DEF Live
    <3>2. log[n].ver \in Versions /\ log[n - 1].ver \in Versions
      BY <1>1, LogFacts
    <3>3. n - 1 < n
      BY EventFacts
    <3>4. log[n - 1].ver <= log[n].ver
      BY <1>1, <3>3 DEF MInv, LogInv
    <3>5. log[n - 1].ver # log[n].ver /\ log[n].ver # w
      BY <1>3, <3>1
    <3>6. log[n - 1].ver < log[n].ver /\ log[n].ver < w
      BY <3>1, <3>2, <3>4, <3>5, VersionAssumption DEF Versions, VersionAssumption
    <3>7. c \in Cols[log[n - 1].ver] \cap Cols[w]
      BY <3>1
    <3> QED
      BY <1>3, <3>1, <3>2, <3>6, <3>7 DEF NoColumnReturns
  <2>4. log[n - 1].row[c] = Null
    BY <1>1, <2>1, <2>3 DEF SourceInv
  <2> QED
    BY <1>1, <2>2, <2>4
<1> QED
  BY <1>2, <1>3

(* A row that is right after an event is right before it, too: executing the   *)
(* event again does no harm.                                                   *)
LEMMA ConvergesBack ==
  ASSUME MInv, SourceInv, NoColumnReturns, NEW r, NEW n \in DOMAIN log, Converges(r, n)
  PROVE  Converges(r, n - 1)
<1>1. /\ n \in 1..Len(log) /\ Len(log) \in Nat /\ (n - 1) + 1 = n
      /\ n \in ((n - 1) + 1)..Len(log)
      /\ \A i \in (n + 1)..Len(log) : i \in ((n - 1) + 1)..Len(log) /\ i \in ((n + 1) - 1)..Len(log)
  BY EventFacts, LogFacts
<1>2. /\ log[n].op \in {"INSERT", "UPDATE", "DELETE"}
      /\ There(n) <=> log[n].op # "DELETE"
      /\ log[n].op = "INSERT" <=> ~There(n - 1)
  BY EventFacts
<1>3. (r.there <=> There(n - 1)) \/ \E i \in ((n - 1) + 1)..Len(log) : Replaces(i)
  <2>1. CASE log[n].op # "UPDATE"
    BY <1>1, <2>1 DEF Replaces
  <2>2. CASE log[n].op = "UPDATE"
    BY <1>1, <1>2, <2>2 DEF Converges
  <2> QED
    BY <2>1, <2>2
<1>4. ASSUME r.there, NEW c \in Live PROVE Right(r, c, Base(n - 1))
  <2>1. CASE There(n - 1)
    <3>1. Base(n - 1) = n - 1
      BY <2>1 DEF Base
    <3>2. CASE log[n].op = "DELETE" \/ c \in log[n].diff
      BY <1>1, <3>1, <3>2 DEF Right, Rewrites, Replaces
    <3>3. CASE log[n].op = "UPDATE" /\ c \notin log[n].diff
      <4>1. Right(r, c, n)
        BY <1>1, <1>2, <1>4, <3>3 DEF Converges, Base
      <4>2. log[n].row[c] = log[n - 1].row[c]
        BY <3>3, UpdateKeeps
      <4> QED
        BY <1>1, <3>1, <4>1, <4>2 DEF Right
    <3> QED
      BY <1>2, <2>1, <3>2, <3>3
  <2>2. CASE ~There(n - 1)
    <3>1. Base(n - 1) = n /\ There(n)
      BY <1>1, <1>2, <2>2 DEF Base
    <3>2. Right(r, c, n)
      BY <1>1, <1>4, <3>1 DEF Converges, Base
    <3> QED
      BY <3>1, <3>2
  <2> QED
    BY <2>1, <2>2
<1> QED
  BY <1>3, <1>4 DEF Converges

LEMMA ConvergesEarlier ==
  ASSUME MInv, SourceInv, NoColumnReturns, NEW r, NEW m \in 0..Len(log), Converges(r, m),
         NEW a \in 0..m
  PROVE  Converges(r, a)
<1>0. Len(log) \in Nat /\ DOMAIN log = 1..Len(log) /\ m \in Nat
  BY LogFacts
<1> DEFINE T == {k \in 0..m : Converges(r, m - k)}
<1>1. 0 \in T
  BY <1>0
<1>2. ASSUME NEW k \in 0..(m - 1), k \in T PROVE k + 1 \in T
  <2>1. m - k \in DOMAIN log /\ (m - k) - 1 = m - (k + 1) /\ k + 1 \in 0..m
    BY <1>0
  <2>2. Converges(r, m - k)
    BY <1>2
  <2>3. Converges(r, (m - k) - 1)
    BY <2>1, <2>2, ConvergesBack
  <2> QED
    BY <2>1, <2>3
<1> HIDE DEF T
<1>3. \A k \in 0..m : k \in T
  BY <1>0, <1>1, <1>2, Induction
<1>4. m - a \in 0..m /\ m - (m - a) = a
  BY <1>0
<1>5. m - a \in T
  BY <1>3, <1>4
<1> QED
  BY <1>4, <1>5 DEF T

-----------------------------------------------------------------------------
(* What a statement, and a batch, makes of the row. *)

LEMMA ApplyStmtFacts ==
  ASSUME NEW r \in Rows, NEW s \in Stmts, NEW q, q = ApplyStmt(r, s)
  PROVE  /\ q \in Rows
         /\ s.op = "DELETE" => q = NoRow
         /\ s.op # "DELETE" =>
              /\ q.there
              /\ \A c \in Columns :
                   q.val[c] = IF ~r.there \/ s.whole
                              THEN IF c \in s.cols THEN s.ins[c] ELSE Null
                              ELSE IF c \in s.sets THEN s.upd[c] ELSE r.val[c]
<1> DEFINE val == [c \in Columns |->
                     IF ~r.there \/ s.whole
                     THEN IF c \in s.cols THEN s.ins[c] ELSE Null
                     ELSE IF c \in s.sets THEN s.upd[c] ELSE r.val[c]]
<1>1. s.ins \in Vals /\ s.upd \in Vals /\ r.val \in Vals
  BY DEF Stmts, Rows
<1>2. Null \in Values
  BY DialectAssumption DEF Values, Null, Zero, DialectAssumption
<1>3. val \in Vals
  BY <1>1, <1>2 DEF Vals
<1>4. NoRow \in Rows
  BY <1>2 DEF NoRow, Rows, Vals
<1>5. q = IF s.op = "DELETE" THEN NoRow ELSE [there |-> TRUE, val |-> val]
  BY DEF ApplyStmt
<1>6. \A c \in Columns : val[c] = IF ~r.there \/ s.whole
                                  THEN IF c \in s.cols THEN s.ins[c] ELSE Null
                                  ELSE IF c \in s.sets THEN s.upd[c] ELSE r.val[c]
  OBVIOUS
<1> HIDE DEF val
<1> QED
  BY <1>3, <1>4, <1>5, <1>6 DEF Rows

ApplyFn == [p \in Rows \X Stmts |-> ApplyStmt(p[1], p[2])]

LEMMA ApplyFolds ==
  ASSUME NEW r \in Rows, NEW ss \in Seq(Stmts)
  PROVE  CanFold(Rows, Stmts, ApplyFn, r, ss)
<1>1. \A a \in Rows : \A s \in Stmts : ApplyStmt(a, s) \in Rows
  BY ApplyStmtFacts
<1> QED
  BY <1>1 DEF ApplyFn, CanFold

LEMMA ApplyAllTrace ==
  ASSUME NEW r \in Rows, NEW ss \in Seq(Stmts)
  PROVE  \E t : IsTrace(t, Rows, ApplyFn, r, ss) /\ ApplyAll(r, ss) = t[Len(ss)]
<1> DEFINE Eq(g) == g = [u \in SUBSET (DOMAIN ss) |->
                           IF u = {} THEN r ELSE ApplyStmt(g[u \ {Max(u)}], ss[Max(u)])]
           h == CHOOSE g : Eq(g)
<1>1. Len(ss) \in Nat /\ DOMAIN ss = 1..Len(ss) /\ \A i \in 1..Len(ss) : ss[i] \in Stmts
  BY LenProperties, ElementOfSeq
<1>2. ASSUME NEW u \in SUBSET (1..Len(ss)), u # {}
      PROVE  Max(u) \in 1..Len(ss) /\ u \ {Max(u)} \in SUBSET (1..Len(ss))
  BY <1>1, <1>2, MaxOf
<1>3. ASSUME NEW a \in Rows, NEW i \in 1..Len(ss) PROVE ApplyFn[<<a, ss[i]>>] = ApplyStmt(a, ss[i])
  BY <1>1 DEF ApplyFn
<1>4. \E g : Eq(g)
  <2>1. PICK g : Solves(g, Rows, ApplyFn, r, ss, Len(ss))
    BY ApplyFolds, FoldExists
  <2>2. \A u \in SUBSET (1..Len(ss)) :
          g[u] = IF u = {} THEN r ELSE ApplyStmt(g[u \ {Max(u)}], ss[Max(u)])
    BY <1>2, <1>3, <2>1 DEF Solves
  <2>3. Eq(g)
    BY <1>1, <2>1, <2>2 DEF Solves
  <2> QED
    BY <2>3
<1>5. Eq(h)
  BY <1>4
<1>6. ApplyAll(r, ss) = h[DOMAIN ss]
  BY DEF ApplyAll, FoldLeft, MapThenFoldSet
<1> HIDE DEF h
<1>7. h[{}] = r
  BY <1>5
<1>8. \A u \in SUBSET (1..Len(ss)) :
        (u # {} /\ h[u \ {Max(u)}] \in Rows)
          => h[u] = ApplyFn[<<h[u \ {Max(u)}], ss[Max(u)]>>]
  BY <1>1, <1>2, <1>3, <1>5
<1>9. IsTrace([k \in 0..Len(ss) |-> h[1..k]], Rows, ApplyFn, r, ss)
  BY <1>7, <1>8, ApplyFolds, FoldTrace
<1>10. [k \in 0..Len(ss) |-> h[1..k]][Len(ss)] = ApplyAll(r, ss)
  BY <1>1, <1>6
<1> QED
  BY <1>9, <1>10

LEMMA ApplyAllType ==
  ASSUME NEW r \in Rows, NEW ss \in Seq(Stmts)
  PROVE  ApplyAll(r, ss) \in Rows
<1>1. PICK t : IsTrace(t, Rows, ApplyFn, r, ss) /\ ApplyAll(r, ss) = t[Len(ss)]
  BY ApplyAllTrace
<1>2. Len(ss) \in 0..Len(ss)
  BY LenProperties
<1> QED
  BY <1>1, <1>2 DEF IsTrace

(* The statement of event n takes a row that is right before it to one that is *)
(* right after it, whatever events the row had seen already.                   *)
LEMMA ConvergesApply ==
  ASSUME MInv, SourceInv, NoColumnReturns, NEW r \in Rows, NEW s \in Stmts, NEW n \in DOMAIN log,
         s.msg = n, Upserts(s), ~s.bad, Converges(r, n - 1)
  PROVE  Converges(ApplyStmt(r, s), n)
<1>0. PICK q : q = ApplyStmt(r, s)
  OBVIOUS
<1>1. /\ n \in 1..Len(log) /\ Len(log) \in Nat /\ (n - 1) + 1 = n /\ n <= Len(log)
      /\ \A i \in ((n - 1) + 1)..Len(log) : i = n \/ i \in (n + 1)..Len(log)
  BY EventFacts, LogFacts
<1>2. /\ log[n].op \in {"INSERT", "UPDATE", "DELETE"}
      /\ There(n) <=> log[n].op # "DELETE"
      /\ log[n].op = "INSERT" <=> ~There(n - 1)
  BY EventFacts
<1>3. s.op = log[n].op
  BY DEF Upserts
<1>4. CASE log[n].op = "DELETE"
  <2>1. q = NoRow /\ ~q.there
    BY <1>0, <1>3, <1>4, ApplyStmtFacts DEF NoRow
  <2> QED
    BY <1>0, <1>2, <1>4, <2>1 DEF Converges
<1>5. CASE log[n].op # "DELETE"
  <2>1. /\ q.there
        /\ \A c \in Columns :
             q.val[c] = IF ~r.there \/ s.whole
                        THEN IF c \in s.cols THEN s.ins[c] ELSE Null
                        ELSE IF c \in s.sets THEN s.upd[c] ELSE r.val[c]
    BY <1>0, <1>3, <1>5, ApplyStmtFacts
  <2>2. There(n) /\ Base(n) = n
    BY <1>2, <1>5 DEF Base
  <2>3. ASSUME NEW c \in Live PROVE Right(q, c, n)
    <3>0. c \in Columns
      BY DEF Live
    <3>1. CASE ~r.there \/ s.whole
      BY <1>3, <1>5, <2>1, <3>0, <3>1 DEF Right, Upserts
    <3>2. CASE r.there /\ ~s.whole /\ c \in s.sets
      <4>1. q.val[c] = log[n].row[c]
        BY <1>3, <1>5, <2>1, <3>0, <3>2 DEF Upserts
      <4> QED
        BY <4>1 DEF Right, SameValue
    <3>3. CASE r.there /\ ~s.whole /\ c \notin s.sets
      <4>1. q.val[c] = r.val[c]
        BY <2>1, <3>0, <3>3
      <4>2. CASE log[n].op = "INSERT"
        <5>1. Base(n - 1) = n
          BY <1>1, <1>2, <4>2 DEF Base
        <5>2. Right(r, c, n)
          BY <1>1, <3>3, <5>1 DEF Converges
        <5> QED
          BY <4>1, <5>2 DEF Right
      <4>3. CASE log[n].op = "UPDATE"
        <5>1. Base(n - 1) = n - 1 /\ n - 1 <= Len(log)
          BY <1>1, <1>2, <4>3 DEF Base
        <5>2. Right(r, c, n - 1)
          BY <3>3, <5>1 DEF Converges
        <5>3. c \notin log[n].diff
          BY <1>3, <3>3, <4>3 DEF Upserts
        <5>4. log[n].row[c] = log[n - 1].row[c] /\ ~Rewrites(n, c)
          BY <4>3, <5>3, UpdateKeeps DEF Rewrites, Replaces
        <5> QED
          BY <1>1, <4>1, <5>2, <5>4 DEF Right
      <4> QED
        BY <1>2, <1>5, <4>2, <4>3
    <3> QED
      BY <3>1, <3>2, <3>3
  <2> QED
    BY <1>0, <2>1, <2>2, <2>3 DEF Converges
<1> QED
  BY <1>4, <1>5

(* ... and so do the statements of the events after a, one after the other. *)
LEMMA ConvergesAll ==
  ASSUME MInv, SourceInv, NoColumnReturns, NEW r \in Rows, NEW ss \in Seq(Stmts),
         NEW a \in 0..Len(log), Converges(r, a),
         \A i \in DOMAIN ss : /\ ss[i].msg = a + i /\ a + i \in DOMAIN log
                              /\ Upserts(ss[i]) /\ ~ss[i].bad
  PROVE  Converges(ApplyAll(r, ss), a + Len(ss))
<1>1. /\ Len(ss) \in Nat /\ DOMAIN ss = 1..Len(ss) /\ (\A i \in 1..Len(ss) : ss[i] \in Stmts)
      /\ a \in Nat
  BY LenProperties, ElementOfSeq, LogFacts
<1>2. PICK t : IsTrace(t, Rows, ApplyFn, r, ss) /\ ApplyAll(r, ss) = t[Len(ss)]
  BY ApplyAllTrace
<1> DEFINE T == {k \in 0..Len(ss) : Converges(t[k], a + k)}
<1>3. 0 \in T
  <2>1. t[0] = r /\ a + 0 = a /\ 0 \in 0..Len(ss)
    BY <1>1, <1>2 DEF IsTrace
  <2> QED
    BY <2>1
<1>4. ASSUME NEW k \in 0..(Len(ss) - 1), k \in T PROVE k + 1 \in T
  <2>1. /\ k + 1 \in 1..Len(ss) /\ (k + 1) - 1 = k /\ k \in 0..Len(ss) /\ k + 1 \in 0..Len(ss)
        /\ (a + (k + 1)) - 1 = a + k
    BY <1>1
  <2>2. t[k] \in Rows /\ ss[k + 1] \in Stmts /\ Converges(t[k], a + k)
    BY <1>1, <1>2, <1>4, <2>1 DEF IsTrace
  <2>3. t[k + 1] = ApplyFn[<<t[k], ss[k + 1]>>]
    BY <1>2, <2>1 DEF IsTrace
  <2>4. t[k + 1] = ApplyStmt(t[k], ss[k + 1])
    BY <2>2, <2>3 DEF ApplyFn
  <2>5. /\ ss[k + 1].msg = a + (k + 1) /\ a + (k + 1) \in DOMAIN log
        /\ Upserts(ss[k + 1]) /\ ~ss[k + 1].bad
    BY <1>1, <2>1
  <2>6. Converges(t[k], (a + (k + 1)) - 1)
    BY <2>1, <2>2
  <2>7. Converges(ApplyStmt(t[k], ss[k + 1]), a + (k + 1))
    BY <2>2, <2>5, <2>6, ConvergesApply
  <2> QED
    BY <2>1, <2>4, <2>7
<1> HIDE DEF T
<1>5. \A k \in 0..Len(ss) : k \in T
  BY <1>1, <1>3, <1>4, Induction
<1>6. Len(ss) \in T
  BY <1>1, <1>5
<1> QED
  BY <1>2, <1>6 DEF T

-----------------------------------------------------------------------------
(* The source. *)

(* A change is about the columns of the latest version, and one of these keeps *)
(* its value. *)
LEMMA ChangeValues ==
  ASSUME NEW op, NEW val, NEW D \in SUBSET Columns, latest \in Versions,
         NEW e, e = Change(op, val, D)
  PROVE  /\ e.op = op /\ e.ver = latest /\ e.diff = D
         /\ \A c \in Columns : e.row[c] = IF c \in Cols[latest] THEN val[c] ELSE Null
<1> DEFINE after == [c \in Columns |-> IF c \in Cols[latest] THEN val[c] ELSE Null]
           shown == IF cfg.omit THEN {c \in Columns : after[c] # Null} ELSE Cols[latest]
<1>1. e = [op |-> op, ver |-> latest, row |-> after, diff |-> D, shown |-> shown]
  BY DEF Change
<1>2. \A c \in Columns : after[c] = IF c \in Cols[latest] THEN val[c] ELSE Null
  OBVIOUS
<1> HIDE DEF after, shown
<1> QED
  BY <1>1, <1>2

(* An event e that follows from the log. *)
Follows(e) ==
  /\ e.ver = latest
  /\ e.op = "INSERT" <=> ~There(Len(log))
  /\ e.diff \subseteq Cols[latest]
  /\ \A c \in Columns : c \notin Cols[latest] => e.row[c] = Null
  /\ e.op = "UPDATE" => \A c \in Cols[latest] \ e.diff : e.row[c] = log[Len(log)].row[c]

LEMMA PublishSource ==
  ASSUME MInv, Publish
  PROVE  \E e : log' = Append(log, e) /\ Follows(e)
<1> DEFINE n == Len(log) + 1
           val(D, old) == [c \in Columns |-> IF c \in D THEN n ELSE old[c]]
<1>1. latest \in Versions
  BY PublishFacts
<1>2. Cols[latest] \in SUBSET Columns
  BY <1>1, ColsFacts
<1>3. Source.there <=> There(Len(log))
  <2>1. log = <<>> <=> Len(log) = 0
    BY EmptySeq DEF MInv, DataType
  <2> QED
    BY <2>1 DEF Source, There, NoRow
<1>4. Source.there => Source.val = log[Len(log)].row
  BY DEF Source, NoRow
<1>5. \/ /\ ~Source.there
         /\ \E D \in {cfg.required[latest], Cols[latest]} :
               log' = Append(log, Change("INSERT", val(D, NoRow.val), {}))
      \/ /\ Source.there
         /\ \E D \in SUBSET Cols[latest] \ {{}} :
              log' = Append(log, Change("UPDATE", val(D, Source.val), D))
      \/ Source.there /\ log' = Append(log, Change("DELETE", NoRow.val, {}))
  BY DEF Publish
<1>6. \A D \in SUBSET Columns : \A c \in Columns : c \notin D => val(D, Source.val)[c] = Source.val[c]
  OBVIOUS
<1> HIDE DEF val, n
<1>7. CASE /\ ~Source.there
           /\ \E D \in {cfg.required[latest], Cols[latest]} :
               log' = Append(log, Change("INSERT", val(D, NoRow.val), {}))
  <2>1. PICK D \in {cfg.required[latest], Cols[latest]} :
               log' = Append(log, Change("INSERT", val(D, NoRow.val), {}))
    BY <1>7
  <2>2. PICK e : e = Change("INSERT", val(D, NoRow.val), {})
    OBVIOUS
  <2>3. /\ e.op = "INSERT" /\ e.ver = latest /\ e.diff = {}
        /\ \A c \in Columns : c \notin Cols[latest] => e.row[c] = Null
    BY <1>1, <2>2, ChangeValues
  <2>4. Follows(e)
    BY <1>3, <1>7, <2>3 DEF Follows
  <2> QED
    BY <2>1, <2>2, <2>4
<1>8. CASE /\ Source.there
           /\ \E D \in SUBSET Cols[latest] \ {{}} :
                log' = Append(log, Change("UPDATE", val(D, Source.val), D))
  <2>1. PICK D \in SUBSET Cols[latest] : log' = Append(log, Change("UPDATE", val(D, Source.val), D))
    BY <1>8
  <2>2. PICK e : e = Change("UPDATE", val(D, Source.val), D)
    OBVIOUS
  <2>3. /\ e.op = "UPDATE" /\ e.ver = latest /\ e.diff = D /\ D \in SUBSET Columns
        /\ \A c \in Columns : e.row[c] = IF c \in Cols[latest] THEN val(D, Source.val)[c] ELSE Null
    BY <1>1, <1>2, <2>2, ChangeValues
  <2>4. \A c \in Cols[latest] \ D : e.row[c] = log[Len(log)].row[c]
    BY <1>2, <1>4, <1>6, <1>8, <2>3
  <2>5. Follows(e)
    BY <1>3, <1>8, <2>3, <2>4 DEF Follows
  <2> QED
    BY <2>1, <2>2, <2>5
<1>9. CASE Source.there /\ log' = Append(log, Change("DELETE", NoRow.val, {}))
  <2>2. PICK e : e = Change("DELETE", NoRow.val, {})
    OBVIOUS
  <2>3. /\ e.op = "DELETE" /\ e.ver = latest /\ e.diff = {}
        /\ \A c \in Columns : c \notin Cols[latest] => e.row[c] = Null
    BY <1>1, <2>2, ChangeValues
  <2>4. Follows(e)
    BY <1>3, <1>9, <2>3 DEF Follows
  <2> QED
    BY <1>9, <2>2, <2>4
<1> QED
  BY <1>5, <1>7, <1>8, <1>9

(* The log after a new event. *)
LEMMA PublishLog ==
  ASSUME MInv, Publish
  PROVE  /\ UNCHANGED <<registryVars, cfg, acked, workerVars, destVars>>
         /\ Len(log') = Len(log) + 1 /\ Len(log) \in Nat /\ DOMAIN log = 1..Len(log)
         /\ DOMAIN log' = 1..(Len(log) + 1)
         /\ \A i \in DOMAIN log : i \in DOMAIN log' /\ log'[i] = log[i]
         /\ Follows(log'[Len(log) + 1])
<1>1. PICK e : log' = Append(log, e) /\ Follows(e)
  BY PublishSource
<1>2. PICK f \in Events : log' = Append(log, f)
  BY PublishFacts
<1>3. /\ Append(log, f) \in Seq(Events) /\ Len(Append(log, f)) = Len(log) + 1
      /\ \A i \in 1..Len(log) : Append(log, f)[i] = log[i]
      /\ Append(log, f)[Len(log) + 1] = f
  BY AppendProperties DEF MInv, DataType
<1>4. /\ log' \in Seq(Events) /\ Len(log') = Len(log) + 1
      /\ \A i \in 1..Len(log) : log'[i] = log[i]
      /\ log'[Len(log) + 1] = f
  BY <1>2, <1>3, Zenon
<1>5. f = e
  <2>1. log \in Seq(Events)
    BY DEF MInv, DataType
  <2>2. log \in Seq(Events \cup {e})
    BY <2>1, SeqDef
  <2>3. Append(log, e)[Len(log) + 1] = e
    BY <2>2, AppendProperties
  <2> QED
    BY <1>1, <1>4, <2>3, Zenon
<1>6. DOMAIN log' = 1..(Len(log) + 1)
  BY <1>4, LenProperties
<1>7. UNCHANGED <<registryVars, cfg, acked, workerVars, destVars>>
  BY DEF Publish
<1> QED
  BY <1>1, <1>4, <1>5, <1>6, <1>7, LogFacts

(* Every other step leaves the log as it is, and the destination. *)
LEMMA CfgSame ==
  ASSUME [Next]_vars
  PROVE  cfg' = cfg /\ (Publish \/ log' = log)
BY EndingFacts, NextCases
   DEF SchemaChange, Publish, Boot, Reconcile, Receive, ExecDdl, FinishDdl, Process, FlushIdle,
       Flush, Ack, CacheExpires, vars

LEMMA SourceStep == UInv /\ [Next]_vars => SourceInv'
<1> SUFFICES ASSUME UInv, [Next]_vars PROVE SourceInv'
  OBVIOUS
<1>0. MInv /\ SourceInv
  BY DEF UInv
<1>1. CASE log' = log
  BY <1>0, <1>1 DEF SourceInv, There
<1>2. CASE Publish
  <2>1. /\ Len(log) \in Nat /\ DOMAIN log = 1..Len(log) /\ DOMAIN log' = 1..(Len(log) + 1)
        /\ \A i \in DOMAIN log : i \in DOMAIN log' /\ log'[i] = log[i]
        /\ Follows(log'[Len(log) + 1])
    BY <1>0, <1>2, PublishLog
  <2>2. \A n \in 0..Len(log) : There(n)' <=> There(n)
    BY <2>1 DEF There
  <2>3. ASSUME NEW n \in DOMAIN log
        PROVE  /\ log'[n].op = "INSERT" <=> ~There(n - 1)'
               /\ log'[n].diff \subseteq Cols[log'[n].ver]
               /\ \A c \in Columns : c \notin Cols[log'[n].ver] => log'[n].row[c] = Null
               /\ log'[n].op = "UPDATE" =>
                    \A c \in Cols[log'[n].ver] \ log'[n].diff : log'[n].row[c] = log'[n - 1].row[c]
    <3>1. log'[n] = log[n] /\ n - 1 \in 0..Len(log)
      BY <2>1
    <3>2. log[n].op = "UPDATE" => log'[n - 1] = log[n - 1]
      BY <1>0, <2>1, EventFacts
    <3>3. /\ log[n].op = "INSERT" <=> ~There(n - 1)
          /\ log[n].diff \subseteq Cols[log[n].ver]
          /\ \A c \in Columns : c \notin Cols[log[n].ver] => log[n].row[c] = Null
          /\ log[n].op = "UPDATE" =>
               \A c \in Cols[log[n].ver] \ log[n].diff : log[n].row[c] = log[n - 1].row[c]
      BY <1>0 DEF SourceInv
    <3> QED
      BY <2>2, <3>1, <3>2, <3>3
  <2>4. ASSUME NEW n, n = Len(log) + 1
        PROVE  /\ log'[n].op = "INSERT" <=> ~There(n - 1)'
               /\ log'[n].diff \subseteq Cols[log'[n].ver]
               /\ \A c \in Columns : c \notin Cols[log'[n].ver] => log'[n].row[c] = Null
               /\ log'[n].op = "UPDATE" =>
                    \A c \in Cols[log'[n].ver] \ log'[n].diff : log'[n].row[c] = log'[n - 1].row[c]
    <3>1. n - 1 = Len(log) /\ Len(log) \in 0..Len(log)
      BY <2>1, <2>4
    <3>2. There(n - 1)' <=> There(Len(log))
      BY <2>2, <3>1
    <3>3. log'[n].op = "UPDATE" => Len(log) \in DOMAIN log
      BY <2>1, <2>4 DEF Follows, There
    <3>4. log'[n].op = "UPDATE" => log'[n - 1] = log[Len(log)]
      BY <2>1, <3>1, <3>3
    <3> QED
      BY <2>1, <2>4, <3>2, <3>4 DEF Follows
  <2>5. \A n \in DOMAIN log' : n \in DOMAIN log \/ n = Len(log) + 1
    BY <2>1
  <2> QED
    BY <2>3, <2>4, <2>5 DEF SourceInv
<1> QED
  BY <1>1, <1>2, CfgSame

(* A new event comes after all the others, which is as well: a row that        *)
(* converges still does.                                                       *)
LEMMA ConvergesPublish ==
  ASSUME MInv, Publish, NEW r, NEW a \in 0..Len(log), Converges(r, a)
  PROVE  Converges(r, a)'
<1>1. /\ Len(log') = Len(log) + 1 /\ Len(log) \in Nat /\ DOMAIN log = 1..Len(log)
      /\ DOMAIN log' = 1..(Len(log) + 1) /\ cfg' = cfg
      /\ \A i \in DOMAIN log : i \in DOMAIN log' /\ log'[i] = log[i]
  BY PublishLog
<1>2. There(a)' <=> There(a)
  BY <1>1 DEF There
<1>3. PICK k \in 1..(Len(log) + 1) : Base(a) = k /\ Base(a)' = k
  BY <1>1, <1>2 DEF Base, There
<1>4. \A j \in Nat : \A i \in (j + 1)..Len(log) :
        /\ i \in (j + 1)..Len(log') /\ log'[i] = log[i]
        /\ Replaces(i)' <=> Replaces(i)
        /\ \A c : Rewrites(i, c)' <=> Rewrites(i, c)
  BY <1>1 DEF Replaces, Rewrites
<1>5. Live' \subseteq Live
  <2> SUFFICES ASSUME NEW c \in Live' PROVE c \in Live
    OBVIOUS
  <2>1. /\ c \in Columns
        /\ \A n \in DOMAIN log' : \E w \in Versions : log'[n].ver <= w /\ c \in Cols[w]
    BY DEF Live
  <2>2. \A n \in DOMAIN log : \E w \in Versions : log[n].ver <= w /\ c \in Cols[w]
    BY <1>1, <2>1
  <2> QED
    BY <2>1, <2>2 DEF Live
<1>6. (r.there <=> There(a)') \/ \E i \in (a + 1)..Len(log') : Replaces(i)'
  <2>1. CASE r.there <=> There(a)
    BY <1>2, <2>1
  <2>2. CASE \E i \in (a + 1)..Len(log) : Replaces(i)
    <3>1. a \in Nat
      BY <1>1
    <3> QED
      BY <1>4, <2>2, <3>1
  <2> QED
    BY <2>1, <2>2 DEF Converges
<1>7. ASSUME r.there, NEW c \in Live' PROVE Right(r, c, k)'
  <2>1. CASE k <= Len(log)
    <3>1. Right(r, c, k)
      BY <1>3, <1>5, <1>7, <2>1 DEF Converges
    <3>2. k \in DOMAIN log /\ k \in Nat
      BY <1>1, <2>1
    <3>3. SameValue(c, r.val[c], log[k].row[c])' <=> SameValue(c, r.val[c], log[k].row[c])
      BY <1>1, <3>2 DEF SameValue
    <3> QED
      BY <1>4, <3>1, <3>2, <3>3 DEF Right
  <2>2. CASE k = Len(log) + 1
    <3>1. a = Len(log) /\ ~There(a)
      BY <1>1, <1>3, <2>2 DEF Base
    <3>2. \A i : i \notin (a + 1)..Len(log)
      BY <1>1, <3>1
    <3>3. r.there <=> There(a)
      BY <3>2 DEF Converges
    <3> QED
      BY <1>7, <3>1, <3>3
  <2> QED
    BY <1>1, <2>1, <2>2
<1> QED
  BY <1>3, <1>6, <1>7 DEF Converges, Right

LEMMA ConvergesSame ==
  ASSUME log' = log, cfg' = cfg, NEW r, NEW a, Converges(r, a)
  PROVE  Converges(r, a)'
BY DEF Converges, Right, Rewrites, Replaces, Base, There, Live, SameValue

-----------------------------------------------------------------------------
(* The statements. *)

LEMMA DiffStep == UInv /\ [Next]_vars => DiffInv'
<1> SUFFICES ASSUME UInv, [Next]_vars, Handling' PROVE log'[cur'].diff \subseteq diff'
  BY DEF DiffInv
<1>0. MInv /\ DiffInv
  BY DEF UInv
<1>1. ASSUME Handling, cur' = cur, diff \subseteq diff',
             \A n \in DOMAIN log : log'[n] = log[n]
      PROVE  log'[cur'].diff \subseteq diff'
  <2>1. cur \in DOMAIN log
    BY <1>0, <1>1 DEF MInv, CurInv
  <2> QED
    BY <1>0, <1>1, <2>1 DEF DiffInv
<1>2. CASE Publish
  <2>1. UNCHANGED <<pc, goal, cur, diff>> /\ \A n \in DOMAIN log : log'[n] = log[n]
    BY <1>0, <1>2, PublishLog DEF workerVars
  <2>2. Handling
    BY <2>1 DEF Handling
  <2> QED
    BY <1>1, <2>1, <2>2
<1>3. CASE Receive
  BY <1>0, <1>3, ReceiveFacts
<1>4. CASE FinishDdl
  <2>1. UNCHANGED <<log, cur, goal>> /\ pc = "ddl" /\ goal # "boot"
    BY <1>0, <1>4, FinishFacts DEF Handling
  <2>2. diff' \in {diff, diff \cup (Cols[log[cur].ver] \ Cols[TableVersion])}
    BY <1>4, <2>1 DEF FinishDdl
  <2> QED
    BY <1>1, <2>1, <2>2 DEF Handling
<1>5. CASE Boot \/ FlushIdle \/ Flush \/ Ack
  BY <1>5 DEF Handling, Boot, FlushIdle, Flush, Ack
<1>6. CASE Reconcile
  BY <1>0, <1>6, ReconcileFacts DEF Handling
<1>7. CASE Process
  BY <1>0, <1>7, ProcessFacts DEF Handling
<1>8. CASE Ending
  BY <1>8, EndingFacts DEF Handling
<1>9. CASE SchemaChange \/ ExecDdl \/ CacheExpires \/ UNCHANGED vars
  <2>1. UNCHANGED <<pc, goal, cur, diff, log>>
    BY <1>9 DEF SchemaChange, ExecDdl, CacheExpires, vars, workerVars
  <2> QED
    BY <1>1, <2>1 DEF Handling
<1> QED
  BY <1>2, <1>3, <1>4, <1>5, <1>6, <1>7, <1>8, <1>9, NextCases

(* The statement of an event whose columns the schema S has, with a diff that  *)
(* may have grown.                                                             *)
LEMMA UpsertFacts ==
  ASSUME cfg \in Configs, ~Appending, NEW e \in Events, NEW n \in Nat, NEW S \in SUBSET Columns,
         NEW D, D \subseteq e.diff, D \subseteq S,
         \A c \in Columns : (c \notin e.shown \/ c \notin S) => e.row[c] = Null,
         NEW s, s = ToSql(cfg.dialect, cfg.mode, e, n, S)
  PROVE  /\ s.op = e.op
         /\ s.op # "DELETE" =>
              \A c \in Columns :
                /\ c \in s.sets => s.upd[c] = e.row[c]
                /\ SameValue(c, IF c \in s.cols THEN s.ins[c] ELSE Null, e.row[c])
         /\ s.op = "UPDATE" => (s.whole \/ s.bad \/ D \subseteq s.sets)
<1>1. (\A c \in Columns : Given(e)[c] = e.row[c]) /\ Given(e) \in Vals
  BY DialectAssumption DEF Given, Events, Vals, Values, Zero, Null, DialectAssumption
<1>2. cfg.mode # "append" /\ cfg.dialect \in {"postgresql", "mysql", "sqlserver"}
  BY ConfigFacts DEF Appending
<1>3. CASE e.op = "DELETE"
  <2>1. s = Stmt(e, n, {}, {}, FALSE, FALSE, Given(e))
    BY <1>2, <1>3 DEF ToSql
  <2>2. s.op = e.op
    BY <2>1 DEF Stmt
  <2> QED
    BY <1>3, <2>2
<1>4. CASE e.op # "DELETE" /\ cfg.dialect = "postgresql"
  <2> DEFINE sets == IF e.op = "UPDATE" THEN e.diff \cap S \cap e.shown ELSE S
             bare == e.op = "UPDATE" /\ \E c \in e.diff \cap S : c \notin e.shown
  <2>1. s = Stmt(e, n, S, sets, FALSE, bare, Given(e))
    BY <1>2, <1>4 DEF ToSql, PostgresStmt
  <2>2. e.op = "UPDATE" => bare \/ D \subseteq sets
    OBVIOUS
  <2>3. sets \in SUBSET Columns /\ bare \in BOOLEAN
    OBVIOUS
  <2> HIDE DEF sets, bare
  <2>4. /\ s.op = e.op /\ s.cols = S /\ s.sets = sets /\ s.bad = bare
        /\ s.ins = Given(e) /\ s.upd = Given(e)
    BY <2>1, <2>3 DEF Stmt
  <2> QED
    BY <1>1, <2>2, <2>4 DEF SameValue
<1>5. CASE e.op # "DELETE" /\ cfg.dialect = "mysql"
  <2>1. s = Stmt(e, n, S, S, TRUE, FALSE, Given(e))
    BY <1>2, <1>5 DEF ToSql, MysqlStmt
  <2>2. /\ s.op = e.op /\ s.cols = S /\ s.whole = TRUE
        /\ s.ins = Given(e) /\ s.upd = Given(e)
    BY <2>1 DEF Stmt
  <2> QED
    BY <1>1, <2>2 DEF SameValue
<1>6. CASE e.op # "DELETE" /\ cfg.dialect = "sqlserver"
  <2> DEFINE sets == IF e.diff # {} THEN e.diff \cap S ELSE S
             ins == [c \in Columns |-> IF c \in IntColumns \cap S /\ Given(e)[c] = Null
                                       THEN Zero ELSE Given(e)[c]]
  <2>1. s = Stmt(e, n, S, sets, FALSE, FALSE, ins)
    BY <1>2, <1>6 DEF ToSql, SqlserverStmt
  <2>2. D \subseteq sets
    OBVIOUS
  <2>3. sets \in SUBSET Columns /\ ins \in Vals
    BY <1>1, DialectAssumption DEF Vals, Values, Zero, Null, DialectAssumption
  <2>4. \A c \in Columns : ins[c] = e.row[c] \/ (c \in IntColumns /\ e.row[c] = Null /\ ins[c] = Zero)
    BY <1>1
  <2> HIDE DEF sets, ins
  <2>5. /\ s.op = e.op /\ s.cols = S /\ s.sets = sets
        /\ s.ins = ins /\ s.upd = Given(e)
    BY <2>1, <2>3 DEF Stmt
  <2> QED
    BY <1>1, <1>6, <2>2, <2>4, <2>5 DEF SameValue
<1> QED
  BY <1>2, <1>3, <1>4, <1>5, <1>6

LEMMA ProcessUpserts ==
  ASSUME UInv, Process, ~Appending
  PROVE  Upserts(buf'[Len(buf) + 1])
<1>0. MInv /\ SourceInv /\ DiffInv
  BY DEF UInv
<1>1. /\ pc = "event" /\ cur \in DOMAIN log /\ trackVer \in Versions
  BY <1>0, ProcessFacts
<1>2. /\ Cols[trackVer] \in SUBSET Columns /\ Cols[log[cur].ver] \subseteq Cols[trackVer]
      /\ log[cur].diff \subseteq diff
  BY <1>0, <1>1, ColsFacts DEF MInv, CurInv, DiffInv, Handling
<1> DEFINE e == [log[cur] EXCEPT !.diff = diff]
           s == ToSql(cfg.dialect, cfg.mode, e, cur, Cols[trackVer])
<1>3. log[cur] \in Events /\ cur \in Nat
  BY <1>0, <1>1, LogFacts
<1>4. /\ e \in Events /\ e.op = log[cur].op /\ e.row = log[cur].row /\ e.shown = log[cur].shown
      /\ e.diff = diff
  BY <1>0, <1>3 DEF Events, MInv, FlagType
<1>5. buf' = Append(buf, s)
  BY <1>0, Recorded DEF Process, MInv
<1> HIDE DEF e
<1>6. \A c \in Columns : (c \notin e.shown \/ c \notin Cols[trackVer]) => e.row[c] = Null
  BY <1>0, <1>1, <1>2, <1>4 DEF MInv, LogInv, SourceInv
<1>7. cfg \in Configs
  BY <1>0 DEF MInv, FlagType
<1>8. log[cur].diff \subseteq e.diff /\ log[cur].diff \subseteq Cols[trackVer]
  BY <1>0, <1>1, <1>2, <1>4 DEF SourceInv
<1>9. /\ s.op = e.op
      /\ s.op # "DELETE" =>
           \A c \in Columns :
             /\ c \in s.sets => s.upd[c] = e.row[c]
             /\ SameValue(c, IF c \in s.cols THEN s.ins[c] ELSE Null, e.row[c])
      /\ s.op = "UPDATE" => (s.whole \/ s.bad \/ log[cur].diff \subseteq s.sets)
  BY <1>2, <1>3, <1>4, <1>6, <1>7, <1>8, UpsertFacts
<1>10. s \in Stmts /\ s.msg = cur
  BY <1>2, <1>3, <1>4, <1>7, StmtFacts
<1> HIDE DEF s
<1>11. Upserts(s)
  BY <1>4, <1>9, <1>10 DEF Upserts
<1>12. buf'[Len(buf) + 1] = s
  <2>1. buf \in Seq(Stmts)
    BY <1>0 DEF MInv, DataType
  <2>2. Append(buf, s)[Len(buf) + 1] = s
    BY <1>10, <2>1, AppendProperties
  <2>3. buf' = Append(buf, s)
    BY <1>5 DEF s
  <2> QED
    BY <2>2, <2>3, Zenon
<1> QED
  BY <1>11, <1>12

LEMMA UpsertStep == UInv /\ [Next]_vars => UpsertInv'
<1>s. SUFFICES ASSUME UInv, [Next]_vars, ~Appending', NEW i \in DOMAIN buf', NEW s, s = buf'[i]
               PROVE  Upserts(s)'
  <2>1. ASSUME UInv, [Next]_vars, ~Appending', NEW i \in DOMAIN buf' PROVE Upserts(buf[i])'
    <3>1. PICK s : s = buf'[i]
      OBVIOUS
    <3>2. Upserts(s)'
      BY <1>s, <2>1, <3>1
    <3> QED
      BY <3>1, <3>2 DEF Upserts
  <2> QED
    BY <2>1 DEF UpsertInv
<1> USE <1>s
<1>0. MInv /\ UpsertInv /\ cfg' = cfg /\ ~Appending
  BY CfgSame DEF UInv, Appending
<1>1. ASSUME s.msg \in DOMAIN log, \A n \in DOMAIN log : log'[n] = log[n], Upserts(s)
      PROVE  Upserts(s)'
  BY <1>0, <1>1 DEF Upserts, SameValue
<1>2. \A n \in DOMAIN log : log'[n] = log[n]
  BY <1>0, CfgSame, PublishLog
<1>3. CASE buf' = buf
  <2>1. Upserts(s) /\ s.msg \in DOMAIN log
    BY <1>0, <1>3, BufFacts DEF UpsertInv
  <2> QED
    BY <1>1, <1>2, <2>1
<1>4. CASE buf' = <<>>
  BY <1>4
<1>5. CASE Process
  <2>1. (i \in DOMAIN buf /\ buf'[i] = buf[i]) \/ i = Len(buf) + 1
    BY <1>0, <1>5, ProcessFacts, BufFacts
  <2>2. CASE i \in DOMAIN buf /\ buf'[i] = buf[i]
    <3>1. Upserts(s) /\ s.msg \in DOMAIN log
      BY <1>0, <2>2, BufFacts DEF UpsertInv
    <3> QED
      BY <1>1, <1>2, <3>1
  <2>3. CASE i = Len(buf) + 1
    <3>1. Upserts(s)
      BY <1>0, <1>5, <2>3, ProcessUpserts
    <3>2. s.msg \in DOMAIN log
      BY <1>0, <1>5, <2>3, ProcessFacts
    <3> QED
      BY <1>1, <1>2, <3>1, <3>2
  <2> QED
    BY <2>1, <2>2, <2>3
<1>6. CASE Ending
  BY <1>4, <1>6, EndingFacts
<1> QED
  BY <1>3, <1>4, <1>5, <1>6, NextCases
     DEF SchemaChange, Publish, Boot, Reconcile, Receive, ExecDdl, FinishDdl, FlushIdle, Flush,
         Ack, CacheExpires, vars, workerVars

-----------------------------------------------------------------------------
(* The row. *)

(* Only a flush writes the row: a migration starts the table anew only where   *)
(* there is none.                                                              *)
LEMMA RowSame ==
  ASSUME UInv, [Next]_vars
  PROVE  row' = row \/ Flush \/ FlushLost
<1>0. MInv /\ RowType
  BY DEF UInv
<1>1. CASE ExecDdl
  <2>1. todo \in Seq(Ddls) /\ todo # <<>> /\ pc = "ddl"
    BY <1>0, <1>1 DEF MInv, DataType, ExecDdl
  <2>2. Head(todo) = todo[1] /\ 1 \in DOMAIN todo
    BY <2>1, LenProperties, EmptySeq
  <2>3. row' = row \/ (row' = NoRow /\ Anew(todo[1]))
    BY <1>1, <2>2 DEF ExecDdl, Anew
  <2>4. Anew(todo[1]) => ~tab.there
    BY <1>0, <2>1, <2>2 DEF MInv, DdlInv
  <2> QED
    BY <1>0, <2>3, <2>4 DEF RowType
<1>2. CASE Ending
  BY <1>2 DEF Ending, ApiFails, FlushRejected, AckFails, Crash, destVars
<1> QED
  BY <1>1, <1>2, NextCases
     DEF SchemaChange, Publish, Boot, Reconcile, Receive, FinishDdl, Process, FlushIdle, Ack,
         CacheExpires, vars, destVars

(* The statements of a batch that are executed, all or the first ones. *)
LEMMA FlushPrefix ==
  ASSUME MInv, Flush \/ FlushLost
  PROVE  \E ss \in Batches : \E q \in Seq(Stmts) :
           /\ Accepted(ss) /\ Execute(q)
           /\ Flush => q = ss
           /\ Len(q) \in 0..Len(ss) /\ \A i \in DOMAIN q : i \in DOMAIN ss /\ q[i] = ss[i]
<1>1. CASE Flush
  <2>1. PICK ss \in Batches : Accepted(ss) /\ Execute(ss)
    BY <1>1 DEF Flush
  <2>2. ss \in Seq(Stmts) /\ Len(ss) \in 0..Len(ss)
    BY BatchFacts, LenProperties
  <2> QED
    BY <2>1, <2>2
<1>2. CASE ~Flush /\ FlushLost
  <2>0. PICK ss \in Batches : Accepted(ss) /\ \E n \in 0..Len(ss) : Execute(SubSeq(ss, 1, n))
    BY <1>2 DEF FlushLost
  <2>1. PICK n \in 0..Len(ss) : Execute(SubSeq(ss, 1, n))
    BY <2>0
  <2>2. /\ ss \in Seq(Stmts) /\ Len(ss) \in Nat /\ DOMAIN ss = 1..Len(ss)
        /\ \A i \in 1..n : i \in DOMAIN ss /\ ss[i] \in Stmts
    BY BatchFacts, ElementOfSeq, LenProperties
  <2> DEFINE q == SubSeq(ss, 1, n)
  <2>3. q \in Seq(Stmts) /\ Len(q) = n /\ \A i \in 1..n : q[i] = ss[i]
    <3>1. 1 \in Int /\ n \in Int /\ (IF 1 <= n THEN n - 1 + 1 ELSE 0) = n
      BY <2>2
    <3>2. /\ q \in Seq(Stmts) /\ Len(q) = IF 1 <= n THEN n - 1 + 1 ELSE 0
          /\ \A i \in 1..(n - 1 + 1) : q[i] = ss[1 + i - 1]
      BY <2>2, <3>1, SubSeqProperties
    <3> HIDE DEF q
    <3>3. \A i \in 1..n : i \in 1..(n - 1 + 1) /\ 1 + i - 1 = i
      BY <2>2
    <3> QED
      BY <3>1, <3>2, <3>3
  <2>4. \A j \in DOMAIN q : j \in DOMAIN ss /\ q[j] = ss[j]
    BY <2>2, <2>3, LenProperties
  <2>5. Execute(q)
    BY <2>1
  <2> HIDE DEF q
  <2> QED
    BY <1>2, <2>0, <2>3, <2>4, <2>5
<1> QED
  BY <1>1, <1>2

LEMMA RowTypeStep == UInv /\ [Next]_vars => RowType'
<1> SUFFICES ASSUME UInv, [Next]_vars PROVE RowType'
  OBVIOUS
<1>0. MInv /\ RowType /\ (tab.there => tab'.there)
  BY TableGrows DEF UInv
<1>1. CASE row' = row
  BY <1>0, <1>1 DEF RowType
<1>2. CASE Flush \/ FlushLost
  <2>1. PICK q \in Seq(Stmts) : Execute(q)
    BY <1>0, <1>2, FlushPrefix
  <2>2. row' \in Rows
    BY <1>0, <2>1, ApplyAllType DEF Execute, RowType
  <2>3. tab.there
    BY <1>0, <1>2 DEF MInv, TableInv, VersionInv, Serving, Flush, FlushLost
  <2> QED
    BY <1>0, <2>2, <2>3 DEF RowType
<1> QED
  BY <1>1, <1>2, RowSame

LEMMA InLineBound ==
  ASSUME MInv, NEW a \in 0..Len(log), InLine(a)
  PROVE  /\ a \in Nat /\ Len(buf) \in Nat /\ DOMAIN buf = 1..Len(buf)
         /\ a + Len(buf) \in 0..Len(log)
         /\ \A i \in DOMAIN buf : buf[i].msg = a + i /\ a + i \in DOMAIN log
         /\ acked \cup Pending = 1..(a + Len(buf))
<1>1. /\ Len(log) \in Nat /\ DOMAIN log = 1..Len(log) /\ a \in Nat
      /\ Len(buf) \in Nat /\ DOMAIN buf = 1..Len(buf)
  BY LogFacts, BufFacts
<1>2. \A i \in DOMAIN buf : buf[i].msg = a + i /\ a + i \in DOMAIN log
  BY BufFacts DEF InLine
<1>3. a + Len(buf) \in 0..Len(log)
  <2>1. CASE Len(buf) = 0
    BY <1>1, <2>1
  <2>2. CASE Len(buf) # 0
    <3>1. Len(buf) \in DOMAIN buf
      BY <1>1, <2>2
    <3>2. a + Len(buf) \in DOMAIN log
      BY <1>2, <3>1
    <3> QED
      BY <1>1, <3>2
  <2> QED
    BY <2>1, <2>2
<1>4. Pending = (a + 1)..(a + Len(buf))
  <2>1. ASSUME NEW m \in (a + 1)..(a + Len(buf)) PROVE m \in Pending
    <3>1. m - a \in DOMAIN buf /\ a + (m - a) = m
      BY <1>1
    <3> QED
      BY <1>2, <3>1 DEF Pending
  <2>2. ASSUME NEW m \in Pending PROVE m \in (a + 1)..(a + Len(buf))
    <3>1. PICK i \in DOMAIN buf : m = buf[i].msg
      BY DEF Pending
    <3>2. m = a + i
      BY <1>2, <3>1
    <3> QED
      BY <1>1, <3>2
  <2> QED
    BY <2>1, <2>2
<1>5. acked = 1..a
  BY DEF InLine
<1>6. 1..a \cup (a + 1)..(a + Len(buf)) = 1..(a + Len(buf))
  BY <1>1
<1> QED
  BY <1>1, <1>2, <1>3, <1>4, <1>5, <1>6

(* What a flush, complete or cut short, makes of the row. *)
LEMMA FlushConverges ==
  ASSUME UInv, NoColumnReturns, ~Appending, NEW a \in 0..Len(log), InLine(a), Converges(row, a),
         NEW r, r = row', Flush \/ FlushLost
  PROVE  Converges(r, a) /\ (Flush => Converges(r, a + Len(buf)))
<1>0. MInv /\ SourceInv /\ UpsertInv /\ row \in Rows
  BY DEF UInv, RowType
<1>1. Batches = {buf}
  BY <1>0, ConfigFacts DEF Batches, MInv, FlagType
<1>2. PICK q \in Seq(Stmts) :
        /\ Accepted(buf) /\ Execute(q)
        /\ Flush => q = buf
        /\ Len(q) \in 0..Len(buf) /\ \A i \in DOMAIN q : i \in DOMAIN buf /\ q[i] = buf[i]
  BY <1>0, <1>1, FlushPrefix
<1>3. \A i \in DOMAIN q : /\ q[i].msg = a + i /\ a + i \in DOMAIN log
                          /\ Upserts(q[i]) /\ ~q[i].bad
  BY <1>0, <1>2, InLineBound DEF UpsertInv, Accepted
<1>4. Converges(ApplyAll(row, q), a + Len(q))
  BY <1>0, <1>3, ConvergesAll
<1>5. r = ApplyAll(row, q)
  BY <1>2 DEF Execute
<1>6. a + Len(q) \in 0..Len(log) /\ a \in 0..(a + Len(q))
  BY <1>0, <1>2, InLineBound, LogFacts
<1>7. Converges(r, a + Len(q))
  BY <1>4, <1>5
<1>8. Converges(r, a)
  BY <1>0, <1>6, <1>7, ConvergesEarlier
<1> QED
  BY <1>2, <1>7, <1>8

LEMMA RowStep == UInv /\ [Next]_vars => RowInv'
<1> SUFFICES ASSUME UInv, [Next]_vars, NoColumnReturns, ~Appending', cfg'.ordered
             PROVE  \E b \in 0..Len(log') :
                      /\ InLine(b)' /\ Converges(row, b)'
                      /\ pc' = "ack" => Converges(row, b + Len(buf))'
  BY DEF RowInv
<1>0. /\ MInv /\ SourceInv /\ RowInv /\ cfg' = cfg /\ (Publish \/ log' = log)
      /\ ~Appending /\ cfg.ordered
  BY CfgSame DEF UInv, Appending
<1>1. PICK a \in 0..Len(log) : /\ InLine(a) /\ Converges(row, a)
                               /\ pc = "ack" => Converges(row, a + Len(buf))
  BY <1>0 DEF RowInv
<1>2. /\ a \in Nat /\ Len(buf) \in Nat /\ DOMAIN buf = 1..Len(buf)
      /\ a + Len(buf) \in 0..Len(log)
      /\ \A i \in DOMAIN buf : buf[i].msg = a + i /\ a + i \in DOMAIN log
      /\ acked \cup Pending = 1..(a + Len(buf))
  BY <1>0, <1>1, InLineBound
<1>3. Len(log) \in Nat /\ DOMAIN log = 1..Len(log)
  BY <1>0, LogFacts
<1>4. PICK r : r = row'
  OBVIOUS
<1>5. ASSUME NEW b \in 0..Len(log'), InLine(b)', Converges(r, b)',
             NEW k, k = b + Len(buf'), pc' = "ack" => Converges(r, k)'
      PROVE  \E x \in 0..Len(log') :
               /\ InLine(x)' /\ Converges(row, x)'
               /\ pc' = "ack" => Converges(row, x + Len(buf))'
  <2>1. Converges(row, b)'
    BY <1>4, <1>5 DEF Converges, Right
  <2>2. pc' = "ack" => Converges(row, b + Len(buf))'
    BY <1>4, <1>5 DEF Converges, Right, Base, There
  <2> QED
    BY <1>5, <2>1, <2>2
<1>6. ASSUME NEW x, NEW y \in 0..Len(log), Converges(x, y) PROVE Converges(x, y)'
  BY <1>0, <1>6, ConvergesPublish, ConvergesSame
<1>7. Len(log) <= Len(log') /\ Len(log') \in Nat
  BY <1>0, <1>3, PublishLog
<1>8. CASE /\ UNCHANGED <<acked, buf>> /\ row' = row
           /\ Handling' => Handling /\ cur' = cur
           /\ pc' = "ack" => pc = "ack"
  <2>1. InLine(a)'
    BY <1>1, <1>8 DEF InLine
  <2>2. Converges(r, a)'
    BY <1>1, <1>4, <1>6, <1>8
  <2>3. PICK k : k = a + Len(buf') /\ k = a + Len(buf)
    BY <1>8
  <2>4. pc' = "ack" => Converges(r, k)'
    BY <1>1, <1>2, <1>4, <1>6, <1>8, <2>3
  <2>5. a \in 0..Len(log')
    BY <1>2, <1>3, <1>7
  <2> QED
    BY <1>5, <2>1, <2>2, <2>3, <2>4, <2>5
<1>9. CASE SchemaChange \/ Publish \/ CacheExpires \/ UNCHANGED vars
  BY <1>8, <1>9
     DEF Handling, SchemaChange, Publish, CacheExpires, vars, workerVars, destVars
<1>10. CASE Boot \/ FlushIdle
  BY <1>8, <1>10 DEF Handling, Boot, FlushIdle, destVars
<1>11. CASE Reconcile
  <2>1. pc' \in {"ready", "ddl"} /\ goal' = "boot"
    BY <1>0, <1>11, ReconcileFacts
  <2> QED
    BY <1>8, <1>11, <2>1 DEF Handling, Reconcile, destVars
<1>12. CASE ExecDdl
  <2>1. UNCHANGED <<acked, buf, pc, goal, cur>> /\ pc = "ddl"
    BY <1>12 DEF ExecDdl
  <2>2. row' = row
    BY <2>1, RowSame DEF Flush, FlushLost
  <2> QED
    BY <1>8, <2>1, <2>2 DEF Handling
<1>13. CASE FinishDdl
  <2>1. UNCHANGED <<acked, buf, cur, goal>> /\ pc = "ddl" /\ row' = row
    BY <1>13 DEF FinishDdl, destVars
  <2>2. (goal = "boot" => pc' = "ready") /\ pc' \in {"ready", "event"}
    BY <1>0, <1>13, FinishFacts
  <2> QED
    BY <1>8, <2>1, <2>2 DEF Handling
<1>14. CASE Receive
  <2>1. PICK n \in DOMAIN log :
          /\ n \notin acked \cup Pending /\ cur' = n /\ ReceivePlan(n)
          /\ cfg.ordered => \A m \in 1..(n - 1) : m \in acked \cup Pending
    BY <1>0, <1>14, ReceiveFacts
  <2>2. UNCHANGED <<acked, buf, log>> /\ row' = row /\ pc' \in {"event", "ddl"}
    BY <1>14, <2>1 DEF Receive, destVars, ReceivePlan
  <2>3. n = a + Len(buf) + 1
    <3>1. n \in Nat /\ n >= 1 /\ n \notin 1..(a + Len(buf))
      BY <1>2, <1>3, <2>1
    <3>2. n > a + Len(buf)
      BY <1>2, <3>1
    <3>3. CASE n > a + Len(buf) + 1
      <4>1. a + Len(buf) + 1 \in 1..(n - 1)
        BY <1>2, <3>1, <3>3
      <4>2. a + Len(buf) + 1 \in 1..(a + Len(buf))
        BY <1>0, <1>2, <2>1, <4>1
      <4> QED
        BY <1>2, <4>2
    <3> QED
      BY <1>2, <3>1, <3>2, <3>3
  <2>4. InLine(a)'
    BY <1>1, <2>1, <2>2, <2>3 DEF InLine
  <2>5. Converges(r, a)' /\ a \in 0..Len(log')
    BY <1>1, <1>4, <1>6, <2>2
  <2>6. PICK k : k = a + Len(buf')
    OBVIOUS
  <2> QED
    BY <1>5, <2>2, <2>4, <2>5, <2>6
<1>15. CASE Process
  <2>1. /\ acked' = acked /\ log' = log /\ row' = row /\ ~Handling' /\ Handling
        /\ pc' \in {"flush", "ready"}
    BY <1>0, <1>15, ProcessFacts DEF Handling, Process, destVars
  <2>2. /\ DOMAIN buf' = 1..(Len(buf) + 1)
        /\ \A i \in DOMAIN buf : buf'[i] = buf[i]
        /\ buf'[Len(buf) + 1].msg = cur
    BY <1>0, <1>15, ProcessFacts
  <2>3. cur = a + Len(buf) + 1
    BY <1>1, <2>1 DEF InLine
  <2>4. ASSUME NEW i \in DOMAIN buf' PROVE buf'[i].msg = a + i
    <3>1. CASE i \in DOMAIN buf
      BY <1>2, <2>2, <3>1
    <3>2. CASE i = Len(buf) + 1
      BY <1>2, <2>2, <2>3, <3>2
    <3> QED
      BY <1>2, <2>2, <3>1, <3>2
  <2>5. InLine(a)'
    BY <1>1, <2>1, <2>4 DEF InLine
  <2>6. Converges(r, a)' /\ a \in 0..Len(log')
    BY <1>1, <1>4, <1>6, <2>1
  <2>7. PICK k : k = a + Len(buf')
    OBVIOUS
  <2> QED
    BY <1>5, <2>1, <2>5, <2>6, <2>7
<1>16. CASE Flush
  <2>1. UNCHANGED <<acked, buf, log>> /\ ~Handling'
    BY <1>16 DEF Flush, Handling
  <2>2. Converges(r, a) /\ Converges(r, a + Len(buf))
    BY <1>0, <1>1, <1>4, <1>16, FlushConverges
  <2>3. InLine(a)' /\ a \in 0..Len(log')
    BY <1>1, <2>1 DEF InLine
  <2>4. PICK k : k = a + Len(buf) /\ k = a + Len(buf')
    BY <2>1
  <2>5. Converges(r, a)' /\ Converges(r, k)'
    BY <1>2, <1>6, <2>2, <2>4
  <2> QED
    BY <1>5, <2>3, <2>4, <2>5
<1>17. CASE Ack
  <2>1. /\ acked' = acked \cup Pending /\ buf' = <<>> /\ pc = "ack" /\ pc' = "ready"
        /\ log' = log /\ row' = row /\ ~Handling'
    BY <1>17 DEF Ack, destVars, Handling
  <2>2. PICK b \in 0..Len(log) : b = a + Len(buf)
    BY <1>2
  <2>3. InLine(b)'
    <3>1. acked' = 1..b /\ DOMAIN buf' = {}
      BY <1>2, <2>1, <2>2
    <3> QED
      BY <2>1, <3>1 DEF InLine
  <2>4. Converges(r, b)'
    BY <1>1, <1>4, <1>6, <2>1, <2>2
  <2>5. PICK k : k = b + Len(buf')
    OBVIOUS
  <2> QED
    BY <1>5, <2>1, <2>2, <2>3, <2>4, <2>5
<1>18. CASE Ending
  <2>1. /\ buf' = <<>> /\ pc' = "down" /\ log' = log /\ ~Handling'
    BY <1>18, EndingFacts DEF Handling
  <2>2. ASSUME NEW b \in 0..Len(log), acked' = 1..b, Converges(r, b)
        PROVE  \E x \in 0..Len(log') :
                 /\ InLine(x)' /\ Converges(row, x)'
                 /\ pc' = "ack" => Converges(row, x + Len(buf))'
    <3>1. DOMAIN buf' = {}
      BY <2>1
    <3>2. InLine(b)'
      BY <2>1, <2>2, <3>1 DEF InLine
    <3>3. Converges(r, b)' /\ b \in 0..Len(log')
      BY <1>6, <2>1, <2>2
    <3>4. PICK k : k = b + Len(buf')
      OBVIOUS
    <3> QED
      BY <1>5, <2>1, <3>2, <3>3, <3>4
  <2>3. acked = 1..a
    BY <1>1 DEF InLine
  <2>4. CASE FlushLost
    <3>1. Converges(r, a)
      BY <1>0, <1>1, <1>4, <2>4, FlushConverges
    <3>2. acked' = acked
      BY <2>4 DEF FlushLost
    <3> QED
      BY <2>2, <2>3, <3>1, <3>2
  <2>5. CASE AckFails
    <3>1. PICK n \in 0..(Len(buf) - 1) : acked' = acked \cup {buf[i].msg : i \in 1..n}
      BY <2>5 DEF AckFails
    <3>2. pc = "ack" /\ row' = row
      BY <2>5 DEF AckFails, destVars
    <3>3. a + n \in 0..Len(log) /\ a + n \in 0..(a + Len(buf)) /\ n \in Nat
      BY <1>2, <1>3
    <3>4. {buf[i].msg : i \in 1..n} = (a + 1)..(a + n)
      <4>1. \A i \in 1..n : buf[i].msg = a + i
        BY <1>2
      <4>2. ASSUME NEW m \in (a + 1)..(a + n) PROVE m \in {buf[i].msg : i \in 1..n}
        <5>1. m - a \in 1..n /\ a + (m - a) = m
          BY <1>2, <3>3
        <5>2. buf[m - a].msg = m
          BY <4>1, <5>1
        <5> QED
          BY <5>1, <5>2
      <4>3. ASSUME NEW i \in 1..n PROVE buf[i].msg \in (a + 1)..(a + n)
        <5>1. buf[i].msg = a + i
          BY <4>1
        <5> QED
          BY <1>2, <3>3, <5>1
      <4> QED
        BY <4>2, <4>3
    <3>5. 1..a \cup (a + 1)..(a + n) = 1..(a + n)
      BY <1>2, <3>3
    <3>6. acked' = 1..(a + n)
      BY <2>3, <3>1, <3>4, <3>5
    <3>7. Converges(r, a + Len(buf))
      BY <1>1, <1>4, <3>2
    <3>8. Converges(r, a + n)
      BY <1>0, <1>2, <3>3, <3>7, ConvergesEarlier
    <3> QED
      BY <2>2, <3>3, <3>6, <3>8
  <2>6. CASE ~FlushLost /\ ~AckFails
    <3>1. acked' = acked
      BY <1>18, <2>6, EndingFacts
    <3>2. row' = row
      BY <1>18, <2>6 DEF Ending, ApiFails, FlushRejected, Crash, destVars
    <3> QED
      BY <1>1, <1>4, <2>2, <2>3, <3>1, <3>2
  <2> QED
    BY <2>4, <2>5, <2>6
<1> QED
  BY <1>9, <1>10, <1>11, <1>12, <1>13, <1>14, <1>15, <1>16, <1>17, <1>18, NextCases

LEMMA InitUInv == Init => UInv
<1> SUFFICES ASSUME Init PROVE UInv
  OBVIOUS
<1>1. MInv
  BY InitMInv
<1>2. DOMAIN log = {} /\ DOMAIN buf = {} /\ Len(log) = 0 /\ Len(buf) = 0 /\ ~Handling
  BY DEF Init, Handling
<1>3. SourceInv /\ UpsertInv /\ DiffInv
  BY <1>2 DEF SourceInv, UpsertInv, DiffInv
<1>4. RowType
  <2>1. [c \in Columns |-> Null] \in Vals
    BY DialectAssumption DEF Vals, Values, Null, Zero, DialectAssumption
  <2> QED
    BY <2>1 DEF Init, RowType, Rows, NoRow
<1>5. InLine(0) /\ 0 \in 0..Len(log)
  BY <1>2 DEF Init, InLine
<1>6. Converges(row, 0)
  BY DEF Init, Converges, There, NoRow
<1>7. RowInv
  BY <1>5, <1>6 DEF Init, RowInv
<1> QED
  BY <1>1, <1>3, <1>4, <1>7 DEF UInv

LEMMA NextUInv == UInv /\ [Next]_vars => UInv'
BY NextMInv, SourceStep, DiffStep, UpsertStep, RowTypeStep, RowStep DEF UInv

LEMMA UpsertInvariant == Spec => []UInv
BY InitUInv, NextUInv, PTL DEF Spec

(* Every event is settled: no event is left that could put the row right. *)
LEMMA RowIsCurrent ==
  ASSUME NoColumnReturns, UpsertsInOrder, UInv
  PROVE  RowCurrent
<1>1. SUFFICES ASSUME ~Appending, acked = 1..Len(log), log # <<>>
               PROVE  /\ row.there = Source.there
                      /\ Source.there => \A c \in Cols[log[Len(log)].ver] :
                                           SameValue(c, row.val[c], Source.val[c])
  BY DEF RowCurrent
<1>0. MInv /\ SourceInv /\ RowInv /\ row \in Rows
  BY DEF UInv, RowType
<1>2. cfg.ordered
  BY <1>0, <1>1, ConfigFacts DEF MInv, FlagType, UpsertsInOrder, Appending
<1> DEFINE N == Len(log)
<1>3. N \in Nat /\ DOMAIN log = 1..N /\ N \in DOMAIN log
  BY <1>0, <1>1, LogFacts, EmptySeq DEF MInv, DataType
<1> HIDE DEF N
<1>4. Converges(row, N)
  <2>1. PICK a \in 0..N : InLine(a) /\ Converges(row, a)
    BY <1>0, <1>1, <1>2 DEF RowInv, N
  <2>2. 1..a = 1..N
    BY <1>1, <2>1 DEF InLine, N
  <2>3. N \in 1..a
    BY <1>3, <2>2
  <2>4. a = N
    <3>1. a \in Nat /\ a <= N /\ N <= a
      BY <1>3, <2>1, <2>3
    <3> QED
      BY <1>3, <3>1
  <2> QED
    BY <2>1, <2>4
<1>5. \A k \in Nat : k >= N => (k + 1)..N = {}
  BY <1>3
<1>6. Source.there <=> There(N)
  <2>1. N # 0
    BY <1>3
  <2>2. Source = [there |-> log[N].op # "DELETE", val |-> log[N].row]
    BY <1>1 DEF Source, N
  <2> QED
    BY <2>1, <2>2 DEF There
<1>7. row.there <=> There(N)
  BY <1>3, <1>4, <1>5 DEF Converges, N
<1>8. row.there = Source.there
  <2>1. row.there \in BOOLEAN /\ Source.there \in BOOLEAN
    BY <1>0, <1>1 DEF Rows, Source
  <2> QED
    BY <1>6, <1>7, <2>1
<1>9. ASSUME Source.there, NEW c \in Cols[log[N].ver] PROVE SameValue(c, row.val[c], Source.val[c])
  <2>1. log[N].ver \in Versions
    BY <1>0, <1>3, LogFacts
  <2>2. c \in Columns
    BY <2>1, ColsFacts
  <2>3. \A n \in DOMAIN log : log[n].ver <= log[N].ver
    <3> SUFFICES ASSUME NEW n \in DOMAIN log PROVE log[n].ver <= log[N].ver
      OBVIOUS
    <3>1. log[n].ver \in Nat /\ log[N].ver \in Nat
      BY <1>0, <1>3, LogFacts, VersionFacts
    <3>2. n = N \/ n < N
      BY <1>3
    <3> QED
      BY <1>0, <1>3, <3>1, <3>2 DEF MInv, LogInv
  <2>4. c \in Live
    BY <2>1, <2>2, <2>3 DEF Live
  <2>5. Base(N) = N /\ N <= Len(log)
    BY <1>3, <1>6, <1>9 DEF Base, N
  <2>6. Right(row, c, N)
    BY <1>4, <1>6, <1>7, <1>9, <2>4, <2>5 DEF Converges
  <2>7. SameValue(c, row.val[c], log[N].row[c])
    BY <1>3, <1>5, <2>6 DEF Right, N
  <2>8. Source.val = log[N].row
    BY <1>1 DEF Source, N
  <2> QED
    BY <2>7, <2>8
<1> QED
  BY <1>8, <1>9 DEF N

(***************************************************************************)
(* Types: the registry never records a version the API does not list, and  *)
(* the driver's plans, statements and history lines, and the row that its  *)
(* batches write, are well formed in every dialect and mode.               *)
(***************************************************************************)
THEOREM MigrationTypeCorrect == Spec => []TypeOK
<1>1. UInv => TypeOK
  <2> SUFFICES ASSUME UInv PROVE TypeOK
    OBVIOUS
  <2>1. MInv /\ row \in Rows
    BY DEF UInv, RowType
  <2>2. Len(log) <= MaxEvents /\ acked \subseteq 1..MaxEvents
    BY <2>1, LogFacts DEF MInv, DataType
  <2>3. FlagType /\ DataType /\ TableType
    BY <2>1 DEF MInv
  <2> QED
    BY <2>1, <2>2, <2>3 DEF TypeOK, FlagType, DataType, TableType
<1> QED
  BY <1>1, UpsertInvariant, PTL

(***************************************************************************)
(* No step takes a column, the table or a line of the history away, and    *)
(* only a flush writes the row: migrate_new_table, whose statements drop   *)
(* an existing table, is only ever planned and executed where there is     *)
(* none.                                                                   *)
(***************************************************************************)
THEOREM MigrationNothingDropped == Spec => NothingDropped
<1>1. UInv /\ [Next]_vars => [/\ tab.there => tab'.there /\ tab.cols \subseteq tab'.cols
                              /\ Len(hist) <= Len(hist')
                              /\ pc # "flush" => row' = row]_vars
  <2> SUFFICES ASSUME UInv, [Next]_vars
               PROVE  /\ tab.there => tab'.there /\ tab.cols \subseteq tab'.cols
                      /\ Len(hist) <= Len(hist')
                      /\ pc # "flush" => row' = row
    OBVIOUS
  <2>1. MInv
    BY DEF UInv
  <2>2. pc # "flush" => row' = row
    BY RowSame DEF Flush, FlushLost
  <2> QED
    BY <2>1, <2>2, TableGrows
<1> QED
  BY <1>1, UpsertInvariant, PTL DEF Spec, NothingDropped

(***************************************************************************)
(* upsert mode: once every event is settled the row is the object, in      *)
(* PostgreSQL, MySQL and SQL Server, for every history of schema changes   *)
(* in which no removed column comes back, every stream of events that      *)
(* arrive in order, and whatever was written twice, rejected or cut short  *)
(* on the way.                                                             *)
(***************************************************************************)
THEOREM MigrationRowCurrent ==
  ASSUME NoColumnReturns, UpsertsInOrder
  PROVE  Spec => []RowCurrent
BY RowIsCurrent, UpsertInvariant, PTL
=============================================================================
