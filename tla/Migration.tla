----------------------------- MODULE Migration -----------------------------
(***************************************************************************)
(* How a worker keeps one destination table in step with a schema that     *)
(* changes while the change events arrive: the registry is seeded at every *)
(* start (cmd/fork.py), the destination is reconciled before the stream is *)
(* read (update_destination_schema), and an event of another model version *)
(* migrates the table on the way (handle_possible_migration).  DDL runs    *)
(* one statement at a time and is not undone, so the process can die       *)
(* between any two of them.                                                *)
(*                                                                         *)
(* Events come in the order of the stream, and after a failure again from  *)
(* the first one that is not acked; with cfg.ordered FALSE they come in    *)
(* any order, which is what JetStream and Consumer make of a crash.        *)
(***************************************************************************)
EXTENDS Registry, SqlDialect

CONSTANTS
  Cols,       \* the columns of each model version
  Configs,    \* the destinations to consider, see ConfigType
  MaxBatch,   \* the driver's max_batch_size
  MaxFaults   \* bound: crashes, failed calls and lost answers

(* The driver, --mode, whether events leave nulls out of their JSON, whether *)
(* they arrive in order, how many of them there are (a bound), and the       *)
(* columns each version requires and does not let be null (scalars: an array *)
(* or an object that is missing is written as an empty one).                 *)
ConfigType == [dialect : {"postgresql", "mysql", "sqlserver", "snowflake"},
               mode : {"upsert", "append"}, omit : BOOLEAN, ordered : BOOLEAN,
               events : 0..MaxEvents, required : [Versions -> SUBSET Columns]]

ASSUME MigrationAssumption ==
  /\ Cols \in [Versions -> SUBSET Columns]
  /\ Configs \subseteq ConfigType
  /\ \A c \in Configs : c.dialect = "snowflake" => c.mode = "append"   \* see Snowflake
  /\ \A c \in Configs : \A v \in Versions : c.required[v] \subseteq Cols[v]
  /\ MaxBatch \in Nat \ {0}
  /\ MaxFaults \in Nat

VARIABLES
  cfg,     \* the destination and its stream, from Configs
  log,     \* the changes of the object, as events
  acked,   \* the events settled with the server
  pc,      \* where the worker is
  mine,    \* the version the registry of this process was constructed with
  known,   \* the driver's _dbschema: what it believes the table looks like
  todo,    \* DDL statements still to be executed
  goal,    \* what the DDL is for: "boot", "table" or "columns"
  cur,     \* the event being processed, and its diff
  diff,
  force,   \* a migration ran: flush after this event
  buf,     \* the batch: statements built, one per pending event
  tab,     \* destination: the table
  need,    \* destination: its columns that are NOT NULL
  row,     \* destination: the object's row (upsert)
  hist,    \* destination: the object's history (append)
  views,   \* destination: the two views (append)
  faults

workerVars == <<pc, mine, known, todo, goal, cur, diff, force, buf>>
destVars == <<tab, need, row, hist, views>>
vars == <<registryVars, cfg, log, acked, workerVars, destVars, faults>>

Tables == [there : BOOLEAN, cols : SUBSET Columns]
None == [there |-> FALSE, cols |-> {}]
Table(S) == [there |-> TRUE, cols |-> S]
ViewNames == {"current", "timeline"}
DdlKinds == {"drop", "create", "history", "alter", "drop_view", "view"}
Ddl(k, v, S) == [k |-> k, view |-> v, cols |-> S, need |-> {}]
Ddls == [k : DdlKinds, view : ViewNames, cols : SUBSET Columns, need : SUBSET Columns]

Pending == {buf[i].msg : i \in DOMAIN buf}
Appending == cfg.mode = "append"

Init ==
  /\ RegistryInit
  /\ cfg \in Configs
  /\ log = <<>>
  /\ acked = {}
  /\ pc = "down"
  /\ mine = NoVersion
  /\ known = None
  /\ todo = <<>>
  /\ goal = "boot"
  /\ cur = 0
  /\ diff = {}
  /\ force = FALSE
  /\ buf = <<>>
  /\ tab = None
  /\ need = {}
  /\ row = NoRow
  /\ hist = <<>>
  /\ views = [v \in ViewNames |-> None]
  /\ faults = 0

-----------------------------------------------------------------------------
(* The source: the schema moves on, and the object changes. *)

SchemaChange ==
  /\ latest < MaxVersion
  /\ latest' = latest + 1
  /\ UNCHANGED <<trackerVars, cacheVer, cfg, log, acked, workerVars, destVars, faults>>

Source == IF log = <<>> THEN NoRow
          ELSE [there |-> log[Len(log)].op # "DELETE", val |-> log[Len(log)].row]

(* The event of a change to val; nulls are left out of its JSON or not. *)
Change(op, val, D) ==
  LET after == [c \in Columns |-> IF c \in Cols[latest] THEN val[c] ELSE Null]
  IN  [op |-> op, ver |-> latest, row |-> after, diff |-> D,
       shown |-> IF cfg.omit THEN {c \in Columns : after[c] # Null} ELSE Cols[latest]]

(* The object is inserted, changed or deleted; it always has the columns that *)
(* the version of the day requires.                                           *)
Publish ==
  /\ latest # NoVersion
  /\ Len(log) < cfg.events
  /\ LET n == Len(log) + 1
         val(D, old) == [c \in Columns |-> IF c \in D THEN n ELSE old[c]]
     IN  \/ /\ ~Source.there
            /\ \E D \in {cfg.required[latest], Cols[latest]} :
                 log' = Append(log, Change("INSERT", val(D, NoRow.val), {}))
         \/ /\ Source.there
            /\ \E D \in SUBSET Cols[latest] \ {{}} :
                 /\ \A c \in cfg.required[latest] \ D : Source.val[c] # Null
                 /\ log' = Append(log, Change("UPDATE", val(D, Source.val), D))
         \/ /\ Source.there
            /\ log' = Append(log, Change("DELETE", NoRow.val, {}))
  /\ UNCHANGED <<registryVars, cfg, acked, workerVars, destVars, faults>>

-----------------------------------------------------------------------------
(* DDL: what the driver's migrate_new_table and migrate_new_columns execute. *)

CreateViews(S) == <<Ddl("view", "current", S), Ddl("view", "timeline", S)>>
DropViews == <<Ddl("drop_view", "timeline", {}), Ddl("drop_view", "current", {})>>

(* The history table and its views, per dialect.  PostgreSQL drops the table  *)
(* and, by CASCADE, its views in the transaction that creates it; MySQL and   *)
(* SQL Server take a statement for each; Snowflake replaces the table and     *)
(* leaves the views to be replaced in turn.                                   *)
PostgresHistory(S) == <<Ddl("history", "current", S)>> \o CreateViews(S)
MysqlHistory(S) == DropViews \o <<Ddl("drop", "current", {}), Ddl("create", "current", S)>>
                     \o CreateViews(S)
SqlserverHistory(S) == DropViews \o <<Ddl("drop", "current", {}), Ddl("create", "current", S)>>
                         \o CreateViews(S)
SnowflakeHistory(S) == <<Ddl("create", "current", S)>> \o CreateViews(S)

HistoryDdl(S) ==
  CASE cfg.dialect = "postgresql" -> PostgresHistory(S)
    [] cfg.dialect = "mysql"      -> MysqlHistory(S)
    [] cfg.dialect = "sqlserver"  -> SqlserverHistory(S)
    [] cfg.dialect = "snowflake"  -> SnowflakeHistory(S)

(* create_sql: the required columns are NOT NULL.  Those of a history table    *)
(* are not, and neither is a column that is added later.                      *)
CreateTable(v) ==
  <<[k |-> "create", view |-> "current", cols |-> Cols[v], need |-> cfg.required[v]]>>

(* One ALTER per column that the driver does not know. *)
AddNewColumns(S, k) ==
  IF S \subseteq k.cols THEN <<>> ELSE <<Ddl("alter", "current", S \ k.cols)>>

(* A table the driver knows is dropped first. *)
MigrateNewTable(v, k) ==
  IF Appending THEN HistoryDdl(Cols[v])
  ELSE (IF k.there THEN <<Ddl("drop", "current", {})>> ELSE <<>>) \o CreateTable(v)

(* Mutant: the views are dropped and not created again. *)
MutantColumnsWithoutViews(v, new, k) ==
  (IF Appending THEN DropViews ELSE <<>>) \o AddNewColumns(new, k)

(* Snowflake replaces the views. *)
SnowflakeNewColumns(v, new, k) ==
  AddNewColumns(new, k) \o (IF Appending THEN CreateViews(Cols[v]) ELSE <<>>)

(* The others drop the views of append mode before and create them again.     *)
MigrateNewColumns(v, new, k) ==
  IF cfg.dialect = "snowflake" THEN SnowflakeNewColumns(v, new, k)
  ELSE (IF Appending THEN DropViews ELSE <<>>) \o AddNewColumns(new, k)
         \o (IF Appending THEN CreateViews(Cols[v]) ELSE <<>>)

(* The driver reads the destination's columns. *)
RefreshSchema == known' = tab

(* The first statement of todo is executed; an "alter" stands for one ALTER  *)
(* per column.                                                               *)
ExecDdl ==
  /\ pc = "ddl"
  /\ todo # <<>>
  /\ LET d == Head(todo)
     IN  \/ /\ d.k \in {"drop", "create", "history"}
            /\ tab' = IF d.k = "drop" THEN None ELSE Table(d.cols)
            /\ need' = d.need
            /\ row' = NoRow
            /\ hist' = <<>>
            /\ views' = IF d.k = "history" THEN [v \in ViewNames |-> None] ELSE views
            /\ todo' = Tail(todo)
         \/ /\ d.k = "alter"
            /\ \E c \in d.cols \ tab.cols :
                 /\ tab' = Table(tab.cols \cup {c})
                 /\ todo' = IF d.cols = {c} THEN Tail(todo)
                            ELSE <<[d EXCEPT !.cols = @ \ {c}]>> \o Tail(todo)
            /\ UNCHANGED <<need, row, hist, views>>
         \/ /\ d.k \in {"view", "drop_view"}
            /\ views' = [views EXCEPT ![d.view] = IF d.k = "view" THEN Table(d.cols) ELSE None]
            /\ todo' = Tail(todo)
            /\ UNCHANGED <<tab, need, row, hist>>
  /\ UNCHANGED <<registryVars, cfg, log, acked, pc, mine, known, goal, cur, diff, force, buf, faults>>

-----------------------------------------------------------------------------
(* The worker process. *)

(* The process ends, or the processor raises: the batch is nak'd or left to  *)
(* be redelivered, and everything in memory is gone.                         *)
Stop ==
  /\ pc' = "down"
  /\ todo' = <<>> /\ buf' = <<>> /\ cur' = 0 /\ diff' = {} /\ force' = FALSE
  /\ goal' = "boot" /\ mine' = NoVersion /\ known' = None
  /\ DropCache

(* fork: the tracker is opened and the registry constructed. *)
Boot ==
  /\ pc = "down"
  /\ pc' = "boot"
  /\ mine' = latest
  /\ SeedRegistry
  /\ UNCHANGED <<latest, cfg, log, acked, known, todo, goal, cur, diff, force, buf, destVars, faults>>

(* Mutant: only a missing table is reconciled. *)
MutantReconcileTablesOnly ==
  /\ pc = "boot"
  /\ RefreshSchema
  /\ goal' = "boot"
  /\ todo' = IF mine = NoVersion \/ tab.there THEN <<>> ELSE MigrateNewTable(mine, tab)
  /\ pc' = IF todo' = <<>> THEN "ready" ELSE "ddl"
  /\ CacheTableVersion
  /\ UNCHANGED <<latest, trackerVars, cfg, log, acked, mine, cur, diff, force, buf, destVars, faults>>

(* The driver connects and reads the destination's columns, and               *)
(* update_destination_schema compares them with the registry's schema.        *)
Reconcile ==
  /\ pc = "boot"
  /\ RefreshSchema
  /\ goal' = "boot"
  /\ todo' = IF mine = NoVersion THEN <<>>
             ELSE IF ~tab.there THEN MigrateNewTable(mine, tab)
             ELSE IF Cols[mine] \subseteq tab.cols THEN <<>>
             ELSE MigrateNewColumns(mine, Cols[mine] \ tab.cols, tab)
  /\ pc' = IF todo' = <<>> THEN "ready" ELSE "ddl"
  /\ IF mine = NoVersion THEN UNCHANGED cacheVer ELSE CacheTableVersion
  /\ UNCHANGED <<latest, trackerVars, cfg, log, acked, mine, cur, diff, force, buf, destVars, faults>>

(* The next event: the first one that is neither acked nor pending. *)
Deliverable(n) ==
  /\ n \in 1..Len(log)
  /\ n \notin acked \cup Pending
  /\ cfg.ordered => \A m \in 1..(n - 1) : m \in acked \cup Pending

(* handle_possible_migration, up to the DDL. *)
Receive ==
  /\ pc = "ready"
  /\ Len(buf) < MaxBatch
  /\ \E n \in 1..MaxEvents :
       /\ Deliverable(n)
       /\ cur' = n
       /\ diff' = log[n].diff
       /\ LET v == TableVersion
              new == IF v = NoVersion THEN {} ELSE Cols[log[n].ver] \ Cols[v]
          IN  \/ /\ v = log[n].ver \/ (v # NoVersion /\ new = {})
                 /\ pc' = "event"
                 /\ UNCHANGED <<todo, goal>>
              \/ /\ v = NoVersion
                 /\ pc' = "ddl"
                 /\ goal' = "table"
                 /\ todo' = MigrateNewTable(log[n].ver, known)
              \/ /\ v # NoVersion /\ new # {}
                 /\ pc' = "ddl"
                 /\ goal' = "columns"
                 /\ todo' = MigrateNewColumns(log[n].ver, new, known)
       /\ StoreSchemas({log[n].ver} \cup ({TableVersion} \ {NoVersion}))
  /\ CacheTableVersion
  /\ UNCHANGED <<latest, trackVer, cfg, log, acked, mine, known, force, buf, destVars, faults>>

(* get_schema has to ask the API, which does not answer. *)
ApiFails ==
  /\ faults < MaxFaults
  /\ faults' = faults + 1
  /\ pc = "ready"
  /\ \E n \in 1..MaxEvents :
       Deliverable(n) /\ log[n].ver # TableVersion /\ ~SchemaStored(log[n].ver)
  /\ Stop
  /\ UNCHANGED <<latest, trackerVars, cfg, log, acked, destVars>>

(* The DDL is through: the driver reads the columns again; after a migration  *)
(* the new columns join the event's diff and the version is recorded.         *)
FinishDdl ==
  /\ pc = "ddl"
  /\ todo = <<>>
  /\ RefreshSchema
  /\ \/ /\ goal = "boot"
        /\ pc' = "ready"
        /\ UNCHANGED <<diff, force, trackVer, cacheVer>>
     \/ /\ goal # "boot"
        /\ pc' = "event"
        /\ force' = TRUE
        /\ diff' = IF goal = "columns"
                   THEN diff \cup (Cols[log[cur].ver] \ Cols[TableVersion]) ELSE diff
        /\ SetTableVersion(log[cur].ver)
  /\ UNCHANGED <<latest, trackSch, cfg, log, acked, mine, todo, goal, cur, buf, destVars, faults>>

(* driver.process builds the statement with the schema of the recorded       *)
(* version; a full batch or a migration flushes at once.                     *)
Process ==
  /\ pc = "event"
  /\ buf' = Append(buf, ToSql(cfg.dialect, cfg.mode, [log[cur] EXCEPT !.diff = diff],
                              cur, Cols[TableVersion]))
  /\ pc' = IF force \/ Len(buf') >= MaxBatch THEN "flush" ELSE "ready"
  /\ cur' = 0 /\ diff' = {} /\ force' = FALSE
  /\ UNCHANGED <<registryVars, cfg, log, acked, mine, known, todo, goal, destVars, faults>>

(* Mutant: only a full batch is flushed. *)
MutantFlushFullOnly ==
  /\ pc = "ready"
  /\ Len(buf) >= MaxBatch
  /\ pc' = "flush"
  /\ UNCHANGED <<registryVars, cfg, log, acked, mine, known, todo, goal, cur, diff, force, buf,
                 destVars, faults>>

(* The batch has waited long enough. *)
FlushIdle ==
  /\ pc = "ready"
  /\ buf # <<>>
  /\ pc' = "flush"
  /\ UNCHANGED <<registryVars, cfg, log, acked, mine, known, todo, goal, cur, diff, force, buf,
                 destVars, faults>>

(* What the driver executes: Snowflake builds its statements only now, with   *)
(* the schema recorded by now, in the order of the change timestamps.         *)
Sorted(p) == \A i, j \in DOMAIN buf : i < j => buf[p[i]].msg < buf[p[j]].msg
Batches ==
  IF cfg.dialect # "snowflake" THEN {buf}
  ELSE {[i \in DOMAIN buf |-> [buf[p[i]] EXCEPT !.cols = Cols[TableVersion]]] :
          p \in {q \in Bijection(DOMAIN buf, DOMAIN buf) : Sorted(q)}}

(* The destination accepts the statements. *)
Accepted(ss) ==
  /\ \A i \in DOMAIN ss : ~ss[i].bad /\ ss[i].cols \subseteq tab.cols
  /\ ~Appending => \A i \in DOMAIN ss :
       KeepsNotNull(cfg.dialect, ApplyAll(row, SubSeq(ss, 1, i - 1)), ss[i], need)

Execute(ss) ==
  /\ row' = IF Appending THEN row ELSE ApplyAll(row, ss)
  /\ hist' = IF Appending THEN hist \o HistRows(ss) ELSE hist

Flush ==
  /\ pc = "flush"
  /\ \E ss \in Batches : Accepted(ss) /\ Execute(ss)
  /\ pc' = "ack"
  /\ UNCHANGED <<registryVars, cfg, log, acked, mine, known, todo, goal, cur, diff, force, buf, tab,
                 need, views, faults>>

(* The destination rejects a statement: the transaction is rolled back, the   *)
(* batch is nak'd and the worker ends.                                        *)
FlushRejected ==
  /\ pc = "flush"
  /\ \E ss \in Batches : ~Accepted(ss)
  /\ Stop
  /\ UNCHANGED <<latest, trackerVars, cfg, log, acked, destVars, faults>>

(* The connection is lost before or after the commit; Snowflake commits each  *)
(* statement of the batch on its own.                                         *)
FlushLost ==
  /\ faults < MaxFaults
  /\ faults' = faults + 1
  /\ pc = "flush"
  /\ \E ss \in Batches :
       /\ Accepted(ss)
       /\ \E n \in 0..Len(ss) :
            /\ cfg.dialect # "snowflake" => n \in {0, Len(ss)}
            /\ Execute(SubSeq(ss, 1, n))
  /\ Stop
  /\ UNCHANGED <<latest, trackerVars, cfg, log, acked, tab, need, views>>

Ack ==
  /\ pc = "ack"
  /\ acked' = acked \cup Pending
  /\ buf' = <<>>
  /\ pc' = "ready"
  /\ UNCHANGED <<registryVars, cfg, log, mine, known, todo, goal, cur, diff, force, destVars, faults>>

(* An ack fails: the ones before it are settled, the rest of the batch is     *)
(* nak'd and the worker ends.                                                 *)
AckFails ==
  /\ faults < MaxFaults
  /\ faults' = faults + 1
  /\ pc = "ack"
  /\ \E n \in 0..(Len(buf) - 1) : acked' = acked \cup {buf[i].msg : i \in 1..n}
  /\ Stop
  /\ UNCHANGED <<latest, trackerVars, cfg, log, destVars>>

(* The process dies, or a DDL statement fails; the statements before it stay. *)
Crash ==
  /\ faults < MaxFaults
  /\ faults' = faults + 1
  /\ pc # "down"
  /\ Stop
  /\ UNCHANGED <<latest, trackerVars, cfg, log, acked, destVars>>

CacheExpires ==
  /\ cacheVer # NoVersion
  /\ DropCache
  /\ UNCHANGED <<latest, trackerVars, cfg, log, acked, workerVars, destVars, faults>>

Work ==
  Boot \/ Reconcile \/ Receive \/ ExecDdl \/ FinishDdl \/ Process \/ FlushIdle
    \/ Flush \/ FlushRejected \/ Ack

Next ==
  \/ SchemaChange \/ Publish
  \/ Work
  \/ ApiFails \/ FlushLost \/ AckFails \/ Crash \/ CacheExpires

Spec == Init /\ [][Next]_vars

(* The worker runs as long as it has something to do, and the supervisor      *)
(* starts it again (see Supervisor).                                          *)
FairSpec == Spec /\ WF_vars(Work)

-----------------------------------------------------------------------------
TypeOK ==
  /\ RegistryTypeOK
  /\ cfg \in Configs
  /\ log \in Seq(Events) /\ Len(log) <= MaxEvents
  /\ acked \subseteq 1..MaxEvents
  /\ pc \in {"down", "boot", "ddl", "ready", "event", "flush", "ack"}
  /\ mine \in 0..MaxVersion
  /\ known \in Tables
  /\ todo \in Seq(Ddls)
  /\ goal \in {"boot", "table", "columns"}
  /\ cur \in 0..MaxEvents
  /\ diff \subseteq Columns
  /\ force \in BOOLEAN
  /\ buf \in Seq(Stmts)
  /\ tab \in Tables /\ need \subseteq Columns
  /\ row \in Rows
  /\ hist \in Seq(HistRecords)
  /\ views \in [ViewNames -> Tables]
  /\ faults \in 0..MaxFaults

(***************************************************************************)
(* A worker never puts a column into a statement that the destination does *)
(* not have: the recorded version, which the statements are built from,    *)
(* may be ahead of the destination after a start, but never while events   *)
(* are processed, whatever was interrupted before.                         *)
(***************************************************************************)
BufferFits == \A i \in DOMAIN buf : buf[i].cols \subseteq tab.cols

(***************************************************************************)
(* No migration takes anything away from the destination: not a column,    *)
(* not a line of the history, nor the row, which only a flush writes.      *)
(* migrate_new_table drops an existing table, and must never be reached    *)
(* when there is one.                                                      *)
(***************************************************************************)
NothingDropped ==
  [][/\ tab.there => tab'.there /\ tab.cols \subseteq tab'.cols
     /\ Len(hist) <= Len(hist')
     /\ pc # "flush" => row' = row]_vars

(* What the source has is what the row has, up to SQL Server's zeroes. *)
SameValue(c, stored, source) ==
  stored = source \/ (cfg.dialect = "sqlserver" /\ c \in IntColumns /\ source = Null /\ stored = Zero)

(* No version brings back a column that an earlier one removed.  PostgreSQL    *)
(* and SQL Server update the columns of the diff only, so the value from       *)
(* before the removal would show again.                                        *)
NoColumnReturns ==
  \A u, v, w \in Versions :
    (u < v /\ v < w) => \A c \in Cols[u] \cap Cols[w] : c \in Cols[v]

(* The upserts of an older event overwrite a newer one's (see Consumer). *)
UpsertsInOrder == \A c \in Configs : c.mode = "upsert" => c.ordered

(***************************************************************************)
(* upsert mode: once every event is settled the row is the object, in all  *)
(* three dialects, after migrations that added and removed columns, and    *)
(* after batches that were written twice.                                  *)
(***************************************************************************)
RowCurrent ==
  (~Appending /\ acked = 1..Len(log) /\ log # <<>>)
    => /\ row.there = Source.there
       /\ Source.there => \A c \in Cols[log[Len(log)].ver] :
                            SameValue(c, row.val[c], Source.val[c])

(* Snowflake plans a batch when it flushes it, with the columns of the version *)
(* recorded by then.  A column that this version does not have is lost: one    *)
(* that a later version removed or, when an older event came late and took     *)
(* the table back to its version, one that was added since.                    *)
KeptColumns(v) ==
  IF cfg.dialect # "snowflake" THEN Cols[v]
  ELSE {c \in Cols[v] : \A w \in Versions : (cfg.ordered => v <= w) => c \in Cols[w]}

Written == {hist[i].mvcc : i \in DOMAIN hist}

(***************************************************************************)
(* append mode: as soon as every event was written, <table>_current shows  *)
(* the object as it is, and at any time t for which everything up to t was *)
(* written <table>_timeline has exactly one valid row, the object as it    *)
(* was: however often and in whatever order the events were written.       *)
(***************************************************************************)
HistoryTrue ==
  Appending =>
    \A t \in 1..Len(log) :
      (1..t \subseteq Written) =>
        /\ \E i \in DOMAIN hist :
             /\ TimelineAt(hist, t) = {i}
             /\ hist[i].op = log[t].op
             /\ \A c \in KeptColumns(log[t].ver) : hist[i].val[c] = log[t].row[c]
        /\ t = Len(log) =>
             /\ CurrentView(hist).there = Source.there
             /\ \A c \in KeptColumns(log[t].ver) : CurrentView(hist).val[c] = Source.val[c]

Serving == pc \in {"ready", "event", "flush", "ack"}

(***************************************************************************)
(* append mode: while events are streamed into the table, its two views    *)
(* exist and show every column of the recorded version                     *)
(* (features/audit-mode.md, "Two views per table").                        *)
(***************************************************************************)
ViewsServe ==
  (Appending /\ Serving /\ tab.there /\ TableVersion # NoVersion) =>
    \A v \in ViewNames : views[v].there /\ Cols[TableVersion] \subseteq views[v].cols

(* ... as long as no migration was interrupted. *)
ViewsServeIfCalm == faults = 0 => ViewsServe

(* An UPDATE of a version with a column that the latest version lacks: every *)
(* start records the latest version, so that column counts as new each time, *)
(* joins the diff and, when the JSON leaves it out, is a bare NULL again.     *)
StuckOnRemovedColumn ==
  /\ cfg.dialect = "postgresql" /\ ~Appending /\ cfg.omit
  /\ \E n \in DOMAIN log : /\ n \notin acked
                           /\ log[n].op = "UPDATE"
                           /\ ~(Cols[log[n].ver] \subseteq Cols[latest])

(* An event without a value for a column that the table has as NOT NULL: it   *)
(* is older than the version the table was made with, or newer than the one   *)
(* that removed the column.  Its statement is rejected each time it comes.    *)
StuckOnRequired ==
  /\ ~Appending
  /\ \E n \in DOMAIN log : /\ n \notin acked
                           /\ log[n].op # "DELETE"
                           /\ \E c \in need : log[n].row[c] = Null

(***************************************************************************)
(* Every event is settled in the end, whatever fails on the way.  In       *)
(* particular an event that PostgreSQL rejects, because a migration put a  *)
(* column into its diff that the object does not name, is accepted when it *)
(* comes again -- unless a later version removed that column, or an event  *)
(* lacks a column that the table does not let be null.                     *)
(***************************************************************************)
EventuallySettledAll ==
  <>[](acked = DOMAIN log \/ StuckOnRemovedColumn \/ StuckOnRequired)
=============================================================================
