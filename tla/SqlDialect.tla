----------------------------- MODULE SqlDialect -----------------------------
(***************************************************************************)
(* The statements the SQL drivers build for one change event and what they *)
(* do to the destination (drivers/postgresql/sql.py, mysql/sql.py,         *)
(* sqlserver/sql.py, snowflake/sql.py): the three upserts, which write     *)
(* different columns for the same event, and the append ("audit") mode of  *)
(* all four drivers with its two views.                                    *)
(*                                                                         *)
(* One table, one object.  Columns are the object's columns without the    *)
(* primary key.  A value is the number of the change that wrote it, so     *)
(* that a stale value can be told from a fresh one; quoting, literals and  *)
(* SQL types are left out.  The upserts of Snowflake are in Snowflake.     *)
(***************************************************************************)
EXTENDS Naturals, Sequences, SequencesExt

CONSTANTS
  Columns,     \* every column that some version of the table has
  IntColumns,  \* the ones SQL Server turns from NULL into 0 on insert
  MaxEvents    \* bound: changes of the object

ASSUME DialectAssumption == IntColumns \subseteq Columns /\ MaxEvents \in Nat

Null == 0
Zero == MaxEvents + 1     \* the literal 0, which no change of the object wrote
Values == 0..Zero
Vals == [Columns -> Values]
Ops == {"INSERT", "UPDATE", "DELETE"}

(***************************************************************************)
(* An event: its operation, its model version, the object after it, the    *)
(* columns its JSON names (a null may be left out), and its diff.          *)
(***************************************************************************)
Events == [op : Ops, ver : Nat, row : Vals, shown : SUBSET Columns,
           diff : SUBSET Columns]

(* The object as a destination row, or no row. *)
Rows == [there : BOOLEAN, val : Vals]
NoRow == [there |-> FALSE, val |-> [c \in Columns |-> Null]]

(***************************************************************************)
(* A statement: what it inserts when there is no row, which columns it     *)
(* sets when there is one, whether it replaces the row as a whole, and     *)
(* whether the server rejects its syntax.                                  *)
(***************************************************************************)
Stmts == [op : Ops, cols : SUBSET Columns, sets : SUBSET Columns,
          whole : BOOLEAN, bad : BOOLEAN, ins : Vals, upd : Vals, msg : Nat]

(* The value the statement carries for each column: NULL when it is missing. *)
Given(e) == [c \in Columns |-> IF c \in e.shown THEN e.row[c] ELSE Null]

Stmt(e, n, S, sets, whole, bad, ins) ==
  [op |-> e.op, cols |-> S, sets |-> sets, whole |-> whole, bad |-> bad,
   ins |-> ins, upd |-> Given(e), msg |-> n]

(* PostgreSQL: INSERT ... ON CONFLICT DO UPDATE.  An UPDATE sets the columns *)
(* of its diff; one that the object does not name leaves a bare NULL in the  *)
(* SET list, which is no assignment.                                         *)
PostgresStmt(e, n, S) ==
  LET upd == e.op = "UPDATE"
      sets == IF upd THEN e.diff \cap S \cap e.shown ELSE S
      bare == upd /\ \E c \in e.diff \cap S : c \notin e.shown
  IN  Stmt(e, n, S, sets, FALSE, bare, Given(e))

(* Mutant: the columns of the diff only. *)
MutantMysqlDiffOnly(e, n, S) ==
  LET cols == IF e.op = "UPDATE" THEN e.diff \cap S ELSE S
  IN  Stmt(e, n, cols, cols, TRUE, FALSE, Given(e))

(* MySQL: REPLACE INTO with every column, whatever the diff says. *)
MysqlStmt(e, n, S) == Stmt(e, n, S, S, TRUE, FALSE, Given(e))

(* SQL Server: MERGE.  The update sets the diff, or everything when there is *)
(* none; only the insert turns a NULL integer or boolean into 0.             *)
SqlserverStmt(e, n, S) ==
  LET sets == IF e.diff # {} THEN e.diff \cap S ELSE S
      ins == [c \in Columns |-> IF c \in IntColumns \cap S /\ Given(e)[c] = Null
                                THEN Zero ELSE Given(e)[c]]
  IN  Stmt(e, n, S, sets, FALSE, FALSE, ins)

(* append mode, every dialect: a plain INSERT of the object, or of a         *)
(* tombstone.                                                                *)
AppendStmt(e, n, S) ==
  LET after == IF e.op = "DELETE" THEN [c \in Columns |-> Null] ELSE Given(e)
  IN  Stmt(e, n, S, {}, FALSE, FALSE, after)

ToSql(dialect, mode, e, n, S) ==
  IF mode = "append" THEN AppendStmt(e, n, S)
  ELSE IF e.op = "DELETE" THEN Stmt(e, n, {}, {}, FALSE, FALSE, Given(e))
  ELSE CASE dialect = "postgresql" -> PostgresStmt(e, n, S)
         [] dialect = "mysql"      -> MysqlStmt(e, n, S)
         [] dialect = "sqlserver"  -> SqlserverStmt(e, n, S)

(* The row after one upsert or delete. *)
ApplyStmt(r, s) ==
  IF s.op = "DELETE" THEN NoRow
  ELSE [there |-> TRUE,
        val |-> [c \in Columns |->
                   IF ~r.there \/ s.whole
                   THEN IF c \in s.cols THEN s.ins[c] ELSE Null
                   ELSE IF c \in s.sets THEN s.upd[c] ELSE r.val[c]]]

ApplyAll(r, ss) == FoldLeft(ApplyStmt, r, ss)

(* The server checks NOT NULL: PostgreSQL and MySQL on the row to insert,    *)
(* even where it only updates or replaces one; SQL Server on what the branch *)
(* of the MERGE writes.                                                      *)
KeepsNotNull(dialect, r, s, need) ==
  \/ s.op = "DELETE"
  \/ IF dialect = "sqlserver" /\ r.there
     THEN \A c \in need \cap s.sets : s.upd[c] # Null
     ELSE \A c \in need : c \in s.cols /\ s.ins[c] # Null

(***************************************************************************)
(* The history table of append mode: a row per statement, in the order of  *)
(* _eds_seq.  The number of the change is its _eds_mvcc_timestamp.         *)
(***************************************************************************)
HistRow(s) == [op |-> s.op, val |-> [c \in Columns |-> IF c \in s.cols THEN s.ins[c] ELSE Null],
               mvcc |-> s.msg]
HistRows(ss) == [i \in DOMAIN ss |-> HistRow(ss[i])]
HistRecords == [op : Ops, val : Vals, mvcc : Nat]

(* Mutant: the order of arrival. *)
MutantBeforeBySeq(h, i, j) == i < j

(* ORDER BY _eds_mvcc_timestamp, _eds_timestamp, _eds_seq: row i is before j. *)
Before(h, i, j) == h[i].mvcc < h[j].mvcc \/ (h[i].mvcc = h[j].mvcc /\ i < j)

(* <table>_current: the last row of the object in that order, unless it is a *)
(* tombstone.                                                                *)
CurrentView(h) ==
  IF h = <<>> THEN NoRow
  ELSE LET last == h[CHOOSE i \in DOMAIN h : \A j \in DOMAIN h \ {i} : Before(h, j, i)]
       IN  IF last.op = "DELETE" THEN NoRow ELSE [there |-> TRUE, val |-> last.val]

(* LEAD(_eds_mvcc_timestamp): the mvcc of the next row, or 0 for NULL. *)
ValidTo(h, i) ==
  LET later == {j \in DOMAIN h : Before(h, i, j)}
  IN  IF later = {} THEN 0
      ELSE h[CHOOSE j \in later : \A k \in later \ {j} : Before(h, j, k)].mvcc

(* The rows of <table>_timeline that are valid at time t. *)
TimelineAt(h, t) ==
  {i \in DOMAIN h : h[i].mvcc <= t /\ (ValidTo(h, i) = 0 \/ t < ValidTo(h, i))}
=============================================================================
