----------------------------- MODULE Snowflake -----------------------------
(***************************************************************************)
(* The upserts of the Snowflake driver (drivers/snowflake/snowflake.py,    *)
(* sql.py, util/batcher.py, util/optimize.py) under the batch processor:   *)
(* a batch is sorted by change timestamp and combined per object, noise is *)
(* left out, a MERGE changes a row only when its updatedDate is newer, and *)
(* an INSERT of an object whose marker is in the tracker is preceded by a  *)
(* DELETE.  Statements are committed one by one; the markers are written   *)
(* after them, in two steps.                                               *)
(*                                                                         *)
(* One object; its column x stands for all but updatedDate and meta, and   *)
(* holds the number of the change that set it, or 0 when it is null and    *)
(* the events leave it out of their JSON: a MERGE then inserts a null, but *)
(* updates the columns that are named only.  (A null that is written out   *)
(* is a value like any other.)  Append mode and DDL are in Migration.      *)
(***************************************************************************)
EXTENDS Naturals, Sequences, SequencesExt

CONSTANTS
  Orders,     \* whether events arrive in order: a subset of BOOLEAN
  MaxEvents,  \* bound: changes of the object
  MaxBatch,   \* the driver's max_batch_size
  MaxFaults   \* bound: crashes, failed statements, lost acks, expired markers

ASSUME SnowflakeAssumption ==
  /\ Orders \subseteq BOOLEAN
  /\ MaxEvents \in Nat
  /\ MaxBatch \in Nat \ {0}
  /\ MaxFaults \in Nat

VARIABLES
  ordered,  \* see Orders
  log,      \* the changes of the object
  acked,    \* the ones settled with the server
  pc,       \* where the worker is
  batch,    \* the processor's batch, by number
  recs,     \* the driver's Batcher
  plan,     \* the plan of the flush under way
  row,      \* destination: the row
  marker,   \* tracker: "snowflake:<table>:<id>" is there
  faults

vars == <<ordered, log, acked, pc, batch, recs, plan, row, marker, faults>>

Numbers == 1..MaxEvents
Ops == {"INSERT", "UPDATE", "DELETE"}
DiffColumns == {"x", "updatedDate", "meta"}
Records == [op : Ops, n : Numbers, x : 0..MaxEvents, date : 0..MaxEvents,
            diff : SUBSET DiffColumns]
Rows == [there : BOOLEAN, x : 0..MaxEvents, date : 0..MaxEvents]
NoRow == [there |-> FALSE, x |-> 0, date |-> 0]
Stmts == [k : {"delete", "merge"}, rec : Records]
Plans == [query : Seq(Stmts), cache : BOOLEAN, delete : BOOLEAN]
NoPlan == [query |-> <<>>, cache |-> FALSE, delete |-> FALSE]

Init ==
  /\ ordered \in Orders
  /\ log = <<>>
  /\ acked = {}
  /\ pc = "down"
  /\ batch = <<>>
  /\ recs = <<>>
  /\ plan = NoPlan
  /\ row = NoRow
  /\ marker = FALSE
  /\ faults = 0

-----------------------------------------------------------------------------
(* The source.  An UPDATE changes x and updatedDate, or only updatedDate (and *)
(* perhaps meta), or x without updatedDate.  x may be, or become, a null that *)
(* is left out.                                                               *)
Source == IF log = <<>> \/ Last(log).op = "DELETE" THEN NoRow
          ELSE [there |-> TRUE, x |-> Last(log).x, date |-> Last(log).date]

Publish ==
  /\ Len(log) < MaxEvents
  /\ LET n == Len(log) + 1
         Change(op, x, date, D) == [op |-> op, n |-> n, x |-> x, date |-> date, diff |-> D]
     IN  \/ /\ ~Source.there
            /\ \E x \in {0, n} : log' = Append(log, Change("INSERT", x, n, {}))
         \/ /\ Source.there
            /\ \E D \in {{"x", "updatedDate"}, {"x"}, {"updatedDate", "meta"}} :
                 \E x \in IF "x" \in D THEN {0, n} ELSE {Source.x} :
                   log' = Append(log, Change("UPDATE", x,
                                             IF "updatedDate" \in D THEN n ELSE Source.date, D))
         \/ /\ Source.there
            /\ log' = Append(log, Change("DELETE", 0, 0, {}))
  /\ UNCHANGED <<ordered, acked, pc, batch, recs, plan, row, marker, faults>>

-----------------------------------------------------------------------------
(* The plan of a flush: pure functions of the records and of the marker. *)

(* sort_records_by_mvcc_timestamp, as the set of the sorted arrangements of   *)
(* rs; the numbers are the timestamps, so there is one.                       *)
Sorted(rs) == \A i, j \in DOMAIN rs : i < j => rs[i].n < rs[j].n
SortRecords(rs) ==
  {s \in {[i \in DOMAIN rs |-> rs[p[i]]] : p \in Bijection(DOMAIN rs, DOMAIN rs)} : Sorted(s)}

(* _combine, one record at a time: a DELETE forgets the ones before it, an    *)
(* UPDATE is merged into an UPDATE before it, whose object keeps the columns  *)
(* that the later one does not name.                                          *)
Merged(r, u) == [r EXCEPT !.diff = @ \cup u.diff, !.x = IF @ = 0 THEN u.x ELSE @]
CombineStep(rs, r) ==
  IF rs = <<>> \/ r.op = "DELETE" THEN <<r>>
  ELSE IF r.op = "UPDATE" /\ Last(rs).op = "UPDATE"
       THEN Append(Front(rs), Merged(r, Last(rs)))
       ELSE Append(rs, r)

(* Mutant: the merged record keeps the diff of the later update only. *)
MutantCombineForgetsDiff(rs) ==
  LET step(acc, r) == IF acc = <<>> \/ r.op = "DELETE" THEN <<r>>
                      ELSE IF r.op = "UPDATE" /\ Last(acc).op = "UPDATE"
                           THEN Append(Front(acc), r) ELSE Append(acc, r)
  IN  FoldLeft(step, <<>>, rs)

CombineRecords(rs) == FoldLeft(CombineStep, <<>>, rs)

(* Mutant: any diff with updatedDate counts. *)
MutantNoiseTooWide(r) == r.op = "UPDATE" /\ "updatedDate" \in r.diff

(* An UPDATE that changes nothing but updatedDate, or updatedDate and meta. *)
Noise(r) == r.op = "UPDATE" /\ r.diff \in {{}, {"updatedDate"}, {"updatedDate", "meta"}}

(* to_sql: a DELETE, or a MERGE that a forced DELETE may precede. *)
ToSql(r, exists) ==
  (IF exists \/ r.op = "DELETE" THEN <<[k |-> "delete", rec |-> r]>> ELSE <<>>)
    \o (IF r.op # "DELETE" THEN <<[k |-> "merge", rec |-> r]>> ELSE <<>>)

(* plan_flush; the cache keys are written back after the statements, the      *)
(* delete keys removed again after that.                                      *)
AddSql(sql, r, seen) == IF Noise(r) THEN sql ELSE sql \o ToSql(r, r.op = "INSERT" /\ seen)
Query(rs, seen) == FoldLeft(LAMBDA sql, r : AddSql(sql, r, seen), <<>>, rs)
PlanFlush(rs, seen) ==
  [query |-> Query(rs, seen),
   cache |-> \E i \in DOMAIN rs : rs[i].op \in {"INSERT", "DELETE"},
   delete |-> \E i \in DOMAIN rs : rs[i].op = "DELETE"]

(* Mutant: the row is always updated. *)
MutantMergeAlways(r, s) ==
  [there |-> TRUE, x |-> s.rec.x, date |-> s.rec.date]

(* MERGE: insert every column, or update the ones that are named when         *)
(* source.updatedDate > target.updatedDate.                                   *)
ApplyMerge(r, s) ==
  IF ~r.there \/ s.rec.date > r.date
  THEN [there |-> TRUE, x |-> IF r.there /\ s.rec.x = 0 THEN r.x ELSE s.rec.x,
        date |-> s.rec.date]
  ELSE r

ApplyStmt(r, s) == IF s.k = "delete" THEN NoRow ELSE ApplyMerge(r, s)

ApplyAll(r, ss) == FoldLeft(ApplyStmt, r, ss)

-----------------------------------------------------------------------------
(* The worker: process adds to the batcher, flush plans and executes. *)

Pending == Range(batch)

Stop ==
  /\ pc' = "down"
  /\ batch' = <<>> /\ recs' = <<>> /\ plan' = NoPlan

Start ==
  /\ pc = "down"
  /\ pc' = "ready"
  /\ UNCHANGED <<ordered, log, acked, batch, recs, plan, row, marker, faults>>

Deliverable(n) ==
  /\ n \in DOMAIN log
  /\ n \notin acked \cup Pending
  /\ ordered => 1..(n - 1) \subseteq acked \cup Pending

Process ==
  /\ pc = "ready"
  /\ Len(batch) < MaxBatch
  /\ \E n \in Numbers :
       /\ Deliverable(n)
       /\ batch' = Append(batch, n)
       /\ recs' = Append(recs, log[n])
  /\ pc' = IF Len(batch') >= MaxBatch THEN "flush" ELSE "ready"
  /\ UNCHANGED <<ordered, log, acked, plan, row, marker, faults>>

FlushIdle ==
  /\ pc = "ready"
  /\ batch # <<>>
  /\ pc' = "flush"
  /\ UNCHANGED <<ordered, log, acked, batch, recs, plan, row, marker, faults>>

(* flush, up to the execution: the batcher is emptied before it. *)
Plan ==
  /\ pc = "flush"
  /\ \E rs \in SortRecords(recs) : plan' = PlanFlush(CombineRecords(rs), marker)
  /\ recs' = <<>>
  /\ pc' = "exec"
  /\ UNCHANGED <<ordered, log, acked, batch, row, marker, faults>>

Exec ==
  /\ pc = "exec"
  /\ row' = ApplyAll(row, plan.query)
  /\ pc' = "mark"
  /\ UNCHANGED <<ordered, log, acked, batch, recs, plan, marker, faults>>

(* Mutant: the error is swallowed, as stop() does. *)
MutantExecSwallows ==
  /\ faults < MaxFaults
  /\ faults' = faults + 1
  /\ pc = "exec"
  /\ pc' = "mark"
  /\ plan' = NoPlan
  /\ UNCHANGED <<ordered, log, acked, batch, recs, row, marker>>

(* A statement fails, or the connection does: the ones before it stay.  The   *)
(* batch is nak'd and the worker ends; stop() has nothing left to flush.      *)
ExecFails ==
  /\ faults < MaxFaults
  /\ faults' = faults + 1
  /\ pc = "exec"
  /\ \E n \in 0..Len(plan.query) : row' = ApplyAll(row, SubSeq(plan.query, 1, n))
  /\ Stop
  /\ UNCHANGED <<ordered, log, acked, marker>>

(* tracker.set_keys, for a day. *)
SetMarkers ==
  /\ pc = "mark"
  /\ marker' = (marker \/ plan.cache)
  /\ pc' = "unmark"
  /\ UNCHANGED <<ordered, log, acked, batch, recs, plan, row, faults>>

(* tracker.delete_key: a DELETE, even one followed by an INSERT. *)
DeleteMarkers ==
  /\ pc = "unmark"
  /\ marker' = (marker /\ ~plan.delete)
  /\ plan' = NoPlan
  /\ pc' = "ack"
  /\ UNCHANGED <<ordered, log, acked, batch, recs, row, faults>>

Ack ==
  /\ pc = "ack"
  /\ acked' = acked \cup Pending
  /\ batch' = <<>>
  /\ pc' = "ready"
  /\ UNCHANGED <<ordered, log, recs, plan, row, marker, faults>>

AckFails ==
  /\ faults < MaxFaults
  /\ faults' = faults + 1
  /\ pc = "ack"
  /\ \E n \in 0..(Len(batch) - 1) : acked' = acked \cup {batch[i] : i \in 1..n}
  /\ Stop
  /\ UNCHANGED <<ordered, log, row, marker>>

(* driver.stop() at the end of the worker flushes what is in the batcher and  *)
(* ignores errors; the batch is nak'd, or left to be redelivered.             *)
StopFlushes ==
  /\ faults < MaxFaults
  /\ faults' = faults + 1
  /\ pc = "ready"
  /\ \E rs \in SortRecords(recs) :
       LET p == PlanFlush(CombineRecords(rs), marker)
       IN  \/ /\ row' = ApplyAll(row, p.query)
              /\ marker' = ((marker \/ p.cache) /\ ~p.delete)
           \/ /\ \E n \in 0..Len(p.query) : row' = ApplyAll(row, SubSeq(p.query, 1, n))
              /\ UNCHANGED marker
  /\ Stop
  /\ UNCHANGED <<ordered, log, acked>>

Crash ==
  /\ faults < MaxFaults
  /\ faults' = faults + 1
  /\ pc # "down"
  /\ Stop
  /\ UNCHANGED <<ordered, log, acked, row, marker>>

(* The marker's day is over. *)
MarkerExpires ==
  /\ faults < MaxFaults
  /\ faults' = faults + 1
  /\ marker
  /\ marker' = FALSE
  /\ UNCHANGED <<ordered, log, acked, pc, batch, recs, plan, row>>

Work == Start \/ Process \/ FlushIdle \/ Plan \/ Exec \/ SetMarkers \/ DeleteMarkers \/ Ack

Next ==
  \/ Publish \/ Work
  \/ ExecFails \/ AckFails \/ StopFlushes \/ Crash \/ MarkerExpires

Spec == Init /\ [][Next]_vars

-----------------------------------------------------------------------------
TypeOK ==
  /\ ordered \in BOOLEAN
  /\ log \in Seq(Records) /\ Len(log) <= MaxEvents
  /\ acked \subseteq Numbers
  /\ pc \in {"down", "ready", "flush", "exec", "mark", "unmark", "ack"}
  /\ batch \in Seq(Numbers) /\ Len(batch) <= MaxBatch
  /\ recs \in Seq(Records)
  /\ plan \in Plans
  /\ row \in Rows
  /\ marker \in BOOLEAN
  /\ faults \in 0..MaxFaults

(* Every update of the object comes with a new updatedDate. *)
Dated == \A n \in DOMAIN log : log[n].op = "UPDATE" => "updatedDate" \in log[n].diff

(* Every insert and update names x in its JSON.  One that sets x to null       *)
(* without naming it leaves the old value in the row.                          *)
Named == \A n \in DOMAIN log : log[n].op # "DELETE" => log[n].x # 0

(***************************************************************************)
(* Once every event is settled the row is the object, up to updatedDate    *)
(* and meta: after flushes that were executed in part, twice, or again     *)
(* with the DELETE that a marker forces, and whatever the batches combined.*)
(* Needs events in order that name the columns that are null, and an       *)
(* updatedDate that changes with the row.                                  *)
(***************************************************************************)
RowCurrent ==
  (ordered /\ Dated /\ Named /\ acked = DOMAIN log) =>
    row.there = Source.there /\ row.x = Source.x

(***************************************************************************)
(* In whatever order events arrive, a flush takes the row back in time     *)
(* only when it inserts or deletes the object: an update that is late      *)
(* never replaces newer values (the SQL drivers' do, see Consumer).        *)
(***************************************************************************)
NoStaleUpdate ==
  [][(row.there /\ row'.there /\ row'.date < row.date)
       => \E i \in DOMAIN batch : log[batch[i]].op \in {"INSERT", "DELETE"}]_vars

(***************************************************************************)
(* Combining a batch changes nothing: it takes the row to where its        *)
(* records, executed one by one, would, with no more statements.  Events   *)
(* may leave nulls out, as long as there is a row: an update that nulls x, *)
(* combined with noise before it, inserts the noise's x.                   *)
(***************************************************************************)
CombineFaithful ==
  (pc = "flush" /\ ordered /\ Dated /\ (Named \/ row.there)) =>
    \A rs \in SortRecords(recs) :
      LET oneByOne == Query(rs, marker)
          combined == Query(CombineRecords(rs), marker)
          expected == ApplyAll(row, oneByOne)
          actual == ApplyAll(row, combined)
      IN  /\ actual.there = expected.there /\ actual.x = expected.x
          /\ Len(combined) <= Len(oneByOne)

(***************************************************************************)
(* What was acked stays: the row is at least as new as every insert and    *)
(* update that was settled, until a later event deletes the object.  A     *)
(* flush that fails half-way, or comes twice, never takes the row back     *)
(* behind an event that will not be sent again.                            *)
(***************************************************************************)
AckedStays ==
  (ordered /\ Dated /\ Named) =>
    \A n \in acked :
      \/ log[n].op = "DELETE" \/ Noise(log[n])
      \/ row.there /\ row.x >= log[n].x
      \/ \E m \in (n + 1)..Len(log) : log[m].op = "DELETE"

=============================================================================
