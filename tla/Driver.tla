------------------------------- MODULE Driver -------------------------------
(***************************************************************************)
(* The destination drivers as the batch processor sees them                *)
(* (eds/driver.py, class Driver): process() takes one event, flush() makes *)
(* everything taken so far durable or raises, stop() closes.  The drivers  *)
(* differ in when they write, in what a failed flush leaves behind and in  *)
(* what stop() still writes; Kind says which one is configured:            *)
(*   "sql"       PostgreSQL, MySQL, SQL Server (drivers/sql_base.py)       *)
(*   "s3"        drivers/s3                                                *)
(*   "eventhub"  drivers/eventhub                                          *)
(*   "file"      drivers/file                                              *)
(* Snowflake, which also reorders and combines a batch, and Kafka, which   *)
(* flushes on its own at 1000 messages and gives a batch up after ten      *)
(* seconds without a leader, are not among them.                           *)
(***************************************************************************)
EXTENDS Naturals, Sequences

CONSTANTS Kind

ASSUME KindAssumption == Kind \in {"sql", "s3", "eventhub", "file"}

VARIABLES
  dbuf,      \* the driver's in-memory buffer: [key, msg] taken, not yet flushed
  written,   \* history: messages the destination has taken at least once
  dest       \* destination row per key: the message applied to it last, or 0

drvVars == <<dbuf, written, dest>>

DriverInit(keys) ==
  /\ dbuf = <<>>
  /\ written = {}
  /\ dest = [k \in keys |-> 0]

(* Index i is where the writes of b at the indices W last touch key k. *)
LastTouch(b, W, k, i) ==
  /\ i \in W
  /\ b[i].key = k
  /\ \A j \in W : b[j].key = k => j <= i

(* The destination executes the statements of b at the indices W, in order. *)
DriverWrite(b, W) ==
  /\ written' = written \cup {b[i].msg : i \in W}
  /\ dest' = [k \in DOMAIN dest |->
                IF \E i \in W : LastTouch(b, W, k, i)
                THEN b[CHOOSE i \in W : LastTouch(b, W, k, i)].msg
                ELSE dest[k]]

Prefixes(b) == {1..n : n \in 0..Len(b)}

(***************************************************************************)
(* What flush() can do with buffer b: whether it returns or raises (ok),   *)
(* which statements took effect (wrote), and whether the buffer is kept.   *)
(* A raise after the write is a commit, upload or send whose answer was    *)
(* lost.  An empty buffer is not sent at all.                              *)
(***************************************************************************)
Returned(b) == {[ok |-> TRUE, wrote |-> 1..Len(b), keep |-> FALSE]}

Raised(b, partial, keep) ==
  IF b = <<>> THEN {} ELSE [ok : {FALSE}, wrote : partial, keep : {keep}]

(* One transaction; the buffer is reset only on success. *)
SqlFlush(b) == Returned(b) \cup Raised(b, {{}, 1..Len(b)}, TRUE)

(* The buffer is taken first, and each object is uploaded on its own. *)
S3Flush(b) == Returned(b) \cup Raised(b, SUBSET (1..Len(b)), FALSE)

(* The buffer is taken first, and the groups are sent in order. *)
EventhubFlush(b) == Returned(b) \cup Raised(b, Prefixes(b), FALSE)

(* Nothing is ever buffered. *)
FileFlush(b) == {[ok |-> TRUE, wrote |-> {}, keep |-> TRUE]}

FlushOutcomes(b) ==
  CASE Kind = "sql"      -> SqlFlush(b)
    [] Kind = "s3"       -> S3Flush(b)
    [] Kind = "eventhub" -> EventhubFlush(b)
    [] Kind = "file"     -> FileFlush(b)

(* process(): the file driver writes at once, the others buffer. *)
DriverProcess(e) ==
  IF Kind = "file"
  THEN DriverWrite(<<e>>, {1}) /\ UNCHANGED dbuf
  ELSE dbuf' = Append(dbuf, e) /\ UNCHANGED <<written, dest>>

(* flush() with outcome o. *)
DriverFlush(o) ==
  /\ DriverWrite(dbuf, o.wrote)
  /\ dbuf' = IF o.keep THEN dbuf ELSE <<>>

(* stop(): only EventHub still sends what it holds; the buffer is gone. *)
StopWrites(b) == IF Kind = "eventhub" THEN Prefixes(b) ELSE {{}}

DriverStop(W) ==
  /\ DriverWrite(dbuf, W)
  /\ dbuf' = <<>>
=============================================================================
