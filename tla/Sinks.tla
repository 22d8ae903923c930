------------------------------- MODULE Sinks -------------------------------
(***************************************************************************)
(* The S3, file and EventHub drivers in full (drivers/s3, drivers/file,    *)
(* drivers/eventhub), under the batch processor and under the importer.    *)
(* An S3 object or a file is named by its row and the second of the event, *)
(* so that events of one second share it; a schema validator may give the  *)
(* object another name, made from fields of the event, that any events may *)
(* share.  A pool of threads uploads the objects of a flush.  EventHub     *)
(* gets one batch per run of events of a row, in order.                    *)
(*                                                                         *)
(* Events reach the driver in order, after a failure again from the first  *)
(* one that is not acked, or, in an import, not marked as imported.        *)
(***************************************************************************)
EXTENDS Naturals, Sequences, SequencesExt, FiniteSetsExt

CONSTANTS
  Keys,         \* rows: values of the partition key, table.company.location.id
  Paths,        \* names that the path template of a schema validator makes
  NoPath,       \* no validator, or no template for the table
  UploadTasks,  \* uploadTasks, the threads of the pool
  ImportBatch,  \* _MAX_IMPORT_BATCH_SIZE of EventHub
  MaxBatch,     \* the processor's limit
  MaxMsgs,      \* bound: events
  MaxSecond,    \* bound: seconds in which events are made
  MaxFaults     \* bound: failures of any kind, and stops

ASSUME SinksAssumption ==
  {UploadTasks, ImportBatch, MaxBatch, MaxSecond} \subseteq Nat \ {0}
    /\ {MaxMsgs, MaxFaults} \subseteq Nat
    /\ NoPath \notin Paths

VARIABLES
  kind,    \* the driver
  import,  \* it runs under the importer, not the processor
  log,     \* row, second and schema_validated_path of each event
  acked,   \* events settled with the server, or rows marked as imported
  pc,      \* where the process is
  after,   \* where it goes on after the flush
  batch,   \* the events in hand, in order
  buf,     \* the driver's buffer
  jobs,    \* the events that the flush still has to send
  busy,    \* uploads under way
  failed,  \* an upload of this flush failed
  store,   \* destination: the event that an object or a file holds, or 0
  hub,     \* destination: the messages of each partition key
  sent,    \* history: events the destination has taken
  raced,   \* history: objects that two uploads wrote at once
  faults

dest == <<store, hub, sent>>
vars == <<kind, import, log, acked, pc, after, batch, buf, jobs, busy, failed, dest, raced, faults>>

Msgs == 1..MaxMsgs
Events == [key : Keys, sec : 1..MaxSecond, path : Paths \cup {NoPath}]
Objects == (Keys \X (1..MaxSecond)) \cup Paths

(* object_key, get_file_name: a validated path wins; the second, not the      *)
(* millisecond.                                                               *)
ObjectKey(m) == IF log[m].path = NoPath THEN <<log[m].key, log[m].sec>> ELSE log[m].path

Init ==
  /\ kind \in {"s3", "file", "eventhub"} /\ import \in BOOLEAN
  /\ log = <<>> /\ acked = {}
  /\ pc = "down" /\ after = "ack" /\ batch = <<>> /\ buf = <<>>
  /\ jobs = <<>> /\ busy = {} /\ failed = FALSE
  /\ store = [o \in Objects |-> 0] /\ hub = [k \in Keys |-> <<>>] /\ sent = {}
  /\ raced = {} /\ faults = 0

Fault == faults < MaxFaults /\ faults' = faults + 1

(* An event is published, or is a row of the export.  Only the S3 driver      *)
(* looks at a path, so the events of the others have none.                    *)
Publish ==
  /\ Len(log) < MaxMsgs
  /\ import => pc = "down" /\ faults = 0
  /\ \E e \in Events :
       /\ log # <<>> => e.sec >= Last(log).sec
       /\ kind # "s3" => e.path = NoPath
       /\ log' = Append(log, e)
  /\ UNCHANGED <<kind, import, acked, pc, after, batch, buf, jobs, busy, failed, dest, raced, faults>>

Start ==
  /\ pc = "down"
  /\ pc' = "ready"
  /\ UNCHANGED <<kind, import, log, acked, after, batch, buf, jobs, busy, failed, dest, raced, faults>>

-----------------------------------------------------------------------------
(* One event. *)

NextEvent(m) ==
  /\ m \in DOMAIN log
  /\ m \notin acked \cup Range(batch)
  /\ 1..(m - 1) \subseteq acked \cup Range(batch)

(* put_object, and write_event, which opens with O_TRUNC. *)
Put(m) == store' = [store EXCEPT ![ObjectKey(m)] = m] /\ sent' = sent \cup {m}

Flush(then) == pc' = "flush" /\ after' = then

(* process, import_event: the file driver writes at once, the others buffer.  *)
(* The processor flushes a full batch, and EventHub one of an import.         *)
Process ==
  /\ pc = "ready"
  /\ \E m \in Msgs :
       /\ NextEvent(m)
       /\ batch' = Append(batch, m)
       /\ IF kind = "file"
          THEN Put(m) /\ UNCHANGED <<hub, buf>>
          ELSE buf' = Append(buf, m) /\ UNCHANGED dest
  /\ IF import
     THEN IF kind = "eventhub" /\ Len(buf') >= ImportBatch
          THEN Flush("ready")
          ELSE UNCHANGED <<pc, after>>
     ELSE IF Len(batch') >= MaxBatch THEN Flush("ack") ELSE UNCHANGED <<pc, after>>
  /\ UNCHANGED <<kind, import, log, acked, jobs, busy, failed, raced, faults>>

(* What every failure leads to: the messages are nacked, the process ends. *)
Abort ==
  /\ pc' = "down"
  /\ batch' = <<>> /\ buf' = <<>> /\ jobs' = <<>> /\ busy' = {} /\ failed' = FALSE

(* The file cannot be opened, or is cut off before it is written. *)
WriteFails ==
  /\ pc = "ready" /\ kind = "file"
  /\ Fault
  /\ \E m \in Msgs : NextEvent(m) /\ store' \in {store, [store EXCEPT ![ObjectKey(m)] = 0]}
  /\ Abort
  /\ UNCHANGED <<kind, import, log, acked, after, hub, sent, raced>>

(* on_idle. *)
FlushIdle ==
  /\ pc = "ready" /\ ~import
  /\ batch # <<>>
  /\ Flush("ack")
  /\ UNCHANGED <<kind, import, log, acked, batch, buf, jobs, busy, failed, dest, raced, faults>>

(* import_completed, after the last row; the markers are written then. *)
ImportCompleted ==
  /\ pc = "ready" /\ import
  /\ DOMAIN log \subseteq acked \cup Range(batch)
  /\ Flush("done")
  /\ UNCHANGED <<kind, import, log, acked, batch, buf, jobs, busy, failed, dest, raced, faults>>

(* stop: only EventHub still flushes. *)
Stop ==
  /\ pc = "ready" /\ ~import
  /\ Fault
  /\ IF kind = "eventhub"
     THEN Flush("down") /\ batch' = <<>> /\ UNCHANGED <<buf, jobs, busy, failed>>
     ELSE Abort /\ UNCHANGED after
  /\ UNCHANGED <<kind, import, log, acked, dest, raced>>

-----------------------------------------------------------------------------
(* flush: the buffer is taken, and then sent. *)

(* plan_batches: the first group of q is its first n events, a run of events  *)
(* of one row that the next event does not continue.                          *)
PlanBatches(q, n) ==
  /\ \A i \in 1..n : log[q[i]].key = log[q[1]].key
  /\ n < Len(q) => log[q[n + 1]].key # log[q[1]].key

(* Mutant: of the events that share an object only the last is uploaded. *)
MutantTakeBufferOnce ==
  LET last == SelectSeq(buf, LAMBDA m : \A n \in Range(buf) : ObjectKey(n) = ObjectKey(m) => n <= m)
  IN  /\ pc = "flush"
      /\ jobs' = IF kind = "eventhub" THEN buf ELSE last
      /\ buf' = <<>>
      /\ pc' = "send"
      /\ UNCHANGED <<kind, import, log, acked, after, batch, busy, failed, dest, raced, faults>>

TakeBuffer ==
  /\ pc = "flush"
  /\ jobs' = buf
  /\ buf' = <<>>
  /\ pc' = "send"
  /\ UNCHANGED <<kind, import, log, acked, after, batch, busy, failed, dest, raced, faults>>

Upload(m) ==
  /\ busy' = busy \cup {m}
  /\ raced' = IF \E n \in busy : ObjectKey(n) = ObjectKey(m) THEN raced \cup {ObjectKey(m)} ELSE raced

(* Mutant: the pool takes the job that was added last. *)
MutantStartUploadLast ==
  /\ pc = "send" /\ kind = "s3"
  /\ jobs # <<>> /\ Cardinality(busy) < UploadTasks
  /\ Upload(Last(jobs))
  /\ jobs' = Front(jobs)
  /\ UNCHANGED <<kind, import, log, acked, pc, after, batch, buf, failed, dest, faults>>

(* A thread of the pool takes the next object. *)
StartUpload ==
  /\ pc = "send" /\ kind = "s3"
  /\ jobs # <<>> /\ Cardinality(busy) < UploadTasks
  /\ Upload(Head(jobs))
  /\ jobs' = Tail(jobs)
  /\ UNCHANGED <<kind, import, log, acked, pc, after, batch, buf, failed, dest, faults>>

(* put_object returns, or raises with the object stored or not: the error is  *)
(* collected and the other uploads go on.                                     *)
UploadEnds ==
  /\ \E m \in busy :
       /\ busy' = busy \ {m}
       /\ \/ Put(m) /\ UNCHANGED <<failed, faults>>
          \/ Fault /\ failed' = TRUE /\ (Put(m) \/ UNCHANGED <<store, sent>>)
  /\ UNCHANGED <<kind, import, log, acked, pc, after, batch, buf, jobs, hub, raced>>

(* send_batch: a group becomes messages of its partition key. *)
Send(g) == hub' = [hub EXCEPT ![log[Head(g)].key] = @ \o g] /\ sent' = sent \cup Range(g)

(* Mutant: the batch that was built last is sent first. *)
MutantSendLastGroup ==
  /\ pc = "send" /\ kind = "eventhub"
  /\ \E n \in DOMAIN jobs :
       /\ \A i \in n..Len(jobs) : log[jobs[i]].key = log[Last(jobs)].key
       /\ n > 1 => log[jobs[n - 1]].key # log[Last(jobs)].key
       /\ Send(SubSeq(jobs, n, Len(jobs)))
       /\ jobs' = SubSeq(jobs, 1, n - 1)
  /\ UNCHANGED <<kind, import, log, acked, pc, after, batch, buf, busy, failed, store, raced, faults>>

SendGroup ==
  /\ pc = "send" /\ kind = "eventhub"
  /\ \E n \in DOMAIN jobs :
       /\ PlanBatches(jobs, n)
       /\ Send(SubSeq(jobs, 1, n))
       /\ jobs' = SubSeq(jobs, n + 1, Len(jobs))
  /\ UNCHANGED <<kind, import, log, acked, pc, after, batch, buf, busy, failed, store, raced, faults>>

(* It raises, sent or not, and the groups after it are dropped. *)
SendFails ==
  /\ pc = "send" /\ kind = "eventhub"
  /\ jobs # <<>>
  /\ Fault
  /\ \/ \E n \in DOMAIN jobs : PlanBatches(jobs, n) /\ Send(SubSeq(jobs, 1, n))
     \/ UNCHANGED <<hub, sent>>
  /\ Abort
  /\ UNCHANGED <<kind, import, log, acked, after, store, raced>>

Sent == pc = "send" /\ jobs = <<>> /\ busy = {}

(* Mutant: the errors that the threads collected are forgotten. *)
MutantFlushForgets ==
  /\ Sent
  /\ pc' = after
  /\ failed' = FALSE
  /\ UNCHANGED <<kind, import, log, acked, after, batch, buf, jobs, busy, dest, raced, faults>>

(* flush returns. *)
FlushReturns ==
  /\ Sent /\ ~failed
  /\ pc' = after
  /\ UNCHANGED <<kind, import, log, acked, after, batch, buf, jobs, busy, failed, dest, raced, faults>>

(* flush raises what the threads collected. *)
FlushRaises ==
  /\ Sent /\ failed
  /\ Abort
  /\ UNCHANGED <<kind, import, log, acked, after, dest, raced, faults>>

(* The messages are acked, or the markers written, one by one. *)
Ack ==
  /\ pc \in {"ack", "done"}
  /\ IF batch = <<>>
     THEN pc' = (IF import THEN "end" ELSE "ready") /\ UNCHANGED <<acked, batch>>
     ELSE acked' = acked \cup {Head(batch)} /\ batch' = Tail(batch) /\ UNCHANGED pc
  /\ UNCHANGED <<kind, import, log, after, buf, jobs, busy, failed, dest, raced, faults>>

AckFails ==
  /\ pc \in {"ack", "done"}
  /\ Fault
  /\ Abort
  /\ UNCHANGED <<kind, import, log, acked, after, dest, raced>>

(* The process dies; uploads under way may still arrive. *)
Crash ==
  /\ pc \notin {"down", "end"}
  /\ Fault
  /\ UNCHANGED <<store, sent>> \/ \E m \in busy : Put(m)
  /\ Abort
  /\ UNCHANGED <<kind, import, log, acked, after, hub, raced>>

-----------------------------------------------------------------------------
FlushStep == TakeBuffer \/ StartUpload \/ UploadEnds \/ SendGroup \/ SendFails \/ FlushReturns \/ FlushRaises

Next ==
  \/ Publish \/ Start
  \/ Process \/ WriteFails \/ FlushIdle \/ ImportCompleted \/ Stop
  \/ FlushStep \/ Ack \/ AckFails \/ Crash

Spec == Init /\ [][Next]_vars

-----------------------------------------------------------------------------
TypeOK ==
  /\ kind \in {"s3", "file", "eventhub"} /\ {import, failed} \subseteq BOOLEAN
  /\ log \in Seq(Events) /\ Len(log) <= MaxMsgs
  /\ acked \subseteq DOMAIN log
  /\ pc \in {"down", "ready", "flush", "send", "ack", "done", "end"}
  /\ after \in {"ack", "ready", "done", "down"}
  /\ {batch, buf, jobs} \subseteq Seq(Msgs)
  /\ busy \subseteq DOMAIN log /\ Cardinality(busy) <= UploadTasks
  /\ store \in [Objects -> {0} \cup Msgs] /\ hub \in [Keys -> Seq(Msgs)]
  /\ raced \subseteq Objects /\ sent \subseteq DOMAIN log
  /\ faults \in 0..MaxFaults

(***************************************************************************)
(* What is acked, or marked as imported, was stored: EventHub has the      *)
(* message; an object or a file holds the event, or another event of its   *)
(* name, which in a file may just have cut it off.  A failed     *)
(* upload among many, a group that is not sent and a crash in between      *)
(* leave the event to be delivered again.                                  *)
(***************************************************************************)
AckedStored ==
  \A m \in acked :
    IF kind = "eventhub"
    THEN m \in Range(hub[log[m].key])
    ELSE \/ store[ObjectKey(m)] # 0 /\ ObjectKey(store[ObjectKey(m)]) = ObjectKey(m)
         \/ kind = "file" /\ \E n \in DOMAIN log \ acked : ObjectKey(n) = ObjectKey(m)

(* Nothing of what was sent for row k is to be sent again. *)
Settled(k) == \A m \in DOMAIN log : log[m].key = k /\ m \notin acked => m \notin Range(hub[k])

(***************************************************************************)
(* Once all that EventHub has of a row is acked, its last message is the   *)
(* newest: the groups of a flush are sent in order, and a flush that       *)
(* failed half-way is repeated as a whole.                                 *)
(***************************************************************************)
NewestLast ==
  \A k \in Keys : hub[k] # <<>> /\ Settled(k) => Last(hub[k]) = Max(Range(hub[k]))

(***************************************************************************)
(* An object or a file holds the newest of the acked events that share it, *)
(* or one that is newer still, unless two threads of the pool wrote it at  *)
(* the same time or a newer change of that second is on its way again.     *)
(***************************************************************************)
ObjectNewest ==
  kind # "eventhub" =>
    \A o \in Objects \ raced :
      LET sharing == {m \in DOMAIN log : ObjectKey(m) = o}
      IN  sharing # {} /\ sharing \subseteq acked => store[o] = Max(sharing)

(***************************************************************************)
(* The drivers keep the promise of AtLeastOnce, in which every event is a  *)
(* row: each one reaches the destination before it is settled, also the    *)
(* ones that another event of their second overwrites.                     *)
(***************************************************************************)
Promise == INSTANCE AtLeastOnce
  WITH log <- [m \in DOMAIN log |-> [key |-> log[m].key, kind |-> "row"]], written <- sent
ImplementsPromise == Promise!Spec

=============================================================================
