------------------------------- MODULE Kafka -------------------------------
(***************************************************************************)
(* The Kafka driver (drivers/kafka/__init__.py) under the batch processor. *)
(* It flushes on its own when its buffer is full, routes a message by a    *)
(* hash of its key over a partition count that it reads once, hands the    *)
(* whole buffer to librdkafka, waits ten seconds for it, retries the whole *)
(* buffer while a leader is missing, and drops it after ten seconds.       *)
(*                                                                         *)
(* librdkafka and the broker are external: a message that was produced     *)
(* waits in line for its partition until the broker takes it or it fails,  *)
(* which its callback reports to the attempt that produced it. librdkafka  *)
(* repeats a request up to 25 times without idempotence, so a message may  *)
(* be in the topic twice and may be overtaken by the ones behind it.       *)
(* Events reach the driver in order, after a failure again from the first  *)
(* one that is not acked.                                                  *)
(***************************************************************************)
EXTENDS Naturals, Sequences, SequencesExt

CONSTANTS
  Keys,       \* rows: values of the partition key, table.company.location.id
  Hash,       \* FNV-1a of a key's hash
  Parts,      \* partitions of the topic at first
  MaxParts,   \* bound: partitions the topic is grown to
  SelfFlush,  \* _MAX_IMPORT_BATCH_SIZE, the driver's own limit
  MaxBatch,   \* the processor's limit
  MaxMsgs,    \* bound: events
  MaxFaults   \* bound: failures of any kind

ASSUME KafkaAssumption ==
  /\ Hash \in [Keys -> Nat]
  /\ Parts \in Nat \ {0} /\ MaxParts \in Nat /\ Parts <= MaxParts
  /\ SelfFlush \in Nat \ {0} /\ MaxBatch \in Nat \ {0}
  /\ MaxMsgs \in Nat /\ MaxFaults \in Nat

VARIABLES
  log,       \* the key of each event
  acked,     \* the events settled with the server
  pc,        \* where the worker is
  batch,     \* the processor's batch
  pending,   \* the driver's buffer
  own,       \* the flush under way was started by process()
  count,     \* _partition_count: 0 until it is resolved
  outq,      \* librdkafka: produced and not yet delivered
  error,     \* the first error a callback of this attempt reported
  parts,     \* broker: number of partitions
  topic,     \* broker: the messages of each partition
  overdue,   \* history: events that a flush let go without a delivery
  early,     \* history: events that overtook a message of their row
  faults

vars == <<log, acked, pc, batch, pending, own, count, outq, error, parts, topic, overdue, early, faults>>

Msgs == 1..MaxMsgs
Partitions == 0..(MaxParts - 1)
Items == [m : Msgs, p : Partitions, cur : BOOLEAN]
Errors == {"none", "leader", "other"}
Pending == Range(batch)

Init ==
  /\ log = <<>> /\ acked = {}
  /\ pc = "down" /\ batch = <<>> /\ pending = <<>> /\ own = FALSE
  /\ count = 0 /\ outq = <<>> /\ error = "none"
  /\ parts = Parts
  /\ topic = [p \in Partitions |-> <<>>]
  /\ overdue = {} /\ early = {}
  /\ faults = 0

Fault == faults < MaxFaults /\ faults' = faults + 1

Publish ==
  /\ Len(log) < MaxMsgs
  /\ \E k \in Keys : log' = Append(log, k)
  /\ UNCHANGED <<acked, pc, batch, pending, own, count, outq, error, parts, topic, overdue, early, faults>>

(* An operator adds a partition. *)
GrowTopic ==
  /\ parts < MaxParts
  /\ parts' = parts + 1
  /\ UNCHANGED <<log, acked, pc, batch, pending, own, count, outq, error, topic, overdue, early, faults>>

-----------------------------------------------------------------------------
(* balance: the partition of a key. *)
Balance(k, n) == IF n = 1 THEN 0 ELSE Hash[k] % n

(* start, _connect: a new producer, the count is not known yet. *)
Start ==
  /\ pc = "down"
  /\ pc' = "ready"
  /\ count' = 0
  /\ UNCHANGED <<log, acked, batch, pending, own, outq, error, parts, topic, overdue, early, faults>>

Deliverable(m) ==
  /\ m \in DOMAIN log
  /\ m \notin acked \cup Pending
  /\ 1..(m - 1) \subseteq acked \cup Pending

(* process: the driver flushes by itself when its buffer is full, and then    *)
(* the processor when its batch is.                                           *)
Process ==
  /\ pc = "ready"
  /\ Len(batch) < MaxBatch
  /\ \E m \in Msgs :
       /\ Deliverable(m)
       /\ batch' = Append(batch, m)
       /\ pending' = Append(pending, m)
  /\ own' = (Len(pending') >= SelfFlush)
  /\ pc' = IF own' \/ Len(batch') >= MaxBatch THEN "produce" ELSE "ready"
  /\ UNCHANGED <<log, acked, count, outq, error, parts, topic, overdue, early, faults>>

(* Mutant: nothing is flushed while the driver's buffer is empty. *)
MutantFlushIdlePendingOnly ==
  /\ pc = "ready"
  /\ pending # <<>>
  /\ own' = FALSE
  /\ pc' = "produce"
  /\ UNCHANGED <<log, acked, batch, pending, count, outq, error, parts, topic, overdue, early, faults>>

(* The processor flushes: a driver with nothing to send returns at once. *)
FlushIdle ==
  /\ pc = "ready"
  /\ batch # <<>>
  /\ own' = FALSE
  /\ pc' = IF pending = <<>> THEN "ack" ELSE "produce"
  /\ UNCHANGED <<log, acked, batch, pending, count, outq, error, parts, topic, overdue, early, faults>>

(* What happens after the driver's flush. *)
AfterFlush == IF own /\ Len(batch) < MaxBatch THEN "ready" ELSE "ack"

(* The processor raises: the batch is nak'd, the worker is about to end. *)
Abort ==
  /\ pc' = "stopping"
  /\ batch' = <<>> /\ pending' = <<>> /\ own' = FALSE /\ error' = "none"

(* Mutant: a topic that cannot be resolved is taken to have one partition. *)
MutantResolveDefaultsToOne ==
  /\ Fault
  /\ pc = "produce"
  /\ count' = IF count = 0 THEN 1 ELSE count
  /\ UNCHANGED <<log, acked, pc, batch, pending, own, outq, error, parts, topic, overdue, early>>

(* The metadata cannot be read. *)
ResolveFails ==
  /\ Fault
  /\ pc = "produce"
  /\ count = 0
  /\ Abort
  /\ UNCHANGED <<log, acked, count, outq, parts, topic, overdue, early>>

(* Its leader is not available: the loop goes on, or its time is up. *)
LeaderMissing ==
  /\ Fault
  /\ pc = "produce"
  /\ count = 0
  /\ \/ UNCHANGED <<pc, pending, overdue>>
     \/ /\ pending' = <<>>
        /\ overdue' = overdue \cup Range(pending)
        /\ pc' = AfterFlush
  /\ UNCHANGED <<log, acked, batch, own, count, outq, error, parts, topic, early>>

(* Mutant: the buffer is produced from its end. *)
MutantProduceNewestFirst ==
  /\ pc = "produce"
  /\ count' = IF count = 0 THEN parts ELSE count
  /\ outq' = [i \in DOMAIN outq |-> [outq[i] EXCEPT !.cur = FALSE]]
               \o [i \in DOMAIN pending |->
                     [m |-> Reverse(pending)[i], p |-> Balance(log[Reverse(pending)[i]], count'), cur |-> TRUE]]
  /\ error' = "none"
  /\ pc' = "wait"
  /\ UNCHANGED <<log, acked, batch, pending, own, parts, topic, overdue, early, faults>>

(* _produce_all, up to producer.flush. *)
ProduceAll ==
  /\ pc = "produce"
  /\ count' = IF count = 0 THEN parts ELSE count
  /\ outq' = [i \in DOMAIN outq |-> [outq[i] EXCEPT !.cur = FALSE]]
               \o [i \in DOMAIN pending |->
                     [m |-> pending[i], p |-> Balance(log[pending[i]], count'), cur |-> TRUE]]
  /\ error' = "none"
  /\ pc' = "wait"
  /\ UNCHANGED <<log, acked, batch, pending, own, parts, topic, overdue, early, faults>>

(* The next message of a partition. *)
FirstOf(i) == \A j \in 1..(i - 1) : outq[j].p # outq[i].p

(* The broker appends a message to its partition. *)
Appended(i) == topic' = [topic EXCEPT ![outq[i].p] = Append(@, outq[i].m)]

BrokerAccepts ==
  /\ \E i \in DOMAIN outq :
       /\ FirstOf(i)
       /\ Appended(i)
       /\ outq' = RemoveAt(outq, i)
  /\ UNCHANGED <<log, acked, pc, batch, pending, own, count, error, parts, overdue, early, faults>>

(* A message of the row of the i-th one is in front of it. *)
Ahead(i) == \E j \in 1..(i - 1) : log[outq[j].m] = log[outq[i].m]

(* The producer has several requests in flight and no idempotence: while one  *)
(* is tried again, messages behind it go through.                             *)
BrokerReorders ==
  /\ Fault
  /\ \E i \in DOMAIN outq :
       /\ ~FirstOf(i)
       /\ Appended(i)
       /\ outq' = RemoveAt(outq, i)
       /\ early' = IF Ahead(i) THEN early \cup {outq[i].m} ELSE early
  /\ UNCHANGED <<log, acked, pc, batch, pending, own, count, error, parts, overdue>>

(* The broker's answer is lost: the message is in the topic and sent again. *)
BrokerRepeats ==
  /\ Fault
  /\ \E i \in DOMAIN outq : FirstOf(i) /\ Appended(i)
  /\ UNCHANGED <<log, acked, pc, batch, pending, own, count, outq, error, parts, overdue, early>>

(* A message fails for good, perhaps while the ones behind it go through; the *)
(* callbacks of earlier attempts are not looked at any more.                  *)
BrokerRejects ==
  /\ Fault
  /\ \E i \in DOMAIN outq :
       /\ outq' = RemoveAt(outq, i)
       /\ \E err \in {"leader", "other"} :
            error' = IF pc = "wait" /\ outq[i].cur /\ error = "none" THEN err ELSE error
  /\ UNCHANGED <<log, acked, pc, batch, pending, own, count, parts, topic, overdue, early>>

(* producer.flush(10) returns, with messages still in line if time is up; no  *)
(* error is a success.                                                        *)
ProducerFlushed ==
  /\ pc = "wait"
  /\ error = "none"
  /\ \/ outq = <<>> /\ UNCHANGED faults
     \/ outq # <<>> /\ Fault
  /\ overdue' = overdue \cup {outq[i].m : i \in DOMAIN outq}
  /\ pending' = <<>>
  /\ pc' = AfterFlush
  /\ UNCHANGED <<log, acked, batch, own, count, outq, error, parts, topic, early>>

(* A leader was missing: the whole buffer is produced again. *)
Retry ==
  /\ pc = "wait"
  /\ error = "leader"
  /\ error' = "none"
  /\ pc' = "produce"
  /\ UNCHANGED <<log, acked, batch, pending, own, count, outq, parts, topic, overdue, early, faults>>

(* ... or the ten seconds are over, and the buffer is dropped. *)
GiveUp ==
  /\ pc = "wait"
  /\ error = "leader"
  /\ error' = "none"
  /\ overdue' = overdue \cup Range(pending)
  /\ pending' = <<>>
  /\ pc' = AfterFlush
  /\ UNCHANGED <<log, acked, batch, own, count, outq, parts, topic, early, faults>>

(* Mutant: any error is taken for a missing leader after the deadline. *)
MutantErrorDropsBuffer ==
  /\ pc = "wait"
  /\ error = "other"
  /\ error' = "none"
  /\ pending' = <<>>
  /\ pc' = AfterFlush
  /\ UNCHANGED <<log, acked, batch, own, count, outq, parts, topic, overdue, early, faults>>

(* Any other error is raised. *)
FlushRaises ==
  /\ pc = "wait"
  /\ error = "other"
  /\ Abort
  /\ UNCHANGED <<log, acked, count, outq, parts, topic, overdue, early, faults>>

Ack ==
  /\ pc = "ack"
  /\ acked' = acked \cup Pending
  /\ batch' = <<>>
  /\ own' = FALSE
  /\ pc' = "ready"
  /\ UNCHANGED <<log, pending, count, outq, error, parts, topic, overdue, early, faults>>

AckFails ==
  /\ Fault
  /\ pc = "ack"
  /\ \E n \in 0..(Len(batch) - 1) : acked' = acked \cup {batch[i] : i \in 1..n}
  /\ Abort
  /\ UNCHANGED <<log, count, outq, parts, topic, overdue, early>>

(* A worker that has nothing in hand is told to end. *)
Terminate ==
  /\ Fault
  /\ pc = "ready"
  /\ batch = <<>>
  /\ Abort
  /\ UNCHANGED <<log, acked, count, outq, parts, topic, overdue, early>>

(* stop() waits ten seconds for the producer; what is left then is lost. *)
Stopped ==
  /\ pc = "stopping"
  /\ pc' = "down"
  /\ outq' = <<>>
  /\ UNCHANGED <<log, acked, batch, pending, own, count, error, parts, topic, overdue, early, faults>>

Crash ==
  /\ Fault
  /\ pc # "down"
  /\ pc' = "down"
  /\ batch' = <<>> /\ pending' = <<>> /\ own' = FALSE /\ error' = "none"
  /\ outq' = <<>>
  /\ UNCHANGED <<log, acked, count, parts, topic, overdue, early>>

Work ==
  Start \/ Process \/ FlushIdle \/ ProduceAll \/ ProducerFlushed \/ Retry \/ GiveUp
    \/ FlushRaises \/ Ack \/ Stopped

Next ==
  \/ Publish \/ GrowTopic \/ Work
  \/ BrokerAccepts \/ BrokerReorders \/ BrokerRepeats
  \/ ResolveFails \/ LeaderMissing \/ BrokerRejects \/ AckFails \/ Terminate \/ Crash

Spec == Init /\ [][Next]_vars

(* The worker runs and the broker takes messages; failures are not fair. *)
FairSpec == Spec /\ WF_vars(Work) /\ WF_vars(BrokerAccepts)

-----------------------------------------------------------------------------
TypeOK ==
  /\ log \in Seq(Keys) /\ Len(log) <= MaxMsgs
  /\ acked \subseteq Msgs
  /\ pc \in {"down", "ready", "produce", "wait", "ack", "stopping"}
  /\ batch \in Seq(Msgs) /\ Len(batch) <= MaxBatch
  /\ pending \in Seq(Msgs) /\ Len(pending) <= SelfFlush
  /\ own \in BOOLEAN
  /\ count \in 0..MaxParts
  /\ outq \in Seq(Items)
  /\ error \in Errors
  /\ parts \in Parts..MaxParts
  /\ topic \in [Partitions -> Seq(Msgs)]
  /\ overdue \subseteq Msgs /\ early \subseteq Msgs
  /\ faults \in 0..MaxFaults

Delivered == UNION {Range(topic[p]) : p \in Partitions}

(***************************************************************************)
(* An event that is settled is in the topic, unless a flush let it go      *)
(* because its ten seconds were over: no other failure (an error, a crash, *)
(* a flush that process() started, a partial delivery) loses one.          *)
(***************************************************************************)
LostOnlyByDeadline == acked \subseteq Delivered \cup overdue

(***************************************************************************)
(* Unless the topic is grown, all messages of a key are in one partition:  *)
(* _resolve_partition_count must not guess when the metadata cannot be     *)
(* read, and the count must be the same after a restart.                   *)
(***************************************************************************)
OnePartitionPerKey ==
  parts = Parts => \A p, q \in Partitions : \A m \in Range(topic[p]), n \in Range(topic[q]) :
                     log[m] = log[n] => p = q

(* Event m is in partition p, and no message of its row comes after it. *)
EndsWith(p, m) ==
  \E i \in DOMAIN topic[p] :
    topic[p][i] = m /\ \A j \in DOMAIN topic[p] : j > i => log[topic[p][j]] # log[m]

(***************************************************************************)
(* The newest event of a row is its last message from the moment it is     *)
(* settled, unless a flush let it go or it overtook a message of its row   *)
(* that librdkafka was sending again: no older message of the row comes    *)
(* after it in the topic or is still in line, whatever was sent twice,     *)
(* failed in part or was left in line by an earlier flush.                 *)
(***************************************************************************)
NewestLast ==
  parts = Parts =>
    \A m \in acked \ (overdue \cup early) :
      (\A n \in DOMAIN log : n > m => log[n] # log[m])
        => /\ \E p \in Partitions : EndsWith(p, m)
           /\ \A i \in DOMAIN outq : log[outq[i].m] # log[m]

(* Every event is settled in the end. *)
EventuallySettled == <>[](acked = DOMAIN log)
=============================================================================
