----------------------------- MODULE JetStream -----------------------------
(***************************************************************************)
(* The NATS JetStream durable consumer that EDS binds to, as src/ uses it: *)
(* the "dbchange" stream, and one durable pull consumer with explicit      *)
(* acks, ack_wait, max_deliver and max_ack_pending                         *)
(* (eds/consumer/consumer.py, Consumer.create).  The server itself is not  *)
(* part of the repository, so everything here is external.                 *)
(*                                                                         *)
(* A message is identified by its stream sequence, its position in log.    *)
(* What the worker tells apart is the row it changes (key) and whether the *)
(* processor will write it, skip it or choke on it (kind).                 *)
(***************************************************************************)
EXTENDS Naturals, Sequences, FiniteSets

CONSTANTS
  Keys,           \* the primary keys the change events are about
  MaxMsgs,        \* bound: change events published to the stream
  MaxDeliver,     \* max_deliver of the durable (20 in the code)
  MaxAckPending   \* max_ack_pending of the durable (batch_max in the code)

ASSUME JetStreamAssumption ==
  /\ MaxMsgs \in Nat
  /\ MaxDeliver \in Nat \ {0}
  /\ MaxAckPending \in Nat \ {0}

(***************************************************************************)
(* "row": written by the driver.  "skip": should_skip answers True (export *)
(* cutoff or schema validator).  "bad": cannot be decoded, so the          *)
(* processor raises on every delivery.                                     *)
(***************************************************************************)
Kinds == {"row", "skip", "bad"}
Msgs == 1..MaxMsgs

VARIABLES
  log,      \* the stream: a sequence of change events
  cursor,   \* stream sequence of the last message delivered at least once
  rdq,      \* messages waiting for redelivery, in redelivery order
  out,      \* delivered, not acked and not waiting for redelivery
  acked,    \* messages whose ack the server has received
  dseq,     \* delivered.consumer_seq: deliveries made so far
  tries,    \* num_delivered of each message
  lastSeq   \* consumer sequence of each message's latest delivery

jsVars == <<log, cursor, rdq, out, acked, dseq, tries, lastSeq>>

Events == [key : Keys, kind : Kinds]
(* What the worker gets: a message under a consumer sequence number. *)
Deliveries == [seq : Nat, msg : Msgs]

JSInit ==
  /\ log = <<>>
  /\ cursor = 0
  /\ rdq = <<>>
  /\ out = {}
  /\ acked = {}
  /\ dseq = 0
  /\ tries = [s \in Msgs |-> 0]
  /\ lastSeq = [s \in Msgs |-> 0]

(* The CDC source appends a change event to the stream. *)
Publish(k, kind) ==
  /\ Len(log) < MaxMsgs
  /\ log' = Append(log, [key |-> k, kind |-> kind])
  /\ UNCHANGED <<cursor, rdq, out, acked, dseq, tries, lastSeq>>

(* Redeliveries go out before new messages, and only a new message is held *)
(* back by max_ack_pending.                                                *)
CanDeliver(s) ==
  IF rdq # <<>>
  THEN s = Head(rdq)
  ELSE /\ s = cursor + 1
       /\ s <= Len(log)
       /\ Cardinality(out) < MaxAckPending

(* Message s goes out under the next consumer sequence. *)
Deliver(s) ==
  /\ CanDeliver(s)
  /\ rdq' = IF rdq # <<>> THEN Tail(rdq) ELSE rdq
  /\ cursor' = IF rdq # <<>> THEN cursor ELSE s
  /\ out' = out \cup {s}
  /\ dseq' = dseq + 1
  /\ tries' = [tries EXCEPT ![s] = @ + 1]
  /\ lastSeq' = [lastSeq EXCEPT ![s] = dseq + 1]
  /\ UNCHANGED <<log, acked>>

(* q with the first occurrence of s taken out. *)
Without(q, s) ==
  IF \E i \in 1..Len(q) : q[i] = s
  THEN LET i == CHOOSE j \in 1..Len(q) : q[j] = s
       IN  SubSeq(q, 1, i - 1) \o SubSeq(q, i + 1, Len(q))
  ELSE q

(* The server receives an ack: the message is settled, even when ack_wait  *)
(* had already put it back in line.                                        *)
ReceiveAck(s) ==
  /\ acked' = acked \cup {s}
  /\ out' = out \ {s}
  /\ rdq' = Without(rdq, s)
  /\ UNCHANGED <<log, cursor, dseq, tries, lastSeq>>

(* A nak or an expiry: the message is put in line again unless it has used *)
(* up its deliveries, in which case the server gives it up.                *)
Requeue(s) ==
  /\ out' = out \ {s}
  /\ rdq' = IF s \in out /\ tries[s] < MaxDeliver THEN Append(rdq, s) ELSE rdq
  /\ UNCHANGED <<log, cursor, acked, dseq, tries, lastSeq>>

(* ack_wait runs out first for the message delivered longest ago. *)
Oldest(s) == s \in out /\ \A t \in out : lastSeq[s] <= lastSeq[t]

(* Delivered max_deliver times and never acked: it is not delivered again. *)
Exhausted(s) ==
  /\ s <= cursor
  /\ s \notin acked \cup out
  /\ \A i \in 1..Len(rdq) : rdq[i] # s

JSTypeOK ==
  /\ log \in Seq(Events) /\ Len(log) <= MaxMsgs
  /\ cursor \in 0..Len(log)
  /\ rdq \in Seq(Msgs)
  /\ out \subseteq Msgs
  /\ acked \subseteq Msgs
  /\ dseq \in Nat
  /\ tries \in [Msgs -> Nat]
  /\ lastSeq \in [Msgs -> Nat]
=============================================================================
