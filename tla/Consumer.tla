------------------------------ MODULE Consumer ------------------------------
(***************************************************************************)
(* The streaming worker: the JetStream consumer, its fetch loop, the       *)
(* bounded queue, the bufferer, the batch processor and the fork process   *)
(* around them (eds/consumer/{consumer,bufferer,batch_processor,config}.py *)
(* and eds/cmd/fork.py), on top of the durable (JetStream) and of a        *)
(* destination driver (Driver).                                            *)
(*                                                                         *)
(* The tasks of the event loop are the fetch loop, the bufferer, a stop()  *)
(* and the fork's control loop.  A step of the model is what one of them   *)
(* does between two places where another one, a disconnect or a crash can  *)
(* make a difference.  Time is abstracted: a latency or a timeout that may *)
(* have elapsed is a choice.                                               *)
(***************************************************************************)
EXTENDS JetStream, Driver

CONSTANTS
  QueueCap,     \* capacity of the buffer queue: the raw max_ack_pending
  FetchBatch,   \* messages one fetch may return: max_pending_buffer
  MaxFaults     \* bound: disturbances (failures, crashes, control commands)

ASSUME ConsumerAssumption ==
  /\ QueueCap \in Nat \ {0}
  /\ FetchBatch \in Nat \ {0}
  /\ MaxFaults \in Nat

(* batch_max: the durable's max_ack_pending is also the flush threshold. *)
BatchMax == MaxAckPending

VARIABLES
  up,         \* the fork process is running
  conn,       \* its NATS connection: "up", "lost" or "closed"
  psub,       \* the pull subscription: "none", "open", or "closed" by stop()
  fetched,    \* deliveries inside the fetch loop, not yet on the queue
  queue,      \* the asyncio queue: deliveries, and the drain sentinel
  buf,        \* where the bufferer is, or how it ended
  sequence,   \* consumer sequence of the last message processed
  pending,    \* the batch: deliveries to ack after the next flush
  started,    \* pending_started is set
  acks,       \* acks sent so far by the current flush
  gap,        \* history: a pause dropped deliveries inside a fetch
  stopper,    \* who runs Consumer.stop(): "none", "fork" or "self"
  stopPc,     \* where that stop() is
  faults      \* disturbances still allowed

wrkVars == <<up, conn, psub, fetched, queue, buf, sequence, pending, started,
             acks, gap, stopper, stopPc>>
stopVars == <<stopper, stopPc>>
vars == <<jsVars, drvVars, wrkVars, faults>>

Running == {"run", "flush", "finalFlush", "ack", "finalAck", "nakFatal", "nakStop"}

(* How a bufferer ends: after the sentinel's flush and acks, on a fatal     *)
(* error, on a clean stop, or cancelled by stop() after its ten seconds.    *)
Ended == {"drained", "failed", "stopped", "cut"}

(* The graceful-drain sentinel (None in the code). *)
Sentinel == [seq |-> 0, msg |-> 0]

Fault == faults > 0 /\ faults' = faults - 1

(* No process: everything the worker keeps in memory is gone. *)
Gone ==
  /\ up' = FALSE
  /\ conn' = "closed"
  /\ psub' = "none"
  /\ fetched' = <<>>
  /\ queue' = <<>>
  /\ buf' = "off"
  /\ sequence' = 0
  /\ pending' = <<>>
  /\ started' = FALSE
  /\ acks' = 0
  /\ gap' = FALSE
  /\ stopper' = "none"
  /\ stopPc' = "idle"

Init ==
  /\ JSInit
  /\ DriverInit(Keys)
  /\ up = FALSE
  /\ conn = "closed"
  /\ psub = "none"
  /\ fetched = <<>>
  /\ queue = <<>>
  /\ buf = "off"
  /\ sequence = 0
  /\ pending = <<>>
  /\ started = FALSE
  /\ acks = 0
  /\ gap = FALSE
  /\ stopper = "none"
  /\ stopPc = "idle"
  /\ faults = MaxFaults

-----------------------------------------------------------------------------
(***************************************************************************)
(* Operators named Mutant... are plausible faults of the definition that   *)
(* follows them.  No specification uses them: each shows that some         *)
(* property notices when the code is wrong in that way.                    *)
(***************************************************************************)

(* Mutant: the durable's position is not read back. *)
MutantCreateFromZero ==
  /\ ~up
  /\ up' = TRUE /\ conn' = "up" /\ psub' = "open" /\ buf' = "run"
  /\ sequence' = 0
  /\ UNCHANGED <<jsVars, drvVars, fetched, queue, pending, started, acks,
                 stopVars, faults, gap>>

(* Startup: Consumer.create and start.  The expected sequence is taken from *)
(* the durable, so deliveries made to an earlier process are not missed.    *)
Create ==
  /\ ~up
  /\ up' = TRUE
  /\ conn' = "up"
  /\ psub' = "open"
  /\ buf' = "run"
  /\ queue' = <<>>
  /\ sequence' = dseq
  /\ pending' = <<>>
  /\ started' = FALSE
  /\ UNCHANGED <<jsVars, drvVars, fetched, acks, stopVars, faults, gap>>

(* The change data capture source publishes an event. *)
PublishEvent ==
  /\ \E k \in Keys, kind \in Kinds : Publish(k, kind)
  /\ UNCHANGED <<drvVars, wrkVars, faults>>

(* The server answers the fetch with one more message. *)
Fetch ==
  /\ psub = "open"
  /\ conn = "up"
  /\ Len(fetched) < FetchBatch
  /\ \E s \in Msgs :
       /\ Deliver(s)
       /\ fetched' = Append(fetched, [seq |-> dseq + 1, msg |-> s])
  /\ UNCHANGED <<drvVars, up, conn, psub, queue, buf, sequence, pending,
                 started, acks, stopVars, faults, gap>>

(* The fetch loop puts a message on the bounded queue. *)
Enqueue ==
  /\ fetched # <<>>
  /\ Len(queue) < QueueCap
  /\ queue' = Append(queue, Head(fetched))
  /\ fetched' = Tail(fetched)
  /\ UNCHANGED <<jsVars, drvVars, up, conn, psub, buf, sequence, pending,
                 started, acks, stopVars, faults, gap>>

-----------------------------------------------------------------------------
(* The bufferer and BatchProcessor.process_message. *)

(* The next queue item is message m, in the expected place. *)
InOrder(m) == m.seq = sequence + 1

(* An ack sent on a live connection reaches the server; on a lost one it is *)
(* swallowed by the client's reconnect buffer.                              *)
SendAck(s) == IF conn = "up" THEN ReceiveAck(s) ELSE UNCHANGED jsVars

(* Out-of-order delivery: the message joins the batch and all of it is      *)
(* nak'd.                                                                   *)
OutOfOrder ==
  /\ buf = "run" /\ queue # <<>> /\ Head(queue) # Sentinel
  /\ ~InOrder(Head(queue))
  /\ queue' = Tail(queue)
  /\ pending' = Append(pending, Head(queue))
  /\ buf' = "nakFatal"
  /\ UNCHANGED <<jsVars, drvVars, up, conn, psub, fetched, sequence, started,
                 acks, stopVars, faults, gap>>

(* Decoding fails, always ("bad"), or the registry, a migration or the      *)
(* driver's process() raises this time.                                     *)
ProcessFails ==
  /\ buf = "run" /\ queue # <<>> /\ Head(queue) # Sentinel
  /\ InOrder(Head(queue))
  /\ \/ log[Head(queue).msg].kind = "bad" /\ UNCHANGED faults
     \/ log[Head(queue).msg].kind = "row" /\ Fault
  /\ queue' = Tail(queue)
  /\ sequence' = Head(queue).seq
  /\ pending' = Append(pending, Head(queue))
  /\ buf' = "nakFatal"
  /\ UNCHANGED <<jsVars, drvVars, up, conn, psub, fetched, started, acks,
                 stopVars, gap>>

(* should_skip: acked on its own, decoupled from the batch. *)
SkipEvent ==
  /\ buf = "run" /\ queue # <<>> /\ Head(queue) # Sentinel
  /\ InOrder(Head(queue))
  /\ log[Head(queue).msg].kind = "skip"
  /\ queue' = Tail(queue)
  /\ sequence' = Head(queue).seq
  /\ SendAck(Head(queue).msg)
  /\ UNCHANGED <<drvVars, up, conn, psub, fetched, buf, pending, started,
                 acks, stopVars, faults, gap>>

(* Mutant: the batch is full only above its limit. *)
MutantProcessOneOver ==
  /\ buf = "run" /\ queue # <<>> /\ Head(queue) # Sentinel
  /\ InOrder(Head(queue))
  /\ log[Head(queue).msg].kind = "row"
  /\ queue' = Tail(queue)
  /\ sequence' = Head(queue).seq
  /\ pending' = Append(pending, Head(queue))
  /\ DriverProcess([key |-> log[Head(queue).msg].key, msg |-> Head(queue).msg])
  /\ \/ buf' = "flush" /\ UNCHANGED started
     \/ Len(pending) < BatchMax /\ started' = TRUE /\ UNCHANGED buf
  /\ UNCHANGED <<jsVars, up, conn, psub, fetched, acks, stopVars, faults,
                 gap>>

(* Mutant: the timer of the batch is never started. *)
MutantProcessNoTimer ==
  /\ buf = "run" /\ queue # <<>> /\ Head(queue) # Sentinel
  /\ InOrder(Head(queue))
  /\ log[Head(queue).msg].kind = "row"
  /\ queue' = Tail(queue)
  /\ sequence' = Head(queue).seq
  /\ pending' = Append(pending, Head(queue))
  /\ DriverProcess([key |-> log[Head(queue).msg].key, msg |-> Head(queue).msg])
  /\ \/ buf' = "flush"
     \/ Len(pending) + 1 < BatchMax /\ UNCHANGED buf
  /\ UNCHANGED <<jsVars, up, conn, psub, fetched, started, acks, stopVars,
                 faults, gap>>

(* The driver takes the event.  A full batch is flushed; so is one the      *)
(* driver, a migration or the latency limit asks to flush.                  *)
ProcessEvent ==
  /\ buf = "run" /\ queue # <<>> /\ Head(queue) # Sentinel
  /\ InOrder(Head(queue))
  /\ log[Head(queue).msg].kind = "row"
  /\ queue' = Tail(queue)
  /\ sequence' = Head(queue).seq
  /\ pending' = Append(pending, Head(queue))
  /\ DriverProcess([key |-> log[Head(queue).msg].key, msg |-> Head(queue).msg])
  /\ \/ buf' = "flush" /\ UNCHANGED started
     \/ Len(pending) + 1 < BatchMax /\ started' = TRUE /\ UNCHANGED buf
  /\ UNCHANGED <<jsVars, up, conn, psub, fetched, acks, stopVars, faults,
                 gap>>

(* on_idle: with the queue drained, a partial batch is flushed once it has  *)
(* waited long enough.                                                      *)
IdleFlush ==
  /\ buf = "run" /\ queue = <<>>
  /\ started /\ 0 < Len(pending) /\ Len(pending) < BatchMax
  /\ buf' = "flush"
  /\ UNCHANGED <<jsVars, drvVars, up, conn, psub, fetched, queue, sequence,
                 pending, started, acks, stopVars, faults, gap>>

(* The sentinel: one last flush. *)
TakeSentinel ==
  /\ buf = "run" /\ queue # <<>> /\ Head(queue) = Sentinel
  /\ queue' = Tail(queue)
  /\ buf' = "finalFlush"
  /\ UNCHANGED <<jsVars, drvVars, up, conn, psub, fetched, sequence, pending,
                 started, acks, stopVars, faults, gap>>

(* flush: the driver's flush returns, and the acks begin. *)
FlushReturns ==
  /\ buf \in {"flush", "finalFlush"}
  /\ \E o \in FlushOutcomes(dbuf) : o.ok /\ DriverFlush(o)
  /\ buf' = IF buf = "flush" THEN "ack" ELSE "finalAck"
  /\ acks' = 0
  /\ UNCHANGED <<jsVars, up, conn, psub, fetched, queue, sequence, pending,
                 started, stopVars, faults, gap>>

(* flush: the driver's flush raises, and the batch is nak'd.  The error is  *)
(* fatal, except that the final flush is best effort.                       *)
FlushRaises ==
  /\ buf \in {"flush", "finalFlush"}
  /\ Fault
  /\ \E o \in FlushOutcomes(dbuf) : ~o.ok /\ DriverFlush(o)
  /\ buf' = IF buf = "flush" THEN "nakFatal" ELSE "nakStop"
  /\ UNCHANGED <<jsVars, up, conn, psub, fetched, queue, sequence, pending,
                 started, acks, stopVars, gap>>

(* flush: one message of the batch is acked. *)
AckNext ==
  /\ buf \in {"ack", "finalAck"}
  /\ acks < Len(pending)
  /\ SendAck(pending[acks + 1].msg)
  /\ acks' = acks + 1
  /\ UNCHANGED <<drvVars, up, conn, psub, fetched, queue, buf, sequence,
                 pending, started, stopVars, faults, gap>>

(* flush: ack() raises (closed connection, full reconnect buffer): a clean  *)
(* stop that nobody is told of.                                             *)
AckRaises ==
  /\ buf \in {"ack", "finalAck"}
  /\ acks < Len(pending)
  /\ conn # "up"
  /\ buf' = "nakStop"
  /\ UNCHANGED <<jsVars, drvVars, up, conn, psub, fetched, queue, sequence,
                 pending, started, acks, stopVars, faults, gap>>

(* flush: the whole batch is acked; a new one begins. *)
AckDone ==
  /\ buf \in {"ack", "finalAck"}
  /\ acks = Len(pending)
  /\ pending' = <<>>
  /\ started' = FALSE
  /\ buf' = IF buf = "ack" THEN "run" ELSE "drained"
  /\ acks' = 0
  /\ UNCHANGED <<jsVars, drvVars, up, conn, psub, fetched, queue, sequence,
                 stopVars, faults, gap>>

-----------------------------------------------------------------------------
(* Mutant: the fetch loop keeps running. *)
MutantStopKeepsFetching(who) ==
  /\ stopper' = who
  /\ stopPc' = "sentinel"
  /\ UNCHANGED <<fetched, psub>>

(* Consumer.stop.  Whoever calls it first runs it; a second call returns at *)
(* once.  It cancels the fetch loop, which drops what a fetch holds.        *)
BeginStop(who) ==
  /\ stopper' = who
  /\ stopPc' = "sentinel"
  /\ fetched' = <<>>
  /\ psub' = IF psub = "open" THEN "closed" ELSE psub

(* Mutant: the batch of a failed event is acked, not nak'd. *)
MutantNakAcks ==
  /\ buf \in {"nakFatal", "nakStop"}
  /\ pending # <<>>
  /\ SendAck(Head(pending).msg)
  /\ pending' = Tail(pending)
  /\ UNCHANGED <<drvVars, up, conn, psub, fetched, queue, buf, sequence,
                 started, acks, stopVars, faults, gap>>

(* nack_everything: one nak of the batch. *)
NakNext ==
  /\ buf \in {"nakFatal", "nakStop"}
  /\ pending # <<>>
  /\ IF conn = "up" THEN Requeue(Head(pending).msg) ELSE UNCHANGED jsVars
  /\ pending' = Tail(pending)
  /\ UNCHANGED <<drvVars, up, conn, psub, fetched, queue, buf, sequence,
                 started, acks, stopVars, faults, gap>>

(* Mutant: a fatal error ends the bufferer and nothing else. *)
MutantFatalUnnoticed ==
  /\ buf \in {"nakFatal", "nakStop"}
  /\ pending = <<>>
  /\ started' = FALSE
  /\ buf' = IF buf = "nakFatal" THEN "failed" ELSE "stopped"
  /\ UNCHANGED <<jsVars, drvVars, up, conn, psub, fetched, queue, sequence,
                 pending, acks, stopVars, faults, gap>>

(* The batch is nak'd and the bufferer ends.  A fatal error is surfaced,    *)
(* and the consumer stops itself (_set_fatal).                              *)
NakDone ==
  /\ buf \in {"nakFatal", "nakStop"}
  /\ pending = <<>>
  /\ started' = FALSE
  /\ buf' = IF buf = "nakFatal" THEN "failed" ELSE "stopped"
  /\ IF buf = "nakFatal" /\ stopper = "none"
     THEN BeginStop("self")
     ELSE UNCHANGED <<stopper, stopPc, fetched, psub>>
  /\ UNCHANGED <<jsVars, drvVars, up, conn, queue, sequence, pending, acks,
                 faults, gap>>

(* The connection breaks. *)
Disconnect ==
  /\ conn = "up"
  /\ Fault
  /\ conn' = "lost"
  /\ UNCHANGED <<jsVars, drvVars, up, psub, fetched, queue, buf, sequence,
                 pending, started, acks, stopVars, gap>>

(* _disconnected_cb: unless it is already stopping, the consumer stops.     *)
DisconnectedCb ==
  /\ conn = "lost"
  /\ stopper = "none"
  /\ BeginStop("self")
  /\ UNCHANGED <<jsVars, drvVars, up, conn, queue, buf, sequence, pending,
                 started, acks, faults, gap>>

(* /control/pause: the fetch loop is cancelled, the bufferer goes on. *)
Pause ==
  /\ up
  /\ stopper # "fork"
  /\ psub # "none"
  /\ Fault
  /\ psub' = "none"
  /\ fetched' = <<>>
  /\ gap' = (gap \/ fetched # <<>>)
  /\ UNCHANGED <<jsVars, drvVars, up, conn, queue, buf, sequence, pending,
                 started, acks, stopper, stopPc>>

(* /control/unpause of a paused consumer. *)
Unpause ==
  /\ up
  /\ stopper # "fork"
  /\ psub = "none"
  /\ conn # "closed"
  /\ psub' = "open"
  /\ UNCHANGED <<jsVars, drvVars, up, conn, fetched, queue, buf, sequence,
                 pending, started, acks, stopVars, faults, gap>>

(* The fork ends the worker: SIGTERM, /control/restart, /control/shutdown,  *)
(* or /control/unpause of a consumer that is not paused, which raises out   *)
(* of the control loop.                                                     *)
Terminate ==
  /\ up
  /\ stopper = "none"
  /\ Fault
  /\ BeginStop("fork")
  /\ UNCHANGED <<jsVars, drvVars, up, conn, queue, buf, sequence, pending,
                 started, acks, gap>>

(* stop: the sentinel goes on the queue unless the bufferer has ended; on a *)
(* queue that stays full for five seconds it is given up.                   *)
StopSentinel ==
  /\ stopPc = "sentinel"
  /\ stopPc' = "wait"
  /\ IF buf \in Running /\ Len(queue) < QueueCap
     THEN queue' = Append(queue, Sentinel)
     ELSE UNCHANGED queue
  /\ UNCHANGED <<jsVars, drvVars, up, conn, psub, fetched, buf, sequence,
                 pending, started, acks, stopper, faults, gap>>

(* stop: the bufferer has ended, or is cancelled after ten seconds; the     *)
(* connection is closed.                                                    *)
StopWait ==
  /\ stopPc = "wait"
  /\ \/ buf \in Ended /\ UNCHANGED buf
     \/ buf \in Running /\ buf' = "cut"
  /\ stopPc' = "closed"
  /\ conn' = "closed"
  /\ UNCHANGED <<jsVars, drvVars, up, psub, fetched, queue, sequence, pending,
                 started, acks, stopper, gap, faults>>

(* The fork leaves its loop and the driver is stopped.  Its own stop() call *)
(* waits for the drain; when the consumer is already stopping itself, that  *)
(* call returns at once and the process ends whatever the drain has done.   *)
Exit ==
  /\ up
  /\ \/ stopper = "fork" /\ stopPc = "closed"
     \/ stopper = "self"
  /\ \E W \in StopWrites(dbuf) : DriverStop(W)
  /\ Gone
  /\ UNCHANGED <<jsVars, faults>>

(* The process is killed. *)
Crash ==
  /\ up
  /\ Fault
  /\ Gone
  /\ dbuf' = <<>>
  /\ UNCHANGED <<jsVars, written, dest>>

(* The worker still holds a delivery of message s. *)
Holds(s) ==
  \/ \E i \in 1..Len(fetched) : fetched[i].msg = s
  \/ \E i \in 1..Len(queue) : queue[i].msg = s
  \/ \E i \in 1..Len(pending) : pending[i].msg = s

(* ack_wait runs out for a message the worker has dropped... *)
ExpireDropped ==
  /\ \E s \in Msgs : Oldest(s) /\ ~Holds(s) /\ Requeue(s)
  /\ UNCHANGED <<drvVars, wrkVars, faults>>

(* ... or for one it is merely slow to settle. *)
ExpireHeld ==
  /\ \E s \in Msgs : Oldest(s) /\ Holds(s) /\ Requeue(s)
  /\ Fault
  /\ UNCHANGED <<drvVars, wrkVars>>

-----------------------------------------------------------------------------
Next ==
  \/ Create \/ PublishEvent \/ Fetch \/ Enqueue
  \/ OutOfOrder \/ ProcessFails \/ SkipEvent \/ ProcessEvent
  \/ IdleFlush \/ TakeSentinel \/ FlushReturns \/ FlushRaises
  \/ AckNext \/ AckRaises \/ AckDone \/ NakNext \/ NakDone
  \/ Disconnect \/ DisconnectedCb \/ Pause \/ Unpause \/ Terminate
  \/ StopSentinel \/ StopWait \/ Exit \/ Crash
  \/ ExpireDropped \/ ExpireHeld

Spec == Init /\ [][Next]_vars

(* The event loop runs its tasks, and the server delivers and redelivers.   *)
(* Failures, control commands, new events, the start of another worker and  *)
(* the end of a pause need never happen.                                    *)
Fairness ==
  /\ WF_vars(Fetch) /\ WF_vars(Enqueue)
  /\ WF_vars(OutOfOrder) /\ WF_vars(ProcessFails) /\ WF_vars(SkipEvent)
  /\ WF_vars(ProcessEvent) /\ WF_vars(IdleFlush) /\ WF_vars(TakeSentinel)
  /\ WF_vars(FlushReturns) /\ WF_vars(AckNext) /\ WF_vars(AckDone)
  /\ WF_vars(NakNext) /\ WF_vars(NakDone) /\ WF_vars(DisconnectedCb)
  /\ WF_vars(StopSentinel) /\ WF_vars(StopWait)
  /\ WF_vars(Exit) /\ WF_vars(ExpireDropped)

-----------------------------------------------------------------------------
(* Every variable has its type: among them, the sequence numbers and the   *)
(* batch counters never leave the range the code computes them in.         *)
FlagsTypeOK == up \in BOOLEAN /\ started \in BOOLEAN /\ gap \in BOOLEAN

PlacesTypeOK ==
  /\ conn \in {"up", "lost", "closed"}
  /\ psub \in {"none", "open", "closed"}
  /\ buf \in {"off"} \cup Running \cup Ended
  /\ stopper \in {"none", "fork", "self"}
  /\ stopPc \in {"idle", "sentinel", "wait", "closed"}

HeldTypeOK ==
  /\ fetched \in Seq(Deliveries)
  /\ queue \in Seq(Deliveries \cup {Sentinel})
  /\ pending \in Seq(Deliveries)
  /\ dbuf \in Seq([key : Keys, msg : Msgs])

CountsTypeOK ==
  /\ sequence \in Nat
  /\ acks \in Nat
  /\ faults \in 0..MaxFaults

DestTypeOK ==
  /\ written \subseteq Msgs
  /\ dest \in [Keys -> 0..MaxMsgs]

TypeOK ==
  /\ JSTypeOK
  /\ FlagsTypeOK
  /\ PlacesTypeOK
  /\ HeldTypeOK
  /\ CountsTypeOK
  /\ DestTypeOK

(* A message the server counts as done has either been skipped on purpose  *)
(* (should_skip) or has reached the destination: no crash, disconnect,     *)
(* failed flush, expiry, pause or stop lets flush() or stop() ack a row    *)
(* that was never written.                                                 *)
AckedIsDurable ==
  \A s \in acked :
    \/ log[s].kind = "skip"
    \/ log[s].kind = "row" /\ s \in written

(* The batch and the driver's buffer stay together: until flush() is done  *)
(* with the driver, every row of the batch is in the driver's buffer or    *)
(* already written, and while acks go out all of the batch is written.     *)
BatchIsBuffered ==
  /\ buf \in {"run", "flush", "finalFlush"} =>
       \A i \in 1..Len(pending) :
         \/ pending[i].msg \in written
         \/ \E j \in 1..Len(dbuf) : dbuf[j].msg = pending[i].msg
  /\ buf \in {"ack", "finalAck"} =>
       \A i \in 1..Len(pending) : pending[i].msg \in written

(* Deliveries travel from the server through the fetch loop and the queue  *)
(* to the processor without a gap, so that the strict sequence check in    *)
(* process_message can fail only after a pause dropped part of a fetch.    *)
HandoffInOrder ==
  buf \in Running /\ ~gap =>
    LET handoff == queue \o fetched
    IN  \A i \in 1..Len(handoff) :
          handoff[i] # Sentinel => handoff[i].seq = sequence + i

(* A partial batch is never out of reach of on_idle: whenever the bufferer *)
(* is between messages, a non-empty batch has its timer running and is     *)
(* below the limit that process_message flushes at.                        *)
NeverStranded ==
  buf = "run" /\ pending # <<>> => started /\ Len(pending) < BatchMax

(* A bufferer that ended by draining leaves nothing behind it: no message  *)
(* was put on the queue after the sentinel, and neither the batch nor the  *)
(* driver holds a row that was not flushed.                                *)
DrainLeavesNothing ==
  buf = "drained" => queue = <<>> /\ pending = <<>> /\ dbuf = <<>>

(* The promise as an abstract specification: each step of the worker       *)
(* publishes, writes rows, settles one event that may be settled, or       *)
(* changes nothing the outside can see.  Nothing settled is ever           *)
(* unsettled, and what should_skip answers for is never written.           *)
Promise == INSTANCE AtLeastOnce
  WITH Keys <- Keys, MaxMsgs <- MaxMsgs, log <- log, written <- written, acked <- acked
ImplementsPromise == Promise!Spec

(* The last row published for a key, or 0. *)
LastRow(k) ==
  LET rows == {s \in 1..Len(log) : log[s] = [key |-> k, kind |-> "row"]}
  IN  IF rows = {} THEN 0 ELSE CHOOSE s \in rows : \A t \in rows : t <= s

(* Every published message has been acked, and no copy of one is left in   *)
(* the worker or in the driver.                                            *)
Settled ==
  /\ \A s \in 1..Len(log) : s \in acked /\ ~Holds(s)
  /\ dbuf = <<>>

(* In upsert mode "the table always reflects the current state of your     *)
(* data": once every change has been settled, each row is the one its last *)
(* change made it.                                                         *)
TableCurrent == Settled => \A k \in Keys : dest[k] = LastRow(k)
=============================================================================
