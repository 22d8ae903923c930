--------------------------- MODULE ConsumerProofs ---------------------------
(***************************************************************************)
(* Proofs about the streaming worker, for any keys, any number of events,  *)
(* any driver kind, any queue and batch sizes and any number of faults.    *)
(***************************************************************************)
EXTENDS Consumer, SequenceTheorems, TLAPS

-----------------------------------------------------------------------------
(* The inductive invariant.  Its types are those of TypeOK narrowed from    *)
(* what a message may be to what has been published: every copy of a        *)
(* message, wherever it is, is a copy of a published one, and only rows are *)
(* in the driver, at the destination, or in a batch that can still be acked.*)

Pub == 1..Len(log)
Rows == {s \in Pub : log[s].kind = "row"}
CopiesOf(S) == [seq : Nat, msg : S]
Writes == [key : Keys, msg : Rows]

ServerInv ==
  /\ JSTypeOK
  /\ rdq \in Seq(Pub)
  /\ out \subseteq Pub
  /\ acked \subseteq Pub

(* The file driver keeps nothing back. *)
DriverInv ==
  /\ dbuf \in Seq(Writes)
  /\ written \subseteq Rows
  /\ dest \in [Keys -> 0..MaxMsgs]
  /\ Kind = "file" => dbuf = <<>>

HeldInv ==
  /\ fetched \in Seq(CopiesOf(Pub))
  /\ queue \in Seq(CopiesOf(Pub) \cup {Sentinel})
  /\ pending \in Seq(CopiesOf(Pub))

Ackable == {"run", "flush", "finalFlush", "ack", "finalAck"}

BatchOfRows == buf \in Ackable => pending \in Seq(CopiesOf(Rows))

IInv ==
  /\ ServerInv
  /\ DriverInv
  /\ HeldInv
  /\ FlagsTypeOK
  /\ PlacesTypeOK
  /\ CountsTypeOK
  /\ BatchOfRows
  /\ BatchIsBuffered
  /\ AckedIsDurable

-----------------------------------------------------------------------------
(* The durable. *)

(* Taking an element out of a sequence leaves a sequence of the same set. *)
LEMMA WithoutInSeq ==
  ASSUME NEW S, NEW q \in Seq(S), NEW s
  PROVE  Without(q, s) \in Seq(S)
<1>1. CASE \E i \in 1..Len(q) : q[i] = s
  <2> DEFINE k == CHOOSE j \in 1..Len(q) : q[j] = s
  <2>1. k \in 1..Len(q)
    BY <1>1
  <2> HIDE DEF k
  <2>2. SubSeq(q, 1, k - 1) \in Seq(S)
    BY <2>1, SubSeqProperties, LenProperties
  <2>3. SubSeq(q, k + 1, Len(q)) \in Seq(S)
    BY <2>1, SubSeqProperties, LenProperties
  <2>4. Without(q, s) = SubSeq(q, 1, k - 1) \o SubSeq(q, k + 1, Len(q))
    BY <1>1 DEF Without, k
  <2> QED
    BY <2>2, <2>3, <2>4, ConcatProperties
<1>2. CASE ~ \E i \in 1..Len(q) : q[i] = s
  BY <1>2 DEF Without
<1> QED
  BY <1>1, <1>2

(* Publishing keeps the server's state well formed and what is published    *)
(* stays published, as what it was.                                         *)
LEMMA PublishKeeps ==
  ASSUME ServerInv, NEW k \in Keys, NEW kind \in Kinds, Publish(k, kind)
  PROVE  /\ ServerInv'
         /\ Pub \subseteq Pub'
         /\ Rows \subseteq Rows'
         /\ \A s \in Pub : log'[s] = log[s]
<1> DEFINE e == [key |-> k, kind |-> kind]
<1>1. log \in Seq(Events) /\ e \in Events
  BY DEF ServerInv, JSTypeOK, Events
<1>2. /\ log' = Append(log, e)
      /\ log' \in Seq(Events)
      /\ Len(log') = Len(log) + 1
      /\ \A i \in 1..Len(log) : log'[i] = log[i]
  BY <1>1, AppendProperties DEF Publish
<1>3. Len(log) \in Nat
  BY <1>1, LenProperties
<1>4. Pub \subseteq Pub' /\ Rows \subseteq Rows' /\ \A s \in Pub : log'[s] = log[s]
  BY <1>2, <1>3 DEF Pub, Rows
<1>5. rdq' \in Seq(Pub')
  BY <1>4, SeqMonotonic DEF Publish, ServerInv
<1>6. JSTypeOK'
  BY <1>2, <1>3, JetStreamAssumption
     DEF ServerInv, JSTypeOK, Publish, JetStreamAssumption
<1> QED
  BY <1>4, <1>5, <1>6 DEF ServerInv, Publish

(* Only a published message is delivered. *)
LEMMA DeliverKeeps ==
  ASSUME ServerInv, NEW s \in Msgs, Deliver(s)
  PROVE  ServerInv' /\ s \in Pub /\ UNCHANGED <<log, acked>>
<1>1. /\ log \in Seq(Events) /\ Len(log) \in Nat /\ Len(log) <= MaxMsgs
      /\ cursor \in 0..Len(log)
      /\ dseq \in Nat /\ tries \in [Msgs -> Nat] /\ lastSeq \in [Msgs -> Nat]
  BY LenProperties DEF ServerInv, JSTypeOK
<1>2. s \in Pub /\ rdq' \in Seq(Pub) /\ cursor' \in 0..Len(log)
  <2>1. CASE rdq # <<>>
    BY <2>1, <1>1, HeadTailProperties DEF ServerInv, Deliver, CanDeliver, Pub
  <2>2. CASE rdq = <<>>
    BY <2>2, <1>1, JetStreamAssumption
       DEF ServerInv, Deliver, CanDeliver, Pub, Msgs, JetStreamAssumption
  <2> QED
    BY <2>1, <2>2
<1>3. UNCHANGED <<log, acked>> /\ Pub' = Pub
  BY DEF Deliver, Pub
<1>4. dseq' \in Nat /\ tries' \in [Msgs -> Nat] /\ lastSeq' \in [Msgs -> Nat]
  BY <1>1 DEF Deliver
<1>5. rdq' \in Seq(Msgs) /\ out' \subseteq Msgs
  <2>1. Pub \subseteq Msgs
    BY <1>1, JetStreamAssumption DEF Pub, Msgs, JetStreamAssumption
  <2> QED
    BY <1>2, <2>1, SeqMonotonic DEF ServerInv, Deliver
<1>6. JSTypeOK'
  BY <1>1, <1>2, <1>3, <1>4, <1>5 DEF ServerInv, JSTypeOK
<1> QED
  BY <1>2, <1>3, <1>6 DEF ServerInv, Deliver

(* A nak or an expiry settles nothing. *)
LEMMA RequeueKeeps ==
  ASSUME ServerInv, NEW s \in Pub, Requeue(s)
  PROVE  ServerInv' /\ UNCHANGED <<log, acked>>
<1>1. UNCHANGED <<log, acked>> /\ Pub' = Pub
  BY DEF Requeue, Pub
<1>2. rdq' \in Seq(Pub)
  BY AppendProperties DEF ServerInv, Requeue
<1>3. Pub \subseteq Msgs
  BY LenProperties, JetStreamAssumption
     DEF ServerInv, JSTypeOK, Pub, Msgs, JetStreamAssumption
<1>4. rdq' \in Seq(Msgs)
  BY <1>2, <1>3, SeqMonotonic
<1> QED
  BY <1>1, <1>2, <1>4 DEF ServerInv, JSTypeOK, Requeue

(* An ack settles its message and no other. *)
LEMMA SendAckKeeps ==
  ASSUME ServerInv, NEW s \in Pub, SendAck(s)
  PROVE  ServerInv' /\ UNCHANGED log /\ acked' \in {acked, acked \cup {s}}
<1>1. CASE conn = "up"
  <2>1. UNCHANGED log /\ Pub' = Pub /\ acked' = acked \cup {s}
    BY <1>1 DEF SendAck, ReceiveAck, Pub
  <2>2. rdq' \in Seq(Pub)
    BY <1>1, WithoutInSeq DEF SendAck, ReceiveAck, ServerInv
  <2>3. Pub \subseteq Msgs
    BY LenProperties, JetStreamAssumption
       DEF ServerInv, JSTypeOK, Pub, Msgs, JetStreamAssumption
  <2>4. rdq' \in Seq(Msgs)
    BY <2>2, <2>3, SeqMonotonic
  <2> QED
    BY <1>1, <2>1, <2>2, <2>3, <2>4
       DEF ServerInv, JSTypeOK, SendAck, ReceiveAck
<1>2. CASE conn # "up"
  BY <1>2 DEF SendAck, jsVars, ServerInv, JSTypeOK, Pub
<1> QED
  BY <1>1, <1>2

(* Nothing changes at the server, and nothing is taken back at the          *)
(* destination.                                                             *)
LEMMA ServerFrame ==
  ASSUME ServerInv, AckedIsDurable, UNCHANGED jsVars, written \subseteq written'
  PROVE  ServerInv' /\ AckedIsDurable' /\ Pub' = Pub /\ Rows' = Rows
<1>1. ServerInv' /\ Pub' = Pub /\ Rows' = Rows
  BY DEF ServerInv, JSTypeOK, jsVars, Pub, Rows
<1> QED
  BY <1>1 DEF AckedIsDurable, jsVars

-----------------------------------------------------------------------------
(* The driver. *)

LEMMA DriverFrame ==
  ASSUME DriverInv, UNCHANGED drvVars, Rows' = Rows
  PROVE  DriverInv'
BY DEF DriverInv, drvVars, Writes

(* A write adds the messages it names, all of them rows. *)
LEMMA DriverWriteAdds ==
  ASSUME ServerInv, DriverInv, Rows' = Rows,
         NEW b \in Seq(Writes), NEW W \in SUBSET (1..Len(b)), DriverWrite(b, W)
  PROVE  /\ written' = written \cup {b[i].msg : i \in W}
         /\ written' \subseteq Rows'
         /\ dest' \in [Keys -> 0..MaxMsgs]
<1>1. \A i \in 1..Len(b) : b[i].msg \in Rows
  <2>1. \A i \in 1..Len(b) : b[i] \in Writes
    BY LenProperties
  <2> QED
    BY <2>1 DEF Writes
<1>2. Rows \subseteq 0..MaxMsgs
  BY LenProperties, JetStreamAssumption
     DEF ServerInv, JSTypeOK, Pub, Rows, JetStreamAssumption
<1>3. ASSUME NEW k \in Keys
      PROVE  dest'[k] \in 0..MaxMsgs
  <2>1. CASE \E i \in W : LastTouch(b, W, k, i)
    <3> DEFINE c == CHOOSE i \in W : LastTouch(b, W, k, i)
    <3>1. c \in W
      BY <2>1
    <3>2. dest'[k] = b[c].msg
      BY <2>1 DEF DriverWrite, DriverInv
    <3> QED
      BY <1>1, <1>2, <3>1, <3>2
  <2>2. CASE ~ \E i \in W : LastTouch(b, W, k, i)
    BY <2>2 DEF DriverWrite, DriverInv
  <2> QED
    BY <2>1, <2>2
<1>4. dest' \in [Keys -> 0..MaxMsgs]
  BY <1>3 DEF DriverWrite, DriverInv
<1> QED
  BY <1>1, <1>4 DEF DriverWrite, DriverInv

(* A flush never writes what is not in the buffer, and one that returns has *)
(* written all of it, except for the file driver, whose buffer is empty.    *)
LEMMA FlushOutcomesSound ==
  ASSUME NEW b, Len(b) \in Nat, NEW o \in FlushOutcomes(b)
  PROVE  /\ o.wrote \in SUBSET (1..Len(b))
         /\ o.ok => Kind = "file" \/ o.wrote = 1..Len(b)
<1>1. ASSUME o \in Returned(b)
      PROVE  o.wrote = 1..Len(b)
  BY <1>1 DEF Returned
<1>2. ASSUME NEW S \in SUBSET (SUBSET (1..Len(b))), NEW K, o \in Raised(b, S, K)
      PROVE  o.wrote \in SUBSET (1..Len(b)) /\ o.ok = FALSE
  BY <1>2 DEF Raised
<1>3. Prefixes(b) \in SUBSET (SUBSET (1..Len(b)))
  BY DEF Prefixes
<1>4. CASE Kind = "sql"
  <2>1. {{}, 1..Len(b)} \in SUBSET (SUBSET (1..Len(b)))
    OBVIOUS
  <2> QED
    BY <1>1, <1>2, <1>4, <2>1 DEF FlushOutcomes, SqlFlush
<1>5. CASE Kind = "s3"
  BY <1>1, <1>2, <1>5 DEF FlushOutcomes, S3Flush
<1>6. CASE Kind = "eventhub"
  BY <1>1, <1>2, <1>3, <1>6 DEF FlushOutcomes, EventhubFlush
<1>7. CASE Kind = "file"
  BY <1>7 DEF FlushOutcomes, FileFlush
<1> QED
  BY <1>4, <1>5, <1>6, <1>7, KindAssumption DEF KindAssumption

LEMMA DriverFlushKeeps ==
  ASSUME ServerInv, DriverInv, Rows' = Rows,
         NEW o \in FlushOutcomes(dbuf), DriverFlush(o)
  PROVE  /\ DriverInv'
         /\ written \subseteq written'
         /\ o.ok => \A j \in 1..Len(dbuf) : dbuf[j].msg \in written'
<1>1. dbuf \in Seq(Writes) /\ Len(dbuf) \in Nat
  BY LenProperties DEF DriverInv
<1>2. o.wrote \in SUBSET (1..Len(dbuf)) /\ (o.ok => Kind = "file" \/ o.wrote = 1..Len(dbuf))
  BY <1>1, FlushOutcomesSound
<1>3. /\ written' = written \cup {dbuf[i].msg : i \in o.wrote}
      /\ written' \subseteq Rows'
      /\ dest' \in [Keys -> 0..MaxMsgs]
  BY <1>1, <1>2, DriverWriteAdds DEF DriverFlush
<1>4. DriverInv'
  BY <1>1, <1>3, EmptySeq DEF DriverInv, DriverFlush, Writes
<1>5. o.ok => \A j \in 1..Len(dbuf) : dbuf[j].msg \in written'
  BY <1>2, <1>3, EmptySeq DEF DriverInv
<1> QED
  BY <1>3, <1>4, <1>5

LEMMA DriverStopKeeps ==
  ASSUME ServerInv, DriverInv, Rows' = Rows,
         NEW W \in StopWrites(dbuf), DriverStop(W)
  PROVE  DriverInv' /\ written \subseteq written'
<1>1. dbuf \in Seq(Writes) /\ Len(dbuf) \in Nat
  BY LenProperties DEF DriverInv
<1>2. W \in SUBSET (1..Len(dbuf))
  BY <1>1 DEF StopWrites, Prefixes
<1>3. /\ written' = written \cup {dbuf[i].msg : i \in W}
      /\ written' \subseteq Rows'
      /\ dest' \in [Keys -> 0..MaxMsgs]
  BY <1>1, <1>2, DriverWriteAdds DEF DriverStop
<1> QED
  BY <1>3, EmptySeq DEF DriverInv, DriverStop, Writes

(* process(): what the driver takes is in its buffer or written. *)
LEMMA DriverProcessKeeps ==
  ASSUME ServerInv, DriverInv, Rows' = Rows, NEW e \in Writes, DriverProcess(e)
  PROVE  /\ DriverInv'
         /\ written \subseteq written'
         /\ e.msg \in written' \/ \E j \in 1..Len(dbuf') : dbuf'[j].msg = e.msg
         /\ \A j \in 1..Len(dbuf) : \E i \in 1..Len(dbuf') : dbuf'[i] = dbuf[j]
<1>1. dbuf \in Seq(Writes) /\ Len(dbuf) \in Nat
  BY LenProperties DEF DriverInv
<1>2. CASE Kind = "file"
  <2>1. <<e>> \in Seq(Writes) /\ Len(<<e>>) = 1 /\ <<e>>[1] = e
    OBVIOUS
  <2>2. /\ written' = written \cup {<<e>>[i].msg : i \in {1}}
        /\ written' \subseteq Rows'
        /\ dest' \in [Keys -> 0..MaxMsgs]
    <3>1. {1} \in SUBSET (1..Len(<<e>>)) /\ DriverWrite(<<e>>, {1})
      BY <1>2, <2>1 DEF DriverProcess
    <3> QED
      BY <2>1, <3>1, DriverWriteAdds
  <2>3. dbuf' = dbuf
    BY <1>2 DEF DriverProcess
  <2> QED
    BY <1>1, <2>1, <2>2, <2>3 DEF DriverInv, Writes
<1>3. CASE Kind # "file"
  <2>1. dbuf' = Append(dbuf, e) /\ UNCHANGED <<written, dest>>
    BY <1>3 DEF DriverProcess
  <2>2. /\ dbuf' \in Seq(Writes)
        /\ Len(dbuf') = Len(dbuf) + 1
        /\ \A i \in 1..Len(dbuf) : dbuf'[i] = dbuf[i]
        /\ dbuf'[Len(dbuf) + 1] = e
    BY <1>1, <2>1, AppendProperties
  <2>3. DriverInv'
    BY <1>3, <2>1, <2>2 DEF DriverInv, Writes
  <2> QED
    BY <1>1, <2>1, <2>2, <2>3
<1> QED
  BY <1>2, <1>3

-----------------------------------------------------------------------------
(* The worker. *)

(* The batch, the driver's buffer and the destination are left alone, and   *)
(* the bufferer does not come closer to an ack.                             *)
LEMMA BatchFrame ==
  ASSUME BatchOfRows, BatchIsBuffered, Rows' = Rows,
         UNCHANGED <<pending, dbuf, written>>,
         \/ buf' = buf
         \/ buf' \notin Ackable
         \/ buf = "run" /\ buf' \in {"flush", "finalFlush"}
  PROVE  BatchOfRows' /\ BatchIsBuffered'
BY DEF BatchOfRows, BatchIsBuffered, Ackable, CopiesOf

(* Whatever is taken off a non-empty queue of the worker. *)
LEMMA TakeHead ==
  ASSUME HeldInv, queue # <<>>
  PROVE  /\ Tail(queue) \in Seq(CopiesOf(Pub) \cup {Sentinel})
         /\ Head(queue) # Sentinel => Head(queue) \in CopiesOf(Pub)
BY HeadTailProperties DEF HeldInv

LEMMA InitKeeps == Init => IInv
<1> SUFFICES ASSUME Init PROVE IInv
  OBVIOUS
<1> USE JetStreamAssumption, KindAssumption, ConsumerAssumption, EmptySeq
    DEF JetStreamAssumption, KindAssumption, ConsumerAssumption
<1>1. ServerInv
  BY DEF Init, JSInit, JSTypeOK, Msgs, ServerInv
<1>2. DriverInv
  BY DEF Init, DriverInit, DriverInv
<1>3. HeldInv /\ CountsTypeOK
  BY DEF Init, HeldInv, CountsTypeOK
<1>4. FlagsTypeOK
  BY DEF Init, FlagsTypeOK
<1>5. PlacesTypeOK
  BY DEF Init, PlacesTypeOK
<1>6. BatchOfRows /\ BatchIsBuffered /\ AckedIsDurable
  BY DEF Init, JSInit, BatchOfRows, Ackable, BatchIsBuffered, AckedIsDurable
<1> QED
  BY <1>1, <1>2, <1>3, <1>4, <1>5, <1>6 DEF IInv

(* A fresh worker has nothing to answer for. *)
LEMMA CreateKeeps == IInv /\ Create => IInv'
<1> SUFFICES ASSUME IInv, Create PROVE IInv'
  OBVIOUS
<1>1. ServerInv' /\ AckedIsDurable' /\ Pub' = Pub /\ Rows' = Rows
  BY ServerFrame DEF IInv, Create, drvVars
<1>2. DriverInv'
  BY <1>1, DriverFrame DEF IInv, Create
<1>3. HeldInv'
  BY <1>1, EmptySeq DEF IInv, HeldInv, Create
<1>4. FlagsTypeOK'
  BY DEF IInv, FlagsTypeOK, Create
<1>5. PlacesTypeOK' /\ CountsTypeOK'
  BY DEF IInv, PlacesTypeOK, CountsTypeOK, ServerInv, JSTypeOK, Create,
         stopVars, Running
<1>6. BatchOfRows' /\ BatchIsBuffered'
  BY EmptySeq DEF BatchOfRows, BatchIsBuffered, Create
<1> QED
  BY <1>1, <1>2, <1>3, <1>4, <1>5, <1>6 DEF IInv

(* Publishing changes no copy of a message that was there before. *)
LEMMA PublishEventKeeps == IInv /\ PublishEvent => IInv'
<1> SUFFICES ASSUME IInv, PublishEvent PROVE IInv'
  OBVIOUS
<1>1. PICK k \in Keys, kind \in Kinds : Publish(k, kind)
  BY DEF PublishEvent
<1>2. /\ ServerInv'
      /\ Pub \subseteq Pub' /\ Rows \subseteq Rows'
      /\ \A s \in Pub : log'[s] = log[s]
  BY <1>1, PublishKeeps DEF IInv
<1>3. UNCHANGED <<drvVars, wrkVars, faults, acked>>
  BY <1>1 DEF PublishEvent, Publish
<1>4. DriverInv'
  <2>1. Writes \subseteq Writes'
    BY <1>2 DEF Writes
  <2>2. dbuf \in Seq(Writes')
    BY <2>1, SeqMonotonic DEF IInv, DriverInv
  <2> QED
    BY <1>2, <1>3, <2>2 DEF IInv, DriverInv, drvVars
<1>5. HeldInv'
  <2>1. CopiesOf(Pub) \subseteq CopiesOf(Pub')
    BY <1>2 DEF CopiesOf
  <2>2. CopiesOf(Pub) \cup {Sentinel} \subseteq CopiesOf(Pub') \cup {Sentinel}
    BY <2>1
  <2> QED
    BY <1>3, <2>1, <2>2, SeqMonotonic DEF IInv, HeldInv, wrkVars
<1>6. FlagsTypeOK' /\ PlacesTypeOK' /\ CountsTypeOK'
  BY <1>3 DEF IInv, FlagsTypeOK, PlacesTypeOK, CountsTypeOK, wrkVars
<1>7. BatchOfRows' /\ BatchIsBuffered'
  <2>1. CopiesOf(Rows) \subseteq CopiesOf(Rows')
    BY <1>2 DEF CopiesOf
  <2>2. BatchOfRows'
    BY <1>3, <2>1, SeqMonotonic DEF IInv, BatchOfRows, wrkVars
  <2>3. BatchIsBuffered'
    BY <1>3 DEF IInv, BatchIsBuffered, wrkVars, drvVars
  <2> QED
    BY <2>2, <2>3
<1>8. AckedIsDurable'
  BY <1>2, <1>3 DEF IInv, AckedIsDurable, ServerInv, drvVars
<1> QED
  BY <1>2, <1>4, <1>5, <1>6, <1>7, <1>8 DEF IInv

LEMMA FetchKeeps == IInv /\ Fetch => IInv'
<1> SUFFICES ASSUME IInv, Fetch PROVE IInv'
  OBVIOUS
<1>1. PICK s \in Msgs :
        Deliver(s) /\ fetched' = Append(fetched, [seq |-> dseq + 1, msg |-> s])
  BY DEF Fetch
<1>2. ServerInv' /\ s \in Pub /\ UNCHANGED <<log, acked>>
  BY <1>1, DeliverKeeps DEF IInv
<1>3. Pub' = Pub /\ Rows' = Rows
  BY <1>2 DEF Pub, Rows
<1>4. DriverInv'
  BY <1>3, DriverFrame DEF IInv, Fetch
<1>5. HeldInv'
  <2>1. [seq |-> dseq + 1, msg |-> s] \in CopiesOf(Pub)
    BY <1>2 DEF IInv, ServerInv, JSTypeOK, CopiesOf
  <2> QED
    BY <1>1, <1>3, <2>1, AppendProperties DEF IInv, HeldInv, Fetch
<1>6. FlagsTypeOK' /\ PlacesTypeOK' /\ CountsTypeOK'
  BY DEF IInv, FlagsTypeOK, PlacesTypeOK, CountsTypeOK, Fetch, stopVars
<1>7. BatchOfRows' /\ BatchIsBuffered'
  BY <1>3, BatchFrame DEF IInv, Fetch, drvVars
<1>8. AckedIsDurable'
  BY <1>2 DEF IInv, AckedIsDurable, Fetch, drvVars
<1> QED
  BY <1>2, <1>4, <1>5, <1>6, <1>7, <1>8 DEF IInv

LEMMA EnqueueKeeps == IInv /\ Enqueue => IInv'
<1> SUFFICES ASSUME IInv, Enqueue PROVE IInv'
  OBVIOUS
<1>1. ServerInv' /\ AckedIsDurable' /\ Pub' = Pub /\ Rows' = Rows
  BY ServerFrame DEF IInv, Enqueue, drvVars
<1>2. DriverInv'
  BY <1>1, DriverFrame DEF IInv, Enqueue
<1>3. HeldInv'
  <2>1. Head(fetched) \in CopiesOf(Pub) /\ Tail(fetched) \in Seq(CopiesOf(Pub))
    BY HeadTailProperties DEF IInv, HeldInv, Enqueue
  <2>2. Append(queue, Head(fetched)) \in Seq(CopiesOf(Pub) \cup {Sentinel})
    BY <2>1, AppendProperties DEF IInv, HeldInv
  <2> QED
    BY <1>1, <2>1, <2>2 DEF IInv, HeldInv, Enqueue
<1>4. FlagsTypeOK' /\ PlacesTypeOK' /\ CountsTypeOK'
  BY DEF IInv, FlagsTypeOK, PlacesTypeOK, CountsTypeOK, Enqueue, stopVars
<1>5. BatchOfRows' /\ BatchIsBuffered'
  BY <1>1, BatchFrame DEF IInv, Enqueue, drvVars
<1> QED
  BY <1>1, <1>2, <1>3, <1>4, <1>5 DEF IInv

(* A message that joins a batch that is going to be nak'd. *)
LEMMA RefuseKeeps == IInv /\ (OutOfOrder \/ ProcessFails) => IInv'
<1> SUFFICES ASSUME IInv, OutOfOrder \/ ProcessFails PROVE IInv'
  OBVIOUS
<1>1. /\ UNCHANGED <<jsVars, drvVars, up, started, gap, conn, psub, fetched, acks, stopVars>>
      /\ queue # <<>> /\ Head(queue) # Sentinel
      /\ queue' = Tail(queue)
      /\ pending' = Append(pending, Head(queue))
      /\ buf' = "nakFatal"
      /\ sequence' \in {sequence, Head(queue).seq}
      /\ faults' = faults \/ Fault
  BY DEF OutOfOrder, ProcessFails
<1>2. ServerInv' /\ AckedIsDurable' /\ Pub' = Pub /\ Rows' = Rows
  BY <1>1, ServerFrame DEF IInv, drvVars
<1>3. DriverInv'
  BY <1>1, <1>2, DriverFrame DEF IInv
<1>4. /\ Tail(queue) \in Seq(CopiesOf(Pub) \cup {Sentinel})
      /\ Head(queue) \in CopiesOf(Pub)
  BY <1>1, TakeHead DEF IInv
<1>5. HeldInv'
  BY <1>1, <1>2, <1>4, AppendProperties DEF IInv, HeldInv
<1>6. FlagsTypeOK' /\ PlacesTypeOK'
  BY <1>1 DEF IInv, FlagsTypeOK, PlacesTypeOK, Running, stopVars
<1>7. CountsTypeOK'
  BY <1>1, <1>4, ConsumerAssumption
     DEF IInv, CountsTypeOK, Fault, CopiesOf, ConsumerAssumption
<1>8. BatchOfRows' /\ BatchIsBuffered'
  BY <1>1 DEF BatchOfRows, BatchIsBuffered, Ackable
<1> QED
  BY <1>2, <1>3, <1>5, <1>6, <1>7, <1>8 DEF IInv

(* A skipped message is settled with nothing written: that is its due. *)
LEMMA SkipEventKeeps == IInv /\ SkipEvent => IInv'
<1> SUFFICES ASSUME IInv, SkipEvent PROVE IInv'
  OBVIOUS
<1> DEFINE m == Head(queue)
<1>1. Tail(queue) \in Seq(CopiesOf(Pub) \cup {Sentinel}) /\ m \in CopiesOf(Pub)
  BY TakeHead DEF IInv, SkipEvent
<1>2. m.msg \in Pub /\ m.seq \in Nat
  BY <1>1 DEF CopiesOf
<1>3. ServerInv' /\ UNCHANGED log /\ acked' \in {acked, acked \cup {m.msg}}
  BY <1>2, SendAckKeeps DEF IInv, SkipEvent
<1>4. Pub' = Pub /\ Rows' = Rows
  BY <1>3 DEF Pub, Rows
<1>5. DriverInv'
  BY <1>4, DriverFrame DEF IInv, SkipEvent
<1>6. HeldInv'
  BY <1>1, <1>4 DEF IInv, HeldInv, SkipEvent
<1>7. FlagsTypeOK' /\ PlacesTypeOK' /\ CountsTypeOK'
  BY <1>2 DEF IInv, FlagsTypeOK, PlacesTypeOK, CountsTypeOK, SkipEvent, stopVars
<1>8. BatchOfRows' /\ BatchIsBuffered'
  BY <1>4, BatchFrame DEF IInv, SkipEvent, drvVars
<1>9. AckedIsDurable'
  BY <1>3 DEF IInv, AckedIsDurable, SkipEvent, drvVars
<1> QED
  BY <1>3, <1>5, <1>6, <1>7, <1>8, <1>9 DEF IInv

(* A row joins the batch and the driver's buffer in one step. *)
LEMMA ProcessEventKeeps == IInv /\ ProcessEvent => IInv'
<1> SUFFICES ASSUME IInv, ProcessEvent PROVE IInv'
  OBVIOUS
<1> DEFINE m == Head(queue)
           e == [key |-> log[m.msg].key, msg |-> m.msg]
<1>1. Tail(queue) \in Seq(CopiesOf(Pub) \cup {Sentinel}) /\ m \in CopiesOf(Pub)
  BY TakeHead DEF IInv, ProcessEvent
<1>2. m.msg \in Rows /\ m.seq \in Nat
  BY <1>1 DEF CopiesOf, Rows, ProcessEvent
<1>3. Pub' = Pub /\ Rows' = Rows
  BY DEF ProcessEvent, jsVars, Pub, Rows
<1>4. e \in Writes
  <2>1. log[m.msg] \in Events
    BY <1>2, LenProperties DEF IInv, ServerInv, JSTypeOK, Rows, Pub
  <2> QED
    BY <1>2, <2>1 DEF Writes, Events
<1>5. /\ DriverInv'
      /\ written \subseteq written'
      /\ e.msg \in written' \/ \E j \in 1..Len(dbuf') : dbuf'[j].msg = e.msg
      /\ \A j \in 1..Len(dbuf) : \E i \in 1..Len(dbuf') : dbuf'[i] = dbuf[j]
  <2>1. DriverProcess(e)
    BY DEF ProcessEvent
  <2> HIDE DEF e
  <2> QED
    BY <1>3, <1>4, <2>1, DriverProcessKeeps DEF IInv
<1>6. ServerInv' /\ AckedIsDurable'
  BY <1>5, ServerFrame DEF IInv, ProcessEvent
<1>7. HeldInv'
  BY <1>1, <1>3, AppendProperties DEF IInv, HeldInv, ProcessEvent
<1>8. FlagsTypeOK'
  BY DEF IInv, FlagsTypeOK, ProcessEvent
<1>9. PlacesTypeOK' /\ CountsTypeOK'
  BY <1>2 DEF IInv, PlacesTypeOK, CountsTypeOK, ProcessEvent, stopVars, Running
<1>10. /\ pending \in Seq(CopiesOf(Rows)) /\ m \in CopiesOf(Rows)
       /\ pending' = Append(pending, m)
  BY <1>1, <1>2 DEF IInv, BatchOfRows, Ackable, CopiesOf, ProcessEvent
<1>11. /\ pending' \in Seq(CopiesOf(Rows))
       /\ Len(pending) \in Nat
       /\ Len(pending') = Len(pending) + 1
       /\ \A i \in 1..Len(pending) : pending'[i] = pending[i]
       /\ pending'[Len(pending) + 1] = m
  BY <1>10, AppendProperties, LenProperties
<1>12. BatchOfRows'
  BY <1>3, <1>11 DEF BatchOfRows
<1>13. BatchIsBuffered'
  <2>1. buf' \in {"run", "flush"}
    BY DEF ProcessEvent
  <2>2. \A i \in 1..Len(pending) :
          \/ pending[i].msg \in written
          \/ \E j \in 1..Len(dbuf) : dbuf[j].msg = pending[i].msg
    BY DEF IInv, BatchIsBuffered, ProcessEvent
  <2>3. ASSUME NEW i \in 1..Len(pending')
        PROVE  \/ pending'[i].msg \in written'
               \/ \E j \in 1..Len(dbuf') : dbuf'[j].msg = pending'[i].msg
    <3>1. CASE i \in 1..Len(pending)
      BY <1>5, <1>11, <2>2, <3>1
    <3>2. CASE i = Len(pending) + 1
      BY <1>5, <1>11, <3>2
    <3> QED
      BY <1>11, <3>1, <3>2
  <2> QED
    BY <2>1, <2>3 DEF BatchIsBuffered
<1> QED
  BY <1>5, <1>6, <1>7, <1>8, <1>9, <1>12, <1>13 DEF IInv

(* The sentinel leaves the queue. *)
LEMMA TakeSentinelKeeps == IInv /\ TakeSentinel => IInv'
<1> SUFFICES ASSUME IInv, TakeSentinel PROVE IInv'
  OBVIOUS
<1>1. ServerInv' /\ AckedIsDurable' /\ Pub' = Pub /\ Rows' = Rows
  BY ServerFrame DEF IInv, TakeSentinel, drvVars
<1>2. DriverInv'
  BY <1>1, DriverFrame DEF IInv, TakeSentinel
<1>3. HeldInv'
  BY <1>1, TakeHead DEF IInv, HeldInv, TakeSentinel
<1>4. FlagsTypeOK' /\ PlacesTypeOK' /\ CountsTypeOK'
  BY DEF IInv, FlagsTypeOK, PlacesTypeOK, CountsTypeOK, TakeSentinel,
         stopVars, Running
<1>5. BatchOfRows' /\ BatchIsBuffered'
  BY <1>1, BatchFrame DEF IInv, TakeSentinel, drvVars
<1> QED
  BY <1>1, <1>2, <1>3, <1>4, <1>5 DEF IInv

(* When the driver's flush returns, the whole batch is written. *)
LEMMA FlushReturnsKeeps == IInv /\ FlushReturns => IInv'
<1> SUFFICES ASSUME IInv, FlushReturns PROVE IInv'
  OBVIOUS
<1>1. PICK o \in FlushOutcomes(dbuf) : o.ok /\ DriverFlush(o)
  BY DEF FlushReturns
<1>2. Pub' = Pub /\ Rows' = Rows
  BY DEF FlushReturns, jsVars, Pub, Rows
<1>3. /\ DriverInv'
      /\ written \subseteq written'
      /\ \A j \in 1..Len(dbuf) : dbuf[j].msg \in written'
  BY <1>1, <1>2, DriverFlushKeeps DEF IInv
<1>4. ServerInv' /\ AckedIsDurable'
  BY <1>3, ServerFrame DEF IInv, FlushReturns
<1>5. HeldInv'
  BY <1>2 DEF IInv, HeldInv, FlushReturns
<1>6. FlagsTypeOK' /\ PlacesTypeOK' /\ CountsTypeOK'
  BY DEF IInv, FlagsTypeOK, PlacesTypeOK, CountsTypeOK, FlushReturns,
         stopVars, Running
<1>7. BatchOfRows'
  BY <1>2 DEF IInv, BatchOfRows, Ackable, CopiesOf, FlushReturns
<1>8. BatchIsBuffered'
  BY <1>3 DEF IInv, BatchIsBuffered, FlushReturns
<1> QED
  BY <1>3, <1>4, <1>5, <1>6, <1>7, <1>8 DEF IInv

LEMMA FlushRaisesKeeps == IInv /\ FlushRaises => IInv'
<1> SUFFICES ASSUME IInv, FlushRaises PROVE IInv'
  OBVIOUS
<1>1. PICK o \in FlushOutcomes(dbuf) : DriverFlush(o)
  BY DEF FlushRaises
<1>2. Pub' = Pub /\ Rows' = Rows
  BY DEF FlushRaises, jsVars, Pub, Rows
<1>3. DriverInv' /\ written \subseteq written'
  BY <1>1, <1>2, DriverFlushKeeps DEF IInv
<1>4. ServerInv' /\ AckedIsDurable'
  BY <1>3, ServerFrame DEF IInv, FlushRaises
<1>5. HeldInv'
  BY <1>2 DEF IInv, HeldInv, FlushRaises
<1>6. FlagsTypeOK' /\ PlacesTypeOK' /\ CountsTypeOK'
  BY ConsumerAssumption
     DEF IInv, FlagsTypeOK, PlacesTypeOK, CountsTypeOK, FlushRaises, stopVars,
         Running, Fault, ConsumerAssumption
<1>7. BatchOfRows' /\ BatchIsBuffered'
  BY DEF BatchOfRows, BatchIsBuffered, Ackable, FlushRaises
<1> QED
  BY <1>3, <1>4, <1>5, <1>6, <1>7 DEF IInv

(* An acked message of the batch is a row that was written. *)
LEMMA AckNextKeeps == IInv /\ AckNext => IInv'
<1> SUFFICES ASSUME IInv, AckNext PROVE IInv'
  OBVIOUS
<1> DEFINE s == pending[acks + 1].msg
<1>1. s \in Rows /\ s \in written
  <2>1. acks + 1 \in 1..Len(pending) /\ pending \in Seq(CopiesOf(Rows))
    BY LenProperties
       DEF IInv, HeldInv, CountsTypeOK, AckNext, BatchOfRows, Ackable
  <2>2. pending[acks + 1] \in CopiesOf(Rows)
    BY <2>1, LenProperties
  <2> QED
    BY <2>1, <2>2 DEF CopiesOf, IInv, BatchIsBuffered, AckNext
<1>2. ServerInv' /\ UNCHANGED log /\ acked' \in {acked, acked \cup {s}}
  BY <1>1, SendAckKeeps DEF IInv, AckNext, Rows
<1>3. Pub' = Pub /\ Rows' = Rows
  BY <1>2 DEF Pub, Rows
<1>4. DriverInv'
  BY <1>3, DriverFrame DEF IInv, AckNext
<1>5. HeldInv'
  BY <1>3 DEF IInv, HeldInv, AckNext
<1>6. FlagsTypeOK' /\ PlacesTypeOK' /\ CountsTypeOK'
  BY DEF IInv, FlagsTypeOK, PlacesTypeOK, CountsTypeOK, AckNext, stopVars
<1>7. BatchOfRows' /\ BatchIsBuffered'
  BY <1>3, BatchFrame DEF IInv, AckNext, drvVars
<1>8. AckedIsDurable'
  BY <1>1, <1>2 DEF IInv, AckedIsDurable, Rows, AckNext, drvVars
<1> QED
  BY <1>2, <1>4, <1>5, <1>6, <1>7, <1>8 DEF IInv

LEMMA AckDoneKeeps == IInv /\ AckDone => IInv'
<1> SUFFICES ASSUME IInv, AckDone PROVE IInv'
  OBVIOUS
<1>1. ServerInv' /\ AckedIsDurable' /\ Pub' = Pub /\ Rows' = Rows
  BY ServerFrame DEF IInv, AckDone, drvVars
<1>2. DriverInv'
  BY <1>1, DriverFrame DEF IInv, AckDone
<1>3. HeldInv'
  BY <1>1, EmptySeq DEF IInv, HeldInv, AckDone
<1>4. FlagsTypeOK'
  BY DEF IInv, FlagsTypeOK, AckDone
<1>5. PlacesTypeOK' /\ CountsTypeOK'
  BY DEF IInv, PlacesTypeOK, CountsTypeOK, AckDone, stopVars, Running, Ended
<1>6. BatchOfRows' /\ BatchIsBuffered'
  BY EmptySeq DEF BatchOfRows, BatchIsBuffered, AckDone
<1> QED
  BY <1>1, <1>2, <1>3, <1>4, <1>5, <1>6 DEF IInv

(* A nak puts a published message back in line. *)
LEMMA NakNextKeeps == IInv /\ NakNext => IInv'
<1> SUFFICES ASSUME IInv, NakNext PROVE IInv'
  OBVIOUS
<1>1. Head(pending) \in CopiesOf(Pub) /\ Tail(pending) \in Seq(CopiesOf(Pub))
  BY HeadTailProperties DEF IInv, HeldInv, NakNext
<1>2. ServerInv' /\ UNCHANGED <<log, acked>>
  <2>1. CASE conn = "up"
    BY <1>1, <2>1, RequeueKeeps DEF IInv, NakNext, CopiesOf
  <2>2. CASE conn # "up"
    BY <2>2 DEF IInv, NakNext, jsVars, ServerInv, JSTypeOK, Pub
  <2> QED
    BY <2>1, <2>2
<1>3. Pub' = Pub /\ Rows' = Rows
  BY <1>2 DEF Pub, Rows
<1>4. DriverInv'
  BY <1>3, DriverFrame DEF IInv, NakNext
<1>5. HeldInv'
  BY <1>1, <1>3 DEF IInv, HeldInv, NakNext
<1>6. FlagsTypeOK' /\ PlacesTypeOK' /\ CountsTypeOK'
  BY DEF IInv, FlagsTypeOK, PlacesTypeOK, CountsTypeOK, NakNext, stopVars
<1>7. BatchOfRows' /\ BatchIsBuffered'
  BY DEF BatchOfRows, BatchIsBuffered, Ackable, NakNext
<1>8. AckedIsDurable'
  BY <1>2 DEF IInv, AckedIsDurable, NakNext, drvVars
<1> QED
  BY <1>2, <1>4, <1>5, <1>6, <1>7, <1>8 DEF IInv

(* The steps of the connection, of stop() and of the control loop leave the *)
(* server, the driver and the batch alone.                                  *)
LEMMA ControlKeeps ==
  ASSUME IInv,
         IdleFlush \/ AckRaises \/ NakDone \/ Disconnect \/ DisconnectedCb
           \/ Pause \/ Unpause \/ Terminate \/ StopSentinel \/ StopWait
  PROVE  IInv'
<1> USE DEF IdleFlush, AckRaises, NakDone, Disconnect, DisconnectedCb, Pause,
            Unpause, Terminate, StopSentinel, StopWait, BeginStop, stopVars
<1>1. UNCHANGED <<jsVars, drvVars, pending, sequence, acks>>
  OBVIOUS
<1>2. fetched' \in {fetched, <<>>} /\ queue' \in {queue, Append(queue, Sentinel)}
  OBVIOUS
<1>3. \/ buf' = buf
      \/ buf' \notin Ackable
      \/ buf = "run" /\ buf' \in {"flush", "finalFlush"}
  BY DEF Ackable
<1>4. FlagsTypeOK'
  BY DEF IInv, FlagsTypeOK
<1>5. PlacesTypeOK'
  BY DEF IInv, PlacesTypeOK, Running, Ended
<1>6. CountsTypeOK'
  BY ConsumerAssumption DEF IInv, CountsTypeOK, Fault, ConsumerAssumption
<1> HIDE DEF IdleFlush, AckRaises, NakDone, Disconnect, DisconnectedCb, Pause,
             Unpause, Terminate, StopSentinel, StopWait, BeginStop
<1>7. ServerInv' /\ AckedIsDurable' /\ Pub' = Pub /\ Rows' = Rows
  BY <1>1, ServerFrame DEF IInv, drvVars
<1>8. DriverInv'
  BY <1>1, <1>7, DriverFrame DEF IInv
<1>9. HeldInv'
  <2>1. fetched' \in Seq(CopiesOf(Pub))
    BY <1>2, EmptySeq DEF IInv, HeldInv
  <2>2. queue' \in Seq(CopiesOf(Pub) \cup {Sentinel})
    <3> DEFINE S == CopiesOf(Pub) \cup {Sentinel}
    <3>1. queue \in Seq(S) /\ Sentinel \in S
      BY DEF IInv, HeldInv
    <3> HIDE DEF S
    <3>2. Append(queue, Sentinel) \in Seq(S)
      BY <3>1, AppendProperties
    <3>3. queue' \in Seq(S)
      BY <1>2, <3>1, <3>2
    <3> QED
      BY <3>3 DEF S
  <2> QED
    BY <1>1, <1>7, <2>1, <2>2 DEF IInv, HeldInv
<1>10. BatchOfRows' /\ BatchIsBuffered'
  BY <1>1, <1>3, <1>7, BatchFrame DEF IInv, drvVars
<1> QED
  BY <1>4, <1>5, <1>6, <1>7, <1>8, <1>9, <1>10 DEF IInv

(* The process ends, by itself or not: what it held is gone, and what it    *)
(* had written stays.                                                       *)
LEMMA GoneKeeps == IInv /\ (Exit \/ Crash) => IInv'
<1> SUFFICES ASSUME IInv, Exit \/ Crash PROVE IInv'
  OBVIOUS
<1>1. Gone /\ UNCHANGED jsVars /\ (faults' = faults \/ Fault)
  BY DEF Exit, Crash
<1>2. Pub' = Pub /\ Rows' = Rows
  BY <1>1 DEF jsVars, Pub, Rows
<1>3. DriverInv' /\ written \subseteq written'
  <2>1. CASE Exit
    BY <1>2, <2>1, DriverStopKeeps DEF IInv, Exit
  <2>2. CASE Crash
    BY <1>2, <2>2, EmptySeq DEF IInv, DriverInv, Crash
  <2> QED
    BY <2>1, <2>2
<1>4. ServerInv' /\ AckedIsDurable'
  BY <1>1, <1>3, ServerFrame DEF IInv
<1>5. HeldInv'
  BY <1>1, EmptySeq DEF HeldInv, Gone
<1>6. FlagsTypeOK'
  BY <1>1 DEF FlagsTypeOK, Gone
<1>7. PlacesTypeOK' /\ CountsTypeOK'
  BY <1>1, ConsumerAssumption
     DEF IInv, PlacesTypeOK, CountsTypeOK, Gone, Fault, ConsumerAssumption
<1>8. BatchOfRows' /\ BatchIsBuffered'
  BY <1>1 DEF BatchOfRows, BatchIsBuffered, Ackable, Gone
<1> QED
  BY <1>3, <1>4, <1>5, <1>6, <1>7, <1>8 DEF IInv

(* ack_wait runs out. *)
LEMMA ExpireKeeps == IInv /\ (ExpireDropped \/ ExpireHeld) => IInv'
<1> SUFFICES ASSUME IInv, ExpireDropped \/ ExpireHeld PROVE IInv'
  OBVIOUS
<1>1. PICK s \in Msgs : Oldest(s) /\ Requeue(s)
  BY DEF ExpireDropped, ExpireHeld
<1>2. UNCHANGED <<drvVars, wrkVars>> /\ (faults' = faults \/ Fault)
  BY DEF ExpireDropped, ExpireHeld
<1>3. ServerInv' /\ UNCHANGED <<log, acked>>
  BY <1>1, RequeueKeeps DEF IInv, ServerInv, Oldest
<1>4. Pub' = Pub /\ Rows' = Rows
  BY <1>3 DEF Pub, Rows
<1>5. DriverInv' /\ HeldInv'
  BY <1>2, <1>4, DriverFrame DEF IInv, HeldInv, wrkVars
<1>6. FlagsTypeOK' /\ PlacesTypeOK'
  BY <1>2 DEF IInv, FlagsTypeOK, PlacesTypeOK, wrkVars
<1>7. CountsTypeOK'
  BY <1>2, ConsumerAssumption
     DEF IInv, CountsTypeOK, wrkVars, Fault, ConsumerAssumption
<1>8. BatchOfRows' /\ BatchIsBuffered'
  BY <1>2, <1>4, BatchFrame DEF IInv, wrkVars, drvVars
<1>9. AckedIsDurable'
  BY <1>2, <1>3 DEF IInv, AckedIsDurable, drvVars
<1> QED
  BY <1>3, <1>5, <1>6, <1>7, <1>8, <1>9 DEF IInv

LEMMA StutterKeeps == IInv /\ UNCHANGED vars => IInv'
<1> SUFFICES ASSUME IInv, UNCHANGED vars PROVE IInv'
  OBVIOUS
<1>1. UNCHANGED <<jsVars, drvVars, wrkVars, faults>>
  BY DEF vars
<1>2. ServerInv' /\ AckedIsDurable' /\ Pub' = Pub /\ Rows' = Rows
  BY <1>1, ServerFrame DEF IInv, drvVars
<1>3. DriverInv' /\ HeldInv'
  BY <1>1, <1>2, DriverFrame DEF IInv, HeldInv, wrkVars
<1>4. FlagsTypeOK' /\ PlacesTypeOK' /\ CountsTypeOK'
  BY <1>1 DEF IInv, FlagsTypeOK, PlacesTypeOK, CountsTypeOK, wrkVars
<1>5. BatchOfRows' /\ BatchIsBuffered'
  BY <1>1, <1>2, BatchFrame DEF IInv, wrkVars, drvVars
<1> QED
  BY <1>2, <1>3, <1>4, <1>5 DEF IInv

LEMMA NextKeeps == IInv /\ [Next]_vars => IInv'
BY CreateKeeps, PublishEventKeeps, FetchKeeps, EnqueueKeeps, RefuseKeeps,
   SkipEventKeeps, ProcessEventKeeps, TakeSentinelKeeps, FlushReturnsKeeps,
   FlushRaisesKeeps, AckNextKeeps, AckDoneKeeps, NakNextKeeps, ControlKeeps,
   GoneKeeps, ExpireKeeps, StutterKeeps
DEF Next

LEMMA Invariance == Spec => []IInv
BY InitKeeps, NextKeeps, PTL DEF Spec

(* The inductive invariant implies the types and the properties. *)
LEMMA InvImplies == IInv => TypeOK /\ AckedIsDurable /\ BatchIsBuffered
<1> SUFFICES ASSUME IInv PROVE TypeOK /\ AckedIsDurable /\ BatchIsBuffered
  OBVIOUS
<1>1. Pub \subseteq Msgs /\ Rows \subseteq Msgs
  BY LenProperties, JetStreamAssumption
     DEF IInv, ServerInv, JSTypeOK, Pub, Rows, Msgs, JetStreamAssumption
<1>2. CopiesOf(Pub) \subseteq Deliveries /\ Writes \subseteq [key : Keys, msg : Msgs]
  BY <1>1 DEF CopiesOf, Deliveries, Writes
<1>3. CopiesOf(Pub) \cup {Sentinel} \subseteq Deliveries \cup {Sentinel}
  BY <1>2
<1>4. HeldTypeOK
  BY <1>2, <1>3, SeqMonotonic DEF IInv, HeldInv, DriverInv, HeldTypeOK
<1>5. DestTypeOK
  BY <1>1 DEF IInv, DriverInv, DestTypeOK
<1> QED
  BY <1>4, <1>5 DEF IInv, ServerInv, TypeOK

-----------------------------------------------------------------------------
(* Type correctness: nothing any task, failure or crash does takes a        *)
(* variable of the worker, of the driver or of the durable out of its type. *)
THEOREM TypeCorrect == Spec => []TypeOK
BY Invariance, InvImplies, PTL

(* No acked change is lost: whatever fails and whenever, flush(),           *)
(* process_message() and stop() let the server forget a message only once   *)
(* should_skip answered for it or its row reached the destination.          *)
THEOREM NoAckedLoss == Spec => []AckedIsDurable
BY Invariance, InvImplies, PTL

(* The batch the processor will ack and what the driver buffers or has      *)
(* written never drift apart.                                               *)
THEOREM BatchCovered == Spec => []BatchIsBuffered
BY Invariance, InvImplies, PTL

-----------------------------------------------------------------------------
(* The worker implements its abstract specification. *)

(* Rows reach the destination, and nothing else changes that the promise    *)
(* is about.                                                                *)
LEMMA WriteRefines ==
  ASSUME IInv, IInv', UNCHANGED jsVars, written \subseteq written'
  PROVE  Promise!Write
<1>1. Rows' = Rows /\ UNCHANGED <<log, acked>>
  BY DEF jsVars, Pub, Rows
<1>2. written' \in SUBSET Promise!Rows
  BY <1>1 DEF IInv, DriverInv, Rows, Pub, Promise!Rows
<1>3. written' = written \cup written'
  OBVIOUS
<1> QED
  BY <1>1, <1>2, <1>3 DEF Promise!Write

LEMMA SettleRefines ==
  ASSUME NEW s \in Promise!Skipped \cup (Promise!Rows \cap written),
         SendAck(s), UNCHANGED drvVars
  PROVE  Promise!Settle \/ UNCHANGED Promise!vars
BY DEF SendAck, ReceiveAck, jsVars, drvVars, Promise!Settle, Promise!vars

LEMMA StepRefines ==
  ASSUME IInv, IInv', [Next]_vars
  PROVE  [Promise!Next]_(Promise!vars)
<1> USE DEF Promise!Next
<1>1. CASE PublishEvent
  <2>1. PICK k \in Keys, kind \in Kinds : Publish(k, kind)
    BY <1>1 DEF PublishEvent
  <2>2. Promise!Publish
    BY <1>1, <2>1 DEF PublishEvent, Publish, drvVars, Promise!Publish, Kinds
  <2> QED
    BY <2>2
<1>2. CASE SkipEvent
  <2>1. Head(queue) \in CopiesOf(Pub)
    BY <1>2, TakeHead DEF IInv, SkipEvent
  <2>2. Head(queue).msg \in Promise!Skipped
    BY <1>2, <2>1 DEF CopiesOf, SkipEvent, Promise!Skipped, Pub
  <2> QED
    BY <1>2, <2>2, SettleRefines DEF SkipEvent
<1>3. CASE AckNext
  <2>1. acks + 1 \in 1..Len(pending) /\ pending \in Seq(CopiesOf(Rows))
    BY <1>3, LenProperties
       DEF IInv, HeldInv, CountsTypeOK, AckNext, BatchOfRows, Ackable
  <2>2. pending[acks + 1] \in CopiesOf(Rows)
    BY <2>1, LenProperties
  <2>3. pending[acks + 1].msg \in Promise!Rows \cap written
    BY <1>3, <2>1, <2>2
       DEF CopiesOf, Rows, Pub, Promise!Rows, IInv, BatchIsBuffered, AckNext
  <2> QED
    BY <1>3, <2>3, SettleRefines DEF AckNext
<1>4. CASE ProcessEvent \/ FlushReturns \/ FlushRaises \/ Exit
  <2>1. UNCHANGED jsVars /\ written \subseteq written'
    BY <1>4 DEF ProcessEvent, FlushReturns, FlushRaises, Exit, DriverProcess,
                DriverFlush, DriverStop, DriverWrite
  <2> QED
    BY <2>1, WriteRefines
<1>5. CASE Create \/ Fetch \/ Enqueue \/ OutOfOrder \/ ProcessFails
             \/ IdleFlush \/ TakeSentinel \/ AckRaises \/ AckDone \/ NakNext
             \/ NakDone
  BY <1>5 DEF Create, Fetch, Deliver, Enqueue, OutOfOrder, ProcessFails,
              IdleFlush, TakeSentinel, AckRaises, AckDone, NakNext, Requeue,
              NakDone, jsVars, drvVars, Promise!vars
<1>6. CASE Disconnect \/ DisconnectedCb \/ Pause \/ Unpause \/ Terminate
             \/ StopSentinel \/ StopWait \/ Crash \/ ExpireDropped \/ ExpireHeld
  BY <1>6 DEF Disconnect, DisconnectedCb, Pause, Unpause, Terminate,
              StopSentinel, StopWait, Crash, ExpireDropped, ExpireHeld,
              Requeue, jsVars, drvVars, Promise!vars
<1>7. CASE UNCHANGED vars
  BY <1>7 DEF vars, jsVars, drvVars, Promise!vars
<1> QED
  BY <1>1, <1>2, <1>3, <1>4, <1>5, <1>6, <1>7 DEF Next

(* Every behaviour of the worker, the driver and the durable is, seen from  *)
(* outside, a behaviour of the at-least-once promise.                       *)
THEOREM Refinement == Spec => ImplementsPromise
<1>1. Init => Promise!Init
  BY DEF Init, JSInit, DriverInit, Promise!Init
<1> QED
  BY <1>1, StepRefines, Invariance, PTL DEF Spec, ImplementsPromise, Promise!Spec

-----------------------------------------------------------------------------
(***************************************************************************)
(* Proofs about the handoff inside the streaming worker, from the fetch    *)
(* loop through the bounded queue to the processor, and about the graceful *)
(* drain, for any queue, fetch and batch sizes and any number of faults.   *)
(*                                                                         *)
(* The argument is about stop().  The sentinel must be the last thing on   *)
(* the queue (SentinelInv), which it is because nothing is fetched while   *)
(* a bufferer goes on under a stop() (StopInv): neither a pause and an     *)
(* unpause after a lost connection nor a second stop() brings the fetch    *)
(* loop back.  Then the consumer sequences from the processor to the       *)
(* durable have no gap (OrderInv), until a pause drops part of a fetch.    *)
(***************************************************************************)

(* The inductive invariant, on top of IInv. *)

(* No process holds nothing. *)
DownInv ==
  ~up => /\ conn = "closed" /\ psub = "none" /\ fetched = <<>> /\ queue = <<>>
         /\ buf = "off" /\ stopper = "none"

(* The bufferer runs, or has drained: a message in the queue would matter. *)
Alive == Running \cup {"drained"}

(* While the bufferer goes on under a stop(), nothing more is fetched: the    *)
(* fork's stop() cannot be followed by an unpause, and the consumer stops     *)
(* itself with the bufferer on only when the connection is lost.              *)
StopInv ==
  /\ stopPc = "idle" <=> stopper = "none"
  /\ stopper = "fork" => psub # "open" /\ fetched = <<>>
  /\ stopper = "self" /\ buf \in Alive => conn # "up" /\ fetched = <<>>

(* The sentinel is the last thing on the queue. *)
SentinelInv ==
  /\ \A i \in 1..Len(queue) :
       buf \in Running /\ queue[i] = Sentinel => i = Len(queue) /\ stopPc \in {"wait", "closed"}
  /\ buf \in {"finalFlush", "finalAck", "drained"} => queue = <<>> /\ stopPc \in {"wait", "closed"}

(* Consumer sequences run without a gap from the processor to the server. *)
OrderInv ==
  buf \in Running /\ ~gap =>
    /\ \A i \in 1..Len(queue) : queue[i] # Sentinel => queue[i].seq = sequence + i
    /\ \A i \in 1..Len(fetched) : fetched[i].seq = sequence + Len(queue) + i
    /\ stopper = "none" => dseq = sequence + Len(queue) + Len(fetched)

(* The last flush leaves the driver empty, the last ack the batch. *)
DrainInv ==
  /\ buf \in {"finalAck", "drained"} => dbuf = <<>>
  /\ buf = "drained" => pending = <<>>

OInv == DownInv /\ StopInv /\ SentinelInv /\ OrderInv /\ DrainInv /\ NeverStranded

-----------------------------------------------------------------------------
(* Lengths and sequence numbers are numbers, and a copy is not the sentinel. *)
LEMMA HandoffTypes ==
  ASSUME IInv
  PROVE  /\ queue \in Seq(CopiesOf(Pub) \cup {Sentinel}) /\ fetched \in Seq(CopiesOf(Pub))
         /\ pending \in Seq(CopiesOf(Pub))
         /\ Len(queue) \in Nat /\ Len(fetched) \in Nat /\ Len(pending) \in Nat
         /\ sequence \in Nat /\ dseq \in Nat
         /\ \A m \in CopiesOf(Pub) : m.seq \in Nat /\ m # Sentinel
<1>1. /\ queue \in Seq(CopiesOf(Pub) \cup {Sentinel}) /\ fetched \in Seq(CopiesOf(Pub))
      /\ pending \in Seq(CopiesOf(Pub))
      /\ sequence \in Nat /\ dseq \in Nat
  BY DEF IInv, HeldInv, CountsTypeOK, ServerInv, JSTypeOK
<1>2. \A m \in CopiesOf(Pub) : m.seq \in Nat /\ m.msg \in Nat \ {0}
  BY LenProperties DEF CopiesOf, Pub, IInv, ServerInv, JSTypeOK
<1>3. \A m \in CopiesOf(Pub) : m # Sentinel
  BY <1>2 DEF Sentinel
<1> QED
  BY <1>1, <1>2, <1>3, LenProperties

(* The bufferer goes on, and the handoff to it is left alone. *)
LEMMA QuietFrame ==
  ASSUME OInv, UNCHANGED <<up, conn, psub, fetched, queue, sequence, gap, stopper, stopPc, dseq>>,
         \/ buf' = buf
         \/ /\ buf \in Running /\ buf' \in Running \cup Ended
            /\ buf' \in {"finalFlush", "finalAck", "drained"} => buf \in {"finalFlush", "finalAck"}
  PROVE  DownInv' /\ StopInv' /\ SentinelInv' /\ OrderInv'
<1>1. buf' = buf \/ (buf \in Running /\ buf' # "off")
  BY DEF Running, Ended
<1>2. DownInv'
  BY <1>1 DEF OInv, DownInv, Running
<1>3. StopInv'
  BY <1>1 DEF OInv, StopInv, Alive
<1>4. SentinelInv'
  BY <1>1 DEF OInv, SentinelInv
<1>5. OrderInv'
  BY <1>1 DEF OInv, OrderInv
<1> QED
  BY <1>2, <1>3, <1>4, <1>5

(* ... and so are the batch and the driver's buffer. *)
LEMMA BatchLeft ==
  ASSUME OInv, UNCHANGED <<pending, started, dbuf>>,
         buf' = buf \/ buf' \notin {"run", "finalAck", "drained"}
  PROVE  DrainInv' /\ NeverStranded'
BY DEF OInv, DrainInv, NeverStranded

LEMMA InitOrder == Init => OInv
<1> SUFFICES ASSUME Init PROVE OInv
  OBVIOUS
<1> USE EmptySeq DEF Init
<1>1. DownInv
  BY DEF DownInv
<1>2. StopInv /\ SentinelInv
  BY DEF StopInv, SentinelInv, Alive, Running
<1>3. OrderInv /\ DrainInv /\ NeverStranded
  BY DEF OrderInv, DrainInv, NeverStranded, Running
<1> QED
  BY <1>1, <1>2, <1>3 DEF OInv

(* A new worker expects what the durable delivers next. *)
LEMMA CreateOrder ==
  ASSUME IInv, OInv, Create
  PROVE  OInv'
<1>1. /\ ~up /\ up' /\ conn' = "up" /\ psub' = "open" /\ buf' = "run" /\ queue' = <<>>
      /\ sequence' = dseq /\ pending' = <<>> /\ UNCHANGED <<dseq, fetched, stopper, stopPc>>
  BY DEF Create, jsVars, stopVars
<1>2. fetched = <<>> /\ stopper = "none"
  BY <1>1 DEF OInv, DownInv
<1>3. DownInv'
  BY <1>1 DEF DownInv
<1>4. StopInv'
  BY <1>1, <1>2 DEF OInv, StopInv
<1>5. SentinelInv' /\ DrainInv' /\ NeverStranded'
  BY <1>1, EmptySeq DEF SentinelInv, DrainInv, NeverStranded
<1>6. OrderInv'
  <2>1. dseq \in Nat
    BY HandoffTypes
  <2> QED
    BY <1>1, <1>2, <2>1, EmptySeq DEF OrderInv
<1> QED
  BY <1>3, <1>4, <1>5, <1>6 DEF OInv

(* Only a fetch moves the durable's consumer sequence, and by one. *)
LEMMA FetchOrder ==
  ASSUME IInv, OInv, Fetch
  PROVE  OInv'
<1>1. PICK s \in Msgs : Deliver(s) /\ fetched' = Append(fetched, [seq |-> dseq + 1, msg |-> s])
  BY DEF Fetch
<1>2. /\ psub = "open" /\ conn = "up" /\ dseq' = dseq + 1
      /\ UNCHANGED <<dbuf, up, conn, psub, queue, buf, sequence, pending, started, stopper, stopPc, gap>>
  BY <1>1 DEF Fetch, Deliver, drvVars, stopVars
<1>3. /\ Len(fetched) \in Nat /\ Len(fetched') = Len(fetched) + 1
      /\ \A i \in 1..Len(fetched) : fetched'[i] = fetched[i]
      /\ fetched'[Len(fetched) + 1].seq = dseq + 1
  <2>1. [seq |-> dseq + 1, msg |-> s] \in CopiesOf(Pub)
    BY <1>1, HandoffTypes, DeliverKeeps DEF IInv, CopiesOf
  <2>2. [seq |-> dseq + 1, msg |-> s].seq = dseq + 1
    OBVIOUS
  <2> QED
    BY <1>1, <2>1, <2>2, HandoffTypes, AppendProperties
<1>4. DownInv' /\ SentinelInv'
  BY <1>2 DEF OInv, DownInv, SentinelInv
<1>5. StopInv'
  BY <1>2 DEF OInv, StopInv
<1>6. OrderInv'
  <2> SUFFICES ASSUME buf \in Running, ~gap
               PROVE  /\ \A i \in 1..Len(queue) : queue[i] # Sentinel => queue[i].seq = sequence + i
                      /\ \A i \in 1..Len(fetched') : fetched'[i].seq = sequence + Len(queue) + i
                      /\ dseq' = sequence + Len(queue) + Len(fetched')
    BY <1>2 DEF OrderInv
  <2>1. stopper = "none"
    BY <1>2 DEF OInv, StopInv, Alive, IInv, PlacesTypeOK
  <2>2. /\ \A i \in 1..Len(queue) : queue[i] # Sentinel => queue[i].seq = sequence + i
        /\ \A i \in 1..Len(fetched) : fetched[i].seq = sequence + Len(queue) + i
        /\ dseq = sequence + Len(queue) + Len(fetched)
    BY <2>1 DEF OInv, OrderInv
  <2>3. Len(queue) \in Nat /\ sequence \in Nat /\ dseq \in Nat
    BY HandoffTypes
  <2>4. ASSUME NEW i \in 1..Len(fetched') PROVE fetched'[i].seq = sequence + Len(queue) + i
    <3>1. CASE i \in 1..Len(fetched)
      BY <1>3, <2>2, <3>1
    <3>2. CASE i = Len(fetched) + 1
      BY <1>3, <2>2, <2>3, <3>2
    <3> QED
      BY <1>3, <3>1, <3>2
  <2> QED
    BY <1>2, <1>3, <2>2, <2>3, <2>4
<1>7. DrainInv' /\ NeverStranded'
  BY <1>2, BatchLeft
<1> QED
  BY <1>4, <1>5, <1>6, <1>7 DEF OInv

(* What the fetch loop puts on the queue follows what is there. *)
LEMMA EnqueueOrder ==
  ASSUME IInv, OInv, Enqueue
  PROVE  OInv'
<1>1. /\ fetched # <<>> /\ queue' = Append(queue, Head(fetched)) /\ fetched' = Tail(fetched)
      /\ UNCHANGED <<dseq, dbuf, up, conn, psub, buf, sequence, pending, started, stopper, stopPc, gap>>
  BY DEF Enqueue, jsVars, drvVars, stopVars
<1>2. /\ Len(queue) \in Nat /\ Len(queue') = Len(queue) + 1
      /\ \A i \in 1..Len(queue) : queue'[i] = queue[i]
      /\ queue'[Len(queue) + 1] = fetched[1]
      /\ fetched[1] # Sentinel
  <2>1. Head(fetched) \in CopiesOf(Pub) /\ Head(fetched) = fetched[1]
    BY <1>1, HandoffTypes, HeadTailProperties
  <2>2. Head(fetched) \in CopiesOf(Pub) \cup {Sentinel} /\ Head(fetched) # Sentinel
    BY <2>1, HandoffTypes
  <2> QED
    BY <1>1, <2>1, <2>2, HandoffTypes, AppendProperties
<1>3. /\ Len(fetched) \in Nat \ {0} /\ Len(fetched') = Len(fetched) - 1
      /\ \A i \in 1..Len(fetched') : fetched'[i] = fetched[i + 1]
  BY <1>1, HandoffTypes, HeadTailProperties, EmptySeq
<1>4. buf \in Alive => stopper = "none"
  BY <1>1 DEF OInv, StopInv, IInv, PlacesTypeOK
<1>5. buf \in Alive => stopPc = "idle"
  BY <1>4 DEF OInv, StopInv
<1>6. DownInv'
  BY <1>1 DEF OInv, DownInv
<1>7. StopInv'
  BY <1>1, <1>4 DEF OInv, StopInv
<1>8. SentinelInv'
  <2>1. buf \notin {"finalFlush", "finalAck", "drained"}
    BY <1>5 DEF OInv, SentinelInv, Alive, Running
  <2>2. ASSUME NEW i \in 1..Len(queue'), buf \in Running, queue'[i] = Sentinel PROVE FALSE
    <3>1. CASE i \in 1..Len(queue)
      BY <1>2, <1>5, <2>2, <3>1 DEF OInv, SentinelInv, Alive
    <3>2. CASE i = Len(queue) + 1
      BY <1>2, <2>2, <3>2
    <3> QED
      BY <1>2, <3>1, <3>2
  <2> QED
    BY <1>1, <2>1, <2>2 DEF SentinelInv
<1>9. OrderInv'
  <2> SUFFICES ASSUME buf \in Running, ~gap
               PROVE  /\ \A i \in 1..Len(queue') : queue'[i] # Sentinel => queue'[i].seq = sequence + i
                      /\ \A i \in 1..Len(fetched') : fetched'[i].seq = sequence + Len(queue') + i
                      /\ dseq = sequence + Len(queue') + Len(fetched')
    BY <1>1 DEF OrderInv
  <2>1. /\ \A i \in 1..Len(queue) : queue[i] # Sentinel => queue[i].seq = sequence + i
        /\ \A i \in 1..Len(fetched) : fetched[i].seq = sequence + Len(queue) + i
        /\ dseq = sequence + Len(queue) + Len(fetched)
    BY <1>4 DEF OInv, OrderInv, Alive
  <2>2. sequence \in Nat
    BY HandoffTypes
  <2>3. fetched[1].seq = sequence + Len(queue) + 1
    BY <1>3, <2>1
  <2>4. ASSUME NEW i \in 1..Len(queue'), queue'[i] # Sentinel PROVE queue'[i].seq = sequence + i
    <3>1. CASE i \in 1..Len(queue)
      BY <1>2, <2>1, <2>4, <3>1
    <3>2. CASE i = Len(queue) + 1
      BY <1>2, <2>2, <2>3, <3>2
    <3> QED
      BY <1>2, <3>1, <3>2
  <2>5. ASSUME NEW i \in 1..Len(fetched') PROVE fetched'[i].seq = sequence + Len(queue') + i
    <3>1. i + 1 \in 1..Len(fetched) /\ fetched'[i] = fetched[i + 1]
      BY <1>3
    <3> QED
      BY <1>2, <2>1, <2>2, <3>1
  <2> QED
    BY <1>2, <1>3, <2>1, <2>2, <2>4, <2>5
<1>10. DrainInv' /\ NeverStranded'
  BY <1>1, BatchLeft
<1> QED
  BY <1>6, <1>7, <1>8, <1>9, <1>10 DEF OInv

(* The next message is the expected one, unless a pause left a gap. *)
LEMMA NextInOrder ==
  ASSUME IInv, OInv, buf = "run", ~gap, queue # <<>>, Head(queue) # Sentinel
  PROVE  InOrder(Head(queue))
<1>1. Head(queue) = queue[1] /\ 1 \in 1..Len(queue)
  BY HandoffTypes, HeadTailProperties, EmptySeq
<1> QED
  BY <1>1 DEF InOrder, OInv, OrderInv, Running

(* The processor takes a message. *)
LEMMA TakeOrder ==
  ASSUME IInv, OInv, buf = "run", queue # <<>>, Head(queue) # Sentinel, queue' = Tail(queue),
         \/ InOrder(Head(queue)) /\ sequence' = Head(queue).seq
         \/ ~InOrder(Head(queue)) /\ sequence' = sequence,
         buf' \in {"run", "flush", "nakFatal"},
         UNCHANGED <<up, conn, psub, fetched, gap, stopper, stopPc, dseq>>
  PROVE  DownInv' /\ StopInv' /\ SentinelInv' /\ OrderInv'
<1>1. /\ Len(queue) \in Nat \ {0} /\ Len(queue') = Len(queue) - 1
      /\ \A i \in 1..Len(queue') : queue'[i] = queue[i + 1] /\ i + 1 \in 1..Len(queue)
  BY HandoffTypes, HeadTailProperties, EmptySeq
<1>2. buf \in Running /\ buf' \in Running /\ buf' \notin {"off", "finalFlush", "finalAck", "drained"}
  BY DEF Running
<1>3. DownInv'
  BY <1>2 DEF OInv, DownInv, Running
<1>4. StopInv'
  BY <1>2 DEF OInv, StopInv, Alive
<1>5. SentinelInv'
  <2>1. ASSUME NEW i \in 1..Len(queue'), queue'[i] = Sentinel
        PROVE  i = Len(queue') /\ stopPc \in {"wait", "closed"}
    <3>1. i + 1 \in 1..Len(queue) /\ queue[i + 1] = Sentinel
      BY <1>1, <2>1
    <3>2. i + 1 = Len(queue) /\ stopPc \in {"wait", "closed"}
      BY <1>2, <3>1 DEF OInv, SentinelInv
    <3> DEFINE n == Len(queue)
               n2 == Len(queue')
    <3>3. n \in Nat /\ n2 = n - 1 /\ i + 1 = n /\ i \in 1..n2
      BY <1>1, <3>2
    <3> HIDE DEF n, n2
    <3>4. i = n2
      BY <3>3
    <3> QED
      BY <3>2, <3>4 DEF n2
  <2> QED
    BY <1>2, <2>1 DEF SentinelInv
<1>6. OrderInv'
  <2> SUFFICES ASSUME ~gap
               PROVE  /\ \A i \in 1..Len(queue') : queue'[i] # Sentinel => queue'[i].seq = sequence' + i
                      /\ \A i \in 1..Len(fetched) : fetched[i].seq = sequence' + Len(queue') + i
                      /\ stopper = "none" => dseq = sequence' + Len(queue') + Len(fetched)
    BY DEF OrderInv
  <2>1. sequence' = sequence + 1
    BY NextInOrder DEF InOrder
  <2>2. /\ \A i \in 1..Len(queue) : queue[i] # Sentinel => queue[i].seq = sequence + i
        /\ \A i \in 1..Len(fetched) : fetched[i].seq = sequence + Len(queue) + i
        /\ stopper = "none" => dseq = sequence + Len(queue) + Len(fetched)
    BY <1>2 DEF OInv, OrderInv
  <2>3. sequence \in Nat /\ Len(fetched) \in Nat
    BY HandoffTypes
  <2>4. ASSUME NEW i \in 1..Len(queue'), queue'[i] # Sentinel PROVE queue'[i].seq = sequence' + i
    <3>1. queue[i + 1].seq = sequence + (i + 1)
      BY <1>1, <2>2, <2>4
    <3> QED
      BY <1>1, <2>1, <2>3, <3>1
  <2>5. ASSUME NEW i \in 1..Len(fetched) PROVE fetched[i].seq = sequence' + Len(queue') + i
    BY <1>1, <2>1, <2>2, <2>3
  <2> QED
    BY <1>1, <2>1, <2>2, <2>3, <2>4, <2>5
<1> QED
  BY <1>3, <1>4, <1>5, <1>6

LEMMA MessageOrder ==
  ASSUME IInv, OInv, OutOfOrder \/ ProcessFails \/ SkipEvent \/ ProcessEvent
  PROVE  OInv'
<1>1. /\ buf = "run" /\ queue # <<>> /\ Head(queue) # Sentinel /\ queue' = Tail(queue)
      /\ \/ InOrder(Head(queue)) /\ sequence' = Head(queue).seq
         \/ ~InOrder(Head(queue)) /\ sequence' = sequence
      /\ buf' \in {"run", "flush", "nakFatal"}
      /\ UNCHANGED <<up, conn, psub, fetched, gap, stopper, stopPc>>
  BY DEF OutOfOrder, ProcessFails, SkipEvent, ProcessEvent, stopVars
<1>2. dseq' = dseq
  BY DEF OutOfOrder, ProcessFails, SkipEvent, ProcessEvent, jsVars, SendAck, ReceiveAck
<1>3. DownInv' /\ StopInv' /\ SentinelInv' /\ OrderInv'
  BY <1>1, <1>2, TakeOrder
<1>4. DrainInv'
  BY <1>1 DEF DrainInv
<1>5. NeverStranded'
  <2>1. CASE buf' # "run"
    BY <2>1 DEF NeverStranded
  <2>2. CASE SkipEvent
    BY <2>2 DEF SkipEvent, OInv, NeverStranded
  <2>3. CASE ProcessEvent /\ buf' = "run"
    <3>1. Len(pending) + 1 < BatchMax /\ started' /\ pending' = Append(pending, Head(queue))
      BY <1>1, <2>3 DEF ProcessEvent
    <3>2. Len(pending') = Len(pending) + 1
      BY <1>1, <3>1, HandoffTypes, TakeHead, AppendProperties DEF IInv
    <3>3. BatchMax' = BatchMax
      BY DEF BatchMax
    <3> QED
      BY <3>1, <3>2, <3>3 DEF NeverStranded
  <2> QED
    BY <2>1, <2>2, <2>3 DEF OutOfOrder, ProcessFails
<1> QED
  BY <1>3, <1>4, <1>5 DEF OInv

(* Nothing is on the queue after the sentinel. *)
LEMMA TakeSentinelOrder ==
  ASSUME IInv, OInv, TakeSentinel
  PROVE  OInv'
<1>1. /\ buf = "run" /\ buf' = "finalFlush" /\ queue # <<>> /\ Head(queue) = Sentinel /\ queue' = Tail(queue)
      /\ UNCHANGED <<dseq, dbuf, up, conn, psub, fetched, sequence, pending, started, stopper, stopPc, gap>>
  BY DEF TakeSentinel, jsVars, drvVars, stopVars
<1>2. Head(queue) = queue[1] /\ 1 \in 1..Len(queue) /\ Len(queue) \in Nat
  BY <1>1, HandoffTypes, HeadTailProperties, EmptySeq
<1>3. Len(queue) = 1 /\ stopPc \in {"wait", "closed"}
  BY <1>1, <1>2 DEF OInv, SentinelInv, Running
<1>4. queue' = <<>>
  BY <1>1, <1>3, HandoffTypes, HeadTailProperties, EmptySeq
<1>5. stopper # "none"
  BY <1>3 DEF OInv, StopInv
<1>6. fetched = <<>>
  BY <1>1, <1>5 DEF OInv, StopInv, Alive, Running, IInv, PlacesTypeOK
<1>7. DownInv'
  BY <1>1 DEF OInv, DownInv
<1>8. StopInv'
  BY <1>1 DEF OInv, StopInv, Alive, Running
<1>9. SentinelInv' /\ OrderInv'
  <2>1. 1..Len(queue') = {} /\ 1..Len(fetched') = {}
    BY <1>1, <1>4, <1>6, EmptySeq
  <2>2. SentinelInv'
    BY <1>1, <1>3, <1>4, <2>1 DEF SentinelInv
  <2>3. OrderInv'
    BY <1>1, <1>5, <2>1 DEF OrderInv
  <2> QED
    BY <2>2, <2>3
<1>10. DrainInv' /\ NeverStranded'
  BY <1>1, BatchLeft
<1> QED
  BY <1>7, <1>8, <1>9, <1>10 DEF OInv

(* An outcome of a flush that returned leaves nothing in the buffer. *)
LEMMA FlushEmpties ==
  ASSUME DriverInv, NEW o \in FlushOutcomes(dbuf), o.ok, DriverFlush(o)
  PROVE  dbuf' = <<>>
<1>1. CASE Kind = "file"
  BY <1>1 DEF DriverInv, DriverFlush
<1>2. CASE Kind # "file"
  <2>1. ASSUME NEW S, NEW k, o \in Raised(dbuf, S, k) PROVE FALSE
    BY <2>1 DEF Raised
  <2>2. o \in Returned(dbuf)
    BY <1>2, <2>1, KindAssumption
       DEF FlushOutcomes, SqlFlush, S3Flush, EventhubFlush, KindAssumption
  <2> QED
    BY <2>2 DEF Returned, DriverFlush
<1> QED
  BY <1>1, <1>2

(* The steps of a flush. *)
LEMMA FlushOrder ==
  ASSUME IInv, OInv, IdleFlush \/ FlushReturns \/ FlushRaises \/ AckNext \/ AckRaises \/ AckDone \/ NakNext
  PROVE  OInv'
<1>1. UNCHANGED <<up, conn, psub, fetched, queue, sequence, gap, stopper, stopPc>>
  BY DEF IdleFlush, FlushReturns, FlushRaises, AckNext, AckRaises, AckDone, NakNext, stopVars
<1>2. dseq' = dseq
  BY DEF IdleFlush, FlushReturns, FlushRaises, AckNext, AckRaises, AckDone, NakNext, jsVars, SendAck,
         ReceiveAck, Requeue
<1>3. /\ buf \in Running /\ buf' \in Running \cup Ended
      /\ buf' \in {"finalFlush", "finalAck", "drained"} => buf \in {"finalFlush", "finalAck"}
  BY DEF IdleFlush, FlushReturns, FlushRaises, AckNext, AckRaises, AckDone, NakNext, Running, Ended
<1>4. DownInv' /\ StopInv' /\ SentinelInv' /\ OrderInv'
  BY <1>1, <1>2, <1>3, QuietFrame
<1>5. DrainInv'
  <2>1. CASE FlushReturns
    <3>1. dbuf' = <<>> /\ buf' # "drained"
      BY <2>1, FlushEmpties DEF FlushReturns, IInv
    <3> QED
      BY <3>1 DEF DrainInv
  <2>2. CASE AckDone \/ AckNext
    BY <2>2 DEF AckDone, AckNext, OInv, DrainInv, drvVars
  <2>3. CASE IdleFlush \/ FlushRaises \/ AckRaises \/ NakNext
    BY <2>3 DEF IdleFlush, FlushRaises, AckRaises, NakNext, DrainInv
  <2> QED
    BY <2>1, <2>2, <2>3
<1>6. NeverStranded'
  BY DEF NeverStranded, IdleFlush, FlushReturns, FlushRaises, AckNext, AckRaises, AckDone, NakNext
<1> QED
  BY <1>4, <1>5, <1>6 DEF OInv

(* Events are published, ack_wait runs out. *)
LEMMA ServerOrder ==
  ASSUME IInv, OInv, PublishEvent \/ ExpireDropped \/ ExpireHeld
  PROVE  OInv'
<1>1. UNCHANGED <<drvVars, wrkVars>> /\ dseq' = dseq
  BY DEF PublishEvent, Publish, ExpireDropped, ExpireHeld, Requeue
<1>2. UNCHANGED <<up, conn, psub, fetched, queue, buf, sequence, pending, started, gap, stopper, stopPc, dseq, dbuf>>
  BY <1>1 DEF drvVars, wrkVars
<1> QED
  BY <1>2, QuietFrame, BatchLeft DEF OInv

(* stop() begins: the fetch loop is gone. *)
LEMMA StopOrder ==
  ASSUME IInv, OInv, stopper = "none", NEW who \in {"fork", "self"}, BeginStop(who), up,
         who = "self" => buf' \notin Alive \/ conn # "up",
         buf' = buf \/ buf' \notin Alive \cup {"off"},
         UNCHANGED <<up, conn, queue, sequence, gap, dseq>>
  PROVE  DownInv' /\ StopInv' /\ SentinelInv' /\ OrderInv'
<1>1. /\ stopper' = who /\ stopPc' = "sentinel" /\ fetched' = <<>>
      /\ psub' = IF psub = "open" THEN "closed" ELSE psub
  BY DEF BeginStop
<1>2. stopPc = "idle"
  BY DEF OInv, StopInv
<1>4. DownInv'
  BY DEF DownInv
<1>5. StopInv'
  BY <1>1 DEF OInv, StopInv
<1>6. SentinelInv'
  <2>1. buf \notin {"finalFlush", "finalAck", "drained"}
    BY <1>2 DEF OInv, SentinelInv
  <2>2. buf' \notin {"finalFlush", "finalAck", "drained"} /\ (buf' \in Running => buf \in Running)
    BY <2>1 DEF Alive, Running
  <2>3. \A i \in 1..Len(queue) : buf \in Running => queue[i] # Sentinel
    BY <1>2 DEF OInv, SentinelInv
  <2> QED
    BY <2>2, <2>3 DEF SentinelInv
<1>7. OrderInv'
  BY <1>1, EmptySeq DEF OInv, OrderInv, Alive
<1> QED
  BY <1>4, <1>5, <1>6, <1>7

(* A stop() begins: the connection is lost, the fork asks for it, or the      *)
(* bufferer has failed.                                                       *)
LEMMA StopperOrder ==
  ASSUME IInv, OInv, NakDone \/ DisconnectedCb \/ Terminate
  PROVE  OInv'
<1>1. UNCHANGED <<up, conn, queue, sequence, gap, dseq, pending, dbuf>>
  BY DEF NakDone, DisconnectedCb, Terminate, jsVars, drvVars
<1>2. CASE DisconnectedCb \/ Terminate
  <2>1. PICK who \in {"fork", "self"} :
          /\ stopper = "none" /\ BeginStop(who) /\ buf' = buf /\ started' = started
          /\ who = "self" => conn # "up"
    BY <1>2 DEF DisconnectedCb, Terminate
  <2>3. up
    BY <1>2 DEF DisconnectedCb, Terminate, OInv, DownInv
  <2>4. DownInv' /\ StopInv' /\ SentinelInv' /\ OrderInv'
    BY <1>1, <2>1, <2>3, StopOrder
  <2>5. DrainInv' /\ NeverStranded'
    BY <1>1, <2>1, BatchLeft
  <2> QED
    BY <2>4, <2>5 DEF OInv
<1>3. CASE NakDone
  <2>1. buf \in {"nakFatal", "nakStop"} /\ buf' \in {"failed", "stopped"} /\ pending = <<>>
    BY <1>3 DEF NakDone
  <2>2. buf' \notin Alive \cup {"off"} /\ buf \in Running /\ buf' \in Ended
    BY <2>1 DEF Alive, Running, Ended
  <2>3. DownInv' /\ StopInv' /\ SentinelInv' /\ OrderInv'
    <3>1. CASE stopper = "none" /\ BeginStop("self")
      <4>1. up
        BY <2>1 DEF OInv, DownInv
      <4> QED
        BY <1>1, <2>2, <3>1, <4>1, StopOrder
    <3>2. CASE UNCHANGED <<stopper, stopPc, fetched, psub>>
      BY <1>1, <2>1, <2>2, <3>2, QuietFrame
    <3> QED
      BY <1>3, <3>1, <3>2 DEF NakDone
  <2>4. DrainInv' /\ NeverStranded'
    BY <2>1 DEF DrainInv, NeverStranded
  <2> QED
    BY <2>3, <2>4 DEF OInv
<1> QED
  BY <1>2, <1>3

(* The connection breaks, the fetch loop is paused or started again. *)
LEMMA LinkOrder ==
  ASSUME IInv, OInv, Disconnect \/ Pause \/ Unpause
  PROVE  OInv'
<1>1. /\ UNCHANGED <<up, queue, buf, sequence, pending, started, dseq, dbuf, stopper, stopPc>>
      /\ conn' # "up" \/ conn' = conn
      /\ psub' = "open" => psub = "open" \/ stopper # "fork"
      /\ \/ fetched' = fetched /\ gap' = gap
         \/ fetched' = <<>> /\ gap' = (gap \/ fetched # <<>>)
  BY DEF Disconnect, Pause, Unpause, jsVars, drvVars, stopVars
<1>2. up
  BY DEF Disconnect, Pause, Unpause, OInv, DownInv
<1>3. DownInv'
  BY <1>1, <1>2 DEF DownInv
<1>4. StopInv'
  <2>1. stopper = "fork" => psub' # "open" /\ fetched' = <<>>
    BY <1>1 DEF OInv, StopInv
  <2>2. stopper = "self" /\ buf \in Alive => conn' # "up" /\ fetched' = <<>>
    BY <1>1 DEF OInv, StopInv
  <2> QED
    BY <1>1, <2>1, <2>2 DEF OInv, StopInv
<1>5. SentinelInv'
  BY <1>1 DEF OInv, SentinelInv
<1>6. OrderInv'
  <2>1. gap \in BOOLEAN
    BY DEF IInv, FlagsTypeOK
  <2>2. ~gap' => ~gap /\ fetched' = fetched
    BY <1>1, <2>1
  <2> QED
    BY <1>1, <2>2 DEF OInv, OrderInv
<1>7. DrainInv' /\ NeverStranded'
  BY <1>1, BatchLeft
<1> QED
  BY <1>3, <1>4, <1>5, <1>6, <1>7 DEF OInv

(* The sentinel goes on the queue once. *)
LEMMA StopSentinelOrder ==
  ASSUME IInv, OInv, StopSentinel
  PROVE  OInv'
<1>1. /\ stopPc = "sentinel" /\ stopPc' = "wait"
      /\ UNCHANGED <<dseq, dbuf, up, conn, psub, fetched, buf, sequence, pending, started, stopper, gap>>
      /\ queue' = queue \/ (buf \in Running /\ queue' = Append(queue, Sentinel))
  BY DEF StopSentinel, jsVars, drvVars
<1>2. stopper # "none"
  BY <1>1 DEF OInv, StopInv
<1>3. buf \in Alive => fetched = <<>>
  BY <1>2 DEF OInv, StopInv, IInv, PlacesTypeOK
<1>4. /\ buf \notin {"finalFlush", "finalAck", "drained"}
      /\ buf \in Running => \A i \in 1..Len(queue) : queue[i] # Sentinel
  BY <1>1 DEF OInv, SentinelInv
<1>5. /\ Len(queue) \in Nat /\ (queue' # queue => Len(queue') = Len(queue) + 1)
      /\ \A i \in 1..Len(queue) : queue'[i] = queue[i]
      /\ queue' # queue => queue'[Len(queue) + 1] = Sentinel
  <2> DEFINE S == CopiesOf(Pub) \cup {Sentinel}
  <2>1. queue \in Seq(S) /\ Sentinel \in S
    BY HandoffTypes
  <2> HIDE DEF S
  <2> QED
    BY <1>1, <2>1, AppendProperties, LenProperties
<1>6. DownInv'
  BY <1>1, <1>2 DEF OInv, DownInv
<1>7. StopInv'
  BY <1>1, <1>2 DEF OInv, StopInv
<1>8. SentinelInv'
  <2>1. ASSUME NEW i \in 1..Len(queue'), buf \in Running, queue'[i] = Sentinel PROVE i = Len(queue')
    <3>1. i \notin 1..Len(queue)
      BY <1>4, <1>5, <2>1
    <3> QED
      BY <1>5, <3>1
  <2> QED
    BY <1>1, <1>4, <2>1 DEF SentinelInv
<1>9. OrderInv'
  <2> SUFFICES ASSUME buf \in Running, ~gap
               PROVE  \A i \in 1..Len(queue') : queue'[i] # Sentinel => queue'[i].seq = sequence + i
    <3>1. 1..Len(fetched) = {} \/ buf \notin Running
      BY <1>3, EmptySeq DEF Alive
    <3> QED
      BY <1>1, <1>2, <3>1 DEF OrderInv
  <2>1. ASSUME NEW i \in 1..Len(queue'), queue'[i] # Sentinel PROVE queue'[i].seq = sequence + i
    <3>1. i \in 1..Len(queue)
      BY <1>5, <2>1
    <3> QED
      BY <1>5, <2>1, <3>1 DEF OInv, OrderInv
  <2> QED
    BY <2>1
<1>10. DrainInv' /\ NeverStranded'
  BY <1>1, BatchLeft
<1> QED
  BY <1>6, <1>7, <1>8, <1>9, <1>10 DEF OInv

(* The connection is closed, after the drain or in the middle of it. *)
LEMMA StopWaitOrder ==
  ASSUME IInv, OInv, StopWait
  PROVE  OInv'
<1>1. /\ stopPc = "wait" /\ stopPc' = "closed" /\ conn' = "closed"
      /\ buf' = buf \/ (buf \in Running /\ buf' = "cut")
      /\ UNCHANGED <<dseq, dbuf, up, psub, fetched, queue, sequence, pending, started, stopper, gap>>
  BY DEF StopWait, jsVars, drvVars
<1>2. buf' = buf \/ buf' \notin Alive \cup {"off"}
  BY <1>1 DEF Alive, Running
<1>3. DownInv'
  BY <1>1, <1>2 DEF OInv, DownInv, StopInv
<1>4. StopInv'
  BY <1>1, <1>2 DEF OInv, StopInv
<1>5. SentinelInv'
  BY <1>1, <1>2 DEF OInv, SentinelInv, Alive, Running
<1>6. OrderInv'
  BY <1>1, <1>2 DEF OInv, OrderInv, Alive
<1>7. DrainInv' /\ NeverStranded'
  BY <1>1, BatchLeft
<1> QED
  BY <1>3, <1>4, <1>5, <1>6, <1>7 DEF OInv

(* The process ends. *)
LEMMA GoneOrder ==
  ASSUME Exit \/ Crash
  PROVE  OInv'
<1>1. Gone
  BY DEF Exit, Crash
<1>2. DownInv'
  BY <1>1 DEF Gone, DownInv
<1>3. StopInv' /\ SentinelInv'
  BY <1>1, EmptySeq DEF Gone, StopInv, SentinelInv, Running
<1>4. OrderInv' /\ DrainInv' /\ NeverStranded'
  BY <1>1 DEF Gone, OrderInv, DrainInv, NeverStranded, Running
<1> QED
  BY <1>2, <1>3, <1>4 DEF OInv

LEMMA OrderInvariance == Spec => []OInv
<1>1. IInv /\ OInv /\ [Next]_vars => OInv'
  <2> SUFFICES ASSUME IInv, OInv, [Next]_vars PROVE OInv'
    OBVIOUS
  <2>1. CASE UNCHANGED vars
    <3>1. UNCHANGED <<up, conn, psub, fetched, queue, buf, sequence, pending, started, gap, stopper, stopPc, dseq, dbuf>>
      BY <2>1 DEF vars, jsVars, drvVars, wrkVars
    <3> QED
      BY <3>1, QuietFrame, BatchLeft DEF OInv
  <2> QED
    BY <2>1, CreateOrder, ServerOrder, FetchOrder, EnqueueOrder, MessageOrder, TakeSentinelOrder, FlushOrder,
       StopperOrder, LinkOrder, StopSentinelOrder, StopWaitOrder, GoneOrder DEF Next
<1> QED
  BY <1>1, Invariance, InitOrder, PTL DEF Spec

(* The fetch loop and the bounded queue hand every delivery on, in the order  *)
(* of its consumer sequence: the check in process_message can fail only after *)
(* a pause cancelled the fetch loop in the middle of a fetch.                 *)
THEOREM HandoffIsInOrder == Spec => []HandoffInOrder
<1>1. IInv /\ OInv => HandoffInOrder
  <2> SUFFICES ASSUME IInv, OInv, buf \in Running, ~gap, NEW i \in 1..Len(queue \o fetched),
                      (queue \o fetched)[i] # Sentinel
               PROVE  (queue \o fetched)[i].seq = sequence + i
    BY DEF HandoffInOrder
  <2> DEFINE S == CopiesOf(Pub) \cup {Sentinel}
  <2>1. queue \in Seq(S) /\ fetched \in Seq(S) /\ Len(queue) \in Nat /\ Len(fetched) \in Nat /\ sequence \in Nat
    BY HandoffTypes, SeqMonotonic
  <2> HIDE DEF S
  <2>2. /\ Len(queue \o fetched) = Len(queue) + Len(fetched)
        /\ (queue \o fetched)[i] = IF i <= Len(queue) THEN queue[i] ELSE fetched[i - Len(queue)]
    BY <2>1, ConcatProperties
  <2>3. CASE i <= Len(queue)
    <3>1. i \in 1..Len(queue) /\ queue[i] # Sentinel /\ (queue \o fetched)[i] = queue[i]
      BY <2>1, <2>2, <2>3
    <3> QED
      BY <3>1 DEF OInv, OrderInv
  <2>4. CASE i > Len(queue)
    <3>1. i - Len(queue) \in 1..Len(fetched) /\ (queue \o fetched)[i] = fetched[i - Len(queue)]
      BY <2>1, <2>2, <2>4
    <3>2. fetched[i - Len(queue)].seq = sequence + Len(queue) + (i - Len(queue))
      BY <3>1 DEF OInv, OrderInv
    <3> QED
      BY <2>1, <3>1, <3>2
  <2> QED
    BY <2>1, <2>3, <2>4
<1> QED
  BY <1>1, Invariance, OrderInvariance, PTL

(* A message that process_message refuses as out of order is never the fault  *)
(* of a redelivery, a full queue or a restart: a pause has left a gap.        *)
THEOREM RefusedOnlyAfterPause == Spec => [][OutOfOrder => gap]_vars
<1>1. IInv /\ OInv => (OutOfOrder => gap)
  BY NextInOrder DEF OutOfOrder
<1> QED
  BY <1>1, Invariance, OrderInvariance, PTL

(* on_idle reaches every partial batch: process_message leaves none behind    *)
(* without its timer, or full.                                                *)
THEOREM BatchNeverStranded == Spec => []NeverStranded
<1>1. OInv => NeverStranded
  BY DEF OInv
<1> QED
  BY <1>1, OrderInvariance, PTL

(* After the sentinel's flush and acks the queue, the batch and the driver's  *)
(* buffer are empty, whoever stops the consumer, and whatever a disconnect, a *)
(* pause or an unpause does meanwhile.                                        *)
THEOREM DrainIsComplete == Spec => []DrainLeavesNothing
<1>1. OInv => DrainLeavesNothing
  BY DEF OInv, SentinelInv, DrainInv, DrainLeavesNothing
<1> QED
  BY <1>1, OrderInvariance, PTL

=============================================================================
