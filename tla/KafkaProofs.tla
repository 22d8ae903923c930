---------------------------- MODULE KafkaProofs ----------------------------
(***************************************************************************)
(* The Kafka driver's type invariant, LostOnlyByDeadline,                  *)
(* OnePartitionPerKey and NewestLast, for every value of the constants.    *)
(* None is inductive by itself. That a settled event was delivered or      *)
(* overdue follows from where an event in hand can be (LossInv): in the    *)
(* driver's buffer, in the topic or let go, and while an attempt has seen  *)
(* no error its buffer is in the topic or still in line. That a key has    *)
(* one partition follows from RouteInv: a message in line or in the topic  *)
(* was routed with the count the topic has. That a settled newest change   *)
(* is the last message of its row follows from OrderInv and NewestInv,     *)
(* further below.                                                          *)
(***************************************************************************)
EXTENDS Kafka, SequenceTheorems, TLAPS

(* What Append, RemoveAt and \o do to the elements of a sequence. *)
LEMMA AppendRange ==
  ASSUME NEW S, NEW s \in Seq(S), NEW x \in S
  PROVE  Append(s, x) \in Seq(S) /\ Range(Append(s, x)) = Range(s) \cup {x}
<1>1. /\ Append(s, x) \in Seq(S)
      /\ DOMAIN Append(s, x) = 1..(Len(s) + 1) /\ DOMAIN s = 1..Len(s)
      /\ Append(s, x)[Len(s) + 1] = x
      /\ \A i \in 1..Len(s) : Append(s, x)[i] = s[i]
  BY AppendProperties, LenProperties
<1>2. \A i \in 1..(Len(s) + 1) : i \in 1..Len(s) \/ i = Len(s) + 1
  BY LenProperties
<1>3. Range(Append(s, x)) \subseteq Range(s) \cup {x}
  BY <1>1, <1>2 DEF Range
<1>4. \A i \in 1..Len(s) : i \in 1..(Len(s) + 1) /\ Len(s) + 1 \in 1..(Len(s) + 1)
  BY LenProperties
<1>5. Range(s) \subseteq Range(Append(s, x))
  BY <1>1, <1>4 DEF Range
<1>6. x \in Range(Append(s, x))
  <2>1. Len(s) + 1 \in DOMAIN Append(s, x)
    BY <1>1, LenProperties
  <2> QED
    BY <1>1, <2>1 DEF Range
<1> QED
  BY <1>1, <1>3, <1>5, <1>6

LEMMA RemoveAtProperties ==
  ASSUME NEW S, NEW s \in Seq(S), NEW i \in DOMAIN s
  PROVE  /\ RemoveAt(s, i) \in Seq(S)
         /\ Range(RemoveAt(s, i)) \subseteq Range(s)
         /\ \A j \in DOMAIN s \ {i} : s[j] \in Range(RemoveAt(s, i))
         /\ Len(RemoveAt(s, i)) = Len(s) - 1
         /\ \A j \in 1..(Len(s) - 1) : RemoveAt(s, i)[j] = IF j < i THEN s[j] ELSE s[j + 1]
<1> DEFINE r == RemoveAt(s, i)
           a == SubSeq(s, 1, i - 1)
           b == SubSeq(s, i + 1, Len(s))
<1>1. i \in 1..Len(s) /\ Len(s) \in Nat /\ DOMAIN s = 1..Len(s)
  BY LenProperties
<1>2. /\ a \in Seq(S) /\ Len(a) = i - 1
      /\ \A j \in 1..(i - 1) : a[j] = s[j]
  BY <1>1, SubSeqProperties
<1>3. /\ b \in Seq(S) /\ Len(b) = Len(s) - i
      /\ \A j \in 1..(Len(s) - i) : b[j] = s[i + j]
  BY <1>1, SubSeqProperties
<1>4. /\ r \in Seq(S) /\ Len(r) = Len(s) - 1
      /\ \A j \in 1..(Len(s) - 1) : r[j] = IF j < i THEN s[j] ELSE s[j + 1]
  <2>1. r = a \o b
    BY DEF RemoveAt
  <2>2. /\ a \o b \in Seq(S) /\ Len(a \o b) = Len(a) + Len(b)
        /\ \A j \in 1..(Len(a) + Len(b)) :
             (a \o b)[j] = IF j <= Len(a) THEN a[j] ELSE b[j - Len(a)]
    BY <1>2, <1>3, ConcatProperties
  <2> HIDE DEF a, b, r
  <2>3. Len(a) + Len(b) = Len(s) - 1
    BY <1>1, <1>2, <1>3
  <2>4. ASSUME NEW j \in 1..(Len(s) - 1)
        PROVE  r[j] = IF j < i THEN s[j] ELSE s[j + 1]
    <3>1. r[j] = IF j <= Len(a) THEN a[j] ELSE b[j - Len(a)]
      BY <2>1, <2>2, <2>3
    <3>2. CASE j < i
      <4>1. j \in 1..(i - 1) /\ j <= Len(a)
        BY <1>1, <1>2, <3>2
      <4> QED
        BY <1>2, <3>1, <3>2, <4>1
    <3>3. CASE ~(j < i)
      <4>1. j - Len(a) \in 1..(Len(s) - i) /\ ~(j <= Len(a)) /\ i + (j - Len(a)) = j + 1
        BY <1>1, <1>2, <3>3
      <4> QED
        BY <1>3, <3>1, <3>3, <4>1
    <3> QED
      BY <3>2, <3>3
  <2> QED
    BY <2>1, <2>2, <2>3, <2>4
<1>5. DOMAIN r = 1..(Len(s) - 1)
  BY <1>1, <1>4, LenProperties
<1>6. Range(r) \subseteq Range(s)
  BY <1>1, <1>4, <1>5 DEF Range
<1>7. ASSUME NEW j \in DOMAIN s \ {i} PROVE s[j] \in Range(r)
  <2>1. CASE j < i
    <3>1. j \in DOMAIN r /\ r[j] = s[j]
      BY <1>1, <1>4, <1>5, <2>1
    <3> QED
      BY <3>1 DEF Range
  <2>2. CASE j > i
    <3>1. j - 1 \in DOMAIN r /\ r[j - 1] = s[j]
      BY <1>1, <1>4, <1>5, <2>2
    <3> QED
      BY <3>1 DEF Range
  <2> QED
    BY <1>1, <2>1, <2>2
<1> QED
  BY <1>4, <1>6, <1>7

(* balance() stays within the partition count. *)
LEMMA BalanceType ==
  ASSUME NEW k \in Keys, NEW n \in 1..MaxParts
  PROVE  Balance(k, n) \in Partitions
BY KafkaAssumption DEF KafkaAssumption, Balance, Partitions

LEMMA ConcatRange ==
  ASSUME NEW S, NEW s \in Seq(S), NEW t \in Seq(S)
  PROVE  s \o t \in Seq(S) /\ Range(s \o t) = Range(s) \cup Range(t)
<1>1. /\ s \o t \in Seq(S) /\ Len(s \o t) = Len(s) + Len(t)
      /\ \A j \in 1..(Len(s) + Len(t)) :
           (s \o t)[j] = IF j <= Len(s) THEN s[j] ELSE t[j - Len(s)]
  BY ConcatProperties
<1>2. /\ DOMAIN s = 1..Len(s) /\ DOMAIN t = 1..Len(t) /\ Len(s) \in Nat /\ Len(t) \in Nat
      /\ DOMAIN (s \o t) = 1..(Len(s) + Len(t))
  BY <1>1, LenProperties
<1>3. Range(s \o t) \subseteq Range(s) \cup Range(t)
  <2>1. \A j \in 1..(Len(s) + Len(t)) : j \in 1..Len(s) \/ (~(j <= Len(s)) /\ j - Len(s) \in 1..Len(t))
    BY <1>2
  <2>2. \A j \in 1..Len(s) : j <= Len(s)
    BY <1>2
  <2> QED
    BY <1>1, <1>2, <2>1, <2>2 DEF Range
<1>4. Range(s) \subseteq Range(s \o t)
  <2>1. \A j \in 1..Len(s) : j \in 1..(Len(s) + Len(t)) /\ j <= Len(s)
    BY <1>2
  <2> QED
    BY <1>1, <1>2, <2>1 DEF Range
<1>5. ASSUME NEW j \in DOMAIN t PROVE t[j] \in Range(s \o t)
  <2>1. j + Len(s) \in DOMAIN (s \o t) /\ (s \o t)[j + Len(s)] = t[j]
    BY <1>1, <1>2
  <2> QED
    BY <2>1 DEF Range
<1> QED
  BY <1>1, <1>3, <1>4, <1>5 DEF Range

LEMMA RangeType ==
  ASSUME NEW S, NEW s \in Seq(S)
  PROVE  Range(s) \subseteq S
BY LenProperties DEF Range

-----------------------------------------------------------------------------
Pub == DOMAIN log

(* What the driver knows of was published. *)
KnownInv ==
  /\ acked \subseteq Pub
  /\ batch \in Seq(Pub) /\ pending \in Seq(Pub)
  /\ \A x \in Range(outq) : x.m \in Pub
  /\ \A p \in Partitions : topic[p] \in Seq(Pub)

(* The buffer has room between two events, and is empty after a flush. *)
FillInv ==
  /\ pc = "ready" => Len(pending) < SelfFlush
  /\ pc \in {"down", "stopping", "ack"} => pending = <<>>

(* What the attempt under way has produced and librdkafka still has. *)
InLine == {x.m : x \in {y \in Range(outq) : y.cur}}

(* Where an event in hand is: nothing but the deadline lets go of it. *)
LossInv ==
  /\ LostOnlyByDeadline
  /\ Range(batch) \subseteq Range(pending) \cup Delivered \cup overdue
  /\ pc = "wait" /\ error = "none" => Range(pending) \subseteq Delivered \cup InLine

(* Every message is on its way to the partition of its key, or there. *)
RouteInv ==
  parts = Parts =>
    /\ count \in {0, Parts}
    /\ \A x \in Range(outq) : x.p = Balance(log[x.m], Parts)
    /\ \A p \in Partitions : \A m \in Range(topic[p]) : Balance(log[m], Parts) = p

KafkaInv == TypeOK /\ KnownInv /\ FillInv /\ LossInv /\ RouteInv

LEMMA InitKafka == Init => KafkaInv
<1> SUFFICES ASSUME Init PROVE KafkaInv
  OBVIOUS
<1>1. TypeOK
  <2>1. /\ own \in BOOLEAN /\ error \in Errors
        /\ acked \subseteq Msgs /\ overdue \subseteq Msgs /\ early \subseteq Msgs
    BY DEF Init, Errors
  <2>2. /\ log \in Seq(Keys) /\ batch \in Seq(Msgs) /\ pending \in Seq(Msgs) /\ outq \in Seq(Items)
        /\ topic \in [Partitions -> Seq(Msgs)]
    BY DEF Init
  <2>3. /\ count \in 0..MaxParts /\ parts \in Parts..MaxParts /\ faults \in 0..MaxFaults
        /\ Len(log) <= MaxMsgs /\ Len(batch) <= MaxBatch /\ Len(pending) <= SelfFlush
    BY KafkaAssumption DEF Init, KafkaAssumption
  <2> QED
    BY <2>1, <2>2, <2>3 DEF Init, TypeOK
<1>2. /\ Range(outq) = {} /\ Range(batch) = {} /\ Range(pending) = {}
      /\ \A p \in Partitions : Range(topic[p]) = {}
  BY DEF Init, Range
<1>3. KnownInv /\ FillInv
  BY <1>2, KafkaAssumption DEF Init, KnownInv, FillInv, KafkaAssumption
<1>4. LossInv /\ RouteInv
  BY <1>2 DEF Init, LossInv, LostOnlyByDeadline, RouteInv
<1> QED
  BY <1>1, <1>3, <1>4 DEF KafkaInv

LEMMA PublishKeeps == KafkaInv /\ Publish => KafkaInv'
<1> SUFFICES ASSUME KafkaInv, Publish PROVE KafkaInv'
  OBVIOUS
<1>1. PICK k \in Keys : log' = Append(log, k)
  BY DEF Publish
<1>2. /\ log \in Seq(Keys) /\ log' \in Seq(Keys) /\ Len(log') = Len(log) + 1
      /\ \A m \in Pub : m \in Pub' /\ log'[m] = log[m]
  BY <1>1, AppendProperties, LenProperties DEF KafkaInv, TypeOK, Pub
<1>3. TypeOK'
  BY <1>2, KafkaAssumption DEF KafkaInv, TypeOK, Publish, KafkaAssumption
<1>4. KnownInv'
  <2>1. Seq(Pub) \subseteq Seq(Pub')
    BY <1>2, SeqMonotonic
  <2> QED
    BY <1>2, <2>1 DEF KafkaInv, KnownInv, Publish
<1>5. FillInv' /\ LossInv'
  BY DEF KafkaInv, FillInv, LossInv, LostOnlyByDeadline, Delivered, InLine, Publish
<1>6. RouteInv'
  <2>1. \A p \in Partitions : Range(topic[p]) \subseteq Pub
    BY RangeType DEF KafkaInv, KnownInv
  <2> QED
    BY <1>2, <2>1 DEF KafkaInv, KnownInv, RouteInv, Publish, Balance
<1> QED
  BY <1>3, <1>4, <1>5, <1>6 DEF KafkaInv

LEMMA GrowTopicKeeps == KafkaInv /\ GrowTopic => KafkaInv'
<1> SUFFICES ASSUME KafkaInv, GrowTopic PROVE KafkaInv'
  OBVIOUS
<1>1. parts \in Nat /\ parts' # Parts /\ parts' \in Parts..MaxParts
  BY KafkaAssumption DEF KafkaInv, TypeOK, GrowTopic, KafkaAssumption
<1>2. TypeOK'
  BY <1>1 DEF KafkaInv, TypeOK, GrowTopic
<1>3. KnownInv' /\ FillInv' /\ LossInv'
  BY DEF KafkaInv, KnownInv, Pub, FillInv, LossInv, LostOnlyByDeadline, Delivered, InLine, GrowTopic
<1>4. RouteInv'
  BY <1>1 DEF RouteInv
<1> QED
  BY <1>2, <1>3, <1>4 DEF KafkaInv

LEMMA StartKeeps == KafkaInv /\ Start => KafkaInv'
<1> SUFFICES ASSUME KafkaInv, Start PROVE KafkaInv'
  OBVIOUS
<1>1. TypeOK'
  BY KafkaAssumption DEF KafkaInv, TypeOK, Start, KafkaAssumption
<1>2. KnownInv' /\ FillInv'
  BY KafkaAssumption DEF KafkaInv, KnownInv, Pub, FillInv, Start, KafkaAssumption
<1>3. LossInv'
  BY DEF KafkaInv, LossInv, LostOnlyByDeadline, Delivered, InLine, Start
<1>4. RouteInv'
  BY DEF KafkaInv, RouteInv, Start
<1> QED
  BY <1>1, <1>2, <1>3, <1>4 DEF KafkaInv

LEMMA ProcessKeeps == KafkaInv /\ Process => KafkaInv'
<1> SUFFICES ASSUME KafkaInv, Process PROVE KafkaInv'
  OBVIOUS
<1>1. PICK m \in Msgs : /\ Deliverable(m)
                        /\ batch' = Append(batch, m) /\ pending' = Append(pending, m)
  BY DEF Process
<1>2. m \in Pub
  BY <1>1 DEF Deliverable, Pub
<1>3. /\ batch' \in Seq(Msgs) /\ pending' \in Seq(Msgs)
      /\ Len(batch') = Len(batch) + 1 /\ Len(pending') = Len(pending) + 1
      /\ Len(batch) \in Nat /\ Len(pending) \in Nat
  BY <1>1, AppendProperties, LenProperties DEF KafkaInv, TypeOK
<1>4. /\ batch' \in Seq(Pub) /\ Range(batch') = Range(batch) \cup {m}
      /\ pending' \in Seq(Pub) /\ Range(pending') = Range(pending) \cup {m}
  BY <1>1, <1>2, AppendRange DEF KafkaInv, KnownInv
<1>5. TypeOK'
  <2>1. Len(batch') <= MaxBatch /\ Len(pending') <= SelfFlush
    BY <1>3, KafkaAssumption DEF KafkaInv, FillInv, Process, KafkaAssumption
  <2>2. own' \in BOOLEAN /\ pc' \in {"produce", "ready"}
    BY DEF Process
  <2> QED
    BY <1>3, <2>1, <2>2 DEF KafkaInv, TypeOK, Process
<1>6. KnownInv'
  BY <1>4 DEF KafkaInv, KnownInv, Pub, Process
<1>7. FillInv'
  <2>1. pc' \in {"produce", "ready"}
    BY DEF Process
  <2>2. pc' = "ready" => ~(Len(pending') >= SelfFlush)
    BY DEF Process
  <2>3. ~(Len(pending') >= SelfFlush) => Len(pending') < SelfFlush
    BY <1>3, KafkaAssumption DEF KafkaAssumption
  <2> QED
    BY <2>1, <2>2, <2>3 DEF FillInv
<1>8. LossInv'
  BY <1>4 DEF KafkaInv, LossInv, LostOnlyByDeadline, Delivered, Process
<1>9. RouteInv'
  BY DEF KafkaInv, RouteInv, Process
<1> QED
  BY <1>5, <1>6, <1>7, <1>8, <1>9 DEF KafkaInv

LEMMA FlushIdleKeeps == KafkaInv /\ FlushIdle => KafkaInv'
<1> SUFFICES ASSUME KafkaInv, FlushIdle PROVE KafkaInv'
  OBVIOUS
<1>1. TypeOK'
  BY DEF KafkaInv, TypeOK, FlushIdle
<1>2. KnownInv' /\ FillInv'
  BY DEF KafkaInv, KnownInv, Pub, FillInv, FlushIdle
<1>3. LossInv'
  BY DEF KafkaInv, LossInv, LostOnlyByDeadline, Delivered, FlushIdle
<1>4. RouteInv'
  BY DEF KafkaInv, RouteInv, FlushIdle
<1> QED
  BY <1>1, <1>2, <1>3, <1>4 DEF KafkaInv

(* The batch is let go: nothing of it was acked. *)
LEMMA AbortKeeps ==
  ASSUME KafkaInv,
         pc' \in {"down", "stopping"},
         batch' = <<>>, pending' = <<>>, own' = FALSE, error' = "none",
         acked' \subseteq acked \cup Range(batch), pc = "ack" \/ acked' = acked,
         outq' = outq \/ outq' = <<>>,
         faults' \in 0..MaxFaults,
         UNCHANGED <<log, count, parts, topic, overdue, early>>
  PROVE  KafkaInv'
<1>1. Range(outq') \subseteq Range(outq) /\ Range(batch') = {} /\ Range(pending') = {}
  BY DEF Range
<1>2. Range(batch) \subseteq Pub /\ Pub \subseteq Msgs /\ SelfFlush >= 0 /\ MaxBatch >= 0
  BY RangeType, LenProperties, KafkaAssumption DEF KafkaInv, KnownInv, TypeOK, Pub, Msgs, KafkaAssumption
<1>3. TypeOK'
  <2>1. acked' \subseteq Msgs
    BY <1>2 DEF KafkaInv, TypeOK
  <2>2. /\ batch' \in Seq(Msgs) /\ Len(batch') = 0 /\ pending' \in Seq(Msgs) /\ Len(pending') = 0
        /\ outq' \in Seq(Items)
    <3>1. /\ <<>> \in Seq(Msgs) /\ <<>> \in Seq(Items)
      BY EmptySeq
    <3>2. outq \in Seq(Items)
      BY DEF KafkaInv, TypeOK
    <3> QED
      BY <3>1, <3>2, EmptySeq
  <2>3. own' \in BOOLEAN /\ error' \in Errors /\ pc' \in {"down", "ready", "produce", "wait", "ack", "stopping"}
    BY DEF Errors
  <2>4. Len(batch') <= MaxBatch /\ Len(pending') <= SelfFlush
    BY <1>2, <2>2
  <2>5. log' = log /\ count' = count /\ parts' = parts /\ topic' = topic /\ overdue' = overdue /\ early' = early
    OBVIOUS
  <2> QED
    BY <2>1, <2>2, <2>3, <2>4, <2>5 DEF KafkaInv, TypeOK
<1>4. KnownInv' /\ FillInv'
  BY <1>1, <1>2 DEF KafkaInv, KnownInv, FillInv, Pub
<1>5. LossInv'
  BY <1>1 DEF KafkaInv, FillInv, LossInv, LostOnlyByDeadline, Delivered, Range
<1>6. RouteInv'
  BY <1>1 DEF KafkaInv, RouteInv
<1> QED
  BY <1>3, <1>4, <1>5, <1>6 DEF KafkaInv

LEMMA EndKeeps ==
  KafkaInv /\ (ResolveFails \/ FlushRaises \/ AckFails \/ Terminate \/ Crash) => KafkaInv'
<1> SUFFICES ASSUME KafkaInv, ResolveFails \/ FlushRaises \/ AckFails \/ Terminate \/ Crash
             PROVE  KafkaInv'
  OBVIOUS
<1>1. faults' \in 0..MaxFaults
  BY KafkaAssumption DEF KafkaInv, TypeOK, KafkaAssumption, Fault, ResolveFails, FlushRaises, AckFails, Terminate, Crash
<1>2. CASE ResolveFails \/ FlushRaises \/ Terminate \/ Crash
  BY <1>1, <1>2, AbortKeeps DEF Abort, ResolveFails, FlushRaises, Terminate, Crash
<1>3. CASE AckFails
  <2>1. PICK n \in 0..(Len(batch) - 1) : acked' = acked \cup {batch[i] : i \in 1..n}
    BY <1>3 DEF AckFails
  <2>2. \A i \in 1..n : i \in DOMAIN batch
    BY LenProperties DEF KafkaInv, TypeOK
  <2>3. acked' \subseteq acked \cup Range(batch)
    BY <2>1, <2>2 DEF Range
  <2> QED
    BY <1>1, <1>3, <2>3, AbortKeeps DEF Abort, AckFails
<1> QED
  BY <1>2, <1>3

LEMMA StoppedKeeps == KafkaInv /\ Stopped => KafkaInv'
<1> SUFFICES ASSUME KafkaInv, Stopped PROVE KafkaInv'
  OBVIOUS
<1>1. Range(outq') = {}
  BY DEF Stopped, Range
<1>2. TypeOK'
  BY DEF KafkaInv, TypeOK, Stopped
<1>3. KnownInv' /\ FillInv'
  BY <1>1 DEF KafkaInv, KnownInv, Pub, FillInv, Stopped
<1>4. LossInv'
  BY DEF KafkaInv, LossInv, LostOnlyByDeadline, Delivered, Stopped
<1>5. RouteInv'
  BY <1>1 DEF KafkaInv, RouteInv, Stopped
<1> QED
  BY <1>2, <1>3, <1>4, <1>5 DEF KafkaInv

LEMMA AckKeeps == KafkaInv /\ Ack => KafkaInv'
<1> SUFFICES ASSUME KafkaInv, Ack PROVE KafkaInv'
  OBVIOUS
<1>1. Range(batch) \subseteq Pub /\ Range(batch) \subseteq Msgs /\ Range(batch') = {} /\ Range(pending) = {}
  BY RangeType DEF KafkaInv, KnownInv, FillInv, TypeOK, Ack, Range
<1>2. TypeOK'
  <2>1. acked' \subseteq Msgs /\ own' \in BOOLEAN
    BY <1>1 DEF KafkaInv, TypeOK, Ack, Pending
  <2>2. batch' \in Seq(Msgs) /\ Len(batch') <= MaxBatch
    BY KafkaAssumption DEF Ack, KafkaAssumption
  <2> QED
    BY <2>1, <2>2 DEF KafkaInv, TypeOK, Ack
<1>3. KnownInv' /\ FillInv'
  BY <1>1, KafkaAssumption DEF KafkaInv, KnownInv, Pub, FillInv, Ack, Pending, KafkaAssumption
<1>4. LossInv'
  BY <1>1 DEF KafkaInv, LossInv, LostOnlyByDeadline, Delivered, Ack, Pending
<1>5. RouteInv'
  BY DEF KafkaInv, RouteInv, Ack
<1> QED
  BY <1>2, <1>3, <1>4, <1>5 DEF KafkaInv

(* A flush ends without an error: what it drops is delivered or overdue. *)
LEMMA LetGoKeeps ==
  ASSUME KafkaInv,
         pending' = <<>>, pc' \in {"ready", "ack"}, error' \in Errors,
         overdue \subseteq overdue', overdue' \subseteq Msgs,
         Range(pending) \subseteq Delivered \cup overdue',
         faults' \in 0..MaxFaults,
         UNCHANGED <<log, acked, batch, own, count, outq, parts, topic, early>>
  PROVE  KafkaInv'
<1>1. Range(pending') = {} /\ Len(pending') = 0 /\ pending' \in Seq(Msgs) /\ pending' \in Seq(Pub)
  BY DEF Range
<1>2. Len(pending') < SelfFlush /\ Len(pending') <= SelfFlush
  BY <1>1, KafkaAssumption DEF KafkaAssumption
<1>3. TypeOK'
  BY <1>1, <1>2 DEF KafkaInv, TypeOK
<1>4. KnownInv' /\ FillInv'
  BY <1>1, <1>2 DEF KafkaInv, KnownInv, Pub, FillInv
<1>5. LossInv'
  BY <1>1 DEF KafkaInv, LossInv, LostOnlyByDeadline, Delivered
<1>6. RouteInv'
  BY DEF KafkaInv, RouteInv
<1> QED
  BY <1>3, <1>4, <1>5, <1>6 DEF KafkaInv

LEMMA LeaderMissingKeeps == KafkaInv /\ LeaderMissing => KafkaInv'
<1> SUFFICES ASSUME KafkaInv, LeaderMissing PROVE KafkaInv'
  OBVIOUS
<1>1. faults' \in 0..MaxFaults
  BY KafkaAssumption DEF KafkaInv, TypeOK, KafkaAssumption, Fault, LeaderMissing
<1>2. CASE UNCHANGED <<pc, pending, overdue>>
  <2>1. UNCHANGED <<log, acked, pc, batch, pending, own, count, outq, error, parts, topic, overdue, early>>
    BY <1>2 DEF LeaderMissing
  <2>2. TypeOK'
    BY <1>1, <2>1 DEF KafkaInv, TypeOK
  <2>3. KnownInv' /\ FillInv' /\ LossInv' /\ RouteInv'
    BY <2>1 DEF KafkaInv, KnownInv, Pub, FillInv, LossInv, LostOnlyByDeadline, Delivered, InLine, RouteInv
  <2> QED
    BY <2>2, <2>3 DEF KafkaInv
<1>3. CASE /\ pending' = <<>>
           /\ overdue' = overdue \cup Range(pending)
           /\ pc' = AfterFlush
  <2>1. Range(pending) \subseteq Msgs
    BY RangeType DEF KafkaInv, TypeOK
  <2>2. overdue' \subseteq Msgs /\ error' \in Errors /\ pc' \in {"ready", "ack"}
    BY <1>3, <2>1 DEF KafkaInv, TypeOK, AfterFlush, LeaderMissing
  <2> QED
    BY <1>1, <1>3, <2>2, LetGoKeeps DEF LeaderMissing
<1> QED
  BY <1>2, <1>3 DEF LeaderMissing

LEMMA GiveUpKeeps == KafkaInv /\ GiveUp => KafkaInv'
<1> SUFFICES ASSUME KafkaInv, GiveUp PROVE KafkaInv'
  OBVIOUS
<1>1. Range(pending) \subseteq Msgs
  BY RangeType DEF KafkaInv, TypeOK
<1>2. overdue' \subseteq Msgs /\ error' \in Errors /\ pc' \in {"ready", "ack"} /\ faults' \in 0..MaxFaults
  BY <1>1 DEF KafkaInv, TypeOK, AfterFlush, GiveUp, Errors
<1> QED
  BY <1>2, LetGoKeeps DEF GiveUp

LEMMA ProducerFlushedKeeps == KafkaInv /\ ProducerFlushed => KafkaInv'
<1> SUFFICES ASSUME KafkaInv, ProducerFlushed PROVE KafkaInv'
  OBVIOUS
<1>1. faults' \in 0..MaxFaults
  BY KafkaAssumption DEF KafkaInv, TypeOK, KafkaAssumption, Fault, ProducerFlushed
<1>2. overdue' = overdue \cup {x.m : x \in Range(outq)}
  BY DEF ProducerFlushed, Range
<1>3. \A x \in Range(outq) : x.m \in Msgs
  <2>1. Range(outq) \subseteq Items
    BY RangeType DEF KafkaInv, TypeOK
  <2> QED
    BY <2>1 DEF Items
<1>4. overdue' \subseteq Msgs /\ error' \in Errors /\ pc' \in {"ready", "ack"}
  BY <1>2, <1>3 DEF KafkaInv, TypeOK, AfterFlush, ProducerFlushed
<1>5. Range(pending) \subseteq Delivered \cup overdue'
  BY <1>2 DEF KafkaInv, LossInv, InLine, ProducerFlushed
<1> QED
  BY <1>1, <1>2, <1>4, <1>5, LetGoKeeps DEF ProducerFlushed

LEMMA RetryKeeps == KafkaInv /\ Retry => KafkaInv'
<1> SUFFICES ASSUME KafkaInv, Retry PROVE KafkaInv'
  OBVIOUS
<1>1. TypeOK'
  BY DEF KafkaInv, TypeOK, Retry, Errors
<1>2. KnownInv' /\ FillInv'
  BY DEF KafkaInv, KnownInv, Pub, FillInv, Retry
<1>3. LossInv' /\ RouteInv'
  BY DEF KafkaInv, LossInv, LostOnlyByDeadline, Delivered, RouteInv, Retry
<1> QED
  BY <1>1, <1>2, <1>3 DEF KafkaInv

LEMMA ProduceAllKeeps == KafkaInv /\ ProduceAll => KafkaInv'
<1> SUFFICES ASSUME KafkaInv, ProduceAll PROVE KafkaInv'
  OBVIOUS
<1> DEFINE old == [i \in DOMAIN outq |-> [outq[i] EXCEPT !.cur = FALSE]]
           new == [i \in DOMAIN pending |->
                     [m |-> pending[i], p |-> Balance(log[pending[i]], count'), cur |-> TRUE]]
<1>1. /\ DOMAIN outq = 1..Len(outq) /\ Len(outq) \in Nat
      /\ DOMAIN pending = 1..Len(pending) /\ Len(pending) \in Nat
  BY LenProperties DEF KafkaInv, TypeOK
<1>2. count' \in 1..MaxParts
  BY KafkaAssumption DEF KafkaInv, TypeOK, ProduceAll, KafkaAssumption
<1>3. \A i \in DOMAIN outq : outq[i] \in Items /\ outq[i] \in Range(outq)
  BY <1>1 DEF KafkaInv, TypeOK, Range
<1>4. /\ \A i \in DOMAIN pending : pending[i] \in Msgs /\ pending[i] \in Pub
      /\ \A m \in Pub : log[m] \in Keys
  BY <1>1, LenProperties DEF KafkaInv, TypeOK, KnownInv, Pub
<1>5. old \in Seq(Items)
  <2>1. \A i \in 1..Len(outq) : [outq[i] EXCEPT !.cur = FALSE] \in Items
    BY <1>1, <1>3 DEF Items
  <2> QED
    BY <1>1, <2>1, IsASeq
<1>6. new \in Seq(Items)
  <2>1. ASSUME NEW i \in 1..Len(pending)
        PROVE  [m |-> pending[i], p |-> Balance(log[pending[i]], count'), cur |-> TRUE] \in Items
    <3>1. pending[i] \in Msgs /\ Balance(log[pending[i]], count') \in Partitions
      BY <1>1, <1>2, <1>4, BalanceType
    <3> QED
      BY <3>1 DEF Items
  <2> QED
    BY <1>1, <2>1, IsASeq
<1>7. outq' \in Seq(Items) /\ Range(outq') = Range(old) \cup Range(new)
  <2>1. outq' = old \o new
    BY DEF ProduceAll
  <2> HIDE DEF old, new
  <2> QED
    BY <1>5, <1>6, <2>1, ConcatRange
<1>8. \A x \in Range(old) : \E y \in Range(outq) : x.m = y.m /\ x.p = y.p
  <2>1. \A i \in DOMAIN outq : old[i].m = outq[i].m /\ old[i].p = outq[i].p
    BY <1>3 DEF Items
  <2> QED
    BY <1>3, <2>1 DEF Range
<1>9. \A x \in Range(new) : x.m \in Range(pending) /\ x.p = Balance(log[x.m], count')
  BY DEF Range
<1>10. \A m \in Range(pending) : \E x \in Range(new) : x.m = m /\ x.cur
  <2>1. ASSUME NEW i \in DOMAIN pending
        PROVE  new[i] \in Range(new) /\ new[i].m = pending[i] /\ new[i].cur
    BY DEF Range
  <2> QED
    BY <2>1 DEF Range
<1> HIDE DEF old, new
<1>11. TypeOK'
  <2>1. error' \in Errors /\ pc' = "wait" /\ count' \in 0..MaxParts
    BY <1>2 DEF ProduceAll, Errors
  <2> QED
    BY <1>7, <2>1 DEF KafkaInv, TypeOK, ProduceAll
<1>12. KnownInv'
  <2>1. \A x \in Range(outq') : x.m \in Pub
    BY <1>4, <1>7, <1>8, <1>9, RangeType DEF KafkaInv, KnownInv
  <2> QED
    BY <2>1 DEF KafkaInv, KnownInv, Pub, ProduceAll
<1>13. FillInv'
  BY DEF FillInv, ProduceAll
<1>14. LossInv'
  <2>1. Range(pending) \subseteq InLine'
    BY <1>7, <1>10 DEF InLine
  <2> QED
    BY <2>1 DEF KafkaInv, LossInv, LostOnlyByDeadline, Delivered, ProduceAll
<1>15. RouteInv'
  <2> SUFFICES ASSUME parts' = Parts PROVE RouteInv'
    BY DEF RouteInv
  <2>1. count' = Parts
    BY DEF KafkaInv, RouteInv, ProduceAll
  <2>2. \A x \in Range(outq') : x.p = Balance(log[x.m], Parts)
    BY <1>7, <1>8, <1>9, <2>1 DEF KafkaInv, RouteInv, ProduceAll
  <2> QED
    BY <2>1, <2>2 DEF KafkaInv, RouteInv, ProduceAll
<1> QED
  BY <1>11, <1>12, <1>13, <1>14, <1>15 DEF KafkaInv

(* One message leaves the line. *)
LEMMA RemovedItem ==
  ASSUME KafkaInv, NEW i \in DOMAIN outq
  PROVE  /\ RemoveAt(outq, i) \in Seq(Items)
         /\ Range(RemoveAt(outq, i)) \subseteq Range(outq)
         /\ \A y \in Range(outq) : y = outq[i] \/ y \in Range(RemoveAt(outq, i))
<1>1. outq \in Seq(Items)
  BY DEF KafkaInv, TypeOK
<1>2. /\ RemoveAt(outq, i) \in Seq(Items)
      /\ Range(RemoveAt(outq, i)) \subseteq Range(outq)
      /\ \A j \in DOMAIN outq \ {i} : outq[j] \in Range(RemoveAt(outq, i))
  BY <1>1, RemoveAtProperties
<1>3. ASSUME NEW y \in Range(outq) PROVE y = outq[i] \/ y \in Range(RemoveAt(outq, i))
  <2>1. PICK j \in DOMAIN outq : y = outq[j]
    BY DEF Range
  <2> QED
    BY <1>2, <2>1
<1> QED
  BY <1>2, <1>3

(* A message gets to its partition, and leaves the line or is sent again. *)
LEMMA AppendedKeeps ==
  ASSUME KafkaInv, NEW i \in DOMAIN outq, Appended(i),
         outq' = RemoveAt(outq, i) \/ outq' = outq,
         faults' \in 0..MaxFaults, early' \subseteq early \cup {outq[i].m},
         UNCHANGED <<log, acked, pc, batch, pending, own, count, error, parts, overdue>>
  PROVE  KafkaInv'
<1>1. topic' = [topic EXCEPT ![outq[i].p] = Append(@, outq[i].m)]
  BY DEF Appended
<1> DEFINE x == outq[i]
<1>2. x \in Range(outq) /\ x \in Items /\ x.p \in Partitions /\ x.m \in Msgs /\ x.m \in Pub
  <2>1. outq \in Seq(Items)
    BY DEF KafkaInv, TypeOK
  <2>2. x \in Range(outq) /\ x \in Items
    BY <2>1, RangeType DEF Range
  <2>3. x.m \in Pub
    BY <2>2 DEF KafkaInv, KnownInv
  <2> QED
    BY <2>2, <2>3 DEF Items
<1>3. /\ outq' \in Seq(Items) /\ Range(outq') \subseteq Range(outq)
      /\ \A y \in Range(outq) : y = x \/ y \in Range(outq')
  <2>1. CASE outq' = RemoveAt(outq, i)
    BY <2>1, RemovedItem
  <2>2. CASE outq' = outq
    BY <2>2 DEF KafkaInv, TypeOK
  <2> QED
    BY <2>1, <2>2
<1> HIDE DEF x
<1>4. topic' = [topic EXCEPT ![x.p] = Append(topic[x.p], x.m)]
  BY <1>1 DEF x
<1>5. /\ Append(topic[x.p], x.m) \in Seq(Msgs) /\ Append(topic[x.p], x.m) \in Seq(Pub)
      /\ Range(Append(topic[x.p], x.m)) = Range(topic[x.p]) \cup {x.m}
  BY <1>2, AppendRange DEF KafkaInv, TypeOK, KnownInv
<1>6. /\ topic' \in [Partitions -> Seq(Msgs)]
      /\ \A p \in Partitions : topic'[p] \in Seq(Pub)
      /\ \A p \in Partitions : Range(topic'[p]) = IF p = x.p THEN Range(topic[p]) \cup {x.m}
                                                             ELSE Range(topic[p])
  BY <1>2, <1>4, <1>5 DEF KafkaInv, TypeOK, KnownInv
<1>7. Delivered' = Delivered \cup {x.m}
  BY <1>2, <1>6 DEF Delivered
<1>8. TypeOK'
  <2>1. early' \subseteq Msgs
    BY <1>2 DEF KafkaInv, TypeOK, x
  <2> QED
    BY <1>3, <1>6, <2>1 DEF KafkaInv, TypeOK
<1>9. KnownInv' /\ FillInv'
  BY <1>3, <1>6 DEF KafkaInv, KnownInv, Pub, FillInv
<1>10. InLine \subseteq InLine' \cup {x.m}
  BY <1>3 DEF InLine
<1>11. LossInv'
  BY <1>7, <1>10 DEF KafkaInv, LossInv, LostOnlyByDeadline
<1>12. RouteInv'
  <2> SUFFICES ASSUME parts' = Parts PROVE RouteInv'
    BY DEF RouteInv
  <2>1. /\ count \in {0, Parts}
        /\ \A y \in Range(outq) : y.p = Balance(log[y.m], Parts)
        /\ \A p \in Partitions : \A m \in Range(topic[p]) : Balance(log[m], Parts) = p
    BY DEF KafkaInv, RouteInv
  <2>2. log' = log /\ count' = count
    OBVIOUS
  <2>3. \A y \in Range(outq') : y.p = Balance(log'[y.m], Parts)
    BY <1>3, <2>1, <2>2
  <2>4. ASSUME NEW p \in Partitions, NEW m \in Range(topic'[p])
        PROVE  Balance(log'[m], Parts) = p
    BY <1>2, <1>6, <2>1, <2>2
  <2> QED
    BY <2>1, <2>2, <2>3, <2>4 DEF RouteInv
<1> QED
  BY <1>8, <1>9, <1>11, <1>12 DEF KafkaInv

LEMMA BrokerTakesKeeps == KafkaInv /\ (BrokerAccepts \/ BrokerReorders \/ BrokerRepeats) => KafkaInv'
<1> SUFFICES ASSUME KafkaInv, BrokerAccepts \/ BrokerReorders \/ BrokerRepeats PROVE KafkaInv'
  OBVIOUS
<1>1. faults' \in 0..MaxFaults
  BY KafkaAssumption DEF KafkaInv, TypeOK, KafkaAssumption, Fault, BrokerAccepts, BrokerReorders, BrokerRepeats
<1>2. CASE BrokerAccepts
  BY <1>1, <1>2, AppendedKeeps DEF BrokerAccepts
<1>3. CASE BrokerReorders
  BY <1>1, <1>3, AppendedKeeps DEF BrokerReorders
<1>4. CASE BrokerRepeats
  BY <1>1, <1>4, AppendedKeeps DEF BrokerRepeats
<1> QED
  BY <1>2, <1>3, <1>4

LEMMA BrokerRejectsKeeps == KafkaInv /\ BrokerRejects => KafkaInv'
<1> SUFFICES ASSUME KafkaInv, BrokerRejects PROVE KafkaInv'
  OBVIOUS
<1>1. faults' \in 0..MaxFaults
  BY KafkaAssumption DEF KafkaInv, TypeOK, KafkaAssumption, Fault, BrokerRejects
<1>2. PICK i \in DOMAIN outq, err \in {"leader", "other"} :
        /\ outq' = RemoveAt(outq, i)
        /\ error' = IF pc = "wait" /\ outq[i].cur /\ error = "none" THEN err ELSE error
  BY DEF BrokerRejects
<1>3. /\ outq' \in Seq(Items) /\ Range(outq') \subseteq Range(outq)
      /\ \A y \in Range(outq) : y = outq[i] \/ y \in Range(outq')
  BY <1>2, RemovedItem
<1>4. error' \in Errors
  BY <1>2 DEF KafkaInv, TypeOK, Errors
<1>5. TypeOK'
  BY <1>1, <1>3, <1>4 DEF KafkaInv, TypeOK, BrokerRejects
<1>6. KnownInv' /\ FillInv'
  BY <1>3 DEF KafkaInv, KnownInv, Pub, FillInv, BrokerRejects
<1>7. pc = "wait" /\ error' = "none" => error = "none" /\ ~outq[i].cur
  BY <1>2
<1>8. ~outq[i].cur => InLine \subseteq InLine'
  BY <1>3 DEF InLine
<1>9. LossInv'
  BY <1>7, <1>8 DEF KafkaInv, LossInv, LostOnlyByDeadline, Delivered, BrokerRejects
<1>10. RouteInv'
  BY <1>3 DEF KafkaInv, RouteInv, BrokerRejects
<1> QED
  BY <1>5, <1>6, <1>9, <1>10 DEF KafkaInv

LEMMA NextKeeps == KafkaInv /\ [Next]_vars => KafkaInv'
<1> SUFFICES ASSUME KafkaInv, [Next]_vars PROVE KafkaInv'
  OBVIOUS
<1>1. CASE Next
  BY <1>1, PublishKeeps, GrowTopicKeeps, StartKeeps, ProcessKeeps, FlushIdleKeeps, ProduceAllKeeps,
     ProducerFlushedKeeps, RetryKeeps, GiveUpKeeps, EndKeeps, AckKeeps, StoppedKeeps,
     BrokerTakesKeeps, LeaderMissingKeeps, BrokerRejectsKeeps
     DEF Next, Work
<1>2. CASE UNCHANGED vars
  <2>1. TypeOK'
    BY <1>2 DEF KafkaInv, TypeOK, vars
  <2>2. KnownInv' /\ FillInv' /\ LossInv' /\ RouteInv'
    BY <1>2 DEF vars, KafkaInv, KnownInv, Pub, FillInv, LossInv, LostOnlyByDeadline, Delivered, InLine, RouteInv
  <2> QED
    BY <2>1, <2>2 DEF KafkaInv
<1> QED
  BY <1>1, <1>2

-----------------------------------------------------------------------------
(***************************************************************************)
(* Every reachable state of the driver, librdkafka and the broker is in    *)
(* the inductive invariant, so it has the declared types: the driver's     *)
(* buffer never exceeds its own limit, the batch never the processor's.    *)
(***************************************************************************)
THEOREM KafkaTypeCorrect == Spec => []TypeOK
<1>1. KafkaInv => TypeOK
  BY DEF KafkaInv
<1> QED
  BY <1>1, InitKafka, NextKeeps, PTL DEF Spec

(***************************************************************************)
(* For any number of events, partitions, batch limits and faults: what is  *)
(* acked with the server is in the topic, unless a flush of the driver let *)
(* it go because its ten seconds were over.                                *)
(***************************************************************************)
THEOREM KafkaLossTheorem == Spec => []LostOnlyByDeadline
<1>1. KafkaInv => LostOnlyByDeadline
  BY DEF KafkaInv, LossInv
<1> QED
  BY <1>1, InitKafka, NextKeeps, PTL DEF Spec

(***************************************************************************)
(* For any hash and any number of partitions: as long as the topic is not  *)
(* grown, two messages of one key are never in two partitions, whatever    *)
(* fails while the driver resolves the count and however often it starts.  *)
(***************************************************************************)
THEOREM KafkaRoutingTheorem == Spec => []OnePartitionPerKey
<1>1. KafkaInv => OnePartitionPerKey
  BY DEF KafkaInv, RouteInv, OnePartitionPerKey
<1> QED
  BY <1>1, InitKafka, NextKeeps, PTL DEF Spec

-----------------------------------------------------------------------------
(***************************************************************************)
(* The newest message of a row is the last one in the topic. What is acked *)
(* is a prefix of the events, the batch follows it, and the driver's       *)
(* buffer is the end of the batch (OrderInv), so that nothing older than   *)
(* an event the driver is done with is sent again. While an attempt has    *)
(* seen no error the newest event of a row in its buffer is the last one   *)
(* of the row in line, or already the last in the topic (NewestInv).       *)
(***************************************************************************)
InOrder(a) ==
  /\ acked = 1..a
  /\ Len(pending) <= Len(batch)
  /\ \A i \in 1..Len(batch) : batch[i] = a + i
  /\ \A i \in 1..Len(pending) : pending[i] = a + Len(batch) - Len(pending) + i

OrderInv == \E a \in Nat : InOrder(a)

(* The driver is done with event m. *)
Done(m) == m \in acked \/ (m \in Range(batch) /\ m \notin Range(pending))

Newest(m) == \A n \in DOMAIN log : n > m => log[n] # log[m]

AtEnd(m) ==
  /\ EndsWith(Balance(log[m], Parts), m)
  /\ \A x \in Range(outq) : log[x.m] # log[m]

LastAt(c, m) ==
  /\ outq[c].m = m /\ outq[c].cur
  /\ \A j \in DOMAIN outq : j > c => log[outq[j].m] # log[m]

LastInLine(m) == \E c \in DOMAIN outq : LastAt(c, m)

(* What NewestLast does not speak of. *)
Excused == overdue \cup early

NewestInv ==
  parts = Parts =>
    \A m \in DOMAIN log \ Excused :
      Newest(m) =>
        /\ Done(m) => AtEnd(m)
        /\ pc = "wait" /\ error = "none" /\ m \in Range(pending) => AtEnd(m) \/ LastInLine(m)

LEMMA RangeIs ==
  ASSUME NEW S, NEW s \in Seq(S)
  PROVE  /\ Len(s) \in Nat /\ DOMAIN s = 1..Len(s)
         /\ \A x : x \in Range(s) <=> \E i \in 1..Len(s) : s[i] = x
BY LenProperties DEF Range

LEMMA CountedRange ==
  ASSUME NEW S, NEW s \in Seq(S), NEW b \in Int, \A i \in 1..Len(s) : s[i] = b + i
  PROVE  Range(s) = (b + 1)..(b + Len(s))
<1>1. Len(s) \in Nat
  BY LenProperties
<1>2. ASSUME NEW x \in Range(s) PROVE x \in (b + 1)..(b + Len(s))
  BY <1>1, RangeIs
<1>3. ASSUME NEW x \in (b + 1)..(b + Len(s)) PROVE x \in Range(s)
  <2>1. x - b \in 1..Len(s) /\ b + (x - b) = x
    BY <1>1
  <2> QED
    BY <2>1, RangeIs
<1> QED
  BY <1>2, <1>3

LEMMA OrderFacts ==
  ASSUME KafkaInv, NEW a \in Nat, InOrder(a)
  PROVE  /\ acked = 1..a /\ Len(batch) \in Nat /\ Len(pending) \in Nat /\ Len(pending) <= Len(batch)
         /\ Range(batch) = (a + 1)..(a + Len(batch))
         /\ Range(pending) = (a + Len(batch) - Len(pending) + 1)..(a + Len(batch))
         /\ \A m \in DOMAIN log : Done(m) => m <= a + Len(batch) - Len(pending)
<1>1. batch \in Seq(Msgs) /\ pending \in Seq(Msgs) /\ log \in Seq(Keys)
  BY DEF KafkaInv, TypeOK
<1>2. Len(batch) \in Nat /\ Len(pending) \in Nat /\ Len(pending) <= Len(batch) /\ acked = 1..a
  BY <1>1, LenProperties DEF InOrder
<1>3. Range(batch) = (a + 1)..(a + Len(batch))
  BY <1>1, CountedRange DEF InOrder
<1>4. Range(pending) = (a + Len(batch) - Len(pending) + 1)..(a + Len(batch))
  <2>1. /\ a + Len(batch) - Len(pending) \in Int
        /\ (a + Len(batch) - Len(pending)) + Len(pending) = a + Len(batch)
        /\ \A i \in 1..Len(pending) : pending[i] = (a + Len(batch) - Len(pending)) + i
    BY <1>2 DEF InOrder
  <2>2. Range(pending) = ((a + Len(batch) - Len(pending)) + 1)..((a + Len(batch) - Len(pending)) + Len(pending))
    BY <1>1, <2>1, CountedRange
  <2> QED
    BY <2>1, <2>2
<1>5. ASSUME NEW m \in DOMAIN log, Done(m) PROVE m <= a + Len(batch) - Len(pending)
  <2>1. m \in Nat
    BY <1>1, LenProperties
  <2> QED
    BY <1>2, <1>3, <1>4, <1>5, <2>1 DEF Done
<1> QED
  BY <1>2, <1>3, <1>4, <1>5

(* The driver's events keep their order. *)
LEMMA NextOrder == KafkaInv /\ OrderInv /\ [Next]_vars => OrderInv'
<1> SUFFICES ASSUME KafkaInv, OrderInv, [Next]_vars PROVE OrderInv'
  OBVIOUS
<1>1. PICK a \in Nat : InOrder(a)
  BY DEF OrderInv
<1>2. /\ acked = 1..a /\ Len(batch) \in Nat /\ Len(pending) \in Nat /\ Len(pending) <= Len(batch)
      /\ Range(batch) = (a + 1)..(a + Len(batch))
  BY <1>1, OrderFacts
<1>3. CASE UNCHANGED <<acked, batch, pending>>
  BY <1>1, <1>3 DEF OrderInv, InOrder
<1>4. CASE UNCHANGED <<acked, batch>> /\ pending' = <<>>
  <2>1. Len(pending') = 0
    BY <1>4, EmptySeq
  <2>2. InOrder(a)'
    BY <1>1, <1>2, <1>4, <2>1 DEF InOrder
  <2> QED
    BY <2>2 DEF OrderInv
<1>5. ASSUME NEW n \in 0..Len(batch), acked' = 1..(a + n), batch' = <<>>, pending' = <<>> PROVE OrderInv'
  <2>1. Len(pending') = 0 /\ Len(batch') = 0 /\ a + n \in Nat
    BY <1>2, <1>5, EmptySeq
  <2>2. InOrder(a + n)'
    BY <1>5, <2>1 DEF InOrder
  <2> QED
    BY <2>1, <2>2 DEF OrderInv
<1>6. CASE acked' = acked /\ batch' = <<>> /\ pending' = <<>>
  <2>1. 0 \in 0..Len(batch) /\ acked' = 1..(a + 0)
    BY <1>2, <1>6
  <2> QED
    BY <1>5, <1>6, <2>1
<1>7. CASE Process
  <2>1. PICK m \in Msgs : Deliverable(m) /\ batch' = Append(batch, m) /\ pending' = Append(pending, m)
    BY <1>7 DEF Process
  <2>2. acked' = acked /\ m \in Nat
    BY <1>7, KafkaAssumption DEF Process, Msgs, KafkaAssumption
  <2>3. m = a + Len(batch) + 1
    <3>1. m \notin acked \cup Range(batch) /\ 1..(m - 1) \subseteq acked \cup Range(batch) /\ m # 0
      BY <2>1, KafkaAssumption DEF Deliverable, Pending, Msgs, KafkaAssumption
    <3>2. m > a + Len(batch)
      BY <1>2, <2>2, <3>1
    <3>3. ~ (m > a + Len(batch) + 1)
      <4> SUFFICES ASSUME m > a + Len(batch) + 1 PROVE FALSE
        OBVIOUS
      <4>1. a + Len(batch) + 1 \in 1..(m - 1)
        BY <1>2, <2>2
      <4>2. a + Len(batch) + 1 \in acked \cup Range(batch)
        BY <4>1, <3>1
      <4> QED
        BY <4>2, <1>2
    <3> QED
      BY <1>2, <2>2, <3>2, <3>3
  <2>4. /\ Len(batch') = Len(batch) + 1 /\ batch'[Len(batch) + 1] = m
        /\ \A i \in 1..Len(batch) : batch'[i] = batch[i]
    BY <2>1, AppendProperties DEF KafkaInv, TypeOK
  <2>5. /\ Len(pending') = Len(pending) + 1 /\ pending'[Len(pending) + 1] = m
        /\ \A i \in 1..Len(pending) : pending'[i] = pending[i]
    BY <2>1, AppendProperties DEF KafkaInv, TypeOK
  <2>6. ASSUME NEW i \in 1..Len(batch') PROVE batch'[i] = a + i
    <3>1. CASE i = Len(batch) + 1
      BY <3>1, <2>3, <2>4, <1>2
    <3>2. CASE i # Len(batch) + 1
      <4>1. i \in 1..Len(batch)
        BY <3>2, <2>4, <1>2
      <4> QED
        BY <4>1, <2>4, <1>1 DEF InOrder
    <3> QED
      BY <3>1, <3>2
  <2>7. ASSUME NEW i \in 1..Len(pending') PROVE pending'[i] = a + Len(batch') - Len(pending') + i
    <3>1. CASE i = Len(pending) + 1
      BY <3>1, <2>3, <2>4, <2>5, <1>2
    <3>2. CASE i # Len(pending) + 1
      <4>1. i \in 1..Len(pending)
        BY <3>2, <2>5, <1>2
      <4>2. pending'[i] = a + Len(batch) - Len(pending) + i
        BY <4>1, <2>5, <1>1 DEF InOrder
      <4> QED
        BY <4>1, <4>2, <2>4, <2>5, <1>2
    <3> QED
      BY <3>1, <3>2
  <2>8. Len(pending') <= Len(batch')
    BY <2>4, <2>5, <1>2
  <2>9. InOrder(a)'
    BY <1>2, <2>2, <2>6, <2>7, <2>8 DEF InOrder
  <2> QED
    BY <2>9 DEF OrderInv
<1>8. CASE Ack
  <2>1. /\ acked' = acked \cup Range(batch) /\ batch' = <<>> /\ pending' = <<>>
    BY <1>8 DEF Ack, Pending, KafkaInv, FillInv
  <2>2. acked' = 1..(a + Len(batch)) /\ Len(batch) \in 0..Len(batch)
    BY <2>1, <1>2
  <2> QED
    BY <2>1, <2>2, <1>5
<1>9. CASE AckFails
  <2>1. PICK n \in 0..(Len(batch) - 1) : acked' = acked \cup {batch[i] : i \in 1..n}
    BY <1>9 DEF AckFails
  <2>2. batch' = <<>> /\ pending' = <<>>
    BY <1>9 DEF AckFails, Abort
  <2>3. \A i \in 1..n : i \in 1..Len(batch) /\ batch[i] = a + i
    BY <1>1, <1>2 DEF InOrder
  <2>4. {batch[i] : i \in 1..n} = (a + 1)..(a + n)
    <3>1. \A i \in 1..n : batch[i] \in (a + 1)..(a + n)
      BY <2>3, <1>2
    <3>2. ASSUME NEW x \in (a + 1)..(a + n) PROVE \E i \in 1..n : batch[i] = x
      <4>1. x - a \in 1..n /\ a + (x - a) = x
        BY <1>2
      <4> QED
        BY <4>1, <2>3
    <3> QED
      BY <3>1, <3>2
  <2>5. acked' = 1..(a + n) /\ n \in 0..Len(batch)
    <3>1. n \in Nat /\ n <= Len(batch)
      BY <1>2
    <3>2. 1..(a + n) = 1..a \cup (a + 1)..(a + n)
      BY <3>1
    <3> QED
      BY <2>1, <2>4, <1>2, <3>1, <3>2
  <2> QED
    BY <2>2, <2>5, <1>5
<1>10. CASE UNCHANGED vars
  BY <1>3, <1>10 DEF vars
<1>11. CASE \/ Publish \/ GrowTopic \/ Start \/ FlushIdle \/ ProduceAll \/ Retry
            \/ BrokerAccepts \/ BrokerReorders \/ BrokerRepeats \/ BrokerRejects \/ Stopped
  BY <1>3, <1>11 DEF Publish, GrowTopic, Start, FlushIdle, ProduceAll, Retry,
     BrokerAccepts, BrokerReorders, BrokerRepeats, BrokerRejects, Stopped
<1>12. CASE LeaderMissing \/ ProducerFlushed \/ GiveUp
  BY <1>3, <1>4, <1>12 DEF LeaderMissing, ProducerFlushed, GiveUp
<1>13. CASE ResolveFails \/ FlushRaises \/ Terminate \/ Crash
  BY <1>6, <1>13 DEF ResolveFails, FlushRaises, Terminate, Crash, Abort
<1> QED
  BY <1>7, <1>8, <1>9, <1>10, <1>11, <1>12, <1>13 DEF Next, Work

-----------------------------------------------------------------------------
LEMMA LogIs ==
  ASSUME KafkaInv
  PROVE  /\ DOMAIN log = 1..Len(log) /\ Len(log) \in Nat
         /\ \A m \in DOMAIN log : m \in Nat /\ log[m] \in Keys /\ Balance(log[m], Parts) \in Partitions
         /\ \A p \in Partitions : Range(topic[p]) \subseteq DOMAIN log
<1>1. log \in Seq(Keys) /\ Parts \in 1..MaxParts
  BY KafkaAssumption DEF KafkaInv, TypeOK, KafkaAssumption
<1>2. DOMAIN log = 1..Len(log) /\ Len(log) \in Nat
  BY <1>1, LenProperties
<1>3. \A m \in DOMAIN log : m \in Nat /\ log[m] \in Keys
  BY <1>1, <1>2, ElementOfSeq
<1>4. \A p \in Partitions : Range(topic[p]) \subseteq DOMAIN log
  BY RangeType DEF KafkaInv, KnownInv, Pub
<1> QED
  BY <1>1, <1>2, <1>3, <1>4, BalanceType

LEMMA OutqIs ==
  ASSUME KafkaInv
  PROVE  /\ DOMAIN outq = 1..Len(outq) /\ Len(outq) \in Nat
         /\ \A i \in DOMAIN outq : /\ outq[i] \in Items /\ outq[i] \in Range(outq)
                                   /\ outq[i].m \in DOMAIN log /\ outq[i].p \in Partitions
<1>1. outq \in Seq(Items)
  BY DEF KafkaInv, TypeOK
<1>2. DOMAIN outq = 1..Len(outq) /\ Len(outq) \in Nat
  BY <1>1, LenProperties
<1>3. \A i \in DOMAIN outq : outq[i] \in Items /\ outq[i] \in Range(outq)
  BY <1>1, <1>2, ElementOfSeq DEF Range
<1>4. \A i \in DOMAIN outq : outq[i].m \in DOMAIN log /\ outq[i].p \in Partitions
  BY <1>3 DEF KafkaInv, KnownInv, Pub, Items
<1> QED
  BY <1>2, <1>3, <1>4

(* A step that sends nothing, lets nothing arrive and is done with nothing    *)
(* that was not let go.                                                       *)
LEMMA QuietNewest ==
  ASSUME NewestInv, UNCHANGED <<log, parts, topic>>, overdue \subseteq overdue', early \subseteq early',
         Range(outq') \subseteq Range(outq),
         \A m : Done(m)' => Done(m) \/ m \in overdue',
         pc' = "wait" /\ error' = "none" => UNCHANGED <<pc, error, outq, pending>>
  PROVE  NewestInv'
<1> SUFFICES ASSUME parts' = Parts, NEW m \in DOMAIN log' \ Excused', Newest(m)'
             PROVE  /\ Done(m)' => AtEnd(m)'
                    /\ pc' = "wait" /\ error' = "none" /\ m \in Range(pending') => AtEnd(m)' \/ LastInLine(m)'
  BY DEF NewestInv
<1>1. parts = Parts /\ m \in DOMAIN log \ Excused /\ Newest(m)
  BY DEF Newest, Excused
<1>2. AtEnd(m) => AtEnd(m)'
  BY DEF AtEnd, EndsWith
<1>3. Done(m)' => AtEnd(m)'
  BY <1>1, <1>2 DEF NewestInv, Excused
<1>4. ASSUME pc' = "wait", error' = "none", m \in Range(pending') PROVE AtEnd(m)' \/ LastInLine(m)'
  <2>1. UNCHANGED <<pc, error, outq, pending>>
    BY <1>4
  <2>2. AtEnd(m) \/ LastInLine(m)
    BY <1>1, <1>4, <2>1 DEF NewestInv
  <2>3. LastInLine(m) => LastInLine(m)'
    BY <2>1 DEF LastInLine, LastAt
  <2> QED
    BY <2>2, <2>3, <1>2
<1> QED
  BY <1>3, <1>4

LEMMA PublishNewest == KafkaInv /\ OrderInv /\ NewestInv /\ Publish => NewestInv'
<1> SUFFICES ASSUME KafkaInv, OrderInv, NewestInv, Publish, parts' = Parts,
                    NEW m \in DOMAIN log' \ Excused', Newest(m)'
             PROVE  /\ Done(m)' => AtEnd(m)'
                    /\ pc' = "wait" /\ error' = "none" /\ m \in Range(pending') => AtEnd(m)' \/ LastInLine(m)'
  BY DEF NewestInv
<1>1. UNCHANGED <<acked, pc, batch, pending, outq, error, parts, topic, overdue, early>>
  BY DEF Publish
<1>2. PICK k \in Keys : log' = Append(log, k)
  BY DEF Publish
<1>3. /\ Len(log) \in Nat /\ DOMAIN log = 1..Len(log) /\ DOMAIN log' = 1..(Len(log) + 1)
      /\ \A n \in DOMAIN log : n \in DOMAIN log' /\ log'[n] = log[n]
  <2>1. log \in Seq(Keys)
    BY DEF KafkaInv, TypeOK
  <2>2. /\ Append(log, k) \in Seq(Keys) /\ Len(Append(log, k)) = Len(log) + 1
        /\ \A n \in 1..Len(log) : Append(log, k)[n] = log[n]
    BY <2>1, AppendProperties
  <2>3. Len(log) \in Nat /\ DOMAIN log = 1..Len(log)
    BY <2>1, LenProperties
  <2>4. DOMAIN log' = 1..(Len(log) + 1)
    BY <1>2, <2>2, LenProperties
  <2> QED
    BY <1>2, <2>2, <2>3, <2>4
<1>4. Range(batch) \subseteq DOMAIN log /\ Range(pending) \subseteq DOMAIN log /\ acked \subseteq DOMAIN log
  BY RangeType DEF KafkaInv, KnownInv, Pub
<1>5. CASE m \notin DOMAIN log
  BY <1>1, <1>4, <1>5 DEF Done
<1>6. CASE m \in DOMAIN log
  <2>1. Newest(m)
    BY <1>3, <1>6 DEF Newest
  <2>2. \A x \in Range(outq) : log'[x.m] = log[x.m]
    BY <1>3 DEF KafkaInv, KnownInv, Pub
  <2>3. ASSUME NEW p \in Partitions, NEW j \in DOMAIN topic[p] PROVE log'[topic[p][j]] = log[topic[p][j]]
    <3>1. topic[p][j] \in Range(topic[p])
      BY DEF Range
    <3> QED
      BY <3>1, <1>3, LogIs
  <2>4. log'[m] = log[m] /\ Balance(log[m], Parts) \in Partitions
    BY <1>3, <1>6, LogIs
  <2>5. AtEnd(m) => AtEnd(m)'
    <3>1. EndsWith(Balance(log[m], Parts), m) => EndsWith(Balance(log[m], Parts), m)'
      BY <1>1, <2>3, <2>4 DEF EndsWith
    <3> QED
      BY <1>1, <2>2, <2>4, <3>1 DEF AtEnd
  <2>6. LastInLine(m) => LastInLine(m)'
    <3>1. \A j \in DOMAIN outq : log'[outq[j].m] = log[outq[j].m]
      BY <1>3, OutqIs
    <3> QED
      BY <1>1, <2>4, <3>1 DEF LastInLine, LastAt
  <2>7. Done(m)' => Done(m)
    BY <1>1 DEF Done
  <2> QED
    BY <1>1, <1>6, <2>1, <2>5, <2>6, <2>7 DEF NewestInv, Excused
<1> QED
  BY <1>5, <1>6

(* A new attempt puts the buffer behind everything that is in line. *)
LEMMA ProduceAllNewest == KafkaInv /\ OrderInv /\ NewestInv /\ ProduceAll => NewestInv'
<1> SUFFICES ASSUME KafkaInv, OrderInv, NewestInv, ProduceAll, parts' = Parts,
                    NEW m \in DOMAIN log' \ Excused', Newest(m)'
             PROVE  /\ Done(m)' => AtEnd(m)'
                    /\ m \in Range(pending') => LastInLine(m)'
  BY DEF NewestInv
<1> DEFINE old == [i \in DOMAIN outq |-> [outq[i] EXCEPT !.cur = FALSE]]
           new == [i \in DOMAIN pending |->
                     [m |-> pending[i], p |-> Balance(log[pending[i]], count'), cur |-> TRUE]]
<1>1. UNCHANGED <<log, acked, batch, pending, parts, topic, overdue, early>> /\ outq' = old \o new
  BY DEF ProduceAll
<1>2. parts = Parts /\ m \in DOMAIN log \ Excused /\ Newest(m)
  BY <1>1 DEF Newest, Excused
<1>3. PICK a \in Nat : InOrder(a)
  BY DEF OrderInv
<1>4. /\ Len(batch) \in Nat /\ Len(pending) \in Nat /\ Len(pending) <= Len(batch)
      /\ Range(pending) = (a + Len(batch) - Len(pending) + 1)..(a + Len(batch))
      /\ Done(m) => m <= a + Len(batch) - Len(pending)
      /\ \A i \in 1..Len(pending) : pending[i] = a + Len(batch) - Len(pending) + i
  BY <1>2, <1>3, OrderFacts DEF InOrder
<1>5. /\ DOMAIN outq = 1..Len(outq) /\ Len(outq) \in Nat /\ DOMAIN pending = 1..Len(pending)
      /\ Range(pending) \subseteq DOMAIN log
  BY OutqIs, RangeIs, RangeType DEF KafkaInv, TypeOK, KnownInv, Pub
<1>6. /\ old \in Seq([m : Msgs, p : Partitions, cur : BOOLEAN]) /\ Len(old) = Len(outq)
      /\ \A i \in 1..Len(outq) : old[i].m = outq[i].m
  <2>1. \A i \in 1..Len(outq) : [outq[i] EXCEPT !.cur = FALSE] \in Items
    BY <1>5, OutqIs DEF Items
  <2>2. old = [i \in 1..Len(outq) |-> [outq[i] EXCEPT !.cur = FALSE]]
    BY <1>5
  <2>3. old \in Seq(Items)
    BY <1>5, <2>1, <2>2, IsASeq
  <2>4. Len(old) = Len(outq)
    BY <1>5, <2>2, <2>3, LenProperties
  <2>5. \A i \in 1..Len(outq) : old[i].m = outq[i].m
    BY <1>5, OutqIs DEF Items
  <2> QED
    BY <2>3, <2>4, <2>5 DEF Items
<1>7. /\ new \in Seq([m : Msgs, p : {Balance(log[i], count') : i \in DOMAIN log}, cur : BOOLEAN])
      /\ Len(new) = Len(pending)
      /\ \A i \in 1..Len(pending) : new[i].m = pending[i] /\ new[i].cur
  <2> DEFINE T == [m : Msgs, p : {Balance(log[i], count') : i \in DOMAIN log}, cur : BOOLEAN]
  <2>1. \A i \in 1..Len(pending) : pending[i] \in Msgs /\ pending[i] \in DOMAIN log
    BY <1>4, <1>5, ElementOfSeq DEF KafkaInv, TypeOK, KnownInv, Pub
  <2>2. \A i \in 1..Len(pending) :
          [m |-> pending[i], p |-> Balance(log[pending[i]], count'), cur |-> TRUE] \in T
    BY <2>1
  <2>3. new \in [1..Len(pending) -> T]
    BY <1>5, <2>2
  <2>4. new \in Seq(T)
    <3> HIDE DEF new, T
    <3> QED
      BY <1>4, <2>3, SeqDef
  <2>5. Len(new) = Len(pending)
    <3> HIDE DEF new, T
    <3> QED
      BY <1>4, <2>3, <2>4, LenProperties
  <2> QED
    BY <1>5, <2>4, <2>5
<1> HIDE DEF old, new
<1>8. /\ Len(outq') = Len(outq) + Len(pending) /\ DOMAIN outq' = 1..(Len(outq) + Len(pending))
      /\ \A i \in 1..Len(outq) : outq'[i].m = outq[i].m
      /\ \A i \in 1..Len(pending) : outq'[Len(outq) + i] = new[i]
  <2> DEFINE T == [m : Msgs, p : Partitions, cur : BOOLEAN]
                    \cup [m : Msgs, p : {Balance(log[i], count') : i \in DOMAIN log}, cur : BOOLEAN]
  <2>1. old \in Seq(T) /\ new \in Seq(T)
    BY <1>6, <1>7, SeqMonotonic
  <2> HIDE DEF T
  <2>2. /\ outq' \in Seq(T) /\ Len(outq') = Len(old) + Len(new)
        /\ \A i \in 1..(Len(old) + Len(new)) : outq'[i] = IF i <= Len(old) THEN old[i] ELSE new[i - Len(old)]
    BY <1>1, <2>1, ConcatProperties
  <2>3. DOMAIN outq' = 1..(Len(outq) + Len(pending))
    BY <2>2, <1>6, <1>7, LenProperties
  <2>4. ASSUME NEW i \in 1..Len(outq) PROVE outq'[i].m = outq[i].m
    <3>1. i \in 1..(Len(old) + Len(new)) /\ i <= Len(old)
      BY <1>4, <1>5, <1>6, <1>7
    <3>2. outq'[i] = old[i]
      BY <3>1, <2>2
    <3> QED
      BY <3>2, <1>6
  <2>5. ASSUME NEW i \in 1..Len(pending) PROVE outq'[Len(outq) + i] = new[i]
    <3>1. Len(outq) + i \in 1..(Len(old) + Len(new)) /\ ~ (Len(outq) + i <= Len(old)) /\ (Len(outq) + i) - Len(old) = i
      BY <1>4, <1>5, <1>6, <1>7
    <3> QED
      BY <3>1, <2>2
  <2> QED
    BY <1>6, <1>7, <2>2, <2>3, <2>4, <2>5
<1>9. \A n \in Range(pending) : n > m => log[n] # log[m]
  BY <1>2, <1>5 DEF Newest
<1>10. ASSUME Done(m)' PROVE AtEnd(m)'
  <2>1. Done(m)
    BY <1>1, <1>10 DEF Done
  <2>2. AtEnd(m)
    BY <1>2, <2>1 DEF NewestInv
  <2>3. \A n \in Range(pending) : log[n] # log[m]
    <3>1. \A n \in Range(pending) : n > m
      BY <1>2, <1>4, <2>1, LogIs
    <3> QED
      BY <3>1, <1>9
  <2>4. ASSUME NEW i \in DOMAIN outq' PROVE log[outq'[i].m] # log[m]
    <3>1. CASE i \in 1..Len(outq)
      BY <3>1, <2>2, <1>5, <1>8, OutqIs DEF AtEnd
    <3>2. CASE i \notin 1..Len(outq)
      <4>1. i - Len(outq) \in 1..Len(pending) /\ Len(outq) + (i - Len(outq)) = i
        BY <3>2, <1>4, <1>5, <1>8
      <4>2. outq'[i].m = pending[i - Len(outq)]
        BY <4>1, <1>7, <1>8
      <4>3. pending[i - Len(outq)] \in Range(pending)
        BY <4>1, <1>5 DEF Range
      <4> QED
        BY <4>2, <4>3, <2>3
    <3> QED
      BY <3>1, <3>2
  <2>5. \A x \in Range(outq') : log'[x.m] # log'[m]
    BY <1>1, <2>4 DEF Range
  <2> QED
    BY <1>1, <2>2, <2>5 DEF AtEnd, EndsWith
<1>11. ASSUME m \in Range(pending') PROVE LastInLine(m)'
  <2>1. PICK i \in 1..Len(pending) : pending[i] = m
    BY <1>1, <1>11, RangeIs DEF KafkaInv, TypeOK
  <2>2. PICK c \in Nat : c = Len(outq) + i
    BY <1>4, <1>5
  <2>3. c \in DOMAIN outq' /\ outq'[c].m = m /\ outq'[c].cur
    <3>1. c \in DOMAIN outq'
      BY <2>2, <1>4, <1>5, <1>8
    <3>2. outq'[c] = new[i]
      BY <2>2, <1>8
    <3> QED
      BY <3>1, <3>2, <2>1, <1>7
  <2>4. ASSUME NEW j \in DOMAIN outq', j > c PROVE log[outq'[j].m] # log[m]
    <3>1. j - Len(outq) \in 1..Len(pending) /\ j - Len(outq) > i /\ Len(outq) + (j - Len(outq)) = j
      BY <2>4, <2>2, <2>1, <1>4, <1>5, <1>8
    <3>2. outq'[j].m = pending[j - Len(outq)]
      BY <3>1, <1>7, <1>8
    <3>3. pending[j - Len(outq)] \in Range(pending)
      BY <3>1, <1>5 DEF Range
    <3>4. pending[j - Len(outq)] > m
      BY <3>1, <2>1, <1>4
    <3> QED
      BY <3>2, <3>3, <3>4, <1>9
  <2>5. LastAt(c, m)'
    BY <1>1, <2>3, <2>4 DEF LastAt
  <2> QED
    BY <2>3, <2>5 DEF LastInLine
<1> QED
  BY <1>10, <1>11

(* A message leaves the line, and the last one of m's row is another. *)
LEMMA StillInLine ==
  ASSUME KafkaInv, NEW i \in DOMAIN outq, outq' = RemoveAt(outq, i), log' = log,
         NEW m, NEW c \in DOMAIN outq \ {i}, LastAt(c, m)
  PROVE  LastInLine(m)'
<1>1. DOMAIN outq = 1..Len(outq) /\ Len(outq) \in Nat /\ outq \in Seq(Items)
  BY OutqIs DEF KafkaInv, TypeOK
<1>2. /\ outq' \in Seq(Items) /\ Len(outq') = Len(outq) - 1
      /\ \A j \in 1..(Len(outq) - 1) : outq'[j] = IF j < i THEN outq[j] ELSE outq[j + 1]
  BY <1>1, RemoveAtProperties
<1>3. DOMAIN outq' = 1..(Len(outq) - 1)
  BY <1>2, LenProperties
<1>4. PICK d \in Nat : d = IF c < i THEN c ELSE c - 1
  BY <1>1
<1>5. d \in DOMAIN outq' /\ outq'[d] = outq[c]
  <2>1. d \in 1..(Len(outq) - 1)
    BY <1>1, <1>4
  <2>2. CASE c < i
    BY <2>1, <2>2, <1>2, <1>3, <1>4
  <2>3. CASE ~ (c < i)
    <3>1. ~ (d < i) /\ d + 1 = c
      BY <2>3, <1>1, <1>4
    <3> QED
      BY <2>1, <3>1, <1>2, <1>3
  <2> QED
    BY <2>2, <2>3
<1>6. ASSUME NEW j \in DOMAIN outq', j > d PROVE log[outq'[j].m] # log[m]
  <2>1. CASE j < i
    <3>1. j \in DOMAIN outq /\ outq'[j] = outq[j] /\ j > c
      BY <2>1, <1>1, <1>2, <1>3, <1>4, <1>6
    <3> QED
      BY <3>1 DEF LastAt
  <2>2. CASE ~ (j < i)
    <3>1. j + 1 \in DOMAIN outq /\ outq'[j] = outq[j + 1] /\ j + 1 > c
      BY <2>2, <1>1, <1>2, <1>3, <1>4, <1>6
    <3> QED
      BY <3>1 DEF LastAt
  <2> QED
    BY <2>1, <2>2
<1>7. LastAt(d, m)'
  BY <1>5, <1>6 DEF LastAt
<1> QED
  BY <1>5, <1>7 DEF LastInLine

(* A message of another row gets to its partition: the end stays the end. *)
LEMMA AppendedElsewhere ==
  ASSUME KafkaInv, parts = Parts, NEW m \in DOMAIN log, AtEnd(m), log' = log,
         NEW i \in DOMAIN outq, Appended(i), Range(outq') \subseteq Range(outq)
  PROVE  AtEnd(m)'
<1> DEFINE x == outq[i]
           h == Balance(log[m], Parts)
           T == topic[h]
<1>1. /\ h \in Partitions /\ x \in Range(outq) /\ x.m \in DOMAIN log /\ x.p \in Partitions /\ x.m \in Msgs
  BY LogIs, OutqIs DEF Items
<1>2. T \in Seq(Msgs) /\ Len(T) \in Nat /\ DOMAIN T = 1..Len(T)
  BY <1>1, RangeIs DEF KafkaInv, TypeOK
<1> HIDE DEF x
<1>3. topic' = [topic EXCEPT ![x.p] = Append(topic[x.p], x.m)]
  BY DEF Appended, x
<1>4. /\ x.p # h => topic'[h] = topic[h]
      /\ x.p = h => topic'[h] = Append(T, x.m)
  BY <1>1, <1>3 DEF KafkaInv, TypeOK
<1>5. \A y \in Range(outq') : log'[y.m] # log'[m]
  BY DEF AtEnd
<1>6. log[x.m] # log[m]
  BY <1>1 DEF AtEnd
<1>7. CASE x.p # h
  BY <1>4, <1>5, <1>7 DEF AtEnd, EndsWith
<1>8. CASE x.p = h
  <2>1. PICK e \in DOMAIN T : T[e] = m /\ \A j \in DOMAIN T : j > e => log[T[j]] # log[m]
    BY DEF AtEnd, EndsWith
  <2> DEFINE U == topic'[h]
  <2>2. DOMAIN U = 1..(Len(T) + 1) /\ U[Len(T) + 1] = x.m /\ \A j \in 1..Len(T) : U[j] = T[j]
    <3> HIDE DEF T
    <3> QED
      BY <1>1, <1>2, <1>4, <1>8, AppendProperties, LenProperties
  <2> HIDE DEF T, U
  <2>3. e \in DOMAIN U /\ U[e] = m
    BY <2>1, <2>2, <1>2
  <2>4. ASSUME NEW j \in DOMAIN U, j > e PROVE log[U[j]] # log[m]
    <3>1. CASE j = Len(T) + 1
      BY <3>1, <2>2, <1>6
    <3>2. CASE j # Len(T) + 1
      <4>1. j \in 1..Len(T)
        BY <3>2, <2>2, <1>2
      <4> QED
        BY <4>1, <2>4, <2>1, <2>2, <1>2
    <3> QED
      BY <3>1, <3>2
  <2>5. EndsWith(h, m)'
    BY <2>3, <2>4 DEF EndsWith, U
  <2> QED
    BY <1>5, <2>5 DEF AtEnd
<1> QED
  BY <1>7, <1>8

(* What goes to a partition after the newest message of a row is of another   *)
(* row, unless the newest message was taken out of its turn.                  *)
LEMMA TakenNewest ==
  ASSUME KafkaInv, NewestInv, NEW i \in DOMAIN outq, Appended(i), outq' = RemoveAt(outq, i),
         early \subseteq early', FirstOf(i) \/ ~Ahead(i) \/ outq[i].m \in early',
         UNCHANGED <<log, acked, pc, batch, pending, error, parts, overdue>>
  PROVE  NewestInv'
<1> SUFFICES ASSUME parts' = Parts, NEW m \in DOMAIN log' \ Excused', Newest(m)'
             PROVE  /\ Done(m)' => AtEnd(m)'
                    /\ pc' = "wait" /\ error' = "none" /\ m \in Range(pending') => AtEnd(m)' \/ LastInLine(m)'
  BY DEF NewestInv
<1>1. UNCHANGED <<log, acked, pc, batch, pending, error, parts, overdue>>
  OBVIOUS
<1>2. /\ topic' = [topic EXCEPT ![outq[i].p] = Append(@, outq[i].m)]
      /\ outq' = RemoveAt(outq, i)
  BY DEF Appended
<1> DEFINE x == outq[i]
<1>3. parts = Parts /\ m \in DOMAIN log \ Excused /\ Newest(m) /\ Balance(log[m], Parts) \in Partitions
  BY <1>1, LogIs DEF Newest, Excused
<1>4. /\ x \in Range(outq) /\ x.m \in DOMAIN log /\ x.p \in Partitions /\ x.m \in Msgs
      /\ x.p = Balance(log[x.m], Parts)
  BY <1>3, OutqIs DEF KafkaInv, RouteInv, Items
<1>5. Range(outq') \subseteq Range(outq)
  BY <1>2, RemovedItem
<1> DEFINE h == Balance(log[m], Parts)
           T == topic[h]
<1>6. T \in Seq(Msgs) /\ Len(T) \in Nat /\ DOMAIN T = 1..Len(T)
  BY <1>3, RangeIs DEF KafkaInv, TypeOK
<1> HIDE DEF x
<1>7. x.p # h => topic'[h] = topic[h]
  BY <1>2, <1>3 DEF KafkaInv, TypeOK, x
<1>8. x.p = h => topic'[h] = Append(T, x.m)
  BY <1>2, <1>3 DEF KafkaInv, TypeOK, x
<1>9. /\ Len(Append(T, x.m)) = Len(T) + 1 /\ Append(T, x.m)[Len(T) + 1] = x.m
      /\ \A j \in 1..Len(T) : Append(T, x.m)[j] = T[j]
      /\ DOMAIN Append(T, x.m) = 1..(Len(T) + 1)
  <2> HIDE DEF T
  <2> QED
    BY <1>4, <1>6, AppendProperties, LenProperties
<1>10. ASSUME AtEnd(m) PROVE AtEnd(m)'
  BY <1>1, <1>3, <1>5, <1>10, AppendedElsewhere
<1>11. Done(m)' => AtEnd(m)'
  <2>1. Done(m)' => Done(m)
    BY <1>1 DEF Done
  <2> QED
    BY <2>1, <1>3, <1>10 DEF NewestInv
<1>12. ASSUME NEW c \in DOMAIN outq, LastAt(c, m) PROVE AtEnd(m)' \/ LastInLine(m)'
  <2>1. CASE c # i
    BY <2>1, <1>1, <1>2, <1>12, StillInLine
  <2>2. CASE c = i
    <3>1. x.m = m /\ x.p = h
      BY <2>2, <1>4, <1>12 DEF LastAt, x
    <3> DEFINE U == topic'[h]
    <3>2. DOMAIN U = 1..(Len(T) + 1) /\ U[Len(T) + 1] = m
      BY <3>1, <1>8, <1>9
    <3> HIDE DEF T, U
    <3>3. Len(T) + 1 \in DOMAIN U /\ \A j \in DOMAIN U : ~ (j > Len(T) + 1)
      BY <3>2, <1>6
    <3>4. EndsWith(h, m)'
      BY <3>2, <3>3, <1>1 DEF EndsWith, U
    <3>5. ASSUME NEW j \in DOMAIN outq \ {i} PROVE log[outq[j].m] # log[m]
      <4>1. CASE j > i
        BY <4>1, <2>2, <1>12 DEF LastAt
      <4>2. CASE j < i
        <5>1. j \in 1..(i - 1)
          BY <4>2, OutqIs
        <5>2. CASE FirstOf(i)
          <6>1. outq[j].p # x.p
            BY <5>1, <5>2 DEF FirstOf, x
          <6>2. outq[j].p = Balance(log[outq[j].m], Parts)
            BY <1>3, OutqIs DEF KafkaInv, RouteInv
          <6> QED
            BY <6>1, <6>2, <3>1
        <5>3. CASE ~Ahead(i) \/ x.m \in early'
          <6>1. ~Ahead(i)
            BY <5>3, <3>1 DEF Excused
          <6> QED
            BY <5>1, <6>1, <3>1 DEF Ahead, x
        <5> QED
          BY <5>2, <5>3 DEF x
      <4> QED
        BY <4>1, <4>2, OutqIs
    <3>6. ASSUME NEW y \in Range(outq') PROVE log[y.m] # log[m]
      <4>1. outq \in Seq(Items) /\ DOMAIN outq = 1..Len(outq) /\ Len(outq) \in Nat
        BY OutqIs DEF KafkaInv, TypeOK
      <4>2. /\ outq' \in Seq(Items) /\ Len(outq') = Len(outq) - 1
            /\ \A j \in 1..(Len(outq) - 1) : outq'[j] = IF j < i THEN outq[j] ELSE outq[j + 1]
        BY <4>1, <1>2, RemoveAtProperties
      <4>3. PICK j \in 1..(Len(outq) - 1) : y = outq'[j]
        BY <4>2, RangeIs
      <4>4. PICK l \in DOMAIN outq \ {i} : y = outq[l]
        <5>1. CASE j < i
          <6>1. j \in DOMAIN outq \ {i} /\ y = outq[j]
            BY <5>1, <4>1, <4>2, <4>3
          <6> QED
            BY <6>1
        <5>2. CASE ~ (j < i)
          <6>1. j + 1 \in DOMAIN outq \ {i} /\ y = outq[j + 1]
            BY <5>2, <4>1, <4>2, <4>3
          <6> QED
            BY <6>1
        <5> QED
          BY <5>1, <5>2
      <4> QED
        BY <4>4, <3>5
    <3> QED
      BY <3>4, <3>6, <1>1 DEF AtEnd
  <2> QED
    BY <2>1, <2>2
<1>13. ASSUME pc' = "wait", error' = "none", m \in Range(pending') PROVE AtEnd(m)' \/ LastInLine(m)'
  <2>1. AtEnd(m) \/ LastInLine(m)
    BY <1>1, <1>3, <1>13 DEF NewestInv
  <2> QED
    BY <2>1, <1>10, <1>12 DEF LastInLine
<1> QED
  BY <1>11, <1>13

(* A message that is in the topic and is sent again. *)
LEMMA BrokerRepeatsNewest == KafkaInv /\ NewestInv /\ BrokerRepeats => NewestInv'
<1> SUFFICES ASSUME KafkaInv, NewestInv, BrokerRepeats, parts' = Parts,
                    NEW m \in DOMAIN log' \ Excused', Newest(m)'
             PROVE  /\ Done(m)' => AtEnd(m)'
                    /\ pc' = "wait" /\ error' = "none" /\ m \in Range(pending') => AtEnd(m)' \/ LastInLine(m)'
  BY DEF NewestInv
<1>1. UNCHANGED <<log, acked, pc, batch, pending, outq, error, parts, overdue, early>>
  BY DEF BrokerRepeats
<1>2. PICK i \in DOMAIN outq : Appended(i)
  BY DEF BrokerRepeats
<1>3. parts = Parts /\ m \in DOMAIN log \ Excused /\ Newest(m)
  BY <1>1 DEF Newest, Excused
<1>4. AtEnd(m) => AtEnd(m)'
  BY <1>1, <1>2, <1>3, AppendedElsewhere
<1>5. LastInLine(m) => LastInLine(m)'
  BY <1>1 DEF LastInLine, LastAt
<1>6. Done(m)' => Done(m)
  BY <1>1 DEF Done
<1> QED
  BY <1>1, <1>3, <1>4, <1>5, <1>6 DEF NewestInv

LEMMA BrokerTakesNewest == KafkaInv /\ NewestInv /\ (BrokerAccepts \/ BrokerReorders) => NewestInv'
<1> SUFFICES ASSUME KafkaInv, NewestInv, BrokerAccepts \/ BrokerReorders PROVE NewestInv'
  OBVIOUS
<1>1. CASE BrokerAccepts
  BY <1>1, TakenNewest DEF BrokerAccepts
<1>2. CASE BrokerReorders
  BY <1>2, TakenNewest DEF BrokerReorders
<1> QED
  BY <1>1, <1>2

(* A message that the attempt under way produced does not fail unnoticed. *)
LEMMA BrokerRejectsNewest == KafkaInv /\ NewestInv /\ BrokerRejects => NewestInv'
<1> SUFFICES ASSUME KafkaInv, NewestInv, BrokerRejects, parts' = Parts,
                    NEW m \in DOMAIN log' \ Excused', Newest(m)'
             PROVE  /\ Done(m)' => AtEnd(m)'
                    /\ pc' = "wait" /\ error' = "none" /\ m \in Range(pending') => AtEnd(m)' \/ LastInLine(m)'
  BY DEF NewestInv
<1>1. UNCHANGED <<log, acked, pc, batch, pending, parts, topic, overdue, early>>
  BY DEF BrokerRejects
<1>2. PICK i \in DOMAIN outq, err \in {"leader", "other"} :
        /\ outq' = RemoveAt(outq, i)
        /\ error' = IF pc = "wait" /\ outq[i].cur /\ error = "none" THEN err ELSE error
  BY DEF BrokerRejects
<1>3. parts = Parts /\ m \in DOMAIN log \ Excused /\ Newest(m)
  BY <1>1 DEF Newest, Excused
<1>4. Range(outq') \subseteq Range(outq)
  BY <1>2, RemovedItem
<1>5. AtEnd(m) => AtEnd(m)'
  BY <1>1, <1>4 DEF AtEnd, EndsWith
<1>6. Done(m)' => AtEnd(m)'
  <2>1. Done(m)' => Done(m)
    BY <1>1 DEF Done
  <2> QED
    BY <2>1, <1>3, <1>5 DEF NewestInv
<1>7. ASSUME pc' = "wait", error' = "none", m \in Range(pending') PROVE AtEnd(m)' \/ LastInLine(m)'
  <2>1. pc = "wait" /\ error = "none" /\ ~outq[i].cur
    BY <1>1, <1>2, <1>7
  <2>2. AtEnd(m) \/ LastInLine(m)
    BY <2>1, <1>1, <1>3, <1>7 DEF NewestInv
  <2>3. CASE LastInLine(m)
    <3>1. PICK c \in DOMAIN outq : LastAt(c, m)
      BY <2>3 DEF LastInLine
    <3>2. c # i
      BY <2>1, <3>1 DEF LastAt
    <3> QED
      BY <3>1, <3>2, <1>1, <1>2, StillInLine
  <2> QED
    BY <2>2, <2>3, <1>5
<1> QED
  BY <1>6, <1>7

(* A flush without an error ends: what was still in line is let go. *)
LEMMA ProducerFlushedNewest == KafkaInv /\ NewestInv /\ ProducerFlushed => NewestInv'
<1> SUFFICES ASSUME KafkaInv, NewestInv, ProducerFlushed, parts' = Parts,
                    NEW m \in DOMAIN log' \ Excused', Newest(m)'
             PROVE  Done(m)' => AtEnd(m)'
  BY DEF NewestInv, ProducerFlushed, AfterFlush
<1>1. /\ pc = "wait" /\ error = "none" /\ UNCHANGED <<log, acked, batch, outq, parts, topic, early>>
      /\ overdue' = overdue \cup {outq[i].m : i \in DOMAIN outq}
  BY DEF ProducerFlushed
<1>2. parts = Parts /\ m \in DOMAIN log \ Excused /\ Newest(m)
  BY <1>1 DEF Newest, Excused
<1>3. AtEnd(m) => AtEnd(m)'
  BY <1>1 DEF AtEnd, EndsWith
<1>4. ~LastInLine(m)
  BY <1>1 DEF LastInLine, LastAt, Excused
<1>5. Done(m)' => Done(m) \/ m \in Range(pending)
  BY <1>1 DEF Done
<1> QED
  BY <1>1, <1>2, <1>3, <1>4, <1>5 DEF NewestInv

LEMMA OtherNewest ==
  ASSUME KafkaInv, NewestInv,
         \/ Start \/ Process \/ FlushIdle \/ LeaderMissing \/ Retry \/ GiveUp \/ Ack \/ AckFails
         \/ ResolveFails \/ FlushRaises \/ Terminate \/ Stopped \/ Crash
  PROVE  NewestInv'
<1>1. UNCHANGED <<log, parts, topic, early>> /\ overdue \subseteq overdue' /\ pc' # "wait"
  BY DEF Start, Process, FlushIdle, LeaderMissing, Retry, GiveUp, Ack, AckFails, ResolveFails, FlushRaises,
         Terminate, Stopped, Crash, Abort, AfterFlush
<1>2. Range(outq') \subseteq Range(outq)
  <2>1. outq' = outq \/ outq' = <<>>
    BY DEF Start, Process, FlushIdle, LeaderMissing, Retry, GiveUp, Ack, AckFails, ResolveFails, FlushRaises,
           Terminate, Stopped, Crash
  <2>2. Range(<<>>) = {}
    BY EmptySeq DEF Range
  <2> QED
    BY <2>1, <2>2
<1>3. ASSUME NEW m, Done(m)' PROVE Done(m) \/ m \in overdue'
  <2>1. CASE Process
    <3>1. PICK n \in Msgs : batch' = Append(batch, n) /\ pending' = Append(pending, n)
      BY <2>1 DEF Process
    <3>2. Range(batch') = Range(batch) \cup {n} /\ Range(pending') = Range(pending) \cup {n} /\ acked' = acked
      BY <2>1, <3>1, AppendRange DEF KafkaInv, TypeOK, Process
    <3> QED
      BY <3>2, <1>3 DEF Done
  <2>2. CASE Start \/ FlushIdle \/ Retry \/ Stopped
    BY <2>2, <1>3 DEF Done, Start, FlushIdle, Retry, Stopped
  <2>3. CASE LeaderMissing \/ GiveUp
    BY <2>3, <1>3 DEF Done, LeaderMissing, GiveUp
  <2>4. CASE ResolveFails \/ FlushRaises \/ Terminate \/ Crash
    <3>1. acked' = acked /\ batch' = <<>>
      BY <2>4 DEF ResolveFails, FlushRaises, Terminate, Crash, Abort
    <3>2. Range(batch') = {}
      BY <3>1, EmptySeq DEF Range
    <3> QED
      BY <3>1, <3>2, <1>3 DEF Done
  <2>5. CASE Ack \/ AckFails
    <3>1. pc = "ack" /\ batch' = <<>>
      BY <2>5 DEF Ack, AckFails, Abort
    <3>2. Range(pending) = {} /\ Range(batch') = {}
      BY <3>1, EmptySeq DEF KafkaInv, FillInv, Range
    <3>3. acked' \subseteq acked \cup Range(batch)
      <4>1. CASE Ack
        BY <4>1 DEF Ack, Pending
      <4>2. CASE AckFails
        <5>1. PICK n \in 0..(Len(batch) - 1) : acked' = acked \cup {batch[i] : i \in 1..n}
          BY <4>2 DEF AckFails
        <5>2. \A i \in 1..n : i \in DOMAIN batch
          BY LenProperties DEF KafkaInv, TypeOK
        <5> QED
          BY <5>1, <5>2 DEF Range
      <4> QED
        BY <2>5, <4>1, <4>2
    <3> QED
      BY <3>2, <3>3, <1>3 DEF Done
  <2> QED
    BY <2>1, <2>2, <2>3, <2>4, <2>5
<1> QED
  BY <1>1, <1>2, <1>3, QuietNewest

LEMMA NextNewest == KafkaInv /\ OrderInv /\ NewestInv /\ [Next]_vars => NewestInv'
<1> SUFFICES ASSUME KafkaInv, OrderInv, NewestInv, [Next]_vars PROVE NewestInv'
  OBVIOUS
<1>1. CASE UNCHANGED vars
  BY <1>1, QuietNewest DEF vars, Done
<1>2. CASE GrowTopic
  BY <1>2, KafkaAssumption DEF GrowTopic, NewestInv, KafkaInv, TypeOK, KafkaAssumption
<1> QED
  BY <1>1, <1>2, PublishNewest, ProduceAllNewest, BrokerTakesNewest, BrokerRepeatsNewest, BrokerRejectsNewest,
     ProducerFlushedNewest, OtherNewest
  DEF Next, Work

(***************************************************************************)
(* For any number of events, partitions, batch limits and faults: from the *)
(* moment the newest event of a row is acked, its message is the last of   *)
(* the row in the topic and none of the row is in line, unless a flush let *)
(* it go at its deadline or a retry of librdkafka's let it overtake one of *)
(* its row. Neither a buffer that was produced twice, nor a message whose  *)
(* answer was lost, nor what an earlier flush left in line comes after it. *)
(***************************************************************************)
THEOREM KafkaNewestTheorem == Spec => []NewestLast
<1>1. Init => OrderInv /\ NewestInv
  <2> SUFFICES ASSUME Init PROVE OrderInv /\ NewestInv
    OBVIOUS
  <2>1. InOrder(0)
    BY EmptySeq DEF Init, InOrder
  <2>2. DOMAIN log = {}
    BY EmptySeq DEF Init
  <2> QED
    BY <2>1, <2>2 DEF OrderInv, NewestInv
<1>2. KafkaInv /\ NewestInv => NewestLast
  <2> SUFFICES ASSUME KafkaInv, NewestInv, parts = Parts,
                      NEW m \in acked \ (overdue \cup early), \A n \in DOMAIN log : n > m => log[n] # log[m]
               PROVE  /\ \E p \in Partitions : EndsWith(p, m)
                      /\ \A i \in DOMAIN outq : log[outq[i].m] # log[m]
    BY DEF NewestLast
  <2>1. m \in DOMAIN log
    BY DEF KafkaInv, KnownInv, Pub
  <2>2. AtEnd(m)
    BY <2>1 DEF NewestInv, Newest, Done, Excused
  <2> QED
    BY <2>1, <2>2, LogIs, OutqIs DEF AtEnd
<1> QED
  BY <1>1, <1>2, InitKafka, NextKeeps, NextOrder, NextNewest, PTL DEF Spec
=============================================================================
