---------------------------- MODULE SinksProofs ----------------------------
(***************************************************************************)
(* Proofs about the S3, file and EventHub drivers, for any rows, seconds,  *)
(* events, thread and batch limits and any number of failures.             *)
(*                                                                         *)
(* What is acked is a prefix of the events and what is in hand follows it  *)
(* in order (OrderInv); an event in hand is stored or still on its way     *)
(* (HoldInv).  So an object or a partition ends with its newest event,     *)
(* unless that one will be sent again (ToDo): it was written last, or what *)
(* is written after it is not acked, and then neither is it (NewestInv).   *)
(* With several threads this needs that an object is not written by two of *)
(* them (RaceInv).                                                         *)
(***************************************************************************)
EXTENDS Sinks, SequenceTheorems, FiniteSetTheorems, WellFoundedInduction, TLAPS

-----------------------------------------------------------------------------
(* The inductive invariant. *)

FlagType == import \in BOOLEAN /\ failed \in BOOLEAN

LogType ==
  /\ kind \in {"s3", "file", "eventhub"}
  /\ log \in Seq(Events) /\ Len(log) <= MaxMsgs
  /\ pc \in {"down", "ready", "flush", "send", "ack", "done", "end"}
  /\ after \in {"ack", "ready", "done", "down"}
  /\ faults \in 0..MaxFaults

HeldType ==
  /\ batch \in Seq(Msgs) /\ buf \in Seq(Msgs) /\ jobs \in Seq(Msgs)
  /\ busy \subseteq DOMAIN log /\ IsFiniteSet(busy) /\ Cardinality(busy) <= UploadTasks

DestType ==
  /\ store \in [Objects -> {0} \cup Msgs] /\ hub \in [Keys -> Seq(Msgs)]
  /\ raced \subseteq Objects /\ sent \subseteq DOMAIN log

(* What is empty when. *)
PhaseInv ==
  /\ pc # "send" => jobs = <<>> /\ busy = {} /\ ~failed
  /\ pc \in {"send", "ack", "done", "down"} => buf = <<>>
  /\ pc = "down" \/ (pc \in {"flush", "send"} /\ after = "down") => batch = <<>>
  /\ (pc = "ready" /\ batch = <<>>) \/ kind = "file" => buf = <<>>

(* a events are acked, the batch follows, and the last events taken, up to t, *)
(* are in the buffer or in the flush.                                         *)
InLine(a, t) ==
  /\ acked = 1..a /\ a <= t /\ t <= Len(log)
  /\ batch # <<>> => t = a + Len(batch)
  /\ \A i \in 1..Len(batch) : batch[i] = a + i
  /\ Len(buf) <= t - a /\ \A i \in 1..Len(buf) : buf[i] = t - Len(buf) + i
  /\ Len(jobs) <= t - a /\ \A i \in 1..Len(jobs) : jobs[i] = t - Len(jobs) + i

OrderInv == \E a \in Nat, t \in Nat : InLine(a, t)

(* An event in hand that is not stored is on its way, or the flush failed. *)
Pending(m) == failed \/ m \in Range(buf) \/ m \in Range(jobs) \/ m \in busy

HoldInv ==
  /\ acked \subseteq sent
  /\ \A m \in Range(batch) : m \in sent \/ Pending(m)

(* What the destination has taken is there. *)
StoreInv ==
  /\ \A k \in Keys : \A m \in Range(hub[k]) : m \in DOMAIN log /\ log[m].key = k
  /\ kind # "eventhub" => \A k \in Keys : hub[k] = <<>>
  /\ kind = "eventhub" => \A m \in sent : m \in Range(hub[log[m].key])
  /\ \A o \in Objects : store[o] # 0 => store[o] \in DOMAIN log /\ ObjectKey(store[o]) = o
  /\ kind # "eventhub" =>
       \A m \in sent : \/ store[ObjectKey(m)] # 0
                       \/ kind = "file" /\ \E n \in DOMAIN log \ acked : ObjectKey(n) = ObjectKey(m)
  /\ kind = "file" => \A m \in Range(batch) : store[ObjectKey(m)] # 0

(* An upload under way is of an event that is not acked, and an event in hand *)
(* that shares its object is still to be started.                             *)
RaceInv ==
  /\ busy # {} => kind = "s3"
  /\ \A m \in busy :
       /\ m \notin acked
       /\ \A n \in Range(batch) :
            n > m /\ ObjectKey(n) = ObjectKey(m) /\ ObjectKey(m) \notin raced => n \in Range(jobs)

(* Event m will be sent, again or for the first time, before it is acked. *)
ToDo(m) == m \notin acked /\ (m \in Range(batch) => Pending(m))

Newest(m) == \A n \in DOMAIN log : ObjectKey(n) = ObjectKey(m) => n <= m
NewestSent(k, m) == m \in Range(hub[k]) /\ \A n \in Range(hub[k]) : n <= m

NewestInv ==
  /\ kind # "eventhub" =>
       \A m \in DOMAIN log :
         Newest(m) /\ ObjectKey(m) \notin raced => store[ObjectKey(m)] = m \/ ToDo(m)
  /\ \A k \in Keys, m \in Msgs : NewestSent(k, m) => Last(hub[k]) = m \/ ToDo(m)

KInv ==
  /\ FlagType /\ LogType /\ HeldType /\ DestType
  /\ PhaseInv /\ OrderInv /\ HoldInv /\ StoreInv /\ RaceInv /\ NewestInv

-----------------------------------------------------------------------------
(* Lemmas about sequences and their ranges. *)

LEMMA RangeEmpty == Range(<<>>) = {}
BY EmptySeq DEF Range

LEMMA RangeOf ==
  ASSUME NEW S, NEW s \in Seq(S)
  PROVE  /\ Len(s) \in Nat /\ DOMAIN s = 1..Len(s)
         /\ Range(s) \subseteq S
         /\ \A x : x \in Range(s) <=> \E i \in 1..Len(s) : s[i] = x
BY LenProperties DEF Range

LEMMA RangeAppend ==
  ASSUME NEW S, NEW s \in Seq(S), NEW e \in S
  PROVE  /\ Append(s, e) \in Seq(S) /\ Range(Append(s, e)) = Range(s) \cup {e}
         /\ Len(Append(s, e)) = Len(s) + 1
         /\ \A i \in 1..Len(s) : Append(s, e)[i] = s[i]
         /\ Append(s, e)[Len(s) + 1] = e
<1> DEFINE r == Append(s, e)
<1>1. /\ r \in Seq(S) /\ Len(r) = Len(s) + 1 /\ Len(s) \in Nat
      /\ \A i \in 1..Len(s) : r[i] = s[i]
      /\ r[Len(s) + 1] = e
  BY AppendProperties, LenProperties
<1> HIDE DEF r
<1>2. \A x : x \in Range(r) => x \in Range(s) \cup {e}
  BY <1>1, RangeOf
<1>3. Range(s) \subseteq Range(r)
  BY <1>1, RangeOf
<1>4. e \in Range(r)
  BY <1>1, RangeOf
<1> QED
  BY <1>1, <1>2, <1>3, <1>4 DEF r

LEMMA RangeTail ==
  ASSUME NEW S, NEW s \in Seq(S), s # <<>>
  PROVE  /\ Tail(s) \in Seq(S) /\ Head(s) \in S /\ Head(s) = s[1]
         /\ Len(s) \in Nat \ {0} /\ Len(Tail(s)) = Len(s) - 1
         /\ \A i \in 1..(Len(s) - 1) : Tail(s)[i] = s[i + 1]
         /\ Range(s) = {Head(s)} \cup Range(Tail(s))
<1> DEFINE r == Tail(s)
<1>1. /\ r \in Seq(S) /\ Head(s) \in S /\ Head(s) = s[1]
      /\ Len(s) \in Nat \ {0} /\ Len(r) = Len(s) - 1
      /\ \A i \in 1..(Len(s) - 1) : r[i] = s[i + 1]
  BY HeadTailProperties, LenProperties, EmptySeq
<1> HIDE DEF r
<1>2. ASSUME NEW x \in Range(s) PROVE x \in {Head(s)} \cup Range(r)
  <2>1. PICK i \in 1..Len(s) : s[i] = x
    BY RangeOf
  <2>2. CASE i = 1
    BY <1>1, <2>1, <2>2
  <2>3. CASE i # 1
    <3>1. i - 1 \in 1..Len(r) /\ r[i - 1] = s[(i - 1) + 1] /\ (i - 1) + 1 = i
      BY <1>1, <2>1, <2>3
    <3> QED
      BY <1>1, <2>1, <3>1, RangeOf
  <2> QED
    BY <2>2, <2>3
<1>3. ASSUME NEW x \in Range(r) PROVE x \in Range(s)
  <2>1. PICK i \in 1..Len(r) : r[i] = x
    BY <1>1, RangeOf
  <2>2. i + 1 \in 1..Len(s) /\ s[i + 1] = x
    BY <1>1, <2>1
  <2> QED
    BY <2>2, RangeOf
<1>4. Head(s) \in Range(s)
  BY <1>1, RangeOf
<1> QED
  BY <1>1, <1>2, <1>3, <1>4 DEF r

(* A sequence is split after its first n elements. *)
LEMMA RangeSplit ==
  ASSUME NEW S, NEW s \in Seq(S), NEW n \in 1..Len(s)
  PROVE  /\ SubSeq(s, 1, n) \in Seq(S) /\ Len(SubSeq(s, 1, n)) = n
         /\ \A i \in 1..n : SubSeq(s, 1, n)[i] = s[i]
         /\ SubSeq(s, n + 1, Len(s)) \in Seq(S) /\ Len(SubSeq(s, n + 1, Len(s))) = Len(s) - n
         /\ \A i \in 1..(Len(s) - n) : SubSeq(s, n + 1, Len(s))[i] = s[n + i]
         /\ Range(s) = Range(SubSeq(s, 1, n)) \cup Range(SubSeq(s, n + 1, Len(s)))
<1> DEFINE u == SubSeq(s, 1, n)
           v == SubSeq(s, n + 1, Len(s))
<1>1. Len(s) \in Nat /\ n \in Nat /\ n <= Len(s)
  BY LenProperties
<1>2. u \in Seq(S) /\ Len(u) = n /\ \A i \in 1..n : u[i] = s[i]
  <2>1. /\ u \in Seq(S) /\ Len(u) = (IF 1 <= n THEN n - 1 + 1 ELSE 0)
        /\ \A i \in 1..(n - 1 + 1) : u[i] = s[1 + i - 1]
    BY <1>1, SubSeqProperties
  <2> QED
    BY <1>1, <2>1
<1>3. v \in Seq(S) /\ Len(v) = Len(s) - n /\ \A i \in 1..(Len(s) - n) : v[i] = s[n + i]
  <2>1. /\ v \in Seq(S) /\ Len(v) = (IF n + 1 <= Len(s) THEN Len(s) - (n + 1) + 1 ELSE 0)
        /\ \A i \in 1..(Len(s) - (n + 1) + 1) : v[i] = s[(n + 1) + i - 1]
    BY <1>1, SubSeqProperties
  <2>2. Len(v) = Len(s) - n
    BY <1>1, <2>1
  <2>3. ASSUME NEW i \in 1..(Len(s) - n) PROVE v[i] = s[n + i]
    <3>1. i \in 1..(Len(s) - (n + 1) + 1) /\ (n + 1) + i - 1 = n + i
      BY <1>1
    <3> QED
      BY <2>1, <3>1
  <2> QED
    BY <2>1, <2>2, <2>3
<1> HIDE DEF u, v
<1>4. ASSUME NEW x \in Range(s) PROVE x \in Range(u) \cup Range(v)
  <2>1. PICK i \in 1..Len(s) : s[i] = x
    BY RangeOf
  <2>2. CASE i <= n
    BY <1>1, <1>2, <2>1, <2>2, RangeOf
  <2>3. CASE i > n
    <3>1. i - n \in 1..(Len(s) - n) /\ n + (i - n) = i
      BY <1>1, <2>3
    <3>2. v[i - n] = x /\ i - n \in 1..Len(v)
      BY <1>3, <2>1, <3>1
    <3> QED
      BY <1>3, <3>2, RangeOf
  <2> QED
    BY <1>1, <2>2, <2>3
<1>5. ASSUME NEW x \in Range(u) PROVE x \in Range(s)
  BY <1>1, <1>2, RangeOf
<1>6. ASSUME NEW x \in Range(v) PROVE x \in Range(s)
  <2>1. PICK i \in 1..Len(v) : v[i] = x
    BY <1>3, RangeOf
  <2>2. n + i \in 1..Len(s) /\ s[n + i] = x
    BY <1>1, <1>3, <2>1
  <2> QED
    BY <2>2, RangeOf
<1> QED
  BY <1>2, <1>3, <1>4, <1>5, <1>6 DEF u, v

LEMMA RangeConcat ==
  ASSUME NEW S, NEW s \in Seq(S), NEW r \in Seq(S), r # <<>>
  PROVE  /\ s \o r \in Seq(S) /\ Range(s \o r) = Range(s) \cup Range(r)
         /\ s \o r # <<>> /\ Last(s \o r) = Last(r)
<1> DEFINE c == s \o r
<1>1. /\ c \in Seq(S) /\ Len(c) = Len(s) + Len(r)
      /\ \A i \in 1..(Len(s) + Len(r)) : c[i] = IF i <= Len(s) THEN s[i] ELSE r[i - Len(s)]
  BY ConcatProperties
<1>2. Len(s) \in Nat /\ Len(r) \in Nat /\ Len(r) # 0
  BY LenProperties, EmptySeq
<1> HIDE DEF c
<1>3. ASSUME NEW x \in Range(c) PROVE x \in Range(s) \cup Range(r)
  <2>1. PICK i \in 1..Len(c) : c[i] = x
    BY <1>1, RangeOf
  <2>2. CASE i <= Len(s)
    BY <1>1, <1>2, <2>1, <2>2, RangeOf
  <2>3. CASE i > Len(s)
    <3>1. i - Len(s) \in 1..Len(r) /\ r[i - Len(s)] = x
      BY <1>1, <1>2, <2>1, <2>3
    <3> QED
      BY <3>1, RangeOf
  <2> QED
    BY <1>1, <1>2, <2>2, <2>3
<1>4. ASSUME NEW x \in Range(s) PROVE x \in Range(c)
  <2>1. PICK i \in 1..Len(s) : s[i] = x
    BY RangeOf
  <2>2. i \in 1..Len(c) /\ c[i] = x
    BY <1>1, <1>2, <2>1
  <2> QED
    BY <1>1, <2>2, RangeOf
<1>5. ASSUME NEW x \in Range(r) PROVE x \in Range(c)
  <2>1. PICK i \in 1..Len(r) : r[i] = x
    BY RangeOf
  <2>2. /\ Len(s) + i \in 1..(Len(s) + Len(r)) /\ ~ (Len(s) + i <= Len(s)) /\ (Len(s) + i) - Len(s) = i
    BY <1>2, <2>1
  <2>3. c[Len(s) + i] = x
    BY <1>1, <2>1, <2>2
  <2> QED
    BY <1>1, <2>2, <2>3, RangeOf
<1>6. c # <<>> /\ Last(c) = Last(r)
  <2>1. Len(c) \in 1..(Len(s) + Len(r)) /\ ~ (Len(c) <= Len(s)) /\ Len(c) - Len(s) = Len(r)
    BY <1>1, <1>2
  <2>2. c[Len(c)] = r[Len(r)]
    BY <1>1, <2>1
  <2> QED
    BY <1>1, <1>2, <2>2, EmptySeq DEF Last
<1> QED
  BY <1>1, <1>3, <1>4, <1>5, <1>6 DEF c

(* The range of a sequence that counts up from b. *)
LEMMA RunRange ==
  ASSUME NEW S, NEW s \in Seq(S), NEW b \in Int, \A i \in 1..Len(s) : s[i] = b + i
  PROVE  Range(s) = (b + 1)..(b + Len(s))
<1>1. Len(s) \in Nat
  BY LenProperties
<1>2. ASSUME NEW x \in Range(s) PROVE x \in (b + 1)..(b + Len(s))
  BY <1>1, RangeOf
<1>3. ASSUME NEW x \in (b + 1)..(b + Len(s)) PROVE x \in Range(s)
  <2>1. x - b \in 1..Len(s) /\ b + (x - b) = x
    BY <1>1
  <2> QED
    BY <2>1, RangeOf
<1> QED
  BY <1>2, <1>3

(* A nonempty set of naturals below a bound has a maximum. *)
LEMMA MaxInSet ==
  ASSUME NEW n \in Nat, NEW S \in SUBSET (0..n), S # {}
  PROVE  Max(S) \in S /\ \A y \in S : y <= Max(S)
<1> DEFINE T == {n - x : x \in S}
<1>1. T \subseteq Nat /\ T # {}
  <2>1. ASSUME NEW x \in S PROVE n - x \in Nat
    OBVIOUS
  <2> QED
    BY <2>1
<1> HIDE DEF T
<1>2. PICK t \in T : \A u \in T : ~ (<<u, t>> \in OpToRel(<, Nat))
  BY <1>1, NatLessThanWellFounded, WFMin
<1>3. ASSUME NEW u \in T PROVE t <= u
  <2>1. ~ (<<u, t>> \in {r \in Nat \X Nat : r[1] < r[2]})
    BY <1>2 DEF OpToRel
  <2>2. t \in Nat /\ u \in Nat
    BY <1>1
  <2> QED
    BY <2>1, <2>2
<1>4. \E x \in S : \A y \in S : x >= y
  <2>1. PICK x \in S : t = n - x
    BY DEF T
  <2>2. \A y \in S : n - x <= n - y
    BY <1>3, <2>1 DEF T
  <2> QED
    BY <2>2
<1>5. Max(S) \in S /\ \A y \in S : Max(S) >= y
  BY <1>4 DEF Max
<1> QED
  BY <1>5

-----------------------------------------------------------------------------
(* What the invariant says of events and of those in hand. *)

LEMMA LogFacts ==
  ASSUME LogType
  PROVE  /\ DOMAIN log = 1..Len(log) /\ Len(log) \in Nat /\ MaxMsgs \in Nat /\ Len(log) <= MaxMsgs
         /\ \A m \in DOMAIN log : /\ m \in Msgs /\ m \in Nat /\ m # 0
                                  /\ log[m].key \in Keys /\ log[m].sec \in 1..MaxSecond
                                  /\ log[m] \in Events
                                  /\ ObjectKey(m) \in Objects
<1>1. log \in Seq(Events) /\ Len(log) <= MaxMsgs /\ MaxMsgs \in Nat
  BY SinksAssumption DEF LogType, SinksAssumption
<1>2. DOMAIN log = 1..Len(log) /\ Len(log) \in Nat
  BY <1>1, LenProperties
<1>3. ASSUME NEW m \in DOMAIN log
      PROVE  /\ log[m] \in Events
             /\ log[m].key \in Keys /\ log[m].sec \in 1..MaxSecond
  <2>1. log[m] \in Events
    BY <1>1, <1>2, ElementOfSeq
  <2> QED
    BY <2>1 DEF Events
<1>4. \A m \in DOMAIN log : m \in Msgs /\ m \in Nat /\ m # 0
  BY <1>1, <1>2 DEF Msgs
<1> QED
  BY <1>1, <1>2, <1>3, <1>4 DEF ObjectKey, Objects, Events

LEMMA InLineFacts ==
  ASSUME LogType, HeldType, NEW a \in Nat, NEW t \in Nat, InLine(a, t)
  PROVE  /\ acked = 1..a /\ a <= t /\ t <= Len(log)
         /\ Range(batch) = (a + 1)..(a + Len(batch)) /\ a + Len(batch) <= t
         /\ Range(buf) = (t - Len(buf) + 1)..t /\ a <= t - Len(buf)
         /\ Range(jobs) = (t - Len(jobs) + 1)..t /\ a <= t - Len(jobs)
         /\ Len(batch) \in Nat /\ Len(buf) \in Nat /\ Len(jobs) \in Nat
<1>1. Len(batch) \in Nat /\ Len(buf) \in Nat /\ Len(jobs) \in Nat /\ Len(log) \in Nat
  BY LenProperties, LogFacts DEF HeldType
<1>2. a + Len(batch) <= t
  <2>1. CASE batch = <<>>
    BY <1>1, <2>1, EmptySeq DEF InLine
  <2>2. CASE batch # <<>>
    BY <1>1, <2>2 DEF InLine
  <2> QED
    BY <2>1, <2>2
<1>3. Range(batch) = (a + 1)..(a + Len(batch))
  BY RunRange DEF InLine, HeldType
<1>4. Range(buf) = (t - Len(buf) + 1)..t /\ a <= t - Len(buf)
  <2>1. t - Len(buf) \in Int /\ (t - Len(buf)) + Len(buf) = t /\ a <= t - Len(buf)
    BY <1>1 DEF InLine
  <2>2. Range(buf) = (t - Len(buf) + 1)..((t - Len(buf)) + Len(buf))
    BY <2>1, RunRange DEF InLine, HeldType
  <2> QED
    BY <2>1, <2>2
<1>5. Range(jobs) = (t - Len(jobs) + 1)..t /\ a <= t - Len(jobs)
  <2>1. t - Len(jobs) \in Int /\ (t - Len(jobs)) + Len(jobs) = t /\ a <= t - Len(jobs)
    BY <1>1 DEF InLine
  <2>2. Range(jobs) = (t - Len(jobs) + 1)..((t - Len(jobs)) + Len(jobs))
    BY <2>1, RunRange DEF InLine, HeldType
  <2> QED
    BY <2>1, <2>2
<1> QED
  BY <1>1, <1>2, <1>3, <1>4, <1>5 DEF InLine

(* What is acked is a prefix; what is in hand is of the log and not acked. *)
LEMMA HeldFacts ==
  ASSUME LogType, HeldType, OrderInv
  PROVE  /\ acked \subseteq DOMAIN log
         /\ Range(batch) \cup Range(buf) \cup Range(jobs) \subseteq DOMAIN log \ acked
         /\ \A m \in acked, n \in DOMAIN log : n <= m => n \in acked
<1>1. PICK a \in Nat, t \in Nat : InLine(a, t)
  BY DEF OrderInv
<1>2. /\ acked = 1..a /\ a <= t /\ t <= Len(log)
      /\ Range(batch) = (a + 1)..(a + Len(batch)) /\ a + Len(batch) <= t
      /\ Range(buf) = (t - Len(buf) + 1)..t /\ a <= t - Len(buf)
      /\ Range(jobs) = (t - Len(jobs) + 1)..t /\ a <= t - Len(jobs)
      /\ Len(batch) \in Nat /\ Len(buf) \in Nat /\ Len(jobs) \in Nat
  BY <1>1, InLineFacts
<1>3. DOMAIN log = 1..Len(log) /\ Len(log) \in Nat
  BY LogFacts
<1>4. acked \subseteq DOMAIN log
  BY <1>2, <1>3
<1>5. Range(batch) \subseteq DOMAIN log \ acked
  BY <1>2, <1>3
<1>6. Range(buf) \subseteq DOMAIN log \ acked
  BY <1>2, <1>3
<1>7. Range(jobs) \subseteq DOMAIN log \ acked
  BY <1>2, <1>3
<1>8. \A m \in acked, n \in DOMAIN log : n <= m => n \in acked
  BY <1>2, <1>3
<1> QED
  BY <1>4, <1>5, <1>6, <1>7, <1>8

-----------------------------------------------------------------------------
(* What is stored. *)

LEMMA PutStored ==
  ASSUME LogType, DestType, StoreInv, NEW m \in DOMAIN log, Put(m), kind # "eventhub",
         UNCHANGED <<kind, log, acked, hub, raced>>, Range(batch') \subseteq Range(batch) \cup {m}
  PROVE  /\ DestType' /\ StoreInv'
         /\ store' = [store EXCEPT ![ObjectKey(m)] = m] /\ sent' = sent \cup {m}
<1> USE DEF StoreInv
<1>1. m \in Msgs /\ m \in Nat /\ m # 0 /\ ObjectKey(m) \in Objects
  BY LogFacts
<1>2. /\ store' \in [Objects -> {0} \cup Msgs] /\ store'[ObjectKey(m)] = m
      /\ \A o \in Objects : o # ObjectKey(m) => store'[o] = store[o]
      /\ store' = [store EXCEPT ![ObjectKey(m)] = m] /\ sent' = sent \cup {m}
  BY <1>1 DEF Put, DestType
<1>3. \A n : ObjectKey(n)' = ObjectKey(n)
  BY DEF ObjectKey
<1>4. \A o \in Objects : store'[o] # 0 => store'[o] \in DOMAIN log' /\ (ObjectKey(store[o]))' = o
  BY <1>1, <1>2, <1>3
<1>5. \A n \in DOMAIN log : ObjectKey(n) \in Objects
  BY LogFacts
<1>6. \A n \in DOMAIN log : store[ObjectKey(n)] # 0 \/ n = m => store'[ObjectKey(n)] # 0
  BY <1>1, <1>2, <1>5
<1>7. \A n \in sent' : \/ store'[ObjectKey(n)] # 0
                       \/ kind = "file" /\ \E i \in DOMAIN log \ acked : ObjectKey(i) = ObjectKey(n)
  BY <1>2, <1>6 DEF DestType
<1>8. ASSUME NEW n \in Range(batch'), kind = "file" PROVE store'[ObjectKey(n)] # 0
  <2>1. CASE n = m
    BY <1>2, <1>1, <2>1
  <2>2. CASE n \in Range(batch) /\ ObjectKey(n) = ObjectKey(m)
    BY <1>2, <1>1, <2>2
  <2>3. CASE n \in Range(batch) /\ ObjectKey(n) # ObjectKey(m)
    <3>1. store[ObjectKey(n)] # 0
      BY <1>8, <2>3
    <3>2. store' = [store EXCEPT ![ObjectKey(m)] = m]
      BY <1>2
    <3>3. store'[ObjectKey(n)] = store[ObjectKey(n)]
      BY <3>2, <2>3 DEF DestType
    <3> QED
      BY <3>1, <3>3
  <2> QED
    BY <2>1, <2>2, <2>3
<1>9. DestType'
  BY <1>2 DEF DestType
<1>10. StoreInv'
  BY <1>3, <1>4, <1>7, <1>8
<1> QED
  BY <1>2, <1>9, <1>10

(* A group goes to the end of one partition. *)
LEMMA SendStored ==
  ASSUME LogType, HeldType, DestType, OrderInv, StoreInv, NEW n \in DOMAIN jobs, PlanBatches(jobs, n),
         Send(SubSeq(jobs, 1, n)), kind = "eventhub", UNCHANGED <<kind, log, store, raced>>
  PROVE  LET g == SubSeq(jobs, 1, n)
             k == log[jobs[1]].key
         IN  /\ DestType' /\ StoreInv'
             /\ k \in Keys /\ sent' = sent \cup Range(g)
             /\ Range(hub'[k]) = Range(hub[k]) \cup Range(g) /\ Last(hub'[k]) = jobs[n]
             /\ \A l \in Keys : l # k => hub'[l] = hub[l]
<1> DEFINE g == SubSeq(jobs, 1, n)
           k == log[jobs[1]].key
<1>1. jobs \in Seq(Msgs) /\ n \in 1..Len(jobs) /\ Len(jobs) \in Nat /\ n \in Nat /\ 1 <= n
  BY RangeOf DEF HeldType
<1>2. /\ g \in Seq(Msgs) /\ Len(g) = n /\ \A i \in 1..n : g[i] = jobs[i]
      /\ Range(g) \subseteq Range(jobs)
  BY <1>1, RangeSplit
<1>3. g # <<>> /\ Head(g) = jobs[1] /\ Last(g) = jobs[n]
  BY <1>1, <1>2, EmptySeq, RangeTail DEF Last
<1> HIDE DEF g
<1>4. Range(g) \subseteq DOMAIN log \ acked
  BY <1>2, HeldFacts
<1>5. \A m \in Range(g) : log[m].key = k
  <2>1. ASSUME NEW m \in Range(g) PROVE log[m].key = k
    <3>1. PICK i \in 1..n : m = jobs[i]
      BY <1>2, RangeOf
    <3> QED
      BY <3>1 DEF PlanBatches
  <2> QED
    BY <2>1
<1>6. jobs[1] \in Range(g)
  BY <1>1, <1>2, RangeOf
<1>7. k \in Keys
  BY <1>4, <1>6, LogFacts
<1> HIDE DEF k
<1>8. /\ hub' = [hub EXCEPT ![k] = hub[k] \o g] /\ sent' = sent \cup Range(g)
  BY <1>3 DEF Send, g, k
<1>9. /\ hub[k] \o g \in Seq(Msgs) /\ Range(hub[k] \o g) = Range(hub[k]) \cup Range(g)
      /\ Last(hub[k] \o g) = jobs[n]
  <2>1. hub[k] \in Seq(Msgs)
    BY <1>7 DEF DestType
  <2> QED
    BY <2>1, <1>2, <1>3, RangeConcat
<1>10. /\ hub' \in [Keys -> Seq(Msgs)] /\ hub'[k] = hub[k] \o g
       /\ \A l \in Keys : l # k => hub'[l] = hub[l]
  BY <1>7, <1>8, <1>9 DEF DestType
<1>11. DestType'
  BY <1>4, <1>8, <1>10 DEF DestType
<1>12. \A l \in Keys : \A m \in Range(hub'[l]) : m \in DOMAIN log /\ log[m].key = l
  <2>1. ASSUME NEW l \in Keys, NEW m \in Range(hub'[l]) PROVE m \in DOMAIN log /\ log[m].key = l
    <3>1. CASE l = k
      BY <3>1, <1>4, <1>5, <1>9, <1>10 DEF StoreInv
    <3>2. CASE l # k
      BY <3>2, <1>10 DEF StoreInv
    <3> QED
      BY <3>1, <3>2
  <2> QED
    BY <2>1
<1>13. \A m \in sent' : m \in Range(hub'[log[m].key])
  <2>1. ASSUME NEW m \in sent' PROVE m \in Range(hub'[log[m].key])
    <3>1. CASE m \in Range(g)
      BY <3>1, <1>5, <1>9, <1>10
    <3>2. CASE m \in sent
      <4>1. m \in Range(hub[log[m].key]) /\ log[m].key \in Keys
        BY <3>2, LogFacts DEF StoreInv, DestType
      <4> QED
        BY <4>1, <1>9, <1>10
    <3> QED
      BY <3>1, <3>2, <1>8
  <2> QED
    BY <2>1
<1>14. \A o \in Objects : store[o] # 0 => store[o] \in DOMAIN log /\ ObjectKey(store[o]) = o
  BY DEF StoreInv
<1>15. StoreInv'
  BY <1>12, <1>13, <1>14 DEF StoreInv, ObjectKey
<1> QED
  BY <1>7, <1>8, <1>9, <1>10, <1>11, <1>15 DEF g, k

-----------------------------------------------------------------------------
(* The steps. *)

LEMMA InitKInv == Init => KInv
<1> SUFFICES ASSUME Init PROVE KInv
  OBVIOUS
<1> USE DEF Init
<1>1. FlagType /\ LogType
  <2>1. FlagType
    BY DEF FlagType
  <2>2. 0 \in 0..MaxFaults /\ Len(<<>>) <= MaxMsgs /\ <<>> \in Seq(Events)
    BY SinksAssumption, EmptySeq DEF SinksAssumption
  <2>3. LogType
    BY <2>2 DEF LogType
  <2> QED
    BY <2>1, <2>3
<1>2. HeldType
  BY SinksAssumption, EmptySeq, FS_EmptySet DEF HeldType, SinksAssumption
<1>3. DestType
  BY EmptySeq DEF DestType
<1>4. PhaseInv
  BY DEF PhaseInv
<1>5. OrderInv
  <2>1. InLine(0, 0)
    BY EmptySeq DEF InLine
  <2> QED
    BY <2>1 DEF OrderInv
<1>6. HoldInv /\ RaceInv
  BY RangeEmpty DEF HoldInv, RaceInv
<1>7. StoreInv
  BY RangeEmpty DEF StoreInv
<1>8. NewestInv
  <2>1. DOMAIN log = {} /\ \A k \in Keys : Range(hub[k]) = {}
    BY RangeEmpty, EmptySeq
  <2> QED
    BY <2>1 DEF NewestInv, NewestSent
<1> QED
  BY <1>1, <1>2, <1>3, <1>4, <1>5, <1>6, <1>7, <1>8 DEF KInv

(* A step that only moves the process on. *)
LEMMA PhaseSteps ==
  ASSUME KInv, Start \/ FlushIdle \/ ImportCompleted \/ FlushReturns
  PROVE  KInv'
<1> USE DEF KInv, Start, FlushIdle, ImportCompleted, FlushReturns, Flush, Sent
<1>1. UNCHANGED <<kind, import, log, acked, batch, buf, jobs, busy, failed, store, hub, sent, raced, faults>>
  BY DEF dest
<1>2. FlagType' /\ HeldType' /\ DestType'
  BY <1>1 DEF FlagType, HeldType, DestType, KInv
<1>3. LogType' /\ PhaseInv'
  <2>1. LogType'
    BY <1>1 DEF LogType
  <2>2. CASE Start
    BY <1>1, <2>2 DEF PhaseInv, LogType
  <2>3. CASE FlushIdle
    BY <1>1, <2>3 DEF PhaseInv, LogType
  <2>4. CASE ImportCompleted
    BY <1>1, <2>4 DEF PhaseInv, LogType
  <2>5. CASE FlushReturns
    BY <1>1, <2>5 DEF PhaseInv, LogType
  <2> QED
    BY <2>1, <2>2, <2>3, <2>4, <2>5
<1>4. OrderInv' /\ HoldInv'
  BY <1>1 DEF OrderInv, InLine, HoldInv, Pending, KInv
<1>5. StoreInv' /\ RaceInv'
  BY <1>1 DEF StoreInv, RaceInv, ObjectKey, KInv
<1>6. NewestInv'
  BY <1>1 DEF NewestInv, ObjectKey, Newest, NewestSent, ToDo, Pending, KInv
<1> QED
  BY <1>2, <1>3, <1>4, <1>5, <1>6

(* What holds of the events does not depend on the ones published later. *)
LEMMA PublishKInv ==
  ASSUME KInv, Publish
  PROVE  KInv'
<1> USE DEF KInv
<1>1. UNCHANGED <<kind, import, acked, pc, after, batch, buf, jobs, busy, failed, store, hub, sent, raced, faults>>
  BY DEF Publish, dest
<1>2. PICK e \in Events : log' = Append(log, e)
  BY DEF Publish
<1>3. /\ log' \in Seq(Events) /\ Len(log') = Len(log) + 1 /\ Len(log) \in Nat
      /\ Len(log) < MaxMsgs /\ MaxMsgs \in Nat
      /\ \A m \in 1..Len(log) : log'[m] = log[m]
  BY <1>2, RangeAppend, LogFacts DEF LogType, Publish
<1>4. /\ DOMAIN log = 1..Len(log) /\ DOMAIN log' = 1..(Len(log) + 1)
      /\ DOMAIN log \subseteq DOMAIN log'
      /\ \A m \in DOMAIN log : log'[m] = log[m] /\ ObjectKey(m)' = ObjectKey(m)
  <2>1. DOMAIN log = 1..Len(log) /\ DOMAIN log' = 1..(Len(log) + 1)
    BY <1>3, LogFacts, LenProperties
  <2> QED
    BY <1>3, <2>1 DEF ObjectKey
<1>5. FlagType' /\ LogType'
  BY <1>1, <1>3 DEF FlagType, LogType
<1>6. HeldType' /\ DestType'
  BY <1>1, <1>4 DEF HeldType, DestType
<1>7. PhaseInv'
  BY <1>1 DEF PhaseInv
<1>8. OrderInv'
  <2>1. PICK a \in Nat, t \in Nat : InLine(a, t)
    BY DEF OrderInv
  <2>2. Len(log') \in Nat /\ t <= Len(log')
    BY <1>3, <2>1 DEF InLine
  <2>3. InLine(a, t)'
    BY <1>1, <2>1, <2>2 DEF InLine
  <2> QED
    BY <2>3 DEF OrderInv
<1>9. HoldInv'
  BY <1>1 DEF HoldInv, Pending
<1>10. /\ acked \subseteq DOMAIN log /\ Range(batch) \subseteq DOMAIN log
       /\ busy \subseteq DOMAIN log /\ sent \subseteq DOMAIN log
  BY HeldFacts DEF HeldType, DestType
<1>11. StoreInv'
  <2>1. \A k \in Keys : \A m \in Range(hub[k]) : m \in DOMAIN log' /\ log'[m].key = k
    BY <1>4 DEF StoreInv
  <2>2. kind = "eventhub" => \A m \in sent : m \in Range(hub[log'[m].key])
    BY <1>4, <1>10 DEF StoreInv
  <2>3. \A o \in Objects : store[o] # 0 => store[o] \in DOMAIN log' /\ (ObjectKey(store[o]))' = o
    <3>1. ASSUME NEW o \in Objects, store[o] # 0
          PROVE  store[o] \in DOMAIN log' /\ (ObjectKey(store[o]))' = o
      <4>1. store[o] \in DOMAIN log /\ ObjectKey(store[o]) = o
        BY <3>1 DEF StoreInv
      <4> QED
        BY <4>1, <1>1, <1>4 DEF ObjectKey
    <3> QED
      BY <3>1
  <2>4. kind # "eventhub" =>
          \A m \in sent : \/ store[ObjectKey(m)'] # 0
                          \/ kind = "file" /\ \E n \in DOMAIN log' \ acked : ObjectKey(n)' = ObjectKey(m)'
    <3>1. ASSUME kind # "eventhub", NEW m \in sent, store[ObjectKey(m)'] = 0
          PROVE  kind = "file" /\ \E n \in DOMAIN log' \ acked : ObjectKey(n)' = ObjectKey(m)'
      <4>1. store[ObjectKey(m)] = 0 /\ m \in DOMAIN log
        BY <3>1, <1>4, <1>10
      <4>2. kind = "file" /\ \E n \in DOMAIN log \ acked : ObjectKey(n) = ObjectKey(m)
        BY <3>1, <4>1 DEF StoreInv
      <4> QED
        BY <4>1, <4>2, <1>4
    <3> QED
      BY <3>1
  <2>5. kind = "file" => \A m \in Range(batch) : store[ObjectKey(m)'] # 0
    BY <1>4, <1>10 DEF StoreInv
  <2> QED
    BY <1>1, <2>1, <2>2, <2>3, <2>4, <2>5 DEF StoreInv
<1>12. RaceInv'
  <2>1. \A m \in busy : \A n \in Range(batch) : ObjectKey(m)' = ObjectKey(m) /\ ObjectKey(n)' = ObjectKey(n)
    BY <1>4, <1>10
  <2> QED
    BY <1>1, <2>1 DEF RaceInv
<1>13. \A m : ToDo(m) => ToDo(m)'
  BY <1>1 DEF ToDo, Pending
<1>14. ASSUME kind # "eventhub", NEW m \in DOMAIN log', Newest(m)', ObjectKey(m)' \notin raced
       PROVE  store[ObjectKey(m)'] = m \/ ToDo(m)'
  <2>1. CASE m \in DOMAIN log
    <3>1. Newest(m)
      <4>1. ASSUME NEW n \in DOMAIN log, ObjectKey(n) = ObjectKey(m) PROVE n <= m
        BY <4>1, <2>1, <1>4, <1>14 DEF Newest
      <4> QED
        BY <4>1 DEF Newest
    <3>2. store[ObjectKey(m)] = m \/ ToDo(m)
      BY <3>1, <2>1, <1>4, <1>14 DEF NewestInv
    <3> QED
      BY <3>2, <2>1, <1>4, <1>13
  <2>2. CASE m \notin DOMAIN log
    BY <2>2, <1>1, <1>10 DEF ToDo
  <2> QED
    BY <2>1, <2>2
<1>15. ASSUME NEW k \in Keys, NEW m \in Msgs, NewestSent(k, m)'
       PROVE  Last(hub[k]) = m \/ ToDo(m)'
  <2>1. NewestSent(k, m)
    BY <1>1, <1>15 DEF NewestSent
  <2> QED
    BY <2>1, <1>13 DEF NewestInv
<1>16. NewestInv'
  <2>1. kind' # "eventhub" =>
           \A m \in DOMAIN log' : Newest(m)' /\ ObjectKey(m)' \notin raced' => store'[ObjectKey(m)'] = m \/ ToDo(m)'
    BY <1>1, <1>14
  <2>2. \A k \in Keys, m \in Msgs : NewestSent(k, m)' => Last(hub'[k]) = m \/ ToDo(m)'
    BY <1>1, <1>15
  <2> QED
    BY <2>1, <2>2 DEF NewestInv
<1> QED
  BY <1>5, <1>6, <1>7, <1>8, <1>9, <1>11, <1>12, <1>16

(* A failure empties the driver.  What it still wrote is of events that are   *)
(* not acked, so that no newer event is.                                      *)
LEMMA AbortKeeps ==
  ASSUME KInv, Abort, UNCHANGED <<kind, import, log, acked, after, raced>>, faults' \in 0..MaxFaults,
         DestType', StoreInv', sent \subseteq sent',
         \A o \in Objects : store'[o] = store[o] \/ \E n \in DOMAIN log \ acked : ObjectKey(n) = o,
         \A k \in Keys : hub'[k] = hub[k] \/ \E n \in Range(hub'[k]) : n \in DOMAIN log \ acked
  PROVE  KInv'
<1> USE DEF KInv
<1>1. /\ pc' = "down" /\ batch' = <<>> /\ buf' = <<>> /\ jobs' = <<>> /\ busy' = {} /\ failed' = FALSE
  BY DEF Abort
<1>2. FlagType'
  BY <1>1 DEF FlagType
<1>3. LogType'
  BY <1>1 DEF LogType
<1>4. HeldType'
  BY <1>1, EmptySeq, FS_EmptySet, SinksAssumption DEF HeldType, SinksAssumption
<1>5. PhaseInv'
  BY <1>1 DEF PhaseInv
<1>6. OrderInv'
  <2>1. PICK a \in Nat, t \in Nat : InLine(a, t)
    BY DEF OrderInv
  <2>2. acked' = 1..a /\ a <= a /\ a <= Len(log') /\ Len(<<>>) = 0 /\ 0 <= a - a
    BY <2>1, InLineFacts, LogFacts, EmptySeq
  <2>3. InLine(a, a)'
    BY <1>1, <2>2 DEF InLine
  <2> QED
    BY <2>3 DEF OrderInv
<1>7. HoldInv' /\ RaceInv'
  BY <1>1, RangeEmpty DEF HoldInv, RaceInv
<1>8. \A m : m \notin acked => ToDo(m)'
  BY <1>1, RangeEmpty DEF ToDo
<1>9. \A m : ObjectKey(m)' = ObjectKey(m) /\ (Newest(m)' <=> Newest(m))
  BY DEF ObjectKey, Newest
<1>10. ASSUME kind # "eventhub", NEW m \in DOMAIN log, Newest(m), ObjectKey(m) \notin raced, m \in acked
       PROVE  store'[ObjectKey(m)] = m
  <2>1. store[ObjectKey(m)] = m /\ ObjectKey(m) \in Objects
    BY <1>10, LogFacts DEF NewestInv, ToDo
  <2>2. \A n \in DOMAIN log : ObjectKey(n) = ObjectKey(m) => n \in acked
    BY <1>10, HeldFacts DEF Newest
  <2> QED
    BY <2>1, <2>2
<1>11. ASSUME NEW k \in Keys, NEW m \in Msgs, NewestSent(k, m)', m \in acked
       PROVE  Last(hub'[k]) = m
  <2>1. \A n \in Range(hub'[k]) : n \in DOMAIN log => n \in acked
    BY <1>11, HeldFacts DEF NewestSent
  <2>2. hub'[k] = hub[k]
    BY <2>1
  <2>3. NewestSent(k, m)
    BY <2>2, <1>11 DEF NewestSent
  <2> QED
    BY <2>2, <2>3, <1>11 DEF NewestInv, ToDo
<1>12. NewestInv'
  BY <1>8, <1>9, <1>10, <1>11 DEF NewestInv
<1> QED
  BY <1>2, <1>3, <1>4, <1>5, <1>6, <1>7, <1>12

LEMMA FaultCount ==
  ASSUME LogType, Fault
  PROVE  faults' \in 0..MaxFaults
BY SinksAssumption DEF LogType, Fault, SinksAssumption

LEMMA WriteFailsKInv ==
  ASSUME KInv, WriteFails
  PROVE  KInv'
<1> USE DEF KInv
<1>1. /\ Abort /\ UNCHANGED <<kind, import, log, acked, after, raced>> /\ faults' \in 0..MaxFaults
      /\ kind = "file" /\ hub' = hub /\ sent' = sent
  BY FaultCount DEF WriteFails
<1>2. PICK m \in Msgs : NextEvent(m) /\ store' \in {store, [store EXCEPT ![ObjectKey(m)] = 0]}
  BY DEF WriteFails
<1>3. m \in DOMAIN log \ acked /\ ObjectKey(m) \in Objects
  BY <1>2, LogFacts DEF NextEvent
<1>4. /\ store' \in [Objects -> {0} \cup Msgs]
      /\ \A o \in Objects : store'[o] = store[o] \/ (o = ObjectKey(m) /\ store'[o] = 0)
  BY <1>2, <1>3 DEF DestType
<1>5. DestType'
  BY <1>1, <1>4 DEF DestType
<1>6. Range(batch') = {}
  BY <1>1, RangeEmpty DEF Abort
<1>7. ASSUME NEW n \in sent
      PROVE  store'[ObjectKey(n)] # 0 \/ \E i \in DOMAIN log \ acked : ObjectKey(i) = ObjectKey(n)
  <2>1. ObjectKey(n) \in Objects
    BY LogFacts DEF DestType
  <2> QED
    BY <2>1, <1>1, <1>3, <1>4 DEF StoreInv
<1>8. \A n : ObjectKey(n)' = ObjectKey(n)
  BY <1>1 DEF ObjectKey
<1>9. \A o \in Objects : store'[o] # 0 => store'[o] \in DOMAIN log' /\ (ObjectKey(store[o]))' = o
  BY <1>1, <1>4, <1>8 DEF StoreInv
<1>10. \A k \in Keys : \A n \in Range(hub[k]) : n \in DOMAIN log /\ log[n].key = k
  BY DEF StoreInv
<1>11. StoreInv'
  BY <1>1, <1>6, <1>7, <1>8, <1>9, <1>10 DEF StoreInv
<1>12. \A o \in Objects : store'[o] = store[o] \/ \E n \in DOMAIN log \ acked : ObjectKey(n) = o
  BY <1>3, <1>4
<1> QED
  BY <1>1, <1>5, <1>11, <1>12, AbortKeeps

LEMMA SendFailsKInv ==
  ASSUME KInv, SendFails
  PROVE  KInv'
<1> USE DEF KInv
<1>1. /\ Abort /\ UNCHANGED <<kind, import, log, acked, after, raced>> /\ faults' \in 0..MaxFaults
      /\ kind = "eventhub" /\ store' = store
  BY FaultCount DEF SendFails
<1>2. CASE UNCHANGED <<hub, sent>>
  <2>1. DestType'
    BY <1>1, <1>2 DEF DestType
  <2>2. StoreInv'
    BY <1>1, <1>2, RangeEmpty DEF StoreInv, Abort, ObjectKey
  <2> QED
    BY <1>1, <1>2, <2>1, <2>2, AbortKeeps
<1>3. CASE \E n \in DOMAIN jobs : PlanBatches(jobs, n) /\ Send(SubSeq(jobs, 1, n))
  <2>1. PICK n \in DOMAIN jobs : PlanBatches(jobs, n) /\ Send(SubSeq(jobs, 1, n))
    BY <1>3
  <2> DEFINE g == SubSeq(jobs, 1, n)
             k == log[jobs[1]].key
  <2>2. /\ DestType' /\ StoreInv' /\ k \in Keys /\ sent' = sent \cup Range(g)
        /\ Range(hub'[k]) = Range(hub[k]) \cup Range(g)
        /\ \A l \in Keys : l # k => hub'[l] = hub[l]
    BY <1>1, <2>1, SendStored
  <2>3. jobs[1] \in Range(g) /\ Range(g) \subseteq DOMAIN log \ acked
    <3>1. jobs \in Seq(Msgs) /\ n \in 1..Len(jobs) /\ Len(jobs) \in Nat
      BY RangeOf DEF HeldType
    <3>2. g \in Seq(Msgs) /\ Len(g) = n /\ g[1] = jobs[1] /\ Range(g) \subseteq Range(jobs)
      BY <3>1, RangeSplit
    <3> HIDE DEF g
    <3>3. jobs[1] \in Range(g)
      <4>1. 1 \in 1..Len(g)
        BY <3>1, <3>2
      <4> QED
        BY <3>2, <4>1, RangeOf
    <3> QED
      BY <3>2, <3>3, HeldFacts
  <2> HIDE DEF g, k
  <2>4. \A l \in Keys : hub'[l] = hub[l] \/ \E i \in Range(hub'[l]) : i \in DOMAIN log \ acked
    BY <2>2, <2>3
  <2> QED
    BY <1>1, <2>2, <2>4, AbortKeeps
<1> QED
  BY <1>2, <1>3 DEF SendFails

LEMMA CrashKInv ==
  ASSUME KInv, Crash
  PROVE  KInv'
<1> USE DEF KInv
<1>1. /\ Abort /\ UNCHANGED <<kind, import, log, acked, after, raced>> /\ faults' \in 0..MaxFaults
      /\ hub' = hub
  BY FaultCount DEF Crash
<1>2. Range(batch') = {}
  BY <1>1, RangeEmpty DEF Abort
<1>3. CASE UNCHANGED <<store, sent>>
  <2>1. DestType'
    BY <1>1, <1>3 DEF DestType
  <2>2. StoreInv'
    BY <1>1, <1>2, <1>3 DEF StoreInv, ObjectKey
  <2> QED
    BY <1>1, <1>3, <2>1, <2>2, AbortKeeps
<1>4. CASE \E m \in busy : Put(m)
  <2>1. PICK m \in busy : Put(m)
    BY <1>4
  <2>2. m \in DOMAIN log \ acked /\ kind # "eventhub" /\ ObjectKey(m) \in Objects
    BY LogFacts DEF RaceInv, HeldType
  <2>3. DestType' /\ StoreInv' /\ store' = [store EXCEPT ![ObjectKey(m)] = m] /\ sent' = sent \cup {m}
    BY <1>1, <1>2, <2>1, <2>2, PutStored
  <2>4. \A o \in Objects : store'[o] = store[o] \/ \E n \in DOMAIN log \ acked : ObjectKey(n) = o
    BY <2>2, <2>3 DEF DestType
  <2> QED
    BY <1>1, <2>3, <2>4, AbortKeeps
<1> QED
  BY <1>3, <1>4 DEF Crash

(* The failures that write nothing, and a stop, for which only EventHub sends *)
(* what is left.                                                              *)
LEMMA EndKInv ==
  ASSUME KInv, FlushRaises \/ AckFails \/ Stop
  PROVE  KInv'
<1> USE DEF KInv
<1>1. UNCHANGED <<kind, import, log, acked, raced, store, hub, sent>> /\ faults' \in 0..MaxFaults
  <2>1. CASE FlushRaises
    BY <2>1 DEF FlushRaises, LogType, dest
  <2>2. CASE AckFails
    BY <2>2, FaultCount DEF AckFails, dest
  <2>3. CASE Stop
    BY <2>3, FaultCount DEF Stop, dest
  <2> QED
    BY <2>1, <2>2, <2>3
<1>2. DestType'
  BY <1>1 DEF DestType
<1>3. StoreInv'
  <2>1. batch' = <<>>
    BY DEF FlushRaises, AckFails, Stop, Abort
  <2>2. Range(batch') = {}
    BY <2>1, RangeEmpty
  <2> QED
    BY <1>1, <2>2 DEF StoreInv, ObjectKey
<1>4. CASE Abort /\ after' = after
  BY <1>1, <1>2, <1>3, <1>4, AbortKeeps
<1>5. CASE /\ pc = "ready" /\ Flush("down")
           /\ batch' = <<>> /\ UNCHANGED <<buf, jobs, busy, failed>>
  <2>1. pc' = "flush" /\ after' = "down" /\ Range(batch') = {}
    BY <1>5, RangeEmpty DEF Flush
  <2>2. FlagType'
    BY <1>1, <1>5 DEF FlagType
  <2>3. LogType' /\ HeldType'
    BY <1>1, <1>5, <2>1, EmptySeq DEF LogType, HeldType
  <2>4. PhaseInv'
    BY <1>1, <1>5, <2>1 DEF PhaseInv
  <2>5. OrderInv'
    <3>1. PICK a \in Nat, t \in Nat : InLine(a, t)
      BY DEF OrderInv
    <3>2. Len(batch') = 0
      BY <1>5, EmptySeq
    <3>3. InLine(a, t)'
      BY <1>1, <1>5, <3>1, <3>2 DEF InLine
    <3> QED
      BY <3>3 DEF OrderInv
  <2>6. HoldInv' /\ RaceInv'
    BY <1>1, <1>5, <2>1 DEF HoldInv, RaceInv, ObjectKey
  <2>7. \A m : ToDo(m) => ToDo(m)'
    BY <1>1, <2>1 DEF ToDo
  <2>8. NewestInv'
    BY <1>1, <2>7 DEF NewestInv, Newest, NewestSent, ObjectKey
  <2> QED
    BY <1>2, <1>3, <2>2, <2>3, <2>4, <2>5, <2>6, <2>8
<1> QED
  BY <1>4, <1>5 DEF FlushRaises, AckFails, Stop

(* The next event follows the batch, and with it the buffer. *)
LEMMA NextFacts ==
  ASSUME KInv, pc = "ready", NEW m, NextEvent(m), NEW a \in Nat, NEW t \in Nat, InLine(a, t)
  PROVE  /\ m = a + Len(batch) + 1 /\ m \in Nat /\ m \in DOMAIN log /\ m \in Msgs /\ m \notin acked
         /\ m \notin Range(batch) /\ m <= Len(log) /\ Len(log) \in Nat
         /\ buf # <<>> => t = a + Len(batch)
<1>1. m \in DOMAIN log /\ m \in Nat /\ m # 0 /\ m \in Msgs /\ m <= Len(log) /\ Len(log) \in Nat
  BY LogFacts DEF NextEvent, KInv
<1>2. acked = 1..a /\ Range(batch) = (a + 1)..(a + Len(batch)) /\ Len(batch) \in Nat
  BY InLineFacts DEF KInv
<1>3. m \notin acked /\ m \notin Range(batch) /\ 1..(m - 1) \subseteq acked \cup Range(batch)
  BY DEF NextEvent
<1>4. m > a + Len(batch)
  BY <1>1, <1>2, <1>3
<1>5. ~ (m > a + Len(batch) + 1)
  <2>1. SUFFICES ASSUME m > a + Len(batch) + 1 PROVE FALSE
    OBVIOUS
  <2>2. a + Len(batch) + 1 \in 1..(m - 1)
    BY <1>1, <1>2, <2>1
  <2>3. a + Len(batch) + 1 \in acked \cup Range(batch)
    BY <2>2, <1>3
  <2> QED
    BY <2>3, <1>2
<1>6. m = a + Len(batch) + 1
  BY <1>1, <1>2, <1>4, <1>5
<1>7. buf # <<>> => t = a + Len(batch)
  BY DEF KInv, PhaseInv, InLine
<1> QED
  BY <1>1, <1>3, <1>6, <1>7

LEMMA ProcessKInv ==
  ASSUME KInv, Process
  PROVE  KInv'
<1> USE DEF KInv
<1>1. /\ pc = "ready" /\ UNCHANGED <<kind, import, log, acked, jobs, busy, failed, raced, faults>>
  BY DEF Process
<1>2. jobs = <<>> /\ busy = {} /\ ~failed
  BY <1>1 DEF PhaseInv
<1>3. PICK m \in Msgs : /\ NextEvent(m)
                        /\ batch' = Append(batch, m)
                        /\ IF kind = "file"
                           THEN Put(m) /\ UNCHANGED <<hub, buf>>
                           ELSE buf' = Append(buf, m) /\ UNCHANGED dest
  BY DEF Process
<1>4. (pc' = pc /\ after' = after) \/ (pc' = "flush" /\ after' \in {"ready", "ack"})
  BY DEF Process, Flush
<1>5. PICK a \in Nat, t \in Nat : InLine(a, t)
  BY DEF OrderInv
<1>6. /\ m = a + Len(batch) + 1 /\ m \in Nat /\ m \in DOMAIN log /\ m \notin acked
      /\ m \notin Range(batch) /\ m <= Len(log) /\ Len(log) \in Nat
      /\ buf # <<>> => t = a + Len(batch)
  BY <1>1, <1>3, <1>5, NextFacts
<1>7. /\ acked = 1..a /\ a <= t /\ Range(batch) = (a + 1)..(a + Len(batch)) /\ Len(buf) <= t - a
      /\ Len(batch) \in Nat /\ Len(buf) \in Nat
  BY <1>5, InLineFacts DEF InLine
<1>8. /\ batch' \in Seq(Msgs) /\ Range(batch') = Range(batch) \cup {m} /\ Len(batch') = Len(batch) + 1
      /\ \A i \in 1..Len(batch) : batch'[i] = batch[i]
      /\ batch'[Len(batch) + 1] = m
  BY <1>3, RangeAppend DEF HeldType
<1>9. kind = "file" => buf = <<>> /\ buf' = <<>>
  BY <1>3 DEF PhaseInv
<1>10. ASSUME kind # "file"
       PROVE  /\ buf' \in Seq(Msgs) /\ Range(buf') = Range(buf) \cup {m} /\ Len(buf') = Len(buf) + 1
              /\ \A i \in 1..Len(buf) : buf'[i] = buf[i]
              /\ buf'[Len(buf) + 1] = m
  <2>1. buf' = Append(buf, m) /\ buf \in Seq(Msgs)
    BY <1>3, <1>10 DEF HeldType
  <2> QED
    BY <2>1, RangeAppend
<1>11. FlagType' /\ LogType'
  <2>1. FlagType'
    BY <1>1 DEF FlagType
  <2> QED
    BY <2>1, <1>1, <1>4 DEF LogType
<1>12. HeldType'
  BY <1>1, <1>8, <1>9, <1>10, EmptySeq DEF HeldType
<1>13. PhaseInv'
  <2>1. batch' # <<>>
    BY <1>8, <1>7, EmptySeq
  <2> QED
    BY <1>1, <1>2, <1>4, <1>9, <2>1 DEF PhaseInv
<1>14. OrderInv'
  <2>1. \A i \in 1..Len(batch') : batch'[i] = a + i
    <3>1. ASSUME NEW i \in 1..Len(batch') PROVE batch'[i] = a + i
      <4>1. CASE i = Len(batch) + 1
        BY <4>1, <1>6, <1>7, <1>8
      <4>2. CASE i # Len(batch) + 1
        <5>1. i \in 1..Len(batch)
          BY <4>2, <1>7, <1>8
        <5> QED
          BY <5>1, <1>5, <1>8 DEF InLine
      <4> QED
        BY <4>1, <4>2
    <3> QED
      BY <3>1
  <2>2. Len(buf') <= m - a /\ \A i \in 1..Len(buf') : buf'[i] = m - Len(buf') + i
    <3>1. CASE kind = "file"
      BY <3>1, <1>6, <1>7, <1>9, EmptySeq
    <3>2. CASE kind # "file"
      <4>1. Len(buf') = Len(buf) + 1 /\ buf'[Len(buf) + 1] = m
        BY <3>2, <1>10
      <4>2. Len(buf) = 0 \/ m = t + 1
        BY <1>6, <1>7, EmptySeq
      <4>3. Len(buf') <= m - a
        BY <4>1, <4>2, <1>6, <1>7
      <4>4. ASSUME NEW i \in 1..Len(buf') PROVE buf'[i] = m - Len(buf') + i
        <5>1. CASE i = Len(buf) + 1
          BY <5>1, <4>1, <1>6, <1>7
        <5>2. CASE i # Len(buf) + 1
          <6>1. i \in 1..Len(buf) /\ Len(buf) # 0
            BY <5>2, <4>1, <1>7
          <6>2. buf'[i] = t - Len(buf) + i
            BY <6>1, <3>2, <1>5, <1>10 DEF InLine
          <6> QED
            BY <6>1, <6>2, <4>1, <4>2, <1>6, <1>7
        <5> QED
          BY <5>1, <5>2
      <4> QED
        BY <4>3, <4>4
    <3> QED
      BY <3>1, <3>2
  <2>3. Len(jobs') = 0
    BY <1>1, <1>2, EmptySeq
  <2>4. a <= m /\ m = a + Len(batch') /\ 0 <= m - a
    BY <1>6, <1>7, <1>8
  <2>5. InLine(a, m)'
    BY <1>1, <1>6, <1>7, <2>1, <2>2, <2>3, <2>4 DEF InLine
  <2> QED
    BY <1>6, <2>5 DEF OrderInv
<1>15. DestType' /\ StoreInv' /\ hub' = hub /\ sent \subseteq sent'
  <2>1. CASE kind = "file"
    <3>1. Put(m) /\ UNCHANGED <<kind, log, acked, hub, raced>>
      BY <2>1, <1>1, <1>3
    <3> QED
      BY <2>1, <3>1, <1>6, <1>8, PutStored
  <2>2. CASE kind # "file"
    <3>1. UNCHANGED <<kind, log, acked, store, hub, sent, raced>>
      BY <2>2, <1>1, <1>3 DEF dest
    <3>2. DestType'
      BY <3>1 DEF DestType
    <3>3. StoreInv'
      BY <2>2, <3>1 DEF StoreInv, ObjectKey
    <3> QED
      BY <3>1, <3>2, <3>3
  <2> QED
    BY <2>1, <2>2
<1>16. \A n : Pending(n) => Pending(n)'
  BY <1>1, <1>9, <1>10, <1>2, RangeEmpty DEF Pending
<1>17. HoldInv'
  <2>1. m \in sent' \/ Pending(m)'
    BY <1>3, <1>10 DEF Put, Pending
  <2> QED
    BY <1>1, <1>8, <1>15, <1>16, <2>1 DEF HoldInv
<1>18. RaceInv'
  BY <1>1, <1>2 DEF RaceInv
<1>19. \A n : n # m => (ToDo(n) => ToDo(n)')
  BY <1>1, <1>8, <1>16 DEF ToDo
<1>20. kind # "file" => ToDo(m)'
  BY <1>1, <1>6, <1>10 DEF ToDo, Pending
<1>21. \A n : ObjectKey(n)' = ObjectKey(n) /\ (Newest(n)' <=> Newest(n))
  BY <1>1 DEF ObjectKey, Newest
<1>22. ASSUME kind # "eventhub", NEW n \in DOMAIN log, Newest(n), ObjectKey(n) \notin raced
       PROVE  store'[ObjectKey(n)] = n \/ ToDo(n)'
  <2>1. store[ObjectKey(n)] = n \/ ToDo(n)
    BY <1>22 DEF NewestInv
  <2>2. CASE kind # "file"
    BY <2>1, <2>2, <1>3, <1>19, <1>20 DEF dest
  <2>3. CASE kind = "file"
    <3>1. store' = [store EXCEPT ![ObjectKey(m)] = m] /\ ObjectKey(m) \in Objects /\ ObjectKey(n) \in Objects
      BY <2>3, <1>3, <1>6, LogFacts DEF Put
    <3>2. CASE n = m
      BY <3>1, <3>2 DEF DestType
    <3>3. CASE n # m /\ ObjectKey(n) # ObjectKey(m)
      BY <3>1, <3>3, <2>1, <1>19 DEF DestType
    <3>4. CASE n # m /\ ObjectKey(n) = ObjectKey(m)
      <4>1. n > m
        BY <3>4, <1>6, <1>22, LogFacts DEF Newest
      <4>2. n \notin acked /\ n \notin Range(batch')
        BY <4>1, <1>6, <1>7, <1>8
      <4> QED
        BY <4>2, <1>1 DEF ToDo
    <3> QED
      BY <3>2, <3>3, <3>4
  <2> QED
    BY <2>2, <2>3
<1>23. ASSUME NEW k \in Keys, NEW n \in Msgs, NewestSent(k, n)'
       PROVE  Last(hub'[k]) = n \/ ToDo(n)'
  <2>1. NewestSent(k, n) /\ hub[k] # <<>>
    BY <1>15, <1>23, RangeEmpty DEF NewestSent
  <2>2. kind # "file"
    BY <2>1 DEF StoreInv
  <2> QED
    BY <2>1, <2>2, <1>15, <1>19, <1>20 DEF NewestInv
<1>24. NewestInv'
  BY <1>1, <1>21, <1>22, <1>23 DEF NewestInv
<1> QED
  BY <1>11, <1>12, <1>13, <1>14, <1>15, <1>17, <1>18, <1>24

LEMMA TakeBufferKInv ==
  ASSUME KInv, TakeBuffer
  PROVE  KInv'
<1> USE DEF KInv
<1>1. /\ pc = "flush" /\ pc' = "send" /\ jobs' = buf /\ buf' = <<>>
      /\ UNCHANGED <<kind, import, log, acked, after, batch, busy, failed, store, hub, sent, raced, faults>>
  BY DEF TakeBuffer, dest
<1>2. jobs = <<>> /\ busy = {} /\ ~failed
  BY <1>1 DEF PhaseInv
<1>3. FlagType'
  BY <1>1 DEF FlagType
<1>4. LogType' /\ DestType'
  BY <1>1 DEF LogType, DestType
<1>5. HeldType'
  BY <1>1, EmptySeq DEF HeldType
<1>6. PhaseInv'
  BY <1>1 DEF PhaseInv
<1>7. OrderInv'
  <2>1. PICK a \in Nat, t \in Nat : InLine(a, t)
    BY DEF OrderInv
  <2>2. Len(buf') = 0 /\ 0 <= t - a
    BY <1>1, <2>1, EmptySeq DEF InLine
  <2>3. InLine(a, t)'
    BY <1>1, <2>1, <2>2 DEF InLine
  <2> QED
    BY <2>3 DEF OrderInv
<1>8. \A m : Pending(m) => Pending(m)'
  BY <1>1, <1>2, RangeEmpty DEF Pending
<1>9. HoldInv' /\ RaceInv'
  BY <1>1, <1>2, <1>8 DEF HoldInv, RaceInv
<1>10. StoreInv'
  BY <1>1 DEF StoreInv, ObjectKey
<1>11. \A m : ToDo(m) => ToDo(m)'
  BY <1>1, <1>8 DEF ToDo
<1>12. NewestInv'
  BY <1>1, <1>11 DEF NewestInv, Newest, NewestSent, ObjectKey
<1> QED
  BY <1>3, <1>4, <1>5, <1>6, <1>7, <1>9, <1>10, <1>12

(* A thread takes the first job: what shares its object is behind it, or the  *)
(* object is raced.                                                           *)
LEMMA StartUploadKInv ==
  ASSUME KInv, StartUpload
  PROVE  KInv'
<1> USE DEF KInv
<1> DEFINE h == Head(jobs)
<1>1. /\ pc = "send" /\ kind = "s3" /\ jobs # <<>> /\ jobs' = Tail(jobs) /\ busy' = busy \cup {h}
      /\ UNCHANGED <<kind, import, log, acked, pc, after, batch, buf, failed, store, hub, sent, faults>>
  BY DEF StartUpload, Upload, dest
<1>2. /\ raced' = IF \E n \in busy : ObjectKey(n) = ObjectKey(h) THEN raced \cup {ObjectKey(h)} ELSE raced
      /\ Cardinality(busy) < UploadTasks
  BY DEF StartUpload, Upload
<1>3. /\ jobs' \in Seq(Msgs) /\ h = jobs[1] /\ Len(jobs) \in Nat \ {0} /\ Len(jobs') = Len(jobs) - 1
      /\ \A i \in 1..(Len(jobs) - 1) : jobs'[i] = jobs[i + 1]
      /\ Range(jobs) = {h} \cup Range(jobs')
  BY <1>1, RangeTail DEF HeldType
<1> HIDE DEF h
<1>4. h \in DOMAIN log \ acked /\ ObjectKey(h) \in Objects
  BY <1>3, HeldFacts, LogFacts
<1>5. FlagType'
  BY <1>1 DEF FlagType
<1>6. LogType'
  BY <1>1 DEF LogType
<1>7. HeldType'
  <2>1. /\ IsFiniteSet(busy \cup {h})
        /\ Cardinality(busy \cup {h}) = Cardinality(busy) \/ Cardinality(busy \cup {h}) = Cardinality(busy) + 1
        /\ Cardinality(busy) \in Nat
    BY FS_AddElement, FS_CardinalityType DEF HeldType
  <2>2. Cardinality(busy') <= UploadTasks
    BY <1>1, <1>2, <2>1, SinksAssumption DEF SinksAssumption
  <2> QED
    BY <1>1, <1>3, <1>4, <2>1, <2>2 DEF HeldType
<1>8. DestType'
  BY <1>1, <1>2, <1>4 DEF DestType
<1>9. PhaseInv'
  BY <1>1 DEF PhaseInv
<1>10. PICK a \in Nat, t \in Nat : InLine(a, t)
  BY DEF OrderInv
<1>11. InLine(a, t)'
  <2>1. \A i \in 1..Len(jobs') : jobs'[i] = t - Len(jobs') + i
    <3>1. ASSUME NEW i \in 1..Len(jobs') PROVE jobs'[i] = t - Len(jobs') + i
      <4>1. i + 1 \in 1..Len(jobs) /\ i \in 1..(Len(jobs) - 1)
        BY <1>3
      <4>2. jobs'[i] = t - Len(jobs) + (i + 1)
        BY <4>1, <1>3, <1>10 DEF InLine
      <4> QED
        BY <4>1, <4>2, <1>3
    <3> QED
      BY <3>1
  <2>2. Len(jobs') <= t - a
    BY <1>3, <1>10 DEF InLine
  <2> QED
    BY <1>1, <1>10, <2>1, <2>2 DEF InLine
<1>12. OrderInv'
  BY <1>11 DEF OrderInv
<1>13. \A m : Pending(m) => Pending(m)'
  BY <1>1, <1>3 DEF Pending
<1>14. HoldInv'
  BY <1>1, <1>13 DEF HoldInv
<1>15. StoreInv'
  BY <1>1 DEF StoreInv, ObjectKey
<1>16. RaceInv'
  <2>1. ASSUME NEW m \in busy', NEW n \in Range(batch), n > m, ObjectKey(n) = ObjectKey(m), ObjectKey(m) \notin raced'
        PROVE  n \in Range(jobs')
    <3>1. CASE m \in busy
      <4>1. ObjectKey(m) \notin raced
        BY <1>2, <2>1
      <4>2. n \in Range(jobs)
        BY <2>1, <3>1, <4>1 DEF RaceInv
      <4>3. n # h
        BY <1>2, <2>1, <3>1
      <4> QED
        BY <4>2, <4>3, <1>3
    <3>2. CASE m = h
      <4>1. h = t - Len(jobs) + 1
        BY <1>3, <1>10 DEF InLine
      <4>2. Range(jobs') = (t - Len(jobs') + 1)..t
        <5>1. /\ t - Len(jobs') \in Int /\ (t - Len(jobs')) + Len(jobs') = t
              /\ \A i \in 1..Len(jobs') : jobs'[i] = (t - Len(jobs')) + i
          BY <1>3, <1>11 DEF InLine
        <5>2. Range(jobs') = (t - Len(jobs') + 1)..((t - Len(jobs')) + Len(jobs'))
          BY <5>1, <1>3, RunRange
        <5> QED
          BY <5>1, <5>2
      <4>3. n <= t /\ n \in Nat
        BY <1>10, <2>1, InLineFacts
      <4> QED
        BY <2>1, <3>2, <4>1, <4>2, <4>3, <1>3
    <3> QED
      BY <1>1, <3>1, <3>2
  <2>2. \A m \in busy' : m \notin acked
    BY <1>1, <1>4 DEF RaceInv
  <2> QED
    BY <1>1, <2>1, <2>2 DEF RaceInv, ObjectKey
<1>17. \A m : ToDo(m) => ToDo(m)'
  BY <1>1, <1>13 DEF ToDo
<1>18. \A m : ObjectKey(m)' = ObjectKey(m) /\ (Newest(m)' <=> Newest(m))
  BY <1>1 DEF ObjectKey, Newest
<1>19. raced \subseteq raced'
  BY <1>2
<1>20. NewestInv'
  BY <1>1, <1>17, <1>18, <1>19 DEF NewestInv, NewestSent
<1> QED
  BY <1>5, <1>6, <1>7, <1>8, <1>9, <1>12, <1>14, <1>15, <1>16, <1>20

(* An upload ends: of the events that share its object, a newer one in hand   *)
(* is still to be started, and so will be written later.                      *)
LEMMA UploadEndsKInv ==
  ASSUME KInv, UploadEnds
  PROVE  KInv'
<1> USE DEF KInv
<1>1. UNCHANGED <<kind, import, log, acked, pc, after, batch, buf, jobs, hub, raced>>
  BY DEF UploadEnds
<1>2. PICK m \in busy : /\ busy' = busy \ {m}
                        /\ \/ Put(m) /\ UNCHANGED <<failed, faults>>
                           \/ Fault /\ failed' = TRUE /\ (Put(m) \/ UNCHANGED <<store, sent>>)
  BY DEF UploadEnds
<1>3. /\ m \in DOMAIN log \ acked /\ kind = "s3" /\ pc = "send" /\ ObjectKey(m) \in Objects /\ m \in Nat
  BY LogFacts DEF RaceInv, HeldType, PhaseInv
<1>4. FlagType'
  BY <1>1, <1>2 DEF FlagType
<1>5. LogType'
  <2>1. faults' \in 0..MaxFaults
    BY <1>2, FaultCount DEF LogType
  <2> QED
    BY <2>1, <1>1 DEF LogType
<1>6. HeldType'
  <2>1. /\ busy' \subseteq busy /\ IsFiniteSet(busy') /\ Cardinality(busy') <= Cardinality(busy)
        /\ Cardinality(busy') \in Nat /\ Cardinality(busy) \in Nat
    BY <1>2, FS_Subset, FS_CardinalityType DEF HeldType
  <2>2. Cardinality(busy') <= UploadTasks
    BY <2>1, SinksAssumption DEF HeldType, SinksAssumption
  <2> QED
    BY <1>1, <2>1, <2>2 DEF HeldType
<1>7. /\ DestType' /\ StoreInv' /\ sent \subseteq sent'
      /\ \A o \in Objects : o # ObjectKey(m) => store'[o] = store[o]
  <2>1. CASE Put(m)
    <3>1. /\ DestType' /\ StoreInv' /\ store' = [store EXCEPT ![ObjectKey(m)] = m] /\ sent' = sent \cup {m}
      BY <1>1, <1>3, <2>1, PutStored
    <3> QED
      BY <3>1 DEF DestType
  <2>2. CASE UNCHANGED <<store, sent>>
    <3>1. DestType'
      BY <1>1, <2>2 DEF DestType
    <3>2. StoreInv'
      BY <1>1, <2>2 DEF StoreInv, ObjectKey
    <3> QED
      BY <2>2, <3>1, <3>2
  <2> QED
    BY <2>1, <2>2, <1>2
<1>8. PhaseInv'
  BY <1>1, <1>3 DEF PhaseInv
<1>9. OrderInv'
  BY <1>1 DEF OrderInv, InLine
<1>10. \A n : n # m => (Pending(n) => Pending(n)')
  BY <1>1, <1>2 DEF Pending
<1>11. failed' => \A n : Pending(n)'
  BY DEF Pending
<1>12. ~failed' => /\ Put(m) /\ m \in sent'
                   /\ store'[ObjectKey(m)] = m
  BY <1>2, <1>3 DEF Put, DestType
<1>13. HoldInv'
  <2>1. ASSUME NEW n \in Range(batch') PROVE n \in sent' \/ Pending(n)'
    BY <2>1, <1>1, <1>7, <1>10, <1>11, <1>12 DEF HoldInv
  <2> QED
    BY <2>1, <1>1, <1>7 DEF HoldInv
<1>14. RaceInv'
  <2>1. busy' \subseteq busy
    BY <1>2
  <2> QED
    BY <1>1, <1>3, <2>1 DEF RaceInv, ObjectKey
<1>15. \A n : n # m \/ failed' => (ToDo(n) => ToDo(n)')
  BY <1>1, <1>10, <1>11 DEF ToDo
<1>16. \A n : ObjectKey(n)' = ObjectKey(n) /\ (Newest(n)' <=> Newest(n))
  BY <1>1 DEF ObjectKey, Newest
<1>17. ASSUME NEW n \in DOMAIN log, Newest(n), ObjectKey(n) \notin raced
       PROVE  store'[ObjectKey(n)] = n \/ ToDo(n)'
  <2>1. store[ObjectKey(n)] = n \/ ToDo(n)
    BY <1>3, <1>17 DEF NewestInv
  <2>2. CASE ObjectKey(n) # ObjectKey(m)
    <3>1. ObjectKey(n) \in Objects /\ n # m
      BY <2>2, LogFacts
    <3> QED
      BY <2>1, <2>2, <3>1, <1>7, <1>15
  <2>3. CASE ObjectKey(n) = ObjectKey(m)
    <3>1. n >= m /\ n \in Nat /\ n \notin acked
      BY <2>3, <1>3, <1>17, LogFacts, HeldFacts DEF Newest
    <3>2. CASE failed'
      BY <3>1, <3>2, <1>1, <1>11 DEF ToDo
    <3>3. CASE ~failed' /\ n = m
      BY <3>3, <1>12
    <3>4. CASE ~failed' /\ n # m
      <4>1. n > m
        BY <3>1, <3>4, <1>3
      <4>2. n \in Range(batch) => n \in Range(jobs)
        BY <4>1, <2>3, <1>17 DEF RaceInv
      <4> QED
        BY <3>1, <4>2, <1>1 DEF ToDo, Pending
    <3> QED
      BY <3>2, <3>3, <3>4
  <2> QED
    BY <2>2, <2>3
<1>18. \A k \in Keys, n \in Msgs : ~ NewestSent(k, n)'
  BY <1>1, <1>3, RangeEmpty DEF NewestSent, StoreInv
<1>19. NewestInv'
  BY <1>1, <1>16, <1>17, <1>18 DEF NewestInv
<1> QED
  BY <1>4, <1>5, <1>6, <1>7, <1>8, <1>9, <1>13, <1>14, <1>19

(* A group is sent: an event of its row that is newer comes later, or again. *)
LEMMA SendGroupKInv ==
  ASSUME KInv, SendGroup
  PROVE  KInv'
<1> USE DEF KInv
<1>1. /\ pc = "send" /\ kind = "eventhub"
      /\ UNCHANGED <<kind, import, log, acked, pc, after, batch, buf, busy, failed, store, raced, faults>>
  BY DEF SendGroup
<1>2. PICK n \in DOMAIN jobs : /\ PlanBatches(jobs, n)
                               /\ Send(SubSeq(jobs, 1, n))
                               /\ jobs' = SubSeq(jobs, n + 1, Len(jobs))
  BY DEF SendGroup
<1> DEFINE g == SubSeq(jobs, 1, n)
           k == log[jobs[1]].key
<1>3. /\ DestType' /\ StoreInv' /\ k \in Keys /\ sent' = sent \cup Range(g)
      /\ Range(hub'[k]) = Range(hub[k]) \cup Range(g) /\ Last(hub'[k]) = jobs[n]
      /\ \A l \in Keys : l # k => hub'[l] = hub[l]
  BY <1>1, <1>2, SendStored
<1>4. jobs \in Seq(Msgs) /\ n \in 1..Len(jobs) /\ Len(jobs) \in Nat /\ n \in Nat /\ 1 <= n /\ n <= Len(jobs)
  BY RangeOf DEF HeldType
<1>5. /\ g \in Seq(Msgs) /\ Len(g) = n /\ \A i \in 1..n : g[i] = jobs[i]
      /\ jobs' \in Seq(Msgs) /\ Len(jobs') = Len(jobs) - n
      /\ \A i \in 1..(Len(jobs) - n) : jobs'[i] = jobs[n + i]
      /\ Range(jobs) = Range(g) \cup Range(jobs')
  BY <1>2, <1>4, RangeSplit
<1> HIDE DEF g, k
<1>6. jobs[n] \in Range(g)
  <2>1. n \in 1..Len(g) /\ g[n] = jobs[n]
    BY <1>4, <1>5
  <2> QED
    BY <2>1, <1>5, RangeOf
<1>7. Range(g) \subseteq DOMAIN log \ acked
  BY <1>5, HeldFacts
<1>8. FlagType'
  BY <1>1 DEF FlagType
<1>9. LogType' /\ HeldType'
  BY <1>1, <1>5 DEF LogType, HeldType
<1>10. PhaseInv'
  BY <1>1 DEF PhaseInv
<1>11. PICK a \in Nat, t \in Nat : InLine(a, t)
  BY DEF OrderInv
<1>12. /\ \A i \in 1..Len(jobs') : jobs'[i] = (t - Len(jobs')) + i
       /\ Len(jobs') <= t - a /\ Len(jobs') \in Nat /\ jobs[n] = t - Len(jobs')
  <2>1. Len(jobs') <= t - a /\ Len(jobs') \in Nat
    BY <1>4, <1>5, <1>11 DEF InLine
  <2>2. ASSUME NEW i \in 1..Len(jobs') PROVE jobs'[i] = (t - Len(jobs')) + i
    <3>1. n + i \in 1..Len(jobs) /\ jobs'[i] = jobs[n + i]
      BY <1>4, <1>5
    <3>2. jobs[n + i] = t - Len(jobs) + (n + i)
      BY <3>1, <1>11 DEF InLine
    <3> QED
      BY <3>1, <3>2, <1>4, <1>5
  <2>3. jobs[n] = t - Len(jobs')
    <3>1. jobs[n] = t - Len(jobs) + n
      BY <1>4, <1>11 DEF InLine
    <3> QED
      BY <3>1, <1>4, <1>5
  <2> QED
    BY <2>1, <2>2, <2>3
<1>13. OrderInv'
  <2>1. InLine(a, t)'
    BY <1>1, <1>11, <1>12 DEF InLine
  <2> QED
    BY <2>1 DEF OrderInv
<1>14. Range(jobs') = (t - Len(jobs') + 1)..t
  <2>1. t - Len(jobs') \in Int /\ (t - Len(jobs')) + Len(jobs') = t
    BY <1>12
  <2>2. Range(jobs') = (t - Len(jobs') + 1)..((t - Len(jobs')) + Len(jobs'))
    BY <2>1, <1>5, <1>12, RunRange
  <2> QED
    BY <2>1, <2>2
<1>15. \A m : m \notin Range(g) => (Pending(m) => Pending(m)')
  BY <1>1, <1>5 DEF Pending
<1>16. HoldInv'
  BY <1>1, <1>3, <1>15 DEF HoldInv
<1>17. RaceInv'
  BY <1>1 DEF RaceInv
<1>18. \A m : m \notin Range(g) => (ToDo(m) => ToDo(m)')
  BY <1>1, <1>15 DEF ToDo
<1>19. ASSUME NEW l \in Keys, NEW m \in Msgs, NewestSent(l, m)'
       PROVE  Last(hub'[l]) = m \/ ToDo(m)'
  <2>1. CASE l = k
    <3>1. m >= jobs[n] /\ m \in Nat /\ jobs[n] \in Nat
      BY <2>1, <1>3, <1>6, <1>7, <1>19, LogFacts, SinksAssumption DEF NewestSent, Msgs, SinksAssumption
    <3>2. CASE m = jobs[n]
      BY <3>2, <2>1, <1>3
    <3>3. CASE m > jobs[n]
      <4>1. m \notin acked
        BY <3>1, <3>3, <1>6, <1>7, HeldFacts
      <4>2. m \in Range(batch) => m \in Range(jobs')
        <5>1. m \in Range(batch) => m <= t
          BY <1>11, InLineFacts
        <5> QED
          BY <5>1, <3>1, <3>3, <1>12, <1>14
      <4> QED
        BY <4>1, <4>2, <1>1 DEF ToDo, Pending
    <3> QED
      BY <3>1, <3>2, <3>3
  <2>2. CASE l # k
    <3>1. NewestSent(l, m) /\ hub'[l] = hub[l]
      BY <2>2, <1>3, <1>19 DEF NewestSent
    <3>2. m \notin Range(g)
      <4>1. log[m].key = l
        BY <3>1 DEF NewestSent, StoreInv
      <4>2. m \in Range(g) => log[m].key = k
        BY <1>1, <1>3 DEF StoreInv
      <4> QED
        BY <4>1, <4>2, <2>2
    <3> QED
      BY <3>1, <3>2, <1>18 DEF NewestInv
  <2> QED
    BY <2>1, <2>2
<1>20. NewestInv'
  BY <1>1, <1>19 DEF NewestInv
<1> QED
  BY <1>3, <1>8, <1>9, <1>10, <1>13, <1>16, <1>17, <1>20

(* After the flush nothing in hand is pending: what is acked is stored. *)
LEMMA AckKInv ==
  ASSUME KInv, Ack
  PROVE  KInv'
<1> USE DEF KInv
<1>1. /\ pc \in {"ack", "done"}
      /\ UNCHANGED <<kind, import, log, after, buf, jobs, busy, failed, store, hub, sent, raced, faults>>
  BY DEF Ack, dest
<1>2. buf = <<>> /\ jobs = <<>> /\ busy = {} /\ ~failed
  BY <1>1 DEF PhaseInv
<1>3. FlagType'
  BY <1>1 DEF FlagType
<1>4. DestType'
  BY <1>1 DEF DestType
<1>5. CASE batch = <<>> /\ pc' \in {"end", "ready"} /\ UNCHANGED <<acked, batch>>
  <2>1. LogType' /\ HeldType'
    BY <1>1, <1>5 DEF LogType, HeldType
  <2>2. PhaseInv'
    BY <1>1, <1>2, <1>5 DEF PhaseInv
  <2>3. OrderInv' /\ HoldInv'
    BY <1>1, <1>5 DEF OrderInv, InLine, HoldInv, Pending
  <2>4. StoreInv' /\ RaceInv'
    BY <1>1, <1>5 DEF StoreInv, RaceInv, ObjectKey
  <2>5. NewestInv'
    BY <1>1, <1>5 DEF NewestInv, ObjectKey, Newest, NewestSent, ToDo, Pending
  <2> QED
    BY <1>3, <1>4, <2>1, <2>2, <2>3, <2>4, <2>5
<1>6. CASE batch # <<>> /\ acked' = acked \cup {Head(batch)} /\ batch' = Tail(batch) /\ pc' = pc
  <2> DEFINE h == Head(batch)
  <2>1. /\ batch' \in Seq(Msgs) /\ h = batch[1] /\ Len(batch) \in Nat \ {0} /\ Len(batch') = Len(batch) - 1
        /\ \A i \in 1..(Len(batch) - 1) : batch'[i] = batch[i + 1]
        /\ Range(batch) = {h} \cup Range(batch')
    BY <1>6, RangeTail DEF HeldType
  <2>2. acked' = acked \cup {h}
    BY <1>6
  <2> HIDE DEF h
  <2>3. PICK a \in Nat, t \in Nat : InLine(a, t)
    BY DEF OrderInv
  <2>4. /\ acked = 1..a /\ h = a + 1 /\ t = a + Len(batch) /\ t <= Len(log)
    BY <2>1, <2>3, <1>6 DEF InLine
  <2>5. h \in DOMAIN log
    BY <2>1, HeldFacts
  <2>6. LogType' /\ HeldType'
    BY <1>1, <1>6, <2>1 DEF LogType, HeldType
  <2>7. PhaseInv'
    BY <1>1, <1>2, <1>6 DEF PhaseInv
  <2>8. OrderInv'
    <3>1. acked' = 1..(a + 1) /\ a + 1 <= t
      BY <2>1, <2>2, <2>4
    <3>2. \A i \in 1..Len(batch') : batch'[i] = (a + 1) + i
      <4>1. ASSUME NEW i \in 1..Len(batch') PROVE batch'[i] = (a + 1) + i
        <5>1. i \in 1..(Len(batch) - 1) /\ i + 1 \in 1..Len(batch)
          BY <2>1
        <5>2. batch'[i] = a + (i + 1)
          BY <5>1, <2>1, <2>3 DEF InLine
        <5> QED
          BY <5>1, <5>2
      <4> QED
        BY <4>1
    <3>3. t = (a + 1) + Len(batch')
      BY <2>1, <2>4
    <3>4. Len(buf') = 0 /\ Len(jobs') = 0 /\ 0 <= t - (a + 1) /\ t <= Len(log')
      BY <1>1, <1>2, <2>4, <3>1, EmptySeq
    <3>5. InLine(a + 1, t)'
      BY <3>1, <3>2, <3>3, <3>4 DEF InLine
    <3> QED
      BY <3>5 DEF OrderInv
  <2>9. \A m : ~Pending(m)
    BY <1>2, RangeEmpty DEF Pending
  <2>10. HoldInv'
    BY <1>1, <2>1, <2>2, <2>9 DEF HoldInv
  <2>11. RaceInv'
    BY <1>1, <1>2 DEF RaceInv
  <2>12. \A m : ObjectKey(m)' = ObjectKey(m) /\ (Newest(m)' <=> Newest(m))
    BY <1>1 DEF ObjectKey, Newest
  <2>13. StoreInv'
    <3>1. ASSUME kind # "eventhub", NEW m \in sent, store[ObjectKey(m)] = 0
          PROVE  kind = "file" /\ \E n \in DOMAIN log \ acked' : ObjectKey(n) = ObjectKey(m)
      <4>1. kind = "file"
        BY <3>1 DEF StoreInv
      <4>2. PICK n \in DOMAIN log \ acked : ObjectKey(n) = ObjectKey(m)
        BY <3>1 DEF StoreInv
      <4>3. store[ObjectKey(h)] # 0
        BY <4>1, <2>1 DEF StoreInv
      <4>4. n # h
        BY <3>1, <4>2, <4>3
      <4> QED
        BY <4>1, <4>2, <4>4, <2>2
    <3>2. \A o \in Objects : store'[o] # 0 => store'[o] \in DOMAIN log' /\ (ObjectKey(store[o]))' = o
      BY <1>1, <2>12 DEF StoreInv
    <3>3. kind = "file" => \A m \in Range(batch') : store[ObjectKey(m)] # 0
      BY <2>1 DEF StoreInv
    <3>4. kind # "eventhub" =>
            \A m \in sent' : \/ store'[ObjectKey(m)'] # 0
                             \/ kind' = "file" /\ \E n \in DOMAIN log' \ acked' : ObjectKey(n)' = ObjectKey(m)'
      BY <1>1, <2>12, <3>1
    <3>5. /\ \A k \in Keys : \A m \in Range(hub[k]) : m \in DOMAIN log /\ log[m].key = k
          /\ kind # "eventhub" => \A k \in Keys : hub[k] = <<>>
          /\ kind = "eventhub" => \A m \in sent : m \in Range(hub[log[m].key])
      BY DEF StoreInv
    <3> QED
      BY <1>1, <2>12, <3>2, <3>3, <3>4, <3>5 DEF StoreInv
  <2>14. \A m : ToDo(m) => ToDo(m)'
    BY <2>1, <2>2, <2>9 DEF ToDo
  <2>15. NewestInv'
    BY <1>1, <2>12, <2>14 DEF NewestInv, NewestSent
  <2> QED
    BY <1>3, <1>4, <2>6, <2>7, <2>8, <2>10, <2>11, <2>13, <2>15
<1> QED
  BY <1>5, <1>6 DEF Ack

LEMMA NextKInv == KInv /\ [Next]_vars => KInv'
<1> SUFFICES ASSUME KInv, [Next]_vars PROVE KInv'
  OBVIOUS
<1>1. CASE UNCHANGED vars
  <2>1. UNCHANGED <<kind, import, log, acked, pc, after, batch, buf, jobs, busy, failed, store, hub, sent, raced, faults>>
    BY <1>1 DEF vars, dest
  <2> USE DEF KInv
  <2>2. FlagType' /\ LogType' /\ HeldType' /\ DestType' /\ PhaseInv'
    BY <2>1 DEF FlagType, LogType, HeldType, DestType, PhaseInv
  <2>3. OrderInv' /\ HoldInv'
    BY <2>1 DEF OrderInv, InLine, HoldInv, Pending
  <2>4. StoreInv' /\ RaceInv'
    BY <2>1 DEF StoreInv, RaceInv, ObjectKey
  <2>5. NewestInv'
    BY <2>1 DEF NewestInv, ObjectKey, Newest, NewestSent, ToDo, Pending
  <2> QED
    BY <2>2, <2>3, <2>4, <2>5
<1> QED
  BY <1>1, PublishKInv, PhaseSteps, ProcessKInv, WriteFailsKInv, EndKInv, TakeBufferKInv, StartUploadKInv,
     UploadEndsKInv, SendGroupKInv, SendFailsKInv, AckKInv, CrashKInv
  DEF Next, FlushStep

LEMMA KInvariant == Spec => []KInv
<1>1. Init => KInv
  BY InitKInv
<1>2. KInv /\ [Next]_vars => KInv'
  BY NextKInv
<1> QED
  BY <1>1, <1>2, PTL DEF Spec

-----------------------------------------------------------------------------
(* The results. *)

(* Every variable of the drivers stays in its type: the buffers hold events,  *)
(* and no more uploads are under way than the pool has threads.               *)
THEOREM SinksTypeCorrect == Spec => []TypeOK
<1>1. KInv => TypeOK
  <2> SUFFICES ASSUME KInv PROVE TypeOK
    OBVIOUS
  <2>1. acked \subseteq DOMAIN log
    BY HeldFacts DEF KInv
  <2>2. {import, failed} \subseteq BOOLEAN
    BY DEF KInv, FlagType
  <2> QED
    BY <2>1, <2>2 DEF KInv, LogType, HeldType, DestType, TypeOK
<1> QED
  BY <1>1, KInvariant, PTL

(* What was acked or marked as imported is at the destination, whatever       *)
(* upload, group, acknowledgement or process failed on the way.               *)
THEOREM AckedAreStored == Spec => []AckedStored
<1>1. KInv => AckedStored
  <2> SUFFICES ASSUME KInv, NEW m \in acked
               PROVE  IF kind = "eventhub"
                      THEN m \in Range(hub[log[m].key])
                      ELSE \/ store[ObjectKey(m)] # 0 /\ ObjectKey(store[ObjectKey(m)]) = ObjectKey(m)
                           \/ kind = "file" /\ \E n \in DOMAIN log \ acked : ObjectKey(n) = ObjectKey(m)
    BY DEF AckedStored
  <2>1. m \in sent /\ m \in DOMAIN log
    BY DEF KInv, HoldInv, DestType
  <2>2. ObjectKey(m) \in Objects
    BY <2>1, LogFacts DEF KInv
  <2> QED
    BY <2>1, <2>2 DEF KInv, StoreInv
<1> QED
  BY <1>1, KInvariant, PTL

(* EventHub ends each row with its newest event, once what it has of the row  *)
(* is acked, over every failed flush that is repeated.                        *)
THEOREM NewestIsLast == Spec => []NewestLast
<1>1. KInv => NewestLast
  <2> SUFFICES ASSUME KInv, NEW k \in Keys, hub[k] # <<>>, Settled(k)
               PROVE  Last(hub[k]) = Max(Range(hub[k]))
    BY DEF NewestLast
  <2> DEFINE R == Range(hub[k])
             M == Max(R)
  <2>1. MaxMsgs \in Nat /\ DOMAIN log \subseteq 0..MaxMsgs /\ DOMAIN log \subseteq Msgs
    BY LogFacts DEF KInv, Msgs
  <2>2. R \in SUBSET (0..MaxMsgs) /\ R \subseteq DOMAIN log /\ \A m \in R : log[m].key = k
    BY <2>1 DEF KInv, StoreInv
  <2>3. R # {}
    <3>1. hub[k] \in Seq(Msgs)
      BY DEF KInv, DestType
    <3>2. Len(hub[k]) \in Nat \ {0}
      BY <3>1, LenProperties, EmptySeq
    <3>3. 1 \in 1..Len(hub[k])
      BY <3>2
    <3>4. hub[k][1] \in Range(hub[k])
      BY <3>1, <3>3, RangeOf
    <3> QED
      BY <3>4
  <2> HIDE DEF R
  <2>4. M \in R /\ \A n \in R : n <= M
    BY <2>1, <2>2, <2>3, MaxInSet
  <2> HIDE DEF M
  <2>5. NewestSent(k, M) /\ M \in Msgs
    BY <2>1, <2>2, <2>4 DEF NewestSent, R
  <2>6. Last(hub[k]) = M \/ ToDo(M)
    BY <2>5 DEF KInv, NewestInv
  <2>7. M \in acked
    BY <2>2, <2>4 DEF Settled, R
  <2> QED
    BY <2>6, <2>7 DEF ToDo, M, R
<1> QED
  BY <1>1, KInvariant, PTL

(* An object or a file whose events are all acked holds the newest of them,   *)
(* unless two threads of the upload pool wrote it at once.                    *)
THEOREM ObjectIsNewest == Spec => []ObjectNewest
<1>1. KInv => ObjectNewest
  <2> SUFFICES ASSUME KInv, kind # "eventhub", NEW o \in Objects \ raced,
                      {m \in DOMAIN log : ObjectKey(m) = o} # {},
                      {m \in DOMAIN log : ObjectKey(m) = o} \subseteq acked
               PROVE  store[o] = Max({m \in DOMAIN log : ObjectKey(m) = o})
    BY DEF ObjectNewest
  <2> DEFINE S == {m \in DOMAIN log : ObjectKey(m) = o}
             M == Max(S)
  <2>1. MaxMsgs \in Nat /\ DOMAIN log \subseteq 0..MaxMsgs
    BY LogFacts DEF KInv
  <2>2. S \in SUBSET (0..MaxMsgs) /\ S # {} /\ S \subseteq acked
    BY <2>1
  <2> HIDE DEF S
  <2>3. M \in S /\ \A n \in S : n <= M
    BY <2>1, <2>2, MaxInSet
  <2> HIDE DEF M
  <2>4. M \in DOMAIN log /\ ObjectKey(M) = o /\ M \in acked
    BY <2>2, <2>3 DEF S
  <2>5. Newest(M)
    BY <2>3, <2>4 DEF Newest, S
  <2>6. store[o] = M
    BY <2>4, <2>5 DEF KInv, NewestInv, ToDo
  <2> QED
    BY <2>6 DEF M, S
<1> QED
  BY <1>1, KInvariant, PTL

-----------------------------------------------------------------------------
(* The drivers keep the promise. *)

LEMMA PromiseLog ==
  ASSUME LogType
  PROVE  LET rows == [m \in DOMAIN log |-> [key |-> log[m].key, kind |-> "row"]]
         IN  /\ rows \in Seq([key : Keys, kind : {"row"}]) /\ Len(rows) = Len(log)
             /\ Promise!Rows = DOMAIN log
<1> DEFINE rows == [m \in DOMAIN log |-> [key |-> log[m].key, kind |-> "row"]]
<1>1. DOMAIN log = 1..Len(log) /\ Len(log) \in Nat /\ \A m \in DOMAIN log : log[m].key \in Keys
  BY LogFacts
<1>2. rows \in [1..Len(log) -> [key : Keys, kind : {"row"}]]
  BY <1>1
<1> HIDE DEF rows
<1>3. rows \in Seq([key : Keys, kind : {"row"}])
  BY <1>1, <1>2, SeqDef
<1>4. Len(rows) = Len(log)
  BY <1>1, <1>2, <1>3, LenProperties
<1>5. \A s \in 1..Len(log) : rows[s].kind = "row"
  BY <1>1, <1>2
<1>6. Promise!Rows = DOMAIN log
  BY <1>1, <1>4, <1>5 DEF Promise!Rows, rows
<1> QED
  BY <1>3, <1>4, <1>6 DEF rows

LEMMA PublishPromised ==
  ASSUME KInv, KInv', Publish
  PROVE  Promise!Publish
<1> DEFINE rows(l) == [m \in DOMAIN l |-> [key |-> l[m].key, kind |-> "row"]]
           S == [key : Keys, kind : {"row"}]
<1>1. PICK v \in Events : log' = Append(log, v)
  BY DEF Publish
<1> DEFINE k == v.key
<1>2. /\ Len(log) < MaxMsgs /\ UNCHANGED <<sent, acked>>
  BY DEF Publish, dest
<1>3. /\ Len(log') = Len(log) + 1 /\ Len(log) \in Nat /\ log'[Len(log) + 1] = v
      /\ \A m \in 1..Len(log) : log'[m] = log[m]
  BY <1>1, RangeAppend, LogFacts DEF LogType, KInv
<1>4. DOMAIN log = 1..Len(log) /\ DOMAIN log' = 1..(Len(log) + 1)
  BY <1>3, LogFacts, LenProperties DEF KInv, LogType
<1>5. rows(log) \in Seq(S) /\ Len(rows(log)) = Len(log)
  BY PromiseLog DEF KInv
<1> DEFINE e == [key |-> k, kind |-> "row"]
           w == Append(rows(log), e)
<1>6. /\ w \in Seq(S) /\ Len(w) = Len(log) + 1 /\ w[Len(log) + 1] = e
      /\ \A m \in 1..Len(log) : w[m] = rows(log)[m]
  <2>1. e \in S
    BY DEF Events
  <2> HIDE DEF e, S
  <2>2. /\ w \in Seq(S) /\ Len(w) = Len(rows(log)) + 1 /\ w[Len(rows(log)) + 1] = e
        /\ \A m \in 1..Len(rows(log)) : w[m] = rows(log)[m]
    <3> HIDE DEF rows
    <3> QED
      BY <2>1, <1>5, RangeAppend
  <2> QED
    BY <2>2, <1>5
<1>7. w = rows(log')
  <2>1. w \in [1..(Len(log) + 1) -> S]
    <3> HIDE DEF w, S
    <3> QED
      BY <1>6, <1>3, LenProperties
  <2>2. rows(log') = [m \in 1..(Len(log) + 1) |-> [key |-> log'[m].key, kind |-> "row"]]
    BY <1>4
  <2>3. ASSUME NEW m \in 1..(Len(log) + 1) PROVE w[m] = [key |-> log'[m].key, kind |-> "row"]
    <3>1. CASE m = Len(log) + 1
      BY <3>1, <1>3, <1>6
    <3>2. CASE m # Len(log) + 1
      <4>1. m \in 1..Len(log)
        BY <3>2, <1>3
      <4>2. w[m] = rows(log)[m]
        BY <4>1, <1>6
      <4>3. rows(log)[m] = [key |-> log[m].key, kind |-> "row"]
        BY <4>1, <1>4
      <4> QED
        BY <4>1, <4>2, <4>3, <1>3
    <3> QED
      BY <3>1, <3>2
  <2> HIDE DEF w
  <2> QED
    BY <2>1, <2>2, <2>3
<1>8. \E l \in Keys, c \in {"row", "skip", "bad"} :
        rows(log') = Append(rows(log), [key |-> l, kind |-> c])
  <2>1. k \in Keys
    BY DEF Events
  <2> HIDE DEF rows, k
  <2> QED
    BY <1>7, <2>1
<1> QED
  BY <1>2, <1>5, <1>8 DEF Promise!Publish

LEMMA WritePromised ==
  ASSUME KInv, KInv', UNCHANGED <<log, acked>>, sent \subseteq sent'
  PROVE  Promise!Write
<1>1. sent' \subseteq Promise!Rows
  BY PromiseLog DEF KInv, DestType
<1>2. sent' = sent \cup sent'
  OBVIOUS
<1>3. \E S \in SUBSET Promise!Rows : sent' = sent \cup S
  BY <1>1, <1>2
<1> QED
  BY <1>3 DEF Promise!Write

LEMMA SinksStepPromised ==
  ASSUME KInv, KInv', [Next]_vars
  PROVE  [Promise!Next]_(Promise!vars)
<1>1. CASE Publish
  BY <1>1, PublishPromised DEF Promise!Next
<1>2. CASE Ack /\ acked' # acked
  <2>1. batch # <<>> /\ acked' = acked \cup {Head(batch)} /\ UNCHANGED <<log, sent>>
    BY <1>2 DEF Ack, dest
  <2>2. Head(batch) \in Range(batch)
    BY <2>1, RangeTail DEF KInv, HeldType
  <2>3. Head(batch) \in sent
    BY <1>2, <2>2, RangeEmpty DEF KInv, HoldInv, Pending, PhaseInv, Ack
  <2>4. Head(batch) \in Promise!Rows \cap sent
    BY <2>3, PromiseLog DEF KInv, DestType
  <2>5. Promise!Settle
    BY <2>1, <2>4 DEF Promise!Settle
  <2> QED
    BY <2>5 DEF Promise!Next
<1>3. CASE UNCHANGED <<log, acked>> /\ sent \subseteq sent'
  BY <1>3, WritePromised DEF Promise!Next
<1>4. CASE UNCHANGED vars
  BY <1>3, <1>4 DEF vars, dest
<1>5. CASE Start \/ FlushIdle \/ ImportCompleted \/ Stop \/ TakeBuffer \/ StartUpload \/ FlushReturns
           \/ FlushRaises \/ AckFails
  BY <1>3, <1>5 DEF Start, FlushIdle, ImportCompleted, Stop, TakeBuffer, StartUpload, FlushReturns,
                    FlushRaises, AckFails, dest
<1>6. CASE Process \/ WriteFails \/ UploadEnds \/ SendGroup \/ SendFails \/ Crash
  <2>1. UNCHANGED <<log, acked>>
    BY <1>6 DEF Process, WriteFails, UploadEnds, SendGroup, SendFails, Crash
  <2>2. sent \subseteq sent'
    BY <1>6 DEF Process, WriteFails, UploadEnds, SendGroup, SendFails, Crash, Put, Send, dest
  <2> QED
    BY <1>3, <2>1, <2>2
<1>7. CASE Ack /\ acked' = acked
  BY <1>3, <1>7 DEF Ack, dest
<1> QED
  BY <1>1, <1>2, <1>4, <1>5, <1>6, <1>7 DEF Next, FlushStep

(* Every step of a driver is a step of AtLeastOnce or changes nothing there:  *)
(* an event, also one that a later event of its second overwrites, reaches    *)
(* the destination before it is acked or marked as imported.                  *)
THEOREM SinksRefinement == Spec => ImplementsPromise
<1>1. Init => Promise!Init
  <2> SUFFICES ASSUME Init PROVE Promise!Init
    OBVIOUS
  <2>1. DOMAIN log = {}
    BY EmptySeq DEF Init
  <2>2. [m \in DOMAIN log |-> [key |-> log[m].key, kind |-> "row"]] = <<>>
    BY <2>1, EmptySeq
  <2> QED
    BY <2>2 DEF Init, Promise!Init
<1>2. KInv /\ KInv' /\ [Next]_vars => [Promise!Next]_(Promise!vars)
  BY SinksStepPromised
<1> QED
  BY <1>1, <1>2, KInvariant, PTL DEF Spec, ImplementsPromise, Promise!Spec
=============================================================================
