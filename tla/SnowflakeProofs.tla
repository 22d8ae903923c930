-------------------------- MODULE SnowflakeProofs --------------------------
(***************************************************************************)
(* Snowflake's properties, for any number of changes, batches and faults.  *)
(*                                                                         *)
(* Folds: a set of numbers that holds 0 and, with a number, the next one   *)
(* holds all of them (Induction), which follows from the order of the      *)
(* naturals being well-founded.  With it the three folds of the module     *)
(* have a value (FoldExists) and the equations one expects.                *)
(*                                                                         *)
(* The row: under Regular it is at every time the object as it was after     *)
(* some change j (At).  A statement may take it back, but never behind     *)
(* what is acked, and all statements of a batch together take it to the    *)
(* batch's last change or beyond (Reaches).                                *)
(***************************************************************************)
EXTENDS Snowflake, SequenceTheorems, NaturalsInduction, WellFoundedInduction, TLAPS

-----------------------------------------------------------------------------
(* The inductive invariant. *)

(* What the source publishes. *)
LogInv ==
  \A n \in DOMAIN log :
    /\ log[n].n = n
    /\ log[n].op = "INSERT" =>
         /\ n = 1 \/ log[n - 1].op = "DELETE"
         /\ log[n].x \in {0, n} /\ log[n].date = n
    /\ log[n].op = "UPDATE" =>
         /\ n # 1 /\ log[n - 1].op # "DELETE"
         /\ log[n].diff \in {{"x", "updatedDate"}, {"x"}, {"updatedDate", "meta"}}
         /\ log[n].x \in IF "x" \in log[n].diff THEN {0, n} ELSE {log[n - 1].x}
         /\ log[n].date = IF "updatedDate" \in log[n].diff THEN n ELSE log[n - 1].date

(* The records of the batch. *)
Held == [i \in DOMAIN batch |-> log[batch[i]]]

(* The batcher has them until the flush, and the plan is made from them. *)
BatchInv ==
  /\ \A i \in DOMAIN batch : batch[i] \in DOMAIN log
  /\ recs = IF pc \in {"ready", "flush"} THEN Held ELSE <<>>
  /\ pc = "down" => batch = <<>>
  /\ pc = "exec" => \E rs \in SortRecords(Held), seen \in BOOLEAN :
                      plan.query = Query(CombineRecords(rs), seen)

(* The source behaves: see RowCurrent. *)
Regular == Dated /\ Named

(* Row r is the object as it was after change j, up to a date that noise      *)
(* left behind.                                                               *)
At(r, j) ==
  /\ r.there = (j # 0 /\ log[j].op # "DELETE")
  /\ ~r.there => r = NoRow
  /\ r.there => /\ r.date \in 1..j /\ log[r.date].op # "DELETE"
                /\ r.x = log[r.date].x /\ r.x = log[j].x

(* ... after a change that is not before change a. *)
Reaches(r, a) == \E j \in a..Len(log) : At(r, j)

(* In an ordered stream a events are acked and the batch follows them; the    *)
(* row has reached the acked ones and, once executed, the batch.              *)
Executed == pc \in {"mark", "unmark", "ack"}
Line(a) ==
  /\ acked = 1..a /\ a + Len(batch) <= Len(log)
  /\ \A i \in 1..Len(batch) : batch[i] = a + i
  /\ Regular => Reaches(row, IF Executed THEN a + Len(batch) ELSE a)

RowInv == ordered => \E a \in Nat : Line(a)

SInv == TypeOK /\ LogInv /\ BatchInv /\ RowInv

-----------------------------------------------------------------------------
(* Induction over numbers, and folds. *)

LEMMA NatLeast ==
  ASSUME NEW S \in SUBSET Nat, S # {}
  PROVE  \E n \in S : \A m \in S : n <= m
<1>1. PICK n \in S : \A m \in S : ~ (<<m, n>> \in OpToRel(<, Nat))
  BY NatLessThanWellFounded, WFMin, Zenon
<1>2. ASSUME NEW m \in S PROVE n <= m
  <2>1. ~ (<<m, n>> \in {r \in Nat \X Nat : r[1] < r[2]})
    BY <1>1 DEF OpToRel
  <2> QED
    BY <2>1
<1> QED
  BY <1>2

(* What holds of 0 and, with a number, of the next one up to n. *)
LEMMA Induction ==
  ASSUME NEW n \in Nat, NEW S, 0 \in S,
         \A k \in 0..(n - 1) : k \in S => k + 1 \in S
  PROVE  \A k \in 0..n : k \in S
<1> DEFINE B == {k \in 0..n : k \notin S}
<1> SUFFICES ASSUME B # {} PROVE FALSE
  OBVIOUS
<1>1. PICK m \in B : \A k \in B : m <= k
  <2>1. B \in SUBSET Nat
    OBVIOUS
  <2> HIDE DEF B
  <2> QED
    BY <2>1, NatLeast
<1>2. m # 0 /\ m \in 0..n /\ m \notin S
  OBVIOUS
<1>3. m - 1 \in 0..(n - 1) /\ (m - 1) + 1 = m
  BY <1>2
<1>4. m - 1 \in S
  <2>1. m - 1 \notin B
    BY <1>1, <1>2
  <2> QED
    BY <2>1, <1>3
<1> QED
  BY <1>2, <1>3, <1>4

LEMMA MaxOf ==
  ASSUME NEW n \in Nat, NEW u \in SUBSET (1..n), u # {}
  PROVE  Max(u) \in u /\ \A v \in u : v <= Max(u)
<1> DEFINE S == {n - v : v \in u}
<1>1. S \in SUBSET Nat /\ S # {}
  <2>1. \A v \in u : n - v \in Nat
    OBVIOUS
  <2> QED
    BY <2>1
<1> HIDE DEF S
<1>2. PICK t \in S : \A w \in S : t <= w
  BY <1>1, NatLeast
<1>3. PICK v \in u : t = n - v
  BY DEF S
<1>4. \A w \in u : n - v <= n - w
  BY <1>2, <1>3 DEF S
<1>5. \A w \in u : v >= w
  BY <1>4
<1>6. Max(u) \in u /\ \A w \in u : Max(u) >= w
  BY <1>5 DEF Max
<1> QED
  BY <1>6

LEMMA MaxSegment ==
  ASSUME NEW k \in Nat \ {0}
  PROVE  Max(1..k) = k /\ (1..k) \ {Max(1..k)} = 1..(k - 1)
<1>1. Max(1..k) \in 1..k /\ \A v \in 1..k : v <= Max(1..k)
  <2>1. k \in Nat /\ 1..k \in SUBSET (1..k) /\ 1..k # {}
    OBVIOUS
  <2> QED
    BY <2>1, MaxOf
<1>2. Max(1..k) = k
  BY <1>1
<1> QED
  BY <1>2

(* F can be folded over s from b, with values in T. *)
CanFold(T, E, F, b, s) == F \in [T \X E -> T] /\ b \in T /\ s \in Seq(E)

(* g solves the equation by which the community modules define a fold. *)
Solves(g, T, F, b, s, k) ==
  /\ g \in [SUBSET (1..k) -> T]
  /\ \A u \in SUBSET (1..k) :
       g[u] = IF u = {} THEN b ELSE F[<<g[u \ {Max(u)}], s[Max(u)]>>]

LEMMA FoldExists ==
  ASSUME NEW T, NEW E, NEW F, NEW b, NEW s, CanFold(T, E, F, b, s)
  PROVE  \E g : Solves(g, T, F, b, s, Len(s))
<1> DEFINE N == Len(s)
           S == {k \in Nat : \E g : Solves(g, T, F, b, s, k)}
<1> USE DEF CanFold, Solves
<1>1. N \in Nat /\ \A i \in 1..N : s[i] \in E
  BY LenProperties, ElementOfSeq
<1>2. 0 \in S
  <2> DEFINE g == [u \in SUBSET (1..0) |-> b]
  <2>1. \A u \in SUBSET (1..0) : u = {}
    OBVIOUS
  <2>2. Solves(g, T, F, b, s, 0)
    BY <2>1
  <2> QED
    BY <2>2
<1>3. ASSUME NEW k \in 0..(N - 1), k \in S PROVE k + 1 \in S
  <2>1. PICK h : Solves(h, T, F, b, s, k)
    BY <1>3
  <2>2. k \in Nat /\ k + 1 \in 1..N /\ s[k + 1] \in E
    BY <1>1
  <2> DEFINE g == [u \in SUBSET (1..(k + 1)) |->
                     IF k + 1 \in u THEN F[<<h[u \ {k + 1}], s[k + 1]>>] ELSE h[u]]
  <2>3. ASSUME NEW u \in SUBSET (1..(k + 1)), k + 1 \in u
        PROVE  /\ u \ {k + 1} \in SUBSET (1..k) /\ Max(u) = k + 1 /\ u # {}
               /\ g[u] = F[<<h[u \ {k + 1}], s[k + 1]>>] /\ g[u] \in T
               /\ g[u \ {k + 1}] = h[u \ {k + 1}]
    <3>1. u \ {k + 1} \in SUBSET (1..k)
      BY <2>2
    <3>2. Max(u) \in u /\ k + 1 <= Max(u)
      <4>1. k + 1 \in Nat /\ u # {}
        BY <2>2, <2>3
      <4> QED
        BY <2>3, <4>1, MaxOf
    <3>3. Max(u) = k + 1
      <4>1. Max(u) \in 1..(k + 1)
        BY <3>2
      <4> QED
        BY <2>2, <3>2, <4>1
    <3>4. h[u \ {k + 1}] \in T
      BY <2>1, <3>1
    <3>5. F[<<h[u \ {k + 1}], s[k + 1]>>] \in T
      BY <3>4, <2>2
    <3> QED
      BY <3>1, <3>3, <3>5, <2>3
  <2>4. ASSUME NEW u \in SUBSET (1..(k + 1)), k + 1 \notin u
        PROVE  /\ u \in SUBSET (1..k) /\ g[u] = h[u] /\ h[u] \in T
               /\ u # {} => g[u \ {Max(u)}] = h[u \ {Max(u)}]
    <3>1. u \in SUBSET (1..k)
      BY <2>2, <2>4
    <3>2. g[u] = h[u] /\ h[u] \in T
      BY <2>1, <2>4, <3>1
    <3>3. g[u \ {Max(u)}] = h[u \ {Max(u)}]
      BY <2>4
    <3> QED
      BY <3>1, <3>2, <3>3
  <2>5. g \in [SUBSET (1..(k + 1)) -> T]
    BY <2>3, <2>4
  <2> HIDE DEF g
  <2>6. ASSUME NEW u \in SUBSET (1..(k + 1))
        PROVE  g[u] = IF u = {} THEN b ELSE F[<<g[u \ {Max(u)}], s[Max(u)]>>]
    <3>1. CASE k + 1 \in u
      BY <2>3, <3>1
    <3>2. CASE k + 1 \notin u
      BY <2>1, <2>4, <3>2
    <3> QED
      BY <3>1, <3>2
  <2>7. Solves(g, T, F, b, s, k + 1)
    BY <2>5, <2>6
  <2> HIDE DEF Solves
  <2> QED
    BY <2>2, <2>7
<1>4. N \in S
  <2> HIDE DEF S
  <2>1. \A k \in 0..N : k \in S
    BY <1>1, <1>2, <1>3, Induction
  <2>2. N \in 0..N
    BY <1>1
  <2> QED
    BY <2>1, <2>2
<1> QED
  BY <1>4

(* t holds the values of a fold of F from b over the prefixes of s. *)
IsTrace(t, T, F, b, s) ==
  /\ t \in [0..Len(s) -> T]
  /\ t[0] = b
  /\ \A k \in 1..Len(s) : t[k] = F[<<t[k - 1], s[k]>>]

(* What FoldLeft computes is the end of such a trace. *)
LEMMA FoldTrace ==
  ASSUME NEW T, NEW E, NEW F, NEW b, NEW s, CanFold(T, E, F, b, s), NEW h,
         h[{}] = b,
         \A u \in SUBSET (1..Len(s)) :
           (u # {} /\ h[u \ {Max(u)}] \in T) => h[u] = F[<<h[u \ {Max(u)}], s[Max(u)]>>]
  PROVE  IsTrace([k \in 0..Len(s) |-> h[1..k]], T, F, b, s)
<1> DEFINE N == Len(s)
           t == [k \in 0..N |-> h[1..k]]
           S == {k \in 0..N : h[1..k] \in T}
<1> USE DEF CanFold
<1>1. N \in Nat /\ \A i \in 1..N : s[i] \in E
  BY LenProperties, ElementOfSeq
<1>2. h[1..0] = b
  <2>1. 1..0 = {}
    OBVIOUS
  <2> QED
    BY <2>1
<1>3. ASSUME NEW k \in 1..N, h[1..(k - 1)] \in T
      PROVE  h[1..k] = F[<<h[1..(k - 1)], s[k]>>] /\ h[1..k] \in T
  <2>1. k \in Nat \ {0} /\ k <= N
    BY <1>1
  <2>2. 1..k \in SUBSET (1..N) /\ 1..k # {}
    BY <1>1, <2>1, \A i \in 1..k : i \in 1..N
  <2>3. Max(1..k) = k /\ (1..k) \ {Max(1..k)} = 1..(k - 1)
    BY <2>1, MaxSegment
  <2>4. h[1..k] = F[<<h[1..(k - 1)], s[k]>>]
    BY <1>3, <2>2, <2>3
  <2>5. s[k] \in E
    BY <1>1
  <2> QED
    BY <1>3, <2>4, <2>5
<1>4. \A k \in 0..N : k \in S
  <2>1. 0 \in S
    BY <1>1, <1>2
  <2>2. ASSUME NEW k \in 0..(N - 1), k \in S PROVE k + 1 \in S
    <3>1. k + 1 \in 1..N /\ (k + 1) - 1 = k /\ k + 1 \in 0..N
      BY <1>1
    <3>2. h[1..((k + 1) - 1)] \in T
      BY <2>2, <3>1
    <3> QED
      BY <1>3, <3>1, <3>2
  <2> HIDE DEF S
  <2> QED
    BY <1>1, <2>1, <2>2, Induction
<1>5. t \in [0..N -> T]
  BY <1>4
<1>6. t[0] = b
  BY <1>1, <1>2
<1>7. ASSUME NEW k \in 1..N PROVE t[k] = F[<<t[k - 1], s[k]>>]
  <2>1. k \in 0..N /\ k - 1 \in 0..N
    BY <1>1
  <2>2. h[1..(k - 1)] \in T
    BY <1>4, <2>1
  <2> QED
    BY <1>3, <2>1, <2>2
<1> QED
  BY <1>5, <1>6, <1>7 DEF IsTrace

LEMMA TraceEnds ==
  ASSUME NEW T, NEW E, NEW F, NEW b, NEW s, CanFold(T, E, F, b, s), NEW e \in E,
         NEW t, IsTrace(t, T, F, b, s), NEW v, IsTrace(v, T, F, b, Append(s, e))
  PROVE  /\ t[Len(s)] \in T
         /\ v[Len(Append(s, e))] = F[<<t[Len(s)], e>>]
<1> DEFINE N == Len(s)
           S == {k \in 0..N : v[k] = t[k]}
<1> USE DEF CanFold
<1>1. /\ N \in Nat /\ Len(Append(s, e)) = N + 1 /\ Append(s, e)[N + 1] = e
      /\ \A k \in 1..N : Append(s, e)[k] = s[k]
  BY LenProperties, AppendProperties
<1>2. 0 \in S
  BY <1>1 DEF IsTrace
<1>3. ASSUME NEW k \in 0..(N - 1), k \in S PROVE k + 1 \in S
  <2>1. k + 1 \in 1..N /\ k + 1 \in 1..(N + 1) /\ (k + 1) - 1 = k /\ k + 1 \in 0..N
    BY <1>1
  <2>2. t[k + 1] = F[<<t[k], s[k + 1]>>] /\ v[k + 1] = F[<<v[k], s[k + 1]>>]
    BY <1>1, <2>1 DEF IsTrace
  <2> QED
    BY <1>3, <2>1, <2>2
<1>4. v[N] = t[N]
  <2> HIDE DEF S
  <2>1. \A k \in 0..N : k \in S
    BY <1>1, <1>2, <1>3, Induction
  <2>2. N \in S
    BY <1>1, <2>1
  <2> QED
    BY <2>2 DEF S
<1>5. N \in 0..N /\ N + 1 \in 1..(N + 1) /\ (N + 1) - 1 = N
  BY <1>1
<1> QED
  BY <1>1, <1>4, <1>5 DEF IsTrace

-----------------------------------------------------------------------------
(* ApplyAll. *)

ApplyFn == [p \in Rows \X Stmts |-> ApplyStmt(p[1], p[2])]

LEMMA RowFields ==
  ASSUME NEW r \in Rows
  PROVE  /\ r.there \in BOOLEAN /\ r.x \in 0..MaxEvents /\ r.date \in 0..MaxEvents
         /\ r = [there |-> r.there, x |-> r.x, date |-> r.date]
BY DEF Rows

LEMMA RecordFields ==
  ASSUME NEW r \in Records
  PROVE  /\ r.op \in Ops /\ r.n \in Numbers /\ r.x \in 0..MaxEvents
         /\ r.date \in 0..MaxEvents /\ r.diff \in SUBSET DiffColumns
BY DEF Records

LEMMA ApplyStmtType ==
  ASSUME NEW r \in Rows, NEW s \in Stmts
  PROVE  ApplyStmt(r, s) \in Rows
<1>1. s.rec \in Records
  BY DEF Stmts
<1>2. /\ NoRow \in Rows
      /\ [there |-> TRUE, x |-> IF r.there /\ s.rec.x = 0 THEN r.x ELSE s.rec.x,
          date |-> s.rec.date] \in Rows
  BY <1>1, SnowflakeAssumption, RecordFields DEF NoRow, Rows, SnowflakeAssumption
<1> QED
  BY <1>2 DEF ApplyStmt, ApplyMerge

LEMMA ApplyFolds ==
  ASSUME NEW r \in Rows, NEW ss \in Seq(Stmts)
  PROVE  CanFold(Rows, Stmts, ApplyFn, r, ss)
BY ApplyStmtType DEF ApplyFn, CanFold

LEMMA ApplyAllTrace ==
  ASSUME NEW r \in Rows, NEW ss \in Seq(Stmts)
  PROVE  \E t : IsTrace(t, Rows, ApplyFn, r, ss) /\ ApplyAll(r, ss) = t[Len(ss)]
<1> DEFINE Eq(g) == g = [u \in SUBSET (DOMAIN ss) |->
                           IF u = {} THEN r ELSE ApplyStmt(g[u \ {Max(u)}], ss[Max(u)])]
           h == CHOOSE g : Eq(g)
<1>1. Len(ss) \in Nat /\ DOMAIN ss = 1..Len(ss) /\ \A i \in 1..Len(ss) : ss[i] \in Stmts
  BY LenProperties, ElementOfSeq
<1>2. ASSUME NEW u \in SUBSET (1..Len(ss)), u # {}
      PROVE  Max(u) \in 1..Len(ss) /\ u \ {Max(u)} \in SUBSET (1..Len(ss))
  BY <1>1, <1>2, MaxOf
<1>3. ASSUME NEW a \in Rows, NEW i \in 1..Len(ss) PROVE ApplyFn[<<a, ss[i]>>] = ApplyStmt(a, ss[i])
  BY <1>1 DEF ApplyFn
<1>4. \E g : Eq(g)
  <2>1. PICK g : Solves(g, Rows, ApplyFn, r, ss, Len(ss))
    BY ApplyFolds, FoldExists
  <2>2. \A u \in SUBSET (1..Len(ss)) :
          g[u] = IF u = {} THEN r ELSE ApplyStmt(g[u \ {Max(u)}], ss[Max(u)])
    BY <1>2, <1>3, <2>1 DEF Solves
  <2>3. Eq(g)
    BY <1>1, <2>1, <2>2 DEF Solves
  <2> QED
    BY <2>3
<1>5. Eq(h)
  BY <1>4
<1>6. ApplyAll(r, ss) = h[DOMAIN ss]
  BY DEF ApplyAll, FoldLeft, MapThenFoldSet
<1> HIDE DEF h
<1>7. h[{}] = r
  BY <1>5
<1>8. \A u \in SUBSET (1..Len(ss)) :
        (u # {} /\ h[u \ {Max(u)}] \in Rows)
          => h[u] = ApplyFn[<<h[u \ {Max(u)}], ss[Max(u)]>>]
  BY <1>1, <1>2, <1>3, <1>5
<1>9. IsTrace([k \in 0..Len(ss) |-> h[1..k]], Rows, ApplyFn, r, ss)
  BY <1>7, <1>8, ApplyFolds, FoldTrace
<1>10. [k \in 0..Len(ss) |-> h[1..k]][Len(ss)] = ApplyAll(r, ss)
  BY <1>1, <1>6
<1> QED
  BY <1>9, <1>10

LEMMA ApplyAllFacts ==
  ASSUME NEW r \in Rows
  PROVE  /\ ApplyAll(r, <<>>) = r
         /\ \A ss \in Seq(Stmts) : ApplyAll(r, ss) \in Rows
         /\ \A ss \in Seq(Stmts), s \in Stmts :
              ApplyAll(r, Append(ss, s)) = ApplyStmt(ApplyAll(r, ss), s)
<1>1. ApplyAll(r, <<>>) = r
  <2>1. <<>> \in Seq(Stmts) /\ Len(<<>>) = 0
    OBVIOUS
  <2> QED
    BY <2>1, ApplyAllTrace DEF IsTrace
<1>2. ASSUME NEW ss \in Seq(Stmts) PROVE ApplyAll(r, ss) \in Rows
  <2>1. Len(ss) \in 0..Len(ss)
    BY LenProperties
  <2> QED
    BY <2>1, ApplyAllTrace DEF IsTrace
<1>3. ASSUME NEW ss \in Seq(Stmts), NEW s \in Stmts
      PROVE  ApplyAll(r, Append(ss, s)) = ApplyStmt(ApplyAll(r, ss), s)
  <2>1. Append(ss, s) \in Seq(Stmts)
    BY AppendProperties
  <2>2. PICK t : IsTrace(t, Rows, ApplyFn, r, ss) /\ ApplyAll(r, ss) = t[Len(ss)]
    BY ApplyAllTrace
  <2>3. PICK v : IsTrace(v, Rows, ApplyFn, r, Append(ss, s))
                   /\ ApplyAll(r, Append(ss, s)) = v[Len(Append(ss, s))]
    BY <2>1, ApplyAllTrace
  <2>4. t[Len(ss)] \in Rows /\ v[Len(Append(ss, s))] = ApplyFn[<<t[Len(ss)], s>>]
    BY <2>2, <2>3, ApplyFolds, TraceEnds
  <2> QED
    BY <2>2, <2>3, <2>4 DEF ApplyFn
<1> QED
  BY <1>1, <1>2, <1>3

-----------------------------------------------------------------------------
(* CombineRecords and Query. *)

LEMMA FrontLast ==
  ASSUME NEW S, NEW s \in Seq(S), s # <<>>
  PROVE  /\ Len(s) \in Nat \ {0} /\ DOMAIN s = 1..Len(s)
         /\ Last(s) = s[Len(s)] /\ Last(s) \in S
         /\ Front(s) \in Seq(S) /\ Len(Front(s)) = Len(s) - 1
         /\ \A i \in 1..(Len(s) - 1) : Front(s)[i] = s[i]
<1>1. Len(s) \in Nat \ {0} /\ DOMAIN s = 1..Len(s)
  BY LenProperties, EmptySeq
<1>2. s[Len(s)] \in S
  BY <1>1, ElementOfSeq
<1>3. Front(s) \in Seq(S) /\ Len(Front(s)) = Len(s) - 1
        /\ \A i \in 1..(Len(s) - 1) : Front(s)[i] = s[i]
  BY <1>1, SubSeqProperties DEF Front
<1> QED
  BY <1>1, <1>2, <1>3 DEF Last

(* The record an UPDATE is merged into. *)
LEMMA MergedFacts ==
  ASSUME NEW r \in Records, NEW u \in Records
  PROVE  /\ Merged(r, u) \in Records
         /\ Merged(r, u).op = r.op /\ Merged(r, u).n = r.n
         /\ r.x # 0 => Merged(r, u).x = r.x
         /\ Merged(r, u).date = r.date /\ Merged(r, u).diff = r.diff \cup u.diff
BY DEF Merged, Records

CombineFn == [p \in Seq(Records) \X Records |-> CombineStep(p[1], p[2])]

LEMMA CombineStepType ==
  ASSUME NEW rs \in Seq(Records), NEW r \in Records
  PROVE  CombineStep(rs, r) \in Seq(Records)
<1>1. <<r>> \in Seq(Records) /\ Append(rs, r) \in Seq(Records)
  BY AppendProperties
<1>2. rs # <<>> => Append(Front(rs), Merged(r, Last(rs))) \in Seq(Records)
  BY FrontLast, MergedFacts, AppendProperties
<1> QED
  BY <1>1, <1>2 DEF CombineStep, Merged

LEMMA CombineFolds ==
  ASSUME NEW rs \in Seq(Records)
  PROVE  CanFold(Seq(Records), Records, CombineFn, <<>>, rs)
BY CombineStepType DEF CombineFn, CanFold

LEMMA CombineTrace ==
  ASSUME NEW rs \in Seq(Records)
  PROVE  \E t : IsTrace(t, Seq(Records), CombineFn, <<>>, rs) /\ CombineRecords(rs) = t[Len(rs)]
<1> DEFINE Eq(g) == g = [u \in SUBSET (DOMAIN rs) |->
                           IF u = {} THEN <<>> ELSE CombineStep(g[u \ {Max(u)}], rs[Max(u)])]
           h == CHOOSE g : Eq(g)
<1>1. Len(rs) \in Nat /\ DOMAIN rs = 1..Len(rs) /\ \A i \in 1..Len(rs) : rs[i] \in Records
  BY LenProperties, ElementOfSeq
<1>2. ASSUME NEW u \in SUBSET (1..Len(rs)), u # {}
      PROVE  Max(u) \in 1..Len(rs) /\ u \ {Max(u)} \in SUBSET (1..Len(rs))
  BY <1>1, <1>2, MaxOf
<1>3. ASSUME NEW a \in Seq(Records), NEW i \in 1..Len(rs) PROVE CombineFn[<<a, rs[i]>>] = CombineStep(a, rs[i])
  BY <1>1 DEF CombineFn
<1>4. \E g : Eq(g)
  <2>1. PICK g : Solves(g, Seq(Records), CombineFn, <<>>, rs, Len(rs))
    BY CombineFolds, FoldExists
  <2>2. \A u \in SUBSET (1..Len(rs)) :
          g[u] = IF u = {} THEN <<>> ELSE CombineStep(g[u \ {Max(u)}], rs[Max(u)])
    BY <1>2, <1>3, <2>1 DEF Solves
  <2>3. Eq(g)
    BY <1>1, <2>1, <2>2 DEF Solves
  <2> QED
    BY <2>3
<1>5. Eq(h)
  BY <1>4
<1>6. CombineRecords(rs) = h[DOMAIN rs]
  BY DEF CombineRecords, FoldLeft, MapThenFoldSet
<1> HIDE DEF h
<1>7. h[{}] = <<>>
  BY <1>5
<1>8. \A u \in SUBSET (1..Len(rs)) :
        (u # {} /\ h[u \ {Max(u)}] \in Seq(Records))
          => h[u] = CombineFn[<<h[u \ {Max(u)}], rs[Max(u)]>>]
  BY <1>1, <1>2, <1>3, <1>5
<1>9. IsTrace([k \in 0..Len(rs) |-> h[1..k]], Seq(Records), CombineFn, <<>>, rs)
  BY <1>7, <1>8, CombineFolds, FoldTrace
<1>10. [k \in 0..Len(rs) |-> h[1..k]][Len(rs)] = CombineRecords(rs)
  BY <1>1, <1>6
<1> QED
  BY <1>9, <1>10

LEMMA CombineFacts ==
  /\ CombineRecords(<<>>) = <<>>
  /\ \A rs \in Seq(Records) : CombineRecords(rs) \in Seq(Records)
  /\ \A rs \in Seq(Records), r \in Records :
       CombineRecords(Append(rs, r)) = CombineStep(CombineRecords(rs), r)
<1>1. CombineRecords(<<>>) = <<>>
  <2>1. <<>> \in Seq(Records) /\ Len(<<>>) = 0
    OBVIOUS
  <2> QED
    BY <2>1, CombineTrace DEF IsTrace
<1>2. ASSUME NEW rs \in Seq(Records) PROVE CombineRecords(rs) \in Seq(Records)
  <2>1. Len(rs) \in 0..Len(rs)
    BY LenProperties
  <2> QED
    BY <2>1, CombineTrace DEF IsTrace
<1>3. ASSUME NEW rs \in Seq(Records), NEW r \in Records
      PROVE  CombineRecords(Append(rs, r)) = CombineStep(CombineRecords(rs), r)
  <2>1. Append(rs, r) \in Seq(Records)
    BY AppendProperties
  <2>2. PICK t : IsTrace(t, Seq(Records), CombineFn, <<>>, rs) /\ CombineRecords(rs) = t[Len(rs)]
    BY CombineTrace
  <2>3. PICK v : IsTrace(v, Seq(Records), CombineFn, <<>>, Append(rs, r))
                   /\ CombineRecords(Append(rs, r)) = v[Len(Append(rs, r))]
    BY <2>1, CombineTrace
  <2>4. t[Len(rs)] \in Seq(Records) /\ v[Len(Append(rs, r))] = CombineFn[<<t[Len(rs)], r>>]
    BY <2>2, <2>3, CombineFolds, TraceEnds
  <2> QED
    BY <2>2, <2>3, <2>4 DEF CombineFn
<1> QED
  BY <1>1, <1>2, <1>3

QueryFn(seen) == [p \in Seq(Stmts) \X Records |-> AddSql(p[1], p[2], seen)]

(* The statements of a record. *)
Del(r) == [k |-> "delete", rec |-> r]
Mrg(r) == [k |-> "merge", rec |-> r]

LEMMA StmtFields ==
  ASSUME NEW r \in Records
  PROVE  /\ Del(r) \in Stmts /\ Del(r).k = "delete" /\ Del(r).rec = r
         /\ Mrg(r) \in Stmts /\ Mrg(r).k = "merge" /\ Mrg(r).rec = r
BY DEF Del, Mrg, Stmts

(* A record adds nothing, a DELETE, a MERGE, or a DELETE and a MERGE. *)
LEMMA AddSqlCases ==
  ASSUME NEW sql \in Seq(Stmts), NEW r \in Records, NEW seen \in BOOLEAN
  PROVE  AddSql(sql, r, seen) =
           IF Noise(r) THEN sql
           ELSE IF r.op = "DELETE" THEN Append(sql, Del(r))
           ELSE IF r.op = "INSERT" /\ seen THEN Append(Append(sql, Del(r)), Mrg(r))
           ELSE Append(sql, Mrg(r))
<1>1. Del(r) \in Stmts /\ Mrg(r) \in Stmts
  BY StmtFields
<1>2. sql \o (<<Del(r)>> \o <<>>) = Append(sql, Del(r))
  BY <1>1
<1>3. sql \o (<<>> \o <<Mrg(r)>>) = Append(sql, Mrg(r))
  BY <1>1
<1>4. sql \o (<<Del(r)>> \o <<Mrg(r)>>) = Append(Append(sql, Del(r)), Mrg(r))
  BY <1>1
<1>5. CASE r.op = "DELETE"
  BY <1>2, <1>5 DEF AddSql, ToSql, Del, Mrg
<1>6. CASE r.op # "DELETE" /\ r.op = "INSERT" /\ seen
  BY <1>4, <1>6 DEF AddSql, ToSql, Del, Mrg
<1>7. CASE r.op # "DELETE" /\ ~(r.op = "INSERT" /\ seen)
  BY <1>3, <1>7 DEF AddSql, ToSql, Del, Mrg
<1> QED
  BY <1>5, <1>6, <1>7

LEMMA AddSqlType ==
  ASSUME NEW sql \in Seq(Stmts), NEW r \in Records, NEW seen \in BOOLEAN
  PROVE  AddSql(sql, r, seen) \in Seq(Stmts)
BY AddSqlCases, StmtFields, AppendProperties

LEMMA QueryFolds ==
  ASSUME NEW seen \in BOOLEAN, NEW rs \in Seq(Records)
  PROVE  CanFold(Seq(Stmts), Records, QueryFn(seen), <<>>, rs)
BY AddSqlType DEF QueryFn, CanFold

LEMMA QueryTrace ==
  ASSUME NEW seen \in BOOLEAN, NEW rs \in Seq(Records)
  PROVE  \E t : IsTrace(t, Seq(Stmts), QueryFn(seen), <<>>, rs) /\ Query(rs, seen) = t[Len(rs)]
<1> DEFINE Eq(g) == g = [u \in SUBSET (DOMAIN rs) |->
                           IF u = {} THEN <<>> ELSE AddSql(g[u \ {Max(u)}], rs[Max(u)], seen)]
           h == CHOOSE g : Eq(g)
<1>1. Len(rs) \in Nat /\ DOMAIN rs = 1..Len(rs) /\ \A i \in 1..Len(rs) : rs[i] \in Records
  BY LenProperties, ElementOfSeq
<1>2. ASSUME NEW u \in SUBSET (1..Len(rs)), u # {}
      PROVE  Max(u) \in 1..Len(rs) /\ u \ {Max(u)} \in SUBSET (1..Len(rs))
  BY <1>1, <1>2, MaxOf
<1>3. ASSUME NEW a \in Seq(Stmts), NEW i \in 1..Len(rs) PROVE QueryFn(seen)[<<a, rs[i]>>] = AddSql(a, rs[i], seen)
  BY <1>1 DEF QueryFn
<1>4. \E g : Eq(g)
  <2>1. PICK g : Solves(g, Seq(Stmts), QueryFn(seen), <<>>, rs, Len(rs))
    BY QueryFolds, FoldExists
  <2>2. \A u \in SUBSET (1..Len(rs)) :
          g[u] = IF u = {} THEN <<>> ELSE AddSql(g[u \ {Max(u)}], rs[Max(u)], seen)
    BY <1>2, <1>3, <2>1 DEF Solves
  <2>3. Eq(g)
    BY <1>1, <2>1, <2>2 DEF Solves
  <2> QED
    BY <2>3
<1>5. Eq(h)
  BY <1>4
<1>6. Query(rs, seen) = h[DOMAIN rs]
  BY DEF Query, FoldLeft, MapThenFoldSet
<1> HIDE DEF h
<1>7. h[{}] = <<>>
  BY <1>5
<1>8. \A u \in SUBSET (1..Len(rs)) :
        (u # {} /\ h[u \ {Max(u)}] \in Seq(Stmts))
          => h[u] = QueryFn(seen)[<<h[u \ {Max(u)}], rs[Max(u)]>>]
  BY <1>1, <1>2, <1>3, <1>5
<1>9. IsTrace([k \in 0..Len(rs) |-> h[1..k]], Seq(Stmts), QueryFn(seen), <<>>, rs)
  BY <1>7, <1>8, QueryFolds, FoldTrace
<1>10. [k \in 0..Len(rs) |-> h[1..k]][Len(rs)] = Query(rs, seen)
  BY <1>1, <1>6
<1> QED
  BY <1>9, <1>10

LEMMA QueryFacts ==
  ASSUME NEW seen \in BOOLEAN
  PROVE
  /\ Query(<<>>, seen) = <<>>
  /\ \A rs \in Seq(Records) : Query(rs, seen) \in Seq(Stmts)
  /\ \A rs \in Seq(Records), r \in Records :
       Query(Append(rs, r), seen) = AddSql(Query(rs, seen), r, seen)
<1>1. Query(<<>>, seen) = <<>>
  <2>1. <<>> \in Seq(Records) /\ Len(<<>>) = 0
    OBVIOUS
  <2> QED
    BY <2>1, QueryTrace DEF IsTrace
<1>2. ASSUME NEW rs \in Seq(Records) PROVE Query(rs, seen) \in Seq(Stmts)
  <2>1. Len(rs) \in 0..Len(rs)
    BY LenProperties
  <2> QED
    BY <2>1, QueryTrace DEF IsTrace
<1>3. ASSUME NEW rs \in Seq(Records), NEW r \in Records
      PROVE  Query(Append(rs, r), seen) = AddSql(Query(rs, seen), r, seen)
  <2>1. Append(rs, r) \in Seq(Records)
    BY AppendProperties
  <2>2. PICK t : IsTrace(t, Seq(Stmts), QueryFn(seen), <<>>, rs) /\ Query(rs, seen) = t[Len(rs)]
    BY QueryTrace
  <2>3. PICK v : IsTrace(v, Seq(Stmts), QueryFn(seen), <<>>, Append(rs, r))
                   /\ Query(Append(rs, r), seen) = v[Len(Append(rs, r))]
    BY <2>1, QueryTrace
  <2>4. t[Len(rs)] \in Seq(Stmts) /\ v[Len(Append(rs, r))] = QueryFn(seen)[<<t[Len(rs)], r>>]
    BY <2>2, <2>3, QueryFolds, TraceEnds
  <2> QED
    BY <2>2, <2>3, <2>4 DEF QueryFn
<1> QED
  BY <1>1, <1>2, <1>3

-----------------------------------------------------------------------------
(* Induction over sequences, and what the statements of a batch are. *)

LEMMA SubSeqAppend ==
  ASSUME NEW E, NEW s \in Seq(E), NEW k \in 0..(Len(s) - 1)
  PROVE  /\ SubSeq(s, 1, k) \in Seq(E)
         /\ SubSeq(s, 1, k + 1) = Append(SubSeq(s, 1, k), s[k + 1])
<1> DEFINE p == SubSeq(s, 1, k)
           q == SubSeq(s, 1, k + 1)
<1>1. Len(s) \in Nat /\ \A i \in 1..Len(s) : s[i] \in E
  BY LenProperties, ElementOfSeq
<1>2. k \in Nat /\ k + 1 \in 1..Len(s)
  BY <1>1
<1>3. p \in Seq(E) /\ Len(p) = k /\ \A i \in 1..k : p[i] = s[i]
  BY <1>1, <1>2, SubSeqProperties
<1>4. q \in Seq(E) /\ Len(q) = k + 1 /\ \A i \in 1..(k + 1) : q[i] = s[i]
  BY <1>1, <1>2, SubSeqProperties
<1> HIDE DEF p, q
<1>5. /\ Append(p, s[k + 1]) \in Seq(E) /\ Len(Append(p, s[k + 1])) = k + 1
      /\ Append(p, s[k + 1])[k + 1] = s[k + 1]
      /\ \A i \in 1..k : Append(p, s[k + 1])[i] = s[i]
  BY <1>1, <1>2, <1>3, AppendProperties
<1>6. \A i \in 1..Len(q) : q[i] = Append(p, s[k + 1])[i]
  BY <1>2, <1>4, <1>5
<1>7. q = Append(p, s[k + 1])
  BY <1>4, <1>5, <1>6, SeqEqual
<1> QED
  BY <1>3, <1>7 DEF p, q

LEMMA SeqInduction ==
  ASSUME NEW E, NEW S, <<>> \in S,
         \A s \in Seq(E), e \in E : s \in S => Append(s, e) \in S
  PROVE  \A s \in Seq(E) : s \in S
<1> TAKE s \in Seq(E)
<1> DEFINE N == Len(s)
           K == {k \in 0..N : SubSeq(s, 1, k) \in S}
<1>1. N \in Nat /\ \A i \in 1..N : s[i] \in E
  BY LenProperties, ElementOfSeq
<1>2. SubSeq(s, 1, 0) = <<>> /\ SubSeq(s, 1, N) = s
  BY <1>1
<1>3. \A k \in 0..(N - 1) :
        SubSeq(s, 1, k) \in Seq(E) /\ SubSeq(s, 1, k + 1) = Append(SubSeq(s, 1, k), s[k + 1])
  BY SubSeqAppend
<1>4. 0 \in K
  <2>1. 0 \in 0..N
    BY <1>1
  <2> QED
    BY <1>2, <2>1
<1>5. ASSUME NEW k \in 0..(N - 1), k \in K PROVE k + 1 \in K
  <2>1. k + 1 \in 0..N /\ s[k + 1] \in E
    BY <1>1
  <2> QED
    BY <1>3, <1>5, <2>1
<1>6. N \in K
  <2> HIDE DEF K
  <2>1. \A k \in 0..N : k \in K
    BY <1>1, <1>4, <1>5, Induction
  <2>2. N \in 0..N
    BY <1>1
  <2> QED
    BY <2>1, <2>2
<1> QED
  BY <1>2, <1>6

(* The row after the statements of one record. *)
ApplyRec(r, c, seen) ==
  IF Noise(c) THEN r
  ELSE IF c.op = "DELETE" THEN NoRow
  ELSE ApplyMerge(IF c.op = "INSERT" /\ seen THEN NoRow ELSE r, Mrg(c))

LEMMA NoRowType == NoRow \in Rows /\ ~NoRow.there /\ NoRow.x = 0 /\ NoRow.date = 0
BY SnowflakeAssumption DEF NoRow, Rows, SnowflakeAssumption

LEMMA ApplyMrg ==
  ASSUME NEW r \in Rows, NEW c \in Records
  PROVE  /\ ApplyStmt(r, Del(c)) = NoRow
         /\ ApplyStmt(r, Mrg(c)) = ApplyMerge(r, Mrg(c))
         /\ (~r.there \/ c.date > r.date)
              => ApplyMerge(r, Mrg(c)) = [there |-> TRUE, x |-> IF r.there /\ c.x = 0 THEN r.x ELSE c.x,
                                          date |-> c.date]
         /\ ~(~r.there \/ c.date > r.date) => ApplyMerge(r, Mrg(c)) = r
         /\ ApplyMerge(r, Mrg(c)) \in Rows
<1>1. ApplyStmt(r, Mrg(c)) = ApplyMerge(r, Mrg(c)) /\ ApplyStmt(r, Del(c)) = NoRow
  BY StmtFields DEF ApplyStmt
<1>2. ApplyMerge(r, Mrg(c)) \in Rows
  BY <1>1, StmtFields, ApplyStmtType
<1>3. Mrg(c).rec = c
  BY StmtFields
<1> QED
  BY <1>1, <1>2, <1>3 DEF ApplyMerge

LEMMA ApplyRecType ==
  ASSUME NEW r \in Rows, NEW c \in Records, NEW seen \in BOOLEAN
  PROVE  ApplyRec(r, c, seen) \in Rows
BY NoRowType, ApplyMrg DEF ApplyRec

(* The statements of a batch, record by record. *)
LEMMA ApplyQuery ==
  ASSUME NEW r \in Rows, NEW rs \in Seq(Records), NEW c \in Records, NEW seen \in BOOLEAN
  PROVE  ApplyAll(r, Query(Append(rs, c), seen)) = ApplyRec(ApplyAll(r, Query(rs, seen)), c, seen)
<1> DEFINE sql == Query(rs, seen)
           a == ApplyAll(r, sql)
<1>1. sql \in Seq(Stmts) /\ Query(Append(rs, c), seen) = AddSql(sql, c, seen)
  BY QueryFacts
<1>2. a \in Rows
  BY <1>1, ApplyAllFacts
<1>3. Del(c) \in Stmts /\ Mrg(c) \in Stmts
  BY StmtFields
<1>4. Append(sql, Del(c)) \in Seq(Stmts)
  BY <1>1, <1>3, AppendProperties
<1>5. /\ ApplyAll(r, Append(sql, Del(c))) = NoRow
      /\ ApplyAll(r, Append(sql, Mrg(c))) = ApplyMerge(a, Mrg(c))
  BY <1>1, <1>2, <1>3, ApplyAllFacts, ApplyMrg
<1>6. ApplyAll(r, Append(Append(sql, Del(c)), Mrg(c))) = ApplyMerge(NoRow, Mrg(c))
  <2> DEFINE p == Append(sql, Del(c))
  <2>1. p \in Seq(Stmts) /\ ApplyAll(r, p) = NoRow
    BY <1>4, <1>5
  <2> HIDE DEF p
  <2>2. ApplyAll(r, Append(p, Mrg(c))) = ApplyStmt(NoRow, Mrg(c))
    BY <1>3, <2>1, ApplyAllFacts
  <2> QED
    BY <2>2, ApplyMrg, NoRowType DEF p
<1> HIDE DEF sql, a
<1>7. AddSql(sql, c, seen) =
        IF Noise(c) THEN sql
        ELSE IF c.op = "DELETE" THEN Append(sql, Del(c))
        ELSE IF c.op = "INSERT" /\ seen THEN Append(Append(sql, Del(c)), Mrg(c))
        ELSE Append(sql, Mrg(c))
  BY <1>1, AddSqlCases
<1>8. ApplyAll(r, AddSql(sql, c, seen)) = ApplyRec(a, c, seen)
  BY <1>5, <1>6, <1>7 DEF ApplyRec, a
<1> QED
  BY <1>1, <1>8 DEF sql, a

(* s is a statement of one of the records rs. *)
StmtOf(s, rs) ==
  \E q \in 1..Len(rs) :
    \/ s = Del(rs[q]) /\ rs[q].op \in {"INSERT", "DELETE"}
    \/ s = Mrg(rs[q]) /\ rs[q].op # "DELETE"

LEMMA QueryStmts ==
  ASSUME NEW seen \in BOOLEAN
  PROVE  \A rs \in Seq(Records) : \A i \in 1..Len(Query(rs, seen)) : StmtOf(Query(rs, seen)[i], rs)
<1> DEFINE S == {rs \in Seq(Records) :
                   \A i \in 1..Len(Query(rs, seen)) : StmtOf(Query(rs, seen)[i], rs)}
<1>1. <<>> \in S
  <2>1. <<>> \in Seq(Records) /\ Query(<<>>, seen) = <<>> /\ Len(<<>>) = 0
    BY QueryFacts
  <2> QED
    BY <2>1
<1>2. ASSUME NEW rs \in Seq(Records), NEW c \in Records, rs \in S PROVE Append(rs, c) \in S
  <2> DEFINE sql == Query(rs, seen)
             both == Append(rs, c)
             new == Query(both, seen)
  <2>1. sql \in Seq(Stmts) /\ new = AddSql(sql, c, seen) /\ Len(sql) \in Nat
    BY QueryFacts, LenProperties
  <2>2. /\ both \in Seq(Records) /\ Len(both) = Len(rs) + 1 /\ both[Len(rs) + 1] = c
        /\ \A i \in 1..Len(rs) : both[i] = rs[i]
        /\ Len(rs) \in Nat
    BY AppendProperties, LenProperties
  <2>3. Del(c) \in Stmts /\ Mrg(c) \in Stmts
    BY StmtFields
  <2>4. ASSUME NEW s, StmtOf(s, rs) PROVE StmtOf(s, both)
    <3>1. PICK q \in 1..Len(rs) : \/ s = Del(rs[q]) /\ rs[q].op \in {"INSERT", "DELETE"}
                                  \/ s = Mrg(rs[q]) /\ rs[q].op # "DELETE"
      BY <2>4 DEF StmtOf
    <3>2. q \in 1..Len(both) /\ both[q] = rs[q]
      BY <2>2
    <3> HIDE DEF both
    <3> QED
      BY <3>1, <3>2 DEF StmtOf
  <2>5. /\ c.op \in {"INSERT", "DELETE"} => StmtOf(Del(c), both)
        /\ c.op # "DELETE" => StmtOf(Mrg(c), both)
    <3> DEFINE q == Len(rs) + 1
    <3>1. q \in 1..Len(both) /\ both[q] = c
      BY <2>2
    <3> HIDE DEF both, q
    <3> QED
      BY <3>1 DEF StmtOf
  <2>6. \A i \in 1..Len(sql) : StmtOf(sql[i], both)
    BY <1>2, <2>4
  <2> HIDE DEF sql, new, both
  <2>7. ASSUME NEW p \in Seq(Stmts), NEW s \in Stmts, StmtOf(s, both),
               \A i \in 1..Len(p) : StmtOf(p[i], both)
        PROVE  /\ Append(p, s) \in Seq(Stmts)
               /\ \A i \in 1..Len(Append(p, s)) : StmtOf(Append(p, s)[i], both)
    BY <2>7, AppendProperties, LenProperties
  <2>8. \A i \in 1..Len(new) : StmtOf(new[i], both)
    <3>1. CASE Noise(c)
      BY <2>1, <2>6, <3>1, AddSqlCases
    <3>2. CASE ~Noise(c) /\ c.op = "DELETE"
      <4>1. new = Append(sql, Del(c))
        BY <2>1, <3>2, AddSqlCases
      <4> QED
        BY <2>1, <2>3, <2>5, <2>6, <2>7, <3>2, <4>1
    <3>3. CASE ~Noise(c) /\ c.op = "INSERT" /\ seen
      <4>1. new = Append(Append(sql, Del(c)), Mrg(c))
        BY <2>1, <3>3, AddSqlCases
      <4>2. /\ Append(sql, Del(c)) \in Seq(Stmts)
            /\ \A i \in 1..Len(Append(sql, Del(c))) : StmtOf(Append(sql, Del(c))[i], both)
        BY <2>1, <2>3, <2>5, <2>6, <2>7, <3>3
      <4> QED
        BY <2>3, <2>5, <2>7, <3>3, <4>1, <4>2
    <3>4. CASE ~Noise(c) /\ c.op # "DELETE" /\ ~(c.op = "INSERT" /\ seen)
      <4>1. new = Append(sql, Mrg(c))
        BY <2>1, <3>4, AddSqlCases
      <4> QED
        BY <2>1, <2>3, <2>5, <2>6, <2>7, <3>4, <4>1
    <3> QED
      BY <3>1, <3>2, <3>3, <3>4
  <2> QED
    BY <2>2, <2>8 DEF new, both
<1> HIDE DEF S
<1>3. \A rs \in Seq(Records) : rs \in S
  BY <1>1, <1>2, SeqInduction
<1> QED
  BY <1>3 DEF S

-----------------------------------------------------------------------------
(* What CombineRecords makes of a batch. *)

(* It makes no inserts or deletes. *)
LEMMA CombinedOps ==
  \A rs \in Seq(Records) : \A q \in 1..Len(CombineRecords(rs)) :
    \E i \in 1..Len(rs) : rs[i].op = CombineRecords(rs)[q].op
<1> DEFINE P(C, rs) == \A q \in 1..Len(C) : \E i \in 1..Len(rs) : rs[i].op = C[q].op
           S == {rs \in Seq(Records) : P(CombineRecords(rs), rs)}
<1>1. <<>> \in S
  <2>1. <<>> \in Seq(Records) /\ CombineRecords(<<>>) = <<>> /\ Len(<<>>) = 0
    BY CombineFacts
  <2> QED
    BY <2>1
<1>2. ASSUME NEW rs \in Seq(Records), NEW c \in Records, rs \in S PROVE Append(rs, c) \in S
  <2> DEFINE C == CombineRecords(rs)
             both == Append(rs, c)
  <2>1. C \in Seq(Records) /\ CombineRecords(both) = CombineStep(C, c) /\ Len(C) \in Nat
    BY CombineFacts, LenProperties
  <2>2. /\ both \in Seq(Records) /\ Len(both) = Len(rs) + 1 /\ both[Len(rs) + 1] = c
        /\ \A i \in 1..Len(rs) : both[i] = rs[i]
        /\ Len(rs) \in Nat
    BY AppendProperties, LenProperties
  <2>3. \A q \in 1..Len(C) : \E i \in 1..Len(both) : both[i].op = C[q].op
    <3> TAKE q \in 1..Len(C)
    <3>1. PICK i \in 1..Len(rs) : rs[i].op = C[q].op
      BY <1>2
    <3>2. i \in 1..Len(both) /\ both[i] = rs[i]
      BY <2>2
    <3> QED
      BY <3>1, <3>2
  <2>4. \E i \in 1..Len(both) : both[i] = c
    <3>1. Len(rs) + 1 \in 1..Len(both)
      BY <2>2
    <3> QED
      BY <2>2, <3>1
  <2> HIDE DEF C, both
  <2>5. P(CombineStep(C, c), both)
    <3>1. CASE C = <<>> \/ c.op = "DELETE"
      <4>1. CombineStep(C, c) = <<c>> /\ Len(<<c>>) = 1 /\ <<c>>[1] = c
        BY <3>1 DEF CombineStep
      <4> QED
        BY <2>4, <4>1
    <3>2. CASE C # <<>> /\ c.op = "UPDATE" /\ Last(C).op = "UPDATE"
      <4> DEFINE u == Merged(c, Last(C))
      <4>1. CombineStep(C, c) = Append(Front(C), u)
        BY <3>2 DEF CombineStep, Merged
      <4>2. /\ Front(C) \in Seq(Records) /\ Len(Front(C)) = Len(C) - 1
            /\ \A i \in 1..(Len(C) - 1) : Front(C)[i] = C[i]
            /\ u \in Records /\ u.op = c.op
        BY <2>1, <3>2, FrontLast, MergedFacts
      <4>3. /\ Len(Append(Front(C), u)) = Len(C) /\ Append(Front(C), u)[Len(C)] = u
            /\ \A i \in 1..(Len(C) - 1) : Append(Front(C), u)[i] = C[i]
        BY <2>1, <4>2, AppendProperties
      <4> DEFINE D == Append(Front(C), u)
      <4> HIDE DEF D, u
      <4>4. ASSUME NEW q \in 1..Len(D) PROVE \E i \in 1..Len(both) : both[i].op = D[q].op
        <5>1. CASE q = Len(C)
          <6>1. D[q].op = c.op
            BY <4>2, <4>3, <5>1 DEF D
          <6> QED
            BY <2>4, <6>1
        <5>2. CASE q # Len(C)
          <6>1. q \in 1..(Len(C) - 1) /\ q \in 1..Len(C)
            BY <2>1, <4>3, <5>2 DEF D
          <6>2. D[q] = C[q]
            BY <4>3, <6>1 DEF D
          <6> QED
            BY <2>3, <6>1, <6>2
        <5> QED
          BY <5>1, <5>2
      <4> QED
        BY <4>1, <4>4 DEF D
    <3>3. CASE C # <<>> /\ c.op # "DELETE" /\ ~(c.op = "UPDATE" /\ Last(C).op = "UPDATE")
      <4>1. CombineStep(C, c) = Append(C, c)
        BY <3>3 DEF CombineStep
      <4>2. /\ Len(Append(C, c)) = Len(C) + 1 /\ Append(C, c)[Len(C) + 1] = c
            /\ \A i \in 1..Len(C) : Append(C, c)[i] = C[i]
        BY <2>1, AppendProperties
      <4> DEFINE D == Append(C, c)
      <4> HIDE DEF D
      <4>3. ASSUME NEW q \in 1..Len(D) PROVE \E i \in 1..Len(both) : both[i].op = D[q].op
        <5>1. CASE q = Len(C) + 1
          <6>1. D[q].op = c.op
            BY <4>2, <5>1 DEF D
          <6> QED
            BY <2>4, <6>1
        <5>2. CASE q # Len(C) + 1
          <6>1. q \in 1..Len(C)
            BY <2>1, <4>2, <5>2 DEF D
          <6>2. D[q] = C[q]
            BY <4>2, <6>1 DEF D
          <6> QED
            BY <2>3, <6>1, <6>2
        <5> QED
          BY <5>1, <5>2
      <4> QED
        BY <4>1, <4>3 DEF D
    <3> QED
      BY <3>1, <3>2, <3>3
  <2> QED
    BY <2>1, <2>2, <2>5 DEF both
<1> HIDE DEF S
<1>3. \A rs \in Seq(Records) : rs \in S
  BY <1>1, <1>2, SeqInduction
<1> QED
  BY <1>3 DEF S

(* rs are the changes after change a. *)
Run(rs, a) == a + Len(rs) <= Len(log) /\ \A i \in 1..Len(rs) : rs[i] = log[a + i]

(* C stands for the changes after a up to m: each record is a change but for   *)
(* its diff, an UPDATE stands for the updates since the record before it, and  *)
(* its diff has theirs.                                                        *)
Since(C, q, a) == IF q = 1 THEN a ELSE C[q - 1].n
Like(c, r) == c.op = r.op /\ c.n = r.n /\ c.date = r.date /\ (Named => c.x = r.x)
Part(C, a, m) ==
  /\ C = <<>> => m = a
  /\ C # <<>> => C[Len(C)].n = m
  /\ \A q \in 1..Len(C) :
       /\ C[q].n \in (a + 1)..m /\ Since(C, q, a) < C[q].n /\ Like(C[q], log[C[q].n])
       /\ C[q].op = "UPDATE" =>
            /\ "x" \in C[q].diff \/ C[q].diff = {"updatedDate", "meta"}
            /\ \A i \in (Since(C, q, a) + 1)..C[q].n :
                 log[i].op = "UPDATE" /\ log[i].diff \subseteq C[q].diff

(* The facts about the log that the lemmas use. *)
GoodLog == log \in Seq(Records) /\ LogInv

LEMMA LogFacts ==
  ASSUME GoodLog
  PROVE  /\ Len(log) \in Nat /\ DOMAIN log = 1..Len(log)
         /\ \A n \in 1..Len(log) :
              /\ log[n] \in Records /\ log[n].n = n
              /\ log[n].op \in Ops /\ log[n].x \in Nat /\ log[n].date \in Nat
              /\ log[n].op = "UPDATE" =>
                   "x" \in log[n].diff \/ log[n].diff = {"updatedDate", "meta"}
<1>1. Len(log) \in Nat /\ DOMAIN log = 1..Len(log) /\ \A n \in 1..Len(log) : log[n] \in Records
  BY LenProperties, ElementOfSeq DEF GoodLog
<1>2. \A n \in 1..Len(log) : log[n].op \in Ops /\ log[n].x \in Nat /\ log[n].date \in Nat
  BY <1>1, RecordFields
<1> QED
  BY <1>1, <1>2 DEF GoodLog, LogInv

LEMMA CombinePart ==
  ASSUME GoodLog, NEW a \in Nat
  PROVE  \A rs \in Seq(Records) : Run(rs, a) => Part(CombineRecords(rs), a, a + Len(rs))
<1> DEFINE S == {rs \in Seq(Records) : Run(rs, a) => Part(CombineRecords(rs), a, a + Len(rs))}
<1>1. <<>> \in S
  <2>1. <<>> \in Seq(Records) /\ CombineRecords(<<>>) = <<>> /\ Len(<<>>) = 0
    BY CombineFacts
  <2>2. Part(<<>>, a, a + 0)
    BY <2>1 DEF Part
  <2> QED
    BY <2>1, <2>2
<1>2. ASSUME NEW rs \in Seq(Records), NEW c \in Records, rs \in S, Run(Append(rs, c), a)
      PROVE  Part(CombineRecords(Append(rs, c)), a, a + Len(Append(rs, c)))
  <2> DEFINE C == CombineRecords(rs)
             both == Append(rs, c)
             m == a + Len(rs)
             n == m + 1
  <2>1. C \in Seq(Records) /\ CombineRecords(both) = CombineStep(C, c) /\ Len(C) \in Nat
    BY CombineFacts, LenProperties
  <2>2. /\ both \in Seq(Records) /\ Len(both) = Len(rs) + 1 /\ both[Len(rs) + 1] = c
        /\ \A i \in 1..Len(rs) : both[i] = rs[i]
        /\ Len(rs) \in Nat
    BY AppendProperties, LenProperties
  <2>3. Run(rs, a)
    BY <1>2, <2>2, LogFacts DEF Run
  <2>4. Part(C, a, m)
    BY <1>2, <2>3
  <2>5. n \in 1..Len(log) /\ c = log[n] /\ a + Len(both) = n /\ m \in Nat /\ n = m + 1 /\ a <= m
    BY <1>2, <2>2, LogFacts DEF Run
  <2>6. c.n = n /\ Like(c, log[n])
          /\ (c.op = "UPDATE" => "x" \in c.diff \/ c.diff = {"updatedDate", "meta"})
    BY <2>5, LogFacts DEF Like
  <2> HIDE DEF C, both, m, n
  <2>7. Part(CombineStep(C, c), a, n)
    <3>1. CASE C = <<>> \/ c.op = "DELETE"
      <4>1. CombineStep(C, c) = <<c>> /\ Len(<<c>>) = 1 /\ <<c>>[1] = c /\ <<c>> # <<>>
        BY <3>1 DEF CombineStep
      <4>2. c.op = "UPDATE" => m = a
        BY <2>4, <3>1 DEF Part
      <4>3. Since(<<c>>, 1, a) = a
        BY DEF Since
      <4>4. c.op = "UPDATE" => \A i \in (a + 1)..n : i = n
        BY <2>5, <4>2
      <4>5. n \in (a + 1)..n /\ a < n
        BY <2>5
      <4>6. c.op = "UPDATE" => \A i \in (a + 1)..n : log[i].op = "UPDATE" /\ log[i].diff \subseteq c.diff
        BY <2>5, <4>4
      <4> DEFINE D == <<c>>
      <4>7. D # <<>> /\ Len(D) = 1 /\ D[1] = c /\ Since(D, 1, a) = a
        BY <4>1, <4>3
      <4> HIDE DEF D
      <4>8. \A q \in 1..Len(D) : q = 1
        BY <4>7
      <4>9. Part(D, a, n)
        BY <2>6, <4>5, <4>6, <4>7, <4>8 DEF Part
      <4> QED
        BY <4>1, <4>9 DEF D
    <3>2. CASE C # <<>> /\ c.op = "UPDATE" /\ Last(C).op = "UPDATE"
      <4> DEFINE l == Last(C)
                 u == Merged(c, l)
                 D == Append(Front(C), u)
                 L == Len(C)
      <4>1. CombineStep(C, c) = D
        BY <3>2 DEF CombineStep, Merged
      <4>2. /\ Front(C) \in Seq(Records) /\ Len(Front(C)) = L - 1
            /\ \A i \in 1..(L - 1) : Front(C)[i] = C[i]
            /\ u \in Records /\ u.op = c.op /\ u.n = c.n /\ u.date = c.date
            /\ c.x # 0 => u.x = c.x
            /\ u.diff = c.diff \cup l.diff
            /\ L \in Nat \ {0} /\ l = C[L] /\ l \in Records
        BY <2>1, <3>2, FrontLast, MergedFacts
      <4>3. /\ D \in Seq(Records) /\ Len(D) = L /\ D[L] = u /\ D # <<>>
            /\ \A i \in 1..(L - 1) : D[i] = C[i]
        BY <4>2, AppendProperties
      <4> HIDE DEF D, L, l, u
      <4>4. l.n = m /\ l.op = "UPDATE"
        BY <2>4, <3>2, <4>2 DEF Part, L, l
      <4>5. \A q \in 1..L : Since(D, q, a) = Since(C, q, a)
        <5> TAKE q \in 1..L
        <5>1. q # 1 => q - 1 \in 1..(L - 1)
          BY <4>2
        <5> QED
          BY <4>3, <5>1 DEF Since
      <4>6. ASSUME NEW q \in 1..(L - 1)
            PROVE  /\ D[q] = C[q] /\ q \in 1..Len(C)
                   /\ \A k \in (a + 1)..m : k \in (a + 1)..n
        BY <2>5, <4>2, <4>3 DEF L
      <4>7. /\ Since(C, L, a) < m
            /\ "x" \in l.diff \/ l.diff = {"updatedDate", "meta"}
            /\ \A i \in (Since(C, L, a) + 1)..m : log[i].op = "UPDATE" /\ log[i].diff \subseteq l.diff
        <5>1. L \in 1..Len(C)
          BY <4>2 DEF L
        <5> QED
          BY <2>4, <4>2, <4>4, <5>1 DEF Part
      <4>8. Since(C, L, a) \in Nat
        <5>1. L # 1 => L - 1 \in 1..Len(C)
          BY <4>2 DEF L
        <5>2. L # 1 => C[L - 1].n \in (a + 1)..m
          BY <2>4, <5>1 DEF Part
        <5> QED
          BY <2>5, <5>2 DEF Since
      <4>9. /\ u.n \in (a + 1)..n /\ Since(D, L, a) < u.n /\ Like(u, log[u.n])
            /\ "x" \in u.diff \/ u.diff = {"updatedDate", "meta"}
        <5>1. L \in 1..L
          BY <4>2
        <5>2. Since(D, L, a) = Since(C, L, a)
          BY <4>5, <5>1
        <5>3. u.n = n /\ n \in (a + 1)..n
          BY <2>5, <2>6, <4>2
        <5>4. "x" \in u.diff \/ u.diff = {"updatedDate", "meta"}
          BY <2>6, <3>2, <4>2, <4>7
        <5>5. Named => u.x = c.x
          BY <2>5, <3>2, <4>2, LogFacts DEF Named
        <5> QED
          BY <2>5, <2>6, <4>2, <4>7, <4>8, <5>2, <5>3, <5>4, <5>5 DEF Like
      <4>10. \A i \in (Since(D, L, a) + 1)..u.n :
               log[i].op = "UPDATE" /\ log[i].diff \subseteq u.diff
        <5>1. L \in 1..L
          BY <4>2
        <5>2. Since(D, L, a) = Since(C, L, a)
          BY <4>5, <5>1
        <5>3. \A i \in (Since(D, L, a) + 1)..u.n : i \in (Since(C, L, a) + 1)..m \/ i = n
          BY <2>5, <2>6, <4>2, <4>8, <5>2
        <5> QED
          BY <2>5, <3>2, <4>2, <4>7, <5>3
      <4>11. ASSUME NEW q \in 1..Len(D)
             PROVE  /\ D[q].n \in (a + 1)..n /\ Since(D, q, a) < D[q].n /\ Like(D[q], log[D[q].n])
                    /\ D[q].op = "UPDATE" =>
                         /\ "x" \in D[q].diff \/ D[q].diff = {"updatedDate", "meta"}
                         /\ \A i \in (Since(D, q, a) + 1)..D[q].n :
                              log[i].op = "UPDATE" /\ log[i].diff \subseteq D[q].diff
        <5>1. CASE q = L
          BY <4>3, <4>9, <4>10, <5>1
        <5>2. CASE q # L
          <6>1. q \in 1..(L - 1) /\ q \in 1..L
            BY <4>2, <4>3, <5>2
          <6>2. D[q] = C[q] /\ Since(D, q, a) = Since(C, q, a) /\ q \in 1..Len(C)
                  /\ \A k \in (a + 1)..m : k \in (a + 1)..n
            BY <4>5, <4>6, <6>1
          <6> QED
            BY <2>4, <6>2 DEF Part
        <5> QED
          BY <5>1, <5>2
      <4>12. D[Len(D)].n = n
        BY <2>6, <4>2, <4>3
      <4> QED
        BY <4>1, <4>3, <4>11, <4>12 DEF Part
    <3>3. CASE C # <<>> /\ c.op # "DELETE" /\ ~(c.op = "UPDATE" /\ Last(C).op = "UPDATE")
      <4> DEFINE D == Append(C, c)
                 L == Len(C)
      <4>1. CombineStep(C, c) = D
        BY <3>3 DEF CombineStep
      <4>2. /\ D \in Seq(Records) /\ Len(D) = L + 1 /\ D[L + 1] = c /\ D # <<>>
            /\ \A i \in 1..L : D[i] = C[i]
            /\ L \in Nat \ {0} /\ C[L].n = m
        BY <2>1, <2>4, <3>3, AppendProperties, FrontLast DEF Part
      <4> HIDE DEF D
      <4>3. \A q \in 1..L : Since(D, q, a) = Since(C, q, a)
        <5> TAKE q \in 1..L
        <5>1. q # 1 => q - 1 \in 1..L
          BY <4>2
        <5> QED
          BY <4>2, <5>1 DEF Since
      <4>4. Since(D, L + 1, a) = m
        <5>1. L \in 1..L /\ L + 1 # 1 /\ (L + 1) - 1 = L
          BY <4>2
        <5> QED
          BY <4>2, <5>1 DEF Since
      <4>5. ASSUME NEW q \in 1..Len(D)
            PROVE  /\ D[q].n \in (a + 1)..n /\ Since(D, q, a) < D[q].n /\ Like(D[q], log[D[q].n])
                   /\ D[q].op = "UPDATE" =>
                        /\ "x" \in D[q].diff \/ D[q].diff = {"updatedDate", "meta"}
                        /\ \A i \in (Since(D, q, a) + 1)..D[q].n :
                             log[i].op = "UPDATE" /\ log[i].diff \subseteq D[q].diff
        <5>1. CASE q = L + 1
          <6>1. n \in (a + 1)..n /\ m < n /\ \A i \in (m + 1)..n : i = n
            BY <2>5
          <6> QED
            BY <2>5, <2>6, <4>2, <4>4, <5>1, <6>1
        <5>2. CASE q # L + 1
          <6>1. q \in 1..L /\ \A k \in (a + 1)..m : k \in (a + 1)..n
            BY <2>5, <4>2, <5>2
          <6>2. D[q] = C[q] /\ Since(D, q, a) = Since(C, q, a)
            BY <4>2, <4>3, <6>1
          <6> QED
            BY <2>4, <6>1, <6>2 DEF Part
        <5> QED
          BY <5>1, <5>2
      <4>6. D[Len(D)].n = n
        BY <2>6, <4>2
      <4> QED
        BY <4>1, <4>2, <4>5, <4>6 DEF Part
    <3> QED
      BY <3>1, <3>2, <3>3
  <2> QED
    BY <2>1, <2>5, <2>7 DEF both
<1>3. ASSUME NEW rs \in Seq(Records), NEW c \in Records, rs \in S PROVE Append(rs, c) \in S
  BY <1>2, <1>3, AppendProperties
<1> HIDE DEF S
<1>4. \A rs \in Seq(Records) : rs \in S
  BY <1>1, <1>3, SeqInduction
<1> QED
  BY <1>4 DEF S

-----------------------------------------------------------------------------
(* What the statements of a batch do to a row that is At some change. *)

(* Under Regular the date of an insert or update is its number. *)
LEMMA DatedFacts ==
  ASSUME GoodLog, Regular, NEW n \in 1..Len(log), log[n].op # "DELETE"
  PROVE  log[n].date = n /\ log[n].x # 0
<1>1. log[n].op \in {"INSERT", "UPDATE"} /\ n \in DOMAIN log
  BY LogFacts DEF Ops
<1> QED
  BY <1>1 DEF GoodLog, LogInv, Regular, Dated, Named

(* Updates that do not change x. *)
LEMMA NoiseRun ==
  ASSUME GoodLog, NEW j \in Nat, NEW n \in Nat, j < n, n <= Len(log),
         \A i \in (j + 1)..n : log[i].op = "UPDATE" /\ "x" \notin log[i].diff
  PROVE  /\ j # 0 /\ log[j].op # "DELETE"
         /\ log[n].x = log[j].x /\ log[n].op # "DELETE"
<1> DEFINE N == n - j
           S == {k \in Nat : log[j + k].x = log[j].x}
<1>1. N \in Nat /\ j + N = n /\ Len(log) \in Nat
  BY LogFacts
<1>2. 0 \in S
  BY <1>1
<1>3. ASSUME NEW k \in 0..(N - 1), k \in S PROVE k + 1 \in S
  <2> DEFINE i == j + (k + 1)
  <2>1. i \in (j + 1)..n /\ i \in 1..Len(log) /\ i - 1 = j + k /\ k + 1 \in Nat
    BY <1>1
  <2>2. log[i].op = "UPDATE" /\ "x" \notin log[i].diff
    BY <2>1
  <2> HIDE DEF i
  <2>3. log[i].x = log[i - 1].x
    BY <2>1, <2>2, LogFacts DEF GoodLog, LogInv
  <2> QED
    BY <1>3, <2>1, <2>3 DEF i
<1>4. N \in S
  <2> HIDE DEF S
  <2>1. \A k \in 0..N : k \in S
    BY <1>1, <1>2, <1>3, Induction
  <2>2. N \in 0..N
    BY <1>1
  <2> QED
    BY <2>1, <2>2
<1>5. j + 1 \in (j + 1)..n /\ j + 1 \in 1..Len(log) /\ (j + 1) - 1 = j /\ n \in (j + 1)..n
  BY <1>1
<1>6. j + 1 # 1 /\ log[j].op # "DELETE"
  <2> DEFINE i == j + 1
  <2>1. log[i].op = "UPDATE" /\ i \in DOMAIN log /\ i - 1 = j
    BY <1>5, LogFacts
  <2> HIDE DEF i
  <2>2. i # 1 /\ log[i - 1].op # "DELETE"
    BY <2>1 DEF GoodLog, LogInv
  <2> QED
    BY <2>1, <2>2 DEF i
<1> QED
  BY <1>1, <1>4, <1>5, <1>6

(* A row that was merged from change n. *)
LEMMA AtMerged ==
  ASSUME GoodLog, Regular, NEW n \in 1..Len(log), log[n].op # "DELETE"
  PROVE  At([there |-> TRUE, x |-> log[n].x, date |-> log[n].date], n)
<1>1. log[n].date = n /\ n # 0 /\ n \in 1..n
  BY DatedFacts, LogFacts
<1> QED
  BY <1>1 DEF At

LEMMA AtNoRow ==
  ASSUME NEW n, n = 0 \/ log[n].op = "DELETE"
  PROVE  At(NoRow, n)
<1>1. NoRow.there = FALSE
  BY DEF NoRow
<1>2. (n # 0 /\ log[n].op # "DELETE") = FALSE
  OBVIOUS
<1> QED
  BY <1>1, <1>2 DEF At

(* A statement of a change takes the row there, or leaves it. *)
LEMMA MergeReaches ==
  ASSUME GoodLog, Regular, NEW r \in Rows, NEW a \in Nat, Reaches(r, a),
         NEW c \in Records, NEW n \in 1..Len(log), Like(c, log[n]), c.op # "DELETE"
  PROVE  /\ n >= a => Reaches(ApplyMerge(r, Mrg(c)), a)
         /\ Reaches(ApplyMerge(r, Mrg(c)), n)
<1> DEFINE M == ApplyMerge(r, Mrg(c))
<1>1. /\ c.x = log[n].x /\ c.date = log[n].date /\ log[n].op # "DELETE" /\ log[n].date = n
      /\ c.x # 0
  BY DatedFacts DEF Like, Regular
<1>2. Len(log) \in Nat
  BY LogFacts
<1>3. CASE ~r.there \/ c.date > r.date
  <2>1. M = [there |-> TRUE, x |-> log[n].x, date |-> log[n].date]
    BY <1>1, <1>3, ApplyMrg
  <2>2. At(M, n)
    BY <1>1, <2>1, AtMerged
  <2>3. n \in n..Len(log) /\ (n >= a => n \in a..Len(log))
    BY <1>2
  <2> HIDE DEF M
  <2>4. Reaches(M, n) /\ (n >= a => Reaches(M, a))
    BY <2>2, <2>3 DEF Reaches
  <2> QED
    BY <2>4 DEF M
<1>4. CASE ~(~r.there \/ c.date > r.date)
  <2>1. M = r
    BY <1>4, ApplyMrg
  <2>2. PICK j \in a..Len(log) : At(r, j)
    BY DEF Reaches
  <2>3. r.there /\ r.date >= n /\ r.date \in 1..j
    BY <1>1, <1>4, <2>2, RowFields DEF At
  <2>4. j \in n..Len(log)
    BY <1>2, <2>3
  <2>5. Reaches(r, n)
    BY <2>2, <2>4 DEF Reaches
  <2> QED
    BY <2>1, <2>5
<1> QED
  BY <1>3, <1>4

(* The statements of a record that stands for the changes after s. *)
LEMMA RecReaches ==
  ASSUME GoodLog, Regular, NEW r \in Rows, NEW s \in Nat, Reaches(r, s),
         NEW c \in Records, NEW n \in 1..Len(log), s < n, Like(c, log[n]),
         c.op = "UPDATE" =>
           /\ "x" \in c.diff \/ c.diff = {"updatedDate", "meta"}
           /\ \A i \in (s + 1)..n : log[i].op = "UPDATE" /\ log[i].diff \subseteq c.diff,
         NEW seen \in BOOLEAN
  PROVE  Reaches(ApplyRec(r, c, seen), n)
<1>1. Len(log) \in Nat /\ n \in n..Len(log)
  BY LogFacts
<1>2. CASE Noise(c)
  <2>1. c.op = "UPDATE" /\ "x" \notin c.diff
    BY <1>2 DEF Noise
  <2>2. ApplyRec(r, c, seen) = r
    BY <1>2 DEF ApplyRec
  <2>3. PICK j \in s..Len(log) : At(r, j)
    BY DEF Reaches
  <2>4. CASE j >= n
    <3>1. j \in n..Len(log)
      BY <1>1, <2>4
    <3> QED
      BY <2>2, <2>3, <3>1 DEF Reaches
  <2>5. CASE j < n
    <3>1. j \in Nat /\ n \in Nat /\ n <= Len(log) /\ \A i \in (j + 1)..n : i \in (s + 1)..n
      BY <1>1
    <3>2. \A i \in (j + 1)..n : log[i].op = "UPDATE" /\ "x" \notin log[i].diff
      BY <2>1, <3>1
    <3>3. /\ j # 0 /\ log[j].op # "DELETE"
          /\ log[n].x = log[j].x /\ log[n].op # "DELETE"
      BY <2>5, <3>1, <3>2, NoiseRun
    <3>4. 1..j \subseteq 1..n /\ n # 0
      BY <2>5, <3>1
    <3>5. At(r, n)
      BY <2>3, <3>3, <3>4 DEF At
    <3> QED
      BY <1>1, <2>2, <3>5 DEF Reaches
  <2> QED
    BY <2>4, <2>5, <1>1
<1>3. CASE ~Noise(c) /\ c.op = "DELETE"
  <2>1. ApplyRec(r, c, seen) = NoRow /\ At(NoRow, n)
    BY <1>3, AtNoRow DEF ApplyRec, Like
  <2> QED
    BY <1>1, <2>1 DEF Reaches
<1>4. CASE ~Noise(c) /\ c.op = "INSERT" /\ seen
  <2>1. ApplyRec(r, c, seen) = ApplyMerge(NoRow, Mrg(c))
    BY <1>4 DEF ApplyRec
  <2>2. ApplyMerge(NoRow, Mrg(c)) = [there |-> TRUE, x |-> log[n].x, date |-> log[n].date]
    BY NoRowType, ApplyMrg DEF Like, Regular
  <2>3. At(ApplyMerge(NoRow, Mrg(c)), n)
    BY <1>4, <2>2, AtMerged DEF Like
  <2> QED
    BY <1>1, <2>1, <2>3 DEF Reaches
<1>5. CASE ~Noise(c) /\ c.op # "DELETE" /\ ~(c.op = "INSERT" /\ seen)
  <2>1. ApplyRec(r, c, seen) = ApplyMerge(r, Mrg(c))
    BY <1>5 DEF ApplyRec
  <2> QED
    BY <1>5, <2>1, MergeReaches
<1> QED
  BY <1>2, <1>3, <1>4, <1>5

(* Records that are changes after a, up to their diff. *)
Changes(C, a) == \A q \in 1..Len(C) : C[q].n \in (a + 1)..Len(log) /\ Like(C[q], log[C[q].n])

(* A forced DELETE takes the row back to before the INSERT, not further. *)
LEMMA StmtReaches ==
  ASSUME GoodLog, Regular, NEW a \in Nat, NEW C \in Seq(Records), Changes(C, a),
         NEW r \in Rows, Reaches(r, a), NEW s, StmtOf(s, C)
  PROVE  Reaches(ApplyStmt(r, s), a)
<1>1. PICK q \in 1..Len(C) : \/ s = Del(C[q]) /\ C[q].op \in {"INSERT", "DELETE"}
                             \/ s = Mrg(C[q]) /\ C[q].op # "DELETE"
  BY DEF StmtOf
<1> DEFINE c == C[q]
           n == c.n
<1>2. c \in Records /\ n \in (a + 1)..Len(log) /\ Like(c, log[n]) /\ Len(log) \in Nat
  BY LogFacts, LenProperties, ElementOfSeq DEF Changes
<1>3. n \in 1..Len(log) /\ n \in a..Len(log) /\ n - 1 \in a..Len(log) /\ n >= a
  BY <1>2
<1> HIDE DEF c, n
<1>4. CASE s = Del(c) /\ c.op = "DELETE"
  <2>1. ApplyStmt(r, s) = NoRow /\ At(NoRow, n)
    BY <1>2, <1>4, ApplyMrg, AtNoRow DEF Like
  <2> QED
    BY <1>3, <2>1 DEF Reaches
<1>5. CASE s = Del(c) /\ c.op = "INSERT"
  <2>1. n = 1 \/ log[n - 1].op = "DELETE"
    BY <1>2, <1>3, <1>5, LogFacts DEF Like, GoodLog, LogInv
  <2>2. n - 1 = 0 \/ log[n - 1].op = "DELETE"
    BY <1>3, <2>1
  <2>3. ApplyStmt(r, s) = NoRow /\ At(NoRow, n - 1)
    BY <1>2, <1>5, <2>2, ApplyMrg, AtNoRow
  <2> QED
    BY <1>3, <2>3 DEF Reaches
<1>6. CASE s = Mrg(c) /\ c.op # "DELETE"
  <2>1. ApplyStmt(r, s) = ApplyMerge(r, Mrg(c))
    BY <1>2, <1>6, ApplyMrg
  <2> QED
    BY <1>2, <1>3, <1>6, <2>1, MergeReaches
<1> QED
  BY <1>1, <1>4, <1>5, <1>6 DEF c

(* Statements of changes after a, any of them, never take the row behind a. *)
LEMMA StmtsReach ==
  ASSUME GoodLog, Regular, NEW a \in Nat, NEW C \in Seq(Records), Changes(C, a),
         NEW r \in Rows, Reaches(r, a)
  PROVE  \A ss \in Seq(Stmts) :
           (\A i \in 1..Len(ss) : StmtOf(ss[i], C)) => Reaches(ApplyAll(r, ss), a)
<1> DEFINE S == {ss \in Seq(Stmts) :
                   (\A i \in 1..Len(ss) : StmtOf(ss[i], C)) => Reaches(ApplyAll(r, ss), a)}
<1>1. <<>> \in S
  BY ApplyAllFacts
<1>2. ASSUME NEW ss \in Seq(Stmts), NEW s \in Stmts, ss \in S PROVE Append(ss, s) \in S
  <2> DEFINE both == Append(ss, s)
  <2>1. /\ both \in Seq(Stmts) /\ Len(both) = Len(ss) + 1 /\ both[Len(ss) + 1] = s
        /\ \A i \in 1..Len(ss) : both[i] = ss[i]
        /\ Len(ss) \in Nat
    BY AppendProperties, LenProperties
  <2>2. ASSUME \A i \in 1..Len(both) : StmtOf(both[i], C) PROVE Reaches(ApplyAll(r, both), a)
    <3>1. Len(ss) + 1 \in 1..Len(both) /\ \A i \in 1..Len(ss) : i \in 1..Len(both)
      BY <2>1
    <3>2. StmtOf(s, C) /\ \A i \in 1..Len(ss) : StmtOf(ss[i], C)
      BY <2>1, <2>2, <3>1
    <3>3. Reaches(ApplyAll(r, ss), a) /\ ApplyAll(r, ss) \in Rows
      BY <1>2, <3>2, ApplyAllFacts
    <3>4. ApplyAll(r, both) = ApplyStmt(ApplyAll(r, ss), s)
      BY ApplyAllFacts
    <3> HIDE DEF both
    <3> QED
      BY <3>2, <3>3, <3>4, StmtReaches
  <2> QED
    BY <2>1, <2>2
<1> HIDE DEF S
<1>3. \A ss \in Seq(Stmts) : ss \in S
  BY <1>1, <1>2, SeqInduction
<1> QED
  BY <1>3 DEF S

(* The statements of C, all of them or the first k: a flush that fails. *)
LEMMA PrefixReaches ==
  ASSUME GoodLog, Regular, NEW a \in Nat, NEW C \in Seq(Records), Changes(C, a),
         NEW r \in Rows, Reaches(r, a), NEW seen \in BOOLEAN,
         NEW k \in 0..Len(Query(C, seen))
  PROVE  /\ SubSeq(Query(C, seen), 1, k) \in Seq(Stmts)
         /\ Reaches(ApplyAll(r, SubSeq(Query(C, seen), 1, k)), a)
         /\ Reaches(ApplyAll(r, Query(C, seen)), a)
<1> DEFINE sql == Query(C, seen)
           p == SubSeq(sql, 1, k)
<1>1. sql \in Seq(Stmts) /\ Len(sql) \in Nat /\ \A i \in 1..Len(sql) : StmtOf(sql[i], C) /\ sql[i] \in Stmts
  BY QueryFacts, QueryStmts, LenProperties, ElementOfSeq
<1>2. k \in Nat /\ k <= Len(sql)
  BY <1>1
<1> HIDE DEF sql
<1>3. p \in Seq(Stmts) /\ Len(p) = k /\ \A i \in 1..k : p[i] = sql[i]
  BY <1>1, <1>2, SubSeqProperties
<1>4. \A i \in 1..k : i \in 1..Len(sql)
  BY <1>1, <1>2
<1> HIDE DEF p
<1>5. \A i \in 1..Len(p) : StmtOf(p[i], C)
  BY <1>1, <1>3, <1>4
<1>6. Reaches(ApplyAll(r, p), a) /\ Reaches(ApplyAll(r, sql), a)
  BY <1>1, <1>3, <1>5, StmtsReach
<1> QED
  BY <1>3, <1>6 DEF p, sql

LEMMA PartChanges ==
  ASSUME GoodLog, NEW a \in Nat, NEW m \in Nat, m <= Len(log), NEW C, Part(C, a, m)
  PROVE  Changes(C, a)
<1>1. \A k \in (a + 1)..m : k \in (a + 1)..Len(log)
  BY LogFacts
<1> QED
  BY <1>1 DEF Part, Changes

(* All statements of a batch take the row to its last change or beyond. *)
LEMMA QueryReaches ==
  ASSUME GoodLog, Regular, NEW a \in Nat, NEW m \in Nat, m <= Len(log),
         NEW C \in Seq(Records), Part(C, a, m), NEW r \in Rows, Reaches(r, a), NEW seen \in BOOLEAN
  PROVE  Reaches(ApplyAll(r, Query(C, seen)), m)
<1> DEFINE L == Len(C)
           P(q) == SubSeq(C, 1, q)
           To(q) == IF q = 0 THEN a ELSE C[q].n
           S == {q \in Nat : Reaches(ApplyAll(r, Query(P(q), seen)), To(q))}
<1>1. L \in Nat /\ Len(log) \in Nat /\ \A q \in 1..L : C[q] \in Records
  BY LenProperties, ElementOfSeq, LogFacts
<1>2. 0 \in S
  <2>1. P(0) = <<>>
    BY <1>1
  <2>2. Query(P(0), seen) = <<>>
    BY <2>1, QueryFacts
  <2>3. ApplyAll(r, Query(P(0), seen)) = r
    BY <2>2, ApplyAllFacts
  <2>4. To(0) = a
    OBVIOUS
  <2> HIDE DEF P, To
  <2> QED
    BY <2>3, <2>4
<1>3. ASSUME NEW q \in 0..(L - 1), q \in S PROVE q + 1 \in S
  <2> DEFINE R == ApplyAll(r, Query(P(q), seen))
             c == C[q + 1]
             n == c.n
  <2>1. q \in Nat /\ q + 1 \in Nat /\ q + 1 \in 1..L /\ (q + 1) - 1 = q /\ q + 1 # 0 /\ (q + 1 = 1 <=> q = 0)
    BY <1>1
  <2>2. P(q) \in Seq(Records) /\ P(q + 1) = Append(P(q), c)
    BY <1>1, SubSeqAppend
  <2>3. Reaches(R, To(q)) /\ To(q + 1) = n /\ Since(C, q + 1, a) = To(q)
    BY <1>3, <2>1 DEF Since
  <2>4. c \in Records
    BY <1>1, <2>1
  <2>5. To(q) \in Nat
    <3>1. q # 0 => q \in 1..L
      BY <1>1, <2>1
    <3>2. q # 0 => C[q].n \in (a + 1)..m
      BY <3>1 DEF Part
    <3> QED
      BY <3>2
  <2> HIDE DEF P, To
  <2>6. R \in Rows
    BY <2>2, QueryFacts, ApplyAllFacts
  <2>7. /\ n \in (a + 1)..m /\ To(q) < n /\ Like(c, log[n])
        /\ c.op = "UPDATE" =>
             /\ "x" \in c.diff \/ c.diff = {"updatedDate", "meta"}
             /\ \A i \in (To(q) + 1)..n : log[i].op = "UPDATE" /\ log[i].diff \subseteq c.diff
    BY <2>1, <2>3 DEF Part
  <2>8. n \in 1..Len(log)
    BY <1>1, <2>7
  <2>9. ApplyAll(r, Query(P(q + 1), seen)) = ApplyRec(R, c, seen)
    BY <2>2, <2>4, ApplyQuery
  <2> HIDE DEF R, c, n
  <2>10. Reaches(ApplyRec(R, c, seen), n)
    BY <2>3, <2>4, <2>5, <2>6, <2>7, <2>8, RecReaches
  <2> QED
    BY <2>1, <2>3, <2>9, <2>10
<1>4. L \in S
  <2> HIDE DEF S
  <2>1. \A q \in 0..L : q \in S
    BY <1>1, <1>2, <1>3, Induction
  <2>2. L \in 0..L
    BY <1>1
  <2> QED
    BY <2>1, <2>2
<1>5. P(L) = C
  BY <1>1
<1>6. To(L) = m
  <2>1. C = <<>> <=> L = 0
    BY LenProperties, EmptySeq
  <2> QED
    BY <2>1 DEF Part
<1> QED
  BY <1>4, <1>5, <1>6

-----------------------------------------------------------------------------
(* Combined or one by one: the row ends up the same. *)

(* A difference in updatedDate that no change after m can see. *)
Same(r, v, m) ==
  /\ r.there = v.there /\ r.x = v.x
  /\ r.date = v.date \/ (r.date <= m /\ v.date <= m)

(* How many statements a record is. *)
Cost(c, seen) == IF Noise(c) THEN 0 ELSE IF c.op = "INSERT" /\ seen THEN 2 ELSE 1

LEMMA QueryLen ==
  ASSUME NEW rs \in Seq(Records), NEW c \in Records, NEW seen \in BOOLEAN
  PROVE  /\ Len(Query(rs, seen)) \in Nat
         /\ Len(Query(Append(rs, c), seen)) = Len(Query(rs, seen)) + Cost(c, seen)
<1> DEFINE sql == Query(rs, seen)
<1>1. sql \in Seq(Stmts) /\ Query(Append(rs, c), seen) = AddSql(sql, c, seen) /\ Len(sql) \in Nat
  BY QueryFacts, LenProperties
<1>2. Del(c) \in Stmts /\ Mrg(c) \in Stmts
  BY StmtFields
<1> HIDE DEF sql
<1>3. /\ Append(sql, Del(c)) \in Seq(Stmts) /\ Len(Append(sql, Del(c))) = Len(sql) + 1
      /\ Len(Append(sql, Mrg(c))) = Len(sql) + 1
  BY <1>1, <1>2, AppendProperties
<1>4. Len(Append(Append(sql, Del(c)), Mrg(c))) = Len(sql) + 2
  <2> DEFINE p == Append(sql, Del(c))
  <2>1. p \in Seq(Stmts) /\ Len(p) = Len(sql) + 1
    BY <1>3
  <2> HIDE DEF p
  <2>2. Len(Append(p, Mrg(c))) = Len(p) + 1
    BY <1>2, <2>1, AppendProperties
  <2> QED
    BY <1>1, <2>1, <2>2 DEF p
<1>5. AddSql(sql, c, seen) =
        IF Noise(c) THEN sql
        ELSE IF c.op = "DELETE" THEN Append(sql, Del(c))
        ELSE IF c.op = "INSERT" /\ seen THEN Append(Append(sql, Del(c)), Mrg(c))
        ELSE Append(sql, Mrg(c))
  BY <1>1, AddSqlCases
<1>6. Len(AddSql(sql, c, seen)) = Len(sql) + Cost(c, seen)
  BY <1>1, <1>3, <1>4, <1>5 DEF Cost
<1> QED
  BY <1>1, <1>6 DEF sql

(* A row that is At some change has the x of the change that dated it. *)
LEMMA ReachesX ==
  ASSUME NEW r, NEW a, Reaches(r, a), r.there
  PROVE  r.x = log[r.date].x
BY DEF Reaches, At

(* The same record on rows that are the same. *)
LEMMA SameStep ==
  ASSUME NEW r \in Rows, NEW v \in Rows, NEW m \in Nat, Same(r, v, m),
         NEW c \in Records, c.op # "DELETE" => c.date = m + 1, NEW seen \in BOOLEAN
  PROVE  Same(ApplyRec(r, c, seen), ApplyRec(v, c, seen), m + 1)
<1>1. r.date \in Nat /\ v.date \in Nat /\ c.date \in Nat /\ r.there = v.there
  BY RowFields, RecordFields DEF Same
<1>2. CASE Noise(c)
  BY <1>1, <1>2 DEF ApplyRec, Same
<1>3. CASE ~Noise(c) /\ (c.op = "DELETE" \/ (c.op = "INSERT" /\ seen))
  BY <1>3 DEF ApplyRec, Same
<1>4. CASE ~Noise(c) /\ c.op # "DELETE" /\ ~(c.op = "INSERT" /\ seen)
  <2>1. /\ ApplyRec(r, c, seen) = ApplyMerge(r, Mrg(c))
        /\ ApplyRec(v, c, seen) = ApplyMerge(v, Mrg(c))
    BY <1>4 DEF ApplyRec
  <2>2. (~r.there \/ c.date > r.date) <=> (~v.there \/ c.date > v.date)
    BY <1>1, <1>4 DEF Same
  <2>3. CASE ~r.there \/ c.date > r.date
    <3>0. r.there = v.there /\ r.x = v.x
      BY DEF Same
    <3>1. ApplyMerge(r, Mrg(c)) = ApplyMerge(v, Mrg(c))
      <4> DEFINE X(w) == IF w.there /\ c.x = 0 THEN w.x ELSE c.x
      <4>1. ApplyMerge(r, Mrg(c)) = [there |-> TRUE, x |-> X(r), date |-> c.date]
        BY <2>3, ApplyMrg
      <4>2. ApplyMerge(v, Mrg(c)) = [there |-> TRUE, x |-> X(v), date |-> c.date]
        BY <2>2, <2>3, ApplyMrg
      <4>3. X(r) = X(v)
        BY <3>0
      <4> HIDE DEF X
      <4> QED
        BY <4>1, <4>2, <4>3
    <3> QED
      BY <2>1, <3>1 DEF Same
  <2>4. CASE ~(~r.there \/ c.date > r.date)
    <3>1. ApplyMerge(r, Mrg(c)) = r /\ ApplyMerge(v, Mrg(c)) = v
      BY <2>2, <2>4, ApplyMrg
    <3> QED
      BY <1>1, <2>1, <3>1 DEF Same
  <2> QED
    BY <2>3, <2>4
<1> QED
  BY <1>2, <1>3, <1>4

(* An update l, then the update c after it; or only u, the two combined. *)
LEMMA SameMerged ==
  ASSUME GoodLog, Regular, NEW m \in Nat \ {0}, m + 1 <= Len(log),
         NEW r \in Rows, NEW z \in Rows, z.there => z.x = log[z.date].x,
         NEW l \in Records, NEW c \in Records, l.op = "UPDATE", c.op = "UPDATE",
         Like(l, log[m]), c = log[m + 1],
         "x" \in l.diff \/ l.diff = {"updatedDate", "meta"},
         NEW seen \in BOOLEAN, Same(r, ApplyRec(z, l, seen), m)
  PROVE  /\ Same(ApplyRec(r, c, seen), ApplyRec(z, Merged(c, l), seen), m + 1)
         /\ Cost(Merged(c, l), seen) <= Cost(l, seen) + Cost(c, seen)
<1> DEFINE u == Merged(c, l)
<1>1. m \in 1..Len(log) /\ m + 1 \in 1..Len(log) /\ (m + 1) - 1 = m
  BY LogFacts
<1>2. /\ "x" \in c.diff \/ c.diff = {"updatedDate", "meta"}
      /\ log[m].op # "DELETE" /\ log[m + 1].op # "DELETE"
      /\ l.x = log[m].x /\ l.date = log[m].date
  BY <1>1, LogFacts DEF Like, Regular
<1>3. l.date = m /\ c.date = m + 1 /\ l.x # 0 /\ c.x # 0
  BY <1>1, <1>2, DatedFacts
<1>4. /\ u \in Records /\ u.op = "UPDATE" /\ u.x = c.x /\ u.date = c.date
      /\ u.diff = c.diff \cup l.diff
  BY <1>3, MergedFacts
<1> HIDE DEF u
<1>5. /\ Noise(l) <=> "x" \notin l.diff
      /\ Noise(c) <=> "x" \notin c.diff
      /\ Noise(u) <=> Noise(l) /\ Noise(c)
  BY <1>2, <1>4 DEF Noise
<1>6. Cost(u, seen) <= Cost(l, seen) + Cost(c, seen)
  BY <1>4, <1>5 DEF Cost
<1>7. ASSUME NEW e \in Records, e.op = "UPDATE", NEW w \in Rows
      PROVE  ApplyRec(w, e, seen) = IF Noise(e) THEN w ELSE ApplyMerge(w, Mrg(e))
  BY <1>7 DEF ApplyRec
<1>8. z.date \in Nat /\ r.date \in Nat
  BY RowFields
<1>9. Same(ApplyRec(r, c, seen), ApplyRec(z, u, seen), m + 1)
  <2>1. CASE Noise(l)
    <3>1. ApplyRec(z, l, seen) = z
      BY <1>7, <2>1
    <3>2. Same(ApplyRec(r, c, seen), ApplyRec(z, c, seen), m + 1)
      BY <1>3, <3>1, SameStep
    <3>3. ApplyRec(z, u, seen) = ApplyRec(z, c, seen)
      <4>1. CASE Noise(c)
        BY <1>4, <1>5, <1>7, <2>1, <4>1
      <4>2. CASE ~Noise(c)
        <5>1. ApplyMerge(z, Mrg(u)) = ApplyMerge(z, Mrg(c))
          <6>1. CASE ~z.there \/ c.date > z.date
            <7>1. ApplyMerge(z, Mrg(c)) = [there |-> TRUE, x |-> c.x, date |-> c.date]
              BY <1>3, <6>1, ApplyMrg
            <7>2. ApplyMerge(z, Mrg(u)) = [there |-> TRUE, x |-> u.x, date |-> u.date]
              BY <1>3, <1>4, <6>1, ApplyMrg
            <7> QED
              BY <1>4, <7>1, <7>2
          <6>2. CASE ~(~z.there \/ c.date > z.date)
            BY <1>4, <6>2, ApplyMrg
          <6> QED
            BY <6>1, <6>2
        <5> QED
          BY <1>4, <1>5, <1>7, <4>2, <5>1
      <4> QED
        BY <4>1, <4>2
    <3> QED
      BY <3>2, <3>3
  <2>2. CASE ~Noise(l)
    <3>1. ApplyRec(z, l, seen) = ApplyMerge(z, Mrg(l)) /\ ApplyRec(z, u, seen) = ApplyMerge(z, Mrg(u))
      BY <1>4, <1>5, <1>7, <2>2
    <3>2. CASE ~z.there \/ m + 1 > z.date
      <4>1. ApplyRec(z, u, seen) = [there |-> TRUE, x |-> c.x, date |-> m + 1]
        BY <1>3, <1>4, <3>1, <3>2, ApplyMrg
      <4>2. /\ ApplyRec(z, l, seen).there = TRUE /\ ApplyRec(z, l, seen).x = l.x
            /\ ApplyRec(z, l, seen).date = m
        <5>1. CASE ~z.there \/ l.date > z.date
          BY <3>1, <5>1, <1>3, ApplyMrg
        <5>2. CASE ~(~z.there \/ l.date > z.date)
          <6>1. ApplyRec(z, l, seen) = z /\ z.there /\ z.date = m
            BY <1>3, <1>8, <3>1, <3>2, <5>2, ApplyMrg
          <6>2. z.there = TRUE
            BY <6>1, RowFields
          <6> QED
            BY <1>2, <6>1, <6>2
        <5> QED
          BY <5>1, <5>2
      <4>3. r.there = TRUE /\ r.x = l.x /\ r.date <= m
        BY <1>8, <4>2 DEF Same
      <4>4. CASE Noise(c)
        <5>1. ApplyRec(r, c, seen) = r
          BY <1>7, <4>4
        <5>2. log[m + 1].x = log[m].x
          <6> DEFINE i == m + 1
          <6>1. /\ i \in DOMAIN log /\ i - 1 = m /\ log[i].op = "UPDATE" /\ "x" \notin log[i].diff
            BY <1>1, <1>5, <4>4, LogFacts
          <6> HIDE DEF i
          <6>2. log[i].x \in {log[i - 1].x}
            BY <6>1 DEF GoodLog, LogInv
          <6> QED
            BY <6>1, <6>2 DEF i
        <5>3. r.x = c.x /\ r.date <= m + 1
          BY <1>2, <1>8, <4>3, <5>2
        <5> DEFINE w == ApplyRec(z, u, seen)
        <5>4. w.there = TRUE /\ w.x = c.x /\ w.date = m + 1
          BY <4>1
        <5>5. w.date <= m + 1
          BY <5>4
        <5> HIDE DEF w
        <5>6. Same(r, w, m + 1)
          BY <4>3, <5>3, <5>4, <5>5 DEF Same
        <5> QED
          BY <5>1, <5>6 DEF w
      <4>5. CASE ~Noise(c)
        <5>1. ApplyRec(r, c, seen) = [there |-> TRUE, x |-> c.x, date |-> m + 1]
          <6>1. c.date > r.date
            BY <1>3, <1>8, <4>3
          <6>2. ApplyRec(r, c, seen) = ApplyMerge(r, Mrg(c))
            BY <1>7, <4>5
          <6> QED
            BY <1>3, <6>1, <6>2, ApplyMrg
        <5> QED
          BY <4>1, <5>1 DEF Same
      <4> QED
        BY <4>4, <4>5
    <3>3. CASE ~(~z.there \/ m + 1 > z.date)
      <4>1. ApplyRec(z, u, seen) = z /\ ApplyRec(z, l, seen) = z
        BY <1>3, <1>4, <1>8, <3>1, <3>3, ApplyMrg
      <4>2. r.there /\ r.date = z.date /\ r.date >= m + 1
        BY <1>8, <3>3, <4>1 DEF Same
      <4>3. ApplyRec(r, c, seen) = r
        BY <1>3, <1>7, <1>8, <4>2, ApplyMrg
      <4> QED
        BY <4>1, <4>2, <4>3 DEF Same
    <3> QED
      BY <3>2, <3>3
  <2> QED
    BY <2>1, <2>2
<1> QED
  BY <1>6, <1>9 DEF u

(* The records rs and what they are combined into. *)
Equivalent(r, rs, seen, m) ==
  /\ Same(ApplyAll(r, Query(rs, seen)), ApplyAll(r, Query(CombineRecords(rs), seen)), m)
  /\ Len(Query(CombineRecords(rs), seen)) <= Len(Query(rs, seen))

LEMMA CombineEquivalent ==
  ASSUME GoodLog, Regular, NEW a \in Nat, NEW r \in Rows, Reaches(r, a), NEW seen \in BOOLEAN
  PROVE  \A rs \in Seq(Records) : Run(rs, a) => Equivalent(r, rs, seen, a + Len(rs))
<1> DEFINE S == {rs \in Seq(Records) : Run(rs, a) => Equivalent(r, rs, seen, a + Len(rs))}
<1>1. <<>> \in S
  <2>1. <<>> \in Seq(Records) /\ CombineRecords(<<>>) = <<>>
    BY CombineFacts
  <2>2. Len(Query(<<>>, seen)) \in Nat
    BY <2>1, QueryFacts, LenProperties
  <2> QED
    BY <2>1, <2>2 DEF Equivalent, Same
<1>2. ASSUME NEW rs \in Seq(Records), NEW c \in Records, rs \in S, Run(Append(rs, c), a)
      PROVE  Equivalent(r, Append(rs, c), seen, a + Len(Append(rs, c)))
  <2> DEFINE C == CombineRecords(rs)
             both == Append(rs, c)
             m == a + Len(rs)
             R == ApplyAll(r, Query(rs, seen))
             V == ApplyAll(r, Query(C, seen))
             q == Len(Query(rs, seen))
             p == Len(Query(C, seen))
  <2>1. C \in Seq(Records) /\ CombineRecords(both) = CombineStep(C, c) /\ Len(C) \in Nat
    BY CombineFacts, LenProperties
  <2>2. /\ both \in Seq(Records) /\ Len(both) = Len(rs) + 1 /\ both[Len(rs) + 1] = c
        /\ \A i \in 1..Len(rs) : both[i] = rs[i]
        /\ Len(rs) \in Nat
    BY AppendProperties, LenProperties
  <2>3. Run(rs, a)
    BY <1>2, <2>2, LogFacts DEF Run
  <2>4. Same(R, V, m) /\ p <= q
    BY <1>2, <2>3 DEF Equivalent
  <2>5. m + 1 \in 1..Len(log) /\ m \in Nat /\ m <= Len(log) /\ c = log[m + 1] /\ a + Len(both) = m + 1
    BY <1>2, <2>2, LogFacts DEF Run
  <2>6. R \in Rows /\ V \in Rows
    BY <2>1, QueryFacts, ApplyAllFacts
  <2>7. ApplyAll(r, Query(both, seen)) = ApplyRec(R, c, seen)
    BY ApplyQuery
  <2>8. q \in Nat /\ p \in Nat /\ Len(Query(both, seen)) = q + Cost(c, seen) /\ Cost(c, seen) \in Nat
    BY <2>1, QueryLen DEF Cost
  <2>9. Part(C, a, m)
    BY <2>3, CombinePart
  <2>10. c.op # "DELETE" => c.date = m + 1
    BY <2>5, DatedFacts
  <2> HIDE DEF C, both, R, V, m, p, q
  <2>11. /\ Same(ApplyRec(R, c, seen), ApplyAll(r, Query(CombineStep(C, c), seen)), m + 1)
         /\ Len(Query(CombineStep(C, c), seen)) <= q + Cost(c, seen)
    <3>1. CASE C = <<>> \/ (c.op # "DELETE" /\ ~(c.op = "UPDATE" /\ Last(C).op = "UPDATE"))
      <4>1. CombineStep(C, c) = Append(C, c)
        <5>1. CASE C = <<>>
          <6>1. CombineStep(C, c) = <<c>> /\ Append(<<>>, c) = <<c>>
            BY <5>1 DEF CombineStep
          <6> QED
            BY <5>1, <6>1
        <5>2. CASE C # <<>>
          BY <3>1, <5>2 DEF CombineStep
        <5> QED
          BY <5>1, <5>2
      <4>2. ApplyAll(r, Query(Append(C, c), seen)) = ApplyRec(V, c, seen)
        BY <2>1, ApplyQuery DEF V
      <4>3. Len(Query(Append(C, c), seen)) = p + Cost(c, seen)
        BY <2>1, QueryLen DEF p
      <4>4. Same(ApplyRec(R, c, seen), ApplyRec(V, c, seen), m + 1)
        BY <2>4, <2>5, <2>6, <2>10, SameStep
      <4> QED
        BY <2>4, <2>8, <4>1, <4>2, <4>3, <4>4
    <3>2. CASE C # <<>> /\ c.op = "DELETE"
      <4>1. CombineStep(C, c) = Append(<<>>, c) /\ <<>> \in Seq(Records)
        <5>1. Append(<<>>, c) = <<c>>
          OBVIOUS
        <5> QED
          BY <3>2, <5>1 DEF CombineStep
      <4>2. ApplyAll(r, Query(Append(<<>>, c), seen)) = ApplyRec(ApplyAll(r, Query(<<>>, seen)), c, seen)
        BY <4>1, ApplyQuery
      <4>3. ~Noise(c)
        BY <3>2 DEF Noise
      <4>4. \A w : ApplyRec(w, c, seen) = NoRow
        BY <3>2, <4>3 DEF ApplyRec
      <4>5. Len(Query(Append(<<>>, c), seen)) = Len(Query(<<>>, seen)) + Cost(c, seen)
        BY <4>1, QueryLen
      <4>6. Len(Query(<<>>, seen)) = 0
        BY QueryFacts
      <4> QED
        BY <2>8, <4>1, <4>2, <4>4, <4>5, <4>6 DEF Same
    <3>3. CASE C # <<>> /\ c.op = "UPDATE" /\ Last(C).op = "UPDATE"
      <4> DEFINE l == Last(C)
                 u == Merged(c, l)
                 F == Front(C)
                 z == ApplyAll(r, Query(F, seen))
      <4>1. CombineStep(C, c) = Append(F, u)
        BY <3>3 DEF CombineStep, Merged
      <4>2. /\ F \in Seq(Records) /\ Len(F) = Len(C) - 1 /\ Len(C) \in Nat \ {0}
            /\ \A i \in 1..(Len(C) - 1) : F[i] = C[i]
            /\ l = C[Len(C)] /\ l \in Records
        BY <2>1, <3>3, FrontLast
      <4>3. u \in Records
        <5> HIDE DEF l
        <5> QED
          BY <4>2, MergedFacts
      <4>4. C = Append(F, l)
        <5>1. /\ Append(F, l) \in Seq(Records) /\ Len(Append(F, l)) = Len(C)
              /\ Append(F, l)[Len(C)] = l /\ \A i \in 1..(Len(C) - 1) : Append(F, l)[i] = C[i]
          BY <4>2, AppendProperties
        <5>2. \A i \in 1..Len(C) : C[i] = Append(F, l)[i]
          BY <4>2, <5>1
        <5> QED
          BY <2>1, <5>1, <5>2, SeqEqual
      <4>5. Changes(F, a)
        <5>1. Changes(C, a)
          BY <2>5, <2>9, PartChanges
        <5>2. \A i \in 1..Len(F) : F[i] = C[i] /\ i \in 1..Len(C)
          BY <4>2
        <5> HIDE DEF F
        <5> QED
          BY <5>1, <5>2 DEF Changes
      <4> HIDE DEF l, u, F, z
      <4>6. /\ l.op = "UPDATE" /\ l.n = m /\ m \in (a + 1)..m
            /\ Like(l, log[m]) /\ ("x" \in l.diff \/ l.diff = {"updatedDate", "meta"})
        <5>1. Len(C) \in 1..Len(C)
          BY <4>2
        <5>2. C[Len(C)].n = m
          BY <2>9, <3>3 DEF Part
        <5> QED
          BY <2>9, <3>3, <4>2, <5>1, <5>2 DEF Part, l
      <4>7. z \in Rows
        BY <4>2, QueryFacts, ApplyAllFacts DEF z
      <4>8. z.there => z.x = log[z.date].x
        <5>1. 0 \in 0..Len(Query(F, seen))
          BY <4>2, QueryFacts, LenProperties
        <5>2. Reaches(z, a)
          BY <4>2, <4>5, <5>1, PrefixReaches DEF z
        <5> QED
          BY <5>2, ReachesX
      <4>9. V = ApplyRec(z, l, seen) /\ ApplyAll(r, Query(Append(F, u), seen)) = ApplyRec(z, u, seen)
        BY <4>2, <4>3, <4>4, ApplyQuery DEF z, V
      <4>10. /\ p = Len(Query(F, seen)) + Cost(l, seen)
            /\ Len(Query(Append(F, u), seen)) = Len(Query(F, seen)) + Cost(u, seen)
            /\ Len(Query(F, seen)) \in Nat
        BY <4>2, <4>3, <4>4, QueryLen DEF p
      <4>11. m \in Nat \ {0} /\ m + 1 <= Len(log)
        BY <2>5, <4>6, LogFacts
      <4>12. /\ Same(ApplyRec(R, c, seen), ApplyRec(z, u, seen), m + 1)
             /\ Cost(u, seen) <= Cost(l, seen) + Cost(c, seen)
        BY <2>4, <2>5, <2>6, <3>3, <4>2, <4>6, <4>7, <4>8, <4>9, <4>11, SameMerged DEF u
      <4>13. Cost(u, seen) \in Nat /\ Cost(l, seen) \in Nat
        BY DEF Cost
      <4>14. Len(Query(Append(F, u), seen)) <= q + Cost(c, seen)
        BY <2>4, <2>8, <4>10, <4>12, <4>13
      <4> QED
        BY <4>1, <4>9, <4>12, <4>14
    <3> QED
      BY <3>1, <3>2, <3>3
  <2> QED
    BY <2>1, <2>5, <2>7, <2>8, <2>11 DEF Equivalent, both
<1>3. ASSUME NEW rs \in Seq(Records), NEW c \in Records, rs \in S PROVE Append(rs, c) \in S
  BY <1>2, <1>3, AppendProperties
<1> HIDE DEF S
<1>4. \A rs \in Seq(Records) : rs \in S
  BY <1>1, <1>3, SeqInduction
<1> QED
  BY <1>4 DEF S

-----------------------------------------------------------------------------
(* Sorting, and the batch of an ordered stream. *)

(* A sorted arrangement has the records it arranges. *)
LEMMA SortedFrom ==
  ASSUME NEW E, NEW rs \in Seq(E), NEW s \in SortRecords(rs)
  PROVE  /\ s \in Seq(E) /\ Len(s) = Len(rs)
         /\ \A i \in 1..Len(s) : \E j \in 1..Len(rs) : s[i] = rs[j]
<1>1. Len(rs) \in Nat /\ DOMAIN rs = 1..Len(rs) /\ \A i \in 1..Len(rs) : rs[i] \in E
  BY LenProperties, ElementOfSeq
<1>2. PICK p \in [1..Len(rs) -> 1..Len(rs)] : s = [i \in 1..Len(rs) |-> rs[p[i]]]
  BY <1>1 DEF SortRecords, Bijection, Injection
<1>3. s \in [1..Len(rs) -> E]
  BY <1>1, <1>2
<1>4. s \in Seq(E)
  BY <1>1, <1>3, SeqDef
<1>5. Len(s) = Len(rs)
  BY <1>1, <1>3, <1>4, LenProperties
<1> QED
  BY <1>2, <1>4, <1>5

(* A sequence of changes that is sorted is its only sorted arrangement: the   *)
(* least position where they differ would have to repeat an earlier record.   *)
LEMMA SortRun ==
  ASSUME GoodLog, NEW a \in Nat, NEW rs \in Seq(Records), Run(rs, a), NEW s \in SortRecords(rs)
  PROVE  s = rs
<1> DEFINE N == Len(rs)
<1>1. N \in Nat /\ DOMAIN rs = 1..N
  BY LenProperties
<1>2. PICK p \in Bijection(1..N, 1..N) : s = [i \in 1..N |-> rs[p[i]]] /\ Sorted(s)
  BY <1>1 DEF SortRecords
<1>3. /\ p \in [1..N -> 1..N]
      /\ \A i, j \in 1..N : p[i] = p[j] => i = j
      /\ \A k \in 1..N : \E i \in 1..N : p[i] = k
  BY <1>2 DEF Bijection, Injection, Surjection, IsInjective
<1>4. \A i \in 1..N : rs[i].n = a + i
  <2> TAKE i \in 1..N
  <2>1. a + i \in 1..Len(log) /\ rs[i] = log[a + i]
    BY <1>1, LogFacts DEF Run
  <2> QED
    BY <2>1, LogFacts
<1>5. \A i, j \in 1..N : i < j => p[i] < p[j]
  <2> TAKE i, j \in 1..N
  <2> HAVE i < j
  <2>1. s[i] = rs[p[i]] /\ s[j] = rs[p[j]] /\ DOMAIN s = 1..N /\ p[i] \in 1..N /\ p[j] \in 1..N
    BY <1>2, <1>3
  <2>2. s[i].n < s[j].n
    BY <1>2, <2>1 DEF Sorted
  <2>3. a + p[i] < a + p[j]
    BY <1>4, <2>1, <2>2
  <2> QED
    BY <2>1, <2>3
<1> HIDE DEF N
<1>6. \A i \in 1..N : p[i] = i
  <2> DEFINE B == {i \in 1..N : p[i] # i}
  <2>1. SUFFICES ASSUME B # {} PROVE FALSE
    OBVIOUS
  <2>2. B \in SUBSET Nat
    BY <1>1
  <2> HIDE DEF B
  <2>3. PICK k \in B : \A i \in B : k <= i
    BY <2>1, <2>2, NatLeast
  <2>4. k \in 1..N /\ p[k] # k /\ p[k] \in 1..N
    BY <1>3, <2>3 DEF B
  <2>5. \A i \in 1..N : i < k => p[i] = i
    BY <1>1, <2>3, <2>4 DEF B
  <2>6. p[k] > k
    <3>1. CASE p[k] < k
      <4>1. p[p[k]] = p[k]
        BY <2>4, <2>5, <3>1
      <4> QED
        BY <1>3, <2>4, <4>1
    <3> QED
      BY <1>1, <2>4, <3>1
  <2>7. PICK i \in 1..N : p[i] = k
    BY <1>3, <2>4
  <2>8. CASE i < k
    BY <1>1, <2>4, <2>5, <2>7, <2>8
  <2>9. CASE i > k
    <3>1. p[k] < p[i]
      BY <1>5, <2>4, <2>9
    <3> QED
      BY <1>1, <2>4, <2>6, <2>7, <3>1
  <2>10. CASE i = k
    BY <2>4, <2>7, <2>10
  <2> QED
    BY <1>1, <2>4, <2>8, <2>9, <2>10
<1>7. s = [i \in 1..N |-> rs[i]]
  BY <1>2, <1>6
<1> QED
  BY <1>1, <1>7

(* The records of an ordered batch are the changes after the acked ones. *)
LEMMA HeldRun ==
  ASSUME GoodLog, NEW a \in Nat, Line(a), batch \in Seq(Numbers)
  PROVE  /\ Held \in Seq(Records) /\ Len(Held) = Len(batch) /\ Run(Held, a)
         /\ Len(batch) \in Nat
<1>1. Len(batch) \in Nat /\ DOMAIN batch = 1..Len(batch) /\ Len(log) \in Nat
  BY LenProperties, LogFacts
<1>2. \A i \in 1..Len(batch) : batch[i] = a + i /\ a + i \in 1..Len(log)
  BY <1>1 DEF Line
<1>3. Held = [i \in 1..Len(batch) |-> log[batch[i]]]
  BY <1>1 DEF Held
<1>4. \A i \in 1..Len(batch) : log[batch[i]] \in Records
  BY <1>2, LogFacts
<1>5. Held \in [1..Len(batch) -> Records]
  BY <1>3, <1>4
<1>6. Held \in Seq(Records)
  BY <1>1, <1>5, SeqDef
<1>7. Len(Held) = Len(batch)
  BY <1>1, <1>5, <1>6, LenProperties
<1>8. a + Len(Held) <= Len(log)
  BY <1>7 DEF Line
<1>9. \A i \in 1..Len(Held) : Held[i] = log[a + i]
  BY <1>2, <1>3, <1>7
<1> QED
  BY <1>1, <1>6, <1>7, <1>8, <1>9 DEF Run

LEMMA HeldType ==
  ASSUME GoodLog, batch \in Seq(Numbers), \A i \in DOMAIN batch : batch[i] \in DOMAIN log
  PROVE  /\ Held \in Seq(Records) /\ Len(Held) = Len(batch) /\ DOMAIN batch = 1..Len(batch)
         /\ \A i \in 1..Len(batch) : Held[i] = log[batch[i]]
<1>1. Len(batch) \in Nat /\ DOMAIN batch = 1..Len(batch) /\ DOMAIN log = 1..Len(log)
  BY LenProperties, LogFacts
<1>2. Held = [i \in 1..Len(batch) |-> log[batch[i]]]
  BY <1>1 DEF Held
<1>3. \A i \in 1..Len(batch) : log[batch[i]] \in Records
  BY <1>1, LogFacts
<1>4. Held \in [1..Len(batch) -> Records]
  BY <1>2, <1>3
<1>5. Held \in Seq(Records)
  BY <1>1, <1>4, SeqDef
<1>6. Len(Held) = Len(batch)
  BY <1>1, <1>4, <1>5, LenProperties
<1> QED
  BY <1>1, <1>2, <1>5, <1>6

-----------------------------------------------------------------------------
(* Merges alone never take a row back. *)

OnlyMerges(ss) == \A i \in 1..Len(ss) : ss[i].k # "delete"

LEMMA MergesOnly ==
  ASSUME NEW r \in Rows, r.there
  PROVE  \A ss \in Seq(Stmts) :
           OnlyMerges(ss) => ApplyAll(r, ss).there /\ ApplyAll(r, ss).date >= r.date
<1> DEFINE S == {ss \in Seq(Stmts) :
                   OnlyMerges(ss) => ApplyAll(r, ss).there /\ ApplyAll(r, ss).date >= r.date}
<1>1. <<>> \in S
  BY ApplyAllFacts, RowFields
<1>2. ASSUME NEW ss \in Seq(Stmts), NEW s \in Stmts, ss \in S PROVE Append(ss, s) \in S
  <2> DEFINE both == Append(ss, s)
             R == ApplyAll(r, ss)
  <2>1. /\ both \in Seq(Stmts) /\ Len(both) = Len(ss) + 1 /\ both[Len(ss) + 1] = s
        /\ \A i \in 1..Len(ss) : both[i] = ss[i]
        /\ Len(ss) \in Nat
    BY AppendProperties, LenProperties
  <2>2. ASSUME OnlyMerges(both) PROVE ApplyAll(r, both).there /\ ApplyAll(r, both).date >= r.date
    <3>1. Len(ss) + 1 \in 1..Len(both) /\ \A i \in 1..Len(ss) : i \in 1..Len(both)
      BY <2>1
    <3>2. s.k # "delete" /\ OnlyMerges(ss)
      BY <2>1, <2>2, <3>1 DEF OnlyMerges
    <3>3. R \in Rows /\ R.there /\ R.date >= r.date
      BY <1>2, <3>2, ApplyAllFacts
    <3>4. ApplyAll(r, both) = ApplyMerge(R, s)
      BY <3>2, ApplyAllFacts DEF ApplyStmt
    <3>5. s.rec.date \in Nat /\ R.date \in Nat /\ r.date \in Nat
      <4>1. s.rec \in Records
        BY DEF Stmts
      <4> QED
        BY <3>3, <4>1, RecordFields, RowFields
    <3> HIDE DEF R, both
    <3>6. ApplyMerge(R, s).there /\ ApplyMerge(R, s).date >= r.date
      <4>1. CASE s.rec.date > R.date
        <5>1. ApplyMerge(R, s).there = TRUE /\ ApplyMerge(R, s).date = s.rec.date
          BY <4>1 DEF ApplyMerge
        <5> QED
          BY <3>3, <3>5, <4>1, <5>1
      <4>2. CASE ~(s.rec.date > R.date)
        <5>1. ApplyMerge(R, s) = R
          BY <3>3, <4>2 DEF ApplyMerge
        <5> QED
          BY <3>3, <5>1
      <4> QED
        BY <4>1, <4>2
    <3> QED
      BY <3>4, <3>6
  <2> QED
    BY <2>1, <2>2
<1> HIDE DEF S
<1>3. \A ss \in Seq(Stmts) : ss \in S
  BY <1>1, <1>2, SeqInduction
<1> QED
  BY <1>3 DEF S

(* A batch without inserts and deletes has only merges, in any order. *)
LEMMA UpdatesOnly ==
  ASSUME GoodLog, batch \in Seq(Numbers), \A i \in DOMAIN batch : batch[i] \in DOMAIN log,
         \A i \in DOMAIN batch : log[batch[i]].op \notin {"INSERT", "DELETE"},
         NEW rs \in SortRecords(Held), NEW seen \in BOOLEAN
  PROVE  OnlyMerges(Query(CombineRecords(rs), seen))
<1> DEFINE C == CombineRecords(rs)
           sql == Query(C, seen)
<1>1. /\ Held \in Seq(Records) /\ Len(Held) = Len(batch) /\ DOMAIN batch = 1..Len(batch)
      /\ \A i \in 1..Len(batch) : Held[i] = log[batch[i]]
  BY HeldType
<1>2. rs \in Seq(Records) /\ \A i \in 1..Len(rs) : \E j \in 1..Len(Held) : rs[i] = Held[j]
  BY <1>1, SortedFrom
<1>3. \A i \in 1..Len(rs) : rs[i].op \notin {"INSERT", "DELETE"}
  BY <1>1, <1>2
<1>4. C \in Seq(Records) /\ sql \in Seq(Stmts)
  BY <1>2, CombineFacts, QueryFacts
<1>5. \A q \in 1..Len(C) : C[q].op \notin {"INSERT", "DELETE"} /\ C[q] \in Records
  <2>1. \A q \in 1..Len(C) : C[q] \in Records
    BY <1>4, LenProperties, ElementOfSeq
  <2>2. \A q \in 1..Len(C) : \E i \in 1..Len(rs) : rs[i].op = C[q].op
    BY <1>2, CombinedOps
  <2> HIDE DEF C
  <2> QED
    BY <1>3, <2>1, <2>2
<1>6. \A i \in 1..Len(sql) : StmtOf(sql[i], C)
  BY <1>4, QueryStmts
<1> HIDE DEF C, sql
<1>7. \A i \in 1..Len(sql) : sql[i].k # "delete"
  <2> TAKE i \in 1..Len(sql)
  <2>1. PICK q \in 1..Len(C) : sql[i] = Mrg(C[q])
    BY <1>5, <1>6 DEF StmtOf
  <2>2. Mrg(C[q]).k = "merge"
    BY <1>5, StmtFields
  <2> QED
    BY <2>1, <2>2
<1> QED
  BY <1>7 DEF OnlyMerges, C, sql

-----------------------------------------------------------------------------
(* The invariant is inductive. *)

LEMMA SInvFacts ==
  ASSUME SInv
  PROVE  /\ GoodLog /\ Len(log) \in Nat /\ DOMAIN log = 1..Len(log)
         /\ Held \in Seq(Records) /\ Len(Held) = Len(batch)
         /\ Len(batch) \in Nat /\ DOMAIN batch = 1..Len(batch)
         /\ \A i \in 1..Len(batch) : batch[i] \in 1..Len(log) /\ Held[i] = log[batch[i]]
<1>1. GoodLog /\ batch \in Seq(Numbers) /\ \A i \in DOMAIN batch : batch[i] \in DOMAIN log
  BY DEF SInv, TypeOK, BatchInv, GoodLog
<1>2. Len(batch) \in Nat
  BY <1>1, LenProperties
<1> QED
  BY <1>1, <1>2, LogFacts, HeldType

LEMMA ReachesLess ==
  ASSUME NEW r, NEW a \in Nat, NEW b \in Nat, a <= b, Reaches(r, b), Len(log) \in Nat
  PROVE  Reaches(r, a)
<1>1. PICK j \in b..Len(log) : At(r, j)
  BY DEF Reaches
<1>2. j \in a..Len(log)
  OBVIOUS
<1> QED
  BY <1>1, <1>2 DEF Reaches

(* A flush: the plan has its type, and takes the row on. *)
LEMMA FlushType ==
  ASSUME SInv, NEW rs \in SortRecords(Held), NEW seen \in BOOLEAN
  PROVE  /\ rs \in Seq(Records) /\ CombineRecords(rs) \in Seq(Records)
         /\ Query(CombineRecords(rs), seen) \in Seq(Stmts)
         /\ PlanFlush(CombineRecords(rs), seen) \in Plans
         /\ PlanFlush(CombineRecords(rs), seen).query = Query(CombineRecords(rs), seen)
<1>1. rs \in Seq(Records)
  BY SInvFacts, SortedFrom
<1>2. CombineRecords(rs) \in Seq(Records)
  BY <1>1, CombineFacts
<1>3. Query(CombineRecords(rs), seen) \in Seq(Stmts)
  BY <1>2, QueryFacts
<1> QED
  BY <1>1, <1>2, <1>3 DEF PlanFlush, Plans

LEMMA FlushRow ==
  ASSUME SInv, NEW rs \in SortRecords(Held), NEW seen \in BOOLEAN,
         NEW k \in 0..Len(Query(CombineRecords(rs), seen))
  PROVE  LET sql == Query(CombineRecords(rs), seen) IN
         /\ ApplyAll(row, sql) \in Rows
         /\ SubSeq(sql, 1, k) \in Seq(Stmts)
         /\ ApplyAll(row, SubSeq(sql, 1, k)) \in Rows
<1> DEFINE sql == Query(CombineRecords(rs), seen)
<1>1. sql \in Seq(Stmts) /\ Len(sql) \in Nat /\ row \in Rows
  BY FlushType, LenProperties DEF SInv, TypeOK
<1> HIDE DEF sql
<1>2. SubSeq(sql, 1, k) \in Seq(Stmts)
  <2>1. k \in Nat /\ k <= Len(sql) /\ \A i \in 1..k : sql[i] \in Stmts
    BY <1>1, LenProperties, ElementOfSeq DEF sql
  <2> QED
    BY <1>1, <2>1, SubSeqProperties
<1>3. ApplyAll(row, sql) \in Rows /\ ApplyAll(row, SubSeq(sql, 1, k)) \in Rows
  BY <1>1, <1>2, ApplyAllFacts
<1> QED
  BY <1>2, <1>3 DEF sql

LEMMA FlushReaches ==
  ASSUME SInv, Regular, NEW a \in Nat, Line(a), ~Executed,
         NEW rs \in SortRecords(Held), NEW seen \in BOOLEAN,
         NEW k \in 0..Len(Query(CombineRecords(rs), seen))
  PROVE  LET sql == Query(CombineRecords(rs), seen) IN
         /\ Reaches(ApplyAll(row, sql), a + Len(batch))
         /\ Reaches(ApplyAll(row, SubSeq(sql, 1, k)), a)
<1> DEFINE C == CombineRecords(rs)
           m == a + Len(batch)
<1>1. GoodLog /\ batch \in Seq(Numbers) /\ row \in Rows /\ Reaches(row, a)
  BY SInvFacts DEF SInv, TypeOK, Line
<1>2. Held \in Seq(Records) /\ Len(Held) = Len(batch) /\ Run(Held, a) /\ Len(batch) \in Nat
  BY <1>1, HeldRun
<1>3. rs = Held
  BY <1>1, <1>2, SortRun
<1>4. C \in Seq(Records) /\ Part(C, a, m)
  BY <1>1, <1>2, <1>3, CombinePart, CombineFacts
<1>5. m \in Nat /\ m <= Len(log)
  BY <1>2 DEF Line
<1> HIDE DEF C, m
<1>6. Changes(C, a)
  BY <1>1, <1>4, <1>5, PartChanges
<1>7. k \in 0..Len(Query(C, seen))
  BY DEF C
<1>8. Reaches(ApplyAll(row, Query(C, seen)), m)
  BY <1>1, <1>4, <1>5, QueryReaches
<1>9. Reaches(ApplyAll(row, SubSeq(Query(C, seen), 1, k)), a)
  BY <1>1, <1>4, <1>6, <1>7, PrefixReaches
<1> QED
  BY <1>8, <1>9 DEF C, m

LEMMA RowReaches ==
  ASSUME log' = log, NEW a, Reaches(row', a)
  PROVE  Reaches(row, a)'
BY DEF Reaches, At

LEMMA EmptyHeld ==
  ASSUME batch = <<>>
  PROVE  Held = <<>>
<1>1. Held = [i \in {} |-> log[batch[i]]] /\ DOMAIN <<>> = {}
  BY DEF Held
<1> QED
  BY <1>1

LEMMA InitSInv == Init => SInv
<1> SUFFICES ASSUME Init PROVE SInv
  OBVIOUS
<1> USE SnowflakeAssumption DEF SnowflakeAssumption, Init
<1>1. TypeOK
  <2>1. row \in Rows
    BY NoRowType
  <2>2. plan \in Plans
    BY DEF NoPlan, Plans
  <2>3. log \in Seq(Records) /\ Len(log) = 0 /\ batch \in Seq(Numbers) /\ Len(batch) = 0 /\ recs \in Seq(Records)
    OBVIOUS
  <2>4. ordered \in BOOLEAN /\ marker \in BOOLEAN
    BY Zenon
  <2>5. faults \in 0..MaxFaults /\ Len(log) <= MaxEvents /\ Len(batch) <= MaxBatch
    BY <2>3
  <2>6. acked \subseteq Numbers /\ pc = "down"
    OBVIOUS
  <2> QED
    BY <2>1, <2>2, <2>3, <2>4, <2>5, <2>6 DEF TypeOK
<1>2. LogInv
  BY DEF LogInv
<1>3. BatchInv
  BY DEF BatchInv
<1>4. RowInv
  <2>1. Len(log) = 0 /\ Len(batch) = 0 /\ ~Executed
    BY DEF Executed
  <2>2. acked = 1..0 /\ 0 \in 0..0 /\ 0 + 0 = 0
    OBVIOUS
  <2>3. At(row, 0)
    BY AtNoRow
  <2>4. Reaches(row, 0)
    BY <2>1, <2>2, <2>3 DEF Reaches
  <2>5. \A i \in 1..Len(batch) : batch[i] = 0 + i
    BY <2>1
  <2>6. Line(0)
    BY <2>1, <2>2, <2>4, <2>5 DEF Line
  <2> QED
    BY <2>6 DEF RowInv
<1> QED
  BY <1>1, <1>2, <1>3, <1>4 DEF SInv

(* What Publish appends. *)
Follows(c, n) ==
  /\ c.n = n
  /\ c.op = "INSERT" =>
       /\ n = 1 \/ log[n - 1].op = "DELETE"
       /\ c.x \in {0, n} /\ c.date = n
  /\ c.op = "UPDATE" =>
       /\ n # 1 /\ log[n - 1].op # "DELETE"
       /\ c.diff \in {{"x", "updatedDate"}, {"x"}, {"updatedDate", "meta"}}
       /\ c.x \in IF "x" \in c.diff THEN {0, n} ELSE {log[n - 1].x}
       /\ c.date = IF "updatedDate" \in c.diff THEN n ELSE log[n - 1].date

LEMMA PublishFacts ==
  ASSUME SInv, Publish
  PROVE  \E c \in Records : log' = Append(log, c) /\ Follows(c, Len(log) + 1)
<1> DEFINE n == Len(log) + 1
           Change(op, x, date, D) == [op |-> op, n |-> n, x |-> x, date |-> date, diff |-> D]
<1>1. /\ log \in Seq(Records) /\ Len(log) \in Nat /\ n \in Numbers /\ n \in 0..MaxEvents
      /\ n - 1 = Len(log) /\ MaxEvents \in Nat
  BY SInvFacts, SnowflakeAssumption DEF SInv, TypeOK, Publish, SnowflakeAssumption, Numbers
<1>2. ASSUME NEW op \in Ops, NEW x \in 0..MaxEvents, NEW date \in 0..MaxEvents,
             NEW D \in SUBSET DiffColumns
      PROVE  Change(op, x, date, D) \in Records
  BY <1>1 DEF Records
<1>3. /\ {} \in SUBSET DiffColumns
      /\ \A D \in {{"x", "updatedDate"}, {"x"}, {"updatedDate", "meta"}} : D \in SUBSET DiffColumns
      /\ "INSERT" \in Ops /\ "UPDATE" \in Ops /\ "DELETE" \in Ops /\ 0 \in 0..MaxEvents
  BY <1>1 DEF DiffColumns, Ops
<1>4. CASE ~Source.there
  <2>1. PICK x \in {0, n} : log' = Append(log, Change("INSERT", x, n, {}))
    BY <1>4 DEF Publish
  <2>2. log = <<>> \/ Last(log).op = "DELETE"
    BY <1>4 DEF Source
  <2>3. n = 1 \/ log[n - 1].op = "DELETE"
    <3>1. log # <<>> => Last(log) = log[n - 1]
      BY <1>1, FrontLast
    <3>2. log = <<>> => Len(log) = 0
      OBVIOUS
    <3> QED
      BY <1>1, <2>2, <3>1, <3>2
  <2>4. Follows(Change("INSERT", x, n, {}), n)
    BY <2>3 DEF Follows
  <2>5. Change("INSERT", x, n, {}) \in Records
    BY <1>1, <1>2, <1>3
  <2> QED
    BY <2>1, <2>4, <2>5
<1>5. CASE Source.there
  <2>1. log # <<>> /\ Last(log).op # "DELETE"
    BY <1>5, NoRowType DEF Source
  <2>2. Source.x = Last(log).x /\ Source.date = Last(log).date
    BY <2>1 DEF Source
  <2>3. /\ Last(log) = log[n - 1] /\ n # 1 /\ Last(log) \in Records
    <3>1. Len(log) \in Nat \ {0} /\ Last(log) = log[Len(log)] /\ Last(log) \in Records
      BY <1>1, <2>1, FrontLast
    <3> QED
      BY <1>1, <3>1
  <2>4. Source.x \in 0..MaxEvents /\ Source.date \in 0..MaxEvents
    BY <2>2, <2>3, RecordFields
  <2>5. CASE log' = Append(log, Change("DELETE", 0, 0, {}))
    <3>1. Follows(Change("DELETE", 0, 0, {}), n)
      BY DEF Follows
    <3>2. Change("DELETE", 0, 0, {}) \in Records
      BY <1>2, <1>3
    <3> QED
      BY <2>5, <3>1, <3>2
  <2>6. CASE \E D \in {{"x", "updatedDate"}, {"x"}, {"updatedDate", "meta"}} :
                \E x \in IF "x" \in D THEN {0, n} ELSE {Source.x} :
                  log' = Append(log, Change("UPDATE", x,
                                            IF "updatedDate" \in D THEN n ELSE Source.date, D))
    <3>1. PICK D \in {{"x", "updatedDate"}, {"x"}, {"updatedDate", "meta"}} :
                \E x \in IF "x" \in D THEN {0, n} ELSE {Source.x} :
                  log' = Append(log, Change("UPDATE", x,
                                            IF "updatedDate" \in D THEN n ELSE Source.date, D))
      BY <2>6
    <3>0. PICK x \in IF "x" \in D THEN {0, n} ELSE {Source.x} :
                  log' = Append(log, Change("UPDATE", x,
                                            IF "updatedDate" \in D THEN n ELSE Source.date, D))
      BY <3>1
    <3> DEFINE date == IF "updatedDate" \in D THEN n ELSE Source.date
    <3>2. x \in 0..MaxEvents /\ date \in 0..MaxEvents
      BY <1>1, <1>3, <2>4
    <3>3. /\ x \in IF "x" \in D THEN {0, n} ELSE {log[n - 1].x}
          /\ date = IF "updatedDate" \in D THEN n ELSE log[n - 1].date
      BY <2>2, <2>3
    <3>4. log' = Append(log, Change("UPDATE", x, date, D))
      BY <3>0
    <3> HIDE DEF date
    <3>5. Follows(Change("UPDATE", x, date, D), n)
      BY <2>1, <2>3, <3>3 DEF Follows
    <3>6. Change("UPDATE", x, date, D) \in Records
      BY <1>2, <1>3, <3>2
    <3> QED
      BY <3>4, <3>5, <3>6
  <2> QED
    BY <1>5, <2>5, <2>6 DEF Publish
<1> QED
  BY <1>4, <1>5

(* A step that leaves the log alone keeps the ordered stream's line. *)
NextLine(a) ==
  /\ acked' = 1..a /\ a + Len(batch') <= Len(log)
  /\ \A i \in 1..Len(batch') : batch'[i] = a + i
  /\ Regular => Reaches(row', IF Executed' THEN a + Len(batch') ELSE a)

LEMMA KeepLine ==
  ASSUME ordered' = ordered, log' = log, ordered => \E a \in Nat : NextLine(a)
  PROVE  RowInv'
<1> SUFFICES ASSUME ordered PROVE \E a \in Nat : Line(a)'
  BY DEF RowInv
<1>1. PICK a \in Nat :
        /\ acked' = 1..a /\ a + Len(batch') <= Len(log)
        /\ \A i \in 1..Len(batch') : batch'[i] = a + i
        /\ Regular => Reaches(row', IF Executed' THEN a + Len(batch') ELSE a)
  BY DEF NextLine
<1>2. Regular' => Regular
  BY DEF Regular, Dated, Named
<1>3. Regular' => Reaches(row, IF Executed THEN a + Len(batch) ELSE a)'
  <2>1. CASE Executed'
    <3>1. Regular' => Reaches(row', a + Len(batch'))
      BY <1>1, <1>2, <2>1
    <3> QED
      BY <2>1, <3>1, RowReaches
  <2>2. CASE ~Executed'
    <3>1. Regular' => Reaches(row', a)
      BY <1>1, <1>2, <2>2
    <3> QED
      BY <2>2, <3>1, RowReaches
  <2> QED
    BY <2>1, <2>2
<1>4. Line(a)'
  BY <1>1, <1>3 DEF Line
<1> QED
  BY <1>4

(* ... and, when the batch and the row stay as well, also the line itself. *)
LEMMA SameLine ==
  ASSUME SInv, UNCHANGED <<ordered, log, acked, batch, row>>, Executed' => Executed
  PROVE  RowInv'
<1>1. ASSUME NEW a \in Nat, Line(a) PROVE NextLine(a)
  <2>1. Len(batch) \in Nat /\ Len(log) \in Nat /\ a + Len(batch) \in Nat /\ a <= a + Len(batch)
    BY SInvFacts
  <2>2. ASSUME Regular PROVE Reaches(row, IF Executed' THEN a + Len(batch) ELSE a)
    <3>1. CASE Executed'
      BY <1>1, <2>2, <3>1 DEF Line
    <3>2. CASE ~Executed' /\ ~Executed
      BY <1>1, <2>2, <3>2 DEF Line
    <3>3. CASE ~Executed' /\ Executed
      <4>1. Reaches(row, a + Len(batch))
        BY <1>1, <2>2, <3>3 DEF Line
      <4>2. Reaches(row, a)
        BY <2>1, <4>1, ReachesLess
      <4> QED
        BY <3>3, <4>2
    <3> QED
      BY <3>1, <3>2, <3>3
  <2> QED
    BY <1>1, <2>2 DEF Line, NextLine
<1> QED
  BY <1>1, KeepLine DEF SInv, RowInv

LEMMA KeepLog ==
  ASSUME SInv, log' = log
  PROVE  LogInv'
BY DEF SInv, LogInv

LEMMA KeepHeld ==
  ASSUME log' = log, batch' = batch
  PROVE  Held' = Held
BY DEF Held

LEMMA EmptyHeldNext ==
  ASSUME batch' = <<>>
  PROVE  Held' = <<>>
<1>1. Held' = [i \in {} |-> log'[batch'[i]]] /\ DOMAIN <<>> = {}
  BY DEF Held
<1> QED
  BY <1>1

(* Stop leaves nothing in flight. *)
LEMMA StopFacts ==
  ASSUME SInv, Stop
  PROVE  /\ BatchInv' /\ ~Executed'
         /\ batch' = <<>> /\ Len(batch') = 0
         /\ batch' \in Seq(Numbers) /\ Len(batch') <= MaxBatch /\ recs' \in Seq(Records)
         /\ plan' \in Plans /\ pc' = "down"
<1>1. batch' = <<>> /\ recs' = <<>> /\ pc' = "down" /\ plan' = NoPlan
  BY DEF Stop
<1>2. BatchInv'
  BY <1>1 DEF BatchInv
<1>3. plan' \in Plans
  BY <1>1 DEF NoPlan, Plans
<1>4. Len(<<>>) = 0 /\ 0 <= MaxBatch
  BY SnowflakeAssumption DEF SnowflakeAssumption
<1> QED
  BY <1>1, <1>2, <1>3, <1>4 DEF Executed

LEMMA StartSInv ==
  ASSUME SInv, Start
  PROVE  SInv'
<1>1. TypeOK'
  BY DEF SInv, TypeOK, Start
<1>2. LogInv'
  BY KeepLog DEF Start
<1>3. BatchInv'
  <2>1. batch' = <<>> /\ recs' = <<>> /\ pc' = "ready"
    BY DEF SInv, BatchInv, Start
  <2>2. Held' = <<>>
    BY <2>1, EmptyHeldNext
  <2> QED
    BY <2>1, <2>2 DEF BatchInv
<1>4. RowInv'
  BY SameLine DEF Start, Executed
<1> QED
  BY <1>1, <1>2, <1>3, <1>4 DEF SInv

LEMMA FlushIdleSInv ==
  ASSUME SInv, FlushIdle
  PROVE  SInv'
<1>1. TypeOK'
  BY DEF SInv, TypeOK, FlushIdle
<1>2. LogInv'
  BY KeepLog DEF FlushIdle
<1>3. BatchInv'
  <2>1. Held' = Held
    BY KeepHeld DEF FlushIdle
  <2> QED
    BY <2>1 DEF SInv, BatchInv, FlushIdle
<1>4. RowInv'
  BY SameLine DEF FlushIdle, Executed
<1> QED
  BY <1>1, <1>2, <1>3, <1>4 DEF SInv

LEMMA SetMarkersSInv ==
  ASSUME SInv, SetMarkers
  PROVE  SInv'
<1>1. TypeOK'
  <2>1. marker' \in BOOLEAN
    BY Zenon DEF SetMarkers
  <2> QED
    BY <2>1 DEF SInv, TypeOK, SetMarkers
<1>2. LogInv'
  BY KeepLog DEF SetMarkers
<1>3. BatchInv'
  <2>1. Held' = Held
    BY KeepHeld DEF SetMarkers
  <2> QED
    BY <2>1 DEF SInv, BatchInv, SetMarkers
<1>4. RowInv'
  BY SameLine DEF SetMarkers, Executed
<1> QED
  BY <1>1, <1>2, <1>3, <1>4 DEF SInv

LEMMA DeleteMarkersSInv ==
  ASSUME SInv, DeleteMarkers
  PROVE  SInv'
<1>1. TypeOK'
  <2>1. marker' \in BOOLEAN
    BY Zenon DEF DeleteMarkers
  <2>2. plan' \in Plans
    BY DEF DeleteMarkers, NoPlan, Plans
  <2> QED
    BY <2>1, <2>2 DEF SInv, TypeOK, DeleteMarkers
<1>2. LogInv'
  BY KeepLog DEF DeleteMarkers
<1>3. BatchInv'
  <2>1. Held' = Held
    BY KeepHeld DEF DeleteMarkers
  <2> QED
    BY <2>1 DEF SInv, BatchInv, DeleteMarkers
<1>4. RowInv'
  BY SameLine DEF DeleteMarkers, Executed
<1> QED
  BY <1>1, <1>2, <1>3, <1>4 DEF SInv

LEMMA MarkerExpiresSInv ==
  ASSUME SInv, MarkerExpires
  PROVE  SInv'
<1>1. TypeOK'
  <2>1. marker' \in BOOLEAN
    BY Zenon DEF MarkerExpires
  <2>2. faults' \in 0..MaxFaults
    BY SnowflakeAssumption DEF SInv, TypeOK, MarkerExpires, SnowflakeAssumption
  <2> QED
    BY <2>1, <2>2 DEF SInv, TypeOK, MarkerExpires
<1>2. LogInv'
  BY KeepLog DEF MarkerExpires
<1>3. BatchInv'
  <2>1. Held' = Held
    BY KeepHeld DEF MarkerExpires
  <2> QED
    BY <2>1 DEF SInv, BatchInv, MarkerExpires
<1>4. RowInv'
  BY SameLine DEF MarkerExpires, Executed
<1> QED
  BY <1>1, <1>2, <1>3, <1>4 DEF SInv

LEMMA PlanSInv ==
  ASSUME SInv, Plan
  PROVE  SInv'
<1>1. PICK rs \in SortRecords(recs) : plan' = PlanFlush(CombineRecords(rs), marker)
  BY DEF Plan
<1>2. recs = Held /\ marker \in BOOLEAN
  BY DEF SInv, BatchInv, TypeOK, Plan
<1>3. plan' \in Plans /\ plan'.query = Query(CombineRecords(rs), marker)
  BY <1>1, <1>2, FlushType
<1>4. TypeOK'
  BY <1>3 DEF SInv, TypeOK, Plan
<1>5. LogInv'
  BY KeepLog DEF Plan
<1>6. BatchInv'
  <2>1. Held' = Held
    BY KeepHeld DEF Plan
  <2>2. \E s \in SortRecords(Held'), seen \in BOOLEAN : plan'.query = Query(CombineRecords(s), seen)
    BY <1>1, <1>2, <1>3, <2>1
  <2> QED
    BY <2>2 DEF SInv, BatchInv, Plan
<1>7. RowInv'
  BY SameLine DEF Plan, Executed
<1> QED
  BY <1>4, <1>5, <1>6, <1>7 DEF SInv

LEMMA ExecSInv ==
  ASSUME SInv, Exec
  PROVE  SInv'
<1>1. PICK rs \in SortRecords(Held), seen \in BOOLEAN : plan.query = Query(CombineRecords(rs), seen)
  BY DEF SInv, BatchInv, Exec
<1> DEFINE sql == Query(CombineRecords(rs), seen)
<1>2. row' = ApplyAll(row, sql) /\ 0 \in 0..Len(sql)
  BY <1>1, FlushType, LenProperties DEF Exec
<1>3. row' \in Rows
  BY <1>2, FlushRow
<1>4. TypeOK'
  BY <1>3 DEF SInv, TypeOK, Exec
<1>5. LogInv'
  BY KeepLog DEF Exec
<1>6. BatchInv'
  <2>1. Held' = Held
    BY KeepHeld DEF Exec
  <2> QED
    BY <2>1 DEF SInv, BatchInv, Exec
<1>7. ASSUME NEW a \in Nat, Line(a) PROVE NextLine(a)
  <2>1. ~Executed /\ Executed'
    BY DEF Executed, Exec
  <2>2. Regular => Reaches(row', a + Len(batch))
    BY <1>2, <1>7, <2>1, FlushReaches
  <2> QED
    BY <1>7, <2>1, <2>2 DEF Line, NextLine, Exec
<1>8. RowInv'
  BY <1>7, KeepLine DEF SInv, RowInv, Exec
<1> QED
  BY <1>4, <1>5, <1>6, <1>8 DEF SInv

LEMMA ExecFailsSInv ==
  ASSUME SInv, ExecFails
  PROVE  SInv'
<1>1. PICK rs \in SortRecords(Held), seen \in BOOLEAN : plan.query = Query(CombineRecords(rs), seen)
  BY DEF SInv, BatchInv, ExecFails
<1> DEFINE sql == Query(CombineRecords(rs), seen)
<1>2. PICK k \in 0..Len(sql) : row' = ApplyAll(row, SubSeq(sql, 1, k))
  BY <1>1 DEF ExecFails
<1>3. row' \in Rows
  BY <1>2, FlushRow
<1>4. Stop /\ log' = log /\ ordered' = ordered
  BY DEF ExecFails
<1>5. TypeOK'
  <2>1. faults' \in 0..MaxFaults
    BY SnowflakeAssumption DEF SInv, TypeOK, ExecFails, SnowflakeAssumption
  <2> QED
    BY <1>3, <1>4, <2>1, StopFacts DEF SInv, TypeOK, ExecFails
<1>6. LogInv' /\ BatchInv'
  BY <1>4, KeepLog, StopFacts
<1>7. ASSUME NEW a \in Nat, Line(a) PROVE NextLine(a)
  <2>1. ~Executed
    BY DEF Executed, ExecFails
  <2>2. Regular => Reaches(row', a)
    BY <1>2, <1>7, <2>1, FlushReaches
  <2>3. ~Executed' /\ Len(batch') = 0
    BY <1>4, StopFacts
  <2>4. a + 0 <= Len(log) /\ 1..0 = {}
    BY <1>7, SInvFacts DEF Line
  <2> QED
    BY <1>7, <2>2, <2>3, <2>4 DEF Line, NextLine, ExecFails
<1>8. RowInv'
  BY <1>4, <1>7, KeepLine DEF SInv, RowInv
<1> QED
  BY <1>5, <1>6, <1>8 DEF SInv

LEMMA StopFlushesSInv ==
  ASSUME SInv, StopFlushes
  PROVE  SInv'
<1>1. recs = Held /\ marker \in BOOLEAN
  BY DEF SInv, BatchInv, TypeOK, StopFlushes
<1>2. PICK rs \in SortRecords(Held) :
        LET p == PlanFlush(CombineRecords(rs), marker)
        IN  \/ /\ row' = ApplyAll(row, p.query)
               /\ marker' = ((marker \/ p.cache) /\ ~p.delete)
            \/ /\ \E n \in 0..Len(p.query) : row' = ApplyAll(row, SubSeq(p.query, 1, n))
               /\ UNCHANGED marker
  BY <1>1 DEF StopFlushes
<1> DEFINE sql == Query(CombineRecords(rs), marker)
<1>3. PlanFlush(CombineRecords(rs), marker).query = sql /\ 0 \in 0..Len(sql)
  BY <1>1, FlushType, LenProperties
<1>4. row' = ApplyAll(row, sql) \/ \E k \in 0..Len(sql) : row' = ApplyAll(row, SubSeq(sql, 1, k))
  BY <1>2, <1>3
<1>5. marker' \in BOOLEAN
  <2>1. CASE UNCHANGED marker
    BY <1>1, <2>1
  <2>2. CASE ~UNCHANGED marker
    <3> DEFINE p == PlanFlush(CombineRecords(rs), marker)
    <3>1. marker' = ((marker \/ p.cache) /\ ~p.delete)
      BY <1>2, <2>2
    <3> QED
      BY <3>1, Zenon
  <2> QED
    BY <2>1, <2>2
<1>6. Stop /\ log' = log /\ ordered' = ordered /\ acked' = acked /\ ~Executed
  BY DEF StopFlushes, Executed
<1>7. row' \in Rows
  BY <1>1, <1>3, <1>4, FlushRow
<1>8. TypeOK'
  <2>1. faults' \in 0..MaxFaults
    BY SnowflakeAssumption DEF SInv, TypeOK, StopFlushes, SnowflakeAssumption
  <2> QED
    BY <1>5, <1>6, <1>7, <2>1, StopFacts DEF SInv, TypeOK
<1>9. LogInv' /\ BatchInv'
  BY <1>6, KeepLog, StopFacts
<1>10. ASSUME NEW a \in Nat, Line(a) PROVE NextLine(a)
  <2>1. ASSUME Regular PROVE Reaches(row', a)
    <3>1. CASE row' = ApplyAll(row, sql)
      <4>1. Reaches(row', a + Len(batch))
        BY <1>1, <1>3, <1>6, <1>10, <2>1, <3>1, FlushReaches
      <4>2. a + Len(batch) \in Nat /\ a <= a + Len(batch) /\ Len(log) \in Nat
        BY SInvFacts
      <4> QED
        BY <4>1, <4>2, ReachesLess
    <3>2. CASE \E k \in 0..Len(sql) : row' = ApplyAll(row, SubSeq(sql, 1, k))
      BY <1>1, <1>6, <1>10, <2>1, <3>2, FlushReaches
    <3> QED
      BY <1>4, <3>1, <3>2
  <2>2. ~Executed' /\ Len(batch') = 0
    BY <1>6, StopFacts
  <2>3. a + 0 <= Len(log) /\ 1..0 = {}
    BY <1>10, SInvFacts DEF Line
  <2> QED
    BY <1>6, <1>10, <2>1, <2>2, <2>3 DEF Line, NextLine
<1>11. RowInv'
  BY <1>6, <1>10, KeepLine DEF SInv, RowInv
<1> QED
  BY <1>8, <1>9, <1>11 DEF SInv

LEMMA CrashSInv ==
  ASSUME SInv, Crash
  PROVE  SInv'
<1>1. Stop /\ UNCHANGED <<log, ordered, acked, row, marker>>
  BY DEF Crash
<1>2. TypeOK'
  <2>1. faults' \in 0..MaxFaults
    BY SnowflakeAssumption DEF SInv, TypeOK, Crash, SnowflakeAssumption
  <2> QED
    BY <1>1, <2>1, StopFacts DEF SInv, TypeOK
<1>3. LogInv' /\ BatchInv'
  BY <1>1, KeepLog, StopFacts
<1>4. ASSUME NEW a \in Nat, Line(a) PROVE NextLine(a)
  <2>1. Len(batch) \in Nat /\ Len(log) \in Nat /\ a + Len(batch) \in Nat /\ a <= a + Len(batch)
    BY SInvFacts
  <2>2. ASSUME Regular PROVE Reaches(row, a)
    <3>1. CASE Executed
      <4>1. Reaches(row, a + Len(batch))
        BY <1>4, <2>2, <3>1 DEF Line
      <4> QED
        BY <2>1, <4>1, ReachesLess
    <3>2. CASE ~Executed
      BY <1>4, <2>2, <3>2 DEF Line
    <3> QED
      BY <3>1, <3>2
  <2>3. ~Executed' /\ Len(batch') = 0
    BY <1>1, StopFacts
  <2>4. a + 0 <= Len(log) /\ 1..0 = {}
    BY <1>4, <2>1 DEF Line
  <2> QED
    BY <1>1, <1>4, <2>2, <2>3, <2>4 DEF Line, NextLine
<1>5. RowInv'
  BY <1>1, <1>4, KeepLine DEF SInv, RowInv
<1> QED
  BY <1>2, <1>3, <1>5 DEF SInv

(* The first n events of the batch, acked. *)
LEMMA AckRange ==
  ASSUME SInv, NEW a \in Nat, Line(a), NEW n \in 0..Len(batch)
  PROVE  acked \cup {batch[i] : i \in 1..n} = 1..(a + n)
<1>1. Len(batch) \in Nat /\ n \in Nat /\ acked = 1..a /\ \A i \in 1..n : batch[i] = a + i
  BY SInvFacts DEF Line
<1>2. ASSUME NEW k \in 1..(a + n), k \notin 1..a PROVE k \in {batch[i] : i \in 1..n}
  <2>1. k - a \in 1..n /\ a + (k - a) = k
    BY <1>1, <1>2
  <2> QED
    BY <1>1, <2>1
<1>3. \A i \in 1..n : a + i \in 1..(a + n)
  BY <1>1
<1>4. 1..a \subseteq 1..(a + n)
  BY <1>1
<1> QED
  BY <1>1, <1>2, <1>3, <1>4

LEMMA PendingRange ==
  ASSUME SInv
  PROVE  Pending = {batch[i] : i \in 1..Len(batch)}
BY SInvFacts DEF Pending, Range

LEMMA AckSInv ==
  ASSUME SInv, Ack
  PROVE  SInv'
<1>1. TypeOK'
  <2>1. acked' \subseteq Numbers
    <3>1. \A i \in 1..Len(batch) : batch[i] \in Numbers
      BY SInvFacts, LenProperties, ElementOfSeq DEF SInv, TypeOK
    <3> QED
      BY <3>1, PendingRange DEF SInv, TypeOK, Ack
  <2>2. batch' \in Seq(Numbers) /\ Len(batch') <= MaxBatch
    BY SnowflakeAssumption DEF Ack, SnowflakeAssumption
  <2> QED
    BY <2>1, <2>2 DEF SInv, TypeOK, Ack
<1>2. LogInv'
  BY KeepLog DEF Ack
<1>3. BatchInv'
  <2>1. batch' = <<>> /\ recs' = <<>> /\ pc' = "ready"
    BY DEF SInv, BatchInv, Ack
  <2>2. Held' = <<>>
    BY <2>1, EmptyHeldNext
  <2> QED
    BY <2>1, <2>2 DEF BatchInv
<1>4. ASSUME NEW a \in Nat, Line(a) PROVE \E b \in Nat : NextLine(b)
  <2> DEFINE b == a + Len(batch)
  <2>1. Len(batch) \in Nat /\ b \in Nat /\ Len(batch) \in 0..Len(batch) /\ b <= Len(log)
    BY <1>4, SInvFacts DEF Line
  <2>2. acked' = 1..b
    BY <1>4, <2>1, AckRange, PendingRange DEF Ack
  <2>3. Executed /\ ~Executed'
    BY DEF Executed, Ack
  <2>4. Regular => Reaches(row', b)
    BY <1>4, <2>3 DEF Line, Ack
  <2>5. batch' = <<>> /\ Len(batch') = 0
    BY DEF Ack
  <2> HIDE DEF b
  <2>6. b + Len(batch') <= Len(log) /\ \A i \in 1..Len(batch') : batch'[i] = b + i
    BY <2>1, <2>5
  <2> QED
    BY <2>1, <2>2, <2>3, <2>4, <2>6 DEF NextLine
<1>5. RowInv'
  BY <1>4, KeepLine DEF SInv, RowInv, Ack
<1> QED
  BY <1>1, <1>2, <1>3, <1>5 DEF SInv

LEMMA AckFailsSInv ==
  ASSUME SInv, AckFails
  PROVE  SInv'
<1>1. Stop /\ UNCHANGED <<log, ordered, row, marker>> /\ Executed
  BY DEF AckFails, Executed
<1>2. PICK n \in 0..(Len(batch) - 1) : acked' = acked \cup {batch[i] : i \in 1..n}
  BY DEF AckFails
<1>3. Len(batch) \in Nat /\ n \in 0..Len(batch) /\ Len(log) \in Nat
  BY SInvFacts
<1>4. TypeOK'
  <2>1. faults' \in 0..MaxFaults
    BY SnowflakeAssumption DEF SInv, TypeOK, AckFails, SnowflakeAssumption
  <2>2. acked' \subseteq Numbers
    <3>1. \A i \in 1..n : i \in 1..Len(batch)
      BY <1>3
    <3>2. \A i \in 1..Len(batch) : batch[i] \in Numbers
      BY LenProperties, ElementOfSeq DEF SInv, TypeOK
    <3> QED
      BY <1>2, <3>1, <3>2 DEF SInv, TypeOK
  <2> QED
    BY <1>1, <2>1, <2>2, StopFacts DEF SInv, TypeOK
<1>5. LogInv' /\ BatchInv'
  BY <1>1, KeepLog, StopFacts
<1>6. ASSUME NEW a \in Nat, Line(a) PROVE \E b \in Nat : NextLine(b)
  <2> DEFINE b == a + n
  <2>1. b \in Nat /\ b <= a + Len(batch) /\ a + Len(batch) \in Nat /\ b <= Len(log)
    BY <1>3, <1>6 DEF Line
  <2>2. acked' = 1..b
    BY <1>2, <1>3, <1>6, AckRange
  <2>3. ~Executed' /\ batch' = <<>> /\ Len(batch') = 0
    BY <1>1, StopFacts
  <2>4. ASSUME Regular PROVE Reaches(row', b)
    <3>1. Reaches(row, a + Len(batch))
      BY <1>1, <1>6, <2>4 DEF Line
    <3> HIDE DEF b
    <3>2. Reaches(row, b)
      BY <1>3, <2>1, <3>1, ReachesLess
    <3> QED
      BY <1>1, <3>2
  <2> HIDE DEF b
  <2>5. b + Len(batch') <= Len(log) /\ \A i \in 1..Len(batch') : batch'[i] = b + i
    BY <2>1, <2>3
  <2> QED
    BY <2>1, <2>2, <2>3, <2>4, <2>5 DEF NextLine
<1>7. RowInv'
  BY <1>1, <1>6, KeepLine DEF SInv, RowInv
<1> QED
  BY <1>4, <1>5, <1>7 DEF SInv

LEMMA ProcessSInv ==
  ASSUME SInv, Process
  PROVE  SInv'
<1>1. PICK n \in Numbers : Deliverable(n) /\ batch' = Append(batch, n) /\ recs' = Append(recs, log[n])
  BY DEF Process
<1>2. /\ batch \in Seq(Numbers) /\ Len(batch) \in Nat /\ DOMAIN batch = 1..Len(batch)
      /\ Len(log) \in Nat /\ n \in 1..Len(log) /\ log[n] \in Records /\ MaxBatch \in Nat
  <2>1. n \in DOMAIN log /\ batch \in Seq(Numbers) /\ GoodLog
    BY <1>1, SInvFacts DEF Deliverable, SInv, TypeOK
  <2> QED
    BY <2>1, SInvFacts, LogFacts, SnowflakeAssumption DEF SnowflakeAssumption
<1>3. /\ batch' \in Seq(Numbers) /\ Len(batch') = Len(batch) + 1 /\ batch'[Len(batch) + 1] = n
      /\ DOMAIN batch' = 1..Len(batch')
      /\ \A i \in 1..Len(batch) : batch'[i] = batch[i]
  BY <1>1, <1>2, AppendProperties, LenProperties
<1>4. recs = Held /\ recs \in Seq(Records) /\ Len(recs) = Len(batch)
  BY SInvFacts DEF SInv, BatchInv, Process
<1>5. /\ recs' \in Seq(Records) /\ Len(recs') = Len(batch) + 1 /\ recs'[Len(batch) + 1] = log[n]
      /\ DOMAIN recs' = 1..Len(recs')
      /\ \A i \in 1..Len(batch) : recs'[i] = log[batch[i]]
  BY <1>1, <1>2, <1>4, SInvFacts, AppendProperties, LenProperties
<1>6. pc' \in {"flush", "ready"} /\ log' = log /\ ordered' = ordered /\ row' = row /\ acked' = acked
  BY DEF Process
<1>7. Len(batch') <= MaxBatch
  BY <1>2, <1>3 DEF Process
<1>8. TypeOK'
  BY <1>3, <1>5, <1>6, <1>7 DEF SInv, TypeOK, Process
<1>9. LogInv'
  BY <1>6, KeepLog
<1>10. \A i \in 1..Len(batch') : i \in 1..Len(batch) \/ i = Len(batch) + 1
  BY <1>2, <1>3
<1>11. recs' = Held'
  <2>1. Held' = [i \in 1..Len(batch') |-> log[batch'[i]]]
    BY <1>3, <1>6 DEF Held
  <2>2. \A i \in 1..Len(batch') : recs'[i] = log[batch'[i]]
    BY <1>3, <1>5, <1>10
  <2>3. recs' = [i \in 1..Len(batch') |-> recs'[i]]
    <3>1. Len(recs') = Len(batch')
      BY <1>3, <1>5
    <3>2. recs' = [i \in 1..Len(recs') |-> recs'[i]]
      BY <1>5, LenProperties
    <3> QED
      BY <3>1, <3>2
  <2> QED
    BY <2>1, <2>2, <2>3
<1>12. BatchInv'
  <2>1. \A i \in DOMAIN batch' : batch'[i] \in DOMAIN log'
    BY <1>2, <1>3, <1>6, <1>10, SInvFacts
  <2> QED
    BY <1>6, <1>11, <2>1 DEF BatchInv
<1>13. ASSUME NEW a \in Nat, Line(a), ordered PROVE NextLine(a)
  <2> DEFINE b == a + Len(batch)
  <2>1. Len(batch) \in 0..Len(batch) /\ b \in Nat
    BY <1>2
  <2>2. acked \cup Pending = 1..b
    BY <1>13, <2>1, AckRange, PendingRange
  <2>3. n \notin 1..b /\ 1..(n - 1) \subseteq 1..b
    BY <1>1, <1>13, <2>2 DEF Deliverable
  <2>4. n = b + 1
    <3>1. n > b
      BY <1>2, <2>1, <2>3
    <3>2. CASE n > b + 1
      <4>1. b + 1 \in 1..(n - 1) /\ b + 1 \notin 1..b
        BY <1>2, <2>1, <3>2
      <4> QED
        BY <2>3, <4>1
    <3> HIDE DEF b
    <3> QED
      BY <1>2, <2>1, <3>1, <3>2
  <2>5. a + Len(batch') <= Len(log)
    BY <1>2, <1>3, <2>4
  <2>6. \A i \in 1..Len(batch') : batch'[i] = a + i
    BY <1>2, <1>3, <1>10, <1>13, <2>4 DEF Line
  <2>7. ~Executed /\ ~Executed'
    BY <1>6 DEF Executed, Process
  <2>8. Regular => Reaches(row', a)
    BY <1>6, <1>13, <2>7 DEF Line
  <2> QED
    BY <1>6, <1>13, <2>5, <2>6, <2>7, <2>8 DEF Line, NextLine
<1>14. RowInv'
  BY <1>6, <1>13, KeepLine DEF SInv, RowInv
<1> QED
  BY <1>8, <1>9, <1>12, <1>14 DEF SInv

LEMMA PublishSInv ==
  ASSUME SInv, Publish
  PROVE  SInv'
<1> DEFINE N == Len(log)
<1>1. PICK c \in Records : log' = Append(log, c) /\ Follows(c, N + 1)
  BY PublishFacts
<1>2. UNCHANGED <<ordered, acked, pc, batch, recs, plan, row, marker, faults>> /\ N < MaxEvents
  BY DEF Publish
<1>3. /\ N \in Nat /\ MaxEvents \in Nat /\ log' \in Seq(Records) /\ Len(log') = N + 1
      /\ log'[N + 1] = c /\ \A i \in 1..N : log'[i] = log[i]
      /\ DOMAIN log' = 1..(N + 1)
  BY <1>1, SInvFacts, SnowflakeAssumption, AppendProperties, LenProperties
     DEF SInv, TypeOK, SnowflakeAssumption
<1>4. TypeOK'
  BY <1>2, <1>3 DEF SInv, TypeOK
<1>5. LogInv'
  <2> SUFFICES ASSUME NEW n \in 1..(N + 1)
               PROVE  Follows(log[n], n)'
    BY <1>3 DEF LogInv, Follows
  <2>1. n = N + 1 \/ n \in 1..N
    BY <1>3
  <2>2. n # 1 => n - 1 \in 1..N
    BY <1>3
  <2>3. n # 1 => log'[n - 1] = log[n - 1]
    BY <1>3, <2>2
  <2>4. Follows(log'[n], n)
    <3>1. CASE n = N + 1
      BY <1>1, <1>3, <3>1
    <3>2. CASE n \in 1..N
      <4>1. log'[n] = log[n] /\ n \in DOMAIN log
        BY <1>3, <3>2, SInvFacts
      <4> QED
        BY <4>1 DEF SInv, LogInv, Follows
    <3> QED
      BY <2>1, <3>1, <3>2
  <2> QED
    BY <2>3, <2>4 DEF Follows
<1>6. Held' = Held
  <2>1. \A i \in 1..Len(batch) : batch[i] \in 1..N /\ DOMAIN batch = 1..Len(batch)
    BY SInvFacts
  <2>2. \A i \in DOMAIN batch : log'[batch[i]] = log[batch[i]]
    BY <1>3, <2>1, SInvFacts
  <2> QED
    BY <1>2, <2>2 DEF Held
<1>7. BatchInv'
  <2>1. \A i \in DOMAIN batch' : batch'[i] \in DOMAIN log'
    <3>1. \A k \in 1..N : k \in 1..(N + 1)
      BY <1>3
    <3> QED
      BY <1>2, <1>3, <3>1, SInvFacts
  <2> QED
    BY <1>2, <1>6, <2>1 DEF SInv, BatchInv
<1>8. Regular' => Regular
  <2>1. \A n \in DOMAIN log : n \in DOMAIN log' /\ log'[n] = log[n]
    BY <1>3, SInvFacts
  <2> QED
    BY <2>1 DEF Regular, Dated, Named
<1>9. ASSUME NEW a \in Nat, Reaches(row, a) PROVE Reaches(row, a)'
  <2>1. PICK j \in a..N : At(row, j)
    BY <1>9 DEF Reaches
  <2>2. j \in a..(N + 1) /\ j \in 0..N /\ (j # 0 => j \in 1..N)
    BY <1>3
  <2>3. row.there => row.date \in 1..N
    BY <1>3, <2>1, <2>2 DEF At
  <2>4. (j # 0 => log'[j] = log[j]) /\ (row.there => log'[row.date] = log[row.date])
    BY <1>3, <2>2, <2>3
  <2>5. row'.there = (j # 0 /\ log'[j].op # "DELETE")
    BY <1>2, <2>1, <2>4 DEF At
  <2>6. row.there => j # 0
    BY <2>1, <2>3 DEF At
  <2>7. At(row, j)'
    BY <1>2, <2>1, <2>4, <2>5, <2>6 DEF At
  <2> QED
    BY <1>3, <2>2, <2>7 DEF Reaches
<1>10. ASSUME NEW a \in Nat, Line(a) PROVE Line(a)'
  <2>1. Executed' = Executed /\ Len(batch) \in Nat /\ a + Len(batch) \in Nat
    BY <1>2, SInvFacts DEF Executed
  <2>2. a + Len(batch) <= N + 1
    BY <1>3, <1>10, <2>1 DEF Line
  <2>3. ASSUME Regular' PROVE Reaches(row, IF Executed THEN a + Len(batch) ELSE a)'
    <3>1. CASE Executed
      <4>1. Reaches(row, a + Len(batch))
        BY <1>8, <1>10, <2>3, <3>1 DEF Line
      <4> DEFINE b == a + Len(batch)
      <4>2. b \in Nat /\ b' = b
        BY <1>2, <2>1
      <4>3. Reaches(row, b)'
        BY <1>2, <1>3, <1>9, <4>1, <2>1 DEF Reaches, At
      <4> QED
        BY <2>1, <3>1, <4>3
    <3>2. CASE ~Executed
      <4>1. Reaches(row, a)
        BY <1>8, <1>10, <2>3, <3>2 DEF Line
      <4>2. Reaches(row, a)'
        BY <1>9, <4>1
      <4> QED
        BY <2>1, <3>2, <4>2
    <3> QED
      BY <3>1, <3>2
  <2> QED
    BY <1>2, <1>3, <1>10, <2>2, <2>3 DEF Line
<1>11. RowInv'
  BY <1>2, <1>10 DEF SInv, RowInv
<1> QED
  BY <1>4, <1>5, <1>7, <1>11 DEF SInv

-----------------------------------------------------------------------------
(* The theorems. *)

LEMMA NextSInv == SInv /\ [Next]_vars => SInv'
<1> SUFFICES ASSUME SInv, [Next]_vars PROVE SInv'
  OBVIOUS
<1>1. CASE Publish
  BY <1>1, PublishSInv
<1>2. CASE Work
  BY <1>2, StartSInv, ProcessSInv, FlushIdleSInv, PlanSInv, ExecSInv, SetMarkersSInv,
     DeleteMarkersSInv, AckSInv DEF Work
<1>3. CASE ExecFails
  BY <1>3, ExecFailsSInv
<1>4. CASE AckFails
  BY <1>4, AckFailsSInv
<1>5. CASE StopFlushes
  BY <1>5, StopFlushesSInv
<1>6. CASE Crash
  BY <1>6, CrashSInv
<1>7. CASE MarkerExpires
  BY <1>7, MarkerExpiresSInv
<1>8. CASE UNCHANGED vars
  <2>1. UNCHANGED <<ordered, log, acked, pc, batch, recs, plan, row, marker, faults>>
    BY <1>8 DEF vars
  <2>2. TypeOK'
    BY <2>1 DEF SInv, TypeOK
  <2>3. LogInv' /\ Held' = Held
    BY <2>1, KeepLog, KeepHeld
  <2>4. BatchInv'
    BY <2>1, <2>3 DEF SInv, BatchInv
  <2>5. RowInv'
    BY <2>1, SameLine DEF Executed
  <2> QED
    BY <2>2, <2>3, <2>4, <2>5 DEF SInv
<1> QED
  BY <1>1, <1>2, <1>3, <1>4, <1>5, <1>6, <1>7, <1>8 DEF Next

LEMMA SInvHolds == Spec => []SInv
BY InitSInv, NextSInv, PTL DEF Spec

(* Every variable has its type: the plan that a flush makes is a sequence of  *)
(* statements, and executing any part of it leaves a row.                     *)
THEOREM SnowflakeTypeCorrect == Spec => []TypeOK
<1>1. SInv => TypeOK
  BY DEF SInv
<1> QED
  BY <1>1, SInvHolds, PTL

(* Once every event is settled the row is the object. *)
LEMMA LineIsCurrent ==
  ASSUME SInv
  PROVE  RowCurrent
<1> SUFFICES ASSUME ordered, Regular, acked = DOMAIN log
             PROVE  row.there = Source.there /\ row.x = Source.x
  BY DEF RowCurrent, Regular
<1> DEFINE N == Len(log)
<1>1. GoodLog /\ N \in Nat /\ DOMAIN log = 1..N /\ Len(batch) \in Nat /\ row \in Rows /\ log \in Seq(Records)
  BY SInvFacts DEF SInv, TypeOK
<1>2. PICK a \in Nat : Line(a)
  BY DEF SInv, RowInv
<1>3. a = N
  <2>1. 1..a = 1..N /\ a <= N
    <3>1. acked = 1..a /\ a + Len(batch) <= N
      BY <1>2 DEF Line
    <3>2. 1..a = 1..N
      BY <1>1, <3>1
    <3> HIDE DEF N
    <3> QED
      BY <1>1, <3>1, <3>2
  <2>2. CASE a < N
    <3>1. N \in 1..N /\ N \notin 1..a
      BY <1>1, <2>2
    <3> QED
      BY <2>1, <3>1
  <2> HIDE DEF N
  <2> QED
    BY <1>1, <2>1, <2>2
<1>4. \E j \in Nat : j >= N /\ j <= N /\ At(row, j)
  <2>1. PICK j \in (IF Executed THEN a + Len(batch) ELSE a)..N : At(row, j)
    BY <1>2 DEF Line, Reaches
  <2>2. j \in Nat /\ j >= N /\ j <= N
    BY <1>1, <1>3, <2>1
  <2> QED
    BY <2>1, <2>2
<1>5. At(row, N)
  <2> HIDE DEF N
  <2> QED
    BY <1>1, <1>4
<1>6. CASE log = <<>>
  <2>1. N = 0 /\ Source = NoRow
    BY <1>6 DEF Source
  <2>2. ~row.there /\ row = NoRow
    BY <1>5, <2>1 DEF At
  <2> QED
    BY <2>1, <2>2
<1>7. CASE log # <<>>
  <2>1. N \in Nat \ {0} /\ Last(log) = log[N]
    BY <1>1, <1>7, FrontLast
  <2>2. CASE Last(log).op = "DELETE"
    <3>1. Source = NoRow /\ ~row.there /\ row = NoRow
      BY <1>5, <2>1, <2>2 DEF At, Source
    <3> QED
      BY <3>1
  <2>3. CASE Last(log).op # "DELETE"
    <3>1. Source.there = TRUE /\ Source.x = log[N].x
      BY <1>7, <2>1, <2>3 DEF Source
    <3>2. row.there = TRUE
      BY <1>5, <2>1, <2>3 DEF At
    <3>3. row.x = log[N].x
      BY <1>5, <3>2 DEF At
    <3> QED
      BY <3>1, <3>2, <3>3
  <2> QED
    BY <2>2, <2>3
<1> QED
  BY <1>6, <1>7

(***************************************************************************)
(* Once every event is settled the row is the object as the source has it, *)
(* for any number of changes and any batch size, after any failed, partial *)
(* and repeated flushes, forced deletes and lost markers.                  *)
(***************************************************************************)
THEOREM SnowflakeRowCurrent == Spec => []RowCurrent
BY SInvHolds, LineIsCurrent, PTL

(* Combining a batch changes nothing. *)
LEMMA FlushFaithful ==
  ASSUME SInv
  PROVE  Named => CombineFaithful
<1> SUFFICES ASSUME pc = "flush", ordered, Regular, NEW rs \in SortRecords(recs)
             PROVE  LET oneByOne == Query(rs, marker)
                        combined == Query(CombineRecords(rs), marker)
                        expected == ApplyAll(row, oneByOne)
                        actual == ApplyAll(row, combined)
                    IN  /\ actual.there = expected.there /\ actual.x = expected.x
                        /\ Len(combined) <= Len(oneByOne)
  BY DEF CombineFaithful, Regular
<1>1. PICK a \in Nat : Line(a)
  BY DEF SInv, RowInv
<1>2. GoodLog /\ batch \in Seq(Numbers) /\ row \in Rows /\ marker \in BOOLEAN /\ recs = Held
  BY SInvFacts DEF SInv, TypeOK, BatchInv
<1>3. Held \in Seq(Records) /\ Run(Held, a)
  BY <1>1, <1>2, HeldRun
<1>4. rs = Held
  BY <1>2, <1>3, SortRun
<1>5. Reaches(row, a)
  BY <1>1 DEF Line, Executed
<1>6. Equivalent(row, rs, marker, a + Len(rs))
  BY <1>2, <1>3, <1>4, <1>5, CombineEquivalent
<1> QED
  BY <1>6 DEF Equivalent, Same

(***************************************************************************)
(* A batch combined takes the row where its records one by one would, with *)
(* no more statements: for batches of any length, and whatever a flush     *)
(* before it left half done.                                               *)
(***************************************************************************)
THEOREM SnowflakeCombineFaithful == Spec => [](Named => CombineFaithful)
BY SInvHolds, FlushFaithful, PTL

(* x is the number of a change: it grows until the object is deleted. *)
LEMMA LogX ==
  ASSUME GoodLog
  PROVE  \A n \in 1..Len(log) : log[n].op # "DELETE" => log[n].x <= n
<1> DEFINE N == Len(log)
           S == {n \in Nat : n \in 1..N /\ log[n].op # "DELETE" => log[n].x <= n}
<1>1. N \in Nat /\ DOMAIN log = 1..N /\ \A n \in 1..N : log[n].x \in Nat /\ log[n].op \in Ops
  BY LogFacts
<1>2. 0 \in S
  BY <1>1
<1>3. ASSUME NEW k \in 0..(N - 1), k \in S PROVE k + 1 \in S
  <2> DEFINE n == k + 1
  <2>1. n \in 1..N /\ n \in Nat /\ n - 1 = k /\ n \in DOMAIN log /\ k \in Nat
    BY <1>1
  <2>2. ASSUME log[n].op # "DELETE" PROVE log[n].x <= n
    <3>1. CASE log[n].op = "INSERT"
      <4>1. log[n].x \in {0, n}
        BY <2>1, <3>1 DEF GoodLog, LogInv
      <4> QED
        BY <2>1, <4>1
    <3>2. CASE log[n].op = "UPDATE"
      <4>1. /\ n # 1 /\ log[n - 1].op # "DELETE"
            /\ log[n].x \in IF "x" \in log[n].diff THEN {0, n} ELSE {log[n - 1].x}
        BY <2>1, <3>2 DEF GoodLog, LogInv
      <4>2. k \in 1..N /\ log[k].op # "DELETE"
        BY <1>1, <2>1, <4>1
      <4>3. log[k].x <= k /\ log[k].x \in Nat
        BY <1>1, <1>3, <4>2
      <4>4. log[n].x \in {0, n} \/ log[n].x = log[k].x
        BY <2>1, <4>1
      <4> QED
        BY <2>1, <4>3, <4>4
    <3> QED
      BY <1>1, <2>1, <2>2, <3>1, <3>2 DEF Ops
  <2> QED
    BY <2>1, <2>2
<1> HIDE DEF S
<1>4. \A n \in 0..N : n \in S
  BY <1>1, <1>2, <1>3, Induction
<1> QED
  BY <1>1, <1>4 DEF S

LEMMA XGrows ==
  ASSUME GoodLog, Named, NEW n \in 1..Len(log), NEW j \in n..Len(log),
         \A i \in n..j : log[i].op # "DELETE"
  PROVE  log[n].x <= log[j].x
<1> DEFINE N == j - n
           S == {k \in Nat : log[n].x <= log[n + k].x}
<1>1. /\ N \in Nat /\ n + N = j /\ Len(log) \in Nat /\ n \in Nat /\ DOMAIN log = 1..Len(log)
      /\ \A i \in 1..Len(log) : log[i].x \in Nat /\ log[i].op \in Ops
  BY LogFacts
<1>2. 0 \in S
  <2>1. n + 0 = n /\ log[n].x \in Nat
    BY <1>1
  <2> QED
    BY <2>1
<1>3. ASSUME NEW k \in 0..(N - 1), k \in S PROVE k + 1 \in S
  <2> DEFINE i == n + (k + 1)
  <2>1. i \in n..j /\ i \in 1..Len(log) /\ i - 1 \in n..j /\ i - 1 = n + k /\ i # 1
          /\ i - 1 \in 1..Len(log) /\ n < i /\ i \in Nat /\ k + 1 \in Nat
    BY <1>1
  <2>2. n \in n..j /\ log[n].op # "DELETE" /\ log[n].x <= n
    <3>1. n \in n..j
      BY <1>1
    <3> QED
      BY <3>1, LogX
  <2> HIDE DEF i
  <2>3. log[i].op = "UPDATE"
    <3>1. log[i].op # "DELETE" /\ log[i - 1].op # "DELETE"
      BY <2>1
    <3>2. log[i].op # "INSERT"
      BY <1>1, <2>1, <3>1 DEF GoodLog, LogInv
    <3> QED
      BY <1>1, <2>1, <3>1, <3>2 DEF Ops
  <2>4. log[i].x = i \/ log[i].x = log[i - 1].x
    <3>1. log[i].x # 0 /\ i \in DOMAIN log
      BY <1>1, <2>1, <2>3 DEF Named
    <3> QED
      BY <2>3, <3>1 DEF GoodLog, LogInv
  <2>5. log[n].x <= log[i - 1].x
    BY <1>3, <2>1
  <2>6. log[n].x \in Nat
    BY <1>1
  <2>7. log[n].x <= log[i].x
    BY <2>1, <2>2, <2>4, <2>5, <2>6
  <2> QED
    BY <2>1, <2>7 DEF i
<1>4. N \in S
  <2> HIDE DEF S
  <2>1. \A k \in 0..N : k \in S
    BY <1>1, <1>2, <1>3, Induction
  <2>2. N \in 0..N
    BY <1>1
  <2> QED
    BY <2>1, <2>2
<1> QED
  BY <1>1, <1>4

(* The row never falls behind what is acked. *)
LEMMA LineKeepsAcked ==
  ASSUME SInv
  PROVE  AckedStays
<1> SUFFICES ASSUME ordered, Regular, NEW n \in acked,
                    log[n].op # "DELETE", \A m \in (n + 1)..Len(log) : log[m].op # "DELETE"
             PROVE  row.there /\ row.x >= log[n].x
  BY DEF AckedStays, Regular
<1> DEFINE N == Len(log)
<1>1. GoodLog /\ N \in Nat /\ DOMAIN log = 1..N /\ Len(batch) \in Nat /\ row \in Rows
  BY SInvFacts DEF SInv, TypeOK
<1>2. PICK a \in Nat : Line(a)
  BY DEF SInv, RowInv
<1>3. n \in 1..a /\ n \in 1..N
  BY <1>1, <1>2 DEF Line
<1>4. PICK j \in (IF Executed THEN a + Len(batch) ELSE a)..N : At(row, j)
  BY <1>2 DEF Line, Reaches
<1>5. j \in n..N /\ j # 0
  BY <1>1, <1>3, <1>4
<1>6. \A i \in n..j : log[i].op # "DELETE"
  <2> TAKE i \in n..j
  <2>1. i = n \/ i \in (n + 1)..N
    BY <1>1, <1>3, <1>5
  <2> QED
    BY <2>1
<1>7. log[n].x <= log[j].x /\ j \in n..j
  BY <1>1, <1>3, <1>5, <1>6, XGrows DEF Regular
<1>8. row.there /\ row.x = log[j].x
  <2>1. row.there = TRUE
    BY <1>4, <1>5, <1>6, <1>7 DEF At
  <2> QED
    BY <1>4, <2>1 DEF At
<1>9. log[n].x \in Nat /\ log[j].x \in Nat
  <2>1. j \in 1..N
    BY <1>1, <1>3, <1>5
  <2> QED
    BY <1>1, <1>3, <2>1, LogFacts
<1> QED
  BY <1>7, <1>8, <1>9

(***************************************************************************)
(* What was acked stays in the row until a later event deletes the object: *)
(* no flush that fails half-way or comes twice takes it back.              *)
(***************************************************************************)
THEOREM SnowflakeAckedStays == Spec => []AckedStays
BY SInvHolds, LineKeepsAcked, PTL

(* The part of a plan that has been executed, without inserts and deletes. *)
LEMMA PrefixMerges ==
  ASSUME NEW ss \in Seq(Stmts), OnlyMerges(ss), NEW k \in 0..Len(ss), NEW r \in Rows, r.there
  PROVE  /\ ApplyAll(r, ss).date >= r.date
         /\ ApplyAll(r, SubSeq(ss, 1, k)).date >= r.date
<1> DEFINE p == SubSeq(ss, 1, k)
<1>1. Len(ss) \in Nat /\ k \in Nat /\ k <= Len(ss) /\ \A i \in 1..Len(ss) : ss[i] \in Stmts
  BY LenProperties, ElementOfSeq
<1>2. \A i \in 1..k : i \in 1..Len(ss)
  BY <1>1
<1>3. p \in Seq(Stmts) /\ Len(p) = k /\ \A i \in 1..k : p[i] = ss[i]
  BY <1>1, <1>2, SubSeqProperties
<1> HIDE DEF p
<1>4. OnlyMerges(p)
  BY <1>2, <1>3 DEF OnlyMerges
<1> QED
  BY <1>3, <1>4, MergesOnly DEF p

InsertsOrDeletes == \E i \in DOMAIN batch : log[batch[i]].op \in {"INSERT", "DELETE"}

LEMMA StepNotStale ==
  ASSUME SInv, [Next]_vars, row.there, ~InsertsOrDeletes
  PROVE  row'.date >= row.date
<1>1. /\ GoodLog /\ batch \in Seq(Numbers) /\ row \in Rows
      /\ \A i \in DOMAIN batch : batch[i] \in DOMAIN log /\ log[batch[i]].op \notin {"INSERT", "DELETE"}
  BY SInvFacts DEF SInv, TypeOK, BatchInv, InsertsOrDeletes
<1>2. ASSUME NEW rs \in SortRecords(Held), NEW seen \in BOOLEAN,
             NEW k \in 0..Len(Query(CombineRecords(rs), seen))
      PROVE  /\ ApplyAll(row, Query(CombineRecords(rs), seen)).date >= row.date
             /\ ApplyAll(row, SubSeq(Query(CombineRecords(rs), seen), 1, k)).date >= row.date
  BY <1>1, FlushType, UpdatesOnly, PrefixMerges
<1>3. CASE row' = row
  BY <1>1, <1>3, RowFields
<1>4. ASSUME pc = "exec" PROVE \E rs \in SortRecords(Held), seen \in BOOLEAN : plan.query = Query(CombineRecords(rs), seen)
  BY <1>4 DEF SInv, BatchInv
<1>5. CASE Exec
  <2>1. PICK rs \in SortRecords(Held), seen \in BOOLEAN : plan.query = Query(CombineRecords(rs), seen)
    BY <1>4, <1>5 DEF Exec
  <2>2. 0 \in 0..Len(Query(CombineRecords(rs), seen))
    BY FlushType, LenProperties
  <2> QED
    BY <1>2, <1>5, <2>1, <2>2 DEF Exec
<1>6. CASE ExecFails
  <2>1. PICK rs \in SortRecords(Held), seen \in BOOLEAN : plan.query = Query(CombineRecords(rs), seen)
    BY <1>4, <1>6 DEF ExecFails
  <2> QED
    BY <1>2, <1>6, <2>1 DEF ExecFails
<1>7. CASE StopFlushes
  <2>1. recs = Held /\ marker \in BOOLEAN
    BY <1>7 DEF SInv, BatchInv, TypeOK, StopFlushes
  <2>2. PICK rs \in SortRecords(Held) :
          LET p == PlanFlush(CombineRecords(rs), marker)
          IN  \/ row' = ApplyAll(row, p.query)
              \/ \E n \in 0..Len(p.query) : row' = ApplyAll(row, SubSeq(p.query, 1, n))
    BY <1>7, <2>1 DEF StopFlushes
  <2>3. /\ PlanFlush(CombineRecords(rs), marker).query = Query(CombineRecords(rs), marker)
        /\ 0 \in 0..Len(Query(CombineRecords(rs), marker))
    BY <2>1, FlushType, LenProperties
  <2> QED
    BY <1>2, <2>1, <2>2, <2>3
<1>8. CASE ~(Exec \/ ExecFails \/ StopFlushes)
  <2>1. row' = row
    BY <1>8 DEF Next, vars, Publish, Work, Start, Process, FlushIdle, Plan, SetMarkers,
                DeleteMarkers, Ack, AckFails, Crash, MarkerExpires
  <2> QED
    BY <1>3, <2>1
<1> QED
  BY <1>5, <1>6, <1>7, <1>8

(***************************************************************************)
(* In whatever order events arrive, a flush of updates, whole or in part,  *)
(* never takes the row back in time.                                       *)
(***************************************************************************)
THEOREM SnowflakeNoStaleUpdate == Spec => NoStaleUpdate
<1>1. SInv /\ [Next]_vars =>
        [(row.there /\ row'.there /\ row'.date < row.date)
           => \E i \in DOMAIN batch : log[batch[i]].op \in {"INSERT", "DELETE"}]_vars
  <2> SUFFICES ASSUME SInv, [Next]_vars, row.there, row'.date < row.date, ~InsertsOrDeletes PROVE FALSE
    BY DEF InsertsOrDeletes
  <2>1. row'.date >= row.date
    BY StepNotStale
  <2>2. row.date \in Nat /\ row'.date \in Nat
    <3>1. row \in Rows /\ row' \in Rows
      BY NextSInv DEF SInv, TypeOK
    <3> QED
      BY <3>1, RowFields
  <2> QED
    BY <2>1, <2>2
<1> QED
  BY <1>1, SInvHolds, PTL DEF Spec, NoStaleUpdate
=============================================================================
