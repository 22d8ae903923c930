---------------------------- MODULE AtLeastOnce ----------------------------
(***************************************************************************)
(* What the streaming worker promises, without queues, batches, drivers,   *)
(* connections or processes: change events are published, rows reach the   *)
(* destination (possibly more than once), and an event is settled with the *)
(* server only when there is nothing left to do for it.                    *)
(*                                                                         *)
(* Consumer implements this specification.                                 *)
(***************************************************************************)
EXTENDS Naturals, Sequences

CONSTANTS
  Keys,      \* the primary keys the change events are about
  MaxMsgs    \* bound: change events published

VARIABLES
  log,       \* the change events published so far
  written,   \* the ones the destination has taken at least once
  acked      \* the ones settled with the server

vars == <<log, written, acked>>

Rows == {s \in 1..Len(log) : log[s].kind = "row"}
Skipped == {s \in 1..Len(log) : log[s].kind = "skip"}

Init ==
  /\ log = <<>>
  /\ written = {}
  /\ acked = {}

Publish ==
  /\ Len(log) < MaxMsgs
  /\ \E k \in Keys, kind \in {"row", "skip", "bad"} :
       log' = Append(log, [key |-> k, kind |-> kind])
  /\ UNCHANGED <<written, acked>>

(* The destination takes some rows, again or for the first time.  Only      *)
(* rows are ever written: never a skipped or an undecodable event.          *)
Write ==
  /\ \E S \in SUBSET Rows : written' = written \cup S
  /\ UNCHANGED <<log, acked>>

(* An event is settled: a row after it was written, a skipped event freely, *)
(* an undecodable event never.                                              *)
Settle ==
  /\ \E s \in Skipped \cup (Rows \cap written) : acked' = acked \cup {s}
  /\ UNCHANGED <<log, written>>

Next == Publish \/ Write \/ Settle

Spec == Init /\ [][Next]_vars
=============================================================================
