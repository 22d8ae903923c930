------------------------------ MODULE MCKafka ------------------------------
(* Two rows in different partitions; both move when the topic grows. *)
EXTENDS Kafka

CONSTANTS r1, r2

MCHash == (r1 :> 3) @@ (r2 :> 4)
=============================================================================
