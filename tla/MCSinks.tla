------------------------------ MODULE MCSinks ------------------------------
(* The S3, file and EventHub drivers on a small instance. *)
EXTENDS Sinks
=============================================================================
