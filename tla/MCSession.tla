----------------------------- MODULE MCSession -----------------------------
(* The control plane's sessions on a small instance. *)
EXTENDS Session
=============================================================================
