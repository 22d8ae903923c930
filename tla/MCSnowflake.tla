---------------------------- MODULE MCSnowflake ----------------------------
(* TLC's instance of Snowflake. *)
EXTENDS Snowflake
=============================================================================
