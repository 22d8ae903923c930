-------------------------- MODULE MCImportRecovery --------------------------
(* Small instances of ImportRecovery for TLC. *)
EXTENDS ImportRecovery, TLC

CONSTANTS a, b, c

Full == {{}}
Overlapping == {{}, {a}}
Disjoint == {{a}, {b, c}}
=============================================================================
