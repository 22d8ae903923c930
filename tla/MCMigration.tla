---------------------------- MODULE MCMigration ----------------------------
(* Three model versions of a table: a column is added, then one removed.    *)
EXTENDS Migration

MCCols == <<{"x"}, {"x", "c"}, {"c"}>>

Config(d, m, omit, ordered, n, req) ==
  [dialect |-> d, mode |-> m, omit |-> omit, ordered |-> ordered, events |-> n,
   required |-> req]

Nullable == <<{}, {}, {}>>
NewRequired == <<{}, {"c"}, {"c"}>>    \* an event of version 1 lacks it
OldRequired == <<{"x"}, {"x"}, {}>>    \* an event of version 3 lacks it

MCConfigs ==
  {Config("postgresql", "upsert", TRUE, TRUE, 3, Nullable),
   Config("postgresql", "upsert", FALSE, TRUE, 3, NewRequired),
   Config("mysql", "upsert", TRUE, TRUE, 3, OldRequired),
   Config("sqlserver", "upsert", TRUE, TRUE, 3, NewRequired),
   Config("postgresql", "append", TRUE, FALSE, 2, NewRequired),
   Config("sqlserver", "append", TRUE, TRUE, 2, Nullable),
   Config("mysql", "append", TRUE, FALSE, 2, Nullable),
   Config("snowflake", "append", TRUE, TRUE, 2, Nullable),
   Config("snowflake", "append", TRUE, FALSE, 2, Nullable)}

ASSUME InstanceAssumption == NoColumnReturns /\ UpsertsInOrder
=============================================================================
