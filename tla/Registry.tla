------------------------------ MODULE Registry ------------------------------
(***************************************************************************)
(* The schema registry of a worker process for one table                   *)
(* (eds/registry/__init__.py) over the tracker, a key-value file that      *)
(* outlives the process (eds/tracker/__init__.py), and an in-memory cache  *)
(* that does not (eds/util/cache.py).                                      *)
(*                                                                         *)
(* The tracker has two kinds of key, both without expiry:                  *)
(* "registry:<table>:version" and "registry:<table>-<version>".  The cache *)
(* holds the same keys for a day.  A schema that is cached is also in the  *)
(* tracker, so the cache of schemas only saves a read and is left out.     *)
(***************************************************************************)
EXTENDS Naturals

CONSTANT MaxVersion   \* bound: model versions the API publishes

ASSUME VersionAssumption == MaxVersion \in Nat \ {0}

Versions == 1..MaxVersion
NoVersion == 0

VARIABLES
  latest,    \* what the API lists for the table now, NoVersion before it does
  trackVer,  \* tracker: the table's recorded version, or NoVersion
  trackSch,  \* tracker: the versions whose schema is stored
  cacheVer   \* cache: the recorded version, or NoVersion

trackerVars == <<trackVer, trackSch>>
registryVars == <<latest, trackVer, trackSch, cacheVer>>

RegistryInit ==
  /\ latest \in 0..1
  /\ trackVer = NoVersion
  /\ trackSch = {}
  /\ cacheVer = NoVersion

RegistryTypeOK ==
  /\ latest \in 0..MaxVersion
  /\ trackVer \in 0..MaxVersion
  /\ trackSch \subseteq Versions
  /\ cacheVer \in 0..MaxVersion

(* Mutant: the schemas are stored, the versions are not recorded. *)
MutantSeedSchemasOnly ==
  /\ trackSch' = IF latest = NoVersion THEN trackSch ELSE trackSch \cup {latest}
  /\ cacheVer' = NoVersion
  /\ UNCHANGED trackVer

(* new_api_registry: the schemas the API lists are stored, and their versions *)
(* recorded as the tables' versions, whatever the destination looks like; the *)
(* new cache is empty, since what it is seeded with expires at once.          *)
SeedRegistry ==
  /\ trackVer' = IF latest = NoVersion THEN trackVer ELSE latest
  /\ trackSch' = IF latest = NoVersion THEN trackSch ELSE trackSch \cup {latest}
  /\ cacheVer' = NoVersion

(* get_table_version: the cache, else the tracker. *)
TableVersion == IF cacheVer # NoVersion THEN cacheVer ELSE trackVer

(* ... and a hit in the tracker is cached again. *)
CacheTableVersion == cacheVer' = TableVersion

(* set_table_version: the cache and then the tracker. *)
SetTableVersion(v) == cacheVer' = v /\ trackVer' = v

(* get_schema answers without the API. *)
SchemaStored(v) == v \in trackSch

(* get_schema for the versions V: the ones that are not stored are fetched    *)
(* from the API, once and without a retry, and stored.                        *)
StoreSchemas(V) == trackSch' = trackSch \cup V

(* An entry's day is over, on access or by the sweeper; or the process ends. *)
DropCache == cacheVer' = NoVersion
=============================================================================
