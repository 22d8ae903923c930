----------------------- MODULE ImportRecoveryProofs -----------------------
(***************************************************************************)
(* ImportRecovery's safety for every set of tables, every set of           *)
(* selections, with tables in common or not, and every number of retries.  *)
(* The inductive invariant follows a table through a run: asked for,       *)
(* listed by a poll, ready, written, marked, imported.  No table that was  *)
(* asked for ever leaves that path, and the drops and loads of an attempt  *)
(* stay on the part of it before the marker.                               *)
(***************************************************************************)
EXTENDS ImportRecovery, TLAPS

Listed == {t \in Tables : status[t] # "None"}
Attempting == Stages \ {"persist", "record", "clear", "clearFailed"}
LoadStages == {"download", "connect", "create", "load", "replay", "mark",
               "completed", "markAll", "absorb"}

(* Tables of this attempt that are written and may be marked. *)
Fresh == IF pc = "absorb" THEN ready
         ELSE IF pc = "markAll" \/ (pc \in {"load", "replay", "mark"} /\ Flusher)
              THEN ready \ queue
              ELSE {}

(* A run works on tables it was asked for, and loses sight of none. *)
ScopeInv ==
  /\ pc # "idle" => only \in Selections /\ imported \subseteq Candidate(only)
  /\ pc \in Attempting =>
       /\ initial \subseteq Candidate(only) /\ working \subseteq Candidate(only)
       /\ exportTables \subseteq Candidate(only) /\ Listed \subseteq Candidate(only)
       /\ initial = {} => only = {}
       /\ working \cap imported = {}
       /\ ~learned => initial \cap imported = {} /\ (initial = {} => imported = {})
       /\ learned => Candidate(only) \subseteq imported \cup working
       /\ ~learned => Candidate(only) \subseteq imported \cup Candidate(initial)
       /\ ~needPost => Candidate(only) \subseteq imported \cup Listed

(* When the next job is posted, and for what. *)
PostInv ==
  /\ pc = "post" => needPost
  /\ pc \in LoadStages \cup {"poll"} => ~needPost
  /\ pc \in Attempting /\ ~needPost => jobId > 0
  /\ pc \in Attempting /\ needPost =>
       Listed = {} \/ expired \/ misread \/ failed_tables # {}
  /\ pc \in {"post", "decide", "backoff"} =>
       IF learned THEN working # {} => exportTables = working ELSE exportTables = initial
  /\ pc \in {"post", "backoff"} => ~Done
  /\ pc = "decide" => learned \/ initial = {}

(* How far the load of this attempt has come. *)
LoadInv ==
  /\ pc \in LoadStages =>
       learned /\ ready \subseteq working /\ working \ ready \subseteq failed_tables
  /\ pc \in {"create", "load", "replay", "mark", "markAll"} => queue \subseteq ready
  /\ pc = "replay" => cur \subseteq queue
  /\ pc = "mark" => cur \subseteq ready \ queue
  /\ pc \in {"create", "mark"} => Flusher
  /\ pc \in {"completed", "markAll"} => ~Flusher
  /\ pc = "markAll" => \A t \in ready : dest[t] = jobId \/ t \in lost
  /\ \A t \in Fresh : dest[t] = jobId \/ t \in lost

(* A table another selection has marked is lost from the moment this run *)
(* has dropped it until it is complete again.                            *)
DropInv ==
  /\ \A t \in lost : ~Loaded(t)
  /\ pc = "create" => \A t \in ready \ queue : Foreign(t) => t \in lost
  /\ pc \in {"load", "replay", "mark"} /\ Flusher =>
       \A t \in queue : Foreign(t) => t \in lost

(* What the run counts as imported is loaded, and nothing else is marked. *)
MarkInv ==
  /\ \A s \in Selections : markers[s] \subseteq Candidate(s)
  /\ pc \in Attempting => markers[only] \subseteq imported \cup Fresh
  /\ pc # "idle" => \A t \in imported : Kept(t)

(* Cutoffs lag behind snapshots. *)
CutoffInv ==
  /\ \A t \in Tables : dest[t] <= jobId /\ cutoffs[t] <= jobId /\ info[t] <= jobId
  /\ \A t \in Tables : Loaded(t) => cutoffs[t] <= dest[t]
  /\ pc # "idle" => \A t \in Tables :
       info[t] > 0 => t \in imported /\ (info[t] <= dest[t] \/ t \in lost)
  /\ pc = "record" => cutoffs = info

(* The end of a run says what happened. *)
EndInv ==
  /\ pc \in Attempting => gaveUp = {}
  /\ pc \in {"persist", "record"} /\ gaveUp # {} =>
       Star \in gaveUp \/ Candidate(only) \subseteq imported \cup gaveUp
  /\ pc = "persist" /\ gaveUp = {} => Candidate(only) \subseteq imported
  /\ pc = "record" => gaveUp # {}
  /\ pc \in {"clear", "clearFailed"} => Candidate(only) \subseteq imported
  /\ pc # "idle" => exit = "none"

(* The invariant: these parts, and the properties they support. *)
IInv ==
  /\ ScopeInv /\ PostInv /\ LoadInv /\ DropInv /\ MarkInv /\ CutoffInv /\ EndInv
  /\ MarkedIsLoaded /\ SuccessMeansLoaded /\ NoSilentGiveUp /\ CutoffNotAhead
-----------------------------------------------------------------------------
(* The ladder sleeps only if it has attempts left. *)
AttemptsLeft == pc = "backoff" => ~Exhausted

(* Every fault comes from a stage that can fail, and expiry is reported *)
(* only by a download, whose URLs have expired or which is misread.     *)
LEMMA FaultsKnown ==
  ASSUME NEW f \in Faults
  PROVE  /\ pc \in {"post", "poll", "download", "connect", "create", "replay", "completed"}
         /\ f[2] = "DownloadExpired" => pc = "download" /\ (expired \/ f[1] = "misread")
BY DEF Faults

(* Every step keeps the types, and no run has more attempts than the ladder *)
(* has.                                                                     *)
LEMMA TypeKept ==
  ASSUME TypeOK, AttemptsLeft, [Next]_vars
  PROVE  TypeOK' /\ AttemptsLeft'
<1>1. ASSUME NEW s \in Selections, Start(s) PROVE TypeOK' /\ AttemptsLeft'
  <2>1. StoredOK'
    BY <1>1 DEF TypeOK, StoredOK, persistent, target, Start, Completed
  <2>2. ServiceOK'
    BY <1>1 DEF TypeOK, ServiceOK, Statuses, Start, Completed
  <2>3. LoopOK'
    <3>1. s \in SUBSET Tables /\ Candidate(s) \in SUBSET Tables
      BY SelectionsAssumption DEF SelectionsAssumption, Candidate
    <3>2. imported' \in SUBSET Tables /\ initial' \in SUBSET Tables
      BY <1>1, <3>1 DEF Start, Completed
    <3>3. /\ only' \in SUBSET Tables /\ working' \in SUBSET Tables
          /\ exportTables' \in SUBSET Tables
      BY <1>1, <3>1, <3>2 DEF Start
    <3>4. pc' \in Stages \cup {"idle"} /\ runs' \in Nat /\ attempt' \in 0 .. MaxRetries + 1
      BY <1>1, RetriesAssumption
      DEF Start, Stages, RetriesAssumption, TypeOK, LoopOK
    <3>5. learned' \in BOOLEAN /\ needPost' \in BOOLEAN /\ cancel' \in BOOLEAN
      BY <1>1 DEF Start
    <3>6. QED BY <3>2, <3>3, <3>4, <3>5 DEF LoopOK
  <2>4. LoadOK'
    BY <1>1 DEF TypeOK, LoadOK, NoTables, Start, Completed
  <2>5. OutcomeOK'
    BY <1>1 DEF TypeOK, OutcomeOK, Start, Completed
  <2>6. AttemptsLeft'
    BY <1>1 DEF TypeOK, AttemptsLeft, Start, Completed
  <2>7. QED BY <2>1, <2>2, <2>3, <2>4, <2>5, <2>6 DEF TypeOK
<1>2. CASE StageFails
  <2>1. StoredOK' /\ ServiceOK' /\ LoadOK'
    BY <1>2
    DEF TypeOK, StoredOK, ServiceOK, LoadOK, persistent, target, service, loading,
        StageFails, is_recoverable, ScopeKnown, MustPost, Ends
  <2>2. LoopOK'
    BY <1>2
    DEF TypeOK, LoopOK, Stages, scope, run, StageFails, is_recoverable, ScopeKnown,
        MustPost, Ends
  <2>3. OutcomeOK'
    BY <1>2, FaultsKnown DEF TypeOK, OutcomeOK, StageFails, Ends
  <2>4. AttemptsLeft'
    BY <1>2
    DEF TypeOK, AttemptsLeft, StageFails, is_recoverable, ScopeKnown, MustPost, Ends
  <2>5. QED BY <2>1, <2>2, <2>3, <2>4 DEF TypeOK
<1>3. CASE Post
  <2>1. StoredOK' /\ LoadOK' /\ OutcomeOK'
    BY <1>3
    DEF TypeOK, StoredOK, LoadOK, OutcomeOK, persistent, target, loading, outcome, Post
  <2>2. ServiceOK'
    <3>1. status' \in [Tables -> Statuses]
      BY <1>3 DEF Post, Statuses
    <3>2. jobId' \in Nat
      BY <1>3 DEF Post, TypeOK, ServiceOK
    <3>3. expired' \in BOOLEAN
      BY <1>3 DEF Post
    <3>4. QED BY <3>1, <3>2, <3>3 DEF ServiceOK
  <2>3. LoopOK'
    BY <1>3 DEF TypeOK, LoopOK, Stages, run, Post
  <2>4. AttemptsLeft'
    BY <1>3 DEF TypeOK, AttemptsLeft, Post
  <2>5. QED BY <2>1, <2>2, <2>3, <2>4 DEF TypeOK
<1>4. ASSUME NEW t \in Tables, ServiceExports(t) PROVE TypeOK' /\ AttemptsLeft'
  <2>1. StoredOK' /\ LoopOK' /\ LoadOK' /\ OutcomeOK' /\ AttemptsLeft'
    BY <1>4
    DEF TypeOK, StoredOK, LoopOK, LoadOK, OutcomeOK, AttemptsLeft, Exhausted,
        persistent, target, scope, loading, run, outcome, ServiceExports
  <2>2. ServiceOK'
    BY <1>4 DEF TypeOK, ServiceOK, Statuses, ServiceExports
  <2>3. QED BY <2>1, <2>2 DEF TypeOK
<1>5. CASE ServiceExpires
  <2>1. StoredOK' /\ LoopOK' /\ LoadOK' /\ OutcomeOK' /\ AttemptsLeft'
    BY <1>5
    DEF TypeOK, StoredOK, LoopOK, LoadOK, OutcomeOK, AttemptsLeft, Exhausted,
        persistent, target, scope, loading, run, outcome, ServiceExpires
  <2>2. ServiceOK'
    BY <1>5 DEF TypeOK, ServiceOK, ServiceExpires
  <2>3. QED BY <2>1, <2>2 DEF TypeOK
<1>6. CASE Poll
  <2>1. StoredOK' /\ ServiceOK' /\ OutcomeOK'
    BY <1>6
    DEF TypeOK, StoredOK, ServiceOK, OutcomeOK, persistent, target, service, outcome,
        Poll, ScopeAfterPoll
  <2>2. LoopOK'
    BY <1>6
    DEF TypeOK, LoopOK, Stages, Present, failed_tables, run, Poll, ScopeAfterPoll
  <2>3. LoadOK'
    BY <1>6 DEF TypeOK, LoadOK, Present, failed_tables, Poll, ScopeAfterPoll
  <2>4. AttemptsLeft'
    BY <1>6 DEF TypeOK, AttemptsLeft, Poll, ScopeAfterPoll
  <2>5. QED BY <2>1, <2>2, <2>3, <2>4 DEF TypeOK
<1>7. CASE Download
  <2>1. StoredOK' /\ ServiceOK' /\ LoadOK' /\ OutcomeOK'
    BY <1>7
    DEF TypeOK, StoredOK, ServiceOK, LoadOK, OutcomeOK, persistent, target, service,
        loading, outcome, Download
  <2>2. LoopOK'
    BY <1>7 DEF TypeOK, LoopOK, Stages, scope, run, Download
  <2>3. AttemptsLeft'
    BY <1>7 DEF TypeOK, AttemptsLeft, Download
  <2>4. QED BY <2>1, <2>2, <2>3 DEF TypeOK
<1>8. CASE Cancelled
  <2>1. StoredOK' /\ ServiceOK' /\ LoadOK'
    BY <1>8
    DEF TypeOK, StoredOK, ServiceOK, LoadOK, persistent, target, service, loading,
        Cancelled, Ends
  <2>2. LoopOK'
    BY <1>8 DEF TypeOK, LoopOK, Stages, scope, run, Cancelled, Ends
  <2>3. OutcomeOK'
    BY <1>8 DEF TypeOK, OutcomeOK, Cancelled, Ends
  <2>4. AttemptsLeft'
    BY <1>8 DEF TypeOK, AttemptsLeft, Cancelled, Ends
  <2>5. QED BY <2>1, <2>2, <2>3, <2>4 DEF TypeOK
<1>9. CASE Connect
  <2>1. StoredOK' /\ ServiceOK' /\ OutcomeOK'
    BY <1>9
    DEF TypeOK, StoredOK, ServiceOK, OutcomeOK, persistent, target, service, outcome,
        Connect
  <2>2. LoopOK'
    BY <1>9 DEF TypeOK, LoopOK, Stages, scope, run, Connect
  <2>3. LoadOK'
    BY <1>9 DEF TypeOK, LoadOK, Connect
  <2>4. AttemptsLeft'
    BY <1>9 DEF TypeOK, AttemptsLeft, Connect
  <2>5. QED BY <2>1, <2>2, <2>3, <2>4 DEF TypeOK
<1>10. CASE create_datasource
  <2>1. ServiceOK' /\ OutcomeOK'
    BY <1>10 DEF TypeOK, ServiceOK, OutcomeOK, service, outcome, create_datasource
  <2>2. StoredOK'
    BY <1>10 DEF TypeOK, StoredOK, LoadOK, Partial, persistent, target,
                 create_datasource
  <2>3. LoopOK'
    BY <1>10 DEF TypeOK, LoopOK, Stages, scope, run, create_datasource
  <2>4. LoadOK'
    BY <1>10 DEF TypeOK, LoadOK, create_datasource
  <2>5. AttemptsLeft'
    BY <1>10 DEF TypeOK, AttemptsLeft, create_datasource
  <2>6. QED BY <2>1, <2>2, <2>3, <2>4, <2>5 DEF TypeOK
<1>11. CASE Replay
  <2>1. ServiceOK' /\ OutcomeOK'
    BY <1>11 DEF TypeOK, ServiceOK, OutcomeOK, service, outcome, Replay
  <2>2. StoredOK'
    BY <1>11 DEF TypeOK, StoredOK, LoadOK, Partial, persistent, target, Replay
  <2>3. LoopOK'
    BY <1>11 DEF TypeOK, LoopOK, Stages, scope, run, Replay
  <2>4. LoadOK'
    BY <1>11 DEF TypeOK, LoadOK, Replay
  <2>5. AttemptsLeft'
    BY <1>11 DEF TypeOK, AttemptsLeft, Replay
  <2>6. QED BY <2>1, <2>2, <2>3, <2>4, <2>5 DEF TypeOK
<1>12. CASE flush_imported
  <2>1. ServiceOK' /\ OutcomeOK'
    BY <1>12 DEF TypeOK, ServiceOK, OutcomeOK, service, outcome, flush_imported
  <2>2. StoredOK'
    BY <1>12 DEF TypeOK, StoredOK, ServiceOK, persistent, target, flush_imported
  <2>3. LoopOK'
    BY <1>12 DEF TypeOK, LoopOK, Stages, scope, run, flush_imported
  <2>4. LoadOK'
    BY <1>12 DEF TypeOK, LoadOK, flush_imported
  <2>5. AttemptsLeft'
    BY <1>12 DEF TypeOK, AttemptsLeft, flush_imported
  <2>6. QED BY <2>1, <2>2, <2>3, <2>4, <2>5 DEF TypeOK
<1>13. CASE write_progress_marker
  <2>1. ServiceOK' /\ OutcomeOK'
    BY <1>13
    DEF TypeOK, ServiceOK, OutcomeOK, service, outcome, write_progress_marker
  <2>2. StoredOK'
    BY <1>13 DEF TypeOK, StoredOK, target, LoadOK, LoopOK, write_progress_marker
  <2>3. LoopOK'
    BY <1>13 DEF TypeOK, LoopOK, Stages, scope, run, write_progress_marker
  <2>4. LoadOK'
    BY <1>13 DEF TypeOK, LoadOK, write_progress_marker
  <2>5. AttemptsLeft'
    BY <1>13 DEF TypeOK, AttemptsLeft, write_progress_marker
  <2>6. QED BY <2>1, <2>2, <2>3, <2>4, <2>5 DEF TypeOK
<1>14. CASE AllReplayed
  <2>1. StoredOK' /\ ServiceOK' /\ LoadOK' /\ OutcomeOK'
    BY <1>14
    DEF TypeOK, StoredOK, ServiceOK, LoadOK, OutcomeOK, persistent, target, service,
        loading, outcome, AllReplayed
  <2>2. LoopOK'
    BY <1>14 DEF TypeOK, LoopOK, Stages, scope, run, AllReplayed
  <2>3. AttemptsLeft'
    BY <1>14 DEF TypeOK, AttemptsLeft, AllReplayed
  <2>4. QED BY <2>1, <2>2, <2>3 DEF TypeOK
<1>15. CASE import_completed
  <2>1. ServiceOK' /\ OutcomeOK'
    BY <1>15 DEF TypeOK, ServiceOK, OutcomeOK, service, outcome, import_completed
  <2>2. StoredOK'
    BY <1>15
    DEF TypeOK, StoredOK, ServiceOK, LoadOK, Partial, persistent, target,
        import_completed
  <2>3. LoopOK'
    BY <1>15 DEF TypeOK, LoopOK, Stages, scope, run, import_completed
  <2>4. LoadOK'
    BY <1>15 DEF TypeOK, LoadOK, import_completed
  <2>5. AttemptsLeft'
    BY <1>15 DEF TypeOK, AttemptsLeft, import_completed
  <2>6. QED BY <2>1, <2>2, <2>3, <2>4, <2>5 DEF TypeOK
<1>16. CASE MarkAll
  <2>1. ServiceOK' /\ OutcomeOK'
    BY <1>16 DEF TypeOK, ServiceOK, OutcomeOK, service, outcome, MarkAll
  <2>2. StoredOK'
    BY <1>16 DEF TypeOK, StoredOK, target, LoadOK, LoopOK, MarkAll
  <2>3. LoopOK'
    BY <1>16 DEF TypeOK, LoopOK, Stages, scope, run, MarkAll
  <2>4. LoadOK'
    BY <1>16 DEF TypeOK, LoadOK, MarkAll
  <2>5. AttemptsLeft'
    BY <1>16 DEF TypeOK, AttemptsLeft, MarkAll
  <2>6. QED BY <2>1, <2>2, <2>3, <2>4, <2>5 DEF TypeOK
<1>17. CASE Absorb
  <2>1. StoredOK' /\ ServiceOK' /\ OutcomeOK'
    BY <1>17
    DEF TypeOK, StoredOK, ServiceOK, OutcomeOK, persistent, target, service, outcome,
        Absorb
  <2>2. LoopOK'
    <3>1. imported' \in SUBSET Tables /\ working' \in SUBSET Tables
      BY <1>17 DEF Absorb, TypeOK, LoopOK, LoadOK
    <3>2. exportTables' \in SUBSET Tables /\ needPost' \in BOOLEAN
      BY <1>17, <3>1 DEF Absorb, TypeOK, LoopOK
    <3>3. /\ pc' \in Stages \cup {"idle"}
          /\ UNCHANGED <<only, initial, runs, learned, cancel, attempt>>
      BY <1>17 DEF Absorb, Stages, run
    <3>4. QED BY <3>1, <3>2, <3>3 DEF TypeOK, LoopOK
  <2>3. LoadOK'
    BY <1>17 DEF TypeOK, LoadOK, ServiceOK, loading, Absorb
  <2>4. AttemptsLeft'
    BY <1>17 DEF TypeOK, AttemptsLeft, Absorb
  <2>5. QED BY <2>1, <2>2, <2>3, <2>4 DEF TypeOK
<1>18. CASE Decide
  <2>1. StoredOK' /\ ServiceOK' /\ LoadOK'
    BY <1>18
    DEF TypeOK, StoredOK, ServiceOK, LoadOK, persistent, target, service, loading,
        Decide
  <2>2. LoopOK'
    BY <1>18 DEF TypeOK, LoopOK, Stages, scope, run, Decide
  <2>3. OutcomeOK'
    BY <1>18 DEF TypeOK, OutcomeOK, LoopOK, Decide
  <2>4. AttemptsLeft'
    BY <1>18 DEF TypeOK, AttemptsLeft, Exhausted, Decide
  <2>5. QED BY <2>1, <2>2, <2>3, <2>4 DEF TypeOK
<1>19. CASE Backoff
  <2>1. StoredOK' /\ ServiceOK' /\ LoadOK'
    BY <1>19
    DEF TypeOK, StoredOK, ServiceOK, LoadOK, persistent, target, service, loading,
        Backoff, NextAttempt
  <2>2. LoopOK'
    <3>1. attempt' \in 0 .. MaxRetries + 1
      BY <1>19, RetriesAssumption
      DEF Backoff, NextAttempt, AttemptsLeft, Exhausted, TypeOK, LoopOK,
          RetriesAssumption
    <3>2. pc' \in Stages \cup {"idle"}
      BY <1>19 DEF Backoff, Stages
    <3>3. UNCHANGED <<run, imported, scope, cancel>>
      BY <1>19 DEF Backoff
    <3>4. QED BY <3>1, <3>2, <3>3 DEF TypeOK, LoopOK, run, scope
  <2>3. OutcomeOK'
    BY <1>19 DEF TypeOK, OutcomeOK, outcome, Backoff, NextAttempt
  <2>4. AttemptsLeft'
    BY <1>19 DEF TypeOK, AttemptsLeft, Exhausted, Backoff, NextAttempt
  <2>5. QED BY <2>1, <2>2, <2>3, <2>4 DEF TypeOK
<1>20. CASE PersistCutoffs
  <2>1. ServiceOK' /\ LoadOK' /\ OutcomeOK'
    BY <1>20
    DEF TypeOK, ServiceOK, LoadOK, OutcomeOK, service, loading, outcome, PersistCutoffs
  <2>2. StoredOK'
    BY <1>20 DEF TypeOK, StoredOK, target, LoadOK, PersistCutoffs
  <2>3. LoopOK'
    BY <1>20 DEF TypeOK, LoopOK, Stages, scope, run, PersistCutoffs
  <2>4. AttemptsLeft'
    BY <1>20 DEF TypeOK, AttemptsLeft, PersistCutoffs
  <2>5. QED BY <2>1, <2>2, <2>3, <2>4 DEF TypeOK
<1>21. CASE RecordFailed
  <2>1. ServiceOK' /\ LoadOK'
    BY <1>21 DEF TypeOK, ServiceOK, LoadOK, service, loading, RecordFailed, Ends
  <2>2. StoredOK'
    BY <1>21 DEF TypeOK, StoredOK, target, OutcomeOK, RecordFailed, Ends
  <2>3. LoopOK'
    BY <1>21 DEF TypeOK, LoopOK, Stages, scope, run, RecordFailed, Ends
  <2>4. OutcomeOK'
    BY <1>21 DEF TypeOK, OutcomeOK, RecordFailed, Ends
  <2>5. AttemptsLeft'
    BY <1>21 DEF TypeOK, AttemptsLeft, RecordFailed, Ends
  <2>6. QED BY <2>1, <2>2, <2>3, <2>4, <2>5 DEF TypeOK
<1>22. CASE ClearMarkers
  <2>1. ServiceOK' /\ LoadOK' /\ OutcomeOK'
    BY <1>22
    DEF TypeOK, ServiceOK, LoadOK, OutcomeOK, service, loading, outcome, ClearMarkers
  <2>2. StoredOK'
    BY <1>22 DEF TypeOK, StoredOK, target, ClearMarkers
  <2>3. LoopOK'
    BY <1>22 DEF TypeOK, LoopOK, Stages, scope, run, ClearMarkers
  <2>4. AttemptsLeft'
    BY <1>22 DEF TypeOK, AttemptsLeft, ClearMarkers
  <2>5. QED BY <2>1, <2>2, <2>3, <2>4 DEF TypeOK
<1>23. CASE ClearFailed
  <2>1. ServiceOK' /\ LoadOK'
    BY <1>23 DEF TypeOK, ServiceOK, LoadOK, service, loading, ClearFailed, Ends
  <2>2. StoredOK'
    BY <1>23 DEF TypeOK, StoredOK, target, ClearFailed, Ends
  <2>3. LoopOK'
    BY <1>23 DEF TypeOK, LoopOK, Stages, scope, run, ClearFailed, Ends
  <2>4. OutcomeOK'
    BY <1>23 DEF TypeOK, OutcomeOK, ClearFailed, Ends
  <2>5. AttemptsLeft'
    BY <1>23 DEF TypeOK, AttemptsLeft, ClearFailed, Ends
  <2>6. QED BY <2>1, <2>2, <2>3, <2>4, <2>5 DEF TypeOK
<1>24. CASE Cancel
  <2>1. StoredOK' /\ ServiceOK' /\ LoadOK' /\ OutcomeOK' /\ AttemptsLeft'
    BY <1>24
    DEF TypeOK, StoredOK, ServiceOK, LoadOK, OutcomeOK, AttemptsLeft, Exhausted,
        persistent, target, service, loading, outcome, Cancel
  <2>2. LoopOK'
    BY <1>24 DEF TypeOK, LoopOK, scope, run, Cancel
  <2>3. QED BY <2>1, <2>2 DEF TypeOK
<1>25. CASE Crash
  <2>1. StoredOK' /\ ServiceOK' /\ LoadOK'
    BY <1>25
    DEF TypeOK, StoredOK, ServiceOK, LoadOK, persistent, target, service, loading,
        Crash, Ends
  <2>2. LoopOK'
    BY <1>25 DEF TypeOK, LoopOK, Stages, scope, run, Crash, Ends
  <2>3. OutcomeOK'
    BY <1>25 DEF TypeOK, OutcomeOK, Crash, Ends
  <2>4. AttemptsLeft'
    BY <1>25 DEF TypeOK, AttemptsLeft, Crash, Ends
  <2>5. QED BY <2>1, <2>2, <2>3, <2>4 DEF TypeOK
<1>26. CASE UNCHANGED vars
  BY <1>26
  DEF TypeOK, StoredOK, ServiceOK, LoopOK, LoadOK, OutcomeOK, AttemptsLeft, Exhausted,
      vars, persistent, target, service, scope, loading, run, outcome
<1>27. QED
  BY <1>1, <1>2, <1>3, <1>4, <1>5, <1>6, <1>7, <1>8, <1>9, <1>10, <1>11, <1>12,
     <1>13, <1>14, <1>15, <1>16, <1>17, <1>18, <1>19, <1>20, <1>21, <1>22, <1>23,
     <1>24, <1>25, <1>26
  DEF Next, Process, Service

-----------------------------------------------------------------------------

(* A run starts: the markers of its selection are true, so what it skips is *)
(* loaded.                                                                  *)
LEMMA StartKeeps ==
  ASSUME TypeOK, IInv, NEW s \in Selections, Start(s)
  PROVE  IInv'
<1>1. MarkedIsLoaded'
  BY DEF IInv, MarkedIsLoaded, Loaded, Kept, persistent, target, Start, Completed
<1>2. ScopeInv'
  BY DEF IInv, ScopeInv, Candidate, Listed, Attempting, Stages, persistent, target,
         Start, Completed
<1>3. PostInv'
  BY DEF IInv, PostInv, Listed, Attempting, LoadStages, Stages, failed_tables, Done,
         Start, Completed
<1>4. LoadInv'
  BY DEF IInv, LoadInv, target, LoadStages, Fresh, failed_tables, Start, Completed
<1>5. MarkInv'
  BY DEF IInv, MarkInv, MarkedIsLoaded, Loaded, Kept, persistent, target, Start,
         Completed
<1>6. CutoffInv'
  BY DEF IInv, CutoffInv, Loaded, NoTables, persistent, target, TypeOK, ServiceOK,
         Start
<1>7. EndInv'
  BY DEF IInv, EndInv, Candidate, Attempting, Stages, Star, Start, Completed
<1>8. SuccessMeansLoaded' /\ NoSilentGiveUp' /\ CutoffNotAhead'
  BY DEF IInv, SuccessMeansLoaded, Candidate, Loaded, Kept, NoSilentGiveUp, Star,
         persistent, target, CutoffNotAhead, Start, Completed
<1>9. DropInv'
  BY DEF IInv, DropInv, Foreign, Loaded, persistent, target, loading, run,
         Start
<1>10. QED
  BY <1>1, <1>2, <1>3, <1>4, <1>5, <1>6, <1>7, <1>8, <1>9 DEF IInv

(* A failed stage: what was marked before the failure counts as imported. *)
LEMMA StageFailsKeeps ==
  ASSUME TypeOK, IInv, StageFails
  PROVE  IInv'
<1>1. MarkedIsLoaded'
  BY FaultsKnown
  DEF IInv, MarkedIsLoaded, Loaded, Kept, persistent, target, StageFails,
      is_recoverable, ScopeKnown, MustPost, Ends
<1>2. ScopeInv'
  BY FaultsKnown
  DEF IInv, TypeOK, LoopOK, ScopeInv, LoadInv, target, MarkInv, Candidate, Listed,
      Attempting, LoadStages, Fresh, service, scope, run, StageFails, ScopeKnown,
      MustPost, Ends
<1>3. PostInv'
  <2>1. CASE pc' = "idle"
    BY <2>1 DEF PostInv, Attempting, LoadStages, Stages
  <2>2. CASE pc' # "idle"
    <3>1. PICK f \in Faults :
            /\ needPost' = MustPost(f[2]) /\ pc' = "decide" /\ learned' = ScopeKnown
            /\ exportTables' = IF learned' THEN working' ELSE initial
            /\ UNCHANGED <<service, initial>>
            /\ misread' = (misread \/ f[1] = "misread")
      BY <2>2 DEF StageFails, Ends, run
    <3>2. pc \in Attempting /\ (needPost' /\ ~needPost => expired \/ misread')
      BY <3>1, FaultsKnown DEF MustPost, Attempting, Stages
    <3>3. learned' \/ initial' = {}
      BY <3>1 DEF ScopeKnown
    <3>4. IF learned' THEN working' # {} => exportTables' = working'
                      ELSE exportTables' = initial'
      BY <3>1
    <3>5. needPost' => Listed' = {} \/ expired' \/ misread' \/ failed_tables' # {}
      BY <3>1, <3>2 DEF service, Listed, failed_tables, IInv, PostInv
    <3>6. ~needPost' => jobId' > 0
      BY <3>1, <3>2 DEF service, MustPost, IInv, PostInv
    <3>7. QED BY <3>1, <3>3, <3>4, <3>5, <3>6 DEF PostInv, LoadStages
  <2>3. QED BY <2>1, <2>2
<1>4. LoadInv'
  BY FaultsKnown
  DEF IInv, LoadInv, target, LoadStages, Fresh, failed_tables, service, scope, loading,
      StageFails, is_recoverable, ScopeKnown, MustPost, Ends
<1>5. MarkInv'
  BY FaultsKnown
  DEF IInv, PostInv, LoadInv, MarkInv, Attempting, LoadStages, Fresh, Stages, Loaded,
      Kept, persistent, target, run, StageFails, Ends
<1>6. CutoffInv'
  BY FaultsKnown
  DEF IInv, CutoffInv, Loaded, Kept, persistent, target, service, StageFails,
      is_recoverable, ScopeKnown, MustPost, Ends
<1>7. EndInv'
  BY FaultsKnown
  DEF IInv, EndInv, Candidate, Attempting, Stages, Star, run, StageFails,
      is_recoverable, ScopeKnown, MustPost, Ends
<1>8. SuccessMeansLoaded'
  BY FaultsKnown
  DEF IInv, SuccessMeansLoaded, Candidate, Loaded, target, Kept, run, StageFails,
      is_recoverable, ScopeKnown, MustPost, Ends
<1>9. NoSilentGiveUp'
  BY FaultsKnown
  DEF IInv, NoSilentGiveUp, Candidate, Loaded, Kept, Star, persistent, target, run,
      StageFails, is_recoverable, ScopeKnown, MustPost, Ends
<1>10. CutoffNotAhead'
  BY FaultsKnown
  DEF IInv, CutoffNotAhead, Candidate, persistent, target, run, StageFails,
      is_recoverable, ScopeKnown, MustPost, Ends
<1>11. DropInv'
  BY FaultsKnown
  DEF IInv, DropInv, Foreign, Loaded, persistent, target, loading, run,
      Ends, StageFails
<1>12. QED
  BY <1>1, <1>2, <1>3, <1>4, <1>5, <1>6, <1>7, <1>8, <1>9, <1>10, <1>11 DEF IInv

(* A new job lists the tables it was asked for; none of them is imported. *)
LEMMA PostKeeps ==
  ASSUME TypeOK, IInv, Post
  PROVE  IInv'
<1>1. MarkedIsLoaded'
  BY DEF IInv, MarkedIsLoaded, Loaded, Kept, persistent, target, Post
<1>2. ScopeInv'
  BY DEF IInv, TypeOK, LoopOK, ScopeInv, PostInv, Candidate, Listed, Attempting, Done,
         run, Post
<1>3. PostInv'
  BY DEF IInv, TypeOK, ServiceOK, PostInv, Post
<1>4. LoadInv'
  BY DEF IInv, LoadInv, target, LoadStages, Fresh, failed_tables, loading, Post
<1>5. MarkInv'
  BY DEF IInv, MarkInv, Candidate, Attempting, Fresh, Stages, Loaded, Kept, persistent,
         target, loading, run, Post
<1>6. CutoffInv'
  BY DEF IInv, TypeOK, StoredOK, ServiceOK, LoopOK, LoadOK, OutcomeOK, CutoffInv,
         Loaded, Kept, persistent, target, Post
<1>7. EndInv'
  BY DEF IInv, EndInv, Candidate, Attempting, Stages, Star, run, outcome, Post
<1>8. SuccessMeansLoaded' /\ NoSilentGiveUp' /\ CutoffNotAhead'
  BY DEF IInv, SuccessMeansLoaded, Candidate, Loaded, Kept, run, outcome,
         NoSilentGiveUp, Star, persistent, target, CutoffNotAhead, Post
<1>9. DropInv'
  BY DEF IInv, DropInv, Foreign, Loaded, persistent, target, loading, run,
         Post
<1>10. QED
  BY <1>1, <1>2, <1>3, <1>4, <1>5, <1>6, <1>7, <1>8, <1>9 DEF IInv

(* The export of a table ends; it stays listed. *)
LEMMA ServiceExportsKeeps ==
  ASSUME TypeOK, IInv, NEW t \in Tables, ServiceExports(t)
  PROVE  IInv'
<1>1. /\ MarkInv' /\ CutoffInv' /\ EndInv'
      /\ MarkedIsLoaded' /\ SuccessMeansLoaded' /\ NoSilentGiveUp'
      /\ CutoffNotAhead'
  BY DEF IInv, MarkInv, Candidate, Attempting, Fresh, Stages, Loaded, Kept, persistent,
         target, loading, run, CutoffInv, EndInv, Star, outcome, MarkedIsLoaded,
         SuccessMeansLoaded, NoSilentGiveUp, CutoffNotAhead, ServiceExports
<1>2. ScopeInv'
  BY DEF IInv, ScopeInv, Candidate, Listed, Attempting, Stages, persistent, target,
         scope, loading, run, outcome, ServiceExports
<1>3. PostInv'
  BY DEF IInv, PostInv, Listed, Attempting, LoadStages, Stages, failed_tables, Done,
         scope, run, ServiceExports
<1>4. LoadInv'
  BY DEF IInv, LoadInv, target, LoadStages, Fresh, failed_tables, scope, loading,
         ServiceExports
<1>5. DropInv'
  BY DEF IInv, DropInv, Foreign, Loaded, persistent, target, loading, run,
         ServiceExports
<1>6. QED
  BY <1>1, <1>2, <1>3, <1>4, <1>5 DEF IInv

(* Signed URLs expire. *)
LEMMA ServiceExpiresKeeps ==
  ASSUME TypeOK, IInv, ServiceExpires
  PROVE  IInv'
<1>1. /\ ScopeInv' /\ LoadInv' /\ MarkInv'
      /\ CutoffInv' /\ EndInv' /\ MarkedIsLoaded'
      /\ SuccessMeansLoaded' /\ NoSilentGiveUp' /\ CutoffNotAhead'
  BY DEF IInv, ScopeInv, Candidate, Listed, Attempting, Stages, persistent, target,
         scope, loading, run, outcome, LoadInv, LoadStages, Fresh, failed_tables,
         MarkInv, Loaded, Kept, CutoffInv, EndInv, Star, MarkedIsLoaded,
         SuccessMeansLoaded, NoSilentGiveUp, CutoffNotAhead, ServiceExpires
<1>2. PostInv'
  BY DEF IInv, PostInv, Listed, Attempting, LoadStages, Stages, failed_tables, Done,
         scope, run, ServiceExpires
<1>3. DropInv'
  BY DEF IInv, DropInv, Foreign, Loaded, persistent, target, loading, run,
         ServiceExpires
<1>4. QED
  BY <1>1, <1>2, <1>3 DEF IInv

(* A poll learns the scope: the listed tables that are not imported. *)
LEMMA PollKeeps ==
  ASSUME TypeOK, IInv, Poll
  PROVE  IInv'
<1>1. MarkedIsLoaded'
  BY DEF IInv, MarkedIsLoaded, Loaded, Kept, persistent, target, Poll, ScopeAfterPoll
<1>2. ScopeInv'
  BY DEF IInv, ScopeInv, PostInv, Listed, Attempting, Stages, Present, service, run,
         Poll, ScopeAfterPoll
<1>3. PostInv'
  BY DEF IInv, PostInv, Listed, Attempting, LoadStages, Stages, failed_tables, Done,
         service, run, Poll, ScopeAfterPoll
<1>4. LoadInv'
  BY DEF IInv, LoadInv, target, LoadStages, Fresh, failed_tables, service, Poll,
         ScopeAfterPoll
<1>5. MarkInv'
  BY DEF IInv, MarkInv, Candidate, Attempting, Fresh, Stages, Loaded, Kept, persistent,
         target, run, Poll, ScopeAfterPoll
<1>6. CutoffInv'
  BY DEF IInv, CutoffInv, Loaded, Kept, persistent, target, service, Poll,
         ScopeAfterPoll
<1>7. EndInv'
  BY DEF IInv, EndInv, Candidate, Attempting, Stages, Star, run, outcome, Poll,
         ScopeAfterPoll
<1>8. SuccessMeansLoaded' /\ NoSilentGiveUp' /\ CutoffNotAhead'
  BY DEF IInv, SuccessMeansLoaded, Candidate, Loaded, Kept, run, outcome,
         NoSilentGiveUp, Star, persistent, target, CutoffNotAhead, Poll, ScopeAfterPoll
<1>9. DropInv'
  BY DEF IInv, DropInv, Foreign, Loaded, persistent, target, loading, run,
         Poll
<1>10. QED
  BY <1>1, <1>2, <1>3, <1>4, <1>5, <1>6, <1>7, <1>8, <1>9 DEF IInv

(* The files of an attempt are downloaded. *)
LEMMA DownloadKeeps ==
  ASSUME TypeOK, IInv, Download
  PROVE  IInv'
<1>1. MarkedIsLoaded'
  BY DEF IInv, MarkedIsLoaded, Loaded, Kept, persistent, target, Download
<1>2. ScopeInv'
  BY DEF IInv, ScopeInv, Candidate, Listed, Attempting, Stages, persistent, target,
         service, scope, loading, run, outcome, Download
<1>3. PostInv'
  BY DEF IInv, PostInv, Listed, Attempting, LoadStages, Stages, failed_tables, Done,
         service, scope, run, Download
<1>4. LoadInv'
  BY DEF IInv, LoadInv, target, LoadStages, Fresh, failed_tables, service, scope,
         loading, Download
<1>5. MarkInv'
  BY DEF IInv, MarkInv, Candidate, Attempting, Fresh, Stages, Loaded, Kept, persistent,
         target, loading, run, Download
<1>6. CutoffInv'
  BY DEF IInv, CutoffInv, Loaded, Kept, persistent, target, service, Download
<1>7. EndInv'
  BY DEF IInv, EndInv, Candidate, Attempting, Stages, Star, run, outcome, Download
<1>8. SuccessMeansLoaded' /\ NoSilentGiveUp' /\ CutoffNotAhead'
  BY DEF IInv, SuccessMeansLoaded, Candidate, Loaded, Kept, run, outcome,
         NoSilentGiveUp, Star, persistent, target, CutoffNotAhead, Download
<1>9. DropInv'
  BY DEF IInv, DropInv, Foreign, Loaded, persistent, target, loading, run,
         Download
<1>10. QED
  BY <1>1, <1>2, <1>3, <1>4, <1>5, <1>6, <1>7, <1>8, <1>9 DEF IInv

(* A cancelled run ends. *)
LEMMA CancelledKeeps ==
  ASSUME TypeOK, IInv, Cancelled
  PROVE  IInv'
<1>1. MarkedIsLoaded'
  BY DEF IInv, MarkedIsLoaded, Loaded, Kept, persistent, target, Cancelled, Ends,
         Exhausted
<1>2. ScopeInv'
  BY DEF IInv, ScopeInv, Candidate, Listed, Attempting, Stages, persistent, target,
         service, scope, loading, run, Cancelled, Ends, Exhausted
<1>3. PostInv'
  BY DEF IInv, PostInv, Listed, Attempting, LoadStages, Stages, failed_tables, Done,
         service, scope, run, Cancelled, Ends, Exhausted
<1>4. LoadInv'
  BY DEF IInv, LoadInv, target, LoadStages, Fresh, failed_tables, service, scope,
         loading, Cancelled, Ends, Exhausted
<1>5. MarkInv'
  BY DEF IInv, MarkInv, Candidate, Attempting, Fresh, Stages, Loaded, Kept, persistent,
         target, loading, run, Cancelled, Ends, Exhausted
<1>6. CutoffInv'
  BY DEF IInv, CutoffInv, Loaded, Kept, persistent, target, service, Cancelled, Ends,
         Exhausted
<1>7. EndInv'
  BY DEF IInv, EndInv, Candidate, Attempting, Stages, Star, run, Cancelled, Ends,
         Exhausted
<1>8. SuccessMeansLoaded'
  BY DEF IInv, SuccessMeansLoaded, Candidate, Loaded, target, Kept, run, Cancelled,
         Ends, Exhausted
<1>9. NoSilentGiveUp'
  BY DEF IInv, NoSilentGiveUp, Candidate, Loaded, Kept, Star, persistent, target, run,
         Cancelled, Ends, Exhausted
<1>10. CutoffNotAhead'
  BY DEF IInv, CutoffNotAhead, Candidate, persistent, target, run, Cancelled, Ends,
         Exhausted
<1>11. DropInv'
  BY DEF IInv, DropInv, Foreign, Loaded, persistent, target, loading, run,
         Ends, Cancelled
<1>12. QED
  BY <1>1, <1>2, <1>3, <1>4, <1>5, <1>6, <1>7, <1>8, <1>9, <1>10, <1>11 DEF IInv

(* The load of an attempt begins with all of its tables. *)
LEMMA ConnectKeeps ==
  ASSUME TypeOK, IInv, Connect
  PROVE  IInv'
<1>1. MarkedIsLoaded'
  BY DEF IInv, MarkedIsLoaded, Loaded, Kept, persistent, target, Connect
<1>2. ScopeInv'
  BY DEF IInv, ScopeInv, Candidate, Listed, Attempting, Stages, persistent, target,
         service, scope, run, outcome, Connect
<1>3. PostInv'
  BY DEF IInv, PostInv, Listed, Attempting, LoadStages, Stages, failed_tables, Done,
         service, scope, run, Connect
<1>4. LoadInv'
  BY DEF IInv, LoadInv, target, LoadStages, Fresh, failed_tables, service, scope,
         Connect
<1>5. MarkInv'
  BY DEF IInv, MarkInv, Candidate, Attempting, Fresh, Stages, Loaded, Kept, persistent,
         target, run, Connect
<1>6. CutoffInv'
  BY DEF IInv, CutoffInv, Loaded, Kept, persistent, target, service, Connect
<1>7. EndInv'
  BY DEF IInv, EndInv, Candidate, Attempting, Stages, Star, run, outcome, Connect
<1>8. SuccessMeansLoaded' /\ NoSilentGiveUp' /\ CutoffNotAhead'
  BY DEF IInv, SuccessMeansLoaded, Candidate, Loaded, Kept, run, outcome,
         NoSilentGiveUp, Star, persistent, target, CutoffNotAhead, Connect
<1>9. DropInv'
  BY DEF IInv, DropInv, Foreign, Loaded, persistent, target, loading, run,
         Connect
<1>10. QED
  BY <1>1, <1>2, <1>3, <1>4, <1>5, <1>6, <1>7, <1>8, <1>9 DEF IInv

(* Tables are dropped before the load; none of them is marked or imported. *)
LEMMA create_datasourceKeeps ==
  ASSUME TypeOK, IInv, create_datasource
  PROVE  IInv'
<1>1. ScopeInv'
  BY DEF IInv, ScopeInv, Candidate, Listed, Attempting, Stages, persistent, target,
         service, scope, run, outcome, create_datasource
<1>2. PostInv'
  BY DEF IInv, PostInv, Listed, Attempting, LoadStages, Stages, failed_tables, Done,
         service, scope, run, create_datasource
<1>3. LoadInv'
  BY DEF IInv, LoadInv, target, LoadStages, Fresh, failed_tables, service, scope,
         create_datasource
<1>4. MarkInv'
  BY DEF IInv, TypeOK, StoredOK, LoopOK, ScopeInv, LoadInv, MarkInv, Attempting,
         LoadStages, Fresh, Loaded, Kept, persistent, target, run, create_datasource
<1>5. CutoffInv'
  BY DEF IInv, TypeOK, StoredOK, ServiceOK, ScopeInv, LoadInv, CutoffInv, Attempting,
         LoadStages, Stages, Loaded, Kept, persistent, target, service,
         create_datasource
<1>6. EndInv'
  BY DEF IInv, EndInv, Candidate, Attempting, Stages, Star, run, outcome,
         create_datasource
<1>7. MarkedIsLoaded'
  BY DEF IInv, TypeOK, StoredOK, ScopeInv, LoadInv, MarkInv, MarkedIsLoaded, Attempting,
         LoadStages, Fresh, Stages, Loaded, Kept, persistent, target, DropInv, Foreign,
         create_datasource
<1>8. SuccessMeansLoaded' /\ NoSilentGiveUp' /\ CutoffNotAhead'
  BY DEF IInv, SuccessMeansLoaded, Candidate, Loaded, Kept, run, outcome,
         NoSilentGiveUp, Star, persistent, target, CutoffNotAhead, create_datasource
<1>9. DropInv'
  BY DEF IInv, DropInv, Foreign, Loaded, Partial, persistent, target, loading, run,
         TypeOK, StoredOK, LoadInv, create_datasource
<1>10. QED
  BY <1>1, <1>2, <1>3, <1>4, <1>5, <1>6, <1>7, <1>8, <1>9 DEF IInv

(* Rows of a table are written that is neither marked nor imported. *)
LEMMA ReplayKeeps ==
  ASSUME TypeOK, IInv, Replay
  PROVE  IInv'
<1>1. ScopeInv'
  BY DEF IInv, ScopeInv, Candidate, Listed, Attempting, Stages, persistent, target,
         service, scope, run, outcome, Replay
<1>2. PostInv'
  BY DEF IInv, PostInv, Listed, Attempting, LoadStages, Stages, failed_tables, Done,
         service, scope, run, Replay
<1>3. LoadInv'
  BY DEF IInv, TypeOK, StoredOK, target, ServiceOK, LoopOK, LoadOK, OutcomeOK, LoadInv,
         LoadStages, Fresh, failed_tables, service, scope, Replay
<1>4. MarkInv'
  BY DEF IInv, TypeOK, StoredOK, LoopOK, ScopeInv, LoadInv, MarkInv, Attempting,
         LoadStages, Fresh, Loaded, Kept, persistent, target, run, Replay
<1>5. CutoffInv'
  BY DEF IInv, TypeOK, StoredOK, ServiceOK, ScopeInv, LoadInv, CutoffInv, Attempting,
         LoadStages, Stages, Loaded, Kept, Partial, persistent, target, service, Replay
<1>6. EndInv'
  BY DEF IInv, EndInv, Candidate, Attempting, Stages, Star, run, outcome, Replay
<1>7. MarkedIsLoaded'
  BY DEF IInv, TypeOK, StoredOK, ScopeInv, LoadInv, MarkInv, MarkedIsLoaded, Attempting,
         LoadStages, Fresh, Stages, Loaded, Kept, persistent, target, DropInv, Foreign,
         Replay
<1>8. SuccessMeansLoaded' /\ NoSilentGiveUp' /\ CutoffNotAhead'
  BY DEF IInv, SuccessMeansLoaded, Candidate, Loaded, Kept, run, outcome,
         NoSilentGiveUp, Star, persistent, target, CutoffNotAhead, Replay
<1>9. DropInv'
  BY DEF IInv, DropInv, Foreign, Loaded, Partial, persistent, target, loading, run,
         TypeOK, StoredOK, LoadInv, Replay
<1>10. QED
  BY <1>1, <1>2, <1>3, <1>4, <1>5, <1>6, <1>7, <1>8, <1>9 DEF IInv

(* The table is complete before it can be marked. *)
LEMMA flush_importedKeeps ==
  ASSUME TypeOK, IInv, flush_imported
  PROVE  IInv'
<1>1. ScopeInv'
  BY DEF IInv, ScopeInv, Candidate, Listed, Attempting, Stages, persistent, target,
         service, scope, run, outcome, flush_imported
<1>2. PostInv'
  BY DEF IInv, PostInv, Listed, Attempting, LoadStages, Stages, failed_tables, Done,
         service, scope, run, flush_imported
<1>3. LoadInv'
  BY DEF IInv, TypeOK, StoredOK, target, ServiceOK, LoopOK, LoadOK, OutcomeOK, LoadInv,
         LoadStages, Fresh, failed_tables, service, scope, flush_imported
<1>4. MarkInv'
  BY DEF IInv, TypeOK, LoopOK, PostInv, MarkInv, Attempting, LoadStages, Fresh, Loaded,
         Kept, persistent, target, run, flush_imported
<1>5. CutoffInv'
  BY DEF IInv, TypeOK, StoredOK, ServiceOK, LoopOK, LoadOK, OutcomeOK, CutoffInv,
         Loaded, Kept, persistent, target, service, flush_imported
<1>6. EndInv'
  BY DEF IInv, EndInv, Candidate, Attempting, Stages, Star, run, outcome, flush_imported
<1>7. MarkedIsLoaded'
  BY DEF IInv, TypeOK, StoredOK, PostInv, MarkedIsLoaded, Attempting, LoadStages,
         Stages, Loaded, Kept, persistent, target, flush_imported
<1>8. SuccessMeansLoaded' /\ NoSilentGiveUp' /\ CutoffNotAhead'
  BY DEF IInv, SuccessMeansLoaded, Candidate, Loaded, Kept, run, outcome,
         NoSilentGiveUp, Star, persistent, target, CutoffNotAhead, flush_imported
<1>9. DropInv'
  BY DEF IInv, DropInv, Foreign, Loaded, Partial, persistent, target, loading, run,
         TypeOK, StoredOK, LoadInv, flush_imported
<1>10. QED
  BY <1>1, <1>2, <1>3, <1>4, <1>5, <1>6, <1>7, <1>8, <1>9 DEF IInv

(* The marker is written for a table that is complete. *)
LEMMA write_progress_markerKeeps ==
  ASSUME TypeOK, IInv, write_progress_marker
  PROVE  IInv'
<1>1. ScopeInv'
  BY DEF IInv, ScopeInv, Candidate, Listed, Attempting, Stages, service, scope, run,
         outcome, write_progress_marker
<1>2. PostInv'
  BY DEF IInv, PostInv, Listed, Attempting, LoadStages, Stages, failed_tables, Done,
         service, scope, run, write_progress_marker
<1>3. LoadInv'
  BY DEF IInv, LoadInv, target, LoadStages, Fresh, failed_tables, service, scope,
         write_progress_marker
<1>4. MarkInv'
  BY DEF IInv, ScopeInv, LoadInv, MarkInv, Attempting, LoadStages, Fresh, Stages,
         Loaded, target, Kept, run, write_progress_marker
<1>5. CutoffInv'
  BY DEF IInv, CutoffInv, Loaded, target, Kept, service, write_progress_marker
<1>6. EndInv'
  BY DEF IInv, EndInv, Candidate, Attempting, Stages, Star, run, outcome,
         write_progress_marker
<1>7. MarkedIsLoaded'
  BY DEF IInv, PostInv, LoadInv, MarkedIsLoaded, Attempting, LoadStages, Fresh, Stages,
         Loaded, target, Kept, write_progress_marker
<1>8. SuccessMeansLoaded' /\ NoSilentGiveUp' /\ CutoffNotAhead'
  BY DEF IInv, SuccessMeansLoaded, Candidate, Loaded, target, Kept, run, outcome,
         NoSilentGiveUp, Star, CutoffNotAhead, write_progress_marker
<1>9. DropInv'
  BY DEF IInv, DropInv, Foreign, Loaded, persistent, target, loading, run,
         TypeOK, StoredOK, write_progress_marker
<1>10. QED
  BY <1>1, <1>2, <1>3, <1>4, <1>5, <1>6, <1>7, <1>8, <1>9 DEF IInv

(* The last table of an attempt has been replayed. *)
LEMMA AllReplayedKeeps ==
  ASSUME TypeOK, IInv, AllReplayed
  PROVE  IInv'
<1>1. MarkedIsLoaded'
  BY DEF IInv, MarkedIsLoaded, Loaded, Kept, persistent, target, AllReplayed
<1>2. ScopeInv'
  BY DEF IInv, ScopeInv, Candidate, Listed, Attempting, Stages, persistent, target,
         service, scope, loading, run, outcome, AllReplayed
<1>3. PostInv'
  BY DEF IInv, PostInv, Listed, Attempting, LoadStages, Stages, failed_tables, Done,
         service, scope, run, AllReplayed
<1>4. LoadInv'
  BY DEF IInv, LoadInv, target, LoadStages, Fresh, failed_tables, service, scope,
         loading, AllReplayed
<1>5. MarkInv'
  BY DEF IInv, MarkInv, Candidate, Attempting, Fresh, Stages, Loaded, Kept, persistent,
         target, loading, run, AllReplayed
<1>6. CutoffInv'
  BY DEF IInv, CutoffInv, Loaded, Kept, persistent, target, service, AllReplayed
<1>7. EndInv'
  BY DEF IInv, EndInv, Candidate, Attempting, Stages, Star, run, outcome, AllReplayed
<1>8. SuccessMeansLoaded' /\ NoSilentGiveUp' /\ CutoffNotAhead'
  BY DEF IInv, SuccessMeansLoaded, Candidate, Loaded, Kept, run, outcome,
         NoSilentGiveUp, Star, persistent, target, CutoffNotAhead, AllReplayed
<1>9. DropInv'
  BY DEF IInv, DropInv, Foreign, Loaded, persistent, target, loading, run,
         AllReplayed
<1>10. QED
  BY <1>1, <1>2, <1>3, <1>4, <1>5, <1>6, <1>7, <1>8, <1>9 DEF IInv

(* A stream sink is flushed: all tables of the attempt are complete. *)
LEMMA import_completedKeeps ==
  ASSUME TypeOK, IInv, import_completed
  PROVE  IInv'
<1>1. ScopeInv'
  BY DEF IInv, ScopeInv, Candidate, Listed, Attempting, Stages, persistent, target,
         service, scope, run, outcome, import_completed
<1>2. PostInv'
  BY DEF IInv, PostInv, Listed, Attempting, LoadStages, Stages, failed_tables, Done,
         service, scope, run, import_completed
<1>3. LoadInv'
  BY DEF IInv, TypeOK, StoredOK, target, ServiceOK, LoopOK, LoadOK, OutcomeOK, LoadInv,
         LoadStages, Fresh, failed_tables, service, scope, import_completed
<1>4. MarkInv'
  BY DEF IInv, TypeOK, LoopOK, PostInv, MarkInv, Attempting, LoadStages, Fresh, Loaded,
         Kept, persistent, target, run, import_completed
<1>5. CutoffInv'
  BY DEF IInv, TypeOK, StoredOK, ServiceOK, LoopOK, LoadOK, OutcomeOK, CutoffInv,
         Loaded, Kept, Partial, persistent, target, service,
         import_completed
<1>6. EndInv'
  BY DEF IInv, EndInv, Candidate, Attempting, Stages, Star, run, outcome,
         import_completed
<1>7. MarkedIsLoaded'
  BY DEF IInv, TypeOK, StoredOK, PostInv, MarkedIsLoaded, Attempting, LoadStages,
         Stages, Loaded, Kept, persistent, target, import_completed
<1>8. SuccessMeansLoaded' /\ NoSilentGiveUp' /\ CutoffNotAhead'
  BY DEF IInv, SuccessMeansLoaded, Candidate, Loaded, Kept, run, outcome,
         NoSilentGiveUp, Star, persistent, target, CutoffNotAhead, import_completed
<1>9. DropInv'
  <2>1. PICK L \in SUBSET ready :
          /\ dest' = [t \in Tables |-> IF t \in L THEN Partial
                                      ELSE IF t \in ready THEN jobId ELSE dest[t]]
          /\ lost' = (lost \ ready) \cup L
    BY DEF import_completed
  <2>2. lost' \subseteq Tables /\ L \subseteq Tables
    BY <2>1 DEF TypeOK, StoredOK, LoadOK
  <2>3. ASSUME NEW t \in lost' PROVE ~(dest'[t] > 0)
    <3>1. CASE t \in L
      BY <2>1, <2>2, <3>1 DEF Partial
    <3>2. CASE t \notin L
      BY <2>1, <2>2, <2>3, <3>2 DEF IInv, DropInv, Loaded
    <3>3. QED BY <3>1, <3>2
  <2>4. pc' = "markAll"
    BY DEF import_completed
  <2>5. QED BY <2>3, <2>4 DEF DropInv, Loaded
<1>10. QED
  BY <1>1, <1>2, <1>3, <1>4, <1>5, <1>6, <1>7, <1>8, <1>9 DEF IInv

(* The tables of a stream sink are marked after the flush. *)
LEMMA MarkAllKeeps ==
  ASSUME TypeOK, IInv, MarkAll
  PROVE  IInv'
<1>1. ScopeInv'
  BY DEF IInv, ScopeInv, Candidate, Listed, Attempting, Stages, service, scope, run,
         outcome, MarkAll
<1>2. PostInv'
  BY DEF IInv, PostInv, Listed, Attempting, LoadStages, Stages, failed_tables, Done,
         service, scope, run, MarkAll
<1>3. LoadInv'
  BY DEF IInv, LoadInv, target, LoadStages, Fresh, failed_tables, service, scope,
         MarkAll
<1>4. MarkInv'
  BY DEF IInv, TypeOK, StoredOK, ScopeInv, LoadInv, MarkInv, Attempting, LoadStages,
         Fresh, Stages, Loaded, target, Kept, run, MarkAll
<1>5. CutoffInv'
  BY DEF IInv, CutoffInv, Loaded, target, Kept, service, MarkAll
<1>6. EndInv'
  BY DEF IInv, EndInv, Candidate, Attempting, Stages, Star, run, outcome, MarkAll
<1>7. MarkedIsLoaded'
  BY DEF IInv, TypeOK, StoredOK, PostInv, LoadInv, MarkedIsLoaded, Attempting,
         LoadStages, Stages, Loaded, target, Kept, MarkAll
<1>8. SuccessMeansLoaded' /\ NoSilentGiveUp' /\ CutoffNotAhead'
  BY DEF IInv, SuccessMeansLoaded, Candidate, Loaded, target, Kept, run, outcome,
         NoSilentGiveUp, Star, CutoffNotAhead, MarkAll
<1>9. DropInv'
  BY DEF IInv, DropInv, Foreign, Loaded, persistent, target, loading, run,
         MarkAll
<1>10. QED
  BY <1>1, <1>2, <1>3, <1>4, <1>5, <1>6, <1>7, <1>8, <1>9 DEF IInv

(* The attempt is over: its tables are imported, with the cutoffs of its *)
(* job.                                                                  *)
LEMMA AbsorbKeeps ==
  ASSUME TypeOK, IInv, Absorb
  PROVE  IInv'
<1>1. MarkedIsLoaded'
  BY DEF IInv, MarkedIsLoaded, Loaded, Kept, persistent, target, Absorb
<1>2. ScopeInv'
  BY DEF IInv, ScopeInv, LoadInv, target, Listed, Attempting, LoadStages, Stages,
         service, run, Absorb
<1>3. PostInv'
  BY DEF IInv, PostInv, LoadInv, target, Attempting, LoadStages, Stages, failed_tables,
         service, Absorb
<1>4. LoadInv'
  BY DEF IInv, LoadInv, target, LoadStages, Fresh, failed_tables, service, loading,
         Absorb
<1>5. MarkInv'
  BY DEF IInv, PostInv, LoadInv, MarkInv, Attempting, LoadStages, Fresh, Stages, Loaded,
         Kept, persistent, target, run, Absorb
<1>6. CutoffInv'
  <2>1. UNCHANGED <<dest, lost, cutoffs, jobId>> /\ pc' # "record"
    BY DEF Absorb, persistent, target, service
  <2>2. \A t \in ready : dest[t] = jobId \/ t \in lost
    BY DEF IInv, LoadInv, Fresh, Absorb
  <2>3. \A t \in Tables : info'[t] = info[t] \/ (t \in ready /\ info'[t] = jobId)
    BY DEF Absorb
  <2>4. \A t \in Tables : info'[t] <= jobId
    BY <2>3 DEF IInv, CutoffInv, TypeOK, ServiceOK
  <2>5. \A t \in Tables :
          info'[t] > 0 => t \in imported' /\ (info'[t] <= dest[t] \/ t \in lost)
    BY <2>2, <2>3 DEF IInv, CutoffInv, Absorb, TypeOK, ServiceOK
  <2>6. QED BY <2>1, <2>4, <2>5 DEF IInv, CutoffInv, Loaded
<1>7. EndInv'
  BY DEF IInv, EndInv, Candidate, Attempting, Stages, Star, run, outcome, Absorb
<1>8. SuccessMeansLoaded' /\ NoSilentGiveUp' /\ CutoffNotAhead'
  BY DEF IInv, SuccessMeansLoaded, Candidate, Loaded, Kept, run, outcome,
         NoSilentGiveUp, Star, persistent, target, CutoffNotAhead, Absorb
<1>9. DropInv'
  BY DEF IInv, DropInv, Foreign, Loaded, persistent, target, loading, run,
         Absorb
<1>10. QED
  BY <1>1, <1>2, <1>3, <1>4, <1>5, <1>6, <1>7, <1>8, <1>9 DEF IInv

(* The ladder goes on, or stops with what is left. *)
LEMMA DecideKeeps ==
  ASSUME TypeOK, IInv, Decide
  PROVE  IInv'
<1>1. MarkedIsLoaded'
  BY DEF IInv, MarkedIsLoaded, Loaded, Kept, persistent, target, Decide, Exhausted
<1>2. ScopeInv'
  BY DEF IInv, ScopeInv, Candidate, Listed, Attempting, Stages, persistent, target,
         service, scope, loading, run, Decide, Exhausted
<1>3. PostInv'
  BY DEF IInv, PostInv, Listed, Attempting, LoadStages, Stages, failed_tables, Done,
         service, scope, run, Decide, Exhausted
<1>4. LoadInv'
  BY DEF IInv, LoadInv, target, LoadStages, Fresh, failed_tables, service, scope,
         loading, Decide, Exhausted
<1>5. MarkInv'
  BY DEF IInv, MarkInv, Candidate, Attempting, Fresh, Stages, Loaded, Kept, persistent,
         target, loading, run, Decide, Exhausted
<1>6. CutoffInv'
  BY DEF IInv, CutoffInv, Loaded, Kept, persistent, target, service, Decide, Exhausted
<1>7. EndInv'
  BY DEF IInv, ScopeInv, EndInv, Candidate, Attempting, Stages, Done, run, Decide
<1>8. SuccessMeansLoaded' /\ NoSilentGiveUp' /\ CutoffNotAhead'
  BY DEF IInv, SuccessMeansLoaded, Candidate, Loaded, Kept, run, NoSilentGiveUp, Star,
         persistent, target, CutoffNotAhead, Decide, Exhausted
<1>9. DropInv'
  BY DEF IInv, DropInv, Foreign, Loaded, persistent, target, loading, run,
         Decide
<1>10. QED
  BY <1>1, <1>2, <1>3, <1>4, <1>5, <1>6, <1>7, <1>8, <1>9 DEF IInv

(* The next attempt. *)
LEMMA BackoffKeeps ==
  ASSUME TypeOK, IInv, Backoff
  PROVE  IInv'
<1>1. MarkedIsLoaded'
  BY DEF IInv, MarkedIsLoaded, Loaded, Kept, persistent, target, Backoff, NextAttempt
<1>2. ScopeInv'
  BY DEF IInv, ScopeInv, Candidate, Listed, Attempting, Stages, persistent, target,
         service, scope, loading, run, Backoff, NextAttempt
<1>3. PostInv'
  BY DEF IInv, PostInv, Listed, Attempting, LoadStages, Stages, failed_tables, Done,
         service, scope, run, Backoff, NextAttempt
<1>4. LoadInv'
  BY DEF IInv, LoadInv, target, LoadStages, Fresh, failed_tables, service, scope,
         loading, Backoff, NextAttempt
<1>5. MarkInv'
  BY DEF IInv, MarkInv, Candidate, Attempting, Fresh, Stages, Loaded, Kept, persistent,
         target, loading, run, Backoff, NextAttempt
<1>6. CutoffInv'
  BY DEF IInv, CutoffInv, Loaded, Kept, persistent, target, service, Backoff,
         NextAttempt
<1>7. EndInv'
  BY DEF IInv, EndInv, Candidate, Attempting, Stages, Star, run, outcome, Backoff,
         NextAttempt
<1>8. SuccessMeansLoaded' /\ NoSilentGiveUp' /\ CutoffNotAhead'
  BY DEF IInv, SuccessMeansLoaded, Candidate, Loaded, Kept, run, outcome,
         NoSilentGiveUp, Star, persistent, target, CutoffNotAhead, Backoff, NextAttempt
<1>9. DropInv'
  BY DEF IInv, DropInv, Foreign, Loaded, persistent, target, loading, run,
         Backoff
<1>10. QED
  BY <1>1, <1>2, <1>3, <1>4, <1>5, <1>6, <1>7, <1>8, <1>9 DEF IInv

(* The cutoffs of this run replace the recorded ones. *)
LEMMA PersistCutoffsKeeps ==
  ASSUME TypeOK, IInv, PersistCutoffs
  PROVE  IInv'
<1>1. MarkedIsLoaded'
  BY DEF IInv, MarkedIsLoaded, Loaded, target, Kept, PersistCutoffs
<1>2. ScopeInv'
  BY DEF IInv, ScopeInv, Candidate, Listed, Attempting, Stages, service, scope, loading,
         run, outcome, PersistCutoffs
<1>3. PostInv'
  BY DEF IInv, PostInv, Listed, Attempting, LoadStages, Stages, failed_tables, Done,
         service, scope, run, PersistCutoffs
<1>4. LoadInv'
  BY DEF IInv, LoadInv, target, LoadStages, Fresh, failed_tables, service, scope,
         loading, PersistCutoffs
<1>5. MarkInv'
  BY DEF IInv, MarkInv, Candidate, Attempting, Fresh, Stages, Loaded, target, Kept,
         loading, run, PersistCutoffs
<1>6. CutoffInv'
  BY DEF IInv, TypeOK, StoredOK, ServiceOK, LoopOK, LoadOK, OutcomeOK, CutoffInv,
         Loaded, target, Kept, service, DropInv, PersistCutoffs
<1>7. EndInv'
  BY DEF IInv, EndInv, Candidate, Attempting, Stages, Star, run, outcome, PersistCutoffs
<1>8. SuccessMeansLoaded' /\ NoSilentGiveUp' /\ CutoffNotAhead'
  BY DEF IInv, SuccessMeansLoaded, Candidate, Loaded, target, Kept, run, outcome,
         NoSilentGiveUp, Star, CutoffNotAhead, PersistCutoffs
<1>9. DropInv'
  BY DEF IInv, DropInv, Foreign, Loaded, persistent, target, loading, run,
         PersistCutoffs
<1>10. QED
  BY <1>1, <1>2, <1>3, <1>4, <1>5, <1>6, <1>7, <1>8, <1>9 DEF IInv

(* A run that gives up leaves a record. *)
LEMMA RecordFailedKeeps ==
  ASSUME TypeOK, IInv, RecordFailed
  PROVE  IInv'
<1>1. MarkedIsLoaded'
  BY DEF IInv, MarkedIsLoaded, Loaded, target, Kept, RecordFailed, Ends
<1>2. ScopeInv'
  BY DEF IInv, ScopeInv, Candidate, Listed, Attempting, Stages, service, scope, loading,
         run, RecordFailed, Ends
<1>3. PostInv'
  BY DEF IInv, PostInv, Listed, Attempting, LoadStages, Stages, failed_tables, Done,
         service, scope, run, RecordFailed, Ends
<1>4. LoadInv'
  BY DEF IInv, LoadInv, target, LoadStages, Fresh, failed_tables, service, scope,
         loading, RecordFailed, Ends
<1>5. MarkInv'
  BY DEF IInv, MarkInv, Candidate, Attempting, Fresh, Stages, Loaded, target, Kept,
         loading, run, RecordFailed, Ends
<1>6. CutoffInv'
  BY DEF IInv, CutoffInv, Loaded, target, Kept, service, RecordFailed, Ends
<1>7. EndInv'
  BY DEF IInv, EndInv, Candidate, Attempting, Stages, Star, run, RecordFailed, Ends
<1>8. SuccessMeansLoaded'
  BY DEF IInv, SuccessMeansLoaded, Candidate, Loaded, target, Kept, run, RecordFailed,
         Ends
<1>9. NoSilentGiveUp'
  BY DEF IInv, TypeOK, StoredOK, ScopeInv, MarkInv, EndInv, NoSilentGiveUp, Loaded,
         target, Kept, run, RecordFailed, Ends
<1>10. CutoffNotAhead'
  BY DEF IInv, TypeOK, LoopOK, CutoffInv, target, CutoffNotAhead, Candidate, run,
         RecordFailed, Ends
<1>11. DropInv'
  BY DEF IInv, DropInv, Foreign, Loaded, persistent, target, loading, run,
         Ends, RecordFailed
<1>12. QED
  BY <1>1, <1>2, <1>3, <1>4, <1>5, <1>6, <1>7, <1>8, <1>9, <1>10, <1>11 DEF IInv

(* A run that is done clears its markers. *)
LEMMA ClearMarkersKeeps ==
  ASSUME TypeOK, IInv, ClearMarkers
  PROVE  IInv'
<1>1. ScopeInv'
  BY DEF IInv, ScopeInv, Candidate, Listed, Attempting, Stages, service, scope, loading,
         run, outcome, ClearMarkers
<1>2. PostInv'
  BY DEF IInv, PostInv, Listed, Attempting, LoadStages, Stages, failed_tables, Done,
         service, scope, run, ClearMarkers
<1>3. LoadInv'
  BY DEF IInv, LoadInv, target, LoadStages, Fresh, failed_tables, service, scope,
         loading, ClearMarkers
<1>4. MarkInv'
  BY DEF IInv, MarkInv, Candidate, Attempting, Fresh, Stages, Loaded, target, Kept,
         loading, run, ClearMarkers
<1>5. CutoffInv'
  BY DEF IInv, CutoffInv, Loaded, target, Kept, service, ClearMarkers
<1>6. EndInv'
  BY DEF IInv, EndInv, Candidate, Attempting, Stages, Star, run, outcome, ClearMarkers
<1>7. MarkedIsLoaded'
  BY DEF IInv, MarkedIsLoaded, Loaded, target, Kept, ClearMarkers
<1>8. SuccessMeansLoaded' /\ NoSilentGiveUp' /\ CutoffNotAhead'
  BY DEF IInv, SuccessMeansLoaded, Candidate, Loaded, target, Kept, run, outcome,
         NoSilentGiveUp, Star, CutoffNotAhead, ClearMarkers
<1>9. DropInv'
  BY DEF IInv, DropInv, Foreign, Loaded, persistent, target, loading, run,
         LoadInv, ClearMarkers
<1>10. QED
  BY <1>1, <1>2, <1>3, <1>4, <1>5, <1>6, <1>7, <1>8, <1>9 DEF IInv

(* A run that is done ends with exit code 0. *)
LEMMA ClearFailedKeeps ==
  ASSUME TypeOK, IInv, ClearFailed
  PROVE  IInv'
<1>1. MarkedIsLoaded'
  BY DEF IInv, MarkedIsLoaded, Loaded, target, Kept, ClearFailed, Ends
<1>2. ScopeInv'
  BY DEF IInv, ScopeInv, Candidate, Listed, Attempting, Stages, service, scope, loading,
         run, ClearFailed, Ends
<1>3. PostInv'
  BY DEF IInv, PostInv, Listed, Attempting, LoadStages, Stages, failed_tables, Done,
         service, scope, run, ClearFailed, Ends
<1>4. LoadInv'
  BY DEF IInv, LoadInv, target, LoadStages, Fresh, failed_tables, service, scope,
         loading, ClearFailed, Ends
<1>5. MarkInv'
  BY DEF IInv, MarkInv, Candidate, Attempting, Fresh, Stages, Loaded, target, Kept,
         loading, run, ClearFailed, Ends
<1>6. CutoffInv'
  BY DEF IInv, CutoffInv, Loaded, target, Kept, service, ClearFailed, Ends
<1>7. EndInv'
  BY DEF IInv, EndInv, Candidate, Attempting, Stages, Star, run, ClearFailed, Ends
<1>8. SuccessMeansLoaded'
  BY DEF IInv, MarkInv, EndInv, SuccessMeansLoaded, Loaded, target, Kept, run,
         ClearFailed, Ends
<1>9. NoSilentGiveUp'
  BY DEF IInv, NoSilentGiveUp, Candidate, Loaded, target, Kept, Star, run, ClearFailed,
         Ends
<1>10. CutoffNotAhead'
  BY DEF IInv, TypeOK, LoopOK, MarkInv, target, CutoffInv, EndInv, CutoffNotAhead, run,
         Loaded, Kept, ClearFailed, Ends
<1>11. DropInv'
  BY DEF IInv, DropInv, Foreign, Loaded, persistent, target, loading, run,
         Ends, ClearFailed
<1>12. QED
  BY <1>1, <1>2, <1>3, <1>4, <1>5, <1>6, <1>7, <1>8, <1>9, <1>10, <1>11 DEF IInv

(* The operator cancels. *)
LEMMA CancelKeeps ==
  ASSUME TypeOK, IInv, Cancel
  PROVE  IInv'
<1>1. /\ ScopeInv' /\ PostInv' /\ LoadInv'
      /\ MarkInv' /\ CutoffInv' /\ EndInv'
      /\ MarkedIsLoaded' /\ SuccessMeansLoaded' /\ NoSilentGiveUp'
      /\ CutoffNotAhead'
  BY DEF IInv, ScopeInv, Candidate, Listed, Attempting, Stages, persistent, target,
         service, scope, loading, run, outcome, PostInv, LoadStages, failed_tables,
         Done, LoadInv, Fresh, MarkInv, Loaded, Kept, CutoffInv, EndInv, Star,
         MarkedIsLoaded, SuccessMeansLoaded, NoSilentGiveUp, CutoffNotAhead, Cancel
<1>2. DropInv'
  BY DEF IInv, DropInv, Foreign, Loaded, persistent, target, loading, run,
         Cancel
<1>3. QED
  BY <1>1, <1>2 DEF IInv

(* The process dies. *)
LEMMA CrashKeeps ==
  ASSUME TypeOK, IInv, Crash
  PROVE  IInv'
<1>1. MarkedIsLoaded'
  BY DEF IInv, MarkedIsLoaded, Loaded, Kept, persistent, target, Crash, Ends
<1>2. ScopeInv'
  BY DEF IInv, ScopeInv, Candidate, Listed, Attempting, Stages, persistent, target,
         service, scope, loading, run, Crash, Ends
<1>3. PostInv'
  BY DEF IInv, PostInv, Listed, Attempting, LoadStages, Stages, failed_tables, Done,
         service, scope, run, Crash, Ends
<1>4. LoadInv'
  BY DEF IInv, LoadInv, target, LoadStages, Fresh, failed_tables, service, scope,
         loading, Crash, Ends
<1>5. MarkInv'
  BY DEF IInv, MarkInv, Candidate, Attempting, Fresh, Stages, Loaded, Kept, persistent,
         target, loading, run, Crash, Ends
<1>6. CutoffInv'
  BY DEF IInv, CutoffInv, Loaded, Kept, persistent, target, service, Crash, Ends
<1>7. EndInv'
  BY DEF IInv, EndInv, Candidate, Attempting, Stages, Star, run, Crash, Ends
<1>8. SuccessMeansLoaded'
  BY DEF IInv, SuccessMeansLoaded, Candidate, Loaded, target, Kept, run, Crash, Ends
<1>9. NoSilentGiveUp'
  BY DEF IInv, NoSilentGiveUp, Candidate, Loaded, Kept, Star, persistent, target, run,
         Crash, Ends
<1>10. CutoffNotAhead'
  BY DEF IInv, CutoffNotAhead, Candidate, persistent, target, run, Crash, Ends
<1>11. DropInv'
  BY DEF IInv, DropInv, Foreign, Loaded, persistent, target, loading, run,
         Ends, Crash
<1>12. QED
  BY <1>1, <1>2, <1>3, <1>4, <1>5, <1>6, <1>7, <1>8, <1>9, <1>10, <1>11 DEF IInv

-----------------------------------------------------------------------------
(* The state before the first run. *)
LEMMA InitHolds ==
  ASSUME Init
  PROVE  TypeOK /\ AttemptsLeft /\ IInv
<1>1. StoredOK
  BY DEF Init, StoredOK, target, NoTables
<1>2. ServiceOK
  BY DEF Init, ServiceOK, Statuses
<1>3. LoopOK
  <2>1. attempt \in 0 .. MaxRetries + 1 /\ runs \in Nat
    BY RetriesAssumption DEF Init, RetriesAssumption
  <2>2. QED BY <2>1 DEF Init, LoopOK
<1>4. LoadOK
  BY DEF Init, LoadOK, NoTables
<1>5. OutcomeOK /\ AttemptsLeft
  BY DEF Init, OutcomeOK, AttemptsLeft
<1>6. ScopeInv /\ PostInv /\ EndInv
  BY DEF Init, ScopeInv, PostInv, EndInv, Attempting, LoadStages, Stages
<1>7. LoadInv /\ DropInv /\ MarkInv
  BY DEF Init, LoadInv, DropInv, Loaded, target, MarkInv, LoadStages, Attempting, Stages, Fresh
<1>8. CutoffInv
  BY DEF Init, CutoffInv, NoTables, Loaded, target, Kept
<1>9. MarkedIsLoaded /\ SuccessMeansLoaded /\ NoSilentGiveUp /\ CutoffNotAhead
  BY DEF Init, MarkedIsLoaded, SuccessMeansLoaded, NoSilentGiveUp, CutoffNotAhead,
         target
<1>10. QED
  BY <1>1, <1>2, <1>3, <1>4, <1>5, <1>6, <1>7, <1>8, <1>9 DEF TypeOK, IInv

(* Every step of the command, of the service and of the operator keeps it. *)
LEMMA NextKeeps ==
  ASSUME TypeOK, IInv, [Next]_vars
  PROVE  IInv'
<1>1. CASE Process
  BY <1>1, StageFailsKeeps, PostKeeps, PollKeeps, DownloadKeeps, CancelledKeeps,
     ConnectKeeps, create_datasourceKeeps, ReplayKeeps, flush_importedKeeps,
     write_progress_markerKeeps, AllReplayedKeeps, import_completedKeeps,
     MarkAllKeeps, AbsorbKeeps, DecideKeeps, BackoffKeeps, PersistCutoffsKeeps,
     RecordFailedKeeps, ClearMarkersKeeps, ClearFailedKeeps
  DEF Process
<1>2. CASE Service
  BY <1>2, ServiceExpiresKeeps, ServiceExportsKeeps DEF Service
<1>3. ASSUME NEW s \in Selections, Start(s) PROVE IInv'
  BY <1>3, StartKeeps
<1>4. CASE Cancel \/ Crash
  BY <1>4, CancelKeeps, CrashKeeps
<1>5. CASE UNCHANGED vars
  <2> USE <1>5 DEF vars, persistent, target, service, run, scope, loading, outcome, IInv
  <2>1. ScopeInv' /\ PostInv'
    BY DEF ScopeInv, PostInv, Listed, failed_tables, Done
  <2>2. LoadInv' /\ DropInv' /\ MarkInv' /\ CutoffInv' /\ EndInv'
    BY DEF LoadInv, DropInv, Foreign, MarkInv, CutoffInv, EndInv, Fresh, failed_tables, Loaded, target,
           Kept
  <2>3. MarkedIsLoaded' /\ SuccessMeansLoaded' /\ NoSilentGiveUp' /\ CutoffNotAhead'
    BY DEF MarkedIsLoaded, SuccessMeansLoaded, NoSilentGiveUp, CutoffNotAhead, Loaded,
           target, Kept
  <2>4. QED BY <2>1, <2>2, <2>3
<1>6. QED
  BY <1>1, <1>2, <1>3, <1>4, <1>5 DEF Next

-----------------------------------------------------------------------------
(* Every variable of the command keeps its type, whatever fails, and no run *)
(* makes more than MaxRetries + 1 attempts (run_with_recovery).             *)
THEOREM ImportTypeCorrect == Spec => []TypeOK
<1>1. Init => TypeOK /\ AttemptsLeft
  BY InitHolds
<1>2. TypeOK /\ AttemptsLeft /\ [Next]_vars => (TypeOK /\ AttemptsLeft)'
  BY TypeKept
<1>3. QED BY <1>1, <1>2, PTL DEF Spec

(* The inductive invariant, for selections of any overlap. *)
THEOREM ImportInvariant ==
  Spec => [](TypeOK /\ IInv)
<1>1. Init => TypeOK /\ AttemptsLeft /\ IInv
  BY InitHolds
<1>2. TypeOK /\ AttemptsLeft /\ IInv /\ [Next]_vars => (TypeOK /\ AttemptsLeft /\ IInv)'
  BY TypeKept, NextKeeps
<1>3. QED BY <1>1, <1>2, PTL DEF Spec

(* A marked table holds all the rows of some job (importer._run_recovery):  *)
(* crashes, retries and resumed runs never leave a marker that is not true, *)
(* but for the tables another selection dropped or a flush gave up (lost).  *)
THEOREM MarkersTrue ==
  Spec => []MarkedIsLoaded
<1>1. IInv => MarkedIsLoaded
  BY DEF IInv
<1>2. QED BY <1>1, ImportInvariant, PTL

(* A run that exits 0 has every table it was asked for in the destination,   *)
(* also the ones an earlier run had finished (_do_import_with_recovery).     *)
THEOREM SuccessIsHonest ==
  Spec => []SuccessMeansLoaded
<1>1. IInv => SuccessMeansLoaded
  BY DEF IInv
<1>2. QED BY <1>1, ImportInvariant, PTL

(* A run that gives up has every table it was asked for in the destination   *)
(* or in its import-failed record (run_with_recovery, the end of the ladder). *)
THEOREM GivingUpIsHonest ==
  Spec => []NoSilentGiveUp
<1>1. IInv => NoSilentGiveUp
  BY DEF IInv
<1>2. QED BY <1>1, ImportInvariant, PTL

(* No recorded cutoff is later than the snapshot in its table                *)
(* (_do_import_with_recovery, the cutoffs key).                              *)
THEOREM CutoffsAreSafe ==
  Spec => []CutoffNotAhead
<1>1. IInv => CutoffNotAhead
  BY DEF IInv
<1>2. QED BY <1>1, ImportInvariant, PTL

(* No step of a run drops or rewrites a table that is marked for its own    *)
(* selection and stays so: drops and loads touch the tables of the attempt, *)
(* which are not imported yet, and the flush of a table comes before its    *)
(* marker.                                                                  *)
THEOREM FinishedStaysPut ==
  Spec => DoneUndisturbed
<1>1. TypeOK /\ IInv /\ [Next]_vars =>
        (pc # "idle" =>
           \A t \in markers[only] \cap markers'[only] : dest'[t] = dest[t])
  <2> SUFFICES ASSUME TypeOK, IInv, [Next]_vars, pc # "idle", NEW t \in markers[only]
               PROVE  dest'[t] = dest[t]
    OBVIOUS
  <2> DEFINE Touches == pc \in {"create", "load", "replay", "completed"}
  <2>1. only \in Selections /\ t \in Tables
    BY DEF TypeOK, StoredOK, IInv, ScopeInv
  <2>2. Touches => /\ ready \cap imported = {}
                   /\ t \in imported \cup Fresh
    BY DEF IInv, ScopeInv, LoadInv, MarkInv, LoadStages, Attempting, Stages
  <2>4. pc \in {"create", "load", "replay"} => queue \subseteq ready /\ t \notin queue
    BY <2>2 DEF IInv, LoadInv, Fresh
  <2>5. pc = "completed" => t \notin ready
    BY <2>2 DEF Fresh
  <2>6. CASE create_datasource
    BY <2>1, <2>4, <2>6 DEF create_datasource, TypeOK, StoredOK, target
  <2>7. CASE Replay
    BY <2>1, <2>4, <2>7 DEF Replay, TypeOK, StoredOK, target
  <2>8. CASE flush_imported
    BY <2>1, <2>4, <2>8 DEF flush_imported, TypeOK, StoredOK, target, IInv, LoadInv
  <2>9. CASE import_completed
    BY <2>1, <2>5, <2>9 DEF import_completed, TypeOK, StoredOK, target, IInv, LoadInv
  <2>10. CASE UNCHANGED dest
    BY <2>10
  <2>11. QED
    BY <2>6, <2>7, <2>8, <2>9, <2>10
    DEF Next, Process, Service, vars, target, Start, StageFails, Post, ServiceExports,
        ServiceExpires, Poll, Download, Cancelled, Connect, write_progress_marker,
        AllReplayed, MarkAll, Absorb, Decide, Backoff, PersistCutoffs, RecordFailed,
        ClearMarkers, ClearFailed, Cancel, Crash
<1>2. QED BY <1>1, ImportInvariant, PTL DEF Spec, DoneUndisturbed

(* A retry exports again only when it must, and only what is not marked     *)
(* (run_with_recovery, the choice between a new job and the same one).      *)
THEOREM RecallsAreMinimal ==
  Spec => RecallMinimal
<1> DEFINE MayPost == \/ \A t \in Tables : status[t] = "None"
                      \/ expired \/ misread
                      \/ \E t \in Tables : status[t] = "Failed"
<1>1. TypeOK /\ IInv /\ [Next]_vars =>
        (jobId' # jobId => MayPost /\ \A t \in markers[only] : status'[t] = "None")
  <2> SUFFICES ASSUME TypeOK, IInv, [Next]_vars, jobId' # jobId
               PROVE  MayPost /\ \A t \in markers[only] : status'[t] = "None"
    OBVIOUS
  <2>1. Post
    BY DEF Next, Process, Service, vars, Start, StageFails, ServiceExports,
           ServiceExpires, Poll, Download, Cancelled, Connect, create_datasource,
           Replay, flush_imported, write_progress_marker, AllReplayed, import_completed,
           MarkAll, Absorb, Decide, Backoff, PersistCutoffs, RecordFailed, ClearMarkers,
           ClearFailed, Cancel, Crash, Ends, persistent, target, service
  <2>2. MayPost
    BY <2>1 DEF Post, IInv, PostInv, Attempting, Stages, Listed, failed_tables
  <2>3. markers[only] \subseteq Tables /\ markers[only] \subseteq imported
    BY <2>1
    DEF Post, IInv, MarkInv, ScopeInv, Attempting, Stages, Fresh, TypeOK, StoredOK,
        target
  <2>4. Candidate(exportTables) \cap imported = {}
    BY <2>1 DEF Post, IInv, PostInv, ScopeInv, Attempting, Stages, Candidate, Done,
                TypeOK, LoopOK
  <2>5. \A t \in markers[only] : status'[t] = "None"
    BY <2>1, <2>3, <2>4 DEF Post
  <2>6. QED BY <2>2, <2>5
<1>2. QED BY <1>1, ImportInvariant, PTL DEF Spec, RecallMinimal
=============================================================================
