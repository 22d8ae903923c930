--------------------------- MODULE ImportRecovery ---------------------------
(***************************************************************************)
(* The import command with recovery: one process at a time that asks the   *)
(* export service for a job, polls it, downloads its files, replays them   *)
(* into the destination and writes progress markers to the tracker, with   *)
(* the retry ladder of run_with_recovery around it.  The process may crash *)
(* or be cancelled at any point; what the tracker and the destination hold *)
(* survives, and a later run resumes from the markers.                     *)
(*                                                                         *)
(* Jobs are numbered in the order they are created, and the number of a    *)
(* job stands for the time of its snapshot: a destination table that holds *)
(* the rows of job j is j, and a cutoff j skips the changes before job j.  *)
(***************************************************************************)
EXTENDS Integers, FiniteSets

CONSTANTS
  Tables,      \* the tables of the latest schema
  Selections,  \* the values of --only the operator uses; {} is a full import
  NoData,      \* tables whose export has no files
  Flusher,     \* TRUE: a SQL driver (drops, flushes per table); FALSE: a stream sink
  Deadline,    \* TRUE: the sink's last flush may give up in silence (Kafka)
  MaxRetries,  \* --max-retries
  MaxRuns      \* bound: runs of the command

ASSUME SelectionsAssumption == Selections \subseteq SUBSET Tables
ASSUME NoDataAssumption == NoData \subseteq Tables
ASSUME FlusherAssumption == Flusher \in BOOLEAN
ASSUME DeadlineAssumption == Deadline \in BOOLEAN
ASSUME RetriesAssumption == MaxRetries \in Nat \ {0}
ASSUME RunsAssumption == MaxRuns \in Nat

VARIABLES
  markers,     \* tracker: import-progress:{run_id}:{table}, per selection
  failedRec,   \* tracker: import-failed:{run_id}, per selection; {} is no record
  cutoffs,     \* tracker: "table-export"; 0 is a table with no entry
  dest,        \* destination: job whose rows a table holds, 0 none, Partial
  lost,        \* history: tables emptied in spite of another selection's marker,
               \* or given up by a flush that reported success
  jobId,       \* number of jobs the service has created
  status,      \* status of each table in the job this process knows
  expired,     \* the signed URLs of that job are no longer valid
  pc, only, initial, imported, learned, working, exportTables, needPost,
  attempt, info, ready, unlisted, queue, cur, cancel, gaveUp, exit, runs,
  misread      \* history: an error of this job was taken for expired URLs

persistent == <<markers, failedRec, cutoffs>>
target == <<dest, lost>>
service == <<jobId, status, expired>>
scope == <<learned, working, exportTables, needPost>>
loading == <<ready, unlisted, queue, cur>>
run == <<only, initial, runs>>
outcome == <<gaveUp, exit>>
vars == <<persistent, target, service, pc, run, imported, scope, attempt, info,
          loading, cancel, outcome, misread>>

Partial == -1
Star == "*"
NoTables == [t \in Tables |-> 0]
Loaded(t) == dest[t] > 0
Kept(t) == Loaded(t) \/ t \in lost

(* The tables a selection asks for: --only, or the whole schema. *)
Candidate(s) == IF s = {} THEN Tables ELSE s

Stages == {"post", "poll", "download", "connect", "create", "load", "replay",
           "mark", "completed", "markAll", "absorb", "decide", "backoff",
           "persist", "record", "clear", "clearFailed"}
Statuses == {"None", "Exporting", "Completed", "Failed"}

(* What can happen to a stage, and the exception that reaches the handler: *)
(* bulk_download_data is wrapped as DownloadStageError whatever its cause; *)
(* the SQL drivers wrap every database error as ValueError, only one from  *)
(* opening the connection keeps its text; the text of a sink's error may   *)
(* or may not hold a transport marker.  A download counts as expired if    *)
(* 403 or 410 is anywhere in the error's text, host, file name and byte    *)
(* counts included, so that any of its failures may be misread.            *)
Faults ==
  CASE pc \in {"post", "poll"} ->
         {<<"transient", "Transport">>, <<"permanent", "Other">>}
    [] pc = "download" /\ unlisted # {} -> {<<"unfinished", "Download">>}
    [] pc = "download" /\ ready \subseteq NoData -> {}
    [] pc = "download" /\ expired ->
         {<<"expired", "DownloadExpired">>, <<"transient", "Download">>}
    [] pc = "download" ->
         {<<"transient", "Download">>, <<"local", "Download">>,
          <<"misread", "DownloadExpired">>}
    [] pc = "connect" ->
         {<<"transient", "Transport">>, <<"permanent", "Other">>,
          <<"transient", IF Flusher THEN "ValueError" ELSE "Other">>}
    [] pc = "create" -> {<<"transient", "ValueError">>, <<"permanent", "ValueError">>}
    [] pc = "replay" /\ Flusher ->
         {<<"transient", "ValueError">>, <<"permanent", "ValueError">>, <<"local", "Other">>}
    [] pc \in {"replay", "completed"} /\ ~Flusher ->
         {<<"transient", "Transport">>, <<"transient", "Other">>, <<"local", "Other">>}
    [] OTHER -> {}

is_recoverable(e) == e \in {"Transport", "Download", "DownloadExpired"}

Init ==
  /\ markers = [s \in Selections |-> {}]
  /\ failedRec = [s \in Selections |-> {}]
  /\ cutoffs = NoTables
  /\ dest = NoTables
  /\ jobId = 0
  /\ status = [t \in Tables |-> "None"]
  /\ expired = FALSE
  /\ pc = "idle"
  /\ only = {} /\ initial = {} /\ runs = 0
  /\ imported = {}
  /\ learned = FALSE /\ working = {} /\ exportTables = {} /\ needPost = FALSE
  /\ attempt = 0
  /\ info = NoTables
  /\ ready = {} /\ unlisted = {} /\ queue = {} /\ cur = {}
  /\ cancel = FALSE
  /\ lost = {} /\ misread = FALSE
  /\ gaveUp = {} /\ exit = "none"

(* Mutant: the markers of earlier runs are not read. *)
MutantNothingCompleted(s) == {}

(* The tables an earlier run of the same selection has finished. *)
Completed(s) == Candidate(s) \cap markers[s]

(***************************************************************************)
(* The command starts: markers of earlier runs of the same selection say   *)
(* which tables to skip.                                                   *)
(***************************************************************************)
Start(s) ==
  /\ pc = "idle" /\ runs < MaxRuns
  /\ runs' = runs + 1
  /\ only' = s
  /\ imported' = Completed(s)
  /\ initial' = IF imported' # {} THEN Candidate(s) \ imported' ELSE s
  /\ exportTables' = initial'
  /\ pc' = IF imported' # {} /\ initial' = {} THEN "clear" ELSE "post"
  /\ needPost' = TRUE /\ learned' = FALSE /\ working' = {}
  /\ attempt' = 1
  /\ info' = NoTables
  /\ ready' = {} /\ unlisted' = {} /\ queue' = {} /\ cur' = {}
  /\ cancel' = FALSE
  /\ gaveUp' = {} /\ exit' = "none" /\ misread' = FALSE
  /\ status' = [t \in Tables |-> "None"]
  /\ expired' = FALSE
  /\ UNCHANGED <<persistent, target, jobId>>

(* The run ends; nothing but the tracker and the destination survives. *)
Ends(how) ==
  /\ pc' = "idle" /\ exit' = how
  /\ UNCHANGED <<service, run, imported, scope, attempt, info, loading, cancel>>

(***************************************************************************)
(* The except branch of run_with_recovery.                                 *)
(***************************************************************************)
(* Mutant: a scope that was never learned counts as an empty one. *)
MutantScopeCollapses == TRUE

(* The tables still to import are known once a poll has listed them, or if *)
(* the run was asked for particular tables.                                *)
ScopeKnown == learned \/ initial # {}

(* Mutant: every failure starts a new export. *)
MutantAlwaysPosts(e) == TRUE

(* A new job is needed if there is none yet, or its URLs have expired. *)
MustPost(e) == needPost \/ e = "DownloadExpired"

StageFails ==
  \E f \in Faults :
    /\ misread' = (misread \/ f[1] = "misread")
    /\ UNCHANGED <<persistent, target, gaveUp>>
    /\ IF ~is_recoverable(f[2]) THEN Ends("fatal")
       ELSE LET before == IF learned THEN working ELSE initial
                flushed == before \cap markers[only]
            IN /\ learned' = ScopeKnown
               /\ imported' = imported \cup flushed
               /\ working' = before \ flushed
               /\ exportTables' = IF learned' THEN working' ELSE initial
               /\ needPost' = MustPost(f[2])
               /\ pc' = "decide"
               /\ UNCHANGED <<service, run, attempt, info, loading, cancel, exit>>

(***************************************************************************)
(* The stages of an attempt.                                               *)
(***************************************************************************)
(* create_export_job: a new job for exportTables, the empty list being all. *)
Post ==
  /\ pc = "post"
  /\ jobId' = jobId + 1
  /\ status' = [t \in Tables |->
                  IF t \in Candidate(exportTables) THEN "Exporting" ELSE "None"]
  /\ expired' = FALSE
  /\ needPost' = FALSE
  /\ misread' = FALSE
  /\ pc' = "poll"
  /\ UNCHANGED <<persistent, target, run, imported, learned, working, exportTables,
                 attempt, info, loading, cancel, outcome>>

(* The export of one table ends, and signed URLs expire, at any time. *)
ServiceExports(t) ==
  /\ pc # "idle" /\ status[t] = "Exporting"
  /\ \E st \in {"Completed", "Failed"} : status' = [status EXCEPT ![t] = st]
  /\ UNCHANGED <<persistent, target, jobId, expired, pc, run, imported, scope,
                 attempt, info, loading, cancel, outcome, misread>>

ServiceExpires ==
  /\ pc \notin {"idle", "post"} /\ ~expired
  /\ \E t \in Tables : status[t] = "Completed"
  /\ expired' = TRUE
  /\ UNCHANGED <<persistent, target, jobId, status, pc, run, imported, scope,
                 attempt, info, loading, cancel, outcome, misread>>

failed_tables == {t \in Tables : status[t] = "Failed"}
Present == {t \in Tables : status[t] # "None"} \ imported

(* Mutant: only the Failed tables stay in scope. *)
MutantScopeFailedOnly == Present \cap failed_tables

ScopeAfterPoll == Present

(* poll_until_complete(raise_on_failed=False) returns as soon as one table *)
(* is Failed, or when all are done; the tables of the job that are neither *)
(* imported nor Failed go on to the download, finished or not.  A table    *)
(* still exporting has neither URLs nor a cursor in this response.         *)
Poll ==
  /\ pc = "poll"
  /\ failed_tables # {} \/ \A t \in Tables : status[t] # "Exporting"
  /\ ~cancel
  /\ learned' = TRUE
  /\ working' = ScopeAfterPoll
  /\ ready' = Present \ failed_tables
  /\ unlisted' = {t \in ready' : status[t] = "Exporting"}
  /\ pc' = IF ready' = {} THEN "absorb" ELSE "download"
  /\ UNCHANGED <<persistent, target, service, run, imported, exportTables, needPost,
                 attempt, info, queue, cur, cancel, outcome, misread>>

(* Mutant: the cutoffs count before the rows are loaded. *)
MutantCutoffsAtDownload ==
  /\ pc = "download" /\ ~cancel /\ unlisted = {}
  /\ expired => ready \subseteq NoData
  /\ info' = [t \in Tables |-> IF t \in ready THEN jobId ELSE info[t]]
  /\ pc' = "connect"
  /\ UNCHANGED <<persistent, target, service, run, imported, scope, attempt,
                 loading, cancel, outcome, misread>>

(* bulk_download_data needs a cursor or valid URLs of every table in ready. *)
Download ==
  /\ pc = "download" /\ ~cancel
  /\ unlisted = {}
  /\ expired => ready \subseteq NoData
  /\ pc' = "connect"
  /\ UNCHANGED <<persistent, target, service, run, imported, scope, attempt, info,
                 loading, cancel, outcome, misread>>

Exhausted == attempt > MaxRetries

(* Nothing is left to import. *)
Done == learned /\ working = {}

(* A cancelled run stops where poll_fn, download_fn and the loop look. *)
Cancelled ==
  /\ pc \in {"poll", "download", "decide", "backoff"} /\ cancel
  /\ pc = "decide" => ~Done /\ ~Exhausted
  /\ Ends("cancelled")
  /\ UNCHANGED <<persistent, target, gaveUp, misread>>

(* run_import: a database connection, or the client of the sink. *)
Connect ==
  /\ pc = "connect"
  /\ pc' = IF Flusher THEN "create" ELSE "load"
  /\ queue' = ready
  /\ UNCHANGED <<persistent, target, service, run, imported, scope, attempt, info,
                 ready, unlisted, cur, cancel, outcome, misread>>

(* A marker of another selection stands for the table. *)
Foreign(t) == \E s \in Selections \ {only} : t \in markers[s]

(* A SQL driver drops and creates every table of the attempt first; the *)
(* markers other selections have of it stay.                            *)
create_datasource ==
  /\ pc = "create"
  /\ \/ \E t \in queue :
          /\ dest' = [dest EXCEPT ![t] = 0]
          /\ lost' = IF Foreign(t) THEN lost \cup {t} ELSE lost \ {t}
          /\ queue' = queue \ {t}
          /\ UNCHANGED pc
     \/ /\ queue = {}
        /\ pc' = "load" /\ queue' = ready
        /\ UNCHANGED target
  /\ UNCHANGED <<persistent, service, run, imported, scope, attempt, info,
                 ready, unlisted, cur, cancel, outcome, misread>>

(* Mutant: the marker is written before the rows. *)
MutantMarkFirst ==
  /\ pc = "load"
  /\ \E t \in queue :
       /\ cur' = {t}
       /\ markers' = [markers EXCEPT ![only] = @ \cup {t}]
  /\ pc' = "replay"
  /\ UNCHANGED <<failedRec, cutoffs, target, service, run, imported, scope, attempt,
                 info, ready, unlisted, queue, cancel, outcome, misread>>

(* process_file for the files of one table; a SQL driver may write some *)
(* full batches on the way.                                             *)
Replay ==
  /\ pc = "load"
  /\ \E t \in queue :
       /\ cur' = {t}
       /\ \/ UNCHANGED dest
          \/ Flusher /\ t \notin NoData /\ dest' = [dest EXCEPT ![t] = Partial]
  /\ UNCHANGED lost
  /\ pc' = "replay"
  /\ UNCHANGED <<persistent, service, run, imported, scope, attempt, info,
                 ready, unlisted, queue, cancel, outcome, misread>>

(* Mutant: a table of a stream sink is marked before the sink is flushed. *)
MutantMarkUnflushed ==
  /\ pc = "replay" /\ ~Flusher
  /\ markers' = [markers EXCEPT ![only] = @ \cup cur]
  /\ queue' = queue \ cur /\ cur' = {} /\ pc' = "load"
  /\ UNCHANGED <<failedRec, cutoffs, target, service, run, imported, scope, attempt,
                 info, ready, unlisted, cancel, outcome, misread>>

(* The end of a table: SQL flushes it, and then marks it. *)
flush_imported ==
  /\ pc = "replay"
  /\ queue' = queue \ cur
  /\ IF Flusher
     THEN /\ dest' = [t \in Tables |-> IF t \in cur THEN jobId ELSE dest[t]]
          /\ lost' = lost \ cur
          /\ pc' = "mark" /\ UNCHANGED cur
     ELSE pc' = "load" /\ cur' = {} /\ UNCHANGED target
  /\ UNCHANGED <<persistent, service, run, imported, scope, attempt, info,
                 ready, unlisted, cancel, outcome, misread>>

write_progress_marker ==
  /\ pc = "mark"
  /\ markers' = [markers EXCEPT ![only] = @ \cup cur]
  /\ cur' = {} /\ pc' = "load"
  /\ UNCHANGED <<failedRec, cutoffs, target, service, run, imported, scope, attempt,
                 info, ready, unlisted, queue, cancel, outcome, misread>>

(* No table is left: a stream sink flushes everything at once. *)
AllReplayed ==
  /\ pc = "load" /\ queue = {}
  /\ pc' = IF Flusher THEN "absorb" ELSE "completed"
  /\ UNCHANGED <<persistent, target, service, run, imported, scope, attempt, info,
                 loading, cancel, outcome, misread>>

(* The last flush of a sink.  Kafka's keeps trying for ten seconds and then *)
(* returns without an error, and what librdkafka still holds after another  *)
(* ten is not looked at: the rows of any of the tables may be lost.         *)
import_completed ==
  /\ pc = "completed"
  /\ \E L \in SUBSET (IF Deadline THEN ready ELSE {}) :
       /\ dest' = [t \in Tables |-> IF t \in L THEN Partial
                                   ELSE IF t \in ready THEN jobId ELSE dest[t]]
       /\ lost' = (lost \ ready) \cup L
  /\ queue' = ready
  /\ pc' = "markAll"
  /\ UNCHANGED <<persistent, service, run, imported, scope, attempt, info,
                 ready, unlisted, cur, cancel, outcome, misread>>

MarkAll ==
  /\ pc = "markAll"
  /\ \/ \E t \in queue :
          /\ markers' = [markers EXCEPT ![only] = @ \cup {t}]
          /\ queue' = queue \ {t}
          /\ UNCHANGED pc
     \/ /\ queue = {} /\ pc' = "absorb"
        /\ UNCHANGED <<markers, queue>>
  /\ UNCHANGED <<failedRec, cutoffs, target, service, run, imported, scope, attempt,
                 info, ready, unlisted, cur, cancel, outcome, misread>>

(* The attempt is over without an exception: the tables left are the ones *)
(* whose export Failed.  A download without any file returned no cutoffs. *)
Absorb ==
  /\ pc = "absorb"
  /\ imported' = imported \cup ready
  /\ info' = IF ready \subseteq NoData THEN info
             ELSE [t \in Tables |-> IF t \in ready THEN jobId ELSE info[t]]
  /\ working' = working \ ready
  /\ IF working' = {} THEN UNCHANGED <<exportTables, needPost>>
     ELSE exportTables' = working' /\ needPost' = TRUE
  /\ pc' = "decide"
  /\ UNCHANGED <<persistent, target, service, run, learned, attempt, loading, cancel,
                 outcome, misread>>

(***************************************************************************)
(* The ladder.                                                             *)
(***************************************************************************)
Decide ==
  /\ pc = "decide"
  /\ \/ /\ Done
        /\ pc' = "persist" /\ UNCHANGED gaveUp
     \/ /\ ~Done /\ Exhausted
        /\ gaveUp' = IF learned THEN working
                     ELSE IF initial # {} THEN initial ELSE {Star}
        /\ pc' = "persist"
     \/ /\ ~Done /\ ~Exhausted /\ ~cancel
        /\ pc' = "backoff" /\ UNCHANGED gaveUp
  /\ UNCHANGED <<persistent, target, service, run, imported, scope, attempt, info,
                 loading, cancel, misread, exit>>

(* Mutant: a retry is not counted. *)
MutantRetryNotCounted == attempt

NextAttempt == attempt + 1

Backoff ==
  /\ pc = "backoff" /\ ~cancel
  /\ attempt' = NextAttempt
  /\ pc' = IF needPost THEN "post" ELSE "poll"
  /\ UNCHANGED <<persistent, target, service, run, imported, scope, info, loading,
                 cancel, outcome, misread>>

(***************************************************************************)
(* The end of a run, one tracker write at a time.                          *)
(***************************************************************************)
PersistCutoffs ==
  /\ pc = "persist"
  /\ cutoffs' = info
  /\ pc' = IF gaveUp # {} THEN "record" ELSE "clear"
  /\ UNCHANGED <<markers, failedRec, target, service, run, imported, scope, attempt,
                 info, loading, cancel, outcome, misread>>

RecordFailed ==
  /\ pc = "record"
  /\ failedRec' = [failedRec EXCEPT ![only] = gaveUp]
  /\ Ends("gaveup")
  /\ UNCHANGED <<markers, cutoffs, target, gaveUp, misread>>

ClearMarkers ==
  /\ pc = "clear"
  /\ markers' = [markers EXCEPT ![only] = {}]
  /\ pc' = "clearFailed"
  /\ UNCHANGED <<failedRec, cutoffs, target, service, run, imported, scope, attempt,
                 info, loading, cancel, outcome, misread>>

ClearFailed ==
  /\ pc = "clearFailed"
  /\ failedRec' = [failedRec EXCEPT ![only] = {}]
  /\ Ends("success")
  /\ UNCHANGED <<markers, cutoffs, target, gaveUp, misread>>

(***************************************************************************)
(* The operator and the machine.                                           *)
(***************************************************************************)
Cancel ==
  /\ pc # "idle" /\ ~cancel
  /\ cancel' = TRUE
  /\ UNCHANGED <<persistent, target, service, pc, run, imported, scope, attempt,
                 info, loading, outcome, misread>>

Crash ==
  /\ pc # "idle"
  /\ Ends("crashed")
  /\ UNCHANGED <<persistent, target, gaveUp, misread>>

Process ==
  \/ StageFails \/ Post \/ Poll \/ Download \/ Cancelled \/ Connect
  \/ create_datasource \/ Replay \/ flush_imported \/ write_progress_marker
  \/ AllReplayed \/ import_completed \/ MarkAll \/ Absorb
  \/ Decide \/ Backoff \/ PersistCutoffs \/ RecordFailed
  \/ ClearMarkers \/ ClearFailed

Service == ServiceExpires \/ \E t \in Tables : ServiceExports(t)

Next ==
  \/ \E s \in Selections : Start(s)
  \/ Process \/ Service \/ Cancel \/ Crash

Spec == Init /\ [][Next]_vars

(* Stages that wait for an answer the code sets no limit to: the client of *)
(* the service has no timeout and repeats what looks temporary for ever,   *)
(* a table may stay Exporting, and a statement takes what the destination  *)
(* takes.  The local work is done at once.                                 *)
Outside == {"post", "poll", "download", "connect", "create", "load", "replay",
            "completed"}

LiveSpec == Spec /\ WF_vars(pc \notin Outside /\ Process)

-----------------------------------------------------------------------------
(* Types: what survives a run, the service, the loop and the load. *)
StoredOK ==
  /\ markers \in [Selections -> SUBSET Tables]
  /\ failedRec \in [Selections -> SUBSET (Tables \cup {Star})]
  /\ cutoffs \in [Tables -> Nat]
  /\ dest \in [Tables -> Int] /\ lost \in SUBSET Tables

ServiceOK ==
  /\ jobId \in Nat
  /\ status \in [Tables -> Statuses]
  /\ expired \in BOOLEAN

LoopOK ==
  /\ pc \in Stages \cup {"idle"}
  /\ only \in SUBSET Tables /\ initial \in SUBSET Tables /\ runs \in Nat
  /\ imported \in SUBSET Tables
  /\ learned \in BOOLEAN /\ needPost \in BOOLEAN /\ cancel \in BOOLEAN
  /\ working \in SUBSET Tables /\ exportTables \in SUBSET Tables
  /\ attempt \in 0 .. MaxRetries + 1

LoadOK ==
  /\ info \in [Tables -> Nat]
  /\ ready \in SUBSET Tables /\ unlisted \in SUBSET Tables
  /\ queue \in SUBSET Tables /\ cur \in SUBSET Tables

OutcomeOK ==
  /\ gaveUp \in SUBSET (Tables \cup {Star})
  /\ misread \in BOOLEAN
  /\ exit \in {"none", "success", "gaveup", "fatal", "cancelled", "crashed"}

(* Every variable has the values run_with_recovery and the tracker give it; *)
(* in particular no run makes more than MaxRetries + 1 attempts.            *)
TypeOK == StoredOK /\ ServiceOK /\ LoopOK /\ LoadOK /\ OutcomeOK

(* A progress marker stands for a durable write (importer._run_recovery:    *)
(* "durable per-table flush BEFORE the marker"): whatever crashes, retries  *)
(* and restarts came in between, a marked table holds all rows of some job, *)
(* unless a run with another --only has dropped it since, or the sink's     *)
(* flush gave up without saying so.                                         *)
MarkedIsLoaded ==
  \A s \in Selections : \A t \in markers[s] : Kept(t)

(* A run that exits 0 leaves every table it was asked for loaded, also when *)
(* it skipped some of them because an earlier run had finished them; it is  *)
(* wrong only about the tables lost in the two ways above.                  *)
SuccessMeansLoaded ==
  pc = "idle" /\ exit = "success" => \A t \in Candidate(only) : Kept(t)

(* A run that gives up records it: each table it was asked for is loaded or *)
(* in the import-failed record, never "0 tables, success" (run_with_recovery *)
(* 295-300), with the same exceptions.                                       *)
NoSilentGiveUp ==
  pc = "idle" /\ exit = "gaveup" =>
    /\ failedRec[only] # {}
    /\ Star \in failedRec[only] \/ \A t \in Candidate(only) : Kept(t) \/ t \in failedRec[only]

(* A cutoff the streaming worker will read is never later than the snapshot *)
(* in the table: should_skip would drop changes the table does not have.    *)
CutoffNotAhead ==
  pc = "idle" /\ exit \in {"success", "gaveup"} =>
    \A t \in Candidate(only) : cutoffs[t] > 0 => cutoffs[t] <= dest[t] \/ t \in lost

(* While a table is marked for the selection of a run, none of the run's *)
(* retries and no resumed run drops or reloads it.                       *)
DoneUndisturbed ==
  [][pc # "idle" =>
       \A t \in markers[only] \cap markers'[only] : dest'[t] = dest[t]]_vars

(* A retry starts a new export only if the run has no job, its URLs have   *)
(* expired or were taken for expired, or a table of it Failed, and never   *)
(* asks again for a table that is already marked (run_with_recovery        *)
(* 274-277: otherwise it re-downloads the same job).                       *)
RecallMinimal ==
  [][jobId' # jobId =>
       /\ \/ \A t \in Tables : status[t] = "None"
          \/ expired \/ misread
          \/ \E t \in Tables : status[t] = "Failed"
       /\ \A t \in markers[only] : status'[t] = "None"]_vars

(* The ladder is finite: every run of the command ends, or waits for ever *)
(* in one stage for an answer from outside.                               *)
RunEnds ==
  \/ pc # "idle" ~> pc = "idle"
  \/ \E st \in Outside : <>[](pc = st)

-----------------------------------------------------------------------------
(* What the documentation says and the code does not do.                   *)

(* After a run that exits 0 every table it was asked for has the cutoff of  *)
(* the snapshot it holds, so that the worker skips what was imported        *)
(* (README.md:79).                                                          *)
CutoffsComplete ==
  pc = "idle" /\ exit = "success" =>
    \A t \in Candidate(only) : cutoffs[t] = dest[t]
=============================================================================
