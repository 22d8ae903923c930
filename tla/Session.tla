------------------------------ MODULE Session ------------------------------
(***************************************************************************)
(* The control plane's sessions with the API (cmd/server.py,               *)
(* cmd/session.py, util/http.py), the commands HQ sends during a session   *)
(* (notification/__init__.py), and the worker's log files, which three     *)
(* threads rotate, upload and remove (util/logger.py,                      *)
(* cmd/notification_wiring.py).  What a command does to the worker is the  *)
(* subject of Supervisor: here the worker ends at any time, with any code. *)
(*                                                                         *)
(* One log line, written at any moment of any session, stands for all of   *)
(* them, and one command for all that HQ sends.  A log file is named by    *)
(* its session and the millisecond of the rotation that opened it, which   *)
(* is told by the number of the first rotation in it: two rotations in one *)
(* millisecond open the same file.  A plane that dies is started again by  *)
(* the wrapper.                                                            *)
(***************************************************************************)
EXTENDS Naturals, Sequences, FiniteSetsExt

CONSTANTS
  KeepLogs,     \* --keep-logs
  MaxSessions,  \* bound: sessions the API opens
  MaxTicks,     \* bound: rotations
  MaxFaults     \* bound: failed calls, lost answers, failed workers

ASSUME SessionAssumption ==
  KeepLogs \in BOOLEAN /\ {MaxSessions, MaxTicks, MaxFaults} \subseteq Nat

VARIABLES
  api,      \* the API: sessions that are open
  opened,   \* the API: how many it ever opened
  sess,     \* ctx.session_id
  pc,       \* the plane's main thread
  code,     \* the worker's exit code
  remote,   \* the notification consumer is connected
  rest,     \* what get_remaining_log found
  live,     \* the file the worker logs to, or NoFile
  now,      \* how many rotations there were
  files,    \* the log files on disk
  line,     \* the file the line was written to and is in, or NoFile
  home,     \* history: the file the line was written to, or NoFile
  stored,   \* the uploads that hold the line: by whom, under which session
  send,     \* the calls of send_logs that are under way
  cmd,      \* what the command's task still has to do
  bg,       \* ... and its import leg in the background
  asked,    \* the command was sent
  cleared,  \* history: sessions whose directory was removed
  clash,    \* history: names that were opened again while the worker logged to them
  faults

apiVars == <<api, opened>>
logVars == <<live, now, files, line, clash>>
cmdVars == <<cmd, bg, asked>>
lineVars == <<logVars, home, stored, cleared>>
vars == <<apiVars, sess, pc, code, remote, rest, lineVars, send, cmdVars, faults>>

Files == (0..MaxSessions) \X (0..MaxTicks)
NoFile == <<0, 0>>
Codes == {"success", "restart", "error", "nats", "usage"}
Kinds == {"ping", "restart", "shutdown", "pause", "unpause", "upgrade", "sendlogs", "configure",
          "import", "driverconfig", "validate", "unknown"}

(* send_logs runs in a thread for a command, for the hourly ticker, or for a  *)
(* ticker of an earlier session that was cancelled.                           *)
Senders == {"task", "ticker", "old"}
Idle == [at |-> "idle", file |-> NoFile, to |-> 0]

Fault == faults < MaxFaults /\ faults' = faults + 1

Init ==
  /\ api = {} /\ opened = 0
  /\ sess = 0 /\ pc = "start" /\ code = "success" /\ remote = FALSE /\ rest = NoFile
  /\ live = NoFile /\ now = 0 /\ files = {} /\ cleared = {} /\ clash = {}
  /\ line = NoFile /\ home = NoFile /\ stored = {}
  /\ send = [i \in Senders |-> Idle]
  /\ cmd = <<>> /\ bg = <<>> /\ asked = FALSE
  /\ faults = 0

-----------------------------------------------------------------------------
(* The log file sink of the worker. *)

(* rotate: the next file has the name of a new millisecond, or of the last    *)
(* one again: then it is the same file, and it is emptied.                    *)
Open(s) ==
  /\ now < MaxTicks
  /\ now' = now + 1
  /\ live' \in {<<s, now'>>, live} \ {NoFile}
  /\ files' = files \cup {live'}
  /\ line' = IF line = live' THEN NoFile ELSE line
  /\ clash' = IF live = live' THEN clash \cup {live} ELSE clash

(* write: a file that was removed under the sink swallows the line. *)
WriteLine ==
  /\ live # NoFile
  /\ home = NoFile
  /\ home' = live
  /\ line' = IF live \in files THEN live ELSE NoFile
  /\ UNCHANGED <<apiVars, sess, pc, code, remote, rest, live, now, files, clash, stored, cleared, send, cmdVars, faults>>

(* os.remove, rmtree. *)
Remove(F) ==
  /\ files' = files \ F
  /\ line' = IF line \in F THEN NoFile ELSE line
  /\ UNCHANGED <<live, now, clash>>

(* upload_log_file: a file is gzipped and put; it is still there. *)
Upload(f, to, by) == stored' = IF line = f THEN stored \cup {[to |-> to, by |-> by]} ELSE stored

-----------------------------------------------------------------------------
(* The plane's main thread: one session after the other. *)

(* send_start: the API takes the request unless a session is open; else it    *)
(* answers 409, and after five seconds nothing has changed.                   *)
ApiOpens ==
  /\ pc = "start"
  /\ api = {} /\ opened < MaxSessions
  /\ opened' = opened + 1
  /\ api' = {opened'}

StartSession ==
  /\ ApiOpens
  /\ sess' = opened'
  /\ pc' = "connect"
  /\ UNCHANGED <<code, remote, rest, lineVars, send, cmdVars, faults>>

(* The session is opened and the answer lost: HttpRetry tries again after a   *)
(* gateway error and, for thirty seconds, after a reset; else it is fatal.    *)
StartLost ==
  /\ Fault
  /\ ApiOpens
  /\ pc' \in {"start", "dying"}
  /\ UNCHANGED <<sess, code, remote, rest, lineVars, send, cmdVars>>

(* External: the API forgets a session whose server is not heard of. *)
SessionExpires ==
  /\ pc = "start"
  /\ api # {}
  /\ api' = {}
  /\ UNCHANGED <<opened, sess, pc, code, remote, rest, lineVars, send, cmdVars, faults>>

(* runner.start.  Without NATS there is another session in five seconds, and  *)
(* this one is not ended; after any other error it goes on without commands.  *)
Connect ==
  /\ pc = "connect"
  /\ \/ pc' = "fork" /\ remote' = TRUE /\ UNCHANGED faults
     \/ pc' \in {"start", "fork"} /\ Fault /\ UNCHANGED remote
  /\ UNCHANGED <<apiVars, sess, code, rest, lineVars, send, cmdVars>>

(* The worker starts with a new log file. *)
Fork ==
  /\ pc = "fork"
  /\ Open(sess)
  /\ pc' = "run"
  /\ UNCHANGED <<apiVars, sess, code, remote, rest, home, stored, cleared, send, cmdVars, faults>>

(* It cannot be started: the loop goes on without an end of the session. *)
ForkFails ==
  /\ Fault
  /\ pc = "fork"
  /\ code' = "error"
  /\ pc' = "stop"
  /\ UNCHANGED <<apiVars, sess, remote, rest, lineVars, send, cmdVars>>

(* get_remaining_log: the last name of the session's logs. *)
RemainingLog ==
  LET mine == {f \in files : f[1] = sess}
  IN  IF mine = {} THEN NoFile ELSE <<sess, Max({f[2] : f \in mine})>>

(* The worker ends.  Only a usage error is not reported to the API. *)
WorkerEnds ==
  /\ pc = "run"
  /\ code' \in Codes
  /\ IF code' \in {"error", "usage"} THEN Fault ELSE UNCHANGED faults
  /\ live' = NoFile
  /\ rest' = IF code' = "usage" THEN NoFile ELSE RemainingLog
  /\ pc' = IF code' = "usage" THEN "decide" ELSE "end"
  /\ UNCHANGED <<apiVars, sess, remote, now, files, line, clash, home, stored, cleared, send, cmdVars>>

(* Mutant: a restart is not reported as an end. *)
MutantEndUnlessRestart ==
  /\ pc = "end"
  /\ api' = IF code = "restart" THEN api ELSE api \ {sess}
  /\ pc' = "upload"
  /\ UNCHANGED <<opened, sess, code, remote, rest, lineVars, send, cmdVars, faults>>

(* send_end fails before or after the API took it, and then nothing is        *)
(* uploaded.                                                                  *)
SendEnd ==
  /\ pc = "end"
  /\ \/ api' = api \ {sess} /\ pc' = "upload" /\ UNCHANGED faults
     \/ api' \in {api, api \ {sess}} /\ pc' = "decide" /\ Fault
  /\ UNCHANGED <<opened, sess, code, remote, rest, lineVars, send, cmdVars>>

(* The remaining log; a failure is logged. *)
UploadRest ==
  /\ pc = "upload"
  /\ pc' = "decide"
  /\ \/ rest \in files /\ Upload(rest, sess, "plane") /\ UNCHANGED faults
     \/ rest \notin files /\ UNCHANGED <<stored, faults>>
     \/ Fault /\ UNCHANGED stored
  /\ UNCHANGED <<apiVars, sess, code, remote, rest, logVars, home, cleared, send, cmdVars>>

(* A clean end removes the session's directory. *)
Decide ==
  /\ pc = "decide"
  /\ pc' = "stop"
  /\ IF code = "success" /\ ~KeepLogs
     THEN Remove({f \in files : f[1] = sess}) /\ cleared' = cleared \cup {sess}
     ELSE UNCHANGED <<logVars, cleared>>
  /\ UNCHANGED <<apiVars, sess, code, remote, rest, home, stored, send, cmdVars, faults>>

(* runner.stop: the connection is closed and the tickers are cancelled; a     *)
(* ticker's thread goes on by itself (at most two of them, in this model).    *)
CloseRunner ==
  /\ pc = "stop"
  /\ remote' = FALSE
  /\ send' = IF send["ticker"] = Idle \/ send["old"] # Idle THEN send
             ELSE [send EXCEPT !["old"] = send["ticker"], !["ticker"] = Idle]
  /\ pc' = "gather"
  /\ UNCHANGED <<apiVars, sess, code, rest, lineVars, cmdVars, faults>>

(* The next iteration, unless the plane is to leave. *)
Iterate ==
  /\ pc' = IF code \in {"success", "usage"} THEN "done" ELSE "start"
  /\ code' = "success"
  /\ rest' = NoFile

(* Mutant: the tasks are waited for without a limit. *)
MutantStopWaits == FALSE

(* Mutant: the tasks are not waited for. *)
MutantGatherNothing ==
  /\ pc = "gather"
  /\ Iterate
  /\ UNCHANGED <<apiVars, sess, remote, lineVars, send, cmdVars, faults>>

(* The tasks are waited for, ... *)
Gathered ==
  /\ pc = "gather"
  /\ cmd = <<>> /\ bg = <<>>
  /\ Iterate
  /\ UNCHANGED <<apiVars, sess, remote, lineVars, send, cmdVars, faults>>

(* ... for thirty seconds: then the plane ends, and its loop with it. *)
StopTimesOut ==
  /\ pc = "gather"
  /\ cmd # <<>> \/ bg # <<>>
  /\ cmd' = <<>> /\ bg' = <<>>
  /\ pc' = "dying"
  /\ code' = "success" /\ rest' = NoFile
  /\ UNCHANGED <<apiVars, sess, remote, lineVars, send, asked, faults>>

(* A process that ends waits for its threads; the wrapper starts another. *)
PlaneReborn ==
  /\ pc = "dying"
  /\ \A i \in Senders : send[i].at \in {"idle", "end"}
  /\ send' = [i \in Senders |-> Idle]
  /\ pc' = "start"
  /\ UNCHANGED <<apiVars, sess, code, remote, rest, lineVars, cmdVars, faults>>

-----------------------------------------------------------------------------
(* send_logs, in a thread. *)

(* The task of a command waits for the result; of a ticker's call only the    *)
(* publishing is left, and that is abstracted.                                *)
At(i, a) == send[i].at = a
Goto(i, r) == send' = [send EXCEPT ![i] = r]
Return(i, file) == Goto(i, IF i = "task" THEN [at |-> "end", file |-> file, to |-> 0] ELSE Idle)
Failed(i) == Return(i, NoFile)
planeVars == <<apiVars, sess, pc, code, remote, rest, cleared, home>>

Connected == remote /\ pc \in {"fork", "run", "end", "upload", "decide"}

(* The hourly ticker. *)
Ticker ==
  /\ Connected /\ now < MaxTicks
  /\ At("ticker", "idle")
  /\ Goto("ticker", [Idle EXCEPT !.at = "ask"])
  /\ UNCHANGED <<planeVars, logVars, stored, cmdVars, faults>>

(* GET /control/logfile: the worker rotates and answers the old name, which   *)
(* may be lost; or there is no worker (here also: no rotation left).          *)
Rotate(i) ==
  /\ At(i, "ask")
  /\ \/ /\ live # NoFile
        /\ Open(live[1])
        /\ \/ Goto(i, [at |-> "url", file |-> live, to |-> 0]) /\ UNCHANGED faults
           \/ Failed(i) /\ Fault
     \/ /\ live = NoFile \/ now = MaxTicks
        /\ Failed(i)
        /\ UNCHANGED <<logVars, faults>>
  /\ UNCHANGED <<planeVars, stored, cmdVars>>

(* get_log_upload_url is called with the session of the moment; its answer is *)
(* waited for together with the upload's.                                     *)
GetUploadUrl(i) ==
  /\ At(i, "url")
  /\ Goto(i, [send[i] EXCEPT !.at = "put", !.to = sess])
  /\ UNCHANGED <<planeVars, logVars, stored, cmdVars, faults>>

UploadLog(i) ==
  /\ At(i, "put")
  /\ send[i].file \in files
  /\ Upload(send[i].file, send[i].to, i)
  /\ Goto(i, [send[i] EXCEPT !.at = "rm"])
  /\ UNCHANGED <<planeVars, logVars, cmdVars, faults>>

(* Mutant: the file is removed all the same. *)
MutantUploadFailsRemoves(i) ==
  /\ At(i, "put")
  /\ Fault
  /\ Remove({send[i].file})
  /\ Failed(i)
  /\ UNCHANGED <<planeVars, stored, cmdVars>>

(* There is no url, the upload fails, or the file is gone: what is on disk     *)
(* stays.                                                                     *)
UploadFails(i) ==
  /\ At(i, "put")
  /\ IF send[i].file \in files THEN Fault ELSE UNCHANGED faults
  /\ Failed(i)
  /\ UNCHANGED <<planeVars, logVars, stored, cmdVars>>

RemoveLog(i) ==
  /\ At(i, "rm")
  /\ IF KeepLogs THEN UNCHANGED logVars ELSE Remove({send[i].file})
  /\ Return(i, send[i].file)
  /\ UNCHANGED <<planeVars, stored, cmdVars, faults>>

SendLogs(i) ==
  Rotate(i) \/ GetUploadUrl(i) \/ UploadLog(i) \/ UploadFails(i) \/ RemoveLog(i)

-----------------------------------------------------------------------------
(* The notification consumer. *)

(* dispatch: what a command's task does, in order; nothing for an unknown     *)
(* action or when a field is missing.                                         *)
Script(kind) ==
  CASE kind = "unknown"                -> <<>>
    [] kind = "ping"                   -> <<"pong">>
    [] kind = "shutdown"               -> <<"handle">>
    [] kind \in {"pause", "unpause"}   -> <<"handle", "response">>
    [] kind \in {"restart", "upgrade"} -> <<"status", "handle", "response">>
    [] kind = "sendlogs"               -> <<"send_logs", "response">>
    [] kind = "import"                 -> <<"backfill_init", "json", "status", "import">>
    [] kind = "configure"              -> <<"configure", "json">>
    [] kind \in {"driverconfig", "validate"} -> <<"handle", "json">>

(* _callback. *)
Command ==
  /\ Connected
  /\ ~asked
  /\ asked' = TRUE
  /\ \E kind \in Kinds : cmd' = Script(kind)
  /\ UNCHANGED <<planeVars, logVars, stored, send, bg, faults>>

Doing(c, step) == c # <<>> /\ Head(c) = step

(* The handler of a command; the export job of an import may fail, and        *)
(* configure may have a log to tell of.                                       *)
Handle ==
  /\ \/ Doing(cmd, "handle") /\ cmd' = Tail(cmd)
     \/ Doing(cmd, "configure") /\ cmd' \in {Tail(cmd), <<"json", "response">>}
     \/ Doing(cmd, "backfill_init") /\ cmd' \in {Tail(cmd), <<"json">>}
  /\ UNCHANGED <<planeVars, logVars, stored, send, bg, asked, faults>>

(* call_send_logs: a thread, then the response unless it failed. *)
CallSendLogs ==
  /\ Doing(cmd, "send_logs")
  /\ \/ At("task", "idle") /\ Goto("task", [Idle EXCEPT !.at = "ask"]) /\ UNCHANGED cmd
     \/ At("task", "end") /\ Goto("task", Idle)
        /\ cmd' = IF send["task"].file = NoFile THEN <<>> ELSE Tail(cmd)
  /\ UNCHANGED <<planeVars, logVars, stored, bg, asked, faults>>

Replies == {"pong", "status", "response", "json"}

(* respond or publish. *)
Reply ==
  /\ cmd # <<>> /\ Head(cmd) \in Replies
  /\ remote
  /\ cmd' = Tail(cmd)
  /\ UNCHANGED <<planeVars, logVars, stored, send, bg, asked, faults>>

(* It fails, or the connection is closed: only a status is passed over. *)
ReplyFails ==
  /\ cmd # <<>> /\ Head(cmd) \in Replies
  /\ IF remote THEN Fault ELSE UNCHANGED faults
  /\ cmd' = IF Head(cmd) = "status" THEN Tail(cmd) ELSE <<>>
  /\ UNCHANGED <<planeVars, logVars, stored, send, bg, asked>>

(* The import leg goes to the background, where a failed import has a log to  *)
(* tell of.                                                                   *)
RunImport ==
  /\ \/ Doing(cmd, "import") /\ cmd' = <<>> /\ bg' = <<"import">>
     \/ Doing(bg, "import") /\ bg' \in {<<"response">>, <<"response", "response">>} /\ UNCHANGED cmd
     \/ Doing(bg, "response") /\ bg' = (IF remote THEN Tail(bg) ELSE <<>>) /\ UNCHANGED cmd
  /\ UNCHANGED <<planeVars, logVars, stored, send, asked, faults>>

Dispatch == Handle \/ CallSendLogs \/ Reply \/ ReplyFails

-----------------------------------------------------------------------------
Plane ==
  StartSession \/ Connect \/ Fork \/ SendEnd \/ UploadRest \/ Decide \/ CloseRunner
    \/ Gathered \/ PlaneReborn

Next ==
  \/ WriteLine \/ WorkerEnds
  \/ Plane \/ StartLost \/ SessionExpires \/ ForkFails \/ StopTimesOut
  \/ Ticker \/ \E i \in Senders : SendLogs(i)
  \/ Command \/ Dispatch \/ RunImport

Spec == Init /\ [][Next]_vars

(* The plane's steps that wait for nobody are taken, and the limit of thirty  *)
(* seconds is kept.  A call of the API may never return (no timeout, and      *)
(* HttpRetry has no limit), nor may a handler's thread.                       *)
FairSpec == Spec /\ WF_vars(Decide \/ CloseRunner \/ Gathered \/ StopTimesOut)

-----------------------------------------------------------------------------
TypeOK ==
  /\ opened \in 0..MaxSessions /\ api \subseteq 1..opened
  /\ sess \in 0..opened
  /\ pc \in {"start", "connect", "fork", "run", "end", "upload", "decide", "stop", "gather",
             "dying", "done"}
  /\ code \in Codes /\ rest \in Files
  /\ {remote, asked} \subseteq BOOLEAN
  /\ live \in Files /\ now \in 0..MaxTicks /\ files \subseteq Files
  /\ line \in files \cup {NoFile} /\ home \in Files /\ clash \subseteq Files
  /\ stored \subseteq [to : 1..opened, by : Senders \cup {"plane"}]
  /\ send \in [Senders -> [at : {"idle", "ask", "url", "put", "rm", "end"}, file : Files,
                           to : 0..MaxSessions]]
  /\ {cmd, bg} \subseteq Seq(Replies \cup {"handle", "send_logs", "configure", "backfill_init", "import"})
  /\ cleared \subseteq 1..opened
  /\ faults \in 0..MaxFaults

(***************************************************************************)
(* No log line is lost, whoever rotates, uploads and removes files and     *)
(* whatever fails: it was uploaded or is on disk, unless a clean end       *)
(* removed its session's directory or its file was opened twice, by two    *)
(* rotations in one millisecond.                                           *)
(***************************************************************************)
LineKept ==
  home # NoFile => stored # {} \/ line # NoFile \/ home[1] \in cleared \/ home \in clash

(***************************************************************************)
(* A log that a command or the end of a session uploads is filed under the *)
(* session it was written in, although ctx.session_id is read again after  *)
(* the file was rotated: stop() waits for the tasks of the session.        *)
(***************************************************************************)
UploadsGoHome == \A u \in stored : u.by \in {"task", "plane"} => u.to = home[1]

(***************************************************************************)
(* The API refuses a session (409) only after a failure: every way through *)
(* the loop that leads to another send_start ends the session before.      *)
(***************************************************************************)
RefusedOnlyAfterFault == pc = "start" /\ api # {} => faults > 0

(***************************************************************************)
(* Once the worker has ended, its session is over in the end and another   *)
(* one starts or the plane leaves, whatever commands and uploads are under *)
(* way: a call that never returns holds it up only if it is the plane's    *)
(* own, to end the session or to upload its log, or if the process waits   *)
(* for its threads after stop() ran out of time.                           *)
(***************************************************************************)
SessionTurnsOver ==
  \/ pc \in {"end", "upload", "decide", "stop", "gather"} ~> pc \in {"start", "done"}
  \/ \E at \in {"end", "upload", "dying"} : <>[](pc = at)
=============================================================================
