--------------------------- MODULE SessionProofs ---------------------------
(***************************************************************************)
(* Proofs about the control plane's sessions and the worker's log files,   *)
(* for any number of sessions, rotations and failures, with --keep-logs or *)
(* without.                                                                *)
(*                                                                         *)
(* That no line is lost rests on file names: a rotation opens a name that  *)
(* no thread holds, unless it is the name of the file it closed, which     *)
(* then is in clash (FileInv). What send_logs removes is not the file the  *)
(* worker writes to, but for those, and what it removes it has uploaded    *)
(* (LineInv).                                                              *)
(* That an upload is filed under its own session rests on stop(), which    *)
(* waits for the command's task or ends the process (HomeInv).             *)
(***************************************************************************)
EXTENDS Session, SequenceTheorems, WellFoundedInduction, TLAPS

-----------------------------------------------------------------------------
(* The inductive invariant. *)

(* The plane is past send_start. *)
InSession == {"connect", "fork", "run", "end", "upload", "decide", "stop", "gather", "done"}

PlaneType ==
  /\ opened \in 0..MaxSessions /\ api \subseteq 1..opened
  /\ sess \in 0..opened
  /\ pc \in InSession \cup {"start", "dying"}
  /\ pc \in InSession => sess # 0
  /\ code \in Codes /\ rest \in Files
  /\ faults \in 0..MaxFaults

LogType ==
  /\ live \in Files /\ now \in 0..MaxTicks /\ files \subseteq Files
  /\ line \in files \cup {NoFile} /\ home \in Files /\ clash \subseteq Files
  /\ stored \subseteq [to : 1..opened, by : Senders \cup {"plane"}]
  /\ cleared \subseteq 1..opened

Calls == [at : {"idle", "ask", "url", "put", "rm", "end"}, file : Files, to : 0..MaxSessions]
SendType == send \in [Senders -> Calls]

FlagType == remote \in BOOLEAN /\ asked \in BOOLEAN

Steps == Replies \cup {"handle", "send_logs", "configure", "backfill_init", "import"}
CmdType == cmd \in Seq(Steps) /\ bg \in Seq(Steps)

(* The worker logs to a file of its session, which no upload has the name of  *)
(* if it was opened once.                                                     *)
FileInv ==
  /\ live # NoFile => pc = "run" /\ live[1] = sess /\ live[2] \in 1..now /\ (live \in files \/ live \in clash)
  /\ \A f \in files : f[2] \in 1..now
  /\ \A i \in Senders : send[i].file[2] <= now /\ (send[i].file = live => live = NoFile \/ live \in clash)

(* An upload under way is one of a session. *)
SendInv ==
  \A i \in Senders :
    /\ send[i].at \in {"url", "put", "rm"} => sess # 0
    /\ send[i].at \in {"put", "rm"} => send[i].to \in 1..opened

(* Where the line is: a file that is about to be removed was uploaded. *)
LineInv ==
  /\ LineKept
  /\ home = NoFile => line = NoFile /\ stored = {}
  /\ line # NoFile => line = home
  /\ \A i \in Senders : send[i].at = "rm" /\ line # NoFile /\ line = send[i].file => stored # {} \/ line \in clash

(* A command's upload is over, or its process is, before the session is. *)
HomeInv ==
  /\ UploadsGoHome
  /\ cmd # <<>> => asked
  /\ pc \in {"start", "connect", "dying"} => cmd = <<>>
  /\ send["task"].at # "idle" => pc = "dying" \/ Doing(cmd, "send_logs")
  /\ send["task"].at \in {"url", "put", "rm"} => send["task"].file[1] = sess
  /\ send["task"].at \in {"put", "rm"} => send["task"].to = sess
  /\ pc \in {"end", "upload"} /\ rest # NoFile => rest[1] = sess

(* While nothing failed, the API has the session of the moment or none. *)
CalmInv ==
  faults = 0 => api \subseteq (IF pc \in {"connect", "fork", "run", "end"} THEN {sess} ELSE {})

SInv ==
  /\ PlaneType /\ LogType /\ SendType /\ FlagType /\ CmdType
  /\ FileInv /\ SendInv /\ LineInv /\ HomeInv /\ CalmInv

-----------------------------------------------------------------------------
(* Lemmas about the operators. *)

(* A nonempty set of naturals below a bound has a maximum. *)
LEMMA MaxInSet ==
  ASSUME NEW n \in Nat, NEW S \in SUBSET (0..n), S # {}
  PROVE  Max(S) \in S
<1> DEFINE T == {n - x : x \in S}
<1>1. T \subseteq Nat /\ T # {}
  <2>1. ASSUME NEW x \in S PROVE n - x \in Nat
    OBVIOUS
  <2> QED
    BY <2>1
<1> HIDE DEF T
<1>2. PICK t \in T : \A u \in T : ~ (<<u, t>> \in OpToRel(<, Nat))
  BY <1>1, NatLessThanWellFounded, WFMin
<1>3. ASSUME NEW u \in T PROVE t <= u
  <2>1. ~ (<<u, t>> \in {r \in Nat \X Nat : r[1] < r[2]})
    BY <1>2 DEF OpToRel
  <2>2. t \in Nat /\ u \in Nat
    BY <1>1
  <2> QED
    BY <2>1, <2>2
<1>4. \E x \in S : \A y \in S : x >= y
  <2>1. PICK x \in S : t = n - x
    BY DEF T
  <2>2. \A y \in S : n - x <= n - y
    BY <1>3, <2>1 DEF T
  <2> QED
    BY <2>2
<1> QED
  BY <1>4 DEF Max

(* A failure is counted. *)
LEMMA FaultType ==
  ASSUME faults \in 0..MaxFaults, Fault
  PROVE  faults' \in 0..MaxFaults /\ faults' # 0
BY SessionAssumption DEF SessionAssumption, Fault

(* No file has no name. *)
LEMMA NoFileType == NoFile \in Files /\ NoFile[2] = 0
BY SessionAssumption DEF SessionAssumption, NoFile, Files

LEMMA FileType ==
  ASSUME NEW f \in Files
  PROVE  f[1] \in 0..MaxSessions /\ f[2] \in 0..MaxTicks
BY DEF Files

(* The files on disk have a name. *)
LEMMA NamedFiles ==
  ASSUME FileInv
  PROVE  NoFile \notin files
BY NoFileType DEF FileInv

LEMMA IdleType == Idle \in Calls /\ Idle.at = "idle" /\ Idle.file = NoFile /\ Idle.to = 0
BY NoFileType, SessionAssumption DEF SessionAssumption, Idle, Calls

(* A send_logs call goes on; the others do not move. *)
LEMMA GotoType ==
  ASSUME SendType, NEW i \in Senders, NEW r \in Calls, Goto(i, r)
  PROVE  /\ SendType'
         /\ send'[i] = r
         /\ \A j \in Senders \ {i} : send'[j] = send[j]
BY DEF SendType, Goto

(* ... or returns: to the command's task, or to nobody. *)
LEMMA ReturnType ==
  ASSUME SendType, NEW i \in Senders, NEW f \in Files, Return(i, f)
  PROVE  /\ SendType'
         /\ send'[i].at \in {"idle", "end"} /\ send'[i].file \in {f, NoFile}
         /\ i # "task" => send'[i] = Idle
         /\ \A j \in Senders \ {i} : send'[j] = send[j]
<1> DEFINE r == IF i = "task" THEN [at |-> "end", file |-> f, to |-> 0] ELSE Idle
<1>1. r \in Calls /\ r.at \in {"idle", "end"} /\ r.file \in {f, NoFile} /\ (i # "task" => r = Idle)
  BY IdleType, SessionAssumption DEF SessionAssumption, Calls
<1>2. Goto(i, r)
  BY DEF Return
<1> HIDE DEF r
<1> QED
  BY <1>1, <1>2, GotoType

(* A step of the command's task is a step it may have. *)
LEMMA ScriptType ==
  ASSUME NEW kind \in Kinds
  PROVE  Script(kind) \in Seq(Steps)
<1>1. /\ {"pong", "status", "response", "json"} \subseteq Steps
      /\ {"handle", "send_logs", "configure", "backfill_init", "import"} \subseteq Steps
  BY DEF Steps, Replies
<1>2. /\ <<>> \in Seq(Steps) /\ <<"pong">> \in Seq(Steps) /\ <<"handle">> \in Seq(Steps)
      /\ <<"handle", "response">> \in Seq(Steps) /\ <<"status", "handle", "response">> \in Seq(Steps)
      /\ <<"send_logs", "response">> \in Seq(Steps)
  BY <1>1
<1>3. /\ <<"backfill_init", "json", "status", "import">> \in Seq(Steps)
      /\ <<"configure", "json">> \in Seq(Steps) /\ <<"handle", "json">> \in Seq(Steps)
  BY <1>1
<1>4. CASE kind \in {"unknown", "ping", "shutdown", "sendlogs", "import", "configure"}
  BY <1>2, <1>3, <1>4 DEF Script
<1>5. CASE kind \in {"pause", "unpause", "restart", "upgrade", "driverconfig", "validate"}
  BY <1>2, <1>3, <1>5 DEF Script
<1> QED
  BY <1>4, <1>5 DEF Kinds

LEMMA TailType ==
  ASSUME NEW S, NEW s \in Seq(S), s # <<>>
  PROVE  Tail(s) \in Seq(S) /\ Head(s) \in S
OBVIOUS

-----------------------------------------------------------------------------
(* What a step leaves alone keeps its part of the invariant. *)

LEMMA LogFrame ==
  ASSUME LogType, PlaneType, opened' \in Nat, opened <= opened',
         UNCHANGED <<logVars, home, stored, cleared>>
  PROVE  LogType'
<1>1. 1..opened \subseteq 1..opened' /\ 0..opened \subseteq 0..opened'
  BY SessionAssumption DEF PlaneType, SessionAssumption
<1>2. [to : 1..opened, by : Senders \cup {"plane"}] \subseteq [to : 1..opened', by : Senders \cup {"plane"}]
  BY <1>1
<1> QED
  BY <1>1, <1>2 DEF LogType, logVars

LEMMA FlagFrame ==
  ASSUME FlagType, remote' \in {remote, TRUE, FALSE}, asked' \in {asked, TRUE}
  PROVE  FlagType'
BY DEF FlagType

LEMMA CmdFrame ==
  ASSUME CmdType, UNCHANGED <<cmd, bg>>
  PROVE  CmdType'
BY DEF CmdType

LEMMA FileFrame ==
  ASSUME FileInv, UNCHANGED <<live, now, files, send, clash>>,
         live # NoFile => pc' = pc /\ sess' = sess
  PROVE  FileInv'
BY DEF FileInv

LEMMA LineFrame ==
  ASSUME LineInv, UNCHANGED <<line, home, stored, send, clash>>, cleared \subseteq cleared'
  PROVE  LineInv'
BY DEF LineInv, LineKept

LEMMA PlaneFrame ==
  ASSUME PlaneType, CalmInv, UNCHANGED <<apiVars, sess, pc, code, rest>>, faults' = faults \/ Fault
  PROVE  PlaneType' /\ CalmInv'
<1>1. faults' \in 0..MaxFaults /\ (faults' = 0 => faults = 0)
  BY FaultType DEF PlaneType
<1> QED
  BY <1>1 DEF PlaneType, CalmInv, apiVars

-----------------------------------------------------------------------------
(* The plane's main thread. *)

LEMMA InitSession == Init => SInv
<1> SUFFICES ASSUME Init PROVE SInv
  OBVIOUS
<1>1. PlaneType /\ LogType
  BY NoFileType, SessionAssumption DEF Init, PlaneType, LogType, InSession, Codes, SessionAssumption
<1>2. SendType /\ \A i \in Senders : send[i] = Idle
  BY IdleType DEF Init, SendType
<1>3. FlagType
  BY DEF Init, FlagType
<1>4. CmdType
  BY DEF Init, CmdType
<1>5. FileInv /\ SendInv /\ LineInv
  BY <1>2, IdleType, NoFileType DEF Init, FileInv, SendInv, LineInv, LineKept
<1>6. HomeInv
  BY <1>2, IdleType DEF Init, HomeInv, UploadsGoHome, Senders
<1>7. CalmInv
  BY DEF Init, CalmInv
<1> QED
  BY <1>1, <1>2, <1>3, <1>4, <1>5, <1>6, <1>7 DEF SInv

(* A session is opened, with the answer or without it. *)
LEMMA OpenKeeps ==
  ASSUME SInv, StartSession \/ StartLost
  PROVE  SInv'
<1> USE DEF apiVars, lineVars, cmdVars
<1>1. /\ pc = "start" /\ opened < MaxSessions /\ opened' = opened + 1 /\ api' = {opened'}
      /\ UNCHANGED <<code, remote, rest, lineVars, send, cmdVars>>
      /\ \/ sess' = opened' /\ pc' = "connect" /\ faults' = faults
         \/ sess' = sess /\ pc' \in {"start", "dying"} /\ Fault
  BY DEF StartSession, StartLost, ApiOpens
<1>2. /\ opened \in Nat /\ opened' \in 0..MaxSessions /\ opened' \in 1..opened' /\ opened <= opened' /\ opened' # 0
      /\ sess' \in 0..opened'
  BY <1>1, SessionAssumption DEF SInv, PlaneType, SessionAssumption
<1>3. PlaneType'
  <2>1. faults' \in 0..MaxFaults
    BY <1>1, FaultType DEF SInv, PlaneType
  <2> QED
    BY <1>1, <1>2, <2>1 DEF SInv, PlaneType, InSession
<1>4. LogType'
  BY <1>1, <1>2, LogFrame DEF SInv
<1>5. SendType' /\ CmdType'
  BY <1>1, CmdFrame DEF SInv, SendType
<1>6. FlagType'
  BY <1>1, FlagFrame DEF SInv
<1>7. live = NoFile
  BY <1>1 DEF SInv, FileInv
<1>8. FileInv' /\ LineInv'
  BY <1>1, <1>7, FileFrame, LineFrame DEF SInv, logVars
<1>9. SendInv'
  <2>1. \A i \in Senders : send[i].to \in 1..opened => send[i].to \in 1..opened'
    BY <1>1, <1>2
  <2>2. sess # 0 => sess' # 0
    BY <1>1, <1>2
  <2> QED
    BY <1>1, <2>1, <2>2 DEF SInv, SendInv
<1>10. HomeInv'
  <2>1. cmd = <<>> /\ send["task"].at = "idle"
    BY <1>1 DEF SInv, HomeInv, Doing
  <2> QED
    BY <1>1, <2>1 DEF SInv, HomeInv, UploadsGoHome
<1>11. CalmInv'
  BY <1>1, FaultType DEF SInv, PlaneType, CalmInv
<1> QED
  BY <1>3, <1>4, <1>5, <1>6, <1>8, <1>9, <1>10, <1>11 DEF SInv

(* The plane goes on, and the log files, the line and the uploads stay as     *)
(* they are.                                                                  *)
LEMMA AdvanceKeeps ==
  ASSUME SInv, SessionExpires \/ Connect \/ ForkFails \/ SendEnd \/ Gathered \/ StopTimesOut
  PROVE  SInv'
<1> USE DEF apiVars, lineVars, cmdVars
<1>1. /\ UNCHANGED <<opened, sess, lineVars, send, asked>>
      /\ code' \in Codes
      /\ api' \subseteq api
      /\ faults' = faults \/ Fault
      /\ rest' \in {rest, NoFile}
      /\ remote' \in {remote, TRUE, FALSE}
  BY DEF SInv, PlaneType, Codes, SessionExpires, Connect, ForkFails, SendEnd, Gathered, Iterate, StopTimesOut
<1>2. /\ pc # "run" /\ pc' # "end"
      /\ pc' = "upload" => pc = "end" /\ rest' = rest
      /\ pc' \in InSession \cup {"start", "dying"}
      /\ pc' \in InSession => pc \in InSession
  BY DEF InSession, SessionExpires, Connect, ForkFails, SendEnd, Gathered, Iterate, StopTimesOut
<1>3. /\ \/ UNCHANGED <<cmd, bg>>
         \/ cmd' = <<>> /\ bg' = <<>> /\ pc' = "dying"
      /\ pc = "dying" => pc' = "dying"
      /\ pc' \in {"start", "connect", "dying"} => cmd' = <<>>
  BY DEF SInv, HomeInv, SessionExpires, Connect, ForkFails, SendEnd, Gathered, Iterate, StopTimesOut
<1>4. PlaneType'
  <2>1. faults' \in 0..MaxFaults /\ rest' \in Files
    BY <1>1, FaultType, NoFileType DEF SInv, PlaneType
  <2> QED
    BY <1>1, <1>2, <2>1 DEF SInv, PlaneType
<1>5. LogType'
  BY <1>1, SessionAssumption, LogFrame DEF SInv, PlaneType, SessionAssumption
<1>6. SendType' /\ SendInv'
  BY <1>1 DEF SInv, SendType, SendInv
<1>7. FlagType'
  BY <1>1, FlagFrame DEF SInv
<1>8. CmdType'
  BY <1>3, CmdFrame, EmptySeq DEF SInv, CmdType
<1>9. live = NoFile
  BY <1>2 DEF SInv, FileInv
<1>10. FileInv' /\ LineInv'
  BY <1>1, <1>9, FileFrame, LineFrame DEF SInv, logVars
<1>11. HomeInv'
  BY <1>1, <1>2, <1>3 DEF SInv, HomeInv, UploadsGoHome, Doing
<1>12. CalmInv'
  <2>1. faults' = 0 => faults' = faults
    BY <1>1, FaultType DEF SInv, PlaneType
  <2>2. \/ Fault
        \/ /\ pc \in {"connect", "fork", "run", "end"}
           /\ pc' \in {"connect", "fork", "run", "end"} \/ api' = api \ {sess}
        \/ pc \notin {"connect", "fork", "run", "end"}
    BY DEF SessionExpires, Connect, ForkFails, SendEnd, Gathered, Iterate, StopTimesOut
  <2> QED
    BY <1>1, <2>1, <2>2, FaultType DEF SInv, PlaneType, CalmInv
<1> QED
  BY <1>4, <1>5, <1>6, <1>7, <1>8, <1>10, <1>11, <1>12 DEF SInv

(* The names of the files that are open or in hand are older than the next. *)
LEMMA OldNames ==
  ASSUME SInv
  PROVE  /\ live[2] \in 0..now
         /\ \A i \in Senders : send[i].file \in Files /\ send[i].file[2] \in 0..now
<1>1. now \in Nat
  BY SessionAssumption DEF SInv, LogType, SessionAssumption
<1>2. live[2] \in 0..now
  BY <1>1, NoFileType DEF SInv, FileInv
<1>3. ASSUME NEW i \in Senders
      PROVE  send[i].file \in Files /\ send[i].file[2] \in 0..now
  <2>1. send[i].file \in Files
    BY DEF SInv, SendType, Calls
  <2> QED
    BY <1>1, <2>1, FileType DEF SInv, FileInv
<1> QED
  BY <1>2, <1>3

(* A log file is opened: nobody has its name, or it is the last one again. *)
LEMMA OpenFile ==
  ASSUME SInv, NEW s \in 1..MaxSessions, live = NoFile \/ live[1] = s, Open(s)
  PROVE  /\ live' \in Files /\ live'[1] = s /\ live' \in files' /\ live' # NoFile
         /\ now' \in 0..MaxTicks /\ now' = now + 1 /\ live'[2] \in 1..now'
         /\ files' \subseteq Files /\ files \subseteq files'
         /\ \A f \in files' : f[2] \in 1..now'
         /\ \A f \in Files : f[2] <= now => f # live' \/ live' \in clash'
         /\ clash \subseteq clash' /\ clash' \subseteq Files
         /\ line' = line \/ (line' = NoFile /\ line \in clash')
         /\ line' \in files \cup {NoFile}
<1>1. /\ now \in Nat /\ now' = now + 1 /\ now' \in 1..MaxTicks /\ files' = files \cup {live'}
      /\ live' = <<s, now'>> \/ (live' = live /\ live # NoFile)
      /\ line' = IF line = live' THEN NoFile ELSE line
      /\ clash' = IF live = live' THEN clash \cup {live} ELSE clash
  BY SessionAssumption DEF SInv, LogType, Open, SessionAssumption
<1>2. \A f \in files : f[2] \in 1..now
  BY DEF SInv, FileInv
<1>3. line \in files \cup {NoFile} /\ files \subseteq Files /\ clash \subseteq Files /\ live \in Files
  BY DEF SInv, LogType
<1>4. CASE live' = <<s, now'>>
  <2>1. live' \in Files /\ live'[1] = s /\ live'[2] = now'
    BY <1>1, <1>4 DEF Files
  <2>2. live' # NoFile
    BY <1>1, <2>1, NoFileType
  <2>3. \A f \in files' : f[2] \in 1..now'
    BY <1>1, <1>2, <2>1
  <2>4. \A f \in Files : f[2] <= now => f # live'
    BY <1>1, <2>1
  <2>5. line' = line
    <3>1. line # live'
      BY <1>1, <1>2, <1>3, <2>1, <2>2
    <3> QED
      BY <1>1, <3>1
  <2> QED
    BY <1>1, <1>3, <2>1, <2>2, <2>3, <2>4, <2>5
<1>5. CASE live' = live /\ live # NoFile
  <2>1. live[1] = s /\ live[2] \in 1..now /\ live \in clash'
    BY <1>1, <1>5 DEF SInv, FileInv
  <2>2. live[2] \in 1..now' /\ \A f \in files' : f[2] \in 1..now'
    BY <1>1, <1>2, <1>5, <2>1
  <2> QED
    BY <1>1, <1>3, <1>5, <2>1, <2>2
<1> QED
  BY <1>1, <1>4, <1>5

LEMMA ForkKeeps ==
  ASSUME SInv, Fork
  PROVE  SInv'
<1> USE DEF apiVars, cmdVars
<1>1. pc = "fork" /\ pc' = "run" /\ Open(sess) /\ UNCHANGED <<apiVars, sess, code, remote, rest, home, stored, cleared, send, cmdVars, faults>>
  BY DEF Fork
<1>2. sess \in 1..MaxSessions /\ live = NoFile
  BY <1>1, SessionAssumption DEF SInv, PlaneType, InSession, FileInv, SessionAssumption
<1>3. /\ live' \in Files /\ live'[1] = sess /\ live' \in files' /\ live' # NoFile
      /\ now' \in 0..MaxTicks /\ now' = now + 1 /\ live'[2] \in 1..now'
      /\ files' \subseteq Files /\ files \subseteq files'
      /\ \A f \in files' : f[2] \in 1..now'
      /\ \A f \in Files : f[2] <= now => f # live' \/ live' \in clash'
      /\ clash \subseteq clash' /\ clash' \subseteq Files
      /\ line' = line \/ (line' = NoFile /\ line \in clash')
      /\ line' \in files \cup {NoFile}
  BY <1>1, <1>2, OpenFile
<1>4. PlaneType'
  BY <1>1 DEF SInv, PlaneType, InSession
<1>5. LogType'
  BY <1>1, <1>3 DEF SInv, LogType
<1>6. SendType' /\ SendInv' /\ CmdType'
  BY <1>1 DEF SInv, SendType, SendInv, CmdType
<1>7. FlagType'
  BY <1>1, FlagFrame DEF SInv
<1>8. FileInv'
  <2>1. now \in Nat
    BY SessionAssumption DEF SInv, LogType, SessionAssumption
  <2>2. \A i \in Senders : send[i].file[2] <= now' /\ (send[i].file = live' => live' \in clash')
    BY <1>3, <2>1, OldNames
  <2> QED
    BY <1>1, <1>3, <2>2 DEF FileInv
<1>9. LineInv'
  BY <1>1, <1>3 DEF SInv, LineInv, LineKept
<1>10. HomeInv'
  BY <1>1 DEF SInv, HomeInv, UploadsGoHome
<1>11. CalmInv'
  BY <1>1 DEF SInv, CalmInv
<1> QED
  BY <1>4, <1>5, <1>6, <1>7, <1>8, <1>9, <1>10, <1>11 DEF SInv

(* get_remaining_log answers with a log of the session or with none. *)
LEMMA RemainingLogType ==
  ASSUME SInv
  PROVE  RemainingLog \in Files /\ (RemainingLog # NoFile => RemainingLog[1] = sess)
<1> DEFINE own == {f \in files : f[1] = sess}
           T == {f[2] : f \in own}
<1>1. CASE own = {}
  BY <1>1, NoFileType DEF RemainingLog
<1>2. CASE own # {}
  <2>1. T \in SUBSET (0..MaxTicks) /\ T # {}
    BY <1>2, FileType DEF SInv, LogType
  <2> HIDE DEF T
  <2>2. Max(T) \in 0..MaxTicks
    BY <2>1, MaxInSet, SessionAssumption DEF SessionAssumption
  <2>3. RemainingLog = <<sess, Max(T)>>
    BY <1>2 DEF RemainingLog, T
  <2>4. sess \in 0..MaxSessions
    BY SessionAssumption DEF SInv, PlaneType, SessionAssumption
  <2> QED
    BY <2>2, <2>3, <2>4 DEF Files
<1> QED
  BY <1>1, <1>2

LEMMA WorkerEndsKeeps ==
  ASSUME SInv, WorkerEnds
  PROVE  SInv'
<1> USE DEF apiVars, cmdVars
<1>1. /\ pc = "run" /\ code' \in Codes /\ live' = NoFile
      /\ rest' = (IF code' = "usage" THEN NoFile ELSE RemainingLog)
      /\ pc' = IF code' = "usage" THEN "decide" ELSE "end"
      /\ IF code' \in {"error", "usage"} THEN Fault ELSE faults' = faults
      /\ UNCHANGED <<apiVars, sess, remote, now, files, line, clash, home, stored, cleared, send, cmdVars>>
  BY DEF WorkerEnds
<1>2. rest' \in Files /\ (rest' # NoFile => rest'[1] = sess)
  BY <1>1, RemainingLogType, NoFileType
<1>3. faults' \in 0..MaxFaults /\ (faults' = 0 => faults = 0 /\ pc' = "end")
  BY <1>1, FaultType DEF SInv, PlaneType
<1>4. PlaneType'
  BY <1>1, <1>2, <1>3 DEF SInv, PlaneType, InSession
<1>5. LogType'
  BY <1>1, NoFileType DEF SInv, LogType
<1>6. SendType' /\ SendInv' /\ CmdType'
  BY <1>1 DEF SInv, SendType, SendInv, CmdType
<1>7. FlagType'
  BY <1>1, FlagFrame DEF SInv
<1>8. FileInv'
  BY <1>1 DEF SInv, FileInv
<1>9. LineInv'
  BY <1>1, LineFrame DEF SInv
<1>10. HomeInv'
  BY <1>1, <1>2 DEF SInv, HomeInv, UploadsGoHome
<1>11. CalmInv'
  BY <1>1, <1>3 DEF SInv, CalmInv
<1> QED
  BY <1>4, <1>5, <1>6, <1>7, <1>8, <1>9, <1>10, <1>11 DEF SInv

(* What an upload adds. *)
LEMMA UploadAdds ==
  ASSUME SInv, NEW f \in files, NEW to \in 1..opened, NEW by \in Senders \cup {"plane"}, Upload(f, to, by)
  PROVE  /\ stored \subseteq stored'
         /\ stored' \subseteq stored \cup {[to |-> to, by |-> by]}
         /\ stored' \subseteq [to : 1..opened, by : Senders \cup {"plane"}]
         /\ line = f => stored' # {}
         /\ stored' # stored => line = f /\ home = f /\ home # NoFile
<1>1. f # NoFile
  BY NamedFiles DEF SInv
<1>2. line = f => home = f /\ home # NoFile
  BY <1>1 DEF SInv, LineInv
<1>3. [to |-> to, by |-> by] \in [to : 1..opened, by : Senders \cup {"plane"}]
  OBVIOUS
<1>4. stored \subseteq [to : 1..opened, by : Senders \cup {"plane"}]
  BY DEF SInv, LogType
<1>5. CASE line = f
  BY <1>2, <1>3, <1>4, <1>5 DEF Upload
<1>6. CASE line # f
  BY <1>4, <1>6 DEF Upload
<1> QED
  BY <1>5, <1>6

LEMMA UploadRestKeeps ==
  ASSUME SInv, UploadRest
  PROVE  SInv'
<1> USE DEF apiVars, logVars, cmdVars
<1>1. /\ pc = "upload" /\ pc' = "decide"
      /\ \/ rest \in files /\ Upload(rest, sess, "plane")
         \/ stored' = stored
      /\ faults' = faults \/ Fault
      /\ UNCHANGED <<apiVars, sess, code, remote, rest, logVars, home, cleared, send, cmdVars>>
  BY DEF UploadRest
<1>2. sess \in 1..opened
  BY <1>1, SessionAssumption DEF SInv, PlaneType, InSession, SessionAssumption
<1>3. /\ stored \subseteq stored' /\ stored' \subseteq stored \cup {[to |-> sess, by |-> "plane"]}
      /\ stored' \subseteq [to : 1..opened, by : Senders \cup {"plane"}]
      /\ stored' # stored => rest \in files /\ home = rest /\ home # NoFile
  BY <1>1, <1>2, UploadAdds DEF SInv, LogType
<1>4. PlaneType'
  <2>1. faults' \in 0..MaxFaults
    BY <1>1, FaultType DEF SInv, PlaneType
  <2> QED
    BY <1>1, <2>1 DEF SInv, PlaneType, InSession
<1>5. LogType'
  BY <1>1, <1>3 DEF SInv, LogType
<1>6. SendType' /\ SendInv' /\ CmdType'
  BY <1>1 DEF SInv, SendType, SendInv, CmdType
<1>7. FlagType'
  BY <1>1, FlagFrame DEF SInv
<1>8. FileInv'
  BY <1>1 DEF SInv, FileInv
<1>9. LineInv'
  BY <1>1, <1>3 DEF SInv, LineInv, LineKept
<1>10. HomeInv'
  <2>1. stored' # stored => home[1] = sess
    BY <1>1, <1>3, NamedFiles DEF SInv, HomeInv
  <2>2. UploadsGoHome'
    BY <1>1, <1>3, <2>1 DEF SInv, HomeInv, UploadsGoHome
  <2> QED
    BY <1>1, <2>2 DEF SInv, HomeInv
<1>11. CalmInv'
  BY <1>1, FaultType DEF SInv, PlaneType, CalmInv
<1> QED
  BY <1>4, <1>5, <1>6, <1>7, <1>8, <1>9, <1>10, <1>11 DEF SInv

LEMMA DecideKeeps ==
  ASSUME SInv, Decide
  PROVE  SInv'
<1> USE DEF apiVars, cmdVars
<1>1. /\ pc = "decide" /\ pc' = "stop" /\ UNCHANGED <<apiVars, sess, code, remote, rest, home, stored, send, cmdVars, faults, live, now, clash>>
      /\ \/ UNCHANGED <<files, line, cleared>>
         \/ /\ files' = files \ {f \in files : f[1] = sess} /\ cleared' = cleared \cup {sess}
            /\ line' = IF line \in {f \in files : f[1] = sess} THEN NoFile ELSE line
  BY DEF Decide, Remove, logVars
<1>2. sess \in 1..opened /\ live = NoFile
  BY <1>1, SessionAssumption DEF SInv, PlaneType, InSession, FileInv, SessionAssumption
<1>3. PlaneType'
  BY <1>1 DEF SInv, PlaneType, InSession
<1>4. LogType'
  <2>1. files' \subseteq files /\ cleared' \subseteq 1..opened
    BY <1>1, <1>2 DEF SInv, LogType
  <2>2. line' \in files' \cup {NoFile}
    BY <1>1 DEF SInv, LogType
  <2> QED
    BY <1>1, <2>1, <2>2 DEF SInv, LogType
<1>5. SendType' /\ SendInv' /\ CmdType'
  BY <1>1 DEF SInv, SendType, SendInv, CmdType
<1>6. FlagType'
  BY <1>1, FlagFrame DEF SInv
<1>7. FileInv'
  BY <1>1, <1>2 DEF SInv, FileInv
<1>8. LineInv'
  BY <1>1 DEF SInv, LogType, LineInv, LineKept
<1>9. HomeInv'
  BY <1>1 DEF SInv, HomeInv, UploadsGoHome
<1>10. CalmInv'
  BY <1>1 DEF SInv, CalmInv
<1> QED
  BY <1>3, <1>4, <1>5, <1>6, <1>7, <1>8, <1>9, <1>10 DEF SInv

(* runner.stop hands the ticker's call over to the threads of old sessions; a *)
(* new process has none.                                                      *)
LEMMA RunnerKeeps ==
  ASSUME SInv, CloseRunner \/ PlaneReborn
  PROVE  SInv'
<1> USE DEF apiVars, lineVars, cmdVars
<1>1. /\ UNCHANGED <<apiVars, sess, code, rest, lineVars, cmdVars, faults>>
      /\ remote' \in {remote, TRUE, FALSE}
      /\ \/ pc = "stop" /\ pc' = "gather"
         \/ pc = "dying" /\ pc' = "start"
  BY DEF CloseRunner, PlaneReborn
<1>2. /\ send' \in [Senders -> Calls]
      /\ \A i \in Senders : send'[i] = Idle \/ \E k \in Senders : send'[i] = send[k]
      /\ send'["task"] = Idle \/ (pc' = "gather" /\ send'["task"] = send["task"])
  <2>1. CASE PlaneReborn
    BY <2>1, IdleType DEF PlaneReborn, Senders
  <2>2. CASE CloseRunner
    <3>1. CASE send["ticker"] = Idle \/ send["old"] # Idle
      BY <2>2, <3>1 DEF CloseRunner, SInv, SendType, Senders
    <3>2. CASE ~ (send["ticker"] = Idle \/ send["old"] # Idle)
      <4>1. send' = [send EXCEPT !["old"] = send["ticker"], !["ticker"] = Idle]
        BY <2>2, <3>2 DEF CloseRunner
      <4> QED
        BY <2>2, <4>1, IdleType DEF CloseRunner, SInv, SendType, Senders
    <3> QED
      BY <3>1, <3>2
  <2> QED
    BY <2>1, <2>2
<1>3. live = NoFile
  BY <1>1 DEF SInv, FileInv
<1>4. PlaneType'
  BY <1>1 DEF SInv, PlaneType, InSession
<1>5. LogType'
  BY <1>1, SessionAssumption, LogFrame DEF SInv, PlaneType, SessionAssumption
<1>6. SendType' /\ CmdType'
  BY <1>1, <1>2, CmdFrame DEF SInv, SendType
<1>7. FlagType'
  BY <1>1, FlagFrame DEF SInv
<1>8. SendInv'
  BY <1>1, <1>2, IdleType DEF SInv, SendInv
<1>9. FileInv'
  <2>1. now \in Nat
    BY SessionAssumption DEF SInv, LogType, SessionAssumption
  <2>2. \A i \in Senders : send'[i].file[2] <= now
    BY <1>2, <2>1, IdleType, NoFileType DEF SInv, FileInv
  <2> QED
    BY <1>1, <1>3, <2>2 DEF SInv, FileInv, logVars
<1>10. LineInv'
  <2>1. \A i \in Senders : send'[i].at = "rm" /\ line # NoFile /\ line = send'[i].file => stored # {} \/ line \in clash
    BY <1>2, IdleType DEF SInv, LineInv
  <2> QED
    BY <1>1, <2>1 DEF SInv, LineInv, LineKept, logVars
<1>11. HomeInv'
  BY <1>1, <1>2, IdleType DEF SInv, HomeInv, UploadsGoHome, Doing
<1>12. CalmInv'
  BY <1>1 DEF SInv, CalmInv
<1> QED
  BY <1>4, <1>5, <1>6, <1>7, <1>8, <1>9, <1>10, <1>11, <1>12 DEF SInv

-----------------------------------------------------------------------------
(* The worker's log and the threads of send_logs. *)

LEMMA WriteLineKeeps ==
  ASSUME SInv, WriteLine
  PROVE  SInv'
<1> USE DEF apiVars, cmdVars
<1>1. /\ live # NoFile /\ home = NoFile /\ home' = live
      /\ line' = (IF live \in files THEN live ELSE NoFile)
      /\ UNCHANGED <<apiVars, sess, pc, code, remote, rest, live, now, files, clash, stored, cleared, send, cmdVars, faults>>
  BY DEF WriteLine
<1>2. pc = "run" /\ live[1] = sess /\ (live \in files \/ live \in clash) /\ live \in Files
  BY <1>1 DEF SInv, FileInv, LogType
<1>3. line' \in {live, NoFile} /\ (line' = NoFile => live \in clash) /\ home'[1] = sess /\ sess # 0 /\ stored = {}
  BY <1>1, <1>2 DEF SInv, PlaneType, InSession, LineInv
<1>4. PlaneType' /\ CalmInv'
  BY <1>1, PlaneFrame DEF SInv
<1>5. LogType'
  BY <1>1, <1>2, <1>3 DEF SInv, LogType, PlaneType
<1>6. SendType' /\ SendInv' /\ CmdType'
  BY <1>1 DEF SInv, SendType, SendInv, CmdType
<1>7. FlagType'
  BY <1>1, FlagFrame DEF SInv
<1>8. FileInv'
  BY <1>1, FileFrame DEF SInv
<1>9. LineInv'
  BY <1>1, <1>2, <1>3 DEF SInv, LineInv, LineKept, FileInv
<1>10. HomeInv'
  BY <1>1, <1>3 DEF SInv, HomeInv, UploadsGoHome
<1> QED
  BY <1>4, <1>5, <1>6, <1>7, <1>8, <1>9, <1>10 DEF SInv

(* What no thread touches. *)
LEMMA ThreadFrame ==
  ASSUME SInv, UNCHANGED <<planeVars, cmdVars>>, faults' = faults \/ Fault
  PROVE  /\ PlaneType' /\ CalmInv' /\ FlagType' /\ CmdType'
         /\ UNCHANGED <<opened, sess, pc, remote, rest, cleared, home, cmd, bg, asked>>
<1>1. UNCHANGED <<apiVars, opened, sess, pc, code, remote, rest, cleared, home, cmd, bg, asked>>
  BY DEF planeVars, apiVars, cmdVars
<1> QED
  BY <1>1, PlaneFrame, FlagFrame, CmdFrame DEF SInv

LEMMA LogKept ==
  ASSUME SInv, UNCHANGED <<opened, logVars, home, stored, cleared>>
  PROVE  LogType'
BY SessionAssumption, LogFrame DEF SInv, PlaneType, SessionAssumption

(* A call begins or is over: it holds no new file. *)
LEMMA CallFrame ==
  ASSUME SInv, NEW i \in Senders, \A j \in Senders \ {i} : send'[j] = send[j],
         send'[i].file \in {send[i].file, NoFile}, send'[i].at \in {"idle", "ask", "end"},
         UNCHANGED <<opened, sess, pc, logVars, home, stored, cleared>>
  PROVE  FileInv' /\ SendInv' /\ LineInv'
<1>1. now \in Nat
  BY SessionAssumption DEF SInv, LogType, SessionAssumption
<1>2. FileInv'
  <2>1. \A j \in Senders : send'[j].file[2] <= now /\ (send'[j].file = live => live = NoFile \/ live \in clash)
    BY <1>1, NoFileType DEF SInv, FileInv
  <2> QED
    BY <2>1 DEF SInv, FileInv, logVars
<1>3. SendInv'
  BY DEF SInv, SendInv
<1>4. LineInv'
  <2>1. \A j \in Senders : send'[j].at = "rm" /\ line # NoFile /\ line = send'[j].file => stored # {} \/ line \in clash
    BY DEF SInv, LineInv
  <2> QED
    BY <2>1 DEF SInv, LineInv, LineKept, logVars
<1> QED
  BY <1>2, <1>3, <1>4

(* The command's task waits for its call. *)
LEMMA HomeFrame ==
  ASSUME SInv, NEW i \in Senders, \A j \in Senders \ {i} : send'[j] = send[j],
         i = "task" => send[i].at # "idle" /\ send'[i].at \in {"idle", "end"},
         UNCHANGED <<sess, pc, rest, home, stored, cmd, asked>>
  PROVE  HomeInv'
<1>1. CASE i = "task"
  BY <1>1 DEF SInv, HomeInv, UploadsGoHome
<1>2. CASE i # "task"
  <2>1. send'["task"] = send["task"]
    BY <1>2 DEF Senders
  <2> QED
    BY <2>1 DEF SInv, HomeInv, UploadsGoHome
<1> QED
  BY <1>1, <1>2

LEMMA TickerKeeps ==
  ASSUME SInv, Ticker
  PROVE  SInv'
<1>1. /\ Goto("ticker", [Idle EXCEPT !.at = "ask"])
      /\ UNCHANGED <<planeVars, logVars, stored, cmdVars, faults>>
  BY DEF Ticker
<1>2. [Idle EXCEPT !.at = "ask"] \in Calls /\ [Idle EXCEPT !.at = "ask"].at = "ask" /\ [Idle EXCEPT !.at = "ask"].file = NoFile
  BY IdleType DEF Calls, Idle
<1>3. /\ SendType' /\ send'["ticker"].at = "ask" /\ send'["ticker"].file = NoFile
      /\ \A j \in Senders \ {"ticker"} : send'[j] = send[j]
  BY <1>1, <1>2, GotoType DEF SInv, Senders
<1>4. /\ PlaneType' /\ CalmInv' /\ FlagType' /\ CmdType'
      /\ UNCHANGED <<opened, sess, pc, remote, rest, cleared, home, cmd, bg, asked>>
  BY <1>1, ThreadFrame
<1>5. LogType'
  BY <1>1, <1>4, LogKept
<1>6. FileInv' /\ SendInv' /\ LineInv'
  BY <1>1, <1>3, <1>4, CallFrame DEF Senders
<1>7. HomeInv'
  BY <1>1, <1>3, <1>4, HomeFrame DEF Senders
<1> QED
  BY <1>3, <1>4, <1>5, <1>6, <1>7 DEF SInv

(* A call that fails holds no file any more. *)
LEMMA FailKeeps ==
  ASSUME SInv, NEW i \in Senders, send[i].at # "idle", Failed(i),
         UNCHANGED <<planeVars, logVars, stored, cmdVars>>, faults' = faults \/ Fault
  PROVE  SInv'
<1>1. /\ SendType' /\ send'[i].at \in {"idle", "end"} /\ send'[i].file = NoFile
      /\ \A j \in Senders \ {i} : send'[j] = send[j]
  BY ReturnType, NoFileType DEF SInv, Failed
<1>2. /\ PlaneType' /\ CalmInv' /\ FlagType' /\ CmdType'
      /\ UNCHANGED <<opened, sess, pc, remote, rest, cleared, home, cmd, bg, asked>>
  BY ThreadFrame
<1>3. LogType'
  BY <1>2, LogKept
<1>4. FileInv' /\ SendInv' /\ LineInv'
  BY <1>1, <1>2, CallFrame
<1>5. HomeInv'
  BY <1>1, <1>2, HomeFrame
<1> QED
  BY <1>1, <1>2, <1>3, <1>4, <1>5 DEF SInv

(* The worker rotates, and the thread learns of it or not. *)
LEMMA RotateKeeps ==
  ASSUME SInv, NEW i \in Senders, At(i, "ask"), live # NoFile, Open(live[1]),
         \/ Goto(i, [at |-> "url", file |-> live, to |-> 0]) /\ faults' = faults
         \/ Failed(i) /\ Fault,
         UNCHANGED <<planeVars, stored, cmdVars>>
  PROVE  SInv'
<1>1. pc = "run" /\ live[1] = sess /\ sess \in 1..MaxSessions /\ live \in Files
  BY SessionAssumption DEF SInv, PlaneType, InSession, FileInv, LogType, SessionAssumption
<1>2. /\ live' \in Files /\ live'[1] = sess /\ live' \in files' /\ live' # NoFile
      /\ now' \in 0..MaxTicks /\ now' = now + 1 /\ live'[2] \in 1..now'
      /\ files' \subseteq Files /\ files \subseteq files'
      /\ \A f \in files' : f[2] \in 1..now'
      /\ \A f \in Files : f[2] <= now => f # live' \/ live' \in clash'
      /\ clash \subseteq clash' /\ clash' \subseteq Files
      /\ line' = line \/ (line' = NoFile /\ line \in clash')
      /\ line' \in files \cup {NoFile}
  BY <1>1, OpenFile
<1>3. /\ SendType'
      /\ \A j \in Senders \ {i} : send'[j] = send[j]
      /\ send'[i].at \in {"url", "idle", "end"}
      /\ send'[i].at = "url" => send'[i].file = live
      /\ send'[i].file \in {live, NoFile}
  <2>1. CASE Goto(i, [at |-> "url", file |-> live, to |-> 0])
    <3>1. [at |-> "url", file |-> live, to |-> 0] \in Calls
      BY <1>1, SessionAssumption DEF Calls, SessionAssumption
    <3> QED
      BY <2>1, <3>1, GotoType DEF SInv
  <2>2. CASE Failed(i)
    BY <2>2, ReturnType, NoFileType DEF SInv, Failed
  <2> QED
    BY <2>1, <2>2
<1>4. /\ PlaneType' /\ CalmInv' /\ FlagType' /\ CmdType'
      /\ UNCHANGED <<opened, sess, pc, remote, rest, cleared, home, cmd, bg, asked>>
  BY ThreadFrame
<1>5. LogType'
  BY <1>2, <1>4 DEF SInv, LogType
<1>6. FileInv'
  <2>1. now \in Nat
    BY SessionAssumption DEF SInv, LogType, SessionAssumption
  <2>2. send'[i].file \in Files /\ send'[i].file[2] <= now
    BY <1>1, <1>3, <2>1, NoFileType, OldNames
  <2>3. \A j \in Senders : send'[j].file \in Files /\ send'[j].file[2] <= now /\ send'[j].file[2] \in Int
    BY <1>3, <2>1, <2>2, OldNames, FileType
  <2>4. \A j \in Senders : send'[j].file[2] <= now' /\ (send'[j].file = live' => live' \in clash')
    BY <1>2, <2>1, <2>3
  <2> QED
    BY <1>1, <1>2, <1>4, <2>4 DEF FileInv
<1>7. SendInv'
  BY <1>1, <1>3, <1>4 DEF SInv, SendInv
<1>8. LineInv'
  <2>1. \A j \in Senders : send'[j].at = "rm" /\ line # NoFile /\ line = send'[j].file => stored # {} \/ line \in clash
    BY <1>3 DEF SInv, LineInv
  <2> QED
    BY <1>2, <1>4, <2>1 DEF SInv, LineInv, LineKept
<1>9. HomeInv'
  <2>1. CASE i = "task"
    BY <1>1, <1>3, <1>4, <2>1 DEF SInv, HomeInv, UploadsGoHome, At
  <2>2. CASE i # "task"
    BY <1>3, <1>4, <2>2, HomeFrame
  <2> QED
    BY <2>1, <2>2
<1> QED
  BY <1>3, <1>4, <1>5, <1>6, <1>7, <1>8, <1>9 DEF SInv

LEMMA GetUploadUrlKeeps ==
  ASSUME SInv, NEW i \in Senders, At(i, "url"), Goto(i, [send[i] EXCEPT !.at = "put", !.to = sess]),
         UNCHANGED <<planeVars, logVars, stored, cmdVars, faults>>
  PROVE  SInv'
<1>1. sess \in 1..opened /\ sess \in 0..MaxSessions
  BY SessionAssumption DEF SInv, SendInv, PlaneType, At, SessionAssumption
<1>2. /\ [send[i] EXCEPT !.at = "put", !.to = sess] \in Calls
      /\ [send[i] EXCEPT !.at = "put", !.to = sess].at = "put"
      /\ [send[i] EXCEPT !.at = "put", !.to = sess].to = sess
      /\ [send[i] EXCEPT !.at = "put", !.to = sess].file = send[i].file
  BY <1>1 DEF SInv, SendType, Calls
<1>3. /\ SendType' /\ send'[i].at = "put" /\ send'[i].to = sess /\ send'[i].file = send[i].file
      /\ \A j \in Senders \ {i} : send'[j] = send[j]
  BY <1>2, GotoType DEF SInv
<1>4. /\ PlaneType' /\ CalmInv' /\ FlagType' /\ CmdType'
      /\ UNCHANGED <<opened, sess, pc, remote, rest, cleared, home, cmd, bg, asked>>
  BY ThreadFrame
<1>5. LogType'
  BY <1>4, LogKept
<1>6. FileInv'
  BY <1>3, <1>4 DEF SInv, FileInv, logVars
<1>7. SendInv'
  BY <1>1, <1>3, <1>4 DEF SInv, SendInv
<1>8. LineInv'
  BY <1>3, <1>4 DEF SInv, LineInv, LineKept, logVars
<1>9. HomeInv'
  <2>1. CASE i = "task"
    BY <1>3, <1>4, <2>1 DEF SInv, HomeInv, UploadsGoHome, At
  <2>2. CASE i # "task"
    BY <1>3, <1>4, <2>2, HomeFrame
  <2> QED
    BY <2>1, <2>2
<1> QED
  BY <1>3, <1>4, <1>5, <1>6, <1>7, <1>8, <1>9 DEF SInv

LEMMA UploadLogKeeps ==
  ASSUME SInv, NEW i \in Senders, UploadLog(i)
  PROVE  SInv'
<1>1. /\ send[i].at = "put" /\ send[i].file \in files
      /\ Upload(send[i].file, send[i].to, i)
      /\ Goto(i, [send[i] EXCEPT !.at = "rm"])
      /\ UNCHANGED <<planeVars, logVars, cmdVars, faults>>
  BY DEF UploadLog, At
<1>2. send[i].to \in 1..opened
  BY <1>1 DEF SInv, SendInv
<1>3. /\ stored \subseteq stored'
      /\ stored' \subseteq stored \cup {[to |-> send[i].to, by |-> i]}
      /\ stored' \subseteq [to : 1..opened, by : Senders \cup {"plane"}]
      /\ line = send[i].file => stored' # {}
      /\ stored' # stored => home = send[i].file /\ home # NoFile
  BY <1>1, <1>2, UploadAdds
<1>4. /\ [send[i] EXCEPT !.at = "rm"] \in Calls /\ [send[i] EXCEPT !.at = "rm"].at = "rm"
      /\ [send[i] EXCEPT !.at = "rm"].to = send[i].to /\ [send[i] EXCEPT !.at = "rm"].file = send[i].file
  BY DEF SInv, SendType, Calls
<1>5. /\ SendType' /\ send'[i].at = "rm" /\ send'[i].to = send[i].to /\ send'[i].file = send[i].file
      /\ \A j \in Senders \ {i} : send'[j] = send[j]
  BY <1>1, <1>4, GotoType DEF SInv
<1>6. /\ PlaneType' /\ CalmInv' /\ FlagType' /\ CmdType'
      /\ UNCHANGED <<opened, sess, pc, remote, rest, cleared, home, cmd, bg, asked>>
  BY <1>1, ThreadFrame
<1>7. LogType'
  BY <1>1, <1>3, <1>6 DEF SInv, LogType, logVars
<1>8. FileInv'
  BY <1>1, <1>5, <1>6 DEF SInv, FileInv, logVars
<1>9. SendInv'
  BY <1>1, <1>5, <1>6 DEF SInv, SendInv
<1>10. LineInv'
  <2>1. \A j \in Senders : send'[j].at = "rm" /\ line # NoFile /\ line = send'[j].file => stored' # {} \/ line \in clash
    BY <1>3, <1>5 DEF SInv, LineInv
  <2> QED
    BY <1>1, <1>3, <1>6, <2>1 DEF SInv, LineInv, LineKept, logVars
<1>11. HomeInv'
  <2>1. UploadsGoHome'
    <3>1. i = "task" /\ stored' # stored => send[i].to = home[1]
      BY <1>1, <1>3 DEF SInv, HomeInv
    <3>2. \A u \in stored : u.by \in {"task", "plane"} => u.to = home[1]
      BY DEF SInv, HomeInv, UploadsGoHome
    <3>3. i # "plane"
      BY DEF Senders
    <3>4. ASSUME NEW u \in stored', u.by \in {"task", "plane"} PROVE u.to = home[1]
      BY <1>3, <3>1, <3>2, <3>3, <3>4
    <3> QED
      BY <1>6, <3>4 DEF UploadsGoHome
  <2>2. /\ send'["task"].file = send["task"].file /\ send'["task"].to = send["task"].to
        /\ send'["task"].at = send["task"].at \/ (send["task"].at = "put" /\ send'["task"].at = "rm")
    BY <1>1, <1>5 DEF Senders
  <2> QED
    BY <1>6, <2>1, <2>2 DEF SInv, HomeInv
<1> QED
  BY <1>5, <1>6, <1>7, <1>8, <1>9, <1>10, <1>11 DEF SInv

(* What is removed was uploaded, and is not what the worker writes to. *)
LEMMA RemoveLogKeeps ==
  ASSUME SInv, NEW i \in Senders, RemoveLog(i)
  PROVE  SInv'
<1>1. /\ send[i].at = "rm" /\ Return(i, send[i].file)
      /\ UNCHANGED <<planeVars, stored, cmdVars, faults, live, now, clash>>
      /\ \/ UNCHANGED <<files, line>>
         \/ /\ files' = files \ {send[i].file}
            /\ line' = IF line = send[i].file THEN NoFile ELSE line
  BY DEF RemoveLog, At, Remove, logVars
<1>2. send[i].file \in Files
  BY DEF SInv, SendType, Calls
<1>3. /\ SendType' /\ send'[i].at \in {"idle", "end"} /\ send'[i].file \in {send[i].file, NoFile}
      /\ \A j \in Senders \ {i} : send'[j] = send[j]
  BY <1>1, <1>2, ReturnType DEF SInv
<1>4. /\ PlaneType' /\ CalmInv' /\ FlagType' /\ CmdType'
      /\ UNCHANGED <<opened, sess, pc, remote, rest, cleared, home, cmd, bg, asked>>
  BY <1>1, ThreadFrame
<1>5. LogType'
  <2>1. files' \subseteq files /\ line' \in files' \cup {NoFile}
    BY <1>1 DEF SInv, LogType
  <2> QED
    BY <1>1, <1>4, <2>1 DEF SInv, LogType
<1>6. FileInv'
  <2>1. now \in Nat
    BY SessionAssumption DEF SInv, LogType, SessionAssumption
  <2>2. \A j \in Senders : send'[j].file[2] <= now /\ (send'[j].file = live => live = NoFile \/ live \in clash)
    BY <1>3, <2>1, NoFileType DEF SInv, FileInv
  <2>3. live # NoFile => live \in files' \/ live \in clash
    BY <1>1 DEF SInv, FileInv
  <2>4. \A f \in files' : f[2] \in 1..now
    BY <1>1 DEF SInv, FileInv
  <2> QED
    BY <1>1, <1>4, <2>2, <2>3, <2>4 DEF SInv, FileInv
<1>7. SendInv'
  BY <1>3, <1>4 DEF SInv, SendInv
<1>8. LineInv'
  <2>1. \A j \in Senders : send'[j].at = "rm" /\ line # NoFile /\ line = send'[j].file => stored # {} \/ line \in clash
    BY <1>3 DEF SInv, LineInv
  <2>2. line' = line \/ (line' = NoFile /\ (line # NoFile => stored # {} \/ line \in clash))
    BY <1>1 DEF SInv, LineInv
  <2> QED
    BY <1>1, <1>4, <2>1, <2>2 DEF SInv, LineInv, LineKept
<1>9. HomeInv'
  BY <1>1, <1>3, <1>4, HomeFrame
<1> QED
  BY <1>3, <1>4, <1>5, <1>6, <1>7, <1>8, <1>9 DEF SInv

LEMMA SendLogsKeeps ==
  ASSUME SInv, NEW i \in Senders, SendLogs(i)
  PROVE  SInv'
<1>1. CASE Rotate(i)
  <2>1. CASE live # NoFile /\ Open(live[1])
             /\ ((Goto(i, [at |-> "url", file |-> live, to |-> 0]) /\ UNCHANGED faults) \/ (Failed(i) /\ Fault))
    BY <1>1, <2>1, RotateKeeps DEF Rotate
  <2>2. CASE Failed(i) /\ UNCHANGED <<logVars, faults>>
    BY <1>1, <2>2, FailKeeps DEF Rotate, At
  <2>3. \/ live # NoFile /\ Open(live[1])
           /\ ((Goto(i, [at |-> "url", file |-> live, to |-> 0]) /\ UNCHANGED faults) \/ (Failed(i) /\ Fault))
        \/ Failed(i) /\ UNCHANGED <<logVars, faults>>
    BY <1>1 DEF Rotate
  <2> QED
    BY <2>1, <2>2, <2>3
<1>2. CASE GetUploadUrl(i)
  BY <1>2, GetUploadUrlKeeps DEF GetUploadUrl
<1>3. CASE UploadFails(i)
  BY <1>3, FailKeeps DEF UploadFails, At
<1> QED
  BY <1>1, <1>2, <1>3, UploadLogKeeps, RemoveLogKeeps DEF SendLogs

-----------------------------------------------------------------------------
(* The command's task. *)

(* The task goes on; the plane, the files and the uploads are not touched. *)
LEMMA DispatchKeeps ==
  ASSUME SInv, Command \/ Handle \/ Reply \/ ReplyFails \/ RunImport
  PROVE  SInv'
<1>1. /\ UNCHANGED <<planeVars, logVars, stored, send>>
      /\ faults' = faults \/ Fault
      /\ asked' \in {asked, TRUE}
  BY DEF Command, Handle, Reply, ReplyFails, RunImport, Fault
<1>2. UNCHANGED <<apiVars, opened, sess, pc, code, remote, rest, cleared, home, live, now, files, line, clash>>
  BY <1>1 DEF planeVars, apiVars, logVars
<1>3. CmdType'
  <2>1. /\ <<>> \in Seq(Steps) /\ <<"json">> \in Seq(Steps) /\ <<"json", "response">> \in Seq(Steps)
        /\ <<"import">> \in Seq(Steps) /\ <<"response">> \in Seq(Steps) /\ <<"response", "response">> \in Seq(Steps)
    <3>1. {"json", "response", "import"} \subseteq Steps
      BY DEF Steps, Replies
    <3> QED
      BY <3>1
  <2>2. cmd # <<>> => Tail(cmd) \in Seq(Steps)
    BY TailType DEF SInv, CmdType
  <2>3. bg # <<>> => Tail(bg) \in Seq(Steps)
    BY TailType DEF SInv, CmdType
  <2>4. CASE Command
    BY <2>4, ScriptType DEF Command, SInv, CmdType
  <2>5. CASE Handle \/ Reply \/ ReplyFails
    BY <2>1, <2>2, <2>5 DEF Handle, Reply, ReplyFails, Doing, SInv, CmdType
  <2>6. CASE RunImport
    BY <2>1, <2>3, <2>6 DEF RunImport, Doing, SInv, CmdType
  <2> QED
    BY <2>4, <2>5, <2>6
<1>4. \/ cmd' = cmd /\ asked' = asked
      \/ asked' /\ ~ Doing(cmd, "send_logs") /\ pc \notin {"start", "connect", "dying"}
  BY DEF SInv, HomeInv, Command, Connected, Handle, Reply, ReplyFails, Replies, RunImport, Doing
<1>5. PlaneType' /\ CalmInv'
  BY <1>1, <1>2, PlaneFrame DEF SInv
<1>6. LogType'
  BY <1>1, <1>2, LogKept
<1>7. SendType' /\ SendInv'
  BY <1>1, <1>2 DEF SInv, SendType, SendInv
<1>8. FlagType'
  BY <1>1, <1>2, FlagFrame DEF SInv
<1>9. FileInv' /\ LineInv'
  BY <1>1, <1>2, FileFrame, LineFrame DEF SInv
<1>10. HomeInv'
  <2>1. CASE cmd' = cmd /\ asked' = asked
    BY <1>1, <1>2, <2>1 DEF SInv, HomeInv, UploadsGoHome
  <2>2. CASE asked' /\ ~ Doing(cmd, "send_logs") /\ pc \notin {"start", "connect", "dying"}
    <3>1. send["task"].at = "idle"
      BY <2>2 DEF SInv, HomeInv
    <3> QED
      BY <1>1, <1>2, <2>2, <3>1 DEF SInv, HomeInv, UploadsGoHome
  <2> QED
    BY <1>4, <2>1, <2>2
<1> QED
  BY <1>3, <1>5, <1>6, <1>7, <1>8, <1>9, <1>10 DEF SInv

(* The task calls send_logs or has its result. *)
LEMMA CallSendLogsKeeps ==
  ASSUME SInv, CallSendLogs
  PROVE  SInv'
<1>1. /\ Doing(cmd, "send_logs")
      /\ UNCHANGED <<planeVars, logVars, stored, bg, asked, faults>>
      /\ \/ Goto("task", [Idle EXCEPT !.at = "ask"]) /\ cmd' = cmd
         \/ Goto("task", Idle) /\ cmd' \in {<<>>, Tail(cmd)}
  BY DEF CallSendLogs
<1>2. /\ UNCHANGED <<apiVars, opened, sess, pc, code, remote, rest, cleared, home>>
  BY <1>1 DEF planeVars, apiVars
<1>3. [Idle EXCEPT !.at = "ask"] \in Calls /\ [Idle EXCEPT !.at = "ask"].at = "ask" /\ [Idle EXCEPT !.at = "ask"].file = NoFile
  BY IdleType DEF Calls, Idle
<1>4. /\ SendType' /\ send'["task"].file = NoFile
      /\ \/ send'["task"].at = "ask" /\ cmd' = cmd
         \/ send'["task"].at = "idle" /\ cmd' \in {<<>>, Tail(cmd)}
      /\ \A j \in Senders \ {"task"} : send'[j] = send[j]
  BY <1>1, <1>3, IdleType, GotoType DEF SInv, Senders
<1>5. CmdType'
  <2>1. cmd # <<>> /\ Tail(cmd) \in Seq(Steps) /\ <<>> \in Seq(Steps)
    BY <1>1, TailType, EmptySeq DEF SInv, CmdType, Doing
  <2> QED
    BY <1>1, <1>4, <2>1 DEF SInv, CmdType
<1>6. PlaneType' /\ CalmInv'
  BY <1>1, <1>2, PlaneFrame DEF SInv
<1>7. LogType'
  BY <1>1, <1>2, LogKept
<1>8. FlagType'
  BY <1>1, <1>2, FlagFrame DEF SInv
<1>9. FileInv' /\ SendInv' /\ LineInv'
  BY <1>1, <1>2, <1>4, CallFrame DEF Senders
<1>10. HomeInv'
  BY <1>1, <1>2, <1>4 DEF SInv, HomeInv, UploadsGoHome, Doing
<1> QED
  BY <1>4, <1>5, <1>6, <1>7, <1>8, <1>9, <1>10 DEF SInv

-----------------------------------------------------------------------------
(* The theorems. *)

LEMMA StutterKeeps ==
  ASSUME SInv, UNCHANGED vars
  PROVE  SInv'
<1>1. UNCHANGED <<apiVars, opened, sess, pc, code, remote, rest, live, now, files, line, clash, home, stored, cleared,
                  send, cmd, bg, asked, faults>>
  BY DEF vars, apiVars, lineVars, logVars, cmdVars
<1>2. PlaneType' /\ CalmInv'
  BY <1>1, PlaneFrame DEF SInv
<1>3. LogType'
  BY <1>1, LogKept DEF logVars
<1>4. SendType' /\ SendInv' /\ CmdType'
  BY <1>1, CmdFrame DEF SInv, SendType, SendInv
<1>5. FlagType'
  BY <1>1, FlagFrame DEF SInv
<1>6. FileInv' /\ LineInv'
  BY <1>1, FileFrame, LineFrame DEF SInv
<1>7. HomeInv'
  BY <1>1 DEF SInv, HomeInv, UploadsGoHome
<1> QED
  BY <1>2, <1>3, <1>4, <1>5, <1>6, <1>7 DEF SInv

LEMMA SessionInvariant == Spec => []SInv
<1>1. SInv /\ [Next]_vars => SInv'
  <2> SUFFICES ASSUME SInv, [Next]_vars PROVE SInv'
    OBVIOUS
  <2>1. CASE Plane
    BY <2>1, OpenKeeps, AdvanceKeeps, ForkKeeps, UploadRestKeeps, DecideKeeps, RunnerKeeps DEF Plane
  <2>2. CASE StartLost \/ SessionExpires \/ ForkFails \/ StopTimesOut
    BY <2>2, OpenKeeps, AdvanceKeeps
  <2>3. CASE WriteLine \/ WorkerEnds \/ Ticker
    BY <2>3, WriteLineKeeps, WorkerEndsKeeps, TickerKeeps
  <2>4. CASE \E i \in Senders : SendLogs(i)
    BY <2>4, SendLogsKeeps
  <2>5. CASE Command \/ Dispatch \/ RunImport
    BY <2>5, DispatchKeeps, CallSendLogsKeeps DEF Dispatch
  <2>6. CASE UNCHANGED vars
    BY <2>6, StutterKeeps
  <2> QED
    BY <2>1, <2>2, <2>3, <2>4, <2>5, <2>6 DEF Next
<1> QED
  BY <1>1, InitSession, PTL DEF Spec

(***************************************************************************)
(* The variables of the plane, the log sink, the uploads and the command's *)
(* task keep their types (cmd/server.py, util/logger.py,                   *)
(* notification/__init__.py).                                              *)
(***************************************************************************)
THEOREM SessionTypeCorrect == Spec => []TypeOK
<1>1. SInv => TypeOK
  <2> SUFFICES ASSUME SInv PROVE TypeOK
    OBVIOUS
  <2>1. {remote, asked} \subseteq BOOLEAN
    BY DEF SInv, FlagType
  <2>2. {cmd, bg} \subseteq Seq(Replies \cup {"handle", "send_logs", "configure", "backfill_init", "import"})
    BY DEF SInv, CmdType, Steps
  <2>3. send \in [Senders -> [at : {"idle", "ask", "url", "put", "rm", "end"}, file : Files,
                              to : 0..MaxSessions]]
    BY DEF SInv, SendType, Calls
  <2> QED
    BY <2>1, <2>2, <2>3 DEF SInv, PlaneType, InSession, LogType, TypeOK
<1> QED
  BY <1>1, SessionInvariant, PTL

(***************************************************************************)
(* No log line is lost while the worker rotates its files and three        *)
(* threads upload and remove them (util/logger.py,                         *)
(* cmd/notification_wiring.py): send_logs removes only what it uploaded,   *)
(* and a failed upload leaves the file. The one exception is a file that   *)
(* two rotations in one millisecond opened under the same name.            *)
(***************************************************************************)
THEOREM LineIsKept == Spec => []LineKept
<1>1. SInv => LineKept
  BY DEF SInv, LineInv
<1> QED
  BY <1>1, SessionInvariant, PTL

(***************************************************************************)
(* The logs a command asked for, and the ones uploaded at the end of a     *)
(* session, go to the session they were written in, although ctx.session_id*)
(* is read after the rotation (cmd/server.py): stop() waits for the task,  *)
(* or the process ends.                                                    *)
(***************************************************************************)
THEOREM UploadsAreFiledHome == Spec => []UploadsGoHome
<1>1. SInv => UploadsGoHome
  BY DEF SInv, HomeInv
<1> QED
  BY <1>1, SessionInvariant, PTL

(***************************************************************************)
(* send_start is refused (409) only after some failure: without one, every *)
(* way back to it has ended the session (cmd/server.py, cmd/session.py).   *)
(***************************************************************************)
THEOREM NoRefusalWithoutFault == Spec => []RefusedOnlyAfterFault
<1>1. SInv => RefusedOnlyAfterFault
  <2> SUFFICES ASSUME SInv, pc = "start", api # {} PROVE faults > 0
    BY DEF RefusedOnlyAfterFault
  <2>1. faults \in Nat /\ faults # 0
    <3>1. faults # 0
      BY DEF SInv, CalmInv
    <3> QED
      BY <3>1, SessionAssumption DEF SInv, PlaneType, SessionAssumption
  <2> QED
    BY <2>1
<1> QED
  BY <1>1, SessionInvariant, PTL
=============================================================================
