-------------------------- MODULE SupervisorProofs --------------------------
(***************************************************************************)
(* Supervisor's safety for every set of workers and every bound.  The      *)
(* inductive invariant adds to the properties how the layers hang together:*)
(* the wrapper only spawns when no control plane is left, a control plane  *)
(* that is gone has left no state, the failure counters stay below their   *)
(* limits wherever the loops still run, and the pause of an import is the  *)
(* last word in the child's control queue.                                 *)
(***************************************************************************)
EXTENDS Supervisor, SequenceTheorems, TLAPS

(* A control plane that is gone has left none of its state behind. *)
OffIsBlank ==
  plane = "off" => ~runner /\ ~psig /\ ~quiet /\ fails = 0

(* The wrapper spawns a control plane only when there is none. *)
SpawnsAlone ==
  /\ wrapper = "spawn" => plane = "off" /\ pexit = NoExit
  /\ pexit # NoExit => plane = "off"

(* A loop that still runs has failures left. *)
FailuresLeft ==
  /\ wrapper # "ended" => wfails < MaxFailures
  /\ plane \notin {"stop", "leave"} => fails < MaxFailures

(* No unpause comes after the pause: it has been taken and holds, or it is  *)
(* on its way.                                                              *)
SettledIn(p, q) ==
  \/ p /\ \A k \in 1 .. Len(q) : q[k] # "unpause"
  \/ \E k \in 1 .. Len(q) :
       q[k] = "pause" /\ \A l \in k + 1 .. Len(q) : q[l] # "unpause"

(* While a quiet import runs its handler keeps the control plane from the   *)
(* next session, and the pause is settled in the child.                     *)
QuietImport ==
  imp = "run" /\ quiet =>
    /\ plane \in {"forked", "decide", "stop", "leave"}
    /\ runner \/ plane = "leave"
    /\ plane = "forked" =>
         /\ worker[child] \in {"listen", "stream", "drain", "closing"}
         /\ SettledIn(paused[child], ctl[child])

(* The port is held by the one worker that serves, from before its consumer *)
(* is created until after it has drained.                                   *)
Serving == {"listen", "stream", "drain"}
PortInv == \A i \in Workers : port = i <=> worker[i] \in Serving

SupervisorInv ==
  /\ TypeOK
  /\ PortInv
  /\ OffIsBlank
  /\ SpawnsAlone
  /\ FailuresLeft
  /\ QuietImport

-----------------------------------------------------------------------------
(* What the steps have in common. *)

(* A command is appended to the queue of the worker that listens, if any    *)
(* does (_control_get).                                                     *)
LEMMA ControlGetTyped ==
  ASSUME WorkersOK, NEW c \in Commands, ControlGet(c)
  PROVE  ctl' \in [Workers -> Seq(Commands)]
<1>1. CASE UNCHANGED ctl
  BY <1>1 DEF WorkersOK
<1>2. CASE /\ port # 0
           /\ ctl' = [ctl EXCEPT ![port] = Append(@, c)]
  <2>1. port \in Workers
    BY <1>2 DEF WorkersOK
  <2>2. Append(ctl[port], c) \in Seq(Commands)
    BY <2>1, AppendProperties DEF WorkersOK
  <2>3. QED BY <1>2, <2>1, <2>2 DEF WorkersOK
<1>3. QED BY <1>1, <1>2 DEF ControlGet

(* A worker that ends leaves a free slot. *)
LEMMA WorkerEndsTyped ==
  ASSUME WorkersOK, NEW i \in Workers, NEW code, WorkerEnds(i, code)
  PROVE  WorkersOK'
<1>1. <<>> \in Seq(Commands)
  OBVIOUS
<1>2. worker' \in [Workers -> WorkerAt] /\ wkrcode' \in [Workers -> 0 .. 9]
  BY DEF WorkersOK, WorkerAt, WorkerEnds, Success
<1>3. ctl' \in [Workers -> Seq(Commands)]
  BY <1>1 DEF WorkersOK, WorkerEnds
<1>4. paused' \in [Workers -> BOOLEAN] /\ wkrsig' \in [Workers -> BOOLEAN]
  BY DEF WorkersOK, WorkerEnds
<1>5. port' \in Workers \cup {0}
  BY DEF WorkersOK, WorkerEnds
<1>6. QED BY <1>2, <1>3, <1>4, <1>5 DEF WorkersOK

(* The end of a worker leaves a quiet import quiet. *)
LEMMA WorkerEndsQuiet ==
  ASSUME WorkersOK, ChildOK, QuietImport, NEW i \in Workers, NEW code,
         WorkerEnds(i, code), UNCHANGED <<runner, imp, quiet>>
  PROVE  QuietImport'
<1>1. CASE i = child
  BY <1>1, SupervisorAssumption
  DEF SupervisorAssumption, QuietImport, WorkerEnds, ChildOK
<1>2. CASE i # child /\ plane # "forked"
  BY <1>2 DEF QuietImport, WorkerEnds
<1>3. CASE i # child /\ plane = "forked"
  <2>1. child \in Workers
    BY <1>3 DEF ChildOK
  <2>2. /\ worker'[child] = worker[child] /\ ctl'[child] = ctl[child]
        /\ paused'[child] = paused[child] /\ UNCHANGED <<plane, child>>
    BY <1>3, <2>1 DEF WorkersOK, WorkerEnds
  <2>3. QED BY <2>2 DEF QuietImport
<1>4. QED BY <1>1, <1>2, <1>3

(* A worker that leaves its control loop drains with a code. *)
LEMMA LeaveTyped ==
  ASSUME WorkersOK, NEW i \in Workers, NEW code \in 0 .. 9, Leave(i, code)
  PROVE  worker' \in [Workers -> WorkerAt] /\ wkrcode' \in [Workers -> 0 .. 9]
<1>1. worker' \in [Workers -> WorkerAt]
  BY DEF WorkersOK, WorkerAt, Leave
<1>2. wkrcode' \in [Workers -> 0 .. 9]
  BY DEF WorkersOK, Leave
<1>3. QED BY <1>1, <1>2

(* A pause at the end of a queue is settled. *)
LEMMA PauseSettles ==
  ASSUME NEW p, NEW q \in Seq(Commands)
  PROVE  SettledIn(p, Append(q, "pause"))
<1>1. /\ Len(Append(q, "pause")) = Len(q) + 1 /\ Len(q) \in Nat
      /\ Append(q, "pause")[Len(q) + 1] = "pause"
  BY DEF Commands
<1>2. QED BY <1>1 DEF SettledIn

(* Any command but unpause leaves it settled. *)
LEMMA SettledAppend ==
  ASSUME NEW p, NEW q \in Seq(Commands), NEW c \in Commands, c # "unpause",
         SettledIn(p, q)
  PROVE  SettledIn(p, Append(q, c))
<1> DEFINE r == Append(q, c)
<1>1. /\ Len(r) = Len(q) + 1 /\ Len(q) \in Nat
      /\ \A k \in 1 .. Len(q) : r[k] = q[k]
      /\ r[Len(q) + 1] = c
  OBVIOUS
<1> HIDE DEF r
<1>2. CASE p /\ \A k \in 1 .. Len(q) : q[k] # "unpause"
  <2>1. \A k \in 1 .. Len(r) : r[k] # "unpause"
    BY <1>1, <1>2
  <2>2. QED BY <1>2, <2>1 DEF SettledIn, r
<1>3. CASE \E k \in 1 .. Len(q) :
             q[k] = "pause" /\ \A l \in k + 1 .. Len(q) : q[l] # "unpause"
  <2>1. PICK k \in 1 .. Len(q) :
           q[k] = "pause" /\ \A l \in k + 1 .. Len(q) : q[l] # "unpause"
    BY <1>3
  <2>2. k \in 1 .. Len(r) /\ r[k] = "pause"
    BY <1>1, <2>1
  <2>3. \A l \in k + 1 .. Len(r) : r[l] # "unpause"
    BY <1>1, <2>1
  <2>4. QED BY <2>2, <2>3 DEF SettledIn, r
<1>4. QED BY <1>2, <1>3 DEF SettledIn

(* Taking the first command keeps it settled, whichever that is: a pause    *)
(* sets the flag, an unpause is followed by a pause.                        *)
LEMMA SettledTail ==
  ASSUME NEW p, NEW p2, NEW q \in Seq(Commands), q # <<>>, SettledIn(p, q),
         Head(q) = "pause" => p2,
         Head(q) \notin {"pause", "unpause"} => (p => p2)
  PROVE  SettledIn(p2, Tail(q))
<1> DEFINE r == Tail(q)
<1>1. /\ Len(q) \in Nat /\ Len(q) >= 1 /\ Len(r) = Len(q) - 1
      /\ \A k \in 1 .. Len(r) : r[k] = q[k + 1]
      /\ q[1] = Head(q)
  OBVIOUS
<1> HIDE DEF r
<1>2. CASE p /\ \A k \in 1 .. Len(q) : q[k] # "unpause"
  <2>1. Head(q) # "unpause"
    BY <1>1, <1>2
  <2>2. p2
    BY <1>2, <2>1
  <2>3. \A k \in 1 .. Len(r) : r[k] # "unpause"
    BY <1>1, <1>2
  <2>4. QED BY <2>2, <2>3 DEF SettledIn, r
<1>3. CASE \E k \in 1 .. Len(q) :
             q[k] = "pause" /\ \A l \in k + 1 .. Len(q) : q[l] # "unpause"
  <2>1. PICK k \in 1 .. Len(q) :
           q[k] = "pause" /\ \A l \in k + 1 .. Len(q) : q[l] # "unpause"
    BY <1>3
  <2>2. CASE k = 1
    <3>1. p2
      BY <1>1, <2>1, <2>2
    <3>2. \A l \in 1 .. Len(r) : r[l] # "unpause"
      BY <1>1, <2>1, <2>2
    <3>3. QED BY <3>1, <3>2 DEF SettledIn, r
  <2>3. CASE k # 1
    <3>1. k - 1 \in 1 .. Len(r) /\ r[k - 1] = "pause"
      BY <1>1, <2>1, <2>3
    <3>2. \A l \in (k - 1) + 1 .. Len(r) : r[l] # "unpause"
      BY <1>1, <2>1, <2>3
    <3>3. QED BY <3>1, <3>2 DEF SettledIn, r
  <2>4. QED BY <2>2, <2>3
<1>4. QED BY <1>2, <1>3 DEF SettledIn

(* A command that is not unpause keeps the child's queue settled. *)
LEMMA ControlGetSettled ==
  ASSUME WorkersOK, NEW i \in Workers, SettledIn(paused[i], ctl[i]),
         NEW c \in Commands, c # "unpause", ControlGet(c), UNCHANGED paused
  PROVE  SettledIn(paused'[i], ctl'[i])
<1>1. CASE ctl'[i] = ctl[i]
  BY <1>1
<1>2. CASE ctl'[i] = Append(ctl[i], c)
  <2>1. ctl[i] \in Seq(Commands)
    BY DEF WorkersOK
  <2>2. QED BY <1>2, <2>1, SettledAppend
<1>3. CASE ctl' = [ctl EXCEPT ![port] = Append(@, c)]
  BY <1>1, <1>2, <1>3 DEF WorkersOK
<1>4. QED BY <1>1, <1>3 DEF ControlGet

-----------------------------------------------------------------------------
(* One lemma per action. *)

LEMMA WrapperSpawnKeeps ==
  ASSUME SupervisorInv, WrapperSpawn
  PROVE  SupervisorInv'
<1> USE SupervisorAssumption DEF SupervisorAssumption
<1>1. FlagsOK'
  BY DEF SupervisorInv, TypeOK, FlagsOK, WrapperSpawn, impVars, wkrVars
<1>2. LayersOK' /\ OffIsBlank' /\ SpawnsAlone' /\ FailuresLeft'
  BY DEF SupervisorInv, TypeOK, LayersOK, WorkersOK, ChildOK, OffIsBlank,
         SpawnsAlone, FailuresLeft, WrapperAt, PlaneAt, WrapperSpawn, impVars,
         wkrVars, NoExit
<1>3. WorkersOK' /\ PortInv'
  BY DEF SupervisorInv, TypeOK, WorkersOK, ChildOK, PortInv, Serving,
         WrapperSpawn, impVars, wkrVars
<1>4. ChildOK' /\ QuietImport'
  BY DEF SupervisorInv, TypeOK, WorkersOK, ChildOK, PortInv, OffIsBlank,
         SpawnsAlone, QuietImport, SettledIn, Serving, WrapperSpawn, impVars,
         wkrVars, NoExit
<1>5. QED
  BY <1>1, <1>2, <1>3, <1>4 DEF SupervisorInv, TypeOK

LEMMA WrapperExitedKeeps ==
  ASSUME SupervisorInv, WrapperExited
  PROVE  SupervisorInv'
<1> USE SupervisorAssumption DEF SupervisorAssumption
<1>1. FlagsOK'
  BY DEF SupervisorInv, TypeOK, FlagsOK, WrapperExited, Success, Error,
         l2Vars, impVars, wkrVars, NoExit
<1>2. LayersOK' /\ OffIsBlank' /\ SpawnsAlone' /\ FailuresLeft'
  BY DEF SupervisorInv, TypeOK, LayersOK, WorkersOK, ChildOK, OffIsBlank,
         SpawnsAlone, FailuresLeft, WrapperAt, WrapperExited, Success, Error,
         l2Vars, impVars, wkrVars, NoExit
<1>3. WorkersOK' /\ PortInv'
  BY DEF SupervisorInv, TypeOK, WorkersOK, ChildOK, PortInv, Serving,
         WrapperExited, Success, Error, l2Vars, impVars, wkrVars, NoExit
<1>4. ChildOK' /\ QuietImport'
  BY DEF SupervisorInv, TypeOK, WorkersOK, ChildOK, PortInv, OffIsBlank,
         SpawnsAlone, QuietImport, SettledIn, Serving, WrapperExited, Success,
         Error, l2Vars, impVars, wkrVars, NoExit
<1>5. QED
  BY <1>1, <1>2, <1>3, <1>4 DEF SupervisorInv, TypeOK

LEMMA WrapperShutdownKeeps ==
  ASSUME SupervisorInv, WrapperShutdown
  PROVE  SupervisorInv'
<1> USE SupervisorAssumption DEF SupervisorAssumption
<1>1. FlagsOK'
  BY DEF SupervisorInv, TypeOK, FlagsOK, WrapperShutdown, l2Vars, impVars,
         wkrVars
<1>2. LayersOK' /\ OffIsBlank' /\ SpawnsAlone' /\ FailuresLeft'
  BY DEF SupervisorInv, TypeOK, LayersOK, WorkersOK, ChildOK, OffIsBlank,
         SpawnsAlone, FailuresLeft, WrapperAt, WrapperShutdown, l2Vars,
         impVars, wkrVars, NoExit
<1>3. WorkersOK' /\ PortInv'
  BY DEF SupervisorInv, TypeOK, WorkersOK, ChildOK, PortInv, Serving,
         WrapperShutdown, l2Vars, impVars, wkrVars
<1>4. ChildOK' /\ QuietImport'
  BY DEF SupervisorInv, TypeOK, WorkersOK, ChildOK, PortInv, OffIsBlank,
         SpawnsAlone, QuietImport, SettledIn, Serving, WrapperShutdown,
         l2Vars, impVars, wkrVars, NoExit
<1>5. QED
  BY <1>1, <1>2, <1>3, <1>4 DEF SupervisorInv, TypeOK

LEMMA WrapperChildGoneKeeps ==
  ASSUME SupervisorInv, WrapperChildGone
  PROVE  SupervisorInv'
<1> USE SupervisorAssumption DEF SupervisorAssumption
<1>1. FlagsOK'
  BY DEF SupervisorInv, TypeOK, FlagsOK, WrapperChildGone, Success, l2Vars,
         impVars, wkrVars
<1>2. LayersOK' /\ OffIsBlank' /\ SpawnsAlone' /\ FailuresLeft'
  BY DEF SupervisorInv, TypeOK, LayersOK, WorkersOK, ChildOK, OffIsBlank,
         SpawnsAlone, FailuresLeft, WrapperAt, WrapperChildGone, Success,
         l2Vars, impVars, wkrVars, NoExit
<1>3. WorkersOK' /\ PortInv'
  BY DEF SupervisorInv, TypeOK, WorkersOK, ChildOK, PortInv, Serving,
         WrapperChildGone, Success, l2Vars, impVars, wkrVars
<1>4. ChildOK' /\ QuietImport'
  BY DEF SupervisorInv, TypeOK, WorkersOK, ChildOK, PortInv, OffIsBlank,
         SpawnsAlone, QuietImport, SettledIn, Serving, WrapperChildGone,
         Success, l2Vars, impVars, wkrVars, NoExit
<1>5. QED
  BY <1>1, <1>2, <1>3, <1>4 DEF SupervisorInv, TypeOK

LEMMA WrapperTerminateKeeps ==
  ASSUME SupervisorInv, WrapperTerminate
  PROVE  SupervisorInv'
<1> USE SupervisorAssumption DEF SupervisorAssumption
<1>1. FlagsOK'
  BY DEF SupervisorInv, TypeOK, FlagsOK, WrapperTerminate, impVars, wkrVars
<1>2. LayersOK' /\ OffIsBlank' /\ SpawnsAlone' /\ FailuresLeft'
  BY DEF SupervisorInv, TypeOK, LayersOK, WorkersOK, ChildOK, OffIsBlank,
         SpawnsAlone, FailuresLeft, WrapperAt, WrapperTerminate, impVars,
         wkrVars, NoExit
<1>3. WorkersOK' /\ PortInv'
  BY DEF SupervisorInv, TypeOK, WorkersOK, ChildOK, PortInv, Serving,
         WrapperTerminate, impVars, wkrVars
<1>4. ChildOK' /\ QuietImport'
  BY DEF SupervisorInv, TypeOK, WorkersOK, ChildOK, PortInv, OffIsBlank,
         SpawnsAlone, QuietImport, SettledIn, Serving, WrapperTerminate,
         impVars, wkrVars, NoExit
<1>5. QED
  BY <1>1, <1>2, <1>3, <1>4 DEF SupervisorInv, TypeOK

LEMMA WrapperKillKeeps ==
  ASSUME SupervisorInv, WrapperKill
  PROVE  SupervisorInv'
<1> USE SupervisorAssumption DEF SupervisorAssumption
<1>1. FlagsOK'
  BY DEF SupervisorInv, TypeOK, FlagsOK, WrapperKill, PlaneDies, Success,
         Killed, wkrVars
<1>2. LayersOK' /\ OffIsBlank' /\ SpawnsAlone' /\ FailuresLeft'
  BY DEF SupervisorInv, TypeOK, LayersOK, WorkersOK, ChildOK, OffIsBlank,
         SpawnsAlone, FailuresLeft, WrapperAt, PlaneAt, WrapperKill,
         PlaneDies, Success, Killed, wkrVars, NoExit
<1>3. WorkersOK' /\ PortInv'
  BY DEF SupervisorInv, TypeOK, WorkersOK, ChildOK, PortInv, Serving,
         WrapperKill, PlaneDies, Success, Killed, wkrVars
<1>4. ChildOK' /\ QuietImport'
  BY DEF SupervisorInv, TypeOK, WorkersOK, ChildOK, PortInv, OffIsBlank,
         SpawnsAlone, QuietImport, SettledIn, Serving, WrapperKill, PlaneDies,
         Success, Killed, wkrVars, NoExit
<1>5. QED
  BY <1>1, <1>2, <1>3, <1>4 DEF SupervisorInv, TypeOK

LEMMA PlaneStartKeeps ==
  ASSUME SupervisorInv, PlaneStart
  PROVE  SupervisorInv'
<1> USE SupervisorAssumption DEF SupervisorAssumption
<1>1. FlagsOK'
  BY DEF SupervisorInv, TypeOK, FlagsOK, PlaneStart, Fault, Error, l1Vars,
         impVars, wkrVars
<1>2. LayersOK' /\ OffIsBlank' /\ SpawnsAlone' /\ FailuresLeft'
  BY DEF SupervisorInv, TypeOK, LayersOK, WorkersOK, ChildOK, OffIsBlank,
         SpawnsAlone, FailuresLeft, PlaneAt, PlaneStart, Fault, Error, l1Vars,
         impVars, wkrVars, NoExit
<1>3. WorkersOK' /\ PortInv'
  BY DEF SupervisorInv, TypeOK, WorkersOK, ChildOK, PortInv, Serving,
         PlaneStart, Fault, Error, l1Vars, impVars, wkrVars
<1>4. ChildOK' /\ QuietImport'
  BY DEF SupervisorInv, TypeOK, WorkersOK, ChildOK, PortInv, OffIsBlank,
         SpawnsAlone, QuietImport, SettledIn, Serving, PlaneStart, Fault,
         Error, l1Vars, impVars, wkrVars, NoExit
<1>5. QED
  BY <1>1, <1>2, <1>3, <1>4 DEF SupervisorInv, TypeOK

LEMMA PlaneNotifyKeeps ==
  ASSUME SupervisorInv, PlaneNotify
  PROVE  SupervisorInv'
<1> USE SupervisorAssumption DEF SupervisorAssumption
<1>1. FlagsOK'
  BY DEF SupervisorInv, TypeOK, FlagsOK, PlaneNotify, Fault, l1Vars, impVars,
         wkrVars
<1>2. LayersOK' /\ OffIsBlank' /\ SpawnsAlone' /\ FailuresLeft'
  BY DEF SupervisorInv, TypeOK, LayersOK, WorkersOK, ChildOK, OffIsBlank,
         SpawnsAlone, FailuresLeft, PlaneAt, PlaneNotify, Fault, l1Vars,
         impVars, wkrVars, NoExit
<1>3. WorkersOK' /\ PortInv'
  BY DEF SupervisorInv, TypeOK, WorkersOK, ChildOK, PortInv, Serving,
         PlaneNotify, Fault, l1Vars, impVars, wkrVars
<1>4. ChildOK' /\ QuietImport'
  BY DEF SupervisorInv, TypeOK, WorkersOK, ChildOK, PortInv, OffIsBlank,
         SpawnsAlone, QuietImport, SettledIn, Serving, PlaneNotify, Fault,
         l1Vars, impVars, wkrVars, NoExit
<1>5. QED
  BY <1>1, <1>2, <1>3, <1>4 DEF SupervisorInv, TypeOK

LEMMA PlaneConfiguredKeeps ==
  ASSUME SupervisorInv, PlaneConfigured
  PROVE  SupervisorInv'
<1> USE SupervisorAssumption DEF SupervisorAssumption
<1>1. FlagsOK'
  BY DEF SupervisorInv, TypeOK, FlagsOK, PlaneConfigured, l1Vars, impVars,
         wkrVars
<1>2. LayersOK' /\ OffIsBlank' /\ SpawnsAlone' /\ FailuresLeft'
  BY DEF SupervisorInv, TypeOK, LayersOK, WorkersOK, ChildOK, OffIsBlank,
         SpawnsAlone, FailuresLeft, PlaneAt, PlaneConfigured, l1Vars, impVars,
         wkrVars, NoExit
<1>3. WorkersOK' /\ PortInv'
  BY DEF SupervisorInv, TypeOK, WorkersOK, ChildOK, PortInv, Serving,
         PlaneConfigured, l1Vars, impVars, wkrVars
<1>4. ChildOK' /\ QuietImport'
  BY DEF SupervisorInv, TypeOK, WorkersOK, ChildOK, PortInv, OffIsBlank,
         SpawnsAlone, QuietImport, SettledIn, Serving, PlaneConfigured,
         l1Vars, impVars, wkrVars, NoExit
<1>5. QED
  BY <1>1, <1>2, <1>3, <1>4 DEF SupervisorInv, TypeOK

LEMMA PlaneUnconfiguredShutdownKeeps ==
  ASSUME SupervisorInv, PlaneUnconfiguredShutdown
  PROVE  SupervisorInv'
<1> USE SupervisorAssumption DEF SupervisorAssumption
<1>1. FlagsOK'
  BY DEF SupervisorInv, TypeOK, FlagsOK, PlaneUnconfiguredShutdown, Success,
         l1Vars, impVars, wkrVars
<1>2. LayersOK' /\ OffIsBlank' /\ SpawnsAlone' /\ FailuresLeft'
  BY DEF SupervisorInv, TypeOK, LayersOK, WorkersOK, ChildOK, OffIsBlank,
         SpawnsAlone, FailuresLeft, PlaneAt, PlaneUnconfiguredShutdown,
         Success, l1Vars, impVars, wkrVars, NoExit
<1>3. WorkersOK' /\ PortInv'
  BY DEF SupervisorInv, TypeOK, WorkersOK, ChildOK, PortInv, Serving,
         PlaneUnconfiguredShutdown, Success, l1Vars, impVars, wkrVars
<1>4. ChildOK' /\ QuietImport'
  BY DEF SupervisorInv, TypeOK, WorkersOK, ChildOK, PortInv, OffIsBlank,
         SpawnsAlone, QuietImport, SettledIn, Serving,
         PlaneUnconfiguredShutdown, Success, l1Vars, impVars, wkrVars, NoExit
<1>5. QED
  BY <1>1, <1>2, <1>3, <1>4 DEF SupervisorInv, TypeOK

LEMMA PlaneForkKeeps ==
  ASSUME SupervisorInv, PlaneFork
  PROVE  SupervisorInv'
<1> USE SupervisorAssumption DEF SupervisorAssumption
<1>1. FlagsOK'
  BY DEF SupervisorInv, TypeOK, FlagsOK, PlaneFork, Fault, l1Vars, impVars,
         wkrVars
<1>2. LayersOK' /\ OffIsBlank' /\ SpawnsAlone' /\ FailuresLeft'
  BY DEF SupervisorInv, TypeOK, LayersOK, WorkersOK, ChildOK, OffIsBlank,
         SpawnsAlone, FailuresLeft, PlaneAt, PlaneFork, Fault, l1Vars,
         impVars, wkrVars, NoExit
<1>3. WorkersOK'
  BY DEF SupervisorInv, TypeOK, WorkersOK, WorkerAt, PlaneFork, Fault, l1Vars,
         impVars, wkrVars
<1>4. PortInv'
  BY DEF SupervisorInv, TypeOK, WorkersOK, ChildOK, PortInv, Serving,
         PlaneFork, Fault, l1Vars, impVars, wkrVars
<1>5. ChildOK' /\ QuietImport'
  BY DEF SupervisorInv, TypeOK, WorkersOK, ChildOK, PortInv, OffIsBlank,
         SpawnsAlone, QuietImport, SettledIn, Serving, PlaneFork, Fault,
         l1Vars, impVars, wkrVars, NoExit
<1>6. QED
  BY <1>1, <1>2, <1>3, <1>4, <1>5 DEF SupervisorInv, TypeOK

LEMMA PlaneWatchKeeps ==
  ASSUME SupervisorInv, PlaneWatch
  PROVE  SupervisorInv'
<1> USE SupervisorAssumption DEF SupervisorAssumption
<1>1. FlagsOK'
  BY DEF SupervisorInv, TypeOK, FlagsOK, PlaneWatch, WorkerEnds, l1Vars,
         impVars, Success, Killed
<1>2. LayersOK' /\ OffIsBlank' /\ SpawnsAlone' /\ FailuresLeft'
  BY DEF SupervisorInv, TypeOK, LayersOK, WorkersOK, ChildOK, OffIsBlank,
         SpawnsAlone, FailuresLeft, PlaneAt, PlaneWatch, WorkerEnds, l1Vars,
         impVars, Success, Killed, NoExit
<1>3. WorkersOK'
  BY SupervisorAssumption, WorkerEndsTyped
  DEF SupervisorInv, TypeOK, ChildOK, PlaneWatch
<1>4. PortInv'
  BY DEF SupervisorInv, TypeOK, WorkersOK, ChildOK, PortInv, Serving,
         PlaneWatch, WorkerEnds, l1Vars, impVars, Success, Killed
<1>5. ChildOK' /\ QuietImport'
  BY DEF SupervisorInv, TypeOK, WorkersOK, ChildOK, PortInv, OffIsBlank,
         SpawnsAlone, QuietImport, SettledIn, Serving, PlaneWatch, WorkerEnds,
         l1Vars, impVars, Success, Killed, NoExit
<1>6. QED
  BY <1>1, <1>2, <1>3, <1>4, <1>5 DEF SupervisorInv, TypeOK

LEMMA PlaneDecideKeeps ==
  ASSUME SupervisorInv, PlaneDecide
  PROVE  SupervisorInv'
<1> USE SupervisorAssumption DEF SupervisorAssumption
<1>1. FlagsOK'
  BY DEF SupervisorInv, TypeOK, FlagsOK, PlaneDecide, l1Vars, impVars,
         wkrVars, Success, IncorrectUsage, Restart, NatsDisconnected
<1>2. LayersOK' /\ OffIsBlank' /\ SpawnsAlone' /\ FailuresLeft'
  BY DEF SupervisorInv, TypeOK, LayersOK, WorkersOK, ChildOK, OffIsBlank,
         SpawnsAlone, FailuresLeft, PlaneAt, PlaneDecide, l1Vars, impVars,
         wkrVars, Success, IncorrectUsage, Restart, NatsDisconnected, NoExit
<1>3. WorkersOK' /\ PortInv'
  BY DEF SupervisorInv, TypeOK, WorkersOK, ChildOK, PortInv, Serving,
         PlaneDecide, l1Vars, impVars, wkrVars, Success, IncorrectUsage,
         Restart, NatsDisconnected
<1>4. ChildOK' /\ QuietImport'
  BY DEF SupervisorInv, TypeOK, WorkersOK, ChildOK, PortInv, OffIsBlank,
         SpawnsAlone, QuietImport, SettledIn, Serving, PlaneDecide, l1Vars,
         impVars, wkrVars, Success, IncorrectUsage, Restart, NatsDisconnected,
         NoExit
<1>5. QED
  BY <1>1, <1>2, <1>3, <1>4 DEF SupervisorInv, TypeOK

LEMMA PlaneStopKeeps ==
  ASSUME SupervisorInv, PlaneStop
  PROVE  SupervisorInv'
<1> USE SupervisorAssumption DEF SupervisorAssumption
<1>1. FlagsOK'
  BY DEF SupervisorInv, TypeOK, FlagsOK, PlaneStop, Error, l1Vars, impVars,
         wkrVars
<1>2. LayersOK' /\ OffIsBlank' /\ SpawnsAlone' /\ FailuresLeft'
  BY DEF SupervisorInv, TypeOK, LayersOK, WorkersOK, ChildOK, OffIsBlank,
         SpawnsAlone, FailuresLeft, PlaneAt, PlaneStop, Error, l1Vars,
         impVars, wkrVars, NoExit
<1>3. WorkersOK' /\ PortInv'
  BY DEF SupervisorInv, TypeOK, WorkersOK, ChildOK, PortInv, Serving,
         PlaneStop, Error, l1Vars, impVars, wkrVars
<1>4. ChildOK' /\ QuietImport'
  BY DEF SupervisorInv, TypeOK, WorkersOK, ChildOK, PortInv, OffIsBlank,
         SpawnsAlone, QuietImport, SettledIn, Serving, PlaneStop, Error,
         l1Vars, impVars, wkrVars, NoExit
<1>5. QED
  BY <1>1, <1>2, <1>3, <1>4 DEF SupervisorInv, TypeOK

LEMMA PlaneStopTimeoutKeeps ==
  ASSUME SupervisorInv, PlaneStopTimeout
  PROVE  SupervisorInv'
<1> USE SupervisorAssumption DEF SupervisorAssumption
<1>1. FlagsOK'
  BY DEF SupervisorInv, TypeOK, FlagsOK, PlaneStopTimeout, Panic, l1Vars,
         impVars, wkrVars
<1>2. LayersOK' /\ OffIsBlank' /\ SpawnsAlone' /\ FailuresLeft'
  BY DEF SupervisorInv, TypeOK, LayersOK, WorkersOK, ChildOK, OffIsBlank,
         SpawnsAlone, FailuresLeft, PlaneAt, PlaneStopTimeout, Panic, l1Vars,
         impVars, wkrVars, NoExit
<1>3. WorkersOK' /\ PortInv'
  BY DEF SupervisorInv, TypeOK, WorkersOK, ChildOK, PortInv, Serving,
         PlaneStopTimeout, Panic, l1Vars, impVars, wkrVars
<1>4. ChildOK' /\ QuietImport'
  BY DEF SupervisorInv, TypeOK, WorkersOK, ChildOK, PortInv, OffIsBlank,
         SpawnsAlone, QuietImport, SettledIn, Serving, PlaneStopTimeout,
         Panic, l1Vars, impVars, wkrVars, NoExit
<1>5. QED
  BY <1>1, <1>2, <1>3, <1>4 DEF SupervisorInv, TypeOK

LEMMA PlaneLeaveKeeps ==
  ASSUME SupervisorInv, PlaneLeave
  PROVE  SupervisorInv'
<1> USE SupervisorAssumption DEF SupervisorAssumption
<1>1. FlagsOK'
  BY DEF SupervisorInv, TypeOK, FlagsOK, PlaneLeave, PlaneDies, l1Vars,
         wkrVars, Success
<1>2. LayersOK' /\ OffIsBlank' /\ SpawnsAlone' /\ FailuresLeft'
  BY DEF SupervisorInv, TypeOK, LayersOK, WorkersOK, ChildOK, OffIsBlank,
         SpawnsAlone, FailuresLeft, PlaneAt, PlaneLeave, PlaneDies, l1Vars,
         wkrVars, Success, NoExit
<1>3. WorkersOK' /\ PortInv'
  BY DEF SupervisorInv, TypeOK, WorkersOK, ChildOK, PortInv, Serving,
         PlaneLeave, PlaneDies, l1Vars, wkrVars, Success
<1>4. ChildOK' /\ QuietImport'
  BY DEF SupervisorInv, TypeOK, WorkersOK, ChildOK, PortInv, OffIsBlank,
         SpawnsAlone, QuietImport, SettledIn, Serving, PlaneLeave, PlaneDies,
         l1Vars, wkrVars, Success, NoExit
<1>5. QED
  BY <1>1, <1>2, <1>3, <1>4 DEF SupervisorInv, TypeOK

LEMMA PlaneCrashKeeps ==
  ASSUME SupervisorInv, PlaneCrash
  PROVE  SupervisorInv'
<1> USE SupervisorAssumption DEF SupervisorAssumption
<1>1. FlagsOK'
  BY DEF SupervisorInv, TypeOK, FlagsOK, PlaneCrash, Fault, PlaneDies, Killed,
         l1Vars, wkrVars, Success
<1>2. LayersOK' /\ OffIsBlank' /\ SpawnsAlone' /\ FailuresLeft'
  BY DEF SupervisorInv, TypeOK, LayersOK, WorkersOK, ChildOK, OffIsBlank,
         SpawnsAlone, FailuresLeft, PlaneAt, PlaneCrash, Fault, PlaneDies,
         Killed, l1Vars, wkrVars, Success, NoExit
<1>3. WorkersOK' /\ PortInv'
  BY DEF SupervisorInv, TypeOK, WorkersOK, ChildOK, PortInv, Serving,
         PlaneCrash, Fault, PlaneDies, Killed, l1Vars, wkrVars, Success
<1>4. ChildOK' /\ QuietImport'
  BY DEF SupervisorInv, TypeOK, WorkersOK, ChildOK, PortInv, OffIsBlank,
         SpawnsAlone, QuietImport, SettledIn, Serving, PlaneCrash, Fault,
         PlaneDies, Killed, l1Vars, wkrVars, Success, NoExit
<1>5. QED
  BY <1>1, <1>2, <1>3, <1>4 DEF SupervisorInv, TypeOK

LEMMA CommandRestartKeeps ==
  ASSUME SupervisorInv, CommandRestart
  PROVE  SupervisorInv'
<1> USE SupervisorAssumption DEF SupervisorAssumption
<1>1. FlagsOK'
  BY DEF SupervisorInv, TypeOK, FlagsOK, CommandRestart, ControlGet, l1Vars,
         l2Vars, impVars
<1>2. LayersOK' /\ OffIsBlank' /\ SpawnsAlone' /\ FailuresLeft'
  BY DEF SupervisorInv, TypeOK, LayersOK, WorkersOK, ChildOK, OffIsBlank,
         SpawnsAlone, FailuresLeft, CommandRestart, ControlGet, l1Vars,
         l2Vars, impVars, NoExit
<1>3. WorkersOK'
  <2>1. ctl' \in [Workers -> Seq(Commands)]
    BY ControlGetTyped
    DEF SupervisorInv, TypeOK, WorkersOK, Commands, CommandRestart
  <2>2. QED BY <2>1
    DEF SupervisorInv, TypeOK, WorkersOK, CommandRestart, l1Vars, l2Vars,
        wkrVars
<1>4. PortInv'
  BY DEF SupervisorInv, TypeOK, WorkersOK, ChildOK, PortInv, Serving,
         CommandRestart, ControlGet, l1Vars, l2Vars, impVars
<1>5. ChildOK'
  BY DEF SupervisorInv, TypeOK, WorkersOK, ChildOK, SpawnsAlone, Serving,
         CommandRestart, ControlGet, l1Vars, l2Vars, impVars, NoExit
<1>6. QuietImport'
  <2>1. ASSUME imp = "run", quiet, plane = "forked"
        PROVE  SettledIn(paused'[child], ctl'[child])
    BY <2>1, ControlGetSettled
    DEF SupervisorInv, TypeOK, ChildOK, QuietImport, Commands, CommandRestart
  <2>2. QED BY <2>1
    DEF SupervisorInv, QuietImport, CommandRestart, l2Vars, impVars
<1>7. QED
  BY <1>1, <1>2, <1>3, <1>4, <1>5, <1>6 DEF SupervisorInv, TypeOK

LEMMA CommandKeeps ==
  ASSUME SupervisorInv, Command
  PROVE  SupervisorInv'
<1> USE SupervisorAssumption DEF SupervisorAssumption
<1>1. FlagsOK'
  BY DEF SupervisorInv, TypeOK, FlagsOK, Command, Fault, ControlGet, l1Vars,
         l2Vars
<1>2. LayersOK' /\ OffIsBlank' /\ SpawnsAlone' /\ FailuresLeft'
  BY DEF SupervisorInv, TypeOK, LayersOK, WorkersOK, ChildOK, OffIsBlank,
         SpawnsAlone, FailuresLeft, Command, Fault, ControlGet, l1Vars,
         l2Vars, NoExit
<1>3. WorkersOK'
  <2>1. ctl' \in [Workers -> Seq(Commands)]
    BY ControlGetTyped DEF SupervisorInv, TypeOK, WorkersOK, Commands, Command
  <2>2. QED BY <2>1
    DEF SupervisorInv, TypeOK, WorkersOK, Command, l1Vars, l2Vars, wkrVars
<1>4. PortInv'
  BY DEF SupervisorInv, TypeOK, WorkersOK, ChildOK, PortInv, Serving,
         Command, Fault, ControlGet, l1Vars, l2Vars
<1>5. ChildOK'
  BY DEF SupervisorInv, TypeOK, WorkersOK, ChildOK, SpawnsAlone, Serving,
         Command, Fault, ControlGet, l1Vars, l2Vars, NoExit
<1>6. QuietImport'
  <2>1. PICK c \in Commands \ {"restart"} : ControlGet(c) /\ quiet' = (quiet /\ c # "unpause")
    BY DEF Command
  <2>2. ASSUME imp = "run", quiet, c # "unpause", plane = "forked"
        PROVE  SettledIn(paused'[child], ctl'[child])
    BY <2>1, <2>2, ControlGetSettled
    DEF SupervisorInv, TypeOK, ChildOK, QuietImport, Command
  <2>3. quiet' => quiet /\ c # "unpause"
    BY <2>1
  <2>4. QED BY <2>2, <2>3 DEF SupervisorInv, QuietImport, Command, l2Vars
<1>7. QED
  BY <1>1, <1>2, <1>3, <1>4, <1>5, <1>6 DEF SupervisorInv, TypeOK

LEMMA ConfigureKeeps ==
  ASSUME SupervisorInv, Configure
  PROVE  SupervisorInv'
<1> USE SupervisorAssumption DEF SupervisorAssumption
<1>1. FlagsOK'
  BY DEF SupervisorInv, TypeOK, FlagsOK, Configure, Fault, l1Vars, l2Vars,
         wkrVars
<1>2. LayersOK' /\ OffIsBlank' /\ SpawnsAlone' /\ FailuresLeft'
  BY DEF SupervisorInv, TypeOK, LayersOK, WorkersOK, ChildOK, OffIsBlank,
         SpawnsAlone, FailuresLeft, Configure, Fault, l1Vars, l2Vars, wkrVars,
         NoExit
<1>3. WorkersOK' /\ PortInv'
  BY DEF SupervisorInv, TypeOK, WorkersOK, ChildOK, PortInv, Serving,
         Configure, Fault, l1Vars, l2Vars, wkrVars
<1>4. ChildOK' /\ QuietImport'
  BY DEF SupervisorInv, TypeOK, WorkersOK, ChildOK, PortInv, OffIsBlank,
         SpawnsAlone, QuietImport, SettledIn, Serving, Configure, Fault,
         l1Vars, l2Vars, wkrVars, NoExit
<1>5. QED
  BY <1>1, <1>2, <1>3, <1>4 DEF SupervisorInv, TypeOK

LEMMA ImportBeginKeeps ==
  ASSUME SupervisorInv, ImportBegin
  PROVE  SupervisorInv'
<1> USE SupervisorAssumption DEF SupervisorAssumption
<1>1. FlagsOK'
  BY DEF SupervisorInv, TypeOK, FlagsOK, ImportBegin, Fault, ControlGet,
         l1Vars, l2Vars
<1>2. LayersOK' /\ OffIsBlank' /\ SpawnsAlone' /\ FailuresLeft'
  BY DEF SupervisorInv, TypeOK, LayersOK, WorkersOK, ChildOK, OffIsBlank,
         SpawnsAlone, FailuresLeft, ImportBegin, Fault, ControlGet, l1Vars,
         l2Vars, NoExit
<1>3. WorkersOK'
  <2>1. ctl' \in [Workers -> Seq(Commands)]
    BY ControlGetTyped
    DEF SupervisorInv, TypeOK, WorkersOK, Commands, ImportBegin
  <2>2. QED BY <2>1
    DEF SupervisorInv, TypeOK, WorkersOK, ImportBegin, l1Vars, l2Vars,
        wkrVars
<1>4. PortInv'
  BY DEF SupervisorInv, TypeOK, WorkersOK, ChildOK, PortInv, Serving,
         ImportBegin, Fault, ControlGet, l1Vars, l2Vars
<1>5. ChildOK'
  BY DEF SupervisorInv, TypeOK, WorkersOK, ChildOK, SpawnsAlone, Serving,
         ImportBegin, Fault, ControlGet, l1Vars, l2Vars, NoExit
<1>6. QuietImport'
  <2>1. SUFFICES ASSUME quiet' PROVE QuietImport'
    BY DEF QuietImport
  <2>2. child # 0 /\ ctl'[child] # ctl[child]
    BY <2>1 DEF ImportBegin
  <2>3. child \in Workers /\ plane = "forked"
    BY <2>2 DEF SupervisorInv, TypeOK, ChildOK
  <2>4. /\ port # 0
        /\ ctl' = [ctl EXCEPT ![port] = Append(@, "pause")]
    BY <2>2 DEF ImportBegin, ControlGet
  <2>5. port \in Workers /\ worker[port] \in Serving
    BY <2>4 DEF SupervisorInv, TypeOK, WorkersOK, PortInv
  <2>6. child = port /\ ctl'[child] = Append(ctl[child], "pause")
    BY <2>2, <2>3, <2>4, <2>5 DEF SupervisorInv, TypeOK, WorkersOK
  <2>7. ctl[child] \in Seq(Commands)
    BY <2>3 DEF SupervisorInv, TypeOK, WorkersOK
  <2>8. SettledIn(paused'[child], ctl'[child])
    BY <2>6, <2>7, PauseSettles
  <2>9. QED BY <2>3, <2>5, <2>6, <2>8
    DEF QuietImport, Serving, ImportBegin, l2Vars
<1>7. QED
  BY <1>1, <1>2, <1>3, <1>4, <1>5, <1>6 DEF SupervisorInv, TypeOK

LEMMA ImportEndKeeps ==
  ASSUME SupervisorInv, ImportEnd
  PROVE  SupervisorInv'
<1> USE SupervisorAssumption DEF SupervisorAssumption
<1>1. FlagsOK'
  BY DEF SupervisorInv, TypeOK, FlagsOK, ImportEnd, ControlGet, l1Vars
<1>2. LayersOK' /\ OffIsBlank' /\ SpawnsAlone' /\ FailuresLeft'
  BY DEF SupervisorInv, TypeOK, LayersOK, WorkersOK, ChildOK, OffIsBlank,
         SpawnsAlone, FailuresLeft, ImportEnd, ControlGet, l1Vars, NoExit
<1>3. WorkersOK'
  <2>1. ctl' \in [Workers -> Seq(Commands)]
    BY ControlGetTyped
    DEF SupervisorInv, TypeOK, WorkersOK, Commands, ImportEnd
  <2>2. QED BY <2>1
    DEF SupervisorInv, TypeOK, WorkersOK, ImportEnd, l1Vars, l2Vars, wkrVars
<1>4. PortInv'
  BY DEF SupervisorInv, TypeOK, WorkersOK, ChildOK, PortInv, Serving,
         ImportEnd, ControlGet, l1Vars
<1>5. ChildOK' /\ QuietImport'
  BY DEF SupervisorInv, TypeOK, WorkersOK, ChildOK, PortInv, OffIsBlank,
         SpawnsAlone, QuietImport, SettledIn, Serving, ImportEnd, ControlGet,
         l1Vars, NoExit
<1>6. QED
  BY <1>1, <1>2, <1>3, <1>4, <1>5 DEF SupervisorInv, TypeOK

LEMMA ImportFailsKeeps ==
  ASSUME SupervisorInv, ImportFails
  PROVE  SupervisorInv'
<1> USE SupervisorAssumption DEF SupervisorAssumption
<1>1. FlagsOK'
  BY DEF SupervisorInv, TypeOK, FlagsOK, ImportFails, l1Vars, l2Vars, wkrVars
<1>2. LayersOK' /\ OffIsBlank' /\ SpawnsAlone' /\ FailuresLeft'
  BY DEF SupervisorInv, TypeOK, LayersOK, WorkersOK, ChildOK, OffIsBlank,
         SpawnsAlone, FailuresLeft, ImportFails, l1Vars, l2Vars, wkrVars,
         NoExit
<1>3. WorkersOK' /\ PortInv'
  BY DEF SupervisorInv, TypeOK, WorkersOK, ChildOK, PortInv, Serving,
         ImportFails, l1Vars, l2Vars, wkrVars
<1>4. ChildOK' /\ QuietImport'
  BY DEF SupervisorInv, TypeOK, WorkersOK, ChildOK, PortInv, OffIsBlank,
         SpawnsAlone, QuietImport, SettledIn, Serving, ImportFails, l1Vars,
         l2Vars, wkrVars, NoExit
<1>5. QED
  BY <1>1, <1>2, <1>3, <1>4 DEF SupervisorInv, TypeOK

LEMMA WorkerBootKeeps ==
  ASSUME SupervisorInv, WorkerBoot
  PROVE  SupervisorInv'
<1> USE SupervisorAssumption DEF SupervisorAssumption
<1>1. PICK i \in Workers :
        /\ worker[i] = "boot"
        /\ \/ /\ port = 0 /\ port' = i
              /\ worker' = [worker EXCEPT ![i] = "listen"]
              /\ UNCHANGED <<paused, wkrsig, wkrcode, ctl, plane, ec, child, faults>>
           \/ WorkerEnds(i, Error) /\ UNCHANGED faults
           \/ WorkerEnds(i, IncorrectUsage) /\ Fault
  BY DEF WorkerBoot
<1>2. FlagsOK'
  BY DEF SupervisorInv, TypeOK, FlagsOK, WorkerBoot, Fault, WorkerEnds, Error,
         IncorrectUsage, wkrRest, l1Vars, impVars, Success
<1>3. LayersOK'
  <2>1. CASE /\ port = 0 /\ port' = i
             /\ worker' = [worker EXCEPT ![i] = "listen"]
             /\ UNCHANGED <<paused, wkrsig, wkrcode, ctl, plane, ec, child, faults>>
    BY <1>1, <2>1
    DEF SupervisorInv, TypeOK, WorkersOK, ChildOK, WorkerBoot, WorkerEnds,
        Fault, wkrRest, l1Vars, impVars, LayersOK, PlaneAt, WrapperAt, Error,
        IncorrectUsage
  <2>2. CASE WorkerEnds(i, Error) /\ UNCHANGED faults
    BY <1>1, <2>2
    DEF SupervisorInv, TypeOK, WorkersOK, ChildOK, WorkerBoot, WorkerEnds,
        Fault, wkrRest, l1Vars, impVars, LayersOK, PlaneAt, WrapperAt, Error,
        IncorrectUsage
  <2>3. CASE WorkerEnds(i, IncorrectUsage) /\ Fault
    BY <1>1, <2>3
    DEF SupervisorInv, TypeOK, WorkersOK, ChildOK, WorkerBoot, WorkerEnds,
        Fault, wkrRest, l1Vars, impVars, LayersOK, PlaneAt, WrapperAt, Error,
        IncorrectUsage
  <2>4. QED BY <1>1, <2>1, <2>2, <2>3
<1>4. OffIsBlank' /\ SpawnsAlone'
  <2>1. CASE /\ port = 0 /\ port' = i
             /\ worker' = [worker EXCEPT ![i] = "listen"]
             /\ UNCHANGED <<paused, wkrsig, wkrcode, ctl, plane, ec, child, faults>>
    BY <1>1, <2>1
    DEF SupervisorInv, TypeOK, WorkersOK, ChildOK, WorkerBoot, WorkerEnds,
        Fault, wkrRest, l1Vars, impVars, OffIsBlank, SpawnsAlone, NoExit
  <2>2. CASE WorkerEnds(i, Error) /\ UNCHANGED faults
    BY <1>1, <2>2
    DEF SupervisorInv, TypeOK, WorkersOK, ChildOK, WorkerBoot, WorkerEnds,
        Fault, wkrRest, l1Vars, impVars, OffIsBlank, SpawnsAlone, NoExit
  <2>3. CASE WorkerEnds(i, IncorrectUsage) /\ Fault
    BY <1>1, <2>3
    DEF SupervisorInv, TypeOK, WorkersOK, ChildOK, WorkerBoot, WorkerEnds,
        Fault, wkrRest, l1Vars, impVars, OffIsBlank, SpawnsAlone, NoExit
  <2>4. QED BY <1>1, <2>1, <2>2, <2>3
<1>5. FailuresLeft'
  <2>1. CASE /\ port = 0 /\ port' = i
             /\ worker' = [worker EXCEPT ![i] = "listen"]
             /\ UNCHANGED <<paused, wkrsig, wkrcode, ctl, plane, ec, child, faults>>
    BY <1>1, <2>1
    DEF SupervisorInv, TypeOK, WorkersOK, ChildOK, WorkerBoot, WorkerEnds,
        Fault, wkrRest, l1Vars, impVars, FailuresLeft
  <2>2. CASE WorkerEnds(i, Error) /\ UNCHANGED faults
    BY <1>1, <2>2
    DEF SupervisorInv, TypeOK, WorkersOK, ChildOK, WorkerBoot, WorkerEnds,
        Fault, wkrRest, l1Vars, impVars, FailuresLeft
  <2>3. CASE WorkerEnds(i, IncorrectUsage) /\ Fault
    BY <1>1, <2>3
    DEF SupervisorInv, TypeOK, WorkersOK, ChildOK, WorkerBoot, WorkerEnds,
        Fault, wkrRest, l1Vars, impVars, FailuresLeft
  <2>4. QED BY <1>1, <2>1, <2>2, <2>3
<1>6. WorkersOK'
  <2>1. CASE /\ port = 0 /\ port' = i
             /\ worker' = [worker EXCEPT ![i] = "listen"]
             /\ UNCHANGED <<paused, wkrsig, wkrcode, ctl, plane, ec, child, faults>>
    BY <1>1, <2>1
    DEF SupervisorInv, TypeOK, WorkersOK, ChildOK, WorkerBoot, WorkerEnds,
        Fault, wkrRest, l1Vars, impVars, WorkerAt
  <2>2. CASE WorkerEnds(i, Error) /\ UNCHANGED faults
    BY <1>1, <2>2, WorkerEndsTyped DEF SupervisorInv, TypeOK
  <2>3. CASE WorkerEnds(i, IncorrectUsage) /\ Fault
    BY <1>1, <2>3, WorkerEndsTyped DEF SupervisorInv, TypeOK
  <2>4. QED BY <1>1, <2>1, <2>2, <2>3
<1>7. PortInv'
  <2>1. CASE /\ port = 0 /\ port' = i
             /\ worker' = [worker EXCEPT ![i] = "listen"]
             /\ UNCHANGED <<paused, wkrsig, wkrcode, ctl, plane, ec, child, faults>>
    BY <1>1, <2>1
    DEF SupervisorInv, TypeOK, WorkersOK, ChildOK, WorkerBoot, WorkerEnds,
        Fault, wkrRest, l1Vars, impVars, PortInv, Serving
  <2>2. CASE WorkerEnds(i, Error) /\ UNCHANGED faults
    BY <1>1, <2>2
    DEF SupervisorInv, TypeOK, WorkersOK, ChildOK, WorkerBoot, WorkerEnds,
        Fault, wkrRest, l1Vars, impVars, PortInv, Serving
  <2>3. CASE WorkerEnds(i, IncorrectUsage) /\ Fault
    BY <1>1, <2>3
    DEF SupervisorInv, TypeOK, WorkersOK, ChildOK, WorkerBoot, WorkerEnds,
        Fault, wkrRest, l1Vars, impVars, PortInv, Serving
  <2>4. QED BY <1>1, <2>1, <2>2, <2>3
<1>8. ChildOK'
  BY DEF SupervisorInv, TypeOK, WorkersOK, ChildOK, SpawnsAlone, Serving,
         WorkerBoot, Fault, WorkerEnds, Error, IncorrectUsage, wkrRest,
         l1Vars, impVars, Success, NoExit
<1>9. QuietImport'
  <2>1. CASE /\ port = 0 /\ port' = i
             /\ worker' = [worker EXCEPT ![i] = "listen"]
             /\ UNCHANGED <<paused, wkrsig, wkrcode, ctl, plane, ec, child, faults>>
    BY <1>1, <2>1
    DEF SupervisorInv, TypeOK, WorkersOK, ChildOK, WorkerBoot, WorkerEnds,
        Fault, wkrRest, l1Vars, impVars, QuietImport, Serving
  <2>2. CASE WorkerEnds(i, Error) /\ UNCHANGED faults
    BY <1>1, <2>2, WorkerEndsQuiet
    DEF SupervisorInv, TypeOK, WorkerBoot, wkrRest, impVars
  <2>3. CASE WorkerEnds(i, IncorrectUsage) /\ Fault
    BY <1>1, <2>3, WorkerEndsQuiet
    DEF SupervisorInv, TypeOK, WorkerBoot, wkrRest, impVars
  <2>4. QED BY <1>1, <2>1, <2>2, <2>3
<1>10. QED
  BY <1>2, <1>3, <1>4, <1>5, <1>6, <1>7, <1>8, <1>9 DEF SupervisorInv, TypeOK

LEMMA WorkerCreateKeeps ==
  ASSUME SupervisorInv, WorkerCreate
  PROVE  SupervisorInv'
<1> USE SupervisorAssumption DEF SupervisorAssumption
<1>1. FlagsOK'
  BY DEF SupervisorInv, TypeOK, FlagsOK, WorkerCreate, Fault, Leave, Error,
         wkrRest, l1Vars, impVars
<1>2. LayersOK' /\ OffIsBlank' /\ SpawnsAlone' /\ FailuresLeft'
  BY DEF SupervisorInv, TypeOK, LayersOK, WorkersOK, ChildOK, OffIsBlank,
         SpawnsAlone, FailuresLeft, WorkerCreate, Fault, Leave, Error,
         wkrRest, l1Vars, impVars, NoExit
<1>3. WorkersOK'
  <2>1. PICK i \in Workers :
          \/ worker' = [worker EXCEPT ![i] = "stream"] /\ UNCHANGED wkrcode
          \/ Leave(i, Error)
    BY DEF WorkerCreate
  <2>2. worker' \in [Workers -> WorkerAt] /\ wkrcode' \in [Workers -> 0 .. 9]
    <3>1. CASE worker' = [worker EXCEPT ![i] = "stream"] /\ UNCHANGED wkrcode
      BY <3>1 DEF SupervisorInv, TypeOK, WorkersOK, WorkerAt
    <3>2. CASE Leave(i, Error)
      BY <3>2, LeaveTyped DEF SupervisorInv, TypeOK, Error
    <3>3. QED BY <2>1, <3>1, <3>2
  <2>3. QED BY <2>2 DEF SupervisorInv, TypeOK, WorkersOK, WorkerCreate, Leave
<1>4. PortInv'
  BY DEF SupervisorInv, TypeOK, WorkersOK, ChildOK, PortInv, Serving,
         WorkerCreate, Fault, Leave, Error, wkrRest, l1Vars, impVars
<1>5. ChildOK' /\ QuietImport'
  BY DEF SupervisorInv, TypeOK, WorkersOK, ChildOK, PortInv, OffIsBlank,
         SpawnsAlone, QuietImport, SettledIn, Serving, WorkerCreate, Fault,
         Leave, Error, wkrRest, l1Vars, impVars, NoExit
<1>6. QED
  BY <1>1, <1>2, <1>3, <1>4, <1>5 DEF SupervisorInv, TypeOK

LEMMA WorkerControlKeeps ==
  ASSUME SupervisorInv, WorkerControl
  PROVE  SupervisorInv'
<1> USE SupervisorAssumption DEF SupervisorAssumption
<1>1. FlagsOK'
  BY DEF SupervisorInv, TypeOK, FlagsOK, WorkerControl, Leave, wkrRest,
         l1Vars, impVars, Success, Panic, Restart
<1>2. LayersOK' /\ OffIsBlank' /\ SpawnsAlone' /\ FailuresLeft'
  BY DEF SupervisorInv, TypeOK, LayersOK, WorkersOK, ChildOK, OffIsBlank,
         SpawnsAlone, FailuresLeft, WorkerControl, Leave, wkrRest, l1Vars,
         impVars, Success, Panic, Restart, NoExit
<1>3. WorkersOK'
  <2>1. PICK i \in Workers :
          /\ worker[i] = "stream"
          /\ ctl[i] # <<>>
          /\ ctl' = [ctl EXCEPT ![i] = Tail(@)]
          /\ paused' = paused \/ paused' = [paused EXCEPT ![i] = TRUE]
                              \/ paused' = [paused EXCEPT ![i] = FALSE]
          /\ UNCHANGED <<worker, wkrcode>> \/ Leave(i, Restart) \/ Leave(i, Success)
                                           \/ Leave(i, Panic)
    BY DEF WorkerControl
  <2>2. Tail(ctl[i]) \in Seq(Commands)
    BY <2>1 DEF SupervisorInv, TypeOK, WorkersOK
  <2>3. ctl' \in [Workers -> Seq(Commands)] /\ paused' \in [Workers -> BOOLEAN]
    BY <2>1, <2>2 DEF SupervisorInv, TypeOK, WorkersOK
  <2>4. worker' \in [Workers -> WorkerAt] /\ wkrcode' \in [Workers -> 0 .. 9]
    <3>1. CASE UNCHANGED <<worker, wkrcode>>
      BY <3>1 DEF SupervisorInv, TypeOK, WorkersOK
    <3>2. ASSUME NEW code \in 0 .. 9, Leave(i, code)
          PROVE  worker' \in [Workers -> WorkerAt] /\ wkrcode' \in [Workers -> 0 .. 9]
      BY <3>2, LeaveTyped DEF SupervisorInv, TypeOK
    <3>3. QED BY <2>1, <3>1, <3>2 DEF Restart, Success, Panic
  <2>5. QED BY <2>3, <2>4
    DEF SupervisorInv, TypeOK, WorkersOK, WorkerControl, Leave
<1>4. PortInv'
  BY DEF SupervisorInv, TypeOK, WorkersOK, ChildOK, PortInv, Serving,
         WorkerControl, Leave, wkrRest, l1Vars, impVars, Success, Panic,
         Restart
<1>5. ChildOK'
  BY DEF SupervisorInv, TypeOK, WorkersOK, ChildOK, SpawnsAlone,
         WorkerControl, Leave, wkrRest, l1Vars, impVars, Success, Panic,
         Restart, NoExit
<1>6. QuietImport'
  <2>1. SUFFICES ASSUME imp = "run", quiet PROVE QuietImport'
    BY DEF QuietImport, WorkerControl, wkrRest, impVars
  <2>2. PICK i \in Workers :
          /\ worker[i] = "stream"
          /\ ctl[i] # <<>>
          /\ ctl' = [ctl EXCEPT ![i] = Tail(@)]
          /\ worker' = worker \/ worker' = [worker EXCEPT ![i] = "drain"]
          /\ \/ Head(ctl[i]) = "pause" /\ paused' = [paused EXCEPT ![i] = TRUE]
             \/ Head(ctl[i]) = "unpause" /\ paused' = [paused EXCEPT ![i] = FALSE]
             \/ Head(ctl[i]) = "unpause" /\ paused' = paused
             \/ Head(ctl[i]) \notin {"pause", "unpause"} /\ paused' = paused
    BY DEF WorkerControl, Leave
  <2>3. CASE plane # "forked"
    BY <2>1, <2>3 DEF SupervisorInv, QuietImport, WorkerControl, wkrRest
  <2>4. CASE plane = "forked"
    <3>1. /\ child \in Workers
          /\ worker[child] \in {"listen", "stream", "drain", "closing"}
          /\ SettledIn(paused[child], ctl[child])
          /\ runner
      BY <2>1, <2>4 DEF SupervisorInv, TypeOK, ChildOK, QuietImport
    <3>2. worker'[child] \in {"listen", "stream", "drain", "closing"}
      BY <2>2, <3>1 DEF SupervisorInv, TypeOK, WorkersOK
    <3>3. CASE child # i
      <4>1. paused'[child] = paused[child] /\ ctl'[child] = ctl[child]
        BY <2>2, <3>1, <3>3 DEF SupervisorInv, TypeOK, WorkersOK
      <4>2. QED BY <2>4, <3>1, <3>2, <4>1
        DEF QuietImport, WorkerControl, wkrRest
    <3>4. CASE child = i
      <4>1. ctl[i] \in Seq(Commands) /\ ctl'[i] = Tail(ctl[i])
        BY <2>2 DEF SupervisorInv, TypeOK, WorkersOK
      <4>2. /\ Head(ctl[i]) = "pause" => paused'[i]
            /\ Head(ctl[i]) \notin {"pause", "unpause"} => (paused[i] => paused'[i])
        BY <2>2 DEF SupervisorInv, TypeOK, WorkersOK
      <4>3. SettledIn(paused'[i], ctl'[i])
        BY <2>2, <3>1, <3>4, <4>1, <4>2, SettledTail
      <4>4. QED BY <2>4, <3>1, <3>2, <3>4, <4>3
        DEF QuietImport, WorkerControl, wkrRest
    <3>5. QED BY <3>3, <3>4
  <2>5. QED BY <2>3, <2>4
<1>7. QED
  BY <1>1, <1>2, <1>3, <1>4, <1>5, <1>6 DEF SupervisorInv, TypeOK

LEMMA WorkerFailsKeeps ==
  ASSUME SupervisorInv, WorkerFails
  PROVE  SupervisorInv'
<1> USE SupervisorAssumption DEF SupervisorAssumption
<1>1. FlagsOK'
  BY DEF SupervisorInv, TypeOK, FlagsOK, WorkerFails, Fault, Leave, Error,
         wkrRest, l1Vars, impVars
<1>2. LayersOK' /\ OffIsBlank' /\ SpawnsAlone' /\ FailuresLeft'
  BY DEF SupervisorInv, TypeOK, LayersOK, WorkersOK, ChildOK, OffIsBlank,
         SpawnsAlone, FailuresLeft, WorkerFails, Fault, Leave, Error, wkrRest,
         l1Vars, impVars, NoExit
<1>3. WorkersOK' /\ PortInv'
  BY DEF SupervisorInv, TypeOK, WorkersOK, ChildOK, PortInv, WorkerAt,
         Serving, WorkerFails, Fault, Leave, Error, wkrRest, l1Vars, impVars
<1>4. ChildOK' /\ QuietImport'
  BY DEF SupervisorInv, TypeOK, WorkersOK, ChildOK, PortInv, OffIsBlank,
         SpawnsAlone, QuietImport, SettledIn, Serving, WorkerFails, Fault,
         Leave, Error, wkrRest, l1Vars, impVars, NoExit
<1>5. QED
  BY <1>1, <1>2, <1>3, <1>4 DEF SupervisorInv, TypeOK

LEMMA WorkerDisconnectsKeeps ==
  ASSUME SupervisorInv, WorkerDisconnects
  PROVE  SupervisorInv'
<1> USE SupervisorAssumption DEF SupervisorAssumption
<1>1. FlagsOK'
  BY DEF SupervisorInv, TypeOK, FlagsOK, WorkerDisconnects, Leave, wkrRest,
         l1Vars, impVars, NatsDisconnected
<1>2. LayersOK' /\ OffIsBlank' /\ SpawnsAlone' /\ FailuresLeft'
  BY DEF SupervisorInv, TypeOK, LayersOK, WorkersOK, ChildOK, OffIsBlank,
         SpawnsAlone, FailuresLeft, WorkerDisconnects, Leave, wkrRest, l1Vars,
         impVars, NatsDisconnected, NoExit
<1>3. WorkersOK' /\ PortInv'
  BY DEF SupervisorInv, TypeOK, WorkersOK, ChildOK, PortInv, WorkerAt,
         Serving, WorkerDisconnects, Leave, wkrRest, l1Vars, impVars,
         NatsDisconnected
<1>4. ChildOK' /\ QuietImport'
  BY DEF SupervisorInv, TypeOK, WorkersOK, ChildOK, PortInv, OffIsBlank,
         SpawnsAlone, QuietImport, SettledIn, Serving, WorkerDisconnects,
         Leave, wkrRest, l1Vars, impVars, NatsDisconnected, NoExit
<1>5. QED
  BY <1>1, <1>2, <1>3, <1>4 DEF SupervisorInv, TypeOK

LEMMA WorkerSignalKeeps ==
  ASSUME SupervisorInv, WorkerSignal
  PROVE  SupervisorInv'
<1> USE SupervisorAssumption DEF SupervisorAssumption
<1>1. FlagsOK'
  BY DEF SupervisorInv, TypeOK, FlagsOK, WorkerSignal, Leave, wkrRest, l1Vars,
         impVars, Success
<1>2. LayersOK' /\ OffIsBlank' /\ SpawnsAlone' /\ FailuresLeft'
  BY DEF SupervisorInv, TypeOK, LayersOK, WorkersOK, ChildOK, OffIsBlank,
         SpawnsAlone, FailuresLeft, WorkerSignal, Leave, wkrRest, l1Vars,
         impVars, Success, NoExit
<1>3. WorkersOK' /\ PortInv'
  BY DEF SupervisorInv, TypeOK, WorkersOK, ChildOK, PortInv, WorkerAt,
         Serving, WorkerSignal, Leave, wkrRest, l1Vars, impVars, Success
<1>4. ChildOK' /\ QuietImport'
  BY DEF SupervisorInv, TypeOK, WorkersOK, ChildOK, PortInv, OffIsBlank,
         SpawnsAlone, QuietImport, SettledIn, Serving, WorkerSignal, Leave,
         wkrRest, l1Vars, impVars, Success, NoExit
<1>5. QED
  BY <1>1, <1>2, <1>3, <1>4 DEF SupervisorInv, TypeOK

LEMMA WorkerReleaseKeeps ==
  ASSUME SupervisorInv, WorkerRelease
  PROVE  SupervisorInv'
<1> USE SupervisorAssumption DEF SupervisorAssumption
<1>1. FlagsOK'
  BY DEF SupervisorInv, TypeOK, FlagsOK, WorkerRelease, wkrRest, l1Vars,
         impVars
<1>2. LayersOK' /\ OffIsBlank' /\ SpawnsAlone' /\ FailuresLeft'
  BY DEF SupervisorInv, TypeOK, LayersOK, WorkersOK, ChildOK, OffIsBlank,
         SpawnsAlone, FailuresLeft, WorkerRelease, wkrRest, l1Vars, impVars,
         NoExit
<1>3. WorkersOK' /\ PortInv'
  BY DEF SupervisorInv, TypeOK, WorkersOK, ChildOK, PortInv, WorkerAt,
         Serving, WorkerRelease, wkrRest, l1Vars, impVars
<1>4. ChildOK' /\ QuietImport'
  BY DEF SupervisorInv, TypeOK, WorkersOK, ChildOK, PortInv, OffIsBlank,
         SpawnsAlone, QuietImport, SettledIn, Serving, WorkerRelease, wkrRest,
         l1Vars, impVars, NoExit
<1>5. QED
  BY <1>1, <1>2, <1>3, <1>4 DEF SupervisorInv, TypeOK

LEMMA WorkerExitKeeps ==
  ASSUME SupervisorInv, WorkerExit
  PROVE  SupervisorInv'
<1> USE SupervisorAssumption DEF SupervisorAssumption
<1>1. FlagsOK'
  BY DEF SupervisorInv, TypeOK, FlagsOK, WorkerExit, WorkerEnds, wkrRest,
         l1Vars, impVars, Success
<1>2. LayersOK' /\ OffIsBlank' /\ SpawnsAlone' /\ FailuresLeft'
  BY DEF SupervisorInv, TypeOK, LayersOK, WorkersOK, ChildOK, OffIsBlank,
         SpawnsAlone, FailuresLeft, PlaneAt, WorkerExit, WorkerEnds, wkrRest,
         l1Vars, impVars, Success, NoExit
<1>3. WorkersOK' /\ PortInv'
  BY DEF SupervisorInv, TypeOK, WorkersOK, ChildOK, PortInv, WorkerAt,
         Commands, Serving, WorkerExit, WorkerEnds, wkrRest, l1Vars, impVars,
         Success
<1>4. ChildOK'
  BY DEF SupervisorInv, TypeOK, WorkersOK, ChildOK, SpawnsAlone, WorkerExit,
         WorkerEnds, wkrRest, l1Vars, impVars, Success, NoExit
<1>5. QuietImport'
  BY WorkerEndsQuiet DEF SupervisorInv, TypeOK, WorkerExit, wkrRest, impVars
<1>6. QED
  BY <1>1, <1>2, <1>3, <1>4, <1>5 DEF SupervisorInv, TypeOK

LEMMA WorkerCrashKeeps ==
  ASSUME SupervisorInv, WorkerCrash
  PROVE  SupervisorInv'
<1> USE SupervisorAssumption DEF SupervisorAssumption
<1>1. FlagsOK'
  BY DEF SupervisorInv, TypeOK, FlagsOK, WorkerCrash, Fault, WorkerEnds,
         wkrRest, l1Vars, impVars, Success, Killed
<1>2. LayersOK' /\ OffIsBlank' /\ SpawnsAlone' /\ FailuresLeft'
  BY DEF SupervisorInv, TypeOK, LayersOK, WorkersOK, ChildOK, OffIsBlank,
         SpawnsAlone, FailuresLeft, PlaneAt, WorkerCrash, Fault, WorkerEnds,
         wkrRest, l1Vars, impVars, Success, Killed, NoExit
<1>3. WorkersOK' /\ PortInv'
  BY DEF SupervisorInv, TypeOK, WorkersOK, ChildOK, PortInv, WorkerAt,
         Commands, Serving, WorkerCrash, Fault, WorkerEnds, wkrRest, l1Vars,
         impVars, Success, Killed
<1>4. ChildOK'
  BY DEF SupervisorInv, TypeOK, WorkersOK, ChildOK, SpawnsAlone, WorkerCrash,
         Fault, WorkerEnds, wkrRest, l1Vars, impVars, Success, Killed, NoExit
<1>5. QuietImport'
  BY WorkerEndsQuiet DEF SupervisorInv, TypeOK, WorkerCrash, wkrRest, impVars
<1>6. QED
  BY <1>1, <1>2, <1>3, <1>4, <1>5 DEF SupervisorInv, TypeOK

LEMMA SignalAllKeeps ==
  ASSUME SupervisorInv, SignalAll
  PROVE  SupervisorInv'
<1> USE SupervisorAssumption DEF SupervisorAssumption
<1>1. FlagsOK'
  BY DEF SupervisorInv, TypeOK, FlagsOK, SignalAll, HasHandler, Fault, impVars, Killed
<1>2. LayersOK'
  BY DEF SupervisorInv, TypeOK, LayersOK, WorkersOK, FailuresLeft, PlaneAt,
         SignalAll, HasHandler, Fault, impVars, Killed
<1>3. OffIsBlank' /\ SpawnsAlone'
  BY DEF SupervisorInv, TypeOK, LayersOK, ChildOK, OffIsBlank, SpawnsAlone,
         PlaneAt, SignalAll, HasHandler, Fault, impVars, Killed, NoExit
<1>4. FailuresLeft'
  BY DEF SupervisorInv, TypeOK, LayersOK, ChildOK, OffIsBlank, SpawnsAlone,
         FailuresLeft, SignalAll, HasHandler, Fault, impVars, Killed, NoExit
<1>5. WorkersOK'
  BY DEF SupervisorInv, TypeOK, WorkersOK, WorkerAt, SignalAll, HasHandler, Serving
<1>6. PortInv'
  BY DEF SupervisorInv, TypeOK, WorkersOK, ChildOK, PortInv, Serving,
         SignalAll, HasHandler, Fault, impVars, Killed
<1>7. ChildOK'
  BY DEF SupervisorInv, TypeOK, WorkersOK, ChildOK, SignalAll, HasHandler
<1>8. QuietImport'
  <2>1. CASE child # 0 /\ ~HasHandler(child)
    BY <2>1 DEF SupervisorInv, TypeOK, ChildOK, QuietImport, SignalAll, impVars
  <2>2. CASE ~(child # 0 /\ ~HasHandler(child)) /\ plane = "forked"
    <3>1. /\ child \in Workers /\ worker'[child] = worker[child]
          /\ paused' = paused /\ ctl' = ctl /\ UNCHANGED <<plane, child>>
      BY <2>2 DEF SupervisorInv, TypeOK, ChildOK, SignalAll
    <3>2. QED BY <3>1 DEF SupervisorInv, QuietImport, SignalAll, impVars
  <2>3. CASE ~(child # 0 /\ ~HasHandler(child)) /\ plane # "forked"
    BY <2>3 DEF SupervisorInv, QuietImport, SignalAll, impVars
  <2>4. QED BY <2>1, <2>2, <2>3
<1>9. QED
  BY <1>1, <1>2, <1>3, <1>4, <1>5, <1>6, <1>7, <1>8 DEF SupervisorInv, TypeOK

LEMMA SignalWrapperKeeps ==
  ASSUME SupervisorInv, SignalWrapper
  PROVE  SupervisorInv'
<1> USE SupervisorAssumption DEF SupervisorAssumption
<1>1. FlagsOK'
  BY DEF SupervisorInv, TypeOK, FlagsOK, SignalWrapper, Fault, l2Vars,
         impVars, wkrVars
<1>2. LayersOK' /\ OffIsBlank' /\ SpawnsAlone' /\ FailuresLeft'
  BY DEF SupervisorInv, TypeOK, LayersOK, WorkersOK, ChildOK, OffIsBlank,
         SpawnsAlone, FailuresLeft, SignalWrapper, Fault, l2Vars, impVars,
         wkrVars, NoExit
<1>3. WorkersOK' /\ PortInv'
  BY DEF SupervisorInv, TypeOK, WorkersOK, ChildOK, PortInv, Serving,
         SignalWrapper, Fault, l2Vars, impVars, wkrVars
<1>4. ChildOK' /\ QuietImport'
  BY DEF SupervisorInv, TypeOK, WorkersOK, ChildOK, PortInv, OffIsBlank,
         SpawnsAlone, QuietImport, SettledIn, Serving, SignalWrapper, Fault,
         l2Vars, impVars, wkrVars, NoExit
<1>5. QED
  BY <1>1, <1>2, <1>3, <1>4 DEF SupervisorInv, TypeOK

-----------------------------------------------------------------------------
(* The theorems. *)

LEMMA InitInv ==
  Init => SupervisorInv
<1>1. SUFFICES ASSUME Init PROVE SupervisorInv
  OBVIOUS
<1>2. FlagsOK
  BY <1>1 DEF Init, FlagsOK
<1>3. LayersOK /\ FailuresLeft
  BY <1>1, SupervisorAssumption
  DEF SupervisorAssumption, Init, LayersOK, FailuresLeft, WrapperAt, PlaneAt,
      Success, Error, NoExit
<1>4. WorkersOK
  BY <1>1 DEF Init, WorkersOK, WorkerAt, Success
<1>5. ChildOK /\ PortInv /\ OffIsBlank /\ SpawnsAlone /\ QuietImport
  BY <1>1
  DEF Init, ChildOK, PortInv, Serving, OffIsBlank, SpawnsAlone, QuietImport
<1>6. QED BY <1>2, <1>3, <1>4, <1>5 DEF SupervisorInv, TypeOK

LEMMA StutterKeeps ==
  SupervisorInv /\ UNCHANGED vars => SupervisorInv'
BY DEF SupervisorInv, TypeOK, FlagsOK, LayersOK, WorkersOK, ChildOK, PortInv,
       Serving, OffIsBlank, SpawnsAlone, FailuresLeft, QuietImport, SettledIn,
       vars, l1Vars, l2Vars, impVars, wkrVars

LEMMA NextKeeps ==
  SupervisorInv /\ [Next]_vars => SupervisorInv'
<1>1. SUFFICES ASSUME SupervisorInv, [Next]_vars PROVE SupervisorInv'
  OBVIOUS
<1>2. CASE LayerOneStep
  BY <1>1, <1>2, WrapperSpawnKeeps, WrapperExitedKeeps, WrapperShutdownKeeps,
     WrapperChildGoneKeeps, WrapperTerminateKeeps, WrapperKillKeeps
  DEF LayerOneStep
<1>3. CASE LayerTwoStep
  BY <1>1, <1>3, PlaneStartKeeps, PlaneNotifyKeeps, PlaneConfiguredKeeps,
     PlaneUnconfiguredShutdownKeeps, PlaneForkKeeps, PlaneWatchKeeps,
     PlaneDecideKeeps, PlaneStopKeeps, PlaneStopTimeoutKeeps, PlaneLeaveKeeps
  DEF LayerTwoStep, OutsideStep, LocalStep
<1>4. CASE WorkerStep
  BY <1>1, <1>4, WorkerBootKeeps, WorkerCreateKeeps, WorkerControlKeeps,
     WorkerSignalKeeps, WorkerReleaseKeeps, WorkerExitKeeps
  DEF WorkerStep
<1>5. CASE Environment
  BY <1>1, <1>5, PlaneCrashKeeps, WorkerFailsKeeps, WorkerDisconnectsKeeps,
     WorkerCrashKeeps, CommandRestartKeeps, CommandKeeps, ConfigureKeeps,
     ImportBeginKeeps, ImportEndKeeps, ImportFailsKeeps, SignalAllKeeps,
     SignalWrapperKeeps
  DEF Environment
<1>6. CASE UNCHANGED vars
  BY <1>1, <1>6, StutterKeeps
<1>7. QED BY <1>1, <1>2, <1>3, <1>4, <1>5, <1>6 DEF Next

(* The inductive invariant holds in every behaviour of the process tree.    *)
LEMMA Invariant ==
  Spec => []SupervisorInv
<1>1. QED BY InitInv, NextKeeps, PTL DEF Spec

(* Every variable of wrapper, control plane and workers keeps its type, and *)
(* fork() waits for a worker that exists (server.py, util/process.py).      *)
THEOREM SupervisorTypeCorrect ==
  Spec => []TypeOK
<1>1. SupervisorInv => TypeOK
  BY DEF SupervisorInv
<1>2. QED BY <1>1, Invariant, PTL

(* However many control planes crash and leave a worker behind, at most one *)
(* worker streams or drains at a time (fork.py binds its port first).       *)
THEOREM OneStreamAlways ==
  Spec => []OneStream
<1>1. SupervisorInv => OneStream
  BY DEF SupervisorInv, PortInv, Serving, OneStream
<1>2. QED BY <1>1, Invariant, PTL

(* A pause that reached the child holds until its import ends: neither the  *)
(* child nor a successor streams meanwhile (import_action, runner.stop()).  *)
THEOREM PauseAlwaysHolds ==
  Spec => []PauseHolds
<1>1. SupervisorInv => PauseHolds
  <2>1. SUFFICES ASSUME SupervisorInv, imp = "run", quiet, child # 0
        PROVE  PauseHolds
    BY DEF PauseHolds
  <2>2. /\ worker[child] \in {"listen", "stream", "drain", "closing"}
        /\ SettledIn(paused[child], ctl[child])
    BY <2>1 DEF SupervisorInv, TypeOK, ChildOK, QuietImport
  <2>3. paused[child] \/ \E k \in 1 .. Len(ctl[child]) : ctl[child][k] = "pause"
    BY <2>2 DEF SettledIn
  <2>4. QED BY <2>2, <2>3 DEF PauseHolds
<1>2. QED BY <1>1, Invariant, PTL
=============================================================================
