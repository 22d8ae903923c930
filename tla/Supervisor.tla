----------------------------- MODULE Supervisor -----------------------------
(***************************************************************************)
(* The process tree of `eds server` (eds/cmd/server.py, util/process.py,   *)
(* cmd/fork.py, cmd/notification_wiring.py): the wrapper (layer 1) keeps a *)
(* control plane (layer 2) running, which opens a session, listens for     *)
(* remote commands and forks one worker at a time; the worker serves a     *)
(* loopback control port.  A command is a loopback request from a handler  *)
(* of the control plane to whoever listens on that port.                   *)
(*                                                                         *)
(* The port is exclusive, as on POSIX systems (the server sets             *)
(* SO_REUSEADDR, which on Windows lets a second process bind it).          *)
(*                                                                         *)
(* Sleeps and timeouts are choices.  Not modelled: /restart of the wrapper *)
(* (nothing calls it yet), --no-restart, and how a session is opened,      *)
(* except that it can fail.                                                *)
(***************************************************************************)
EXTENDS Naturals, Sequences, FiniteSets

CONSTANTS
  Workers,      \* slots for worker processes, orphans among them
  MaxFailures,  \* MAX_FAILURES, 5 in the code
  MaxCtl,       \* bound: commands waiting in a worker
  MaxFaults     \* bound: failures, crashes, signals and remote commands
                \* (restarts and lost connections are unbounded)

ASSUME SupervisorAssumption ==
  /\ Workers # {} /\ 0 \notin Workers
  /\ MaxFailures \in Nat \ {0}
  /\ MaxCtl \in Nat \ {0}
  /\ MaxFaults \in Nat

VARIABLES
  wrapper,    \* layer 1: where it is
  wfails,     \* layer 1: failures
  wcode,      \* layer 1: exit_code
  wsig,       \* layer 1: the shutdown event, not yet taken
  plane,      \* layer 2: where it is, or "off"
  psig,       \* layer 2: its ShutdownSignal is set
  fails,      \* layer 2: failures
  ec,         \* layer 2: exit code of the last worker, or its own when leaving
  leaving,    \* layer 2: it leaves once the notification runner has stopped
  child,      \* layer 2: the worker fork() waits for, or 0
  configured, \* layer 2: ctx.configured
  runner,     \* layer 2: the NotificationRunner is subscribed
  event,      \* layer 2: configure_event
  pexit,      \* the exit code of layer 2 the waiter thread has posted, or 10
  url,        \* config.toml has a driver url
  imp,        \* `eds import`: "none", "run", or "orphan" without its handler
  quiet,      \* history: the pause before that import reached the child
  worker,     \* worker processes: where they are, or "none"
  paused,     \* worker: paused
  wkrsig,     \* worker: its ShutdownSignal is set
  wkrcode,    \* worker: exit_code
  ctl,        \* worker: the control queue
  port,       \* the worker whose loopback server holds the port, or 0
  signalled,  \* history: who got SIGINT or SIGTERM: "none", "all", "wrapper"
  faults

l1Vars == <<wrapper, wfails, wcode, wsig>>
l2Vars == <<plane, psig, fails, ec, leaving, child, configured, runner, event>>
impVars == <<url, imp, quiet>>
wkrVars == <<worker, paused, wkrsig, wkrcode, ctl, port>>
vars == <<l1Vars, l2Vars, pexit, impVars, wkrVars, signalled, faults>>

(* Exit codes (cmd/exit_codes.py); Killed stands for death by a signal. *)
Success == 0
Error == 1
Panic == 2
IncorrectUsage == 3
Restart == 4
NatsDisconnected == 5
Killed == 9
NoExit == 10

Commands == {"restart", "pause", "unpause", "shutdown"}
WrapperAt == {"spawn", "run", "wait", "terminate", "ended"}
PlaneAt == {"off", "start", "notify", "unconfigured", "fork", "forked",
            "decide", "stop", "leave"}
WorkerAt == {"none", "boot", "listen", "stream", "drain", "closing"}

Fault == faults > 0 /\ faults' = faults - 1

Init ==
  /\ wrapper = "spawn" /\ wfails = 0 /\ wcode = Error /\ wsig = FALSE
  /\ plane = "off" /\ psig = FALSE /\ fails = 0 /\ ec = Success
  /\ leaving = FALSE /\ child = 0 /\ configured = FALSE /\ runner = FALSE
  /\ event = FALSE
  /\ pexit = NoExit
  /\ url \in BOOLEAN /\ imp = "none" /\ quiet = FALSE
  /\ worker = [i \in Workers |-> "none"]
  /\ paused = [i \in Workers |-> FALSE]
  /\ wkrsig = [i \in Workers |-> FALSE]
  /\ wkrcode = [i \in Workers |-> Success]
  /\ ctl = [i \in Workers |-> <<>>]
  /\ port = 0
  /\ signalled = "none"
  /\ faults = MaxFaults

-----------------------------------------------------------------------------
(* Layer 1: _run_wrapper_loop. *)

(* A fresh control plane; a saved url makes it configured. *)
WrapperSpawn ==
  /\ wrapper = "spawn"
  /\ wrapper' = "run"
  /\ plane' = "start" /\ configured' = url
  /\ UNCHANGED <<wfails, wcode, wsig, psig, fails, ec, leaving, child, runner,
                 event, pexit, impVars, wkrVars, signalled, faults>>

(* ("exited", code): 0 and 1 end the server, anything else is a failure.    *)
WrapperExited ==
  /\ wrapper = "run"
  /\ pexit # NoExit
  /\ pexit' = NoExit
  /\ wcode' = pexit
  /\ IF pexit \in {Success, Error}
     THEN wrapper' = "ended" /\ UNCHANGED wfails
     ELSE /\ wfails' = wfails + 1
          /\ wrapper' = IF wfails + 1 < MaxFailures THEN "spawn" ELSE "ended"
  /\ UNCHANGED <<wsig, l2Vars, impVars, wkrVars, signalled, faults>>

(* ("shutdown", 0): the child has thirty seconds to leave by itself. *)
WrapperShutdown ==
  /\ wrapper = "run"
  /\ wsig
  /\ wsig' = FALSE
  /\ wrapper' = "wait"
  /\ UNCHANGED <<wfails, wcode, l2Vars, pexit, impVars, wkrVars, signalled, faults>>

WrapperChildGone ==
  /\ wrapper \in {"wait", "terminate"}
  /\ plane = "off"
  /\ wrapper' = "ended"
  /\ wcode' = Success
  /\ UNCHANGED <<wfails, wsig, l2Vars, pexit, impVars, wkrVars, signalled, faults>>

(* Mutant: the child is asked to end and waited for without a limit. *)
MutantTerminateAsks ==
  /\ wrapper = "wait"
  /\ plane # "off"
  /\ ~psig
  /\ psig' = TRUE
  /\ UNCHANGED <<l1Vars, plane, fails, ec, leaving, child, configured, runner,
                 event, pexit, impVars, wkrVars, signalled, faults>>

(* _terminate: SIGTERM, and SIGKILL ten seconds later. *)
WrapperTerminate ==
  /\ wrapper = "wait"
  /\ plane # "off"
  /\ wrapper' = "terminate"
  /\ psig' = TRUE
  /\ UNCHANGED <<wfails, wcode, wsig, plane, fails, ec, leaving, child,
                 configured, runner, event, pexit, impVars, wkrVars, signalled, faults>>

(* The control plane dies: its handlers die with it, its worker and its     *)
(* import do not.                                                           *)
PlaneDies(code) ==
  /\ plane' = "off" /\ psig' = FALSE /\ fails' = 0 /\ ec' = Success
  /\ leaving' = FALSE /\ child' = 0 /\ configured' = FALSE /\ runner' = FALSE
  /\ event' = FALSE
  /\ pexit' = code
  /\ imp' = IF imp = "run" THEN "orphan" ELSE imp
  /\ quiet' = FALSE
  /\ UNCHANGED url

WrapperKill ==
  /\ wrapper = "terminate"
  /\ plane # "off"
  /\ wrapper' = "ended"
  /\ wcode' = Success
  /\ PlaneDies(Killed)
  /\ UNCHANGED <<wfails, wsig, wkrVars, signalled, faults>>

-----------------------------------------------------------------------------
(* Layer 2: _run_control_plane. *)

(* send_start: a session, or an error that is fatal.  While the service     *)
(* answers that another server runs, the loop keeps asking.                 *)
PlaneStart ==
  /\ plane = "start"
  /\ \/ plane' = "notify" /\ UNCHANGED <<ec, leaving, faults>>
     \/ Fault /\ plane' = "leave" /\ ec' = Error /\ leaving' = TRUE
  /\ UNCHANGED <<l1Vars, psig, fails, child, configured, runner, event, pexit,
                 impVars, wkrVars, signalled>>

(* NotificationRunner.start.  Without a connection the session is retried;  *)
(* after any other error the worker runs without remote control.            *)
PlaneNotify ==
  /\ plane = "notify"
  /\ \/ /\ runner' = TRUE
        /\ plane' = IF configured THEN "fork" ELSE "unconfigured"
        /\ UNCHANGED faults
     \/ /\ Fault /\ runner' = FALSE
        /\ plane' \in {"start", IF configured THEN "fork" ELSE "unconfigured"}
  /\ UNCHANGED <<l1Vars, psig, fails, ec, leaving, child, configured, event,
                 pexit, impVars, wkrVars, signalled>>

(* An unconfigured server waits for configure and import, or for a signal.  *)
PlaneConfigured ==
  /\ plane = "unconfigured"
  /\ event
  /\ configured' = TRUE
  /\ plane' = "fork"
  /\ UNCHANGED <<l1Vars, psig, fails, ec, leaving, child, runner, event, pexit,
                 impVars, wkrVars, signalled, faults>>

PlaneUnconfiguredShutdown ==
  /\ plane = "unconfigured"
  /\ psig
  /\ plane' = "stop" /\ leaving' = TRUE /\ ec' = Success
  /\ UNCHANGED <<l1Vars, psig, fails, child, configured, runner, event, pexit,
                 impVars, wkrVars, signalled, faults>>

(* ctx.fork_running *)
ForkRunning == plane \in {"fork", "forked"}

(* Slots are names: which free one a new process gets does not matter. *)
FreeSlot == CHOOSE i \in Workers : worker[i] = "none"

(* fork(): a worker process, or a failure. *)
PlaneFork ==
  /\ plane = "fork"
  /\ \/ \E i \in Workers :
          /\ i = FreeSlot /\ worker[i] = "none"
          /\ worker' = [worker EXCEPT ![i] = "boot"]
          /\ child' = i
          /\ plane' = "forked"
          /\ UNCHANGED <<fails, paused, wkrsig, wkrcode, ctl, port, faults>>
     \/ /\ Fault
        /\ fails' = fails + 1
        /\ plane' = "stop"
        /\ UNCHANGED <<child, wkrVars>>
  /\ UNCHANGED <<l1Vars, psig, ec, leaving, configured, runner, event, pexit,
                 impVars, signalled>>

(* Worker i ends, and its port is free; if it is the child, fork() returns  *)
(* its code.                                                                *)
WorkerEnds(i, code) ==
  /\ worker' = [worker EXCEPT ![i] = "none"]
  /\ paused' = [paused EXCEPT ![i] = FALSE]
  /\ wkrsig' = [wkrsig EXCEPT ![i] = FALSE]
  /\ wkrcode' = [wkrcode EXCEPT ![i] = Success]
  /\ ctl' = [ctl EXCEPT ![i] = <<>>]
  /\ port' = IF port = i THEN 0 ELSE port
  /\ IF i = child
     THEN plane' = "decide" /\ ec' = code /\ child' = 0
     ELSE UNCHANGED <<plane, ec, child>>

(* fork()'s watcher: once the shutdown signal is set, the child is killed.  *)
PlaneWatch ==
  /\ plane = "forked"
  /\ psig
  /\ WorkerEnds(child, Killed)
  /\ UNCHANGED <<l1Vars, psig, fails, leaving, configured, runner, event, pexit,
                 impVars, signalled, faults>>


(* What the worker's exit code means to the control plane. *)
PlaneDecide ==
  /\ plane = "decide"
  /\ plane' = "stop"
  /\ leaving' = (ec \in {Success, IncorrectUsage})
  /\ fails' = IF ec \in {Success, IncorrectUsage, Restart, NatsDisconnected}
              THEN fails ELSE fails + 1
  /\ UNCHANGED <<l1Vars, psig, ec, child, configured, runner, event, pexit,
                 impVars, wkrVars, signalled, faults>>

(* Mutant: stop() does not wait for the tasks in flight. *)
MutantStopForgetsTasks ==
  /\ plane = "stop"
  /\ runner' = FALSE
  /\ IF leaving
     THEN plane' = "leave" /\ UNCHANGED <<ec, leaving>>
     ELSE IF fails < MaxFailures
     THEN plane' = "start" /\ UNCHANGED <<ec, leaving>>
     ELSE plane' = "leave" /\ ec' = Error /\ leaving' = TRUE
  /\ UNCHANGED <<l1Vars, psig, fails, child, configured, event, pexit,
                 impVars, wkrVars, signalled, faults>>

(* runner.stop() waits for the handlers in flight, then the next session    *)
(* begins unless the control plane leaves or has failed too often.          *)
PlaneStop ==
  /\ plane = "stop"
  /\ ~runner \/ imp # "run"
  /\ runner' = FALSE
  /\ IF leaving
     THEN plane' = "leave" /\ UNCHANGED <<ec, leaving>>
     ELSE IF fails < MaxFailures
     THEN plane' = "start" /\ UNCHANGED <<ec, leaving>>
     ELSE plane' = "leave" /\ ec' = Error /\ leaving' = TRUE
  /\ UNCHANGED <<l1Vars, psig, fails, child, configured, event, pexit,
                 impVars, wkrVars, signalled, faults>>

(* An import outlasts the thirty seconds stop() waits: the exception ends   *)
(* the control plane.                                                       *)
PlaneStopTimeout ==
  /\ plane = "stop"
  /\ runner /\ imp = "run"
  /\ runner' = FALSE
  /\ plane' = "leave" /\ ec' = Panic /\ leaving' = TRUE
  /\ UNCHANGED <<l1Vars, psig, fails, child, configured, event, pexit,
                 impVars, wkrVars, signalled, faults>>

(* The process ends when its handler threads have. *)
PlaneLeave ==
  /\ plane = "leave"
  /\ imp # "run"
  /\ PlaneDies(ec)
  /\ UNCHANGED <<l1Vars, wkrVars, signalled, faults>>

PlaneCrash ==
  /\ plane # "off"
  /\ Fault
  /\ PlaneDies(Killed)
  /\ UNCHANGED <<l1Vars, wkrVars, signalled>>

-----------------------------------------------------------------------------
(* The handlers of remote commands (notification_wiring.py). *)

(* _control_get: whoever holds the port queues the command; if nobody does, *)
(* the error is logged.                                                     *)
ControlGet(c) ==
  IF ForkRunning /\ port # 0
  THEN /\ Len(ctl[port]) < MaxCtl
       /\ ctl' = [ctl EXCEPT ![port] = Append(@, c)]
  ELSE UNCHANGED ctl

(* The restart command, and the renew ticker's once a day. *)
CommandRestart ==
  /\ runner
  /\ ControlGet("restart")
  /\ UNCHANGED <<l1Vars, l2Vars, pexit, impVars, worker, paused, wkrsig,
                 wkrcode, port, signalled, faults>>

Command ==
  /\ runner
  /\ Fault
  /\ \E c \in Commands \ {"restart"} :
       /\ ControlGet(c)
       /\ quiet' = (quiet /\ c # "unpause")
  /\ UNCHANGED <<l1Vars, l2Vars, pexit, url, imp, worker, paused, wkrsig,
                 wkrcode, port, signalled>>

(* configure: the url is validated and saved.  The restart that follows on  *)
(* an unconfigured server has no worker to reach.                           *)
Configure ==
  /\ runner
  /\ Fault
  /\ url' = TRUE
  /\ UNCHANGED <<l1Vars, l2Vars, pexit, imp, quiet, wkrVars, signalled>>

(* import_action: the worker is paused, if it can be reached, and the       *)
(* import is forked either way.                                             *)
ImportBegin ==
  /\ runner
  /\ url
  /\ imp = "none"
  /\ Fault
  /\ ControlGet("pause")
  /\ quiet' = (child # 0 /\ ctl'[child] # ctl[child])
  /\ imp' = "run"
  /\ UNCHANGED <<l1Vars, l2Vars, pexit, url, worker, paused, wkrsig, wkrcode,
                 port, signalled>>

(* The import ends, not with a usage error: the first worker is released,   *)
(* or the running one restarted.                                            *)
ImportEnd ==
  /\ imp = "run"
  /\ imp' = "none" /\ quiet' = FALSE
  /\ IF configured
     THEN ControlGet("restart") /\ UNCHANGED event
     ELSE event' = TRUE /\ UNCHANGED ctl
  /\ UNCHANGED <<l1Vars, plane, psig, fails, ec, leaving, child, configured,
                 runner, pexit, url, worker, paused, wkrsig, wkrcode, port,
                 signalled, faults>>

(* The import fails with a usage error, or runs on without its handler. *)
ImportFails ==
  /\ imp \in {"run", "orphan"}
  /\ imp' = "none" /\ quiet' = FALSE
  /\ UNCHANGED <<l1Vars, l2Vars, pexit, url, wkrVars, signalled, faults>>

-----------------------------------------------------------------------------
(* The worker: _run_fork_async. *)

wkrRest == <<l1Vars, psig, fails, leaving, configured, runner, event, pexit,
             impVars, signalled>>

(* Setup, and the loopback server's port, which may be taken. *)
WorkerBoot ==
  /\ \E i \in Workers :
       /\ worker[i] = "boot"
       /\ \/ /\ port = 0
             /\ port' = i
             /\ worker' = [worker EXCEPT ![i] = "listen"]
             /\ UNCHANGED <<paused, wkrsig, wkrcode, ctl, plane, ec, child, faults>>
          \/ /\ port # 0
             /\ WorkerEnds(i, Error)
             /\ UNCHANGED faults
          \/ Fault /\ WorkerEnds(i, IncorrectUsage)
  /\ UNCHANGED wkrRest

(* Mutant: the loopback server is stopped before the consumer has drained. *)
MutantLeaveClosesFirst(i, code) ==
  /\ worker' = [worker EXCEPT ![i] = "drain"]
  /\ wkrcode' = [wkrcode EXCEPT ![i] = code]
  /\ port' = 0

(* Worker i leaves its control loop with a code and drains. *)
Leave(i, code) ==
  /\ worker' = [worker EXCEPT ![i] = "drain"]
  /\ wkrcode' = [wkrcode EXCEPT ![i] = code]
  /\ UNCHANGED port

(* The consumer is created, or fails to be. *)
WorkerCreate ==
  /\ \E i \in Workers :
       /\ worker[i] = "listen"
       /\ \/ worker' = [worker EXCEPT ![i] = "stream"] /\ UNCHANGED <<wkrcode, port, faults>>
          \/ Fault /\ Leave(i, Error)
  /\ UNCHANGED <<wkrRest, plane, ec, child, paused, wkrsig, ctl>>

(* The control loop takes a command.  An unpause of a worker that is not    *)
(* paused raises.                                                           *)
WorkerControl ==
  /\ \E i \in Workers :
       /\ worker[i] = "stream"
       /\ ctl[i] # <<>>
       /\ ctl' = [ctl EXCEPT ![i] = Tail(@)]
       /\ \/ Head(ctl[i]) = "restart" /\ Leave(i, Restart) /\ UNCHANGED paused
          \/ Head(ctl[i]) = "shutdown" /\ Leave(i, Success) /\ UNCHANGED paused
          \/ /\ Head(ctl[i]) = "pause"
             /\ paused' = [paused EXCEPT ![i] = TRUE]
             /\ UNCHANGED <<worker, wkrcode, port>>
          \/ /\ Head(ctl[i]) = "unpause" /\ paused[i]
             /\ paused' = [paused EXCEPT ![i] = FALSE]
             /\ UNCHANGED <<worker, wkrcode, port>>
          \/ /\ Head(ctl[i]) = "unpause" /\ ~paused[i]
             /\ Leave(i, Panic) /\ UNCHANGED paused
  /\ UNCHANGED <<wkrRest, plane, ec, child, wkrsig, faults>>

(* A fatal consumer error. *)
WorkerFails ==
  /\ Fault
  /\ \E i \in Workers : worker[i] = "stream" /\ ctl[i] = <<>> /\ Leave(i, Error)
  /\ UNCHANGED <<wkrRest, plane, ec, child, paused, wkrsig, ctl>>

(* The NATS connection breaks. *)
WorkerDisconnects ==
  /\ \E i \in Workers :
       worker[i] = "stream" /\ ctl[i] = <<>> /\ Leave(i, NatsDisconnected)
  /\ UNCHANGED <<wkrRest, plane, ec, child, paused, wkrsig, ctl, faults>>

WorkerSignal ==
  /\ \E i \in Workers :
       worker[i] = "stream" /\ wkrsig[i] /\ ctl[i] = <<>> /\ Leave(i, Success)
  /\ UNCHANGED <<wkrRest, plane, ec, child, paused, wkrsig, ctl, faults>>

(* Consumer, driver and tracker have stopped: so does the loopback server.  *)
WorkerRelease ==
  /\ \E i \in Workers :
       /\ worker[i] = "drain"
       /\ worker' = [worker EXCEPT ![i] = "closing"]
       /\ port' = 0
  /\ UNCHANGED <<wkrRest, plane, ec, child, paused, wkrsig, wkrcode, ctl, faults>>

WorkerExit ==
  /\ \E i \in Workers : worker[i] = "closing" /\ WorkerEnds(i, wkrcode[i])
  /\ UNCHANGED <<wkrRest, faults>>

WorkerCrash ==
  /\ Fault
  /\ \E i \in Workers : worker[i] # "none" /\ WorkerEnds(i, Killed)
  /\ UNCHANGED wkrRest

-----------------------------------------------------------------------------
(* The worker's handler for signals is in place. *)
HasHandler(i) == worker[i] \in {"listen", "stream", "drain", "closing"}

(* Ctrl-C in the console, or a signal to the service's group, reaches every *)
(* process, and ends a worker that has no handler for it yet; `kill`        *)
(* reaches the wrapper alone.                                               *)
SignalAll ==
  /\ signalled = "none" /\ wrapper # "ended"
  /\ Fault
  /\ signalled' = "all"
  /\ wsig' = TRUE
  /\ psig' = (plane # "off")
  /\ wkrsig' = [i \in Workers |-> HasHandler(i)]
  /\ worker' = [i \in Workers |-> IF HasHandler(i) THEN worker[i] ELSE "none"]
  /\ IF child # 0 /\ ~HasHandler(child)
     THEN plane' = "decide" /\ ec' = Killed /\ child' = 0
     ELSE UNCHANGED <<plane, ec, child>>
  /\ UNCHANGED <<wrapper, wfails, wcode, fails, leaving, configured, runner,
                 event, pexit, impVars, paused, wkrcode, ctl, port>>

SignalWrapper ==
  /\ signalled = "none" /\ wrapper # "ended"
  /\ Fault
  /\ signalled' = "wrapper"
  /\ wsig' = TRUE
  /\ UNCHANGED <<wrapper, wfails, wcode, l2Vars, pexit, impVars, wkrVars>>

LayerOneStep ==
  \/ WrapperSpawn \/ WrapperExited \/ WrapperShutdown \/ WrapperChildGone
  \/ WrapperTerminate \/ WrapperKill

(* Steps that wait for the service or for NATS: the session start, the      *)
(* subscription, and the log upload after a worker has ended.               *)
OutsideStep == PlaneStart \/ PlaneNotify \/ PlaneDecide

LocalStep ==
  \/ PlaneConfigured \/ PlaneUnconfiguredShutdown \/ PlaneFork \/ PlaneWatch
  \/ PlaneStop \/ PlaneStopTimeout \/ PlaneLeave

LayerTwoStep == OutsideStep \/ LocalStep

WorkerStep ==
  \/ WorkerBoot \/ WorkerCreate \/ WorkerControl \/ WorkerSignal
  \/ WorkerRelease \/ WorkerExit

Environment ==
  \/ PlaneCrash \/ WorkerFails \/ WorkerDisconnects \/ WorkerCrash
  \/ CommandRestart \/ Command \/ Configure
  \/ ImportBegin \/ ImportEnd \/ ImportFails
  \/ SignalAll \/ SignalWrapper

Next == LayerOneStep \/ LayerTwoStep \/ WorkerStep \/ Environment

Spec == Init /\ [][Next]_vars

(* Each process keeps running, and its local waits have timeouts.  Nothing  *)
(* is assumed of the service and NATS, whose answers have no deadline, nor  *)
(* of an import, which may run for ever, of signals, commands and failures. *)
Fairness ==
  /\ WF_vars(LayerOneStep)
  /\ WF_vars(LocalStep)
  /\ WF_vars(WorkerStep)

LiveSpec == Spec /\ Fairness

-----------------------------------------------------------------------------
(* Properties. *)

FlagsOK ==
  /\ wsig \in BOOLEAN /\ psig \in BOOLEAN /\ leaving \in BOOLEAN
  /\ configured \in BOOLEAN /\ runner \in BOOLEAN /\ event \in BOOLEAN
  /\ url \in BOOLEAN /\ quiet \in BOOLEAN

LayersOK ==
  /\ wrapper \in WrapperAt /\ wfails \in 0 .. MaxFailures /\ wcode \in 0 .. 9
  /\ plane \in PlaneAt /\ fails \in 0 .. MaxFailures /\ ec \in 0 .. 9
  /\ pexit \in 0 .. 10
  /\ imp \in {"none", "run", "orphan"}
  /\ signalled \in {"none", "all", "wrapper"}
  /\ faults \in Nat

WorkersOK ==
  /\ worker \in [Workers -> WorkerAt]
  /\ paused \in [Workers -> BOOLEAN]
  /\ wkrsig \in [Workers -> BOOLEAN]
  /\ wkrcode \in [Workers -> 0 .. 9]
  /\ ctl \in [Workers -> Seq(Commands)]
  /\ port \in Workers \cup {0}

(* The control plane waits for a worker exactly when it is in fork().       *)
ChildOK ==
  /\ child \in Workers \cup {0}
  /\ (child # 0) <=> (plane = "forked")
  /\ child # 0 => worker[child] # "none"

(* Every variable of the three layers (server.py, fork.py) keeps its type,  *)
(* and fork() waits for a worker that exists.                               *)
TypeOK == FlagsOK /\ LayersOK /\ WorkersOK /\ ChildOK

(* At most one worker has a consumer and a driver at work, streaming or     *)
(* draining, although a control plane that dies leaves its worker behind    *)
(* and the next one forks another: the loopback port, bound before the      *)
(* consumer is created and released after consumer and driver have stopped  *)
(* (fork.py), is what keeps them apart.                                     *)
OneStream ==
  \A i, j \in Workers :
    worker[i] \in {"stream", "drain"} /\ worker[j] \in {"stream", "drain"} => i = j

(* Once the pause of an import has reached the child, the child does not    *)
(* stream while the import runs, and no successor is forked that would:     *)
(* between two sessions NotificationConsumer.stop waits for the handler.    *)
(* (Until somebody sends unpause.)                                          *)
PauseHolds ==
  imp = "run" /\ quiet /\ child # 0 =>
    /\ worker[child] # "boot"
    /\ worker[child] = "stream" =>
         paused[child] \/ \E k \in 1 .. Len(ctl[child]) : ctl[child][k] = "pause"

(* The wrapper ends after a signal, whatever the control plane, its worker  *)
(* or an import that never returns are doing (_run_wrapper_loop's backstop).*)
ShutdownCompletes == (signalled # "none") ~> (wrapper = "ended")

=============================================================================
