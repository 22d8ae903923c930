------------------------------ MODULE Restarts ------------------------------
(***************************************************************************)
(* The streaming worker under the session loop of the control plane        *)
(* (eds/cmd/server.py, _run_control_plane): the loop starts a worker, looks *)
(* at the code it exits with and starts another one, until a clean exit or *)
(* the limit of failures ends the loop and with it the server.  Supervisor *)
(* has the loop's signals, pauses and ports; this module has what it means *)
(* for the events that the worker's steps (Consumer) settle.               *)
(***************************************************************************)
EXTENDS Consumer

CONSTANT
  MaxFailures   \* MAX_FAILURES: failures, never reset, that end the loop

ASSUME RestartsAssumption == MaxFailures \in Nat \ {0}

VARIABLES
  failures,   \* failures of the session loop
  server      \* the session loop: "on" or "ended"

loopVars == <<failures, server>>
restartVars == <<vars, loopVars>>

RestartInit ==
  /\ Init
  /\ failures = 0
  /\ server = "on"

(* The loop goes on and the failure is not counted. *)
Again == UNCHANGED loopVars

(* One more failure; the loop ends with the last one it allows. *)
Failed ==
  /\ failures' = failures + 1
  /\ server' = IF failures' < MaxFailures THEN "on" ELSE "ended"

(* The loop returns. *)
Ends ==
  /\ server' = "ended"
  /\ UNCHANGED failures

(* A session is started and the worker with it.  The session start may be   *)
(* refused, and NATS be away, for as long as they like: the loop waits.     *)
Spawn ==
  /\ server = "on"
  /\ Create
  /\ Again

(* The worker cannot be forked or cannot create its consumer, or the        *)
(* session start fails and the loop gives up.                               *)
SpawnFails ==
  /\ server = "on"
  /\ ~up
  /\ Fault
  /\ \/ Failed
     \/ Ends
  /\ UNCHANGED <<jsVars, drvVars, wrkVars>>

(* The exit code and what the loop makes of it.  Stopped by the fork:       *)
(* EXIT_SUCCESS ends the loop, EXIT_RESTART does not count, and an unpause  *)
(* that raised is a failure.  Stopped by itself: a fatal error is a         *)
(* failure, a lost connection (EXIT_NATS_DISCONNECTED) does not count.      *)
Decide ==
  \/ stopper = "fork" /\ (Ends \/ Again \/ Failed)
  \/ stopper = "self" /\ buf = "failed" /\ Failed
  \/ stopper = "self" /\ (buf = "failed" => conn # "up") /\ Again

(* The worker exits. *)
Leaves == Exit /\ Decide

(* The worker is killed: any other exit code is a failure. *)
Dies == Crash /\ Failed

(* The worker, the server and the publisher go on. *)
Runs ==
  /\ Next
  /\ up' = up
  /\ UNCHANGED loopVars

RestartNext == Spawn \/ SpawnFails \/ Leaves \/ Dies \/ Runs

RestartSpec == RestartInit /\ [][RestartNext]_restartVars /\ Fairness

-----------------------------------------------------------------------------
(* Once the bufferer has ended, for whatever reason, the worker process    *)
(* ends too, so that the session loop can start another one.               *)
EndedWorkerExits == (buf \in Ended) ~> ~up

(* For ever without a worker: the API refuses every session start, or NATS *)
(* stays away.  For ever paused: nobody sends the unpause.                 *)
NeverStarted == <>[](~up /\ server = "on")
StaysPaused == <>[](up /\ psub = "none")

(* Unless no worker is started any more or a pause is never ended, every   *)
(* published event is settled: acked, given up by the JetStream server     *)
(* after max_deliver deliveries, or left for the next start of an EDS      *)
(* server whose session loop has ended.                                    *)
EventuallySettled ==
  \/ NeverStarted
  \/ StaysPaused
  \/ \A s \in Msgs :
       s <= Len(log) ~> s \in acked \/ Exhausted(s) \/ server = "ended"
=============================================================================
