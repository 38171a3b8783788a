---------------------------- MODULE StreamThrow ----------------------------
(* TaskExecution with event handlers that throw (a failed event write, an    *)
(* invalid transition, ...): the catch block of consumeAgentEvents exists    *)
(* for them.  When the body of a `for await` throws, JavaScript still closes *)
(* the stream and waits for it, but drops what the close itself throws; so   *)
(* EXEC_EXIT_UNVERIFIED never reaches that catch block and the run is        *)
(* finished like any failed one.                                             *)
EXTENDS TaskExecution

\* The handler's error is caught, the exit evidence of the closed stream is lost.
HandlerThrows(r) ==
  /\ consumer[r] = "streaming"
  /\ consumer' = [consumer EXCEPT ![r] = "settling"]
  /\ UNCHANGED <<podVars, intent, recoveryVars, runs, active, controlVars, worldVars, crashes>>

ThrowNext == Next \/ \E r \in Run : HandlerThrows(r)

ThrowSpec == Init /\ [][ThrowNext]_taskVars
----------------------------------------------------------------------------
(* "Cancellation cannot release a finite process without observed exit       *)
(* evidence." (observed-runtime-exit.ts:20): no run is recorded as over      *)
(* while its worker process lives.                                           *)
ReleasedWorkerIsDead == \A r \in Run : runs[r].state = "ended" => r \notin alive
=============================================================================
