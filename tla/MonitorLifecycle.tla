------------------------- MODULE MonitorLifecycle -------------------------
(***************************************************************************)
(* What the life of one monitor runtime looks like from outside: the       *)
(* phases its owner can tell apart, and the promise that a requested stop  *)
(* is honoured. MonitorRuntime implements it; MonitorControl uses it as    *)
(* the behaviour of the runtimes it starts.                                *)
(***************************************************************************)
VARIABLES
  phase,     \* where the runtime is
  stopping,  \* stop() was called
  result     \* what run() ended with: "stopped", "failed", or "raised" (no summary)

lifeVars == <<phase, stopping, result>>

Phases  == {"new", "starting", "listening", "degraded", "ending", "over"}
Results == {"none", "stopped", "failed", "raised"}
Working == {"new", "starting", "listening", "degraded"}

LifeInit == phase = "new" /\ stopping = FALSE /\ result = "none"

RequestStop ==
  /\ phase # "over"
  /\ stopping' = TRUE
  /\ UNCHANGED <<phase, result>>

Moves(from, to) ==
  /\ phase \in from
  /\ phase' = to
  /\ UNCHANGED <<stopping, result>>

Begin == Moves({"new"}, "starting")

\* After a requested stop the runtime never listens, and never tries to.
Listen == ~stopping /\ Moves({"starting", "degraded"}, "listening")
Lose   == ~stopping /\ Moves({"listening"}, "degraded")

\* Whatever the reason, winding down also refuses new work.
WindDown ==
  /\ phase \in Working
  /\ phase' = "ending"
  /\ stopping' = TRUE
  /\ UNCHANGED result

End ==
  /\ phase = "ending"
  /\ phase' = "over"
  /\ result' \in Results \ {"none"}
  /\ UNCHANGED stopping

LifeNext == RequestStop \/ Begin \/ Listen \/ Lose \/ WindDown \/ End

\* A stop is honoured from wherever the runtime is, and winding down ends.
LifeSpec ==
  /\ LifeInit /\ [][LifeNext]_lifeVars
  /\ WF_lifeVars(stopping /\ WindDown)
  /\ WF_lifeVars(End)
=============================================================================
