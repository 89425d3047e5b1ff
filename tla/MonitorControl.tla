-------------------------- MODULE MonitorControl --------------------------
(***************************************************************************)
(* MonitorControlService and the MonitorBootstrap runs it owns. Requests   *)
(* (start, stop, status, the lifespan's shutdown), the owner tasks and     *)
(* their runtimes share one event loop; what needs the service's           *)
(* asyncio.Lock is an action that waits for it, and only start() keeps it  *)
(* over an await. A runtime is any behaviour of MonitorLifecycle, which    *)
(* MonitorRuntime implements.                                              *)
(***************************************************************************)
EXTENDS Naturals

CONSTANTS
  Tasks,     \* owner tasks, named in the order they are created (bound: starts)
  Stops,     \* bound: calls of stop(), those of requests and the one of shutdown()
  AppStop,   \* the call of stop() that shutdown() makes
  NoTask,    \* None; nobody, for the lease
  Other      \* another process with the same session, a CLI monitor

ASSUME ControlAssumption ==
  /\ Tasks \subseteq Nat /\ {NoTask, Other} \cap Tasks = {} /\ NoTask # Other
  /\ AppStop \in Stops

VARIABLES
  state,         \* self._state
  task,          \* self._task; self._bootstrap is its bootstrap
  stopTimedOut,  \* self._stop_timed_out
  starting,      \* start() is at an await, with the lock
  shuttingDown,  \* self._shutdown_task is not None
  owner,         \* per task: where _run_owned_bootstrap is
  bootStop,      \* per task: the bootstrap's _stop_requested
  life,          \* per task: its runtime
  outcome,       \* per task: what bootstrap.run() ended with
  lease,         \* who holds the session lock file
  stopper        \* per call of stop(): where it is, and the task it waits for

serviceVars == <<state, task, stopTimedOut>>
taskVars    == <<owner, bootStop, life, outcome, lease>>
vars == <<serviceVars, starting, shuttingDown, taskVars, stopper>>

States  == {"stopped", "starting", "running", "stopping", "degraded", "failed"}
Stages  == {"none", "boot", "resolve", "run", "close", "settle", "done"}
Holders == Tasks \cup {NoTask, Other}

Ended(t) == owner[t] = "done"
Live(t)  == owner[t] \notin {"none", "done"}

\* "task is not None and not task.done()"
TaskActive == task # NoTask /\ ~Ended(task)

Init ==
  /\ state = "stopped" /\ task = NoTask /\ stopTimedOut = FALSE
  /\ starting = FALSE /\ shuttingDown = FALSE
  /\ owner = [t \in Tasks |-> "none"] /\ bootStop = [t \in Tasks |-> FALSE]
  /\ life = [t \in Tasks |-> [phase |-> "new", stopping |-> FALSE, result |-> "none"]]
  /\ outcome = [t \in Tasks |-> "none"]
  /\ lease = NoTask
  /\ stopper = [s \in Stops |-> [pc |-> "idle", waits |-> NoTask]]

LockFree == ~starting

(***************************************************************************)
(* start(): the checks, then the snapshot and the preflight awaited with   *)
(* the lock held, then the new task. A rejected start changes nothing the  *)
(* properties tell apart.                                                  *)
(***************************************************************************)
\* Variants with a bug: only the state is looked at; a stop under way is not.
MayStartByState       == ~shuttingDown /\ state \notin {"starting", "running", "stopping"}
MayStartWhileStopping == ~shuttingDown /\ state \notin {"starting", "running"}

MayStart == ~shuttingDown /\ ~TaskActive /\ state \notin {"starting", "running", "stopping"}

StartBegins ==
  /\ LockFree /\ MayStart
  /\ starting' = TRUE
  /\ UNCHANGED <<serviceVars, shuttingDown, taskVars, stopper>>

StartRejected ==
  /\ starting
  /\ starting' = FALSE
  /\ UNCHANGED <<serviceVars, shuttingDown, taskVars, stopper>>

Fresh == {t \in Tasks : owner[t] = "none" /\ \A u \in Tasks : u < t => owner[u] # "none"}

StartAccepted ==
  /\ starting
  /\ \E t \in Fresh : task' = t /\ owner' = [owner EXCEPT ![t] = "boot"]
  /\ state' = "starting" /\ stopTimedOut' = FALSE
  /\ starting' = FALSE
  /\ UNCHANGED <<shuttingDown, bootStop, life, outcome, lease, stopper>>

(***************************************************************************)
(* stop(), and shutdown() which makes one call of it.                      *)
(***************************************************************************)
MayCall(s) == stopper[s].pc = "idle" /\ (s = AppStop => shuttingDown)

RuntimeExists(t) == owner[t] = "run"

\* MonitorBootstrap.stop(): remembered, and passed on to the runtime if there is one.
BootstrapStop(t) ==
  /\ bootStop' = [bootStop EXCEPT ![t] = TRUE]
  /\ life' = IF RuntimeExists(t) THEN [life EXCEPT ![t].stopping = TRUE] ELSE life

\* Variant with a bug: the state is set before the task is looked at.
StopBeginsEagerly(s) ==
  /\ LockFree /\ MayCall(s)
  /\ state' = "stopping"
  /\ IF TaskActive
       THEN /\ BootstrapStop(task)
            /\ stopper' = [stopper EXCEPT ![s] = [pc |-> "waiting", waits |-> task]]
       ELSE /\ stopper' = [stopper EXCEPT ![s].pc = "answered"]
            /\ UNCHANGED <<bootStop, life>>
  /\ UNCHANGED <<task, stopTimedOut, starting, shuttingDown, owner, outcome, lease>>

StopBegins(s) ==
  /\ LockFree /\ MayCall(s)
  /\ IF TaskActive
       THEN /\ state' = "stopping"
            /\ BootstrapStop(task)
            /\ stopper' = [stopper EXCEPT ![s] = [pc |-> "waiting", waits |-> task]]
       ELSE /\ stopper' = [stopper EXCEPT ![s].pc = "answered"]
            /\ UNCHANGED <<state, bootStop, life>>
  /\ UNCHANGED <<task, stopTimedOut, starting, shuttingDown, owner, outcome, lease>>

\* wait_for gives up while the task is still at work; the call then waits for the lock.
StopGivesUp(s) ==
  /\ stopper[s].pc = "waiting" /\ ~Ended(stopper[s].waits)
  /\ stopper' = [stopper EXCEPT ![s].pc = "timed out"]
  /\ UNCHANGED <<serviceVars, starting, shuttingDown, taskVars>>

StopTimesOut(s) ==
  /\ LockFree /\ stopper[s].pc = "timed out"
  /\ state' = "degraded" /\ stopTimedOut' = TRUE
  /\ stopper' = [stopper EXCEPT ![s].pc = "answered"]
  /\ UNCHANGED <<task, starting, shuttingDown, taskVars>>

StopSucceeds(s) ==
  /\ LockFree /\ stopper[s].pc = "waiting" /\ Ended(stopper[s].waits)
  /\ stopper' = [stopper EXCEPT ![s].pc = "answered"]
  /\ UNCHANGED <<serviceVars, starting, shuttingDown, taskVars>>

\* Variant with a bug: the mark is set without the lock.
ShutdownUnlocked ==
  /\ ~shuttingDown
  /\ shuttingDown' = TRUE
  /\ UNCHANGED <<serviceVars, starting, taskVars, stopper>>

Shutdown ==
  /\ LockFree /\ ~shuttingDown
  /\ shuttingDown' = TRUE
  /\ UNCHANGED <<serviceVars, starting, taskVars, stopper>>

(***************************************************************************)
(* MonitorBootstrap.run(): the database probe, then the session lease, the *)
(* channel resolution, the runtime; the lease is released on the way out.  *)
(***************************************************************************)
Reaches(t, stage) == owner' = [owner EXCEPT ![t] = stage]

Fails(t) == Reaches(t, "close") /\ outcome' = [outcome EXCEPT ![t] = "failed"]

\* No database, an unreadable watchlist, or a session someone else owns.
BootFails(t) ==
  /\ owner[t] = "boot"
  /\ Fails(t)
  /\ UNCHANGED <<serviceVars, starting, shuttingDown, bootStop, life, lease, stopper>>

BootLeases(t) ==
  /\ owner[t] = "boot" /\ lease = NoTask
  /\ lease' = t
  /\ Reaches(t, "resolve")
  /\ UNCHANGED <<serviceVars, starting, shuttingDown, bootStop, life, outcome, stopper>>

Release(t) == lease' = IF lease = t THEN NoTask ELSE lease

ResolveFails(t) ==
  /\ owner[t] = "resolve"
  /\ Fails(t) /\ Release(t)
  /\ UNCHANGED <<serviceVars, starting, shuttingDown, bootStop, life, stopper>>

\* Variants with a bug: the early stop is forgotten; the lease covers the resolution only.
MakeRuntimeForgetting(t) ==
  /\ owner[t] = "resolve"
  /\ Reaches(t, "run")
  /\ UNCHANGED <<serviceVars, starting, shuttingDown, bootStop, life, outcome, lease, stopper>>

MakeRuntimeReleasing(t) ==
  /\ owner[t] = "resolve"
  /\ life' = [life EXCEPT ![t].stopping = bootStop[t]]
  /\ Reaches(t, "run") /\ Release(t)
  /\ UNCHANGED <<serviceVars, starting, shuttingDown, bootStop, outcome, stopper>>

\* A stop that came before the runtime existed is passed on to it now.
MakeRuntime(t) ==
  /\ owner[t] = "resolve"
  /\ life' = [life EXCEPT ![t].stopping = bootStop[t]]
  /\ Reaches(t, "run")
  /\ UNCHANGED <<serviceVars, starting, shuttingDown, bootStop, outcome, lease, stopper>>

Life(t) == INSTANCE MonitorLifecycle WITH
  phase <- life[t].phase, stopping <- life[t].stopping, result <- life[t].result

\* A step of the runtime itself; its stop() is BootstrapStop.
Lives(t, step(_)) ==
  /\ RuntimeExists(t)
  /\ \E p \in Life(t)!Phases, b \in BOOLEAN, r \in Life(t)!Results :
       life' = [life EXCEPT ![t] = [phase |-> p, stopping |-> b, result |-> r]]
  /\ step(t)
  /\ UNCHANGED <<serviceVars, starting, shuttingDown, owner, bootStop, outcome, lease, stopper>>

RuntimeTurns(t) == Life(t)!Begin \/ Life(t)!Listen \/ Life(t)!Lose \/ Life(t)!WindDown
RuntimeEnds(t)  == Life(t)!End
Honours(t)      == life[t].stopping /\ Life(t)!WindDown

\* What the end of run() means for the control state.
OutcomeOf(result) == IF result = "stopped" THEN "stopped" ELSE "failed"

RunReturns(t) ==
  /\ RuntimeExists(t) /\ life[t].phase = "over"
  /\ outcome' = [outcome EXCEPT ![t] = OutcomeOf(life[t].result)]
  /\ Reaches(t, "close") /\ Release(t)
  /\ UNCHANGED <<serviceVars, starting, shuttingDown, bootStop, life, stopper>>

Close(t) ==
  /\ owner[t] = "close"
  /\ Reaches(t, "settle")
  /\ UNCHANGED <<serviceVars, starting, shuttingDown, bootStop, life, outcome, lease, stopper>>

\* The locked end of _run_owned_bootstrap.
Settle(t) ==
  /\ owner[t] = "settle" /\ LockFree
  /\ state' = outcome[t]
  /\ IF task = t THEN task' = NoTask /\ stopTimedOut' = FALSE
                 ELSE UNCHANGED <<task, stopTimedOut>>
  /\ Reaches(t, "done")
  /\ UNCHANGED <<starting, shuttingDown, bootStop, life, outcome, lease, stopper>>

(***************************************************************************)
(* What tells the service about the runtime: heartbeats, which are emitted *)
(* until the runtime's stop, and status(). A runtime that is not listening *)
(* may have failed already, or be in a state that tells nothing.           *)
(***************************************************************************)
Observed(t) ==
  IF life[t].phase = "listening" THEN {"running"}
  ELSE {"failed", state} \cup (IF life[t].phase = "degraded" THEN {"degraded"} ELSE {})

Heartbeat(t) ==
  /\ RuntimeExists(t) /\ ~life[t].stopping /\ LockFree
  /\ state # "stopping"
  /\ state' \in Observed(t)
  /\ UNCHANGED <<task, stopTimedOut, starting, shuttingDown, taskVars, stopper>>

\* _refresh_from_runtime_locked; self._bootstrap keeps its runtime to the end.
Refreshable(t) == owner[t] \in {"run", "close", "settle"} /\ life[t].phase # "new"

Status ==
  /\ LockFree /\ TaskActive
  /\ state # "stopping" /\ ~stopTimedOut
  /\ Refreshable(task)
  /\ state' \in Observed(task)
  /\ UNCHANGED <<task, stopTimedOut, starting, shuttingDown, taskVars, stopper>>

(***************************************************************************)
(* The other process takes the lease and gives it back.                    *)
(***************************************************************************)
OtherProcess ==
  /\ lease \in {NoTask, Other}
  /\ lease' \in {NoTask, Other} \ {lease}
  /\ UNCHANGED <<serviceVars, starting, shuttingDown, owner, bootStop, life, outcome, stopper>>

OwnerStep(t) ==
  \/ BootFails(t) \/ BootLeases(t) \/ ResolveFails(t) \/ MakeRuntime(t)
  \/ RunReturns(t) \/ Close(t) \/ Settle(t)

Next ==
  \/ StartBegins \/ StartRejected \/ StartAccepted \/ Shutdown \/ Status \/ OtherProcess
  \/ \E s \in Stops : StopBegins(s) \/ StopGivesUp(s) \/ StopTimesOut(s) \/ StopSucceeds(s)
  \/ \E t \in Tasks : OwnerStep(t) \/ Lives(t, RuntimeTurns) \/ Lives(t, RuntimeEnds) \/ Heartbeat(t)

Spec == Init /\ [][Next]_vars

\* The owner task's awaits return, as does start()'s preflight; the runtime keeps the
\* promise of MonitorLifecycle; the call of stop() that shutdown() made gets its turns.
FairSpec ==
  /\ Spec
  /\ WF_vars(StartRejected \/ StartAccepted)
  /\ \A t \in Tasks : /\ WF_vars(OwnerStep(t))
                      /\ WF_vars(Lives(t, Honours)) /\ WF_vars(Lives(t, RuntimeEnds))
  /\ WF_vars(StopBegins(AppStop) \/ StopTimesOut(AppStop) \/ StopSucceeds(AppStop))
-----------------------------------------------------------------------------
(***************************************************************************)
(* Properties                                                              *)
(***************************************************************************)
TypeOK ==
  /\ state \in States /\ task \in Tasks \cup {NoTask}
  /\ {stopTimedOut, starting, shuttingDown} \subseteq BOOLEAN
  /\ owner \in [Tasks -> Stages] /\ bootStop \in [Tasks -> BOOLEAN]
  /\ \A t \in Tasks : /\ life[t].phase \in Life(t)!Phases
                      /\ life[t].result \in Life(t)!Results
                      /\ outcome[t] \in {"none", "stopped", "failed"}
  /\ lease \in Holders
  /\ \A s \in Stops : /\ stopper[s].pc \in {"idle", "waiting", "timed out", "answered"}
                      /\ stopper[s].waits \in Tasks \cup {NoTask}

\* The service owns one monitor task at most, whichever start, stop, timeout and end
\* overlap: a task at work is self._task, and none is at work while a start is decided.
OneOwner == \A t \in Tasks : Live(t) => task = t /\ ~starting

\* A runtime only ever runs under the session lease, taken before its client exists and
\* held until run() has returned: no two monitors use one Telegram session.
SessionExclusive == \A t \in Tasks : RuntimeExists(t) => lease = t

\* A stop that arrives while the bootstrap is still probing, leasing or resolving is not
\* lost: the runtime made afterwards is told before it runs.
StopRemembered == \A t \in Tasks : RuntimeExists(t) /\ bootStop[t] => life[t].stopping

\* The states that mean a monitor is at work are never shown without one, so that they
\* never block the next start for good.
ActiveStatesAreTrue == state \in {"starting", "running", "stopping"} => TaskActive

\* The moves of the control state the design forbids do not happen through any mix of
\* heartbeats, status polls, late ends and requests.
NoForbiddenMove ==
  [][<<state, state'>> \notin {<<"stopped", "running">>, <<"running", "starting">>,
                               <<"stopping", "starting">>}]_state

\* Once shutdown() has its place in line no new monitor is created behind it.
NoStartAfterShutdown ==
  [][shuttingDown => \A t \in Tasks : owner[t] = "none" => owner'[t] = "none"]_vars

\* shutdown() answers, and the monitor it stops ends, also when the stop comes before the
\* runtime or the wait times out.
ShutdownCompletes ==
  /\ shuttingDown ~> stopper[AppStop].pc = "answered"
  /\ \A t \in Tasks : bootStop[t] ~> Ended(t)

\* The design's promise for a stop that timed out: once the task ends, the control state
\* is settled (and can_start is true again).
\* The code does not meet it: the README has the circumstances.
TimeoutReconciled == state = "degraded" => TaskActive
=============================================================================
