------------------------ MODULE MonitorControl_proofs ------------------------
(***************************************************************************)
(* What MonitorControlService guarantees for any number of owner tasks and *)
(* calls of stop(), and whatever other processes do with the session: one  *)
(* monitor at a time, under the session lease, whose stops are remembered, *)
(* and a control state that is true of it.                                 *)
(***************************************************************************)
EXTENDS MonitorControl, TLAPS

Lifetimes == [phase: {"new", "starting", "listening", "degraded", "ending", "over"},
              stopping: BOOLEAN, result: {"none", "stopped", "failed", "raised"}]

Stoppers == [pc: {"idle", "waiting", "timed out", "answered"}, waits: Tasks \cup {NoTask}]

Typed ==
  /\ state \in States /\ task \in Tasks \cup {NoTask}
  /\ stopTimedOut \in BOOLEAN /\ starting \in BOOLEAN /\ shuttingDown \in BOOLEAN
  /\ owner \in [Tasks -> Stages] /\ bootStop \in [Tasks -> BOOLEAN]
  /\ life \in [Tasks -> Lifetimes] /\ outcome \in [Tasks -> {"none", "stopped", "failed"}]
  /\ lease \in Holders
  /\ stopper \in [Stops -> Stoppers]

\* self._task is a task that was created, and a bootstrap on its way out has an outcome.
TaskCreated == task # NoTask => owner[task] # "none"
OutcomeKnown == \A t \in Tasks : owner[t] \in {"close", "settle"} => outcome[t] # "none"

\* The lease is taken before the channels are resolved and held until run() returned.
Leased == \A t \in Tasks : owner[t] \in {"resolve", "run"} => lease = t

\* A monitor at work is never shown as stopped.
NotStopped == TaskActive => state # "stopped"

\* shutdown() and a start being decided both need the lock.
Ordered == shuttingDown => ~starting

IInv == /\ Typed /\ TaskCreated /\ OutcomeKnown /\ OneOwner /\ Leased /\ StopRemembered
        /\ ActiveStatesAreTrue /\ NotStopped /\ Ordered

(***************************************************************************)
(* What each group of actions does, for the invariants that span them.     *)
(***************************************************************************)
\* A step of a runtime changes that runtime, and no stop is taken back.
LEMMA LifeOfOne ==
  ASSUME Typed, NEW t \in Tasks, Lives(t, RuntimeTurns) \/ Lives(t, RuntimeEnds)
  PROVE  /\ RuntimeExists(t)
         /\ life' \in [Tasks -> Lifetimes]
         /\ life[t].stopping => life'[t].stopping
         /\ \A u \in Tasks \ {t} : life'[u] = life[u]
         /\ UNCHANGED <<serviceVars, starting, shuttingDown, owner, bootStop, outcome, lease, stopper>>
<1>1. PICK p \in Life(t)!Phases, b \in BOOLEAN, r \in Life(t)!Results :
        life' = [life EXCEPT ![t] = [phase |-> p, stopping |-> b, result |-> r]]
  BY DEF Lives
<1>2. RuntimeTurns(t) \/ RuntimeEnds(t)
  BY DEF Lives
<1>3. life' \in [Tasks -> Lifetimes] /\ \A u \in Tasks \ {t} : life'[u] = life[u]
  BY <1>1 DEF Typed, Lifetimes, Life!Phases, Life!Results
<1>4. life[t].stopping => life'[t].stopping
  BY <1>2 DEF RuntimeTurns, RuntimeEnds, Life!Begin, Life!Listen, Life!Lose, Life!WindDown,
              Life!Moves, Life!End
<1>5. RuntimeExists(t) /\ UNCHANGED <<serviceVars, starting, shuttingDown, owner, bootStop,
                                      outcome, lease, stopper>>
  BY DEF Lives
<1>6. QED
  BY <1>3, <1>4, <1>5

\* BootstrapStop tells the task and its runtime, and no other.
LEMMA StopOfOne ==
  ASSUME Typed, NEW t \in Tasks, BootstrapStop(t)
  PROVE  /\ bootStop' \in [Tasks -> BOOLEAN] /\ life' \in [Tasks -> Lifetimes]
         /\ RuntimeExists(t) => life'[t].stopping
         /\ \A u \in Tasks \ {t} : bootStop'[u] = bootStop[u] /\ life'[u] = life[u]
<1>1. CASE RuntimeExists(t)
  BY <1>1 DEF BootstrapStop, Typed, Lifetimes
<1>2. CASE ~RuntimeExists(t)
  BY <1>2 DEF BootstrapStop, Typed
<1>3. QED
  BY <1>1, <1>2

LEMMA InitHolds == Init => IInv
<1> SUFFICES ASSUME Init PROVE IInv
  OBVIOUS
<1>1. Typed
  BY DEF Init, Typed, States, Stages, Lifetimes, Holders, Stoppers
<1>2. TaskCreated /\ OutcomeKnown /\ OneOwner /\ Leased /\ StopRemembered
  BY DEF Init, TaskCreated, OutcomeKnown, OneOwner, Live, Leased, StopRemembered, RuntimeExists
<1>3. ActiveStatesAreTrue /\ NotStopped /\ Ordered
  BY DEF Init, ActiveStatesAreTrue, NotStopped, TaskActive, Ordered
<1>4. QED
  BY <1>1, <1>2, <1>3 DEF IInv

LEMMA TypedKept == IInv /\ [Next]_vars => Typed'
<1> SUFFICES ASSUME IInv, [Next]_vars PROVE Typed'
  OBVIOUS
<1> USE DEF IInv, Typed, serviceVars, taskVars, Holders, States, Stages
<1>1. CASE StartBegins \/ StartRejected \/ Shutdown
  BY <1>1 DEF StartBegins, StartRejected, Shutdown
<1>2. CASE StartAccepted
  BY <1>2 DEF StartAccepted, Fresh
<1>3. CASE Status
  BY <1>3 DEF Status, Observed
<1>4. CASE OtherProcess
  BY <1>4 DEF OtherProcess
<1>5. ASSUME NEW s \in Stops, StopBegins(s) PROVE Typed'
  <2>1. CASE TaskActive
    <3>1. task \in Tasks
      BY <2>1 DEF TaskActive
    <3>2. /\ state' = "stopping" /\ BootstrapStop(task)
          /\ stopper' = [stopper EXCEPT ![s] = [pc |-> "waiting", waits |-> task]]
          /\ UNCHANGED <<task, stopTimedOut, starting, shuttingDown, owner, outcome, lease>>
      BY <1>5, <2>1 DEF StopBegins
    <3>3. stopper' \in [Stops -> Stoppers]
      BY <3>1, <3>2 DEF Stoppers
    <3>4. QED
      BY <3>1, <3>2, <3>3, StopOfOne
  <2>2. CASE ~TaskActive
    <3>1. /\ stopper' = [stopper EXCEPT ![s].pc = "answered"]
          /\ UNCHANGED <<state, bootStop, life, task, stopTimedOut, starting, shuttingDown,
                         owner, outcome, lease>>
      BY <1>5, <2>2 DEF StopBegins
    <3>2. stopper' \in [Stops -> Stoppers]
      BY <3>1 DEF Stoppers
    <3>3. QED
      BY <3>1, <3>2
  <2>3. QED
    BY <2>1, <2>2
<1>6. ASSUME NEW s \in Stops, StopGivesUp(s) \/ StopTimesOut(s) \/ StopSucceeds(s) PROVE Typed'
  <2>1. \/ stopper' = [stopper EXCEPT ![s].pc = "timed out"]
        \/ stopper' = [stopper EXCEPT ![s].pc = "answered"]
    <3>1. CASE StopGivesUp(s)
      BY <3>1 DEF StopGivesUp
    <3>2. CASE StopTimesOut(s) \/ StopSucceeds(s)
      BY <3>2 DEF StopTimesOut, StopSucceeds
    <3>3. QED
      BY <1>6, <3>1, <3>2
  <2>2. stopper' \in [Stops -> Stoppers]
    <3>1. CASE stopper' = [stopper EXCEPT ![s].pc = "timed out"]
      BY <3>1 DEF Stoppers
    <3>2. CASE stopper' = [stopper EXCEPT ![s].pc = "answered"]
      BY <3>2 DEF Stoppers
    <3>3. QED
      BY <2>1, <3>1, <3>2
  <2>3. /\ state' \in States /\ stopTimedOut' \in BOOLEAN
        /\ UNCHANGED <<task, starting, shuttingDown, taskVars>>
    <3>1. CASE StopTimesOut(s)
      BY <3>1 DEF StopTimesOut
    <3>2. CASE StopGivesUp(s) \/ StopSucceeds(s)
      BY <3>2 DEF StopGivesUp, StopSucceeds
    <3>3. QED
      BY <1>6, <3>1, <3>2
  <2>4. QED
    BY <2>2, <2>3
<1>7. ASSUME NEW t \in Tasks, OwnerStep(t) PROVE Typed'
  <2>1. CASE BootFails(t) \/ BootLeases(t) \/ ResolveFails(t) \/ Close(t)
    BY <2>1 DEF BootFails, BootLeases, ResolveFails, Close, Fails, Reaches, Release
  <2>2. CASE MakeRuntime(t)
    BY <2>2 DEF MakeRuntime, Reaches, Lifetimes
  <2>3. CASE RunReturns(t)
    BY <2>3 DEF RunReturns, OutcomeOf, Reaches, Release
  <2>4. CASE Settle(t)
    BY <2>4 DEF Settle, Reaches, OutcomeKnown
  <2>5. QED
    BY <1>7, <2>1, <2>2, <2>3, <2>4 DEF OwnerStep
<1>8. ASSUME NEW t \in Tasks, Lives(t, RuntimeTurns) \/ Lives(t, RuntimeEnds) PROVE Typed'
  BY <1>8, LifeOfOne
<1>9. ASSUME NEW t \in Tasks, Heartbeat(t) PROVE Typed'
  BY <1>9 DEF Heartbeat, Observed
<1>10. CASE UNCHANGED vars
  BY <1>10 DEF vars
<1>11. QED
  BY <1>1, <1>2, <1>3, <1>4, <1>5, <1>6, <1>7, <1>8, <1>9, <1>10 DEF Next

\* The owner task's stages follow each other; a new task is the next fresh one.
LEMMA StagesOfOne ==
  ASSUME IInv, [Next]_vars
  PROVE  \/ UNCHANGED <<owner, task, starting>>
         \/ StartBegins /\ UNCHANGED <<owner, task>> /\ starting'
         \/ StartRejected /\ UNCHANGED <<owner, task>> /\ ~starting'
         \/ StartAccepted
         \/ \E t \in Tasks : /\ OwnerStep(t) /\ Live(t) /\ UNCHANGED starting
                             /\ owner'[t] # "none"
                             /\ \A u \in Tasks \ {t} : owner'[u] = owner[u]
                             /\ UNCHANGED task \/ Settle(t)
<1> USE DEF serviceVars, taskVars
<1>1. CASE Shutdown \/ Status \/ OtherProcess
  BY <1>1 DEF Shutdown, Status, OtherProcess
<1>2. CASE StartBegins \/ StartRejected
  BY <1>2 DEF StartBegins, StartRejected
<1>3. ASSUME NEW s \in Stops, StopBegins(s) \/ StopGivesUp(s) \/ StopTimesOut(s) \/ StopSucceeds(s)
      PROVE  UNCHANGED <<owner, task, starting>>
  BY <1>3 DEF StopBegins, StopGivesUp, StopTimesOut, StopSucceeds
<1>4. ASSUME NEW t \in Tasks, Lives(t, RuntimeTurns) \/ Lives(t, RuntimeEnds)
      PROVE  UNCHANGED <<owner, task, starting>>
  BY <1>4, LifeOfOne DEF IInv
<1>5. ASSUME NEW t \in Tasks, Heartbeat(t) PROVE UNCHANGED <<owner, task, starting>>
  BY <1>5 DEF Heartbeat
<1>6. ASSUME NEW t \in Tasks, OwnerStep(t)
      PROVE  /\ Live(t) /\ UNCHANGED starting /\ owner'[t] # "none"
             /\ \A u \in Tasks \ {t} : owner'[u] = owner[u]
             /\ UNCHANGED task \/ Settle(t)
  BY <1>6 DEF OwnerStep, BootFails, BootLeases, ResolveFails, MakeRuntime, RunReturns, Close, Settle,
              Fails, Reaches, Live, RuntimeExists, IInv, Typed
<1>7. CASE UNCHANGED vars
  BY <1>7 DEF vars
<1>8. QED
  BY <1>1, <1>2, <1>3, <1>4, <1>5, <1>6, <1>7 DEF Next

\* A task at work is self._task, which is then what TaskActive asks for.
LEMMA LiveIsActive ==
  ASSUME IInv
  PROVE  TaskActive <=> \E t \in Tasks : Live(t)
BY ControlAssumption DEF IInv, Typed, TaskCreated, OneOwner, Live, TaskActive, Ended

LEMMA OwnerKept == IInv /\ [Next]_vars => TaskCreated' /\ OneOwner'
<1> SUFFICES ASSUME IInv, [Next]_vars PROVE TaskCreated' /\ OneOwner'
  OBVIOUS
<1> USE DEF IInv, Typed, TaskCreated, OneOwner, Live
<1>1. CASE UNCHANGED <<owner, task, starting>>
  BY <1>1
<1>2. CASE StartBegins /\ UNCHANGED <<owner, task>>
  <2>1. \A t \in Tasks : ~Live(t)
    BY <1>2, LiveIsActive DEF StartBegins, MayStart
  <2>2. QED
    BY <1>2, <2>1
<1>3. CASE StartRejected /\ UNCHANGED <<owner, task>> /\ ~starting'
  BY <1>3
<1>4. CASE StartAccepted
  <2>1. \A t \in Tasks : ~Live(t)
    BY <1>4 DEF StartAccepted
  <2>2. PICK t \in Tasks : task' = t /\ owner' = [owner EXCEPT ![t] = "boot"]
    BY <1>4 DEF StartAccepted, Fresh
  <2>3. ~starting'
    BY <1>4 DEF StartAccepted
  <2>4. QED
    BY <2>1, <2>2, <2>3
<1>5. ASSUME NEW t \in Tasks, OwnerStep(t), Live(t), UNCHANGED starting, owner'[t] # "none",
             \A u \in Tasks \ {t} : owner'[u] = owner[u], UNCHANGED task \/ Settle(t)
      PROVE  TaskCreated' /\ OneOwner'
  <2>1. task = t /\ \A u \in Tasks \ {t} : ~Live(u) /\ ~Live(u)'
    BY <1>5
  <2>2. CASE UNCHANGED task
    BY <1>5, <2>1, <2>2
  <2>3. CASE Settle(t)
    BY <1>5, <2>1, <2>3 DEF Settle, Reaches
  <2>4. QED
    BY <1>5, <2>2, <2>3
<1>6. QED
  BY <1>1, <1>2, <1>3, <1>4, <1>5, StagesOfOne

LEMMA OutcomeKept == IInv /\ [Next]_vars => OutcomeKnown'
<1> SUFFICES ASSUME IInv, [Next]_vars PROVE OutcomeKnown'
  OBVIOUS
<1> USE DEF IInv, Typed, OutcomeKnown, serviceVars, taskVars
<1>1. CASE StartBegins \/ StartRejected \/ Shutdown \/ Status \/ OtherProcess
  BY <1>1 DEF StartBegins, StartRejected, Shutdown, Status, OtherProcess
<1>2. CASE StartAccepted
  BY <1>2 DEF StartAccepted, Fresh
<1>3. ASSUME NEW s \in Stops, StopBegins(s) \/ StopGivesUp(s) \/ StopTimesOut(s) \/ StopSucceeds(s)
      PROVE  OutcomeKnown'
  BY <1>3 DEF StopBegins, StopGivesUp, StopTimesOut, StopSucceeds
<1>4. ASSUME NEW t \in Tasks, OwnerStep(t) PROVE OutcomeKnown'
  <2>1. CASE BootFails(t) \/ BootLeases(t) \/ ResolveFails(t) \/ MakeRuntime(t) \/ Close(t) \/ Settle(t)
    BY <2>1 DEF BootFails, BootLeases, ResolveFails, MakeRuntime, Close, Settle, Fails, Reaches
  <2>2. CASE RunReturns(t)
    BY <2>2 DEF RunReturns, Reaches, OutcomeOf
  <2>3. QED
    BY <1>4, <2>1, <2>2 DEF OwnerStep
<1>5. ASSUME NEW t \in Tasks, Lives(t, RuntimeTurns) \/ Lives(t, RuntimeEnds) PROVE OutcomeKnown'
  BY <1>5, LifeOfOne
<1>6. ASSUME NEW t \in Tasks, Heartbeat(t) PROVE OutcomeKnown'
  BY <1>6 DEF Heartbeat
<1>7. CASE UNCHANGED vars
  BY <1>7 DEF vars
<1>8. QED
  BY <1>1, <1>2, <1>3, <1>4, <1>5, <1>6, <1>7 DEF Next

LEMMA LeaseKept == IInv /\ [Next]_vars => Leased'
<1> SUFFICES ASSUME IInv, [Next]_vars PROVE Leased'
  OBVIOUS
<1> USE ControlAssumption DEF IInv, Typed, Leased, serviceVars, taskVars
<1>1. CASE StartBegins \/ StartRejected \/ Shutdown \/ Status \/ OtherProcess
  BY <1>1 DEF StartBegins, StartRejected, Shutdown, Status, OtherProcess
<1>2. CASE StartAccepted
  BY <1>2 DEF StartAccepted, Fresh
<1>3. ASSUME NEW s \in Stops, StopBegins(s) \/ StopGivesUp(s) \/ StopTimesOut(s) \/ StopSucceeds(s)
      PROVE  Leased'
  BY <1>3 DEF StopBegins, StopGivesUp, StopTimesOut, StopSucceeds
<1>4. ASSUME NEW t \in Tasks, OwnerStep(t) PROVE Leased'
  <2>1. CASE BootFails(t) \/ Close(t) \/ Settle(t)
    BY <2>1 DEF BootFails, Close, Settle, Fails, Reaches
  <2>2. CASE BootLeases(t)
    BY <2>2 DEF BootLeases, Reaches
  <2>3. CASE MakeRuntime(t)
    BY <2>3 DEF MakeRuntime, Reaches
  <2>4. CASE ResolveFails(t) \/ RunReturns(t)
    <3>1. lease = t /\ \A u \in Tasks \ {t} : owner[u] \notin {"resolve", "run"}
      BY <2>4 DEF ResolveFails, RunReturns, RuntimeExists
    <3>2. owner' = [owner EXCEPT ![t] = "close"]
      BY <2>4 DEF ResolveFails, RunReturns, Fails, Reaches
    <3>3. QED
      BY <3>1, <3>2
  <2>5. QED
    BY <1>4, <2>1, <2>2, <2>3, <2>4 DEF OwnerStep
<1>5. ASSUME NEW t \in Tasks, Lives(t, RuntimeTurns) \/ Lives(t, RuntimeEnds) PROVE Leased'
  BY <1>5, LifeOfOne
<1>6. ASSUME NEW t \in Tasks, Heartbeat(t) PROVE Leased'
  BY <1>6 DEF Heartbeat
<1>7. CASE UNCHANGED vars
  BY <1>7 DEF vars
<1>8. QED
  BY <1>1, <1>2, <1>3, <1>4, <1>5, <1>6, <1>7 DEF Next

LEMMA StopKept == IInv /\ [Next]_vars => StopRemembered'
<1> SUFFICES ASSUME IInv, [Next]_vars PROVE StopRemembered'
  OBVIOUS
<1> USE DEF IInv, Typed, StopRemembered, RuntimeExists, serviceVars, taskVars
<1>1. CASE StartBegins \/ StartRejected \/ Shutdown \/ Status \/ OtherProcess
  BY <1>1 DEF StartBegins, StartRejected, Shutdown, Status, OtherProcess
<1>2. CASE StartAccepted
  BY <1>2 DEF StartAccepted, Fresh
<1>3. ASSUME NEW s \in Stops, StopBegins(s) PROVE StopRemembered'
  <2>1. CASE TaskActive
    <3>1. task \in Tasks /\ BootstrapStop(task) /\ UNCHANGED owner
      BY <1>3, <2>1 DEF StopBegins, TaskActive
    <3>2. QED
      BY <3>1, StopOfOne
  <2>2. CASE ~TaskActive
    BY <1>3, <2>2 DEF StopBegins
  <2>3. QED
    BY <2>1, <2>2
<1>4. ASSUME NEW s \in Stops, StopGivesUp(s) \/ StopTimesOut(s) \/ StopSucceeds(s)
      PROVE  StopRemembered'
  BY <1>4 DEF StopGivesUp, StopTimesOut, StopSucceeds
<1>5. ASSUME NEW t \in Tasks, OwnerStep(t) PROVE StopRemembered'
  <2>1. CASE BootFails(t) \/ BootLeases(t) \/ ResolveFails(t) \/ RunReturns(t) \/ Close(t) \/ Settle(t)
    BY <2>1 DEF BootFails, BootLeases, ResolveFails, RunReturns, Close, Settle, Fails, Reaches
  <2>2. CASE MakeRuntime(t)
    BY <2>2 DEF MakeRuntime, Reaches, Lifetimes
  <2>3. QED
    BY <1>5, <2>1, <2>2 DEF OwnerStep
<1>6. ASSUME NEW t \in Tasks, Lives(t, RuntimeTurns) \/ Lives(t, RuntimeEnds) PROVE StopRemembered'
  BY <1>6, LifeOfOne
<1>7. ASSUME NEW t \in Tasks, Heartbeat(t) PROVE StopRemembered'
  BY <1>7 DEF Heartbeat
<1>8. CASE UNCHANGED vars
  BY <1>8 DEF vars
<1>9. QED
  BY <1>1, <1>2, <1>3, <1>4, <1>5, <1>6, <1>7, <1>8 DEF Next

\* A start is only decided on in a state that calls for one.
LEMMA StartsFromRest ==
  ASSUME IInv, starting
  PROVE  ~TaskActive /\ state \notin {"starting", "running", "stopping"}
BY LiveIsActive DEF IInv, OneOwner, ActiveStatesAreTrue

LEMMA ActiveKept == IInv /\ [Next]_vars => ActiveStatesAreTrue' /\ NotStopped'
<1> SUFFICES ASSUME IInv, [Next]_vars PROVE ActiveStatesAreTrue' /\ NotStopped'
  OBVIOUS
<1> USE DEF IInv, Typed, ActiveStatesAreTrue, NotStopped, TaskActive, Ended, serviceVars, taskVars
<1>1. CASE StartBegins \/ StartRejected \/ Shutdown \/ OtherProcess
  BY <1>1 DEF StartBegins, StartRejected, Shutdown, OtherProcess
<1>2. CASE StartAccepted
  <2>1. PICK t \in Tasks : task' = t /\ owner' = [owner EXCEPT ![t] = "boot"]
    BY <1>2 DEF StartAccepted, Fresh
  <2>2. task' # NoTask /\ owner'[task'] = "boot" /\ state' = "starting"
    BY <1>2, <2>1, ControlAssumption DEF StartAccepted
  <2>3. QED
    BY <2>2
<1>3. CASE Status
  BY <1>3 DEF Status, Observed
<1>4. ASSUME NEW s \in Stops, StopBegins(s) PROVE ActiveStatesAreTrue' /\ NotStopped'
  BY <1>4 DEF StopBegins
<1>5. ASSUME NEW s \in Stops, StopGivesUp(s) \/ StopTimesOut(s) \/ StopSucceeds(s)
      PROVE  ActiveStatesAreTrue' /\ NotStopped'
  BY <1>5 DEF StopGivesUp, StopTimesOut, StopSucceeds
<1>6. ASSUME NEW t \in Tasks, OwnerStep(t) PROVE ActiveStatesAreTrue' /\ NotStopped'
  <2>1. task = t /\ TaskActive
    BY <1>6, ControlAssumption DEF OwnerStep, BootFails, BootLeases, ResolveFails, MakeRuntime,
          RunReturns, Close, Settle, RuntimeExists, OneOwner, Live
  <2>2. CASE Settle(t)
    <3>1. task' = NoTask /\ state' \in {"stopped", "failed"}
      BY <2>1, <2>2 DEF Settle, OutcomeKnown
    <3>2. QED
      BY <3>1
  <2>3. CASE ~Settle(t)
    <3>1. UNCHANGED <<state, task>> /\ owner'[t] # "done"
      BY <1>6, <2>3 DEF OwnerStep, BootFails, BootLeases, ResolveFails, MakeRuntime,
            RunReturns, Close, Fails, Reaches
    <3>2. QED
      BY <2>1, <3>1
  <2>4. QED
    BY <2>2, <2>3
<1>7. ASSUME NEW t \in Tasks, Lives(t, RuntimeTurns) \/ Lives(t, RuntimeEnds)
      PROVE  ActiveStatesAreTrue' /\ NotStopped'
  BY <1>7, LifeOfOne
<1>8. ASSUME NEW t \in Tasks, Heartbeat(t) PROVE ActiveStatesAreTrue' /\ NotStopped'
  <2>1. TaskActive
    BY <1>8, LiveIsActive DEF Heartbeat, RuntimeExists, Live
  <2>2. QED
    BY <1>8, <2>1 DEF Heartbeat, Observed
<1>9. CASE UNCHANGED vars
  BY <1>9 DEF vars
<1>10. QED
  BY <1>1, <1>2, <1>3, <1>4, <1>5, <1>6, <1>7, <1>8, <1>9 DEF Next

\* Which steps change the state into one that means a monitor is at work.
LEMMA MovesOf ==
  ASSUME IInv, Next
  PROVE  <<state, state'>> \notin {<<"stopped", "running">>, <<"running", "starting">>,
                                   <<"stopping", "starting">>}
<1> USE DEF IInv, Typed, serviceVars, taskVars
<1>1. CASE StartBegins \/ StartRejected \/ Shutdown \/ OtherProcess
  BY <1>1 DEF StartBegins, StartRejected, Shutdown, OtherProcess
<1>2. CASE StartAccepted
  BY <1>2, StartsFromRest DEF StartAccepted
<1>3. CASE Status
  BY <1>3 DEF Status, Observed, NotStopped
<1>4. ASSUME NEW s \in Stops, StopBegins(s) \/ StopGivesUp(s) \/ StopTimesOut(s) \/ StopSucceeds(s)
      PROVE  state' \in {state, "stopping", "degraded"}
  BY <1>4 DEF StopBegins, StopGivesUp, StopTimesOut, StopSucceeds
<1>5. ASSUME NEW t \in Tasks, OwnerStep(t) PROVE state' \in {state, "stopped", "failed"}
  BY <1>5 DEF OwnerStep, BootFails, BootLeases, ResolveFails, MakeRuntime, RunReturns, Close, Settle,
              OutcomeKnown
<1>6. ASSUME NEW t \in Tasks, Lives(t, RuntimeTurns) \/ Lives(t, RuntimeEnds) PROVE UNCHANGED state
  BY <1>6, LifeOfOne
<1>7. ASSUME NEW t \in Tasks, Heartbeat(t)
      PROVE  state # "stopped" /\ state' \in {"running", "failed", "degraded", state}
  <2>1. TaskActive
    BY <1>7, LiveIsActive DEF Heartbeat, RuntimeExists, Live
  <2>2. QED
    BY <1>7, <2>1 DEF Heartbeat, Observed, NotStopped
<1>8. QED
  BY <1>1, <1>2, <1>3, <1>4, <1>5, <1>6, <1>7 DEF Next

LEMMA OrderKept == IInv /\ [Next]_vars => Ordered'
<1> SUFFICES ASSUME IInv, [Next]_vars PROVE Ordered'
  OBVIOUS
<1> USE DEF IInv, Ordered, serviceVars, taskVars
<1>1. CASE StartBegins \/ StartRejected \/ StartAccepted \/ Shutdown \/ Status \/ OtherProcess
  BY <1>1 DEF StartBegins, MayStart, StartRejected, StartAccepted, Shutdown, LockFree, Status, OtherProcess
<1>2. ASSUME NEW s \in Stops, StopBegins(s) \/ StopGivesUp(s) \/ StopTimesOut(s) \/ StopSucceeds(s)
      PROVE  UNCHANGED <<starting, shuttingDown>>
  BY <1>2 DEF StopBegins, StopGivesUp, StopTimesOut, StopSucceeds
<1>3. ASSUME NEW t \in Tasks, OwnerStep(t) PROVE UNCHANGED <<starting, shuttingDown>>
  BY <1>3 DEF OwnerStep, BootFails, BootLeases, ResolveFails, MakeRuntime, RunReturns, Close, Settle
<1>4. ASSUME NEW t \in Tasks, Lives(t, RuntimeTurns) \/ Lives(t, RuntimeEnds)
      PROVE  UNCHANGED <<starting, shuttingDown>>
  BY <1>4, LifeOfOne
<1>5. ASSUME NEW t \in Tasks, Heartbeat(t) PROVE UNCHANGED <<starting, shuttingDown>>
  BY <1>5 DEF Heartbeat
<1>6. CASE UNCHANGED vars
  BY <1>6 DEF vars
<1>7. QED
  BY <1>1, <1>2, <1>3, <1>4, <1>5, <1>6 DEF Next

\* Only an accepted start makes a task, and it holds the lock that shutdown() needs.
LEMMA NoTaskBehindShutdown ==
  ASSUME IInv, [Next]_vars, shuttingDown
  PROVE  \A t \in Tasks : owner[t] = "none" => owner'[t] = "none"
<1>1. ~StartAccepted
  BY DEF IInv, Ordered, StartAccepted
<1>2. QED
  BY <1>1, StagesOfOne DEF Live, IInv

LEMMA Invariant == Spec => []IInv
<1>1. IInv /\ [Next]_vars => IInv'
  BY TypedKept, OwnerKept, OutcomeKept, LeaseKept, StopKept, ActiveKept, OrderKept DEF IInv
<1>2. QED
  BY InitHolds, <1>1, PTL DEF Spec

\* However starts, stops, timeouts, ends and status polls overlap, one owner task at most is
\* at work, and it is self._task (start() and _run_owned_bootstrap of control.py).
THEOREM SingleOwner == Spec => []OneOwner
BY Invariant, PTL DEF IInv

\* A runtime runs under the session lease, whatever other processes do with it
\* (MonitorBootstrap.run of bootstrap.py, acquire() and release()).
THEOREM LeaseOutlivesRuntime == Spec => []SessionExclusive
<1>1. IInv => SessionExclusive
  BY DEF IInv, Leased, SessionExclusive, RuntimeExists
<1>2. QED
  BY Invariant, <1>1, PTL

\* A stop that came before the runtime existed reaches it (MonitorBootstrap.stop).
THEOREM StopReachesRuntime == Spec => []StopRemembered
BY Invariant, PTL DEF IInv

\* The control state never claims a monitor that is not there (_state and _task).
THEOREM StateIsTrue == Spec => []ActiveStatesAreTrue
BY Invariant, PTL DEF IInv

\* Neither a late heartbeat nor a late end moves the state where the design forbids it.
THEOREM MovesAreAllowed == Spec => NoForbiddenMove
<1>1. IInv /\ [Next]_vars => [<<state, state'>> \notin {<<"stopped", "running">>,
                                <<"running", "starting">>, <<"stopping", "starting">>}]_state
  BY MovesOf DEF vars, serviceVars
<1>2. QED
  BY Invariant, <1>1, PTL DEF Spec, NoForbiddenMove

\* No start slips in behind shutdown() (_shutdown_task and MayStart's first line).
THEOREM NothingStartsBehindShutdown == Spec => NoStartAfterShutdown
<1>1. IInv /\ [Next]_vars =>
        [shuttingDown => \A t \in Tasks : owner[t] = "none" => owner'[t] = "none"]_vars
  BY NoTaskBehindShutdown
<1>2. QED
  BY Invariant, <1>1, PTL DEF Spec, NoStartAfterShutdown
=============================================================================
