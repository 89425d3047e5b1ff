-------------------------- MODULE MonitorRuntime --------------------------
(***************************************************************************)
(* MonitorRuntime: the run() task, the handler tasks the Telegram client   *)
(* starts for its events, and the heartbeat task. They share one event     *)
(* loop, so the code between two awaits is one action; runPc names the     *)
(* await the run() task is at. The client's methods count as awaits        *)
(* (_maybe_await).                                                         *)
(***************************************************************************)
EXTENDS Naturals

CONSTANTS
  MaxInflight,       \* config.max_inflight_events
  MaxAttempts,       \* config.max_reconnect_attempts; Unlimited stands for None
  Unlimited,
  FloatExponents,    \* exponents e for which 2**e converts to a float (1024 in CPython)
  MaxEvents,         \* bound: events the client receives
  MaxDrops,          \* bound: connections the client loses
  MaxFaults,         \* bound: calls of the client or of the heartbeat sink that raise
  MaxCancels         \* bound: cancellations of the run() task

ASSUME RuntimeAssumption ==
  /\ MaxInflight \in Nat \ {0} /\ FloatExponents \in Nat \ {0}
  /\ MaxAttempts \in Nat \cup {Unlimited} /\ Unlimited \notin Nat
  /\ MaxEvents \in Nat /\ MaxDrops \in Nat /\ MaxFaults \in Nat /\ MaxCancels \in Nat

VARIABLES
  state,              \* self.state
  runPc,              \* the await the run() task is at
  reason,             \* self.shutdown_reason
  stopRequested,      \* self._stop_requested
  connected,          \* self.connected
  handlerRegistered,  \* self.handler_registered
  attempts,           \* self.reconnect_attempt_total
  blockers,           \* self._blockers, those of the shutdown
  heartbeat,          \* the heartbeat task
  summary,            \* what run() returned
  inflight,           \* self.inflight_handler_tasks
  count,              \* the event counters
  ingesting,          \* handler tasks awaiting ingest_incoming
  processing,         \* handler tasks awaiting process_raw_message
  client,             \* the Telegram client: up, and registrations of our handler
  calls,              \* handler calls the client has scheduled but not made
  events, drops, faults, cancels  \* used up so far

runVars     == <<state, runPc, reason, stopRequested, connected, handlerRegistered, attempts,
                 blockers, heartbeat, summary>>
handlerVars == <<inflight, count, ingesting, processing>>
boundVars   == <<events, drops, faults, cancels>>
vars == <<runVars, handlerVars, client, calls, boundVars>>

States == {"created", "connecting", "registering_handler", "listening", "degraded",
           "draining", "stopped", "failed"}
MainAwaits     == {"connect", "register", "undo", "wait", "unregister", "backoff"}
ShutdownAwaits == {"drain", "remove", "disconnect", "stop_heartbeat"}
Reasons == {"not_started", "startup_failed", "operator_stop", "client_disconnected",
            "runtime_failed", "cancelled"}

(***************************************************************************)
(* The counters. `accepted` joins ingest_stored_total and                  *)
(* ingest_duplicate_total, `refused` ingest_rejected_total and             *)
(* ingest_failed_total.                                                    *)
(***************************************************************************)
Counters == {"seen", "matched", "rejected", "errors", "ingest", "accepted", "refused",
             "process", "success", "already", "failed"}

Counted(names) == [c \in Counters |-> IF c \in names THEN count[c] + 1 ELSE count[c]]

NoSummary == [built |-> FALSE]

Init ==
  /\ state = "created" /\ runPc = "new" /\ reason = "not_started"
  /\ stopRequested = FALSE /\ connected = FALSE /\ handlerRegistered = FALSE /\ attempts = 0 /\ blockers = {}
  /\ heartbeat = "none" /\ summary = NoSummary
  /\ inflight = 0 /\ count = [c \in Counters |-> 0] /\ ingesting = 0 /\ processing = 0
  /\ client = [up |-> FALSE, handlers |-> 0] /\ calls = 0
  /\ events = 0 /\ drops = 0 /\ faults = 0 /\ cancels = 0

At(await) == runPc = await

CallReturns  == UNCHANGED boundVars
CallRaises ==
  /\ faults < MaxFaults
  /\ faults' = faults + 1
  /\ UNCHANGED <<events, drops, cancels>>

(***************************************************************************)
(* _shutdown up to its first await; s is the state it is entered in.       *)
(***************************************************************************)
\* Variant with a bug: the client is disconnected without removing the handler.
DisconnectOnly(registered) == "disconnect"

RemovalStep(registered) == IF registered THEN "remove" ELSE "disconnect"

\* Variant with a bug: handlers still at work are not waited for.
EnterShutdownWithoutDrain(s, registered) ==
  /\ state' = IF s = "failed" THEN s ELSE "draining"
  /\ stopRequested' = TRUE
  /\ runPc' = RemovalStep(registered)

EnterShutdown(s, registered) ==
  /\ state' = IF s = "failed" THEN s ELSE "draining"
  /\ stopRequested' = TRUE
  /\ runPc' = IF inflight > 0 THEN "drain" ELSE RemovalStep(registered)

(***************************************************************************)
(* Startup, connect and register (_connect_and_register is the same code   *)
(* for a reconnect, attempts > 0).                                         *)
(***************************************************************************)
Reconnecting == attempts > 0

Start ==
  /\ At("new")
  /\ \/ /\ state' = "connecting" /\ runPc' = "connect"
        /\ UNCHANGED <<reason, stopRequested>>
     \/ /\ reason' = "startup_failed"
        /\ EnterShutdown("failed", handlerRegistered)
  /\ UNCHANGED <<connected, handlerRegistered, attempts, blockers, heartbeat, summary>>
  /\ UNCHANGED <<handlerVars, client, calls, boundVars>>

FailConnecting ==
  /\ reason' = IF Reconnecting THEN "runtime_failed" ELSE "startup_failed"
  /\ EnterShutdown("failed", handlerRegistered)

Connect ==
  /\ At("connect")
  /\ \/ /\ CallReturns
        /\ client' = [client EXCEPT !.up = TRUE]
        /\ connected' = TRUE
        /\ state' = "registering_handler" /\ runPc' = "register"
        /\ UNCHANGED <<reason, stopRequested>>
     \/ /\ CallRaises
        /\ connected' = FALSE
        /\ FailConnecting
        /\ UNCHANGED client
  /\ UNCHANGED <<handlerRegistered, attempts, blockers, heartbeat, summary, handlerVars, calls>>

Listen == state' = "listening" /\ runPc' = "wait" /\ UNCHANGED stopRequested

\* Variant with a bug: a stop requested during the await is not looked at.
ListenRegardless == Listen

AfterRegistration ==
  \/ ~stopRequested /\ Listen
  \/ stopRequested /\ EnterShutdown("listening", TRUE)

\* Variant with a bug: a failed registration is recorded, and that is all.
ListenUnregistered == Listen

AfterRefusal == state' = "failed" /\ runPc' = "undo" /\ UNCHANGED stopRequested

Register ==
  /\ At("register")
  /\ \/ /\ CallReturns
        /\ client' = [client EXCEPT !.handlers = @ + 1]
        /\ handlerRegistered' = TRUE
        /\ heartbeat' = IF Reconnecting THEN heartbeat ELSE "loop"
        /\ AfterRegistration
     \/ /\ CallRaises
        /\ AfterRefusal
        /\ UNCHANGED <<client, handlerRegistered, heartbeat>>
  /\ UNCHANGED <<reason, connected, attempts, blockers, summary, handlerVars, calls>>

\* The disconnect after a failed registration.
Undo ==
  /\ At("undo")
  /\ \/ CallReturns /\ client' = [client EXCEPT !.up = FALSE] /\ connected' = FALSE
     \/ CallRaises /\ UNCHANGED <<client, connected>>
  /\ FailConnecting
  /\ UNCHANGED <<handlerRegistered, attempts, blockers, heartbeat, summary, handlerVars, calls>>

(***************************************************************************)
(* _wait_until_stop_or_disconnect and _reconnect_after_disconnect.         *)
(***************************************************************************)
WaitReturns ==
  /\ At("wait")
  /\ \/ /\ stopRequested
        /\ reason' = "operator_stop"
        /\ EnterShutdown("listening", handlerRegistered)
        /\ UNCHANGED connected
     \/ /\ ~stopRequested /\ ~client.up
        /\ reason' = "client_disconnected"
        /\ state' = "degraded" /\ connected' = FALSE
        /\ runPc' = "unregister"
        /\ UNCHANGED stopRequested
  /\ UNCHANGED <<handlerRegistered, attempts, blockers, heartbeat, summary>>
  /\ UNCHANGED <<handlerVars, client, calls, boundVars>>

\* _remove_handler. An older registration that was never removed may stay at the client.
RemoveHandler ==
  \/ /\ CallReturns
     /\ \E n \in {0, client.handlers - 1} : client' = [client EXCEPT !.handlers = n]
     /\ handlerRegistered' = FALSE
     /\ UNCHANGED blockers
  \/ /\ CallRaises
     /\ blockers' = blockers \cup {"handler_remove_failed"}
     /\ UNCHANGED <<client, handlerRegistered>>

\* reconnect_attempt_total is only ever incremented, and the delay of attempt n is
\* initial * (2 ** (n - 1)), capped afterwards: the product raises OverflowError once the
\* power has no float. That ends run() as UNEXPECTED_EXCEPTION.
Exhausted(n)  == MaxAttempts # Unlimited /\ n > MaxAttempts
DelayFails(n) == n - 1 >= FloatExponents

Unregister ==
  /\ At("unregister")
  /\ RemoveHandler
  /\ attempts' = attempts + 1
  /\ \/ /\ Exhausted(attempts') \/ DelayFails(attempts')
        /\ reason' = "runtime_failed"
        /\ EnterShutdown("failed", handlerRegistered')
     \/ /\ ~Exhausted(attempts') /\ ~DelayFails(attempts')
        /\ runPc' = "backoff"
        /\ UNCHANGED <<state, reason, stopRequested>>
  /\ UNCHANGED <<connected, heartbeat, summary, handlerVars, calls>>

\* A stop during the sleep is seen only when it ends.
BackoffEnds ==
  /\ At("backoff")
  /\ \/ /\ stopRequested
        /\ reason' = "runtime_failed"
        /\ EnterShutdown("degraded", handlerRegistered)
     \/ /\ ~stopRequested
        /\ state' = "connecting" /\ runPc' = "connect"
        /\ UNCHANGED <<reason, stopRequested>>
  /\ UNCHANGED <<connected, handlerRegistered, attempts, blockers, heartbeat, summary>>
  /\ UNCHANGED <<handlerVars, client, calls, boundVars>>

(***************************************************************************)
(* _shutdown: drain, remove, disconnect, stop the heartbeat.               *)
(***************************************************************************)
\* Variant with a bug: the deadline is not looked at.
DrainWithoutDeadline ==
  /\ At("drain")
  /\ inflight = 0
  /\ runPc' = RemovalStep(handlerRegistered)
  /\ UNCHANGED <<state, reason, stopRequested, connected, handlerRegistered, attempts, blockers,
                 heartbeat, summary, handlerVars, client, calls, boundVars>>

Drain ==
  /\ At("drain")
  /\ blockers' = IF inflight = 0 THEN blockers ELSE blockers \cup {"drain_timeout"}
  /\ runPc' = RemovalStep(handlerRegistered)
  /\ UNCHANGED <<state, reason, stopRequested, connected, handlerRegistered, attempts, heartbeat,
                 summary, handlerVars, client, calls, boundVars>>

Remove ==
  /\ At("remove")
  /\ RemoveHandler
  /\ runPc' = "disconnect"
  /\ UNCHANGED <<state, reason, stopRequested, connected, attempts, heartbeat, summary,
                 handlerVars, calls>>

\* The end of run(): the summary is built unless a cancellation is being re-raised.
Finish ==
  /\ runPc' = "done"
  /\ state' = IF state = "failed" THEN state ELSE "stopped"
  /\ summary' = IF reason = "cancelled" THEN NoSummary ELSE [built |-> TRUE, count |-> count]

Disconnect ==
  /\ At("disconnect")
  /\ \/ CallReturns /\ client' = [client EXCEPT !.up = FALSE] /\ connected' = FALSE
        /\ UNCHANGED blockers
     \/ CallRaises /\ blockers' = blockers \cup {"disconnect_failed"}
        /\ UNCHANGED <<client, connected>>
  /\ \/ heartbeat \in {"none", "ended"} /\ Finish /\ UNCHANGED heartbeat
     \/ heartbeat = "crashed" /\ runPc' = "done" /\ UNCHANGED <<state, summary, heartbeat>>
     \/ /\ heartbeat \in {"loop", "rest"}
        /\ heartbeat' = "cancelling" /\ runPc' = "stop_heartbeat"
        /\ UNCHANGED <<state, summary>>
  /\ UNCHANGED <<reason, stopRequested, handlerRegistered, attempts, handlerVars, calls>>

StopHeartbeat ==
  /\ At("stop_heartbeat")
  /\ heartbeat = "ended"
  /\ Finish
  /\ UNCHANGED <<reason, stopRequested, connected, handlerRegistered, attempts, blockers, heartbeat>>
  /\ UNCHANGED <<handlerVars, client, calls, boundVars>>

\* A cancellation of the run() task is raised at its await. In the main part it leads to
\* _shutdown; inside _shutdown it cuts the rest short, except that _stop_heartbeat takes it
\* for the heartbeat's own.
Cancel ==
  /\ cancels < MaxCancels
  /\ cancels' = cancels + 1
  /\ \/ /\ runPc \in MainAwaits
        /\ reason' = "cancelled"
        /\ EnterShutdown(state, handlerRegistered)
        /\ UNCHANGED summary
     \/ /\ runPc \in ShutdownAwaits \ {"stop_heartbeat"}
        /\ runPc' = "done"
        /\ UNCHANGED <<state, reason, stopRequested, summary>>
     \/ /\ runPc = "stop_heartbeat"
        /\ Finish
        /\ UNCHANGED <<reason, stopRequested>>
  /\ UNCHANGED <<connected, handlerRegistered, attempts, blockers, heartbeat, handlerVars>>
  /\ UNCHANGED <<client, calls, events, drops, faults>>

(***************************************************************************)
(* The heartbeat task: it looks at the state, emits, sleeps. A sink that   *)
(* raises ends it, and nobody notices before _stop_heartbeat awaits it.    *)
(***************************************************************************)
HeartbeatStep ==
  /\ \/ /\ heartbeat = "loop"
        /\ heartbeat' = IF stopRequested \/ state \in {"stopped", "failed"} THEN "ended" ELSE "rest"
        /\ UNCHANGED boundVars
     \/ heartbeat = "loop" /\ ~stopRequested /\ state # "failed" /\ heartbeat' = "crashed" /\ CallRaises
     \/ heartbeat = "rest" /\ heartbeat' = "loop" /\ UNCHANGED boundVars
     \/ heartbeat = "cancelling" /\ heartbeat' = "ended" /\ UNCHANGED boundVars
  /\ UNCHANGED <<state, runPc, reason, stopRequested, connected, handlerRegistered, attempts,
                 blockers, summary, handlerVars, client, calls>>

(***************************************************************************)
(* _handle_event and the two boundaries it awaits, both configured.        *)
(***************************************************************************)
Call(names, inflightNow, ingestingNow) ==
  /\ calls > 0
  /\ calls' = calls - 1
  /\ count' = Counted(names)
  /\ inflight' = inflightNow /\ ingesting' = ingestingNow
  /\ UNCHANGED <<runVars, processing, client, boundVars>>

Accepting == state = "listening" /\ ~stopRequested

\* Variant with a bug: one handler more than the limit is admitted.
RoomForOneMore == inflight <= MaxInflight

Room == inflight < MaxInflight

HandleEvent ==
  \/ ~Accepting /\ Call({}, inflight, ingesting)
  \/ Accepting /\ ~Room /\ Call({"rejected", "errors"}, inflight, ingesting)
  \/ /\ Accepting /\ Room
     /\ \/ Call({"errors"}, inflight, ingesting)            \* conversion or filter raises
        \/ Call({"seen", "rejected"}, inflight, ingesting)  \* no match
        \/ Call({"seen", "matched", "ingest"}, inflight + 1, ingesting + 1)

\* ingest_incoming returns; only a stored or duplicate message with a usable id is
\* processed.
IngestReturns ==
  /\ ingesting > 0
  /\ ingesting' = ingesting - 1
  /\ \/ /\ count' = Counted({"accepted", "process"})
        /\ processing' = processing + 1
        /\ UNCHANGED inflight
     \/ /\ \E outcome \in {"accepted", "refused"} : count' = Counted({outcome})
        /\ inflight' = inflight - 1
        /\ UNCHANGED processing
  /\ UNCHANGED <<runVars, client, calls, boundVars>>

\* Variant with a bug: an invalid result is recorded and not counted.
ProcessReturnsUncounted ==
  /\ processing > 0
  /\ processing' = processing - 1
  /\ inflight' = inflight - 1
  /\ \/ \E outcome \in {"success", "already"} : count' = Counted({outcome})
     \/ UNCHANGED count
  /\ UNCHANGED <<runVars, ingesting, client, calls, boundVars>>

ProcessReturns ==
  /\ processing > 0
  /\ processing' = processing - 1
  /\ inflight' = inflight - 1
  /\ \E outcome \in {"success", "already", "failed"} : count' = Counted({outcome})
  /\ UNCHANGED <<runVars, ingesting, client, calls, boundVars>>

(***************************************************************************)
(* The operator and the client.                                            *)
(***************************************************************************)
Stop ==
  /\ ~At("done")
  /\ stopRequested' = TRUE
  /\ UNCHANGED <<state, runPc, reason, connected, handlerRegistered, attempts, blockers, heartbeat,
                 summary, handlerVars, client, calls, boundVars>>

\* One scheduled call per registration; a call already scheduled outlives the registration.
EventArrives ==
  /\ client.up /\ client.handlers > 0 /\ events < MaxEvents
  /\ events' = events + 1
  /\ calls' = calls + client.handlers
  /\ UNCHANGED <<runVars, handlerVars, client, drops, faults, cancels>>

ClientDrops ==
  /\ client.up /\ drops < MaxDrops
  /\ drops' = drops + 1
  /\ client' = [client EXCEPT !.up = FALSE]
  /\ UNCHANGED <<runVars, handlerVars, calls, events, faults, cancels>>

\* run() has returned and no handler call or task is left.
Over == At("done") /\ calls = 0 /\ inflight = 0 /\ heartbeat \in {"none", "ended", "crashed"}
        /\ UNCHANGED vars

RunStep == \/ Start \/ Connect \/ Register \/ Undo \/ WaitReturns \/ Unregister \/ BackoffEnds
           \/ Drain \/ Remove \/ Disconnect \/ StopHeartbeat

HandlerStep == HandleEvent \/ IngestReturns \/ ProcessReturns

Next == RunStep \/ Cancel \/ HeartbeatStep \/ HandlerStep \/ Stop \/ EventArrives \/ ClientDrops
        \/ Over

Spec == Init /\ [][Next]_vars

\* Awaits of the run() task return: the client answers, sleeps end, the drain has a
\* deadline. The heartbeat task reaches its next await. Handlers may hang.
FairSpec == Spec /\ WF_vars(RunStep) /\ WF_vars(HeartbeatStep)
-----------------------------------------------------------------------------
(***************************************************************************)
(* Properties                                                              *)
(***************************************************************************)
TypeOK ==
  /\ state \in States /\ reason \in Reasons
  /\ runPc \in MainAwaits \cup ShutdownAwaits \cup {"new", "done"}
  /\ {stopRequested, connected, handlerRegistered, client.up} \subseteq BOOLEAN
  /\ attempts \in 0..drops
  /\ blockers \subseteq {"handler_remove_failed", "drain_timeout", "disconnect_failed"}
  /\ heartbeat \in {"none", "loop", "rest", "cancelling", "ended", "crashed"}
  /\ count \in [Counters -> Nat]
  /\ {inflight, ingesting, processing, client.handlers, calls} \subseteq Nat

\* The gauge the admission test and the drain rely on is the number of handlers at an
\* await, and the limit holds.
InflightExact == inflight = ingesting + processing /\ inflight <= MaxInflight

\* However the calls of _handle_event overlap and however they end, the gauge is exact and
\* the counters of the summary agree with one another at every await: each attempt is
\* under way or has exactly one outcome, and nothing is processed that was not accepted.
CountersAddUp ==
  /\ InflightExact
  /\ count["matched"] = count["ingest"]
  /\ count["ingest"] = ingesting + count["accepted"] + count["refused"]
  /\ count["process"] <= count["accepted"]
  /\ count["process"] = processing + count["success"] + count["already"] + count["failed"]

\* A summary that reports no DRAIN_TIMEOUT is final: no handler was at work when it was
\* built, and no call the client still had scheduled changes a counter afterwards.
SummaryIsComplete ==
  summary.built /\ "drain_timeout" \notin blockers => summary.count = count /\ inflight = 0

\* While run() waits, whatever was lost, reconnected or failed before, the client has a
\* registration of the handler, and the readiness flags say so.
ListeningHears == At("wait") => connected /\ handlerRegistered /\ client.handlers > 0

\* A shutdown that ran to its end, also one started by a cancellation, leaves no
\* connection and no registration behind except after a failure it reports.
CleanStop ==
  At("done") /\ (summary.built \/ state = "stopped") =>
    /\ client.up => "disconnect_failed" \in blockers
    /\ client.handlers > 0 => "handler_remove_failed" \in blockers

\* A requested stop ends run() and the heartbeat task from every await, whatever the
\* handlers do.
StopHonoured == stopRequested ~> (At("done") /\ heartbeat \in {"none", "ended", "crashed"})

\* Every step, connecting, reconnecting, cancelled or failing, is a step its owner may see.
Lifecycle == INSTANCE MonitorLifecycle WITH
  phase <- CASE At("new") -> "new"
             [] At("done") -> "over"
             [] At("wait") -> "listening"
             [] runPc \in ShutdownAwaits -> "ending"
             [] runPc \in {"connect", "register", "undo"} /\ ~Reconnecting -> "starting"
             [] OTHER -> "degraded",
  stopping <- stopRequested,
  result <- CASE ~At("done") -> "none"
              [] At("done") /\ ~summary.built -> "raised"
              [] OTHER -> state
ImplementsLifecycle == Lifecycle!LifeSpec

\* The design's promise for a reconnect: the handler is registered again, and only once.
\* The code does not meet it: the README has the circumstances.
RegisteredOnce == At("wait") => client.handlers = 1

\* Its reconnect policy lists a connect that times out among the transient errors to be
\* retried: such a failure does not end run().
\* The code does not meet it: the README has the circumstances.
ConnectRetried ==
  [][At("connect") /\ Reconnecting /\ faults' > faults => state' # "failed"]_vars

\* Its backoff goes on 1s, 2s, ... 60s, 60s for ever: with no limit on the attempts and a
\* client that answers, losing the connection never ends run().
\* The code does not meet it: the README has the circumstances.
LossNeverFatal ==
  state = "failed" => reason = "startup_failed" \/ faults > 0 \/ cancels > 0
=============================================================================
