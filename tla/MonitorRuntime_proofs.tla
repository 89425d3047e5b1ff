----------------------- MODULE MonitorRuntime_proofs -----------------------
(***************************************************************************)
(* Machine-checked proofs about MonitorRuntime: for every limit on the     *)
(* handlers and the attempts, and any number of events, losses, faults and *)
(* cancellations.                                                          *)
(***************************************************************************)
EXTENDS MonitorRuntime, TLAPS

(***************************************************************************)
(* The inductive invariant, in parts. The first ones are the types: each   *)
(* field and counter is stated by itself, which is what the steps below    *)
(* cite.                                                                   *)
(***************************************************************************)

Places ==
  /\ state \in States /\ reason \in Reasons
  /\ runPc \in MainAwaits \cup ShutdownAwaits \cup {"new", "done"}
  /\ blockers \subseteq {"handler_remove_failed", "drain_timeout", "disconnect_failed"}
  /\ heartbeat \in {"none", "loop", "rest", "cancelling", "ended", "crashed"}

Flags == stopRequested \in BOOLEAN /\ connected \in BOOLEAN /\ handlerRegistered \in BOOLEAN

ClientShape == client \in [up : BOOLEAN, handlers : Nat]

SummaryShape == summary.built \in BOOLEAN

CountShape == count \in [Counters -> Nat]

Numbers ==
  /\ inflight \in Nat /\ ingesting \in Nat /\ processing \in Nat /\ calls \in Nat /\ attempts \in Nat
  /\ events \in Nat /\ drops \in Nat /\ faults \in Nat /\ cancels \in Nat

\* Why the attempts never outnumber the losses: the run() task only comes to an attempt
\* through a loss it has not yet counted.
LossUncounted ==
  /\ attempts <= drops
  /\ runPc = "unregister" => attempts < drops
  /\ runPc \in {"register", "wait"} /\ ~client.up => attempts < drops

\* The handlers at an await and what the counters say of them; the gauge, a part of the
\* latter, stands alone for the proofs that need only it.
Handlers == InflightExact /\ CountersAddUp

\* Once shutting down, the runtime stays stopped; past the drain, no handler is at work
\* unless the drain gave up.
Drained ==
  /\ runPc \in ShutdownAwaits \cup {"done"} => stopRequested
  /\ (runPc \in {"remove", "disconnect", "stop_heartbeat"} \/ summary.built)
       /\ "drain_timeout" \notin blockers => inflight = 0
  /\ summary.built => runPc = "done"

\* The flags tell the truth about the registrations at the client.
Registered ==
  /\ handlerRegistered => client.handlers > 0
  /\ client.handlers > (IF handlerRegistered THEN 1 ELSE 0) => "handler_remove_failed" \in blockers
  /\ runPc = "register" => connected
  /\ runPc \in {"wait", "unregister", "remove"} => handlerRegistered
  /\ runPc = "wait" => connected
  /\ runPc \in {"new", "connect", "register", "undo", "backoff"} /\ handlerRegistered =>
       "handler_remove_failed" \in blockers

\* How far the shutdown has got in taking down what it found.
TakenDown ==
  /\ runPc \in {"disconnect", "stop_heartbeat"} \/ (runPc = "done" /\ (summary.built \/ state = "stopped")) =>
       (client.handlers > 0 => "handler_remove_failed" \in blockers)
  /\ runPc = "stop_heartbeat" \/ (runPc = "done" /\ (summary.built \/ state = "stopped")) =>
       (client.up => "disconnect_failed" \in blockers)
  /\ state = "stopped" => runPc = "done"

IInv ==
  /\ Places /\ Flags /\ ClientShape /\ SummaryShape /\ CountShape /\ Numbers
  /\ LossUncounted /\ Handlers /\ Drained /\ Registered /\ TakenDown /\ SummaryIsComplete
-----------------------------------------------------------------------------
\* What a removal of a registered handler does, whether or not the client raises.
LEMMA RemovalOutcome ==
  ASSUME IInv, handlerRegistered, RemoveHandler
  PROVE  /\ client' \in [up : BOOLEAN, handlers : Nat] /\ client'.up = client.up
         /\ drops' = drops
         /\ \/ /\ handlerRegistered' = FALSE /\ blockers' = blockers
               /\ client'.handlers < client.handlers
            \/ /\ handlerRegistered' = TRUE /\ client' = client
               /\ blockers' = blockers \cup {"handler_remove_failed"}
<1> USE DEF IInv, ClientShape, Registered, Flags
<1>1. client.handlers \in Nat /\ client.handlers > 0
  OBVIOUS
<1>2. drops' = drops
  BY DEF RemoveHandler, CallReturns, CallRaises, boundVars
<1>3. CASE /\ handlerRegistered' = FALSE
           /\ blockers' = blockers
           /\ \E n \in {0, client.handlers - 1} : client' = [client EXCEPT !.handlers = n]
  <2>1. PICK n \in {0, client.handlers - 1} : client' = [client EXCEPT !.handlers = n]
    BY <1>3
  <2>2. n \in Nat /\ n < client.handlers
    BY <1>1
  <2> QED
    BY <1>2, <1>3, <2>1, <2>2
<1>4. CASE /\ blockers' = blockers \cup {"handler_remove_failed"}
           /\ UNCHANGED <<client, handlerRegistered>>
  BY <1>2, <1>4
<1> QED
  BY <1>3, <1>4 DEF RemoveHandler
-----------------------------------------------------------------------------
(***************************************************************************)
(* One lemma for each part: the action that could disturb it is where the  *)
(* reasons are.                                                            *)
(***************************************************************************)

\* Every move of the run() task, the state and the heartbeat stays among the places named.
LEMMA PlacesStep == IInv /\ [Next]_vars => Places'
<1> SUFFICES ASSUME IInv, [Next]_vars PROVE Places'
  OBVIOUS
<1> USE RuntimeAssumption DEF IInv, Places, States, Reasons, vars, runVars, handlerVars, boundVars, At, MainAwaits, ShutdownAwaits
<1>1. CASE Start
  BY <1>1 DEF Start, EnterShutdown, RemovalStep
<1>2. CASE Connect
  BY <1>2 DEF Connect, FailConnecting, Reconnecting, EnterShutdown, RemovalStep, CallReturns, CallRaises
<1>3. CASE Register
  BY <1>3 DEF Register, AfterRegistration, Listen, AfterRefusal, EnterShutdown, RemovalStep, CallReturns, CallRaises
<1>4. CASE Undo
  BY <1>4 DEF Undo, FailConnecting, Reconnecting, EnterShutdown, RemovalStep, CallReturns, CallRaises
<1>5. CASE WaitReturns
  BY <1>5 DEF WaitReturns, EnterShutdown, RemovalStep
<1>6. CASE Unregister
  BY <1>6 DEF Unregister, Exhausted, DelayFails, EnterShutdown, RemovalStep, RemoveHandler, CallReturns, CallRaises
<1>7. CASE BackoffEnds
  BY <1>7 DEF BackoffEnds, EnterShutdown, RemovalStep
<1>8. CASE Drain
  BY <1>8 DEF Drain, RemovalStep
<1>9. CASE Remove
  BY <1>9 DEF Remove, RemoveHandler, CallReturns, CallRaises
<1>10. CASE Disconnect
  BY <1>10 DEF Disconnect, Finish, NoSummary, CallReturns, CallRaises
<1>11. CASE StopHeartbeat
  BY <1>11 DEF StopHeartbeat, Finish, NoSummary
<1>12. CASE Cancel
  BY <1>12 DEF Cancel, EnterShutdown, RemovalStep, Finish, NoSummary
<1>13. CASE HeartbeatStep
  BY <1>13 DEF HeartbeatStep, CallRaises
<1>14. CASE HandleEvent
  <2>1. UNCHANGED runVars
    BY <1>14 DEF HandleEvent, Call
  <2> QED
    BY <2>1
<1>15. CASE IngestReturns
  BY <1>15 DEF IngestReturns, Counted, Counters
<1>16. CASE ProcessReturns
  BY <1>16 DEF ProcessReturns, Counted, Counters
<1>17. CASE Stop
  BY <1>17 DEF Stop
<1>18. CASE EventArrives
  BY <1>18 DEF EventArrives
<1>19. CASE ClientDrops
  BY <1>19 DEF ClientDrops
<1>20. CASE Over
  BY <1>20 DEF Over
<1>21. CASE UNCHANGED vars
  BY <1>21
<1> QED
  BY <1>1, <1>2, <1>3, <1>4, <1>5, <1>6, <1>7, <1>8, <1>9, <1>10, <1>11, <1>12, <1>13, <1>14, <1>15, <1>16, <1>17, <1>18, <1>19, <1>20, <1>21 DEF Next, RunStep, HandlerStep

\* The flags stay booleans.
LEMMA FlagsStep == IInv /\ [Next]_vars => Flags'
<1> SUFFICES ASSUME IInv, [Next]_vars PROVE Flags'
  OBVIOUS
<1> USE RuntimeAssumption DEF IInv, Flags, vars, runVars, handlerVars, boundVars, At, MainAwaits, ShutdownAwaits
<1>1. CASE Start
  BY <1>1 DEF Start, EnterShutdown, RemovalStep
<1>2. CASE Connect
  BY <1>2 DEF Connect, FailConnecting, Reconnecting, EnterShutdown, RemovalStep, CallReturns, CallRaises
<1>3. CASE Register
  BY <1>3 DEF Register, AfterRegistration, Listen, AfterRefusal, EnterShutdown, RemovalStep, CallReturns, CallRaises
<1>4. CASE Undo
  BY <1>4 DEF Undo, FailConnecting, Reconnecting, EnterShutdown, RemovalStep, CallReturns, CallRaises
<1>5. CASE WaitReturns
  BY <1>5 DEF WaitReturns, EnterShutdown, RemovalStep
<1>6. CASE Unregister
  BY <1>6 DEF Unregister, Exhausted, DelayFails, EnterShutdown, RemovalStep, RemoveHandler, CallReturns, CallRaises
<1>7. CASE BackoffEnds
  BY <1>7 DEF BackoffEnds, EnterShutdown, RemovalStep
<1>8. CASE Drain
  BY <1>8 DEF Drain, RemovalStep
<1>9. CASE Remove
  BY <1>9 DEF Remove, RemoveHandler, CallReturns, CallRaises
<1>10. CASE Disconnect
  BY <1>10 DEF Disconnect, Finish, NoSummary, CallReturns, CallRaises
<1>11. CASE StopHeartbeat
  BY <1>11 DEF StopHeartbeat, Finish, NoSummary
<1>12. CASE Cancel
  BY <1>12 DEF Cancel, EnterShutdown, RemovalStep, Finish, NoSummary
<1>13. CASE HeartbeatStep
  BY <1>13 DEF HeartbeatStep, CallRaises
<1>14. CASE HandleEvent
  BY <1>14 DEF HandleEvent, Call, Accepting, Room, Counted, Counters
<1>15. CASE IngestReturns
  BY <1>15 DEF IngestReturns, Counted, Counters
<1>16. CASE ProcessReturns
  BY <1>16 DEF ProcessReturns, Counted, Counters
<1>17. CASE Stop
  BY <1>17 DEF Stop
<1>18. CASE EventArrives
  BY <1>18 DEF EventArrives
<1>19. CASE ClientDrops
  BY <1>19 DEF ClientDrops
<1>20. CASE Over
  BY <1>20 DEF Over
<1>21. CASE UNCHANGED vars
  BY <1>21
<1> QED
  BY <1>1, <1>2, <1>3, <1>4, <1>5, <1>6, <1>7, <1>8, <1>9, <1>10, <1>11, <1>12, <1>13, <1>14, <1>15, <1>16, <1>17, <1>18, <1>19, <1>20, <1>21 DEF Next, RunStep, HandlerStep

\* The client's registrations stay a number: a removal only happens to a registered handler.
LEMMA ClientStep == IInv /\ [Next]_vars => ClientShape'
<1> SUFFICES ASSUME IInv, [Next]_vars PROVE ClientShape'
  OBVIOUS
<1> USE RuntimeAssumption DEF IInv, ClientShape, Registered, Flags, vars, runVars, handlerVars, boundVars, At, MainAwaits, ShutdownAwaits
<1>1. CASE Start
  BY <1>1 DEF Start, EnterShutdown, RemovalStep
<1>2. CASE Connect
  BY <1>2 DEF Connect, FailConnecting, Reconnecting, EnterShutdown, RemovalStep, CallReturns, CallRaises
<1>3. CASE Register
  BY <1>3 DEF Register, AfterRegistration, Listen, AfterRefusal, EnterShutdown, RemovalStep, CallReturns, CallRaises
<1>4. CASE Undo
  BY <1>4 DEF Undo, FailConnecting, Reconnecting, EnterShutdown, RemovalStep, CallReturns, CallRaises
<1>5. CASE WaitReturns
  BY <1>5 DEF WaitReturns, EnterShutdown, RemovalStep
<1>6. CASE Unregister
  <2>1. RemoveHandler /\ handlerRegistered
    BY <1>6 DEF Unregister, Registered
  <2>2. CASE handlerRegistered' = FALSE /\ blockers' = blockers
    <3>1. /\ client' \in [up : BOOLEAN, handlers : Nat] /\ client'.up = client.up
          /\ client'.handlers < client.handlers /\ drops' = drops
      BY <2>1, <2>2, RemovalOutcome
    <3> QED
      BY <1>6, <2>1, <2>2, <3>1 DEF Unregister, Exhausted, DelayFails, EnterShutdown, RemovalStep, CallReturns, CallRaises
  <2>3. CASE handlerRegistered' = TRUE /\ client' = client /\ blockers' = blockers \cup {"handler_remove_failed"}
    BY <1>6, <2>1, <2>3, RemovalOutcome DEF Unregister, Exhausted, DelayFails, EnterShutdown, RemovalStep, CallReturns, CallRaises
  <2> QED
    BY <2>1, <2>2, <2>3, RemovalOutcome
<1>7. CASE BackoffEnds
  BY <1>7 DEF BackoffEnds, EnterShutdown, RemovalStep
<1>8. CASE Drain
  BY <1>8 DEF Drain, RemovalStep
<1>9. CASE Remove
  <2>1. RemoveHandler /\ handlerRegistered
    BY <1>9 DEF Remove, Registered
  <2>2. CASE handlerRegistered' = FALSE /\ blockers' = blockers
    <3>1. /\ client' \in [up : BOOLEAN, handlers : Nat] /\ client'.up = client.up
          /\ client'.handlers < client.handlers /\ drops' = drops
      BY <2>1, <2>2, RemovalOutcome
    <3> QED
      BY <1>9, <2>1, <2>2, <3>1 DEF Remove, CallReturns, CallRaises
  <2>3. CASE handlerRegistered' = TRUE /\ client' = client /\ blockers' = blockers \cup {"handler_remove_failed"}
    BY <1>9, <2>1, <2>3, RemovalOutcome DEF Remove, CallReturns, CallRaises
  <2> QED
    BY <2>1, <2>2, <2>3, RemovalOutcome
<1>10. CASE Disconnect
  BY <1>10 DEF Disconnect, Finish, NoSummary, CallReturns, CallRaises
<1>11. CASE StopHeartbeat
  BY <1>11 DEF StopHeartbeat, Finish, NoSummary
<1>12. CASE Cancel
  BY <1>12 DEF Cancel, EnterShutdown, RemovalStep, Finish, NoSummary
<1>13. CASE HeartbeatStep
  BY <1>13 DEF HeartbeatStep, CallRaises
<1>14. CASE HandleEvent
  BY <1>14 DEF HandleEvent, Call, Accepting, Room, Counted, Counters
<1>15. CASE IngestReturns
  BY <1>15 DEF IngestReturns, Counted, Counters
<1>16. CASE ProcessReturns
  BY <1>16 DEF ProcessReturns, Counted, Counters
<1>17. CASE Stop
  BY <1>17 DEF Stop
<1>18. CASE EventArrives
  BY <1>18 DEF EventArrives
<1>19. CASE ClientDrops
  BY <1>19 DEF ClientDrops
<1>20. CASE Over
  BY <1>20 DEF Over
<1>21. CASE UNCHANGED vars
  BY <1>21
<1> QED
  BY <1>1, <1>2, <1>3, <1>4, <1>5, <1>6, <1>7, <1>8, <1>9, <1>10, <1>11, <1>12, <1>13, <1>14, <1>15, <1>16, <1>17, <1>18, <1>19, <1>20, <1>21 DEF Next, RunStep, HandlerStep

\* run() ends with a summary or without one.
LEMMA SummaryShapeStep == IInv /\ [Next]_vars => SummaryShape'
<1> SUFFICES ASSUME IInv, [Next]_vars PROVE SummaryShape'
  OBVIOUS
<1> USE RuntimeAssumption DEF IInv, SummaryShape, vars, runVars, handlerVars, boundVars, At, MainAwaits, ShutdownAwaits
<1>1. CASE Start
  BY <1>1 DEF Start, EnterShutdown, RemovalStep
<1>2. CASE Connect
  BY <1>2 DEF Connect, FailConnecting, Reconnecting, EnterShutdown, RemovalStep, CallReturns, CallRaises
<1>3. CASE Register
  BY <1>3 DEF Register, AfterRegistration, Listen, AfterRefusal, EnterShutdown, RemovalStep, CallReturns, CallRaises
<1>4. CASE Undo
  BY <1>4 DEF Undo, FailConnecting, Reconnecting, EnterShutdown, RemovalStep, CallReturns, CallRaises
<1>5. CASE WaitReturns
  BY <1>5 DEF WaitReturns, EnterShutdown, RemovalStep
<1>6. CASE Unregister
  BY <1>6 DEF Unregister, Exhausted, DelayFails, EnterShutdown, RemovalStep, RemoveHandler, CallReturns, CallRaises
<1>7. CASE BackoffEnds
  BY <1>7 DEF BackoffEnds, EnterShutdown, RemovalStep
<1>8. CASE Drain
  BY <1>8 DEF Drain, RemovalStep
<1>9. CASE Remove
  BY <1>9 DEF Remove, RemoveHandler, CallReturns, CallRaises
<1>10. CASE Disconnect
  <2>1. CASE UNCHANGED summary
    BY <2>1
  <2>2. CASE Finish
    <3>1. summary' \in {[built |-> FALSE], [built |-> TRUE, count |-> count]}
      BY <2>2 DEF Finish, NoSummary
    <3>2. CASE summary' = [built |-> FALSE]
      BY <3>2
    <3>3. CASE summary' = [built |-> TRUE, count |-> count]
      BY <3>3
    <3> QED
      BY <3>1, <3>2, <3>3
  <2> QED
    BY <1>10, <2>1, <2>2 DEF Disconnect
<1>11. CASE StopHeartbeat
  BY <1>11 DEF StopHeartbeat, Finish, NoSummary
<1>12. CASE Cancel
  <2>1. CASE UNCHANGED summary
    BY <2>1
  <2>2. CASE Finish
    <3>1. summary' \in {[built |-> FALSE], [built |-> TRUE, count |-> count]}
      BY <2>2 DEF Finish, NoSummary
    <3>2. CASE summary' = [built |-> FALSE]
      BY <3>2
    <3>3. CASE summary' = [built |-> TRUE, count |-> count]
      BY <3>3
    <3> QED
      BY <3>1, <3>2, <3>3
  <2> QED
    BY <1>12, <2>1, <2>2 DEF Cancel
<1>13. CASE HeartbeatStep
  BY <1>13 DEF HeartbeatStep, CallRaises
<1>14. CASE HandleEvent
  BY <1>14 DEF HandleEvent, Call, Accepting, Room, Counted, Counters
<1>15. CASE IngestReturns
  BY <1>15 DEF IngestReturns, Counted, Counters
<1>16. CASE ProcessReturns
  BY <1>16 DEF ProcessReturns, Counted, Counters
<1>17. CASE Stop
  BY <1>17 DEF Stop
<1>18. CASE EventArrives
  BY <1>18 DEF EventArrives
<1>19. CASE ClientDrops
  BY <1>19 DEF ClientDrops
<1>20. CASE Over
  BY <1>20 DEF Over
<1>21. CASE UNCHANGED vars
  BY <1>21
<1> QED
  BY <1>1, <1>2, <1>3, <1>4, <1>5, <1>6, <1>7, <1>8, <1>9, <1>10, <1>11, <1>12, <1>13, <1>14, <1>15, <1>16, <1>17, <1>18, <1>19, <1>20, <1>21 DEF Next, RunStep, HandlerStep

\* Counters only move to counters.
LEMMA CountStep == IInv /\ [Next]_vars => CountShape'
<1> SUFFICES ASSUME IInv, [Next]_vars PROVE CountShape'
  OBVIOUS
<1> USE RuntimeAssumption DEF IInv, CountShape, vars, runVars, handlerVars, boundVars, At, MainAwaits, ShutdownAwaits
<1>1. CASE Start
  BY <1>1 DEF Start, EnterShutdown, RemovalStep
<1>2. CASE Connect
  BY <1>2 DEF Connect, FailConnecting, Reconnecting, EnterShutdown, RemovalStep, CallReturns, CallRaises
<1>3. CASE Register
  BY <1>3 DEF Register, AfterRegistration, Listen, AfterRefusal, EnterShutdown, RemovalStep, CallReturns, CallRaises
<1>4. CASE Undo
  BY <1>4 DEF Undo, FailConnecting, Reconnecting, EnterShutdown, RemovalStep, CallReturns, CallRaises
<1>5. CASE WaitReturns
  BY <1>5 DEF WaitReturns, EnterShutdown, RemovalStep
<1>6. CASE Unregister
  BY <1>6 DEF Unregister, Exhausted, DelayFails, EnterShutdown, RemovalStep, RemoveHandler, CallReturns, CallRaises
<1>7. CASE BackoffEnds
  BY <1>7 DEF BackoffEnds, EnterShutdown, RemovalStep
<1>8. CASE Drain
  BY <1>8 DEF Drain, RemovalStep
<1>9. CASE Remove
  BY <1>9 DEF Remove, RemoveHandler, CallReturns, CallRaises
<1>10. CASE Disconnect
  BY <1>10 DEF Disconnect, Finish, NoSummary, CallReturns, CallRaises
<1>11. CASE StopHeartbeat
  BY <1>11 DEF StopHeartbeat, Finish, NoSummary
<1>12. CASE Cancel
  BY <1>12 DEF Cancel, EnterShutdown, RemovalStep, Finish, NoSummary
<1>13. CASE HeartbeatStep
  BY <1>13 DEF HeartbeatStep, CallRaises
<1>14. CASE HandleEvent
  BY <1>14 DEF HandleEvent, Call, Accepting, Room, Counted, Counters
<1>15. CASE IngestReturns
  BY <1>15 DEF IngestReturns, Counted, Counters
<1>16. CASE ProcessReturns
  BY <1>16 DEF ProcessReturns, Counted, Counters
<1>17. CASE Stop
  BY <1>17 DEF Stop
<1>18. CASE EventArrives
  BY <1>18 DEF EventArrives
<1>19. CASE ClientDrops
  BY <1>19 DEF ClientDrops
<1>20. CASE Over
  BY <1>20 DEF Over
<1>21. CASE UNCHANGED vars
  BY <1>21
<1> QED
  BY <1>1, <1>2, <1>3, <1>4, <1>5, <1>6, <1>7, <1>8, <1>9, <1>10, <1>11, <1>12, <1>13, <1>14, <1>15, <1>16, <1>17, <1>18, <1>19, <1>20, <1>21 DEF Next, RunStep, HandlerStep

\* The gauge is never taken below zero: whoever leaves it is counted in it (InflightExact).
LEMMA NumbersStep == IInv /\ [Next]_vars => Numbers'
<1> SUFFICES ASSUME IInv, [Next]_vars PROVE Numbers'
  OBVIOUS
<1> USE RuntimeAssumption DEF IInv, Numbers, ClientShape, Handlers, InflightExact, vars, runVars, handlerVars, boundVars, At, MainAwaits, ShutdownAwaits
<1>1. CASE Start
  BY <1>1 DEF Start, EnterShutdown, RemovalStep
<1>2. CASE Connect
  BY <1>2 DEF Connect, FailConnecting, Reconnecting, EnterShutdown, RemovalStep, CallReturns, CallRaises
<1>3. CASE Register
  BY <1>3 DEF Register, AfterRegistration, Listen, AfterRefusal, EnterShutdown, RemovalStep, CallReturns, CallRaises
<1>4. CASE Undo
  BY <1>4 DEF Undo, FailConnecting, Reconnecting, EnterShutdown, RemovalStep, CallReturns, CallRaises
<1>5. CASE WaitReturns
  BY <1>5 DEF WaitReturns, EnterShutdown, RemovalStep
<1>6. CASE Unregister
  BY <1>6 DEF Unregister, Exhausted, DelayFails, EnterShutdown, RemovalStep, RemoveHandler, CallReturns, CallRaises
<1>7. CASE BackoffEnds
  BY <1>7 DEF BackoffEnds, EnterShutdown, RemovalStep
<1>8. CASE Drain
  BY <1>8 DEF Drain, RemovalStep
<1>9. CASE Remove
  BY <1>9 DEF Remove, RemoveHandler, CallReturns, CallRaises
<1>10. CASE Disconnect
  BY <1>10 DEF Disconnect, Finish, NoSummary, CallReturns, CallRaises
<1>11. CASE StopHeartbeat
  BY <1>11 DEF StopHeartbeat, Finish, NoSummary
<1>12. CASE Cancel
  BY <1>12 DEF Cancel, EnterShutdown, RemovalStep, Finish, NoSummary
<1>13. CASE HeartbeatStep
  BY <1>13 DEF HeartbeatStep, CallRaises
<1>14. CASE HandleEvent
  BY <1>14 DEF HandleEvent, Call, Accepting, Room, Counted, Counters
<1>15. CASE IngestReturns
  BY <1>15 DEF IngestReturns, Counted, Counters
<1>16. CASE ProcessReturns
  BY <1>16 DEF ProcessReturns, Counted, Counters
<1>17. CASE Stop
  BY <1>17 DEF Stop
<1>18. CASE EventArrives
  BY <1>18 DEF EventArrives
<1>19. CASE ClientDrops
  BY <1>19 DEF ClientDrops
<1>20. CASE Over
  BY <1>20 DEF Over
<1>21. CASE UNCHANGED vars
  BY <1>21
<1> QED
  BY <1>1, <1>2, <1>3, <1>4, <1>5, <1>6, <1>7, <1>8, <1>9, <1>10, <1>11, <1>12, <1>13, <1>14, <1>15, <1>16, <1>17, <1>18, <1>19, <1>20, <1>21 DEF Next, RunStep, HandlerStep

\* The attempts never outnumber the losses: an attempt is counted by the await "unregister",
\* which is only reached from "wait" with the client down.
LEMMA LossStep == IInv /\ [Next]_vars => LossUncounted'
<1> SUFFICES ASSUME IInv, [Next]_vars PROVE LossUncounted'
  OBVIOUS
<1> USE RuntimeAssumption DEF IInv, Numbers, LossUncounted, ClientShape, Flags, Registered, vars, runVars, handlerVars, boundVars, At, MainAwaits, ShutdownAwaits
<1>1. CASE Start
  BY <1>1 DEF Start, EnterShutdown, RemovalStep
<1>2. CASE Connect
  BY <1>2 DEF Connect, FailConnecting, Reconnecting, EnterShutdown, RemovalStep, CallReturns, CallRaises
<1>3. CASE Register
  BY <1>3 DEF Register, AfterRegistration, Listen, AfterRefusal, EnterShutdown, RemovalStep, CallReturns, CallRaises
<1>4. CASE Undo
  BY <1>4 DEF Undo, FailConnecting, Reconnecting, EnterShutdown, RemovalStep, CallReturns, CallRaises
<1>5. CASE WaitReturns
  BY <1>5 DEF WaitReturns, EnterShutdown, RemovalStep
<1>6. CASE Unregister
  <2>1. RemoveHandler /\ handlerRegistered
    BY <1>6 DEF Unregister, Registered
  <2>2. CASE handlerRegistered' = FALSE /\ blockers' = blockers
    <3>1. /\ client' \in [up : BOOLEAN, handlers : Nat] /\ client'.up = client.up
          /\ client'.handlers < client.handlers /\ drops' = drops
      BY <2>1, <2>2, RemovalOutcome
    <3> QED
      BY <1>6, <2>1, <2>2, <3>1 DEF Unregister, Exhausted, DelayFails, EnterShutdown, RemovalStep, CallReturns, CallRaises
  <2>3. CASE handlerRegistered' = TRUE /\ client' = client /\ blockers' = blockers \cup {"handler_remove_failed"}
    BY <1>6, <2>1, <2>3, RemovalOutcome DEF Unregister, Exhausted, DelayFails, EnterShutdown, RemovalStep, CallReturns, CallRaises
  <2> QED
    BY <2>1, <2>2, <2>3, RemovalOutcome
<1>7. CASE BackoffEnds
  BY <1>7 DEF BackoffEnds, EnterShutdown, RemovalStep
<1>8. CASE Drain
  BY <1>8 DEF Drain, RemovalStep
<1>9. CASE Remove
  <2>1. RemoveHandler /\ handlerRegistered
    BY <1>9 DEF Remove, Registered
  <2>2. CASE handlerRegistered' = FALSE /\ blockers' = blockers
    <3>1. /\ client' \in [up : BOOLEAN, handlers : Nat] /\ client'.up = client.up
          /\ client'.handlers < client.handlers /\ drops' = drops
      BY <2>1, <2>2, RemovalOutcome
    <3> QED
      BY <1>9, <2>1, <2>2, <3>1 DEF Remove, CallReturns, CallRaises
  <2>3. CASE handlerRegistered' = TRUE /\ client' = client /\ blockers' = blockers \cup {"handler_remove_failed"}
    BY <1>9, <2>1, <2>3, RemovalOutcome DEF Remove, CallReturns, CallRaises
  <2> QED
    BY <2>1, <2>2, <2>3, RemovalOutcome
<1>10. CASE Disconnect
  BY <1>10 DEF Disconnect, Finish, NoSummary, CallReturns, CallRaises
<1>11. CASE StopHeartbeat
  BY <1>11 DEF StopHeartbeat, Finish, NoSummary
<1>12. CASE Cancel
  BY <1>12 DEF Cancel, EnterShutdown, RemovalStep, Finish, NoSummary
<1>13. CASE HeartbeatStep
  BY <1>13 DEF HeartbeatStep, CallRaises
<1>14. CASE HandleEvent
  BY <1>14 DEF HandleEvent, Call, Accepting, Room, Counted, Counters
<1>15. CASE IngestReturns
  BY <1>15 DEF IngestReturns, Counted, Counters
<1>16. CASE ProcessReturns
  BY <1>16 DEF ProcessReturns, Counted, Counters
<1>17. CASE Stop
  BY <1>17 DEF Stop
<1>18. CASE EventArrives
  BY <1>18 DEF EventArrives
<1>19. CASE ClientDrops
  BY <1>19 DEF ClientDrops
<1>20. CASE Over
  BY <1>20 DEF Over
<1>21. CASE UNCHANGED vars
  BY <1>21
<1> QED
  BY <1>1, <1>2, <1>3, <1>4, <1>5, <1>6, <1>7, <1>8, <1>9, <1>10, <1>11, <1>12, <1>13, <1>14, <1>15, <1>16, <1>17, <1>18, <1>19, <1>20, <1>21 DEF Next, RunStep, HandlerStep

\* The gauge and the counters agree before and after each step of a handler call.
LEMMA HandlersStep == IInv /\ [Next]_vars => Handlers'
<1> SUFFICES ASSUME IInv, [Next]_vars PROVE Handlers'
  OBVIOUS
<1> USE RuntimeAssumption DEF IInv, Numbers, CountShape, Handlers, InflightExact, CountersAddUp, vars, runVars, handlerVars, boundVars, At, MainAwaits, ShutdownAwaits
<1>1. CASE Start
  BY <1>1 DEF Start, EnterShutdown, RemovalStep
<1>2. CASE Connect
  BY <1>2 DEF Connect, FailConnecting, Reconnecting, EnterShutdown, RemovalStep, CallReturns, CallRaises
<1>3. CASE Register
  BY <1>3 DEF Register, AfterRegistration, Listen, AfterRefusal, EnterShutdown, RemovalStep, CallReturns, CallRaises
<1>4. CASE Undo
  BY <1>4 DEF Undo, FailConnecting, Reconnecting, EnterShutdown, RemovalStep, CallReturns, CallRaises
<1>5. CASE WaitReturns
  BY <1>5 DEF WaitReturns, EnterShutdown, RemovalStep
<1>6. CASE Unregister
  BY <1>6 DEF Unregister, Exhausted, DelayFails, EnterShutdown, RemovalStep, RemoveHandler, CallReturns, CallRaises
<1>7. CASE BackoffEnds
  BY <1>7 DEF BackoffEnds, EnterShutdown, RemovalStep
<1>8. CASE Drain
  BY <1>8 DEF Drain, RemovalStep
<1>9. CASE Remove
  BY <1>9 DEF Remove, RemoveHandler, CallReturns, CallRaises
<1>10. CASE Disconnect
  BY <1>10 DEF Disconnect, Finish, NoSummary, CallReturns, CallRaises
<1>11. CASE StopHeartbeat
  BY <1>11 DEF StopHeartbeat, Finish, NoSummary
<1>12. CASE Cancel
  BY <1>12 DEF Cancel, EnterShutdown, RemovalStep, Finish, NoSummary
<1>13. CASE HeartbeatStep
  BY <1>13 DEF HeartbeatStep, CallRaises
<1>14. CASE HandleEvent
  BY <1>14 DEF HandleEvent, Call, Accepting, Room, Counted, Counters
<1>15. CASE IngestReturns
  BY <1>15 DEF IngestReturns, Counted, Counters
<1>16. CASE ProcessReturns
  BY <1>16 DEF ProcessReturns, Counted, Counters
<1>17. CASE Stop
  BY <1>17 DEF Stop
<1>18. CASE EventArrives
  BY <1>18 DEF EventArrives
<1>19. CASE ClientDrops
  BY <1>19 DEF ClientDrops
<1>20. CASE Over
  BY <1>20 DEF Over
<1>21. CASE UNCHANGED vars
  BY <1>21
<1> QED
  BY <1>1, <1>2, <1>3, <1>4, <1>5, <1>6, <1>7, <1>8, <1>9, <1>10, <1>11, <1>12, <1>13, <1>14, <1>15, <1>16, <1>17, <1>18, <1>19, <1>20, <1>21 DEF Next, RunStep, HandlerStep

\* Past the drain no handler call is admitted, since a shutting-down runtime is stopped.
LEMMA DrainedStep == IInv /\ [Next]_vars => Drained'
<1> SUFFICES ASSUME IInv, [Next]_vars PROVE Drained'
  OBVIOUS
<1> USE RuntimeAssumption DEF IInv, Numbers, Flags, SummaryShape, Places, Drained, Handlers, InflightExact, vars, runVars, handlerVars, boundVars, At, MainAwaits, ShutdownAwaits
<1>1. CASE Start
  BY <1>1 DEF Start, EnterShutdown, RemovalStep
<1>2. CASE Connect
  BY <1>2 DEF Connect, FailConnecting, Reconnecting, EnterShutdown, RemovalStep, CallReturns, CallRaises
<1>3. CASE Register
  BY <1>3 DEF Register, AfterRegistration, Listen, AfterRefusal, EnterShutdown, RemovalStep, CallReturns, CallRaises
<1>4. CASE Undo
  BY <1>4 DEF Undo, FailConnecting, Reconnecting, EnterShutdown, RemovalStep, CallReturns, CallRaises
<1>5. CASE WaitReturns
  BY <1>5 DEF WaitReturns, EnterShutdown, RemovalStep
<1>6. CASE Unregister
  BY <1>6 DEF Unregister, Exhausted, DelayFails, EnterShutdown, RemovalStep, RemoveHandler, CallReturns, CallRaises
<1>7. CASE BackoffEnds
  BY <1>7 DEF BackoffEnds, EnterShutdown, RemovalStep
<1>8. CASE Drain
  BY <1>8 DEF Drain, RemovalStep
<1>9. CASE Remove
  BY <1>9 DEF Remove, RemoveHandler, CallReturns, CallRaises
<1>10. CASE Disconnect
  BY <1>10 DEF Disconnect, Finish, NoSummary, CallReturns, CallRaises
<1>11. CASE StopHeartbeat
  BY <1>11 DEF StopHeartbeat, Finish, NoSummary
<1>12. CASE Cancel
  BY <1>12 DEF Cancel, EnterShutdown, RemovalStep, Finish, NoSummary
<1>13. CASE HeartbeatStep
  BY <1>13 DEF HeartbeatStep, CallRaises
<1>14. CASE HandleEvent
  BY <1>14 DEF HandleEvent, Call, Accepting, Room, Counted, Counters
<1>15. CASE IngestReturns
  BY <1>15 DEF IngestReturns, Counted, Counters
<1>16. CASE ProcessReturns
  BY <1>16 DEF ProcessReturns, Counted, Counters
<1>17. CASE Stop
  BY <1>17 DEF Stop
<1>18. CASE EventArrives
  BY <1>18 DEF EventArrives
<1>19. CASE ClientDrops
  BY <1>19 DEF ClientDrops
<1>20. CASE Over
  BY <1>20 DEF Over
<1>21. CASE UNCHANGED vars
  BY <1>21
<1> QED
  BY <1>1, <1>2, <1>3, <1>4, <1>5, <1>6, <1>7, <1>8, <1>9, <1>10, <1>11, <1>12, <1>13, <1>14, <1>15, <1>16, <1>17, <1>18, <1>19, <1>20, <1>21 DEF Next, RunStep, HandlerStep

\* The flag and the client's registrations part only through a removal that raised.
LEMMA RegisteredStep == IInv /\ [Next]_vars => Registered'
<1> SUFFICES ASSUME IInv, [Next]_vars PROVE Registered'
  OBVIOUS
<1> USE RuntimeAssumption DEF IInv, Places, Flags, ClientShape, Registered, vars, runVars, handlerVars, boundVars, At, MainAwaits, ShutdownAwaits
<1>1. CASE Start
  BY <1>1 DEF Start, EnterShutdown, RemovalStep
<1>2. CASE Connect
  BY <1>2 DEF Connect, FailConnecting, Reconnecting, EnterShutdown, RemovalStep, CallReturns, CallRaises
<1>3. CASE Register
  BY <1>3 DEF Register, AfterRegistration, Listen, AfterRefusal, EnterShutdown, RemovalStep, CallReturns, CallRaises
<1>4. CASE Undo
  BY <1>4 DEF Undo, FailConnecting, Reconnecting, EnterShutdown, RemovalStep, CallReturns, CallRaises
<1>5. CASE WaitReturns
  BY <1>5 DEF WaitReturns, EnterShutdown, RemovalStep
<1>6. CASE Unregister
  <2>1. RemoveHandler /\ handlerRegistered
    BY <1>6 DEF Unregister, Registered
  <2>2. CASE handlerRegistered' = FALSE /\ blockers' = blockers
    <3>1. /\ client' \in [up : BOOLEAN, handlers : Nat] /\ client'.up = client.up
          /\ client'.handlers < client.handlers /\ drops' = drops
      BY <2>1, <2>2, RemovalOutcome
    <3> QED
      BY <1>6, <2>1, <2>2, <3>1 DEF Unregister, Exhausted, DelayFails, EnterShutdown, RemovalStep, CallReturns, CallRaises
  <2>3. CASE handlerRegistered' = TRUE /\ client' = client /\ blockers' = blockers \cup {"handler_remove_failed"}
    BY <1>6, <2>1, <2>3, RemovalOutcome DEF Unregister, Exhausted, DelayFails, EnterShutdown, RemovalStep, CallReturns, CallRaises
  <2> QED
    BY <2>1, <2>2, <2>3, RemovalOutcome
<1>7. CASE BackoffEnds
  BY <1>7 DEF BackoffEnds, EnterShutdown, RemovalStep
<1>8. CASE Drain
  BY <1>8 DEF Drain, RemovalStep
<1>9. CASE Remove
  <2>1. RemoveHandler /\ handlerRegistered
    BY <1>9 DEF Remove, Registered
  <2>2. CASE handlerRegistered' = FALSE /\ blockers' = blockers
    <3>1. /\ client' \in [up : BOOLEAN, handlers : Nat] /\ client'.up = client.up
          /\ client'.handlers < client.handlers /\ drops' = drops
      BY <2>1, <2>2, RemovalOutcome
    <3> QED
      BY <1>9, <2>1, <2>2, <3>1 DEF Remove, CallReturns, CallRaises
  <2>3. CASE handlerRegistered' = TRUE /\ client' = client /\ blockers' = blockers \cup {"handler_remove_failed"}
    BY <1>9, <2>1, <2>3, RemovalOutcome DEF Remove, CallReturns, CallRaises
  <2> QED
    BY <2>1, <2>2, <2>3, RemovalOutcome
<1>10. CASE Disconnect
  BY <1>10 DEF Disconnect, Finish, NoSummary, CallReturns, CallRaises
<1>11. CASE StopHeartbeat
  BY <1>11 DEF StopHeartbeat, Finish, NoSummary
<1>12. CASE Cancel
  BY <1>12 DEF Cancel, EnterShutdown, RemovalStep, Finish, NoSummary
<1>13. CASE HeartbeatStep
  BY <1>13 DEF HeartbeatStep, CallRaises
<1>14. CASE HandleEvent
  BY <1>14 DEF HandleEvent, Call, Accepting, Room, Counted, Counters
<1>15. CASE IngestReturns
  BY <1>15 DEF IngestReturns, Counted, Counters
<1>16. CASE ProcessReturns
  BY <1>16 DEF ProcessReturns, Counted, Counters
<1>17. CASE Stop
  BY <1>17 DEF Stop
<1>18. CASE EventArrives
  BY <1>18 DEF EventArrives
<1>19. CASE ClientDrops
  BY <1>19 DEF ClientDrops
<1>20. CASE Over
  BY <1>20 DEF Over
<1>21. CASE UNCHANGED vars
  BY <1>21
<1> QED
  BY <1>1, <1>2, <1>3, <1>4, <1>5, <1>6, <1>7, <1>8, <1>9, <1>10, <1>11, <1>12, <1>13, <1>14, <1>15, <1>16, <1>17, <1>18, <1>19, <1>20, <1>21 DEF Next, RunStep, HandlerStep

\* Each await of the shutdown is left with what it took down gone, or with its blocker.
LEMMA TakenDownStep == IInv /\ [Next]_vars => TakenDown'
<1> SUFFICES ASSUME IInv, [Next]_vars PROVE TakenDown'
  OBVIOUS
<1> USE RuntimeAssumption DEF IInv, Places, Flags, ClientShape, SummaryShape, Registered, TakenDown, Drained, vars, runVars, handlerVars, boundVars, At, MainAwaits, ShutdownAwaits
<1>1. CASE Start
  BY <1>1 DEF Start, EnterShutdown, RemovalStep
<1>2. CASE Connect
  BY <1>2 DEF Connect, FailConnecting, Reconnecting, EnterShutdown, RemovalStep, CallReturns, CallRaises
<1>3. CASE Register
  BY <1>3 DEF Register, AfterRegistration, Listen, AfterRefusal, EnterShutdown, RemovalStep, CallReturns, CallRaises
<1>4. CASE Undo
  BY <1>4 DEF Undo, FailConnecting, Reconnecting, EnterShutdown, RemovalStep, CallReturns, CallRaises
<1>5. CASE WaitReturns
  BY <1>5 DEF WaitReturns, EnterShutdown, RemovalStep
<1>6. CASE Unregister
  <2>1. RemoveHandler /\ handlerRegistered
    BY <1>6 DEF Unregister, Registered
  <2>2. CASE handlerRegistered' = FALSE /\ blockers' = blockers
    <3>1. /\ client' \in [up : BOOLEAN, handlers : Nat] /\ client'.up = client.up
          /\ client'.handlers < client.handlers /\ drops' = drops
      BY <2>1, <2>2, RemovalOutcome
    <3> QED
      BY <1>6, <2>1, <2>2, <3>1 DEF Unregister, Exhausted, DelayFails, EnterShutdown, RemovalStep, CallReturns, CallRaises
  <2>3. CASE handlerRegistered' = TRUE /\ client' = client /\ blockers' = blockers \cup {"handler_remove_failed"}
    BY <1>6, <2>1, <2>3, RemovalOutcome DEF Unregister, Exhausted, DelayFails, EnterShutdown, RemovalStep, CallReturns, CallRaises
  <2> QED
    BY <2>1, <2>2, <2>3, RemovalOutcome
<1>7. CASE BackoffEnds
  BY <1>7 DEF BackoffEnds, EnterShutdown, RemovalStep
<1>8. CASE Drain
  BY <1>8 DEF Drain, RemovalStep
<1>9. CASE Remove
  <2>1. RemoveHandler /\ handlerRegistered
    BY <1>9 DEF Remove, Registered
  <2>2. CASE handlerRegistered' = FALSE /\ blockers' = blockers
    <3>1. /\ client' \in [up : BOOLEAN, handlers : Nat] /\ client'.up = client.up
          /\ client'.handlers < client.handlers /\ drops' = drops
      BY <2>1, <2>2, RemovalOutcome
    <3> QED
      BY <1>9, <2>1, <2>2, <3>1 DEF Remove, CallReturns, CallRaises
  <2>3. CASE handlerRegistered' = TRUE /\ client' = client /\ blockers' = blockers \cup {"handler_remove_failed"}
    BY <1>9, <2>1, <2>3, RemovalOutcome DEF Remove, CallReturns, CallRaises
  <2> QED
    BY <2>1, <2>2, <2>3, RemovalOutcome
<1>10. CASE Disconnect
  BY <1>10 DEF Disconnect, Finish, NoSummary, CallReturns, CallRaises
<1>11. CASE StopHeartbeat
  BY <1>11 DEF StopHeartbeat, Finish, NoSummary
<1>12. CASE Cancel
  BY <1>12 DEF Cancel, EnterShutdown, RemovalStep, Finish, NoSummary
<1>13. CASE HeartbeatStep
  BY <1>13 DEF HeartbeatStep, CallRaises
<1>14. CASE HandleEvent
  BY <1>14 DEF HandleEvent, Call, Accepting, Room, Counted, Counters
<1>15. CASE IngestReturns
  BY <1>15 DEF IngestReturns, Counted, Counters
<1>16. CASE ProcessReturns
  BY <1>16 DEF ProcessReturns, Counted, Counters
<1>17. CASE Stop
  BY <1>17 DEF Stop
<1>18. CASE EventArrives
  BY <1>18 DEF EventArrives
<1>19. CASE ClientDrops
  BY <1>19 DEF ClientDrops
<1>20. CASE Over
  BY <1>20 DEF Over
<1>21. CASE UNCHANGED vars
  BY <1>21
<1> QED
  BY <1>1, <1>2, <1>3, <1>4, <1>5, <1>6, <1>7, <1>8, <1>9, <1>10, <1>11, <1>12, <1>13, <1>14, <1>15, <1>16, <1>17, <1>18, <1>19, <1>20, <1>21 DEF Next, RunStep, HandlerStep

\* The summary is built from the counters, and no step after it moves them.
LEMMA CompleteStep == IInv /\ [Next]_vars => SummaryIsComplete'
<1> SUFFICES ASSUME IInv, [Next]_vars PROVE SummaryIsComplete'
  OBVIOUS
<1> USE RuntimeAssumption DEF IInv, Places, Flags, Numbers, CountShape, SummaryShape, Handlers, InflightExact, Drained, SummaryIsComplete, vars, runVars, handlerVars, boundVars, At, MainAwaits, ShutdownAwaits
<1>1. CASE Start
  BY <1>1 DEF Start, EnterShutdown, RemovalStep
<1>2. CASE Connect
  BY <1>2 DEF Connect, FailConnecting, Reconnecting, EnterShutdown, RemovalStep, CallReturns, CallRaises
<1>3. CASE Register
  BY <1>3 DEF Register, AfterRegistration, Listen, AfterRefusal, EnterShutdown, RemovalStep, CallReturns, CallRaises
<1>4. CASE Undo
  BY <1>4 DEF Undo, FailConnecting, Reconnecting, EnterShutdown, RemovalStep, CallReturns, CallRaises
<1>5. CASE WaitReturns
  BY <1>5 DEF WaitReturns, EnterShutdown, RemovalStep
<1>6. CASE Unregister
  BY <1>6 DEF Unregister, Exhausted, DelayFails, EnterShutdown, RemovalStep, RemoveHandler, CallReturns, CallRaises
<1>7. CASE BackoffEnds
  BY <1>7 DEF BackoffEnds, EnterShutdown, RemovalStep
<1>8. CASE Drain
  BY <1>8 DEF Drain, RemovalStep
<1>9. CASE Remove
  BY <1>9 DEF Remove, RemoveHandler, CallReturns, CallRaises
<1>10. CASE Disconnect
  BY <1>10 DEF Disconnect, Finish, NoSummary, CallReturns, CallRaises
<1>11. CASE StopHeartbeat
  BY <1>11 DEF StopHeartbeat, Finish, NoSummary
<1>12. CASE Cancel
  BY <1>12 DEF Cancel, EnterShutdown, RemovalStep, Finish, NoSummary
<1>13. CASE HeartbeatStep
  BY <1>13 DEF HeartbeatStep, CallRaises
<1>14. CASE HandleEvent
  BY <1>14 DEF HandleEvent, Call, Accepting, Room, Counted, Counters
<1>15. CASE IngestReturns
  BY <1>15 DEF IngestReturns, Counted, Counters
<1>16. CASE ProcessReturns
  BY <1>16 DEF ProcessReturns, Counted, Counters
<1>17. CASE Stop
  BY <1>17 DEF Stop
<1>18. CASE EventArrives
  BY <1>18 DEF EventArrives
<1>19. CASE ClientDrops
  BY <1>19 DEF ClientDrops
<1>20. CASE Over
  BY <1>20 DEF Over
<1>21. CASE UNCHANGED vars
  BY <1>21
<1> QED
  BY <1>1, <1>2, <1>3, <1>4, <1>5, <1>6, <1>7, <1>8, <1>9, <1>10, <1>11, <1>12, <1>13, <1>14, <1>15, <1>16, <1>17, <1>18, <1>19, <1>20, <1>21 DEF Next, RunStep, HandlerStep

-----------------------------------------------------------------------------
\* A runtime that was only constructed.
LEMMA InitInvariant == Init => IInv
<1> SUFFICES ASSUME Init PROVE IInv
  OBVIOUS
<1> USE RuntimeAssumption DEF Init
<1>1. Places /\ Flags
  BY DEF Places, Flags, States, Reasons
<1>2. CountShape
  BY DEF CountShape
<1>3. Numbers /\ LossUncounted
  BY DEF Numbers, LossUncounted
<1>4. ClientShape
  BY DEF ClientShape
<1>5. SummaryShape /\ Drained /\ SummaryIsComplete
  BY DEF SummaryShape, Drained, SummaryIsComplete, NoSummary, ShutdownAwaits
<1>6. Handlers
  BY DEF Handlers, InflightExact, CountersAddUp, Counters
<1>7. Registered /\ TakenDown
  BY DEF Registered, TakenDown, NoSummary
<1> QED
  BY <1>1, <1>2, <1>3, <1>4, <1>5, <1>6, <1>7 DEF IInv

\* The parts together are preserved by every step.
LEMMA StepInvariant == IInv /\ [Next]_vars => IInv'
<1> SUFFICES ASSUME IInv, [Next]_vars PROVE IInv'
  OBVIOUS
<1> QED
  BY PlacesStep, FlagsStep, ClientStep, SummaryShapeStep, CountStep, NumbersStep, LossStep,
     HandlersStep, DrainedStep, RegisteredStep, TakenDownStep, CompleteStep DEF IInv

\* The parts hold throughout.
LEMMA Invariant == Spec => []IInv
  BY InitInvariant, StepInvariant, PTL DEF Spec

\* Types: every variable keeps its shape, and reconnect_attempt_total never exceeds the
\* number of connections that were lost.
THEOREM TypeCorrect == Spec => []TypeOK
<1>1. IInv => TypeOK
  <2> SUFFICES ASSUME IInv PROVE TypeOK
    OBVIOUS
  <2>1. {stopRequested, connected, handlerRegistered, client.up} \subseteq BOOLEAN
    BY DEF IInv, Flags, ClientShape
  <2>2. {inflight, ingesting, processing, client.handlers, calls} \subseteq Nat
    BY DEF IInv, Numbers, ClientShape
  <2>3. attempts \in 0..drops
    BY DEF IInv, Numbers, LossUncounted
  <2> QED
    BY <2>1, <2>2, <2>3 DEF IInv, Places, CountShape, TypeOK
<1> QED
  BY <1>1, Invariant, PTL

\* However many handler calls overlap in _handle_event and however they end, the gauge of
\* handlers at work counts exactly those at an await and never exceeds max_inflight_events.
THEOREM GaugeExact == Spec => []InflightExact
<1>1. IInv => InflightExact
  BY DEF IInv, Handlers, CountersAddUp
<1> QED
  BY <1>1, Invariant, PTL

\* The counters of the summary agree with one another at every await: every attempt to
\* ingest or process is under way or has exactly one outcome.
THEOREM CountersAgree == Spec => []CountersAddUp
<1>1. IInv => CountersAddUp
  BY DEF IInv, Handlers
<1> QED
  BY <1>1, Invariant, PTL

\* The summary run() builds without a DRAIN_TIMEOUT blocker is final: nothing the client
\* still had scheduled changes a counter after it.
THEOREM SummaryFinal == Spec => []SummaryIsComplete
<1>1. IInv => SummaryIsComplete
  BY DEF IInv
<1> QED
  BY <1>1, Invariant, PTL

\* While run() waits for a stop or a loss, after any number of reconnects and failed
\* removals, the client has a registration of the handler.
THEOREM Hears == Spec => []ListeningHears
<1>1. IInv => ListeningHears
  BY DEF IInv, Registered, ListeningHears, At
<1> QED
  BY <1>1, Invariant, PTL

\* A shutdown that ran to its end leaves no connection and no registration behind except
\* after a failure that it reports as a blocker.
THEOREM ShutdownClean == Spec => []CleanStop
<1>1. IInv => CleanStop
  BY DEF IInv, TakenDown, CleanStop, At
<1> QED
  BY <1>1, Invariant, PTL
-----------------------------------------------------------------------------
(***************************************************************************)
(* The refinement: what the owner of a runtime sees of it. PhaseOf and     *)
(* ResultOf are what the mapping puts for the variables of                 *)
(* MonitorLifecycle.                                                       *)
(***************************************************************************)
PhaseOf ==
  CASE At("new") -> "new"
    [] At("done") -> "over"
    [] At("wait") -> "listening"
    [] runPc \in ShutdownAwaits -> "ending"
    [] runPc \in {"connect", "register", "undo"} /\ ~Reconnecting -> "starting"
    [] OTHER -> "degraded"

ResultOf ==
  CASE ~At("done") -> "none"
    [] At("done") /\ ~summary.built -> "raised"
    [] OTHER -> state

\* Before the first connection no attempt is counted, and every backoff follows one.
AttemptsKnown ==
  /\ runPc = "new" => attempts = 0
  /\ runPc = "backoff" => attempts > 0

\* How a step looks from outside: the moves of MonitorLifecycle, in terms of the code's variables.
Seen ==
  \/ PhaseOf' = PhaseOf /\ ResultOf' = ResultOf /\ stopRequested' = stopRequested
  \/ PhaseOf # "over" /\ PhaseOf' = PhaseOf /\ ResultOf' = ResultOf /\ stopRequested' = TRUE
  \/ /\ ResultOf' = ResultOf /\ stopRequested' = stopRequested
     /\ \/ PhaseOf = "new" /\ PhaseOf' = "starting"
        \/ ~stopRequested /\ PhaseOf \in {"starting", "degraded"} /\ PhaseOf' = "listening"
        \/ ~stopRequested /\ PhaseOf = "listening" /\ PhaseOf' = "degraded"
  \/ /\ PhaseOf \in {"new", "starting", "listening", "degraded"} /\ PhaseOf' = "ending"
     /\ stopRequested' = TRUE /\ ResultOf' = ResultOf
  \/ /\ PhaseOf = "ending" /\ PhaseOf' = "over" /\ ResultOf' \in {"stopped", "failed", "raised"}
     /\ stopRequested' = stopRequested

\* What PhaseOf and ResultOf are, place by place.
LEMMA PhaseAt ==
  ASSUME Places
  PROVE  /\ runPc = "new" => PhaseOf = "new"
         /\ runPc = "done" <=> PhaseOf = "over"
         /\ runPc = "wait" => PhaseOf = "listening"
         /\ runPc \in ShutdownAwaits => PhaseOf = "ending"
         /\ runPc \in {"connect", "register", "undo"} =>
              PhaseOf = IF attempts > 0 THEN "degraded" ELSE "starting"
         /\ runPc \in {"unregister", "backoff"} => PhaseOf = "degraded"
         /\ runPc # "done" => ResultOf = "none"
         /\ runPc = "done" => ResultOf = IF summary.built THEN state ELSE "raised"
BY DEF Places, PhaseOf, ResultOf, At, Reconnecting, MainAwaits, ShutdownAwaits

\* (the same after a step)
LEMMA PhaseAfter ==
  ASSUME Places'
  PROVE  /\ runPc' = "new" => PhaseOf' = "new"
         /\ runPc' = "done" <=> PhaseOf' = "over"
         /\ runPc' = "wait" => PhaseOf' = "listening"
         /\ runPc' \in ShutdownAwaits => PhaseOf' = "ending"
         /\ runPc' \in {"connect", "register", "undo"} =>
              PhaseOf' = IF attempts' > 0 THEN "degraded" ELSE "starting"
         /\ runPc' \in {"unregister", "backoff"} => PhaseOf' = "degraded"
         /\ runPc' # "done" => ResultOf' = "none"
         /\ runPc' = "done" => ResultOf' = IF summary'.built THEN state' ELSE "raised"
BY DEF Places, PhaseOf, ResultOf, At, Reconnecting, MainAwaits, ShutdownAwaits

\* Attempts are counted by "unregister" only, on the way to the backoff.
LEMMA AttemptsStep == IInv /\ AttemptsKnown /\ [Next]_vars => AttemptsKnown'
<1> SUFFICES ASSUME IInv, AttemptsKnown, [Next]_vars PROVE AttemptsKnown'
  OBVIOUS
<1>0. attempts \in Nat /\ runPc \in MainAwaits \cup ShutdownAwaits \cup {"new", "done"}
  BY DEF IInv, Numbers, Places
<1>1. CASE Unregister
  BY <1>0, <1>1 DEF Unregister, AttemptsKnown, EnterShutdown, RemovalStep
<1>2. CASE ~Unregister
  <2>1. attempts' = attempts
    BY <1>2 DEF Next, RunStep, HandlerStep, Start, Connect, Register, Undo, WaitReturns, BackoffEnds,
       Drain, Remove, Disconnect, StopHeartbeat, Cancel, HeartbeatStep, HandleEvent, Call,
       IngestReturns, ProcessReturns, Stop, EventArrives, ClientDrops, Over, vars, runVars
  <2>2. runPc' = runPc \/ runPc' \notin {"new", "backoff"}
    BY <1>2 DEF Next, RunStep, HandlerStep, Start, Connect, Register, Undo, WaitReturns, BackoffEnds,
       Drain, Remove, Disconnect, StopHeartbeat, Cancel, HeartbeatStep, HandleEvent, Call,
       IngestReturns, ProcessReturns, Stop, EventArrives, ClientDrops, Over, vars, runVars,
       EnterShutdown, RemovalStep, FailConnecting, AfterRegistration, Listen, AfterRefusal, Finish
  <2> QED
    BY <2>1, <2>2 DEF AttemptsKnown
<1> QED
  BY <1>1, <1>2

\* Winding down is entered through EnterShutdown only, which refuses new work.
LEMMA EnterSeen ==
  ASSUME IInv, IInv', NEW s, NEW registered, EnterShutdown(s, registered),
         runPc \in MainAwaits \cup {"new"}
  PROVE  Seen
<1>1. runPc' \in ShutdownAwaits /\ stopRequested' = TRUE
  BY DEF EnterShutdown, RemovalStep, ShutdownAwaits
<1>2. runPc # "done" /\ runPc' # "done"
  BY <1>1 DEF MainAwaits, ShutdownAwaits
<1>3. PhaseOf \in {"new", "starting", "listening", "degraded"} /\ PhaseOf' = "ending" /\ ResultOf' = ResultOf
  BY <1>1, <1>2, PhaseAt, PhaseAfter DEF IInv, MainAwaits
<1> QED
  BY <1>1, <1>3 DEF Seen

\* run() ends with one of the three results.
LEMMA FinishSeen ==
  ASSUME IInv, IInv', runPc \in ShutdownAwaits, stopRequested' = stopRequested,
         Finish \/ (runPc' = "done" /\ summary' = summary)
  PROVE  Seen
<1>1. runPc' = "done" /\ PhaseOf = "ending" /\ PhaseOf' = "over"
  BY PhaseAt, PhaseAfter DEF IInv, Finish
<1>2. ResultOf' \in {"stopped", "failed", "raised"}
  <2>1. CASE Finish
    BY <1>1, <2>1, PhaseAfter DEF IInv, Finish
  <2>2. CASE summary' = summary
    <3>1. ~summary.built
      BY DEF IInv, Drained, ShutdownAwaits, SummaryShape
    <3> QED
      BY <1>1, <2>2, <3>1, PhaseAfter DEF IInv
  <2> QED
    BY <2>1, <2>2
<1> QED
  BY <1>1, <1>2 DEF Seen

\* A step that keeps the place, the attempts and how it ended is not seen, but for a stop.
LEMMA HiddenSeen ==
  ASSUME IInv, runPc' = runPc, attempts' = attempts, summary' = summary, state' = state,
         stopRequested' = stopRequested \/ (stopRequested' = TRUE /\ runPc # "done")
  PROVE  Seen
<1>1. PhaseOf' = PhaseOf /\ ResultOf' = ResultOf
  BY DEF PhaseOf, ResultOf, At, Reconnecting
<1> QED
  BY <1>1, PhaseAt DEF Seen, IInv

\* Every step of the runtime is one its owner may see.
LEMMA StepSeen == IInv /\ IInv' /\ AttemptsKnown /\ [Next]_vars => Seen
<1> SUFFICES ASSUME IInv, IInv', AttemptsKnown, [Next]_vars PROVE Seen
  OBVIOUS
<1>0. /\ runPc \in MainAwaits \cup ShutdownAwaits \cup {"new", "done"} /\ attempts \in Nat
      /\ Places /\ Places'
  BY DEF IInv, Places, Numbers
<1> USE DEF At, MainAwaits
<1>1. CASE Start
  <2>1. runPc = "new" /\ attempts = 0 /\ attempts' = attempts
    BY <1>1 DEF Start, AttemptsKnown
  <2>2. CASE runPc' = "connect" /\ stopRequested' = stopRequested
    BY <1>0, <2>1, <2>2, PhaseAt, PhaseAfter DEF Seen
  <2> QED
    BY <1>1, <2>1, <2>2, EnterSeen DEF Start
<1>2. CASE Connect
  <2>1. runPc = "connect" /\ attempts' = attempts
    BY <1>2 DEF Connect
  <2>2. CASE runPc' = "register" /\ stopRequested' = stopRequested
    BY <1>0, <2>1, <2>2, PhaseAt, PhaseAfter DEF Seen
  <2> QED
    BY <1>2, <2>1, <2>2, EnterSeen DEF Connect, FailConnecting
<1>3. CASE Register
  <2>1. runPc = "register" /\ attempts' = attempts
    BY <1>3 DEF Register
  <2>2. CASE runPc' = "undo" /\ stopRequested' = stopRequested
    BY <1>0, <2>1, <2>2, PhaseAt, PhaseAfter DEF Seen
  <2>3. CASE ~stopRequested /\ runPc' = "wait" /\ stopRequested' = stopRequested
    BY <1>0, <2>1, <2>3, PhaseAt, PhaseAfter DEF Seen
  <2> QED
    BY <1>3, <2>1, <2>2, <2>3, EnterSeen DEF Register, AfterRegistration, AfterRefusal, Listen
<1>4. CASE Undo
  BY <1>4, EnterSeen DEF Undo, FailConnecting
<1>5. CASE WaitReturns
  <2>1. CASE ~stopRequested /\ runPc' = "unregister" /\ stopRequested' = stopRequested
    BY <1>0, <1>5, <2>1, PhaseAt, PhaseAfter DEF Seen, WaitReturns
  <2> QED
    BY <1>5, <2>1, EnterSeen DEF WaitReturns
<1>6. CASE Unregister
  <2>1. CASE runPc' = "backoff" /\ stopRequested' = stopRequested
    BY <1>0, <1>6, <2>1, PhaseAt, PhaseAfter DEF Seen, Unregister
  <2> QED
    BY <1>6, <2>1, EnterSeen DEF Unregister
<1>7. CASE BackoffEnds
  <2>1. runPc = "backoff" /\ attempts > 0 /\ attempts' = attempts
    BY <1>7 DEF BackoffEnds, AttemptsKnown
  <2>2. CASE runPc' = "connect" /\ stopRequested' = stopRequested
    BY <1>0, <2>1, <2>2, PhaseAt, PhaseAfter DEF Seen
  <2> QED
    BY <1>7, <2>1, <2>2, EnterSeen DEF BackoffEnds
<1>8. CASE Drain \/ Remove
  <2>1. runPc \in ShutdownAwaits /\ runPc' \in ShutdownAwaits /\ stopRequested' = stopRequested
    BY <1>8 DEF Drain, Remove, RemovalStep, ShutdownAwaits
  <2>2. runPc # "done" /\ runPc' # "done"
    BY <2>1 DEF ShutdownAwaits
  <2> QED
    BY <1>0, <2>1, <2>2, PhaseAt, PhaseAfter DEF Seen
<1>9. CASE Disconnect
  <2>1. runPc \in ShutdownAwaits /\ stopRequested' = stopRequested
    BY <1>9 DEF Disconnect, ShutdownAwaits
  <2>2. CASE runPc' = "stop_heartbeat"
    <3>1. runPc' \in ShutdownAwaits /\ runPc # "done" /\ runPc' # "done"
      BY <2>1, <2>2 DEF ShutdownAwaits
    <3> QED
      BY <1>0, <2>1, <3>1, PhaseAt, PhaseAfter DEF Seen
  <2> QED
    BY <1>9, <2>1, <2>2, FinishSeen DEF Disconnect
<1>10. CASE StopHeartbeat
  BY <1>10, FinishSeen DEF StopHeartbeat, ShutdownAwaits
<1>11. CASE Cancel
  BY <1>11, EnterSeen, FinishSeen DEF Cancel, ShutdownAwaits
<1>12. CASE HandlerStep \/ EventArrives \/ ClientDrops \/ HeartbeatStep \/ Over \/ UNCHANGED vars
  <2>1. /\ runPc' = runPc /\ attempts' = attempts /\ summary' = summary /\ state' = state
        /\ stopRequested' = stopRequested
    BY <1>12 DEF HandlerStep, HandleEvent, Call, IngestReturns, ProcessReturns, EventArrives,
       ClientDrops, HeartbeatStep, Over, vars, runVars
  <2> QED
    BY <2>1, HiddenSeen
<1>13. CASE Stop
  BY <1>13, HiddenSeen DEF Stop
<1> QED
  BY <1>1, <1>2, <1>3, <1>4, <1>5, <1>6, <1>7, <1>8, <1>9, <1>10, <1>11, <1>12, <1>13 DEF Next, RunStep

\* From outside every behaviour of the runtime, with any losses, reconnects, cancellations and
\* failures, is a life as MonitorLifecycle allows it: the safety half of ImplementsLifecycle.
THEOREM LifeIsAsPromised == Spec => Lifecycle!LifeInit /\ [][Lifecycle!LifeNext]_(Lifecycle!lifeVars)
<1>1. Init => Lifecycle!LifeInit /\ AttemptsKnown
  <2> SUFFICES ASSUME Init PROVE Lifecycle!LifeInit /\ AttemptsKnown
    OBVIOUS
  <2>1. PhaseOf = "new" /\ ResultOf = "none"
    BY InitInvariant, PhaseAt DEF IInv, Init
  <2>2. Lifecycle!LifeInit
    BY <2>1 DEF Init, PhaseOf, ResultOf, Lifecycle!LifeInit
  <2> QED
    BY <2>2 DEF Init, AttemptsKnown
<1>2. Seen => [Lifecycle!LifeNext]_(Lifecycle!lifeVars)
  BY DEF Seen, PhaseOf, ResultOf, Lifecycle!LifeNext, Lifecycle!lifeVars, Lifecycle!RequestStop,
     Lifecycle!Begin, Lifecycle!Listen, Lifecycle!Lose, Lifecycle!WindDown, Lifecycle!End,
     Lifecycle!Moves, Lifecycle!Working, Lifecycle!Results
<1>3. IInv /\ AttemptsKnown /\ [Next]_vars => IInv' /\ AttemptsKnown' /\ [Lifecycle!LifeNext]_(Lifecycle!lifeVars)
  BY <1>2, StepInvariant, AttemptsStep, StepSeen
<1> QED
  BY <1>1, <1>3, InitInvariant, PTL DEF Spec
=============================================================================
