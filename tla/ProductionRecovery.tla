------------------------- MODULE ProductionRecovery -------------------------
(***************************************************************************)
(* The rehearsal of a production recovery                                  *)
(* (deploy/production_recovery_fake.py, production_recovery_record.py,     *)
(* production_recovery_models.py): a replacement database is created,      *)
(* restored and verified, the services are stopped, the configuration is   *)
(* switched to it, the application and then the monitor are started on it. *)
(* Up to the monitor's start all of it can be rolled back.                 *)
(*                                                                         *)
(* Every step is an intent, an operation on the world, the facts it        *)
(* established and a result; the intent, the facts and the result are      *)
(* durable writes of ONE record, each under a lease on the record's lock.  *)
(* A caller can die between any two of them, and a later call goes on from *)
(* the phase on disk, asking the world whether the operation was done.     *)
(***************************************************************************)
EXTENDS Naturals, FiniteSets

CONSTANTS Operators,    \* who calls run() and, between two runs, the cleanup
          Undoers,      \* who calls rollback(), at any time
          MaxFaults     \* bound: operations that fail, callers that die or are
                        \* cancelled, configuration files changed by hand

ASSUME CallersAssumption == Operators \cap Undoers = {} /\ MaxFaults \in Nat

Callers == Operators \cup Undoers

VARIABLES
    record,    \* the durable record of the incident
    child,     \* the durable record of the replacement's cleanup
    world,     \* the databases, the services, the configuration files
    caller,    \* [Callers -> what the call does, how far it is, the record it read]
    faults     \* how many faults there were

vars == <<record, child, world, caller, faults>>

-----------------------------------------------------------------------------
(* The phases. *)

Step(from, intent, operation, result) ==
    [from |-> from, intent |-> intent, operation |-> operation, result |-> result]

ForwardSteps == {
    Step({"planned"},
         "protection_backup_started", "protection_backup", "protection_backup_completed"),
    Step({"protection_backup_completed", "protection_backup_skipped_authorized"},
         "replacement_create_started", "create_replacement", "replacement_created"),
    Step({"replacement_created"},
         "identity_commit_started", "commit_identity", "identity_committed"),
    Step({"identity_committed"}, "restore_started", "restore", "restore_completed"),
    Step({"restore_completed"}, "verification_started", "verify", "verification_completed"),
    Step({"verification_completed"},
         "services_stop_started", "stop_services", "services_stopped"),
    Step({"services_stopped"},
         "config_protection_started", "protect_config", "config_protection_completed"),
    Step({"config_protection_completed"}, "env_switch_started", "switch_env", "env_switched"),
    Step({"env_switched"},
         "watchlist_switch_started", "switch_watchlist", "watchlist_switched"),
    Step({"config_switched"},
         "application_start_started", "start_replacement_app", "application_started"),
    Step({"application_started"},
         "readiness_started", "check_replacement", "readiness_passed"),
    Step({"monitor_start_authorized"},
         "monitor_start_started", "start_monitor", "monitor_started")}

RollbackSteps == {
    Step({}, "rollback_started", "rollback_stop_monitor", "rollback_monitor_stopped"),
    Step({"rollback_monitor_stopped"}, "rollback_application_stop_started",
         "rollback_stop_app", "rollback_application_stopped"),
    Step({"rollback_application_stopped"},
         "rollback_env_started", "rollback_env", "rollback_env_completed"),
    Step({"rollback_env_completed"}, "rollback_watchlist_started",
         "rollback_watchlist", "rollback_watchlist_completed"),
    Step({"rollback_env_completed", "rollback_watchlist_completed"},
         "rollback_application_start_started", "start_original_app",
         "rollback_application_started"),
    Step({"rollback_application_started"},
         "rollback_readiness_started", "check_original", "rollback_readiness_passed")}

AllSteps == ForwardSteps \cup RollbackSteps

Steps(job) == IF job = "run" THEN ForwardSteps ELSE RollbackSteps

\* the advances that stand for no operation
Moves(job) == IF job = "run"
              THEN {<<"env_switched", "config_switched">>,
                    <<"watchlist_switched", "config_switched">>,
                    <<"monitor_write_observed", "completed">>}
              ELSE {<<"rollback_readiness_passed", "rolled_back">>}

RollbackPhases ==
    UNION {s.from \cup {s.intent, s.result} : s \in RollbackSteps}

AfterSwitch == {"env_switched", "watchlist_switch_started", "watchlist_switched",
                "config_switched", "application_start_started", "application_started",
                "readiness_started", "readiness_passed", "monitor_start_authorized"}

MonitorMayRun == {"monitor_start_started", "monitor_started", "monitor_write_observed"}

BeforeSwitch ==
    UNION {s.from \cup {s.intent} : s \in ForwardSteps}
        \ (AfterSwitch \cup MonitorMayRun \cup {"env_switch_started"})

\* Variant with a bug: the monitor's start is one more step to undo.
MonitorUndone == AfterSwitch \cup {"env_switch_started", "monitor_start_started"}
\* A rollback can begin once the switch may have happened, and no more once
\* the monitor may have written to the replacement.
RollbackEntry == AfterSwitch \cup {"env_switch_started"}

\* The phases rollback() refuses are written out in the code; they are the rest.
Fenced == (MonitorMayRun \cup {"completed"}) \ RollbackEntry

\* advance_production_recovery: what the record must say before a phase is entered.
\* From env_switched the code lets one phase follow and no other, the rollback's included.
MayAdvance(r, target) ==
    /\ r.phase = "env_switched" =>
           target = IF r.watchlistAuthorized THEN "watchlist_switch_started" ELSE "config_switched"
    /\ CASE target = "verification_completed" -> r.verification = "passed"
         [] target = "services_stopped" -> r.monitorStopped /\ r.applicationStopped
         [] target = "protection_backup_completed" -> r.protection = "completed"
         [] target = "protection_backup_skipped_authorized" -> r.protection = "skipped"
         [] target = "env_switched" -> r.activated
         [] target = "watchlist_switched" -> r.watchlistSwitched
         [] target \in {"monitor_start_authorized", "monitor_start_started"} -> r.monitorAuthorized
         [] target = "rollback_watchlist_started" -> r.watchlistSwitched
         [] target = "rollback_application_start_started" ->
                r.phase = "rollback_env_completed" => ~r.watchlistSwitched
         [] target = "completed" -> r.written # "unknown" /\ ~r.manual
         [] OTHER -> TRUE

-----------------------------------------------------------------------------
(* The world. *)

Whole == {"created", "identified", "restored", "verified"}

\* the operations the world refuses, each for want of what it builds on
Able(operation, w) ==
    CASE operation = "commit_identity" -> "created" \in w.replacement
      [] operation = "restore" -> "identified" \in w.replacement
      [] operation = "verify" -> "restored" \in w.replacement
      [] operation = "protect_config" -> w.env = "original" /\ w.watchlist = "original"
      [] operation = "switch_env" -> w.env # "unknown"
      [] operation = "switch_watchlist" -> w.watchlist # "unknown"
      [] operation = "start_replacement_app" -> w.env = "staged"
      [] operation = "check_replacement" -> w.application = "replacement"
      [] operation = "start_monitor" -> w.ready
      [] operation = "rollback_env" -> w.env # "unknown" /\ w.copies = 2
      [] operation = "rollback_watchlist" -> w.watchlist # "unknown" /\ w.copies = 2
      [] operation = "start_original_app" -> w.env = "original"
      [] operation = "check_original" -> w.application = "original"
      [] OTHER -> TRUE

\* a refusal that only a person can resolve
Unidentified(operation, w) ==
    \/ operation \in {"protect_config"} /\ ~Able(operation, w)
    \/ operation \in {"switch_env", "rollback_env"} /\ w.env = "unknown"
    \/ operation \in {"switch_watchlist", "rollback_watchlist"} /\ w.watchlist = "unknown"

Effect(operation, w) ==
    CASE operation = "protection_backup" -> [w EXCEPT !.protected = TRUE]
      [] operation = "create_replacement" -> [w EXCEPT !.replacement = @ \cup {"created"}]
      [] operation = "commit_identity" -> [w EXCEPT !.replacement = @ \cup {"identified"}]
      [] operation = "restore" -> [w EXCEPT !.replacement = @ \cup {"restored"}]
      [] operation = "verify" -> [w EXCEPT !.replacement = @ \cup {"verified"}]
      [] operation = "rollback_stop_monitor" -> [w EXCEPT !.monitor = FALSE]
      [] operation = "rollback_stop_app" ->
             [w EXCEPT !.application = "stopped", !.ready = FALSE]
      [] operation = "stop_services" ->
             [w EXCEPT !.monitor = FALSE, !.application = "stopped", !.ready = FALSE]
      [] operation = "protect_config" -> [w EXCEPT !.copies = 2]
      [] operation = "switch_env" -> [w EXCEPT !.env = "staged"]
      [] operation = "switch_watchlist" -> [w EXCEPT !.watchlist = "staged"]
      [] operation = "start_replacement_app" -> [w EXCEPT !.application = "replacement"]
      [] operation = "start_original_app" -> [w EXCEPT !.application = "original"]
      [] operation \in {"check_replacement", "check_original"} -> [w EXCEPT !.ready = TRUE]
      [] operation = "start_monitor" -> [w EXCEPT !.monitor = TRUE, !.generation = TRUE]
      [] operation = "rollback_env" -> [w EXCEPT !.env = "original"]
      [] operation = "rollback_watchlist" -> [w EXCEPT !.watchlist = "original"]

\* Variant with a bug: an application that is not ready counts as stopped.
NotReady(w) == ~w.ready
Stopped(w) == w.application = "stopped"

\* operation_status: what a caller that finds an intent learns of its operation
Complete(operation, w) ==
    CASE operation = "protection_backup" -> w.protected
      [] operation = "create_replacement" -> "created" \in w.replacement
      [] operation = "commit_identity" -> "identified" \in w.replacement
      [] operation = "restore" -> "restored" \in w.replacement
      [] operation = "verify" -> "verified" \in w.replacement
      [] operation \in {"stop_services", "rollback_stop_app"} -> Stopped(w)
      [] operation = "rollback_stop_monitor" -> ~w.monitor
      [] operation = "protect_config" -> w.copies = 2
      [] operation = "switch_env" -> w.env = "staged"
      [] operation = "switch_watchlist" -> w.watchlist = "staged"
      [] operation = "start_replacement_app" -> w.application = "replacement"
      [] operation = "start_original_app" -> w.application = "original"
      [] operation = "check_replacement" -> w.ready
      [] operation = "start_monitor" -> w.monitor /\ w.generation
      [] operation = "rollback_env" -> w.env = "original"
      [] operation = "rollback_watchlist" -> w.watchlist = "original"
      [] operation = "check_original" -> w.application = "original" /\ w.ready

Unknown(operation, w) ==
    \/ operation \in {"switch_env", "rollback_env"} /\ w.env = "unknown"
    \/ operation \in {"switch_watchlist", "rollback_watchlist"} /\ w.watchlist = "unknown"

\* the facts a completed operation adds to the record
Established(operation, r) ==
    CASE operation = "protection_backup" -> [r EXCEPT !.protection = "completed"]
      [] operation = "verify" -> [r EXCEPT !.verification = "passed"]
      [] operation = "stop_services" ->
             [r EXCEPT !.monitorStopped = TRUE, !.applicationStopped = TRUE]
      [] operation = "switch_env" -> [r EXCEPT !.activated = TRUE]
      [] operation = "switch_watchlist" -> [r EXCEPT !.watchlistSwitched = TRUE]
      [] operation = "rollback_stop_monitor" -> [r EXCEPT !.monitorStopped = TRUE]
      [] operation = "rollback_stop_app" -> [r EXCEPT !.applicationStopped = TRUE]
      [] OTHER -> r

\* Variant with a bug: a service that is on record as stopped cannot be recorded again.
WritableOnce(operation, r) ==
    CASE operation = "verify" -> r.verification = "not_started"
      [] operation = "protection_backup" -> r.protection # "skipped"
      [] operation = "rollback_stop_monitor" -> ~r.monitorStopped
      [] OTHER -> TRUE
\* _validate_fact_update: the facts the store does not let a caller write again
Writable(operation, r) ==
    CASE operation = "verify" -> r.verification = "not_started"
      [] operation = "protection_backup" -> r.protection # "skipped"
      [] OTHER -> TRUE

-----------------------------------------------------------------------------
(* The callers. *)

Idle == [job |-> "none", at |-> "idle", seen |-> {}, why |-> "none"]

Init ==
    /\ record = [phase |-> "planned", protection |-> "pending",
                 verification |-> "not_started", monitorStopped |-> FALSE,
                 applicationStopped |-> FALSE, activated |-> FALSE,
                 watchlistAuthorized |-> FALSE, watchlistSwitched |-> FALSE,
                 monitorAuthorized |-> FALSE, written |-> "unknown",
                 manual |-> FALSE, retryable |-> FALSE, cleanup |-> "no"]
    /\ child = "absent"
    /\ world = [protected |-> FALSE, replacement |-> {}, monitor |-> TRUE,
                application |-> "original", ready |-> FALSE, env |-> "original",
                watchlist |-> "original", copies |-> 0, generation |-> FALSE,
                written |-> FALSE]
    /\ caller = [c \in Callers |-> Idle]
    /\ faults = 0

\* the lease on the record's lock is held from the intent to the result
Leased(c) == caller[c].at \in {"intended", "performed", "settled", "recorded"}

Free == \A c \in Callers : ~Leased(c)

Goes(c, place) == caller' = [caller EXCEPT ![c].at = place]

Ends(c) == caller' = [caller EXCEPT ![c] = Idle]

\* A durable write: the caller goes on with the record it has written.
Writes(c, r, place) ==
    /\ record' = r
    /\ caller' = [caller EXCEPT ![c].at = place, ![c].seen = r]

Fails(c, why) == caller' = [caller EXCEPT ![c].at = "failing", ![c].why = why]

Fault == faults < MaxFaults /\ faults' = faults + 1

Cleaning(c) == caller[c].job = "clean"

Begins(c, job) ==
    /\ caller[c] = Idle
    /\ Free
    /\ caller' = [caller EXCEPT ![c] =
                      [job |-> job, at |-> "deciding", seen |-> record, why |-> "none"]]
    /\ UNCHANGED <<record, child, world, faults>>

\* the head of the loop of _run_forward and of _run_rollback
Deciding(c, job) ==
    caller[c].job = job /\ caller[c].at = "deciding"

\* operation_lease: at once, and on the record the caller knows
Leases(c) == Free /\ caller[c].seen = record

\* _validate_forward_external_facts
Misplaced(r, w) ==
    \/ r.phase \in BeforeSwitch /\ w.env # "original"
    \/ r.phase \in AfterSwitch \cup MonitorMayRun /\ w.env # "staged"
    \/ /\ r.phase \in (AfterSwitch \cup MonitorMayRun) \ {"watchlist_switch_started"}
       /\ w.watchlist # IF r.watchlistSwitched THEN "staged" ELSE "original"

Placed(c) == Deciding(c, "run") => ~Misplaced(caller[c].seen, world)

FindsMisplaced(c) ==
    /\ Deciding(c, "run") /\ ~Placed(c)
    /\ Fails(c, "unknown")
    /\ UNCHANGED <<record, child, world, faults>>

StepIntends(c) ==
    \E job \in {"run", "rollback"} : \E s \in Steps(job) :
        /\ Deciding(c, job) /\ Placed(c) /\ Leases(c)
        /\ record.phase \in s.from
        /\ MayAdvance(record, s.intent)
        /\ Writes(c, [record EXCEPT !.phase = s.intent], "intended")
        /\ UNCHANGED <<child, world, faults>>

\* what the caller of a rollback writes first
RollbackBegins(c) ==
    /\ Deciding(c, "rollback") /\ Leases(c)
    /\ record.phase \in RollbackEntry
    /\ MayAdvance(record, "rollback_started")
    /\ Writes(c, [record EXCEPT !.phase = "rollback_started"], "deciding")
    /\ UNCHANGED <<child, world, faults>>

RollbackRefused(c) ==
    /\ Deciding(c, "rollback") /\ Free
    /\ record.phase \in Fenced
    /\ caller[c].seen = record
    /\ record' = [record EXCEPT !.manual = TRUE]
    /\ Ends(c)
    /\ UNCHANGED <<child, world, faults>>

Resumes(c) ==
    \E job \in {"run", "rollback"} : \E s \in Steps(job) :
        /\ Deciding(c, job) /\ Placed(c) /\ Leases(c)
        /\ record.phase = s.intent
        /\ IF Unknown(s.operation, world)
           THEN Fails(c, "unknown")
           ELSE Goes(c, IF Complete(s.operation, world) THEN "performed" ELSE "intended")
        /\ UNCHANGED <<record, child, world, faults>>

Performs(c) ==
    \E s \in AllSteps :
        /\ caller[c].at = "intended" /\ record.phase = s.intent
        /\ Able(s.operation, world)
        /\ world' = Effect(s.operation, world)
        /\ Goes(c, "performed")
        /\ UNCHANGED <<record, child, faults>>

\* The operation is refused, or fails before it has changed anything.
OperationFails(c) ==
    \E s \in AllSteps :
        /\ caller[c].at = "intended" /\ record.phase = s.intent
        /\ \/ /\ ~Able(s.operation, world)
              /\ Fails(c, IF Unidentified(s.operation, world) THEN "unknown" ELSE "plain")
              /\ UNCHANGED faults
           \/ Fault /\ Fails(c, "plain")
        /\ UNCHANGED <<record, child, world>>

\* The facts, if the operation establishes any.
Notes(c) ==
    \E s \in AllSteps :
        /\ caller[c].at = "performed" /\ record.phase = s.intent
        /\ IF Writable(s.operation, record)
           THEN Writes(c, Established(s.operation, record), "settled")
           ELSE UNCHANGED record /\ Ends(c)
        /\ UNCHANGED <<child, world, faults>>

Results(c) ==
    \E s \in AllSteps :
        /\ caller[c].at = "settled" /\ record.phase = s.intent
        /\ IF MayAdvance(record, s.result)
           THEN Writes(c, [record EXCEPT !.phase = s.result], "deciding")
           ELSE UNCHANGED record /\ Ends(c)
        /\ UNCHANGED <<child, world, faults>>

\* _advance
Advances(c) ==
    \E job \in {"run", "rollback"} : \E move \in Moves(job) :
        /\ Deciding(c, job) /\ Placed(c) /\ Leases(c)
        /\ record.phase = move[1]
        /\ MayAdvance(record, move[2])
        /\ Writes(c, [record EXCEPT !.phase = move[2]], "deciding")
        /\ UNCHANGED <<child, world, faults>>

\* _after_env: the authorization is a lease of its own
AuthorizesWatchlist(c) ==
    /\ Deciding(c, "run") /\ Placed(c) /\ Leases(c)
    /\ record.phase = "env_switched"
    /\ Writes(c, [record EXCEPT !.watchlistAuthorized = TRUE], "deciding")
    /\ UNCHANGED <<child, world, faults>>

\* The decisions that are facts first and a phase next, under one lease: the
\* protection backup is skipped, the monitor is authorized, it was observed.
Decides(c) ==
    /\ Deciding(c, "run") /\ Placed(c) /\ Leases(c)
    /\ \/ /\ record.phase = "planned" /\ record.protection # "completed"
          /\ Writes(c, [record EXCEPT !.protection = "skipped"], "recorded")
       \/ /\ record.phase = "readiness_passed"
          /\ Writes(c, [record EXCEPT !.monitorAuthorized = TRUE], "recorded")
       \/ /\ record.phase = "monitor_started" /\ record.written = "unknown"
          /\ Writes(c, [record EXCEPT !.written = IF world.written THEN "yes" ELSE "no"],
                    "recorded")
    /\ UNCHANGED <<child, world, faults>>

Decided(r) ==
    CASE r.phase = "planned" -> "protection_backup_skipped_authorized"
      [] r.phase = "readiness_passed" -> "monitor_start_authorized"
      [] r.phase = "monitor_started" ->
             IF r.written = "yes" THEN "monitor_write_observed" ELSE "completed"
      [] r.phase = "monitor_write_observed" -> "completed"

Confirms(c) ==
    /\ caller[c].at = "recorded"
    /\ LET target == Decided(record)
       IN IF MayAdvance(record, target)
          THEN Writes(c, [record EXCEPT !.phase = target],
                      IF target = "monitor_write_observed" THEN "recorded" ELSE "deciding")
          ELSE UNCHANGED record /\ Ends(c)
    /\ UNCHANGED <<child, world, faults>>

\* run() and rollback() record an operation that failed; a verification that
\* failed before cannot be recorded again, and the update is refused.
RecordsFailure(c) ==
    /\ caller[c].at = "failing" /\ Free
    /\ LET unknown == caller[c].why = "unknown"
           marked == [record EXCEPT !.manual = @ \/ unknown, !.retryable = ~unknown]
       IN record' =
             IF caller[c].job = "rollback"
             THEN IF unknown THEN marked ELSE record
             ELSE IF record.phase # "verification_started" THEN marked
             ELSE IF record.verification = "not_started"
                  THEN [marked EXCEPT !.verification = "failed"] ELSE record
    /\ Ends(c)
    /\ UNCHANGED <<child, world, faults>>

HasWork(c) ==
    IF caller[c].job = "run"
    THEN \/ record.phase \in BeforeSwitch \cup AfterSwitch \cup {"env_switch_started"}
         \/ record.phase = "monitor_start_started"
         \/ record.phase = "monitor_started" /\ record.written = "unknown"
         \/ record.phase = "monitor_write_observed" /\ ~record.manual
    ELSE \/ record.phase \in RollbackPhases \cup Fenced
         \/ record.phase \in RollbackEntry /\ MayAdvance(record, "rollback_started")

\* The call ends: another holds the lease, the record is not the one it read,
\* the record is final or in the other direction, or the facts forbid the step.
Rejects(c) ==
    /\ caller[c].job \in {"run", "rollback"} /\ caller[c].at = "deciding"
    /\ Placed(c)
    /\ ~Leases(c) \/ ~HasWork(c)
    /\ Ends(c)
    /\ UNCHANGED <<record, child, world, faults>>

-----------------------------------------------------------------------------
(* The cleanup of the replacement: FakeCleanupCoordinator.  The child      *)
(* record a cleaner believes in is where it is.                            *)

\* Variant with a bug: the replacement that was activated once is not asked about,
\* and neither is the phase.
MayCleanUnlessStaged(r, w) == w.env # "staged"
MayClean(r, w) ==
    /\ w.env # "staged"
    /\ r.activated => r.phase = "rolled_back"
    /\ r.phase \in {"rolled_back", "restore_started", "verification_started"}

\* each durable step of a cleaner takes the lock and reads the main record again
Current(c) == Free /\ caller[c].seen = record

RequestsCleanup(c) ==
    /\ Deciding(c, "clean")
    /\ MayClean(caller[c].seen, world)
    /\ IF caller[c].seen.cleanup # "no"
       THEN Goes(c, "requested") /\ UNCHANGED record
       ELSE Current(c) /\ Writes(c, [record EXCEPT !.cleanup = "requested"], "requested")
    /\ UNCHANGED <<child, world, faults>>

\* create_cleanup and read_cleanup
ReadsChild(c) ==
    /\ Cleaning(c) /\ caller[c].at = "requested" /\ Current(c)
    /\ child' = IF child = "absent" THEN "planned" ELSE child
    /\ Goes(c, child')
    /\ UNCHANGED <<record, world, faults>>

ChildAdvances(c, from, to) ==
    /\ Cleaning(c) /\ caller[c].at = from /\ Current(c)
    /\ child = IF from = "gone" THEN "started" ELSE from
    /\ child' = to
    /\ Goes(c, to)
    /\ UNCHANGED <<record, world, faults>>

CleanupStarts(c) == ChildAdvances(c, "planned", "started")

\* drop_once, with no lock: only the active configuration is looked at
Drops(c) ==
    /\ Cleaning(c) /\ caller[c].at = "started"
    /\ IF "created" \in world.replacement /\ world.env = "staged"
       THEN Ends(c) /\ UNCHANGED world
       ELSE Goes(c, "gone") /\ world' = [world EXCEPT !.replacement = {}]
    /\ UNCHANGED <<record, child, faults>>

DropIsObserved(c) == ChildAdvances(c, "gone", "dropped")

CleanupCompletes(c) == ChildAdvances(c, "dropped", "completed")

CleanupIsRecorded(c) ==
    /\ Cleaning(c) /\ caller[c].at = "completed" /\ Current(c)
    /\ record' = [record EXCEPT !.cleanup = "completed"]
    /\ Ends(c)
    /\ UNCHANGED <<child, world, faults>>

CleanupRejects(c) ==
    /\ Cleaning(c) /\ caller[c].at # "started"
    /\ \/ caller[c].at = "deciding" /\ ~MayClean(caller[c].seen, world)
       \/ Free /\ caller[c].seen # record
       \/ Free /\ caller[c].at \in {"planned", "dropped"} /\ child # caller[c].at
       \/ Free /\ caller[c].at = "gone" /\ child # "started"
    /\ Ends(c)
    /\ UNCHANGED <<record, child, world, faults>>

-----------------------------------------------------------------------------
(* The environment. *)

\* A caller dies, or is cancelled; copying the configuration it can have
\* finished one of the two copies.
Crashes(c) ==
    /\ caller[c] # Idle /\ Fault
    /\ Ends(c)
    /\ \/ UNCHANGED world
       \/ /\ caller[c].at = "intended" /\ record.phase = "config_protection_started"
          /\ Able("protect_config", world) /\ world.copies = 0
          /\ world' = [world EXCEPT !.copies = 1]
    /\ UNCHANGED <<record, child>>

\* A person leaves a third content in an active file.
Edits ==
    /\ Fault
    /\ \A c \in Callers : caller[c] = Idle
    /\ \E file \in {"env", "watchlist"} : world' = [world EXCEPT ![file] = "unknown"]
    /\ UNCHANGED <<record, child, caller>>

MonitorWrites ==
    /\ world.monitor /\ world.generation /\ ~world.written
    /\ world' = [world EXCEPT !.written = TRUE]
    /\ UNCHANGED <<record, child, caller, faults>>

RollbackIsCalled == \E c \in Undoers : Begins(c, "rollback")

GoesOn(c) ==
    \/ FindsMisplaced(c) \/ StepIntends(c) \/ RollbackBegins(c) \/ RollbackRefused(c)
    \/ Resumes(c) \/ Performs(c) \/ OperationFails(c) \/ Notes(c) \/ Results(c)
    \/ Advances(c) \/ AuthorizesWatchlist(c) \/ Decides(c) \/ Confirms(c)
    \/ RecordsFailure(c) \/ Rejects(c)
    \/ RequestsCleanup(c) \/ ReadsChild(c) \/ CleanupStarts(c) \/ Drops(c)
    \/ DropIsObserved(c) \/ CleanupCompletes(c) \/ CleanupIsRecorded(c) \/ CleanupRejects(c)

Next ==
    \/ \E c \in Callers : GoesOn(c) \/ Crashes(c)
    \/ \E c \in Operators : Begins(c, "run") \/ Begins(c, "clean")
    \/ RollbackIsCalled
    \/ Edits \/ MonitorWrites

\* A call that was made goes on, and rollback() is called again and again, however
\* often something else is called in between.
Spec ==
    /\ Init /\ [][Next]_vars
    /\ \A c \in Callers : WF_vars(GoesOn(c))
    /\ SF_vars(RollbackIsCalled)

-----------------------------------------------------------------------------
(* The properties. *)

\* The configuration points at the replacement only while the replacement is
\* there and was restored and verified: neither a cleanup that was started, died
\* and is called again, nor a run resumed after one, leaves the services a
\* database that was dropped.
ActiveIsVerified == world.env = "staged" => world.replacement = Whole

\* Once the monitor may have written to the replacement the application never
\* runs on the original database again, whatever calls die between the monitor's
\* start and its record: there is one history, not two.
NoForkedHistory ==
    world.generation => world.application = "replacement" /\ "created" \in world.replacement

\* The active files are switched, and switched back, only while the application and the
\* monitor are stopped, whichever calls died since they were: nothing runs on a
\* configuration that changes under it.
SwitchedAtRest ==
    [][\A file \in {"env", "watchlist"} :
         world'[file] \notin {world[file], "unknown"} => Stopped(world) /\ ~world.monitor]_vars

\* A rollback that was begun ends with the original database in use, if it is
\* called again after each failure and nobody edits the files.
OnOriginal ==
    /\ world.application = "original" /\ world.ready /\ world.env # "staged"
    /\ record.watchlistSwitched => world.watchlist # "staged"
    /\ ~world.monitor /\ ~world.generation
Intact == world.env # "unknown" /\ world.watchlist # "unknown"
RollbackConverges ==
    record.phase \in RollbackPhases ~> ((record.phase = "rolled_back" /\ OnOriginal) \/ ~Intact)

\* The record says "rolled_back" only while the services are back on the original
\* configuration, wherever calls died on the way, but for a switch of the watchlist that
\* the record does not know of: what RolledBackIsOriginal overlooks.
BackOnOriginal == record.phase = "rolled_back" => OnOriginal

\* "rolled_back" is written only when the original configuration is back, the
\* application is ready on the original database and the monitor is stopped; a
\* file edited by hand is left to the person who edited it.
RolledBackIsOriginal ==
    record.phase = "rolled_back" /\ Intact =>
        /\ world.env = "original" /\ world.watchlist = "original"
        /\ world.application = "original" /\ world.ready /\ ~world.monitor

\* A call of rollback() that finds nobody else at work and the incident in a phase a
\* rollback can begin from (ROLLBACK_ENTRY_PHASES) begins it, unless the call dies.
RollbackIsAccepted ==
    [][\A c \in Undoers :
         /\ Deciding(c, "rollback") /\ caller[c].seen = record
         /\ \A d \in Callers \ {c} : caller[d] = Idle
         /\ record.phase \in RollbackEntry
         /\ caller'[c] = Idle
         => faults' # faults]_vars

=============================================================================
