---------------------- MODULE ProductionRecovery_proofs ----------------------
(***************************************************************************)
(* What the recovery guarantees for any number of faults, crashes and      *)
(* callers of rollback(). The services follow the phases on disk           *)
(* (Services), because an operation is recorded by the caller that         *)
(* performed it, under the lease: so a record that says rolled_back tells  *)
(* the truth, and nothing runs while its configuration is switched. The    *)
(* databases do so too (Backed), as long as the record does not move while *)
(* a cleanup is under way (Halted): then the active configuration never    *)
(* names a database that is gone or was not verified, and once the monitor *)
(* was started on the replacement there is no way back.                    *)
(***************************************************************************)
EXTENDS ProductionRecovery, TLAPS

\* run() and the cleanup are called by one person, in turn. The cleanup drops the replacement
\* without the lease: with two operators, one of whom resumes a run in between, neither ActiveIsVerified
\* nor NoForkedHistory holds.
OneOperator == \A o, p \in Operators : o = p

(***************************************************************************)
(* Types.                                                                  *)
(***************************************************************************)
\* What a configuration file holds.
Files == {"original", "staged", "unknown"}

\* The phases on disk (production_recovery_models.py).
Phases ==
  {"planned", "protection_backup_started", "protection_backup_completed",
   "protection_backup_skipped_authorized", "replacement_create_started", "replacement_created",
   "identity_commit_started", "identity_committed", "restore_started", "restore_completed",
   "verification_started", "verification_completed", "services_stop_started", "services_stopped",
   "config_protection_started", "config_protection_completed", "env_switch_started",
   "env_switched", "watchlist_switch_started", "watchlist_switched", "config_switched",
   "application_start_started", "application_started", "readiness_started", "readiness_passed",
   "monitor_start_authorized", "monitor_start_started", "monitor_started",
   "monitor_write_observed", "completed", "rollback_started", "rollback_monitor_stopped",
   "rollback_application_stop_started", "rollback_application_stopped", "rollback_env_started",
   "rollback_env_completed", "rollback_watchlist_started", "rollback_watchlist_completed",
   "rollback_application_start_started", "rollback_application_started",
   "rollback_readiness_started", "rollback_readiness_passed", "rolled_back"}

Records == [phase: Phases, protection: {"pending", "completed", "skipped"},
            verification: {"not_started", "passed", "failed"}, monitorStopped: BOOLEAN,
            applicationStopped: BOOLEAN, activated: BOOLEAN, watchlistAuthorized: BOOLEAN,
            watchlistSwitched: BOOLEAN, monitorAuthorized: BOOLEAN,
            written: {"unknown", "yes", "no"}, manual: BOOLEAN, retryable: BOOLEAN,
            cleanup: {"no", "requested", "completed"}]

Worlds == [protected: BOOLEAN, replacement: SUBSET Whole, monitor: BOOLEAN,
           application: {"original", "stopped", "replacement"}, ready: BOOLEAN, env: Files,
           watchlist: Files, copies: 0 .. 2, generation: BOOLEAN, written: BOOLEAN]

Places == {"deciding", "intended", "performed", "settled", "recorded", "failing",
           "requested", "planned", "started", "gone", "dropped", "completed"}

CallerStates == {Idle} \cup [job: {"run", "rollback", "clean"}, at: Places,
                             seen: Records, why: {"none", "unknown", "plain"}]

Typed ==
  /\ record \in Records /\ world \in Worlds /\ caller \in [Callers -> CallerStates]
  /\ child \in {"absent", "planned", "started", "dropped", "completed"}

(***************************************************************************)
(* Who may be where.                                                       *)
(***************************************************************************)
\* The lease on the record's lock is exclusive.
OneLease == \A c, d \in Callers : Leased(c) /\ Leased(d) => c = d

\* The intents of a rollback.
Undoing == {"rollback_started", "rollback_application_stop_started", "rollback_env_started",
            "rollback_watchlist_started", "rollback_application_start_started",
            "rollback_readiness_started"}

\* The phases in which a run decides before it writes the next one.
Deciders == {"planned", "readiness_passed", "monitor_started", "monitor_write_observed"}

\* A lease is held by a run, or by a rollback in a phase of its own.
InJob ==
  \A c \in Callers :
    /\ caller[c].job \in {"run", "clean"} => c \in Operators
    /\ caller[c].job = "rollback" => c \in Undoers
    /\ Leased(c) => caller[c].job = "run" \/ (caller[c].job = "rollback" /\ caller[c].at # "recorded")
    /\ Leased(c) /\ caller[c].job = "rollback" => record.phase \in Undoing
    /\ caller[c].at = "recorded" => record.phase \in Deciders

(***************************************************************************)
(* What the phases stand for.                                              *)
(***************************************************************************)
\* The replacement is built in this order, and only dropped as a whole.
Grown(w) ==
  /\ "verified" \in w.replacement => "restored" \in w.replacement
  /\ "restored" \in w.replacement => "identified" \in w.replacement
  /\ "identified" \in w.replacement => "created" \in w.replacement

\* The phases of a run whose application, and later its monitor, is on the replacement.
OnReplacement == {"application_started", "readiness_started", "readiness_passed",
                  "monitor_start_authorized"} \cup Fenced

\* The phases of a run behind the verification.
Verified == {"verification_completed", "services_stop_started", "services_stopped",
             "config_protection_started", "config_protection_completed", "env_switch_started"}
            \cup AfterSwitch \cup Fenced

\* A verification that was performed, or found done, is not undone before it is recorded.
Performed(c) ==
  caller[c].at \in {"performed", "settled"} /\ record.phase = "verification_started" =>
    "verified" \in world.replacement

\* The databases.
Backed ==
  /\ Grown(world)
  /\ record.phase \in Verified => "verified" \in world.replacement
  /\ world.env = "staged" => "verified" \in world.replacement
  /\ \A c \in Callers : Performed(c)

\* The phases in which the application and the monitor rest: from their stop to the start of
\* the application on the one database or the other.
Resting == {"services_stopped", "config_protection_started", "config_protection_completed",
            "env_switch_started", "env_switched", "watchlist_switch_started",
            "watchlist_switched", "config_switched", "rollback_application_stopped",
            "rollback_env_started", "rollback_env_completed", "rollback_watchlist_started",
            "rollback_watchlist_completed"}

\* How far a rollback is: the phases behind each of its steps.
ReadyBack == {"rollback_readiness_passed", "rolled_back"}
AppBack == {"rollback_application_started", "rollback_readiness_started"} \cup ReadyBack
WatchlistBack == {"rollback_watchlist_completed", "rollback_application_start_started"} \cup AppBack
EnvBack == {"rollback_env_completed", "rollback_watchlist_started"} \cup WatchlistBack
MonitorDown == {"rollback_monitor_stopped", "rollback_application_stop_started",
                "rollback_application_stopped", "rollback_env_started"} \cup EnvBack

\* What the operation of an intent leaves behind.
Did(intent, w) ==
  /\ intent = "application_start_started" => w.application = "replacement"
  /\ intent \in {"services_stop_started", "rollback_application_stop_started"} => Stopped(w)
  /\ intent = "rollback_started" => ~w.monitor
  /\ intent = "rollback_env_started" => w.env # "staged"
  /\ intent = "rollback_watchlist_started" => w.watchlist # "staged"
  /\ intent = "rollback_application_start_started" => w.application = "original"
  /\ intent = "rollback_readiness_started" => w.ready

\* A caller that has performed an operation, or found it done, has it before its result is
\* written: nobody else acts in between.
Ran(c) == caller[c].at \in {"performed", "settled"} => Did(record.phase, world)

\* The services and the configuration files, for any number of operators.
Services ==
  /\ record.phase \in OnReplacement => world.application = "replacement"
  /\ world.generation => record.phase \in Fenced
  /\ Stopped(world) => ~world.monitor
  /\ record.phase \in Resting => Stopped(world)
  /\ record.phase \in MonitorDown => ~world.monitor
  /\ record.phase \in EnvBack => world.env # "staged"
  /\ record.phase \in WatchlistBack /\ record.watchlistSwitched => world.watchlist # "staged"
  /\ record.phase \in AppBack => world.application = "original"
  /\ record.phase \in ReadyBack => world.ready
  /\ \A c \in Callers : Ran(c)

\* A cleanup that found the phase it may begin in still finds it at each later step.
Cleanable == {"rolled_back", "restore_started", "verification_started"}

Halted ==
  \A c \in Callers :
    Cleaning(c) /\ (caller[c].at # "deciding" \/ caller[c].seen.phase \in Cleanable) =>
      record.phase \in Cleanable

AnyInv == Typed /\ OneLease /\ InJob /\ Services
IInv == AnyInv /\ Backed /\ Halted

(***************************************************************************)
(* The tables of the recovery.                                             *)
(***************************************************************************)
\* Where a step of a run leads: its intent and its result keep to the phases behind the
\* verification, but for the operation that Performed speaks of.
LEMMA ForwardLeads ==
  ASSUME NEW s \in ForwardSteps
  PROVE  /\ \A p \in s.from : s.intent \in Verified => p \in Verified
         /\ s.result \in Verified => s.intent \in Verified \cup {"verification_started"}
         /\ s.intent \notin Undoing
         /\ s.intent \in Phases /\ s.result \in Phases
<1> USE DEF Verified, Fenced, MonitorMayRun, AfterSwitch, RollbackEntry
<1>1. \A p \in s.from : s.intent \in Verified => p \in Verified
  BY DEF ForwardSteps, Step
<1>2. s.result \in Verified => s.intent \in Verified \cup {"verification_started"}
  BY DEF ForwardSteps, Step
<1>3. s.intent \notin Undoing
  BY DEF ForwardSteps, Step, Undoing
<1>4. s.intent \in Phases
  BY DEF ForwardSteps, Step, Phases
<1>5. s.result \in Phases
  BY DEF ForwardSteps, Step, Phases
<1> QED
  BY <1>1, <1>2, <1>3, <1>4, <1>5

\* A step of a rollback stays out of the phases of a run, and out of those a cleanup may begin in.
LEMMA RollbackLeads ==
  ASSUME NEW s \in RollbackSteps
  PROVE  /\ s.intent \notin Verified /\ s.result \notin Verified
         /\ s.from \cap Cleanable = {} /\ s.intent \notin Cleanable
         /\ s.intent \in Undoing
         /\ s.intent \in Phases /\ s.result \in Phases
<1> USE DEF Verified, Fenced, MonitorMayRun, AfterSwitch, RollbackEntry, Cleanable
<1>1. s.intent \notin Verified /\ s.result \notin Verified
  BY DEF RollbackSteps, Step
<1>2. s.from \cap Cleanable = {} /\ s.intent \notin Cleanable
  BY DEF RollbackSteps, Step
<1>3. s.intent \in Undoing
  BY DEF RollbackSteps, Step, Undoing
<1>4. s.intent \in Phases
  BY DEF RollbackSteps, Step, Phases
<1>5. s.result \in Phases
  BY DEF RollbackSteps, Step, Phases
<1> QED
  BY <1>1, <1>2, <1>3, <1>4, <1>5

\* The operations on the world.
Operations ==
  {"protection_backup", "create_replacement", "commit_identity", "restore", "verify",
   "stop_services", "protect_config", "switch_env", "switch_watchlist", "start_replacement_app",
   "check_replacement", "start_monitor", "rollback_stop_monitor", "rollback_stop_app",
   "rollback_env", "rollback_watchlist", "start_original_app", "check_original"}

\* Each step has one.
LEMMA OperationsOf == ASSUME NEW s \in AllSteps PROVE s.operation \in Operations
<1>1. CASE s \in ForwardSteps
  BY <1>1 DEF ForwardSteps, Step, Operations
<1>2. CASE s \in RollbackSteps
  BY <1>2 DEF RollbackSteps, Step, Operations
<1> QED
  BY <1>1, <1>2 DEF AllSteps

\* An operation makes a world of a world.
LEMMA EffectTyped == ASSUME NEW op \in Operations, NEW w \in Worlds PROVE Effect(op, w) \in Worlds
<1> USE DEF Effect, Worlds, Files, Whole
<1>1. CASE op \in {"protection_backup", "create_replacement", "commit_identity", "restore", "verify"}
  BY <1>1
<1>2. CASE op \in {"stop_services", "rollback_stop_monitor", "rollback_stop_app"}
  BY <1>2
<1>3. CASE op = "protect_config"
  BY <1>3
<1>4. CASE op \in {"switch_env", "switch_watchlist", "rollback_env", "rollback_watchlist"}
  BY <1>4
<1>5. CASE op \in {"start_replacement_app", "check_replacement", "start_monitor",
                   "start_original_app", "check_original"}
  BY <1>5
<1> QED
  BY <1>1, <1>2, <1>3, <1>4, <1>5 DEF Operations

\* What it makes of the databases.
LEMMA EffectOf ==
  ASSUME NEW op \in Operations, NEW w \in Worlds, Grown(w), Able(op, w)
  PROVE  LET v == Effect(op, w) IN
         /\ Grown(v) /\ w.replacement \subseteq v.replacement
         /\ v.env = "staged" => w.env = "staged" \/ op = "switch_env"
         /\ op = "verify" => "verified" \in v.replacement
<1>1. Grown(Effect(op, w)) /\ w.replacement \subseteq Effect(op, w).replacement
  BY DEF Effect, Able, Worlds, Grown, Operations
<1>2. Effect(op, w).env = "staged" => w.env = "staged" \/ op = "switch_env"
  BY DEF Effect, Worlds, Operations
<1>3. op = "verify" => "verified" \in Effect(op, w).replacement
  BY DEF Effect, Worlds
<1> QED
  BY <1>1, <1>2, <1>3

\* The operation of each intent.
LEMMA StepTable ==
  ASSUME NEW s \in AllSteps
  PROVE  <<s.intent, s.operation>> \in
           {<<"protection_backup_started", "protection_backup">>,
            <<"replacement_create_started", "create_replacement">>,
            <<"identity_commit_started", "commit_identity">>, <<"restore_started", "restore">>,
            <<"verification_started", "verify">>, <<"services_stop_started", "stop_services">>,
            <<"config_protection_started", "protect_config">>,
            <<"env_switch_started", "switch_env">>,
            <<"watchlist_switch_started", "switch_watchlist">>,
            <<"application_start_started", "start_replacement_app">>,
            <<"readiness_started", "check_replacement">>,
            <<"monitor_start_started", "start_monitor">>,
            <<"rollback_started", "rollback_stop_monitor">>,
            <<"rollback_application_stop_started", "rollback_stop_app">>,
            <<"rollback_env_started", "rollback_env">>,
            <<"rollback_watchlist_started", "rollback_watchlist">>,
            <<"rollback_application_start_started", "start_original_app">>,
            <<"rollback_readiness_started", "check_original">>}
<1>1. CASE s \in ForwardSteps
  BY <1>1 DEF ForwardSteps, Step
<1>2. CASE s \in RollbackSteps
  BY <1>2 DEF RollbackSteps, Step
<1> QED
  BY <1>1, <1>2 DEF AllSteps

\* What an operation makes of the services and the files, in the phase that it belongs to.
LEMMA ServiceEffect ==
  ASSUME NEW s \in AllSteps, NEW w \in Worlds
  PROVE  LET v == Effect(s.operation, w) IN
         /\ Did(s.intent, v)
         /\ s.intent \in OnReplacement \cup Resting \cup AppBack => v.application = w.application
         /\ v.generation => w.generation \/ s.intent \in Fenced
         /\ v.monitor => w.monitor \/ s.intent \in Fenced
         /\ Stopped(v) => Stopped(w) \/ ~v.monitor \/ s.intent \in MonitorDown
         /\ v.env # w.env => s.intent \in {"env_switch_started", "rollback_env_started"}
         /\ v.watchlist # w.watchlist =>
              s.intent \in {"watchlist_switch_started", "rollback_watchlist_started"}
<1> DEFINE v == Effect(s.operation, w)
<1> USE StepTable DEF Effect, Worlds
<1>1. Did(s.intent, v)
  BY DEF Did, Stopped
<1>2. s.intent \in OnReplacement \cup Resting \cup AppBack => v.application = w.application
  BY DEF OnReplacement, Resting, AppBack, ReadyBack, Fenced, MonitorMayRun, AfterSwitch, RollbackEntry
<1>3. /\ v.generation => w.generation \/ s.intent \in Fenced
      /\ v.monitor => w.monitor \/ s.intent \in Fenced
  BY DEF Fenced, MonitorMayRun, AfterSwitch, RollbackEntry
<1>4. Stopped(v) => Stopped(w) \/ ~v.monitor \/ s.intent \in MonitorDown
  BY DEF Stopped, MonitorDown
<1>5. v.env # w.env => s.intent \in {"env_switch_started", "rollback_env_started"}
  OBVIOUS
<1>6. v.watchlist # w.watchlist =>
        s.intent \in {"watchlist_switch_started", "rollback_watchlist_started"}
  OBVIOUS
<1> QED
  BY <1>1, <1>2, <1>3, <1>4, <1>5, <1>6

\* What a caller that finds an operation done may rely on.
LEMMA CompleteMeans ==
  ASSUME NEW s \in AllSteps, NEW w, Complete(s.operation, w)
  PROVE  /\ s.intent = "verification_started" => "verified" \in w.replacement
         /\ Did(s.intent, w)
<1>1. s.intent = "verification_started" => "verified" \in w.replacement
  BY StepTable DEF Complete
<1>2. Did(s.intent, w)
  BY StepTable DEF Complete, Did, Stopped
<1> QED
  BY <1>1, <1>2

\* Facts are not phases.
LEMMA EstablishedKeeps ==
  ASSUME NEW op, NEW r \in Records
  PROVE  Established(op, r) \in Records /\ Established(op, r).phase = r.phase
BY DEF Established, Records

(***************************************************************************)
(* Types, and who changes what.                                            *)
(***************************************************************************)
\* The invariant holds of a record that is planned and of callers that are idle.
LEMMA InitHolds == Init => IInv
<1> SUFFICES ASSUME Init PROVE IInv
  OBVIOUS
<1>1. Typed
  BY DEF Init, Typed, Records, Worlds, CallerStates, Phases, Files, Whole
<1>2. OneLease /\ InJob /\ Halted
  BY DEF Init, OneLease, InJob, Halted, Leased, Cleaning, Idle
<1>3. Backed
  BY DEF Init, Backed, Grown, Performed, Idle, Verified, Fenced, MonitorMayRun, AfterSwitch, RollbackEntry
<1>4. Services
  BY DEF Init, Services, Ran, Idle, Stopped, OnReplacement, Resting, MonitorDown, EnvBack, WatchlistBack,
     AppBack, ReadyBack, Fenced, MonitorMayRun, AfterSwitch, RollbackEntry
<1> QED
  BY <1>1, <1>2, <1>3, <1>4 DEF IInv, AnyInv

\* A caller at work is a record of its own shape.
LEMMA AtWork ==
  ASSUME Typed, NEW c \in Callers, caller[c].job # "none" \/ caller[c].at # "idle"
  PROVE  /\ caller[c].job \in {"run", "rollback", "clean"} /\ caller[c].at \in Places
         /\ caller[c].seen \in Records /\ caller[c].why \in {"none", "unknown", "plain"}
         /\ caller[c] \in [job: {"run", "rollback", "clean"}, at: Places,
                           seen: Records, why: {"none", "unknown", "plain"}]
BY DEF Typed, CallerStates, Idle

\* The actions that write a phase.
PhaseMoves(c) == StepIntends(c) \/ RollbackBegins(c) \/ Results(c) \/ Advances(c) \/ Confirms(c)

\* The others write no phase.
LEMMA PhaseStays ==
  ASSUME Typed, NEW c \in Callers, GoesOn(c), ~PhaseMoves(c)
  PROVE  record' \in Records /\ record'.phase = record.phase
<1>0. record \in Records /\ world \in Worlds
  BY DEF Typed
<1>1. CASE UNCHANGED record
  BY <1>0, <1>1
<1>2. CASE RollbackRefused(c)
  BY <1>0, <1>2 DEF RollbackRefused, Records
<1>3. CASE Notes(c)
  <2>1. PICK s \in AllSteps : \/ UNCHANGED record
                              \/ record' = Established(s.operation, record)
    BY <1>3 DEF Notes, Writes
  <2> QED
    BY <1>0, <2>1, EstablishedKeeps
<1>4. CASE AuthorizesWatchlist(c)
  BY <1>0, <1>4 DEF AuthorizesWatchlist, Writes, Records
<1>5. CASE Decides(c)
  BY <1>0, <1>5 DEF Decides, Writes, Records
<1>6. CASE RecordsFailure(c)
  <2> DEFINE final == [record EXCEPT !.manual = TRUE, !.retryable = FALSE]
             plain == [record EXCEPT !.retryable = TRUE]
  <2>1. /\ final \in Records /\ plain \in Records
        /\ final.phase = record.phase /\ plain.phase = record.phase
        /\ [final EXCEPT !.verification = "failed"] \in Records
        /\ [plain EXCEPT !.verification = "failed"] \in Records
        /\ [final EXCEPT !.verification = "failed"].phase = record.phase
        /\ [plain EXCEPT !.verification = "failed"].phase = record.phase
    BY <1>0 DEF Records
  <2>2. record' \in {record, final, plain, [final EXCEPT !.verification = "failed"],
                     [plain EXCEPT !.verification = "failed"]}
    <3>1. CASE caller[c].why = "unknown"
      <4>1. [record EXCEPT !.manual = @ \/ caller[c].why = "unknown",
                           !.retryable = ~(caller[c].why = "unknown")] = final
        BY <3>1
      <4> HIDE DEF final, plain
      <4> QED
        BY <1>6, <3>1, <4>1 DEF RecordsFailure
    <3>2. CASE caller[c].why # "unknown"
      <4>1. [record EXCEPT !.manual = @ \/ caller[c].why = "unknown",
                           !.retryable = ~(caller[c].why = "unknown")] = plain
        BY <1>0, <3>2 DEF Records
      <4> HIDE DEF final, plain
      <4> QED
        BY <1>6, <3>2, <4>1 DEF RecordsFailure
    <3> QED
      BY <3>1, <3>2
  <2> QED
    BY <1>0, <2>1, <2>2
<1>7. CASE RequestsCleanup(c) \/ CleanupIsRecorded(c)
  BY <1>0, <1>7 DEF RequestsCleanup, CleanupIsRecorded, Writes, Goes, Records
<1> QED
  BY <1>1, <1>2, <1>3, <1>4, <1>5, <1>6, <1>7
     DEF GoesOn, PhaseMoves, FindsMisplaced, Resumes, Performs, OperationFails, Rejects, ReadsChild,
         CleanupStarts, Drops, DropIsObserved, CleanupCompletes, CleanupRejects, ChildAdvances

\* Only an operation of a step, or a drop, changes the world in a caller's action.
LEMMA WorldStays ==
  ASSUME NEW c \in Callers, GoesOn(c), ~Performs(c), ~Drops(c)
  PROVE  world' = world
BY DEF GoesOn, FindsMisplaced, StepIntends, RollbackBegins, RollbackRefused, Resumes, OperationFails,
       Notes, Results, Advances, AuthorizesWatchlist, Decides, Confirms, RecordsFailure, Rejects,
       RequestsCleanup, ReadsChild, CleanupStarts, DropIsObserved, CleanupCompletes,
       CleanupIsRecorded, CleanupRejects, ChildAdvances

\* What a call makes of its own state: it is as it was but for its place, what it has
\* seen and why it fails; or it ends.
OwnState(c) ==
  /\ caller' \in [Callers -> CallerStates]
  /\ \A d \in Callers : d # c => caller'[d] = caller[d]
  /\ caller'[c].job = caller[c].job \/ caller'[c] = Idle

\* The four ways in which an action moves its call.
LEMMA OwnMoves ==
  ASSUME Typed, NEW c \in Callers, caller[c].job # "none" \/ caller[c].at # "idle"
  PROVE  /\ \A place \in Places : Goes(c, place) => OwnState(c) /\ caller'[c].at = place
         /\ Ends(c) => OwnState(c) /\ caller'[c] = Idle
         /\ \A why \in {"plain", "unknown"} : Fails(c, why) => OwnState(c) /\ caller'[c].at = "failing"
         /\ \A r \in Records, place \in Places : Writes(c, r, place) =>
              OwnState(c) /\ caller'[c].at = place /\ record' = r
<1>0. /\ caller \in [Callers -> CallerStates]
      /\ caller[c] \in [job: {"run", "rollback", "clean"}, at: Places,
                        seen: Records, why: {"none", "unknown", "plain"}]
  BY AtWork DEF Typed
<1>1. ASSUME NEW place \in Places, Goes(c, place) PROVE OwnState(c) /\ caller'[c].at = place
  <2>1. [caller[c] EXCEPT !.at = place] \in CallerStates
    BY <1>0 DEF CallerStates
  <2> QED
    BY <1>0, <1>1, <2>1 DEF Goes, OwnState
<1>2. ASSUME Ends(c) PROVE OwnState(c) /\ caller'[c] = Idle
  BY <1>0, <1>2 DEF Ends, OwnState, CallerStates
<1>3. ASSUME NEW why \in {"plain", "unknown"}, Fails(c, why)
      PROVE  OwnState(c) /\ caller'[c].at = "failing"
  <2>1. [caller[c] EXCEPT !.at = "failing", !.why = why] \in CallerStates
    BY <1>0 DEF CallerStates, Places
  <2> QED
    BY <1>0, <1>3, <2>1 DEF Fails, OwnState
<1>4. ASSUME NEW r \in Records, NEW place \in Places, Writes(c, r, place)
      PROVE  OwnState(c) /\ caller'[c].at = place /\ record' = r
  <2>1. [caller[c] EXCEPT !.at = place, !.seen = r] \in CallerStates
    BY <1>0, <1>4 DEF CallerStates
  <2>2. caller' = [caller EXCEPT ![c] = [caller[c] EXCEPT !.at = place, !.seen = r]]
    BY <1>0, <1>4 DEF Writes
  <2> QED
    BY <1>0, <1>4, <2>1, <2>2 DEF Writes, OwnState
<1> QED
  BY <1>1, <1>2, <1>3, <1>4

\* The place a call comes to, and which actions take or keep the lease.
Passive == Places \ {"intended", "performed", "settled", "recorded"}

Arrives(c) ==
  \/ caller'[c] = Idle
  \/ caller'[c].at \in Passive
  \/ StepIntends(c) /\ caller'[c].at = "intended"
  \/ Resumes(c) /\ caller'[c].at \in {"intended", "performed"}
  \/ Performs(c) /\ caller'[c].at = "performed"
  \/ Notes(c) /\ caller'[c].at = "settled"
  \/ (Decides(c) \/ Confirms(c)) /\ caller'[c].at = "recorded"

\* A step moves the record to phases there are.
LEMMA StepsTyped ==
  ASSUME NEW s \in AllSteps
  PROVE  /\ s.intent \in Phases /\ s.result \in Phases
         /\ \A r \in Records : /\ [r EXCEPT !.phase = s.intent] \in Records
                               /\ [r EXCEPT !.phase = s.result] \in Records
<1>1. s.intent \in Phases /\ s.result \in Phases
  BY ForwardLeads, RollbackLeads DEF AllSteps
<1> QED
  BY <1>1 DEF Records

\* What every action of a call has in common.
LEMMA CallStep ==
  ASSUME Typed, InJob, NEW c \in Callers, GoesOn(c)
  PROVE  /\ caller[c].job # "none" /\ OwnState(c) /\ Arrives(c)
         /\ record' \in Records /\ child' \in {"absent", "planned", "started", "dropped", "completed"}
<1>0. /\ record \in Records /\ caller[c] \in CallerStates
      /\ child \in {"absent", "planned", "started", "dropped", "completed"}
      /\ caller[c].at # "idle" => caller[c].job # "none"
      /\ \A job \in {"run", "rollback"} : Steps(job) \subseteq AllSteps
  BY DEF Typed, CallerStates, Idle, Steps, AllSteps
<1> DEFINE Goal == /\ caller[c].job # "none" /\ OwnState(c) /\ Arrives(c)
                   /\ record' \in Records
                   /\ child' \in {"absent", "planned", "started", "dropped", "completed"}
<1>1. CASE FindsMisplaced(c)
  BY <1>0, <1>1, OwnMoves DEF FindsMisplaced, Deciding, Arrives, Passive, Places
<1>2. CASE StepIntends(c)
  <2>1. PICK s \in AllSteps : /\ Writes(c, [record EXCEPT !.phase = s.intent], "intended")
                              /\ caller[c].at = "deciding" /\ child' = child
    BY <1>0, <1>2 DEF StepIntends, Deciding
  <2> QED
    BY <1>0, <1>2, <2>1, StepsTyped, OwnMoves DEF Arrives, Places
<1>3. CASE RollbackBegins(c)
  <2>1. [record EXCEPT !.phase = "rollback_started"] \in Records
    BY <1>0 DEF Records, Phases
  <2> QED
    BY <1>0, <1>3, <2>1, OwnMoves DEF RollbackBegins, Deciding, Arrives, Passive, Places
<1>4. CASE RollbackRefused(c)
  <2>1. [record EXCEPT !.manual = TRUE] \in Records
    BY <1>0 DEF Records
  <2> QED
    BY <1>0, <1>4, <2>1, OwnMoves DEF RollbackRefused, Deciding, Arrives
<1>5. CASE Resumes(c)
  BY <1>0, <1>5, OwnMoves DEF Resumes, Deciding, Arrives, Passive, Places
<1>6. CASE Performs(c)
  BY <1>0, <1>6, OwnMoves DEF Performs, Arrives, Places
<1>7. CASE OperationFails(c)
  BY <1>0, <1>7, OwnMoves DEF OperationFails, Arrives, Passive, Places
<1>8. CASE Notes(c)
  <2>1. PICK s \in AllSteps :
          /\ caller[c].at = "performed" /\ child' = child
          /\ \/ Writes(c, Established(s.operation, record), "settled")
             \/ UNCHANGED record /\ Ends(c)
    BY <1>8 DEF Notes
  <2> QED
    BY <1>0, <1>8, <2>1, EstablishedKeeps, OwnMoves DEF Arrives, Places
<1>9. CASE Results(c)
  <2>1. PICK s \in AllSteps :
          /\ caller[c].at = "settled" /\ child' = child
          /\ \/ Writes(c, [record EXCEPT !.phase = s.result], "deciding")
             \/ UNCHANGED record /\ Ends(c)
    BY <1>9 DEF Results
  <2> QED
    BY <1>0, <2>1, StepsTyped, OwnMoves DEF Arrives, Passive, Places
<1>10. CASE Advances(c)
  <2>1. \A job \in {"run", "rollback"} : \A move \in Moves(job) :
          [record EXCEPT !.phase = move[2]] \in Records
    BY <1>0 DEF Moves, Records, Phases
  <2> QED
    BY <1>0, <1>10, <2>1, OwnMoves DEF Advances, Deciding, Arrives, Passive, Places
<1>11. CASE AuthorizesWatchlist(c)
  <2>1. [record EXCEPT !.watchlistAuthorized = TRUE] \in Records
    BY <1>0 DEF Records
  <2> QED
    BY <1>0, <1>11, <2>1, OwnMoves DEF AuthorizesWatchlist, Deciding, Arrives, Passive, Places
<1>12. CASE Decides(c)
  <2>1. /\ [record EXCEPT !.protection = "skipped"] \in Records
        /\ [record EXCEPT !.monitorAuthorized = TRUE] \in Records
        /\ [record EXCEPT !.written = IF world.written THEN "yes" ELSE "no"] \in Records
    BY <1>0 DEF Records
  <2> QED
    BY <1>0, <1>12, <2>1, OwnMoves DEF Decides, Deciding, Arrives, Places
<1>13. CASE Confirms(c)
  <2>0. record.phase \in Deciders
    BY <1>13 DEF InJob, Confirms
  <2>1. Decided(record) \in Phases
    BY <2>0 DEF Deciders, Decided, Phases
  <2>2. \A p \in Phases : [record EXCEPT !.phase = p] \in Records
    BY <1>0 DEF Records
  <2> QED
    BY <1>0, <1>13, <2>1, <2>2, OwnMoves DEF Confirms, Arrives, Passive, Places
<1>14. CASE RecordsFailure(c)
  <2>1. record' \in Records
    BY <1>14, PhaseStays DEF PhaseMoves, RecordsFailure, StepIntends, RollbackBegins, Results,
       Advances, Confirms, Deciding
  <2> QED
    BY <1>0, <1>14, <2>1, OwnMoves DEF RecordsFailure, Arrives
<1>15. CASE Rejects(c)
  BY <1>0, <1>15, OwnMoves DEF Rejects, Arrives
<1>16. CASE RequestsCleanup(c)
  <2>1. [record EXCEPT !.cleanup = "requested"] \in Records
    BY <1>0 DEF Records
  <2> QED
    BY <1>0, <1>16, <2>1, OwnMoves DEF RequestsCleanup, Deciding, Arrives, Passive, Places
<1>17. CASE ReadsChild(c) \/ Drops(c)
  BY <1>0, <1>17, OwnMoves DEF ReadsChild, Drops, Cleaning, Arrives, Passive, Places
<1>18. CASE CleanupStarts(c) \/ DropIsObserved(c) \/ CleanupCompletes(c)
  BY <1>0, <1>18, OwnMoves DEF CleanupStarts, DropIsObserved, CleanupCompletes, ChildAdvances,
     Cleaning, Arrives, Passive, Places
<1>19. CASE CleanupIsRecorded(c)
  <2>1. [record EXCEPT !.cleanup = "completed"] \in Records
    BY <1>0 DEF Records
  <2> QED
    BY <1>0, <1>19, <2>1, OwnMoves DEF CleanupIsRecorded, Cleaning, Arrives
<1>20. CASE CleanupRejects(c)
  BY <1>0, <1>20, OwnMoves DEF CleanupRejects, Cleaning, Arrives
<1> QED
  BY <1>1, <1>2, <1>3, <1>4, <1>5, <1>6, <1>7, <1>8, <1>9, <1>10, <1>11, <1>12, <1>13, <1>14, <1>15,
     <1>16, <1>17, <1>18, <1>19, <1>20 DEF GoesOn

\* The types are kept.
LEMMA TypedStep == Typed /\ InJob /\ [Next]_vars => Typed'
<1> SUFFICES ASSUME Typed, InJob, [Next]_vars PROVE Typed'
  OBVIOUS
<1>0. record \in Records /\ world \in Worlds /\ caller \in [Callers -> CallerStates]
  BY DEF Typed
<1>1. ASSUME NEW c \in Callers, GoesOn(c) PROVE Typed'
  <2>1. /\ caller' \in [Callers -> CallerStates] /\ record' \in Records
        /\ child' \in {"absent", "planned", "started", "dropped", "completed"}
    BY <1>1, CallStep DEF OwnState
  <2>2. CASE Performs(c)
    <3>1. PICK s \in AllSteps : Able(s.operation, world) /\ world' = Effect(s.operation, world)
      BY <2>2 DEF Performs
    <3>2. world' \in Worlds
      BY <1>0, <3>1, OperationsOf, EffectTyped
    <3> QED
      BY <2>1, <3>2 DEF Typed
  <2>3. CASE Drops(c)
    <3>1. world' \in Worlds
      BY <1>0, <2>3 DEF Drops, Worlds
    <3> QED
      BY <2>1, <3>1 DEF Typed
  <2> QED
    BY <1>0, <1>1, <2>1, <2>2, <2>3, WorldStays DEF Typed
<1>2. ASSUME NEW c \in Callers, Crashes(c) PROVE Typed'
  <2>1. world' \in Worlds
    BY <1>0, <1>2 DEF Crashes, Worlds
  <2> QED
    BY <1>0, <1>2, <2>1 DEF Typed, Crashes, Ends, CallerStates
<1>3. ASSUME NEW c \in Callers, NEW job \in {"run", "rollback", "clean"}, Begins(c, job) PROVE Typed'
  <2>1. [job |-> job, at |-> "deciding", seen |-> record, why |-> "none"] \in CallerStates
    BY <1>0 DEF CallerStates, Places
  <2> QED
    BY <1>0, <1>3, <2>1 DEF Typed, Begins
<1>4. CASE Edits \/ MonitorWrites
  <2>1. world' \in Worlds
    BY <1>0, <1>4 DEF Edits, MonitorWrites, Worlds, Files
  <2> QED
    BY <1>0, <1>4, <2>1 DEF Typed, Edits, MonitorWrites
<1>5. CASE UNCHANGED vars
  BY <1>0, <1>5 DEF Typed, vars
<1> QED
  BY <1>1, <1>2, <1>3, <1>4, <1>5 DEF Next, RollbackIsCalled, Callers

(***************************************************************************)
(* The lease.                                                              *)
(***************************************************************************)
\* A call that does not hold the lease takes it when nobody does.
LEMMA TakesLease ==
  ASSUME Typed, InJob, NEW c \in Callers, GoesOn(c), Leased(c)'
  PROVE  Leased(c) \/ Free
<1>0. caller'[c] # Idle /\ caller'[c].at \notin Passive
  BY DEF Leased, Idle, Passive
<1> QED
  BY <1>0, CallStep DEF Arrives, StepIntends, Resumes, Performs, Notes, Decides, Confirms, Leases, Leased

\* The lease stays exclusive.
LEMMA OneLeaseStep == Typed /\ InJob /\ OneLease /\ [Next]_vars => OneLease'
<1> SUFFICES ASSUME Typed, InJob, OneLease, [Next]_vars PROVE OneLease'
  OBVIOUS
<1>0. caller \in [Callers -> CallerStates]
  BY DEF Typed
<1>1. ASSUME NEW c \in Callers, GoesOn(c) PROVE OneLease'
  <2>1. \A d \in Callers : d # c => (Leased(d)' <=> Leased(d))
    BY <1>1, CallStep DEF OwnState, Leased
  <2>2. Leased(c)' => Leased(c) \/ Free
    BY <1>1, TakesLease
  <2> QED
    BY <2>1, <2>2 DEF OneLease, Free
<1>2. ASSUME NEW c \in Callers, Crashes(c) \/ \E job \in {"run", "rollback", "clean"} : Begins(c, job)
      PROVE  OneLease'
  BY <1>0, <1>2 DEF Crashes, Begins, Ends, OneLease, Leased, Idle
<1>3. CASE Edits \/ MonitorWrites \/ UNCHANGED vars
  BY <1>3 DEF Edits, MonitorWrites, vars, OneLease, Leased
<1> QED
  BY <1>1, <1>2, <1>3 DEF Next, RollbackIsCalled, Callers

\* A call that writes a phase holds the lease, or takes it: nobody else does.
LEMMA MovesAlone ==
  ASSUME Typed, InJob, OneLease, NEW c \in Callers, GoesOn(c), PhaseMoves(c),
         NEW d \in Callers, d # c
  PROVE  ~Leased(d)
<1>1. Leased(c) \/ Free
  BY DEF PhaseMoves, StepIntends, RollbackBegins, Results, Advances, Confirms, Leases, Leased
<1> QED
  BY <1>1 DEF OneLease, Free

\* It stays with the call whose direction the phase is.
LEMMA InJobStep == Typed /\ InJob /\ OneLease /\ [Next]_vars => InJob'
<1> SUFFICES ASSUME Typed, InJob, OneLease, [Next]_vars PROVE InJob'
  OBVIOUS
<1>0. caller \in [Callers -> CallerStates]
  BY DEF Typed
<1> DEFINE Fits(d) == /\ caller[d].job \in {"run", "clean"} => d \in Operators
                      /\ caller[d].job = "rollback" => d \in Undoers
                      /\ Leased(d) => \/ caller[d].job = "run"
                                      \/ caller[d].job = "rollback" /\ caller[d].at # "recorded"
                      /\ Leased(d) /\ caller[d].job = "rollback" => record.phase \in Undoing
                      /\ caller[d].at = "recorded" => record.phase \in Deciders
<1>f. \A d \in Callers : Fits(d)
  BY DEF InJob
<1>g. (\A d \in Callers : Fits(d)') => InJob'
  BY DEF InJob
<1>k. ASSUME NEW d \in Callers, caller'[d] = caller[d], ~Leased(d) \/ record'.phase = record.phase
      PROVE  Fits(d)'
  BY <1>f, <1>k DEF Leased
<1>1. ASSUME NEW c \in Callers, GoesOn(c) PROVE InJob'
  <2>1. \A d \in Callers : d # c => Fits(d)'
    BY <1>1, <1>k, CallStep, PhaseStays, MovesAlone DEF OwnState
  <2>2. Fits(c)'
    <3>0. caller'[c].job = caller[c].job \/ caller'[c] = Idle
      BY <1>1, CallStep DEF OwnState
    <3>1. CASE caller'[c] = Idle \/ caller'[c].at \in Passive
      BY <1>f, <3>0, <3>1 DEF Leased, Idle, Passive
    <3>2. CASE StepIntends(c) /\ caller'[c].at = "intended"
      <4>1. PICK job \in {"run", "rollback"} : \E s \in Steps(job) :
              caller[c].job = job /\ Writes(c, [record EXCEPT !.phase = s.intent], "intended")
        BY <3>2 DEF StepIntends, Deciding
      <4>2. PICK s \in Steps(job) :
              caller[c].job = job /\ Writes(c, [record EXCEPT !.phase = s.intent], "intended")
        BY <4>1
      <4>3. record'.phase = s.intent
        BY <4>2 DEF Writes, Typed, Records
      <4>4. job = "rollback" => record'.phase \in Undoing
        BY <4>3, RollbackLeads DEF Steps
      <4> QED
        BY <1>f, <3>0, <3>2, <4>2, <4>4 DEF Idle
    <3>3. CASE Resumes(c) /\ caller'[c].at \in {"intended", "performed"}
      <4>1. PICK job \in {"run", "rollback"} : \E s \in Steps(job) :
              caller[c].job = job /\ record.phase = s.intent /\ record' = record
        BY <3>3 DEF Resumes, Deciding
      <4>2. job = "rollback" => record'.phase \in Undoing
        BY <4>1, RollbackLeads DEF Steps
      <4> QED
        BY <1>f, <3>0, <3>3, <4>1, <4>2 DEF Idle
    <3>4. CASE \/ Performs(c) /\ caller'[c].at = "performed"
               \/ Notes(c) /\ caller'[c].at = "settled"
      <4>1. Leased(c) /\ caller[c].at # "recorded"
        BY <3>4 DEF Performs, Notes, Leased
      <4>2. record'.phase = record.phase
        BY <1>1, <3>4, PhaseStays DEF PhaseMoves, Performs, Notes, StepIntends, RollbackBegins,
           Results, Advances, Confirms, Deciding
      <4> QED
        BY <1>f, <3>0, <3>4, <4>1, <4>2 DEF Idle
    <3>5. CASE Decides(c) /\ caller'[c].at = "recorded"
      <4>1. record'.phase = record.phase
        BY <1>1, <3>5, PhaseStays DEF PhaseMoves, Decides, StepIntends, RollbackBegins,
           Results, Advances, Confirms, Deciding, Writes, Typed, Records
      <4>2. record.phase \in Deciders /\ caller[c].job = "run"
        BY <3>5 DEF Decides, Deciding, Deciders
      <4> QED
        BY <1>f, <3>0, <3>5, <4>1, <4>2 DEF Idle
    <3>6. CASE Confirms(c) /\ caller'[c].at = "recorded"
      <4>1. caller[c].job = "run"
        BY <1>f, <3>6 DEF Confirms, Leased
      <4>2. Writes(c, [record EXCEPT !.phase = Decided(record)],
                   IF Decided(record) = "monitor_write_observed" THEN "recorded" ELSE "deciding")
        BY <3>6, OwnMoves, <4>1 DEF Confirms, Idle
      <4>3. Decided(record) = "monitor_write_observed"
        BY <1>0, <3>6, <4>2 DEF Writes, CallerStates, Idle, Typed
      <4>4. record'.phase = "monitor_write_observed"
        BY <4>2, <4>3 DEF Writes, Typed, Records
      <4> QED
        BY <1>f, <3>0, <3>6, <4>1, <4>4 DEF Idle, Deciders
    <3> QED
      BY <1>1, <3>1, <3>2, <3>3, <3>4, <3>5, <3>6, CallStep DEF Arrives
  <2> QED
    BY <1>g, <2>1, <2>2
<1>2. ASSUME NEW c \in Callers, Crashes(c) PROVE InJob'
  <2>1. caller'[c] = Idle /\ record' = record /\ \A d \in Callers : d # c => caller'[d] = caller[d]
    BY <1>0, <1>2 DEF Crashes, Ends
  <2>2. Fits(c)'
    BY <2>1 DEF Leased, Idle
  <2> QED
    BY <1>g, <1>k, <2>1, <2>2
<1>3. ASSUME NEW c \in Callers, NEW job \in {"run", "rollback", "clean"}, Begins(c, job),
             job \in {"run", "clean"} => c \in Operators, job = "rollback" => c \in Undoers
      PROVE  InJob'
  <2>1. /\ caller'[c].job = job /\ caller'[c].at = "deciding" /\ record' = record
        /\ \A d \in Callers : d # c => caller'[d] = caller[d]
    BY <1>0, <1>3 DEF Begins
  <2>2. Fits(c)'
    BY <1>3, <2>1 DEF Leased
  <2> QED
    BY <1>g, <1>k, <2>1, <2>2
<1>4. CASE Edits \/ MonitorWrites \/ UNCHANGED vars
  BY <1>g, <1>k, <1>4 DEF Edits, MonitorWrites, vars
<1> QED
  BY <1>1, <1>2, <1>3, <1>4 DEF Next, RollbackIsCalled, Callers

(***************************************************************************)
(* The phases and the world.                                               *)
(***************************************************************************)
\* How a phase is entered: by an intent, by a result that follows its operation, when a
\* rollback begins, or by one of the moves that stand for no operation.
Shortcuts ==
  {<<"env_switched", "config_switched">>, <<"watchlist_switched", "config_switched">>,
   <<"planned", "protection_backup_skipped_authorized">>,
   <<"readiness_passed", "monitor_start_authorized">>,
   <<"monitor_started", "monitor_write_observed">>, <<"monitor_started", "completed">>,
   <<"monitor_write_observed", "completed">>, <<"rollback_readiness_passed", "rolled_back">>}

Enters(c, from, to) ==
  \/ to = from
  \/ \E s \in AllSteps : from \in s.from /\ to = s.intent /\ MayAdvance(record, s.intent)
  \/ \E s \in AllSteps : from = s.intent /\ to = s.result /\ caller[c].at = "settled"
  \/ from \in RollbackEntry /\ to = "rollback_started"
  \/ <<from, to>> \in Shortcuts

LEMMA PhaseEnters ==
  ASSUME Typed, InJob, NEW c \in Callers, GoesOn(c), PhaseMoves(c)
  PROVE  /\ world' = world /\ caller'[c].at \notin {"performed", "settled"}
         /\ record'.watchlistSwitched = record.watchlistSwitched
         /\ Enters(c, record.phase, record'.phase)
<1>0. record \in Records /\ caller \in [Callers -> CallerStates]
  BY DEF Typed
<1>s. \A p \in Phases : LET r == [record EXCEPT !.phase = p]
                        IN  r \in Records /\ r.phase = p /\ r.watchlistSwitched = record.watchlistSwitched
  BY <1>0 DEF Records
<1>w. ASSUME NEW p \in Phases, NEW place \in {"intended", "deciding", "recorded"},
             Writes(c, [record EXCEPT !.phase = p], place)
      PROVE  /\ record'.phase = p /\ record'.watchlistSwitched = record.watchlistSwitched
             /\ caller'[c].at = place
  <2>1. record' = [record EXCEPT !.phase = p]
    BY <1>w DEF Writes
  <2>2. caller'[c].at = place
    BY <1>s, <1>w, CallStep, OwnMoves DEF Places
  <2> QED
    BY <1>s, <2>1, <2>2
<1>a. CASE UNCHANGED record /\ Ends(c) /\ world' = world
  BY <1>0, <1>a DEF Ends, Idle, Enters
<1>1. CASE StepIntends(c)
  <2>1. PICK s \in AllSteps : /\ record.phase \in s.from /\ world' = world
                              /\ MayAdvance(record, s.intent)
                              /\ Writes(c, [record EXCEPT !.phase = s.intent], "intended")
    BY <1>1 DEF StepIntends, Steps, AllSteps
  <2> QED
    BY <1>w, <2>1, StepsTyped DEF Enters
<1>2. CASE RollbackBegins(c)
  <2>1. /\ record.phase \in RollbackEntry /\ world' = world
        /\ Writes(c, [record EXCEPT !.phase = "rollback_started"], "deciding")
    BY <1>2 DEF RollbackBegins
  <2>2. "rollback_started" \in Phases
    BY DEF Phases
  <2> QED
    BY <1>w, <2>1, <2>2 DEF Enters
<1>3. CASE Results(c)
  <2>1. PICK s \in AllSteps :
          /\ caller[c].at = "settled" /\ record.phase = s.intent /\ world' = world
          /\ \/ Writes(c, [record EXCEPT !.phase = s.result], "deciding")
             \/ UNCHANGED record /\ Ends(c)
    BY <1>3 DEF Results
  <2> QED
    BY <1>a, <1>w, <2>1, StepsTyped DEF Enters
<1>4. CASE Advances(c)
  <2>1. PICK job \in {"run", "rollback"} : \E move \in Moves(job) :
          /\ record.phase = move[1] /\ world' = world
          /\ Writes(c, [record EXCEPT !.phase = move[2]], "deciding")
    BY <1>4 DEF Advances
  <2>2. PICK move \in Moves(job) :
          /\ record.phase = move[1] /\ world' = world
          /\ Writes(c, [record EXCEPT !.phase = move[2]], "deciding")
    BY <2>1
  <2>3. move[2] \in Phases /\ <<move[1], move[2]>> \in Shortcuts
    BY DEF Moves, Phases, Shortcuts
  <2> QED
    BY <1>w, <2>2, <2>3 DEF Enters
<1>5. CASE Confirms(c)
  <2>1. record.phase \in Deciders /\ world' = world
    BY <1>5 DEF InJob, Confirms
  <2>2. \/ UNCHANGED record /\ Ends(c)
        \/ \E place \in {"recorded", "deciding"} :
             Writes(c, [record EXCEPT !.phase = Decided(record)], place)
    BY <1>5 DEF Confirms
  <2>3. Decided(record) \in Phases /\ <<record.phase, Decided(record)>> \in Shortcuts
    BY <2>1 DEF Deciders, Decided, Phases, Shortcuts
  <2> QED
    BY <1>a, <1>w, <2>1, <2>2, <2>3 DEF Enters
<1> QED
  BY <1>1, <1>2, <1>3, <1>4, <1>5 DEF PhaseMoves

\* A phase behind the verification is entered from another one, or on a verified database.
LEMMA PhaseLeads ==
  ASSUME Typed, InJob, NEW c \in Callers, GoesOn(c), PhaseMoves(c), Performed(c),
         record'.phase \in Verified
  PROVE  record.phase \in Verified \/ "verified" \in world.replacement
<1> DEFINE from == record.phase
           to == record'.phase
<1>0. Enters(c, from, to)
  BY PhaseEnters
<1>1. ASSUME NEW s \in AllSteps, from \in s.from, to = s.intent PROVE from \in Verified
  BY <1>1, ForwardLeads, RollbackLeads DEF AllSteps
<1>2. ASSUME NEW s \in AllSteps, from = s.intent, to = s.result, caller[c].at = "settled"
      PROVE  from \in Verified \/ "verified" \in world.replacement
  BY <1>2, ForwardLeads, RollbackLeads DEF AllSteps, Performed
<1>3. <<from, to>> \in Shortcuts => from \in Verified
  BY DEF Shortcuts, Verified, Fenced, MonitorMayRun, AfterSwitch, RollbackEntry
<1>4. to # "rollback_started"
  BY DEF Verified, Fenced, MonitorMayRun, AfterSwitch, RollbackEntry
<1> QED
  BY <1>0, <1>1, <1>2, <1>3, <1>4 DEF Enters

\* The intents of a step that belong to a group of phases are entered from that group.
LEMMA IntentTable ==
  ASSUME NEW s \in AllSteps, NEW p \in s.from
  PROVE  /\ s.intent \in OnReplacement => p \in OnReplacement
         /\ p \in Fenced => s.intent \in Fenced
         /\ s.intent \in Resting => p \in Resting
         /\ s.intent \in MonitorDown => p \in MonitorDown
         /\ s.intent \in EnvBack => p \in EnvBack
         /\ s.intent \in WatchlistBack => p \in WatchlistBack
              \/ (p = "rollback_env_completed" /\ s.intent = "rollback_application_start_started")
         /\ s.intent \in AppBack => p \in AppBack
         /\ s.intent \notin ReadyBack
<1> USE DEF OnReplacement, Fenced, MonitorMayRun, AfterSwitch, RollbackEntry, Resting, MonitorDown,
            EnvBack, WatchlistBack, AppBack, ReadyBack
<1>1. CASE s \in ForwardSteps
  BY <1>1 DEF ForwardSteps, Step
<1>2. CASE s \in RollbackSteps
  BY <1>2 DEF RollbackSteps, Step
<1> QED
  BY <1>1, <1>2 DEF AllSteps

\* A result belongs to the groups of its intent, and to those that its operation founds.
LEMMA ResultTable ==
  ASSUME NEW s \in AllSteps
  PROVE  /\ s.result \in OnReplacement =>
              s.intent \in OnReplacement \cup {"application_start_started"}
         /\ s.intent \in Fenced => s.result \in Fenced
         /\ s.result \in Resting =>
              s.intent \in Resting \cup {"services_stop_started", "rollback_application_stop_started"}
         /\ s.result \in MonitorDown => s.intent \in MonitorDown \cup {"rollback_started"}
         /\ s.result \in EnvBack => s.intent \in EnvBack \cup {"rollback_env_started"}
         /\ s.result \in WatchlistBack =>
              s.intent \in WatchlistBack \cup {"rollback_watchlist_started"}
         /\ s.result \in AppBack => s.intent \in AppBack \cup {"rollback_application_start_started"}
         /\ s.result \in ReadyBack => s.intent = "rollback_readiness_started"
<1> USE DEF OnReplacement, Fenced, MonitorMayRun, AfterSwitch, RollbackEntry, Resting, MonitorDown,
            EnvBack, WatchlistBack, AppBack, ReadyBack
<1>1. CASE s \in ForwardSteps
  BY <1>1 DEF ForwardSteps, Step
<1>2. CASE s \in RollbackSteps
  BY <1>2 DEF RollbackSteps, Step
<1> QED
  BY <1>1, <1>2 DEF AllSteps

\* So what a phase says of the services is there when it is entered.
InPhase(p, switched, w) ==
  /\ p \in OnReplacement => w.application = "replacement"
  /\ w.generation => p \in Fenced
  /\ p \in Resting => Stopped(w)
  /\ p \in MonitorDown => ~w.monitor
  /\ p \in EnvBack => w.env # "staged"
  /\ p \in WatchlistBack /\ switched => w.watchlist # "staged"
  /\ p \in AppBack => w.application = "original"
  /\ p \in ReadyBack => w.ready

LEMMA ServicesLead ==
  ASSUME Typed, InJob, NEW c \in Callers, GoesOn(c), PhaseMoves(c), Ran(c),
         InPhase(record.phase, record.watchlistSwitched, world)
  PROVE  InPhase(record'.phase, record.watchlistSwitched, world)
<1> DEFINE from == record.phase
           to == record'.phase
<1>0. Enters(c, from, to)
  BY PhaseEnters
<1>1. ASSUME NEW s \in AllSteps, from \in s.from, to = s.intent, MayAdvance(record, s.intent)
      PROVE  InPhase(to, record.watchlistSwitched, world)
  <2>1. from = "rollback_env_completed" /\ to = "rollback_application_start_started" =>
          ~record.watchlistSwitched
    BY <1>1 DEF MayAdvance
  <2> QED
    BY <1>1, <2>1, IntentTable DEF InPhase
<1>2. ASSUME NEW s \in AllSteps, from = s.intent, to = s.result, caller[c].at = "settled"
      PROVE  InPhase(to, record.watchlistSwitched, world)
  <2>1. Did(from, world)
    BY <1>2 DEF Ran
  <2> QED
    BY <1>2, <2>1, ResultTable DEF InPhase, Did
<1>3. CASE <<from, to>> \in Shortcuts
  BY <1>3 DEF InPhase, Shortcuts, OnReplacement, Fenced, MonitorMayRun, AfterSwitch, RollbackEntry,
     Resting, MonitorDown, EnvBack, WatchlistBack, AppBack, ReadyBack
<1>4. CASE from \in RollbackEntry /\ to = "rollback_started"
  BY <1>4 DEF InPhase, OnReplacement, Fenced, MonitorMayRun, AfterSwitch, RollbackEntry,
     Resting, MonitorDown, EnvBack, WatchlistBack, AppBack, ReadyBack
<1>5. CASE to = from
  BY <1>5
<1> QED
  BY <1>0, <1>1, <1>2, <1>3, <1>4, <1>5 DEF Enters

\* The switch of the watchlist is recorded in its own phase.
LEMMA SwitchNoted ==
  ASSUME Typed, NEW c \in Callers, GoesOn(c), ~PhaseMoves(c)
  PROVE  \/ record'.watchlistSwitched = record.watchlistSwitched
         \/ record.phase = "watchlist_switch_started"
<1>0. record \in Records
  BY DEF Typed
<1>1. CASE Notes(c)
  <2>1. PICK s \in AllSteps : /\ record.phase = s.intent
                              /\ record' \in {record, Established(s.operation, record)}
    BY <1>1 DEF Notes, Writes
  <2>2. s.operation = "switch_watchlist" => record.phase = "watchlist_switch_started"
    BY <2>1, StepTable
  <2>3. s.operation # "switch_watchlist" =>
          Established(s.operation, record).watchlistSwitched = record.watchlistSwitched
    BY <1>0 DEF Established, Records
  <2> QED
    BY <2>1, <2>2, <2>3
<1>2. CASE UNCHANGED record
  BY <1>2
<1>3. CASE RollbackRefused(c) \/ AuthorizesWatchlist(c) \/ Decides(c) \/ RequestsCleanup(c)
           \/ CleanupIsRecorded(c)
  BY <1>0, <1>3 DEF RollbackRefused, AuthorizesWatchlist, Decides, RequestsCleanup, CleanupIsRecorded,
     Writes, Records
<1>4. CASE RecordsFailure(c)
  BY <1>0, <1>4 DEF RecordsFailure, Records
<1> QED
  BY <1>1, <1>2, <1>3, <1>4
     DEF GoesOn, PhaseMoves, FindsMisplaced, Resumes, Performs, OperationFails, Rejects, ReadsChild,
         CleanupStarts, Drops, DropIsObserved, CleanupCompletes, CleanupRejects, ChildAdvances

\* What is left to a caller that neither moves a phase nor changes the world: it finds an
\* operation done, notes its facts, or goes where it holds no operation.
LEMMA Arrived ==
  ASSUME Typed, InJob, NEW c \in Callers, GoesOn(c), ~PhaseMoves(c), ~Performs(c)
  PROVE  \/ caller'[c].at \notin {"performed", "settled"}
         \/ caller[c].at = "performed"
         \/ \E s \in AllSteps : record.phase = s.intent /\ Complete(s.operation, world)
<1>1. CASE Resumes(c) /\ caller'[c].at = "performed"
  <2>1. PICK s \in AllSteps :
          /\ record.phase = s.intent
          /\ \/ Fails(c, "unknown")
             \/ Goes(c, IF Complete(s.operation, world) THEN "performed" ELSE "intended")
    BY <1>1 DEF Resumes, Steps, AllSteps
  <2>2. Complete(s.operation, world)
    BY <1>1, <2>1, OwnMoves, CallStep DEF Places
  <2> QED
    BY <2>1, <2>2
<1>2. CASE Notes(c)
  BY <1>2 DEF Notes
<1>3. CASE caller'[c] = Idle \/ caller'[c].at \notin {"performed", "settled"}
  BY <1>3 DEF Idle
<1> QED
  BY <1>1, <1>2, <1>3, CallStep DEF Arrives, Passive, PhaseMoves

\* Services and phases stay in step, with any number of operators.
LEMMA ServicesStep == Typed /\ OneLease /\ InJob /\ Services /\ [Next]_vars => Services'
<1> SUFFICES ASSUME Typed, OneLease, InJob, Services, [Next]_vars PROVE Services'
  OBVIOUS
<1>0. record \in Records /\ world \in Worlds /\ caller \in [Callers -> CallerStates]
  BY DEF Typed
<1>i. InPhase(record.phase, record.watchlistSwitched, world)
  BY DEF Services, InPhase
<1>q. ASSUME InPhase(record'.phase, record'.watchlistSwitched, world'),
             Stopped(world') => ~world'.monitor, \A d \in Callers : Ran(d)'
      PROVE  Services'
  BY <1>q DEF Services, InPhase
\* Nothing happens to what is spoken of.
<1>k. ASSUME record'.phase = record.phase,
             \/ record'.watchlistSwitched = record.watchlistSwitched
             \/ record.phase = "watchlist_switch_started",
             world'.application = world.application, world'.monitor = world.monitor,
             world'.generation = world.generation, world'.ready = world.ready,
             world'.env \in {world.env, "unknown"}, world'.watchlist \in {world.watchlist, "unknown"},
             \A d \in Callers : Ran(d)'
      PROVE  Services'
  <2>1. "watchlist_switch_started" \notin WatchlistBack
    BY DEF WatchlistBack, AppBack, ReadyBack
  <2> QED
    BY <1>k, <2>1 DEF Services, Stopped
<1>p. ASSUME NEW d \in Callers, caller'[d] = caller[d],
             ~Leased(d) \/ (record'.phase = record.phase /\ world' = world)
      PROVE  Ran(d)'
  BY <1>p DEF Services, Ran, Leased
<1>1. ASSUME NEW c \in Callers, GoesOn(c) PROVE Services'
  <2>0. \A d \in Callers : d # c => caller'[d] = caller[d]
    BY <1>1, CallStep DEF OwnState
  <2>1. CASE PhaseMoves(c)
    <3>1. \A d \in Callers : d # c => Ran(d)'
      BY <1>1, <1>p, <2>0, <2>1, MovesAlone
    <3>2. /\ world' = world /\ Ran(c)'
          /\ record'.watchlistSwitched = record.watchlistSwitched
      BY <1>1, <2>1, PhaseEnters DEF Ran
    <3>3. InPhase(record'.phase, record.watchlistSwitched, world)
      BY <1>1, <1>i, <2>1, ServicesLead DEF Services
    <3> QED
      BY <1>q, <3>1, <3>2, <3>3 DEF Services
  <2>2. CASE Performs(c)
    <3>1. PICK s \in AllSteps :
            /\ caller[c].at = "intended" /\ record.phase = s.intent
            /\ world' = Effect(s.operation, world)
            /\ record' = record /\ Goes(c, "performed")
      BY <2>2 DEF Performs
    <3>2. \A d \in Callers : d # c => ~Leased(d)
      BY <3>1 DEF OneLease, Leased
    <3>3. \A d \in Callers : d # c => Ran(d)'
      BY <1>p, <2>0, <3>2
    <3>4. /\ Did(s.intent, world')
          /\ s.intent \in OnReplacement \cup Resting \cup AppBack =>
               world'.application = world.application
          /\ world'.generation => world.generation \/ s.intent \in Fenced
          /\ world'.monitor => world.monitor \/ s.intent \in Fenced
          /\ Stopped(world') => Stopped(world) \/ ~world'.monitor \/ s.intent \in MonitorDown
          /\ world'.env # world.env => s.intent \in {"env_switch_started", "rollback_env_started"}
          /\ world'.watchlist # world.watchlist =>
               s.intent \in {"watchlist_switch_started", "rollback_watchlist_started"}
      BY <1>0, <3>1, ServiceEffect
    <3>5. Ran(c)'
      BY <3>1, <3>4 DEF Ran
    <3>6. s.intent \notin ReadyBack
      BY StepTable DEF ReadyBack
    <3>7. /\ s.intent \in MonitorDown => s.intent \notin Fenced
          /\ s.intent \in Fenced => s.intent \in OnReplacement
          /\ s.intent \in EnvBack => s.intent \notin {"env_switch_started", "rollback_env_started"}
          /\ s.intent \in WatchlistBack =>
               s.intent \notin {"watchlist_switch_started", "rollback_watchlist_started"}
      BY StepTable DEF MonitorDown, EnvBack, WatchlistBack, AppBack, ReadyBack, OnReplacement, Fenced,
         MonitorMayRun, AfterSwitch, RollbackEntry
    <3>8. InPhase(record'.phase, record'.watchlistSwitched, world')
      BY <1>i, <3>1, <3>4, <3>6, <3>7 DEF InPhase, Stopped
    <3>9. Stopped(world') => ~world'.monitor
      BY <1>i, <3>1, <3>4, <3>7 DEF InPhase, Services, Stopped
    <3> QED
      BY <1>q, <3>3, <3>5, <3>8, <3>9
  <2>3. CASE ~PhaseMoves(c) /\ ~Performs(c)
    <3>1. /\ record'.phase = record.phase
          /\ \/ record'.watchlistSwitched = record.watchlistSwitched
             \/ record.phase = "watchlist_switch_started"
      BY <1>1, <2>3, PhaseStays, SwitchNoted
    <3>2. /\ world'.application = world.application /\ world'.monitor = world.monitor
          /\ world'.generation = world.generation /\ world'.ready = world.ready
          /\ world'.env = world.env /\ world'.watchlist = world.watchlist
      <4>1. CASE Drops(c)
        BY <1>0, <4>1 DEF Drops, Worlds
      <4>2. CASE ~Drops(c)
        BY <1>1, <2>3, <4>2, WorldStays
      <4> QED
        BY <4>1, <4>2
    <3>3. \A p \in Phases : Did(p, world') <=> Did(p, world)
      BY <3>2 DEF Did, Stopped
    <3>4. record.phase \in Phases
      BY <1>0 DEF Records
    <3>5. \A d \in Callers : d # c => Ran(d)'
      BY <2>0, <3>1, <3>3, <3>4 DEF Services, Ran
    <3>6. Ran(c)'
      BY <1>1, <2>3, <3>1, <3>3, <3>4, Arrived, CompleteMeans DEF Services, Ran
    <3> QED
      BY <1>k, <3>1, <3>2, <3>5, <3>6
  <2> QED
    BY <2>1, <2>2, <2>3
<1>2. ASSUME NEW c \in Callers, Crashes(c) PROVE Services'
  <2>1. /\ record' = record /\ caller'[c] = Idle /\ \A d \in Callers : d # c => caller'[d] = caller[d]
        /\ world' = world \/ world' = [world EXCEPT !.copies = 1]
    BY <1>0, <1>2 DEF Crashes, Ends
  <2>2. /\ world'.application = world.application /\ world'.monitor = world.monitor
        /\ world'.generation = world.generation /\ world'.ready = world.ready
        /\ world'.env = world.env /\ world'.watchlist = world.watchlist
    BY <1>0, <2>1 DEF Worlds
  <2>3. Ran(c)'
    BY <2>1 DEF Ran, Idle
  <2>4. \A d \in Callers : d # c => Ran(d)'
    BY <2>1, <2>2 DEF Services, Ran, Did, Stopped
  <2> QED
    BY <1>k, <2>1, <2>2, <2>3, <2>4
<1>3. ASSUME NEW c \in Callers, NEW job \in {"run", "rollback", "clean"}, Begins(c, job) PROVE Services'
  <2>1. /\ record' = record /\ world' = world /\ caller'[c].at = "deciding"
        /\ \A d \in Callers : d # c => caller'[d] = caller[d]
    BY <1>0, <1>3 DEF Begins
  <2>2. Ran(c)'
    BY <2>1 DEF Ran
  <2>3. \A d \in Callers : Ran(d)'
    BY <1>p, <2>1, <2>2
  <2> QED
    BY <1>k, <2>1, <2>3
<1>4. CASE Edits \/ MonitorWrites \/ UNCHANGED vars
  <2>1. /\ record' = record /\ caller' = caller
        /\ world'.application = world.application /\ world'.monitor = world.monitor
        /\ world'.generation = world.generation /\ world'.ready = world.ready
        /\ world'.env \in {world.env, "unknown"} /\ world'.watchlist \in {world.watchlist, "unknown"}
    BY <1>0, <1>4 DEF Edits, MonitorWrites, vars, Worlds
  <2>2. \A d \in Callers : Ran(d)'
    BY <2>1 DEF Services, Ran, Did, Stopped
  <2> QED
    BY <1>k, <2>1, <2>2
<1> QED
  BY <1>1, <1>2, <1>3, <1>4 DEF Next, RollbackIsCalled, Callers

\* Phases and databases stay in step: an operation is recorded by the caller that performed
\* it, nobody moves the record in between, and a drop meets a record that stands still.
LEMMA BackedStep ==
  ASSUME OneOperator
  PROVE  Typed /\ OneLease /\ InJob /\ Backed /\ Halted /\ [Next]_vars => Backed'
<1> SUFFICES ASSUME Typed, OneLease, InJob, Backed, Halted, [Next]_vars PROVE Backed'
  OBVIOUS
<1>0. record \in Records /\ world \in Worlds /\ caller \in [Callers -> CallerStates]
  BY DEF Typed
\* Nothing happens to what is spoken of.
<1>k. ASSUME record'.phase = record.phase, world'.replacement = world.replacement,
             world'.env = "staged" => world.env = "staged", \A d \in Callers : Performed(d)'
      PROVE  Backed'
  BY <1>k DEF Backed, Grown
<1>p. ASSUME NEW d \in Callers, caller'[d] = caller[d],
             ~Leased(d) \/ (record'.phase = record.phase /\ world.replacement \subseteq world'.replacement)
      PROVE  Performed(d)'
  BY <1>p DEF Backed, Performed, Leased
<1>1. ASSUME NEW c \in Callers, GoesOn(c) PROVE Backed'
  <2>0. OwnState(c) /\ \A d \in Callers : d # c => caller'[d] = caller[d]
    BY <1>1, CallStep DEF OwnState
  <2>1. CASE PhaseMoves(c)
    <3>1. \A d \in Callers : d # c => Performed(d)'
      BY <1>1, <1>p, <2>0, <2>1, MovesAlone
    <3>2. world' = world /\ Performed(c)'
      BY <1>1, <2>1, PhaseEnters DEF Performed
    <3>3. record'.phase \in Verified => "verified" \in world.replacement
      BY <1>1, <2>1, PhaseLeads DEF Backed
    <3> QED
      BY <3>1, <3>2, <3>3 DEF Backed, Grown
  <2>2. CASE Performs(c)
    <3>1. PICK s \in AllSteps :
            /\ caller[c].at = "intended" /\ record.phase = s.intent
            /\ Able(s.operation, world) /\ world' = Effect(s.operation, world)
            /\ record' = record /\ Goes(c, "performed")
      BY <2>2 DEF Performs
    <3>2. \A d \in Callers : d # c => ~Leased(d)
      BY <3>1 DEF OneLease, Leased
    <3>3. \A d \in Callers : d # c => Performed(d)'
      BY <1>p, <2>0, <3>2
    <3>4. /\ Grown(world') /\ world.replacement \subseteq world'.replacement
          /\ world'.env = "staged" => world.env = "staged" \/ s.operation = "switch_env"
          /\ s.operation = "verify" => "verified" \in world'.replacement
      BY <1>0, <3>1, OperationsOf, EffectOf DEF Backed
    <3>5. Performed(c)'
      BY <3>1, <3>4, StepTable DEF Performed
    <3>6. world'.env = "staged" => "verified" \in world'.replacement
      <4>1. s.operation = "switch_env" => record.phase \in Verified
        BY <3>1, StepTable DEF Verified
      <4> QED
        BY <3>4, <4>1 DEF Backed
    <3> QED
      BY <3>1, <3>3, <3>4, <3>5, <3>6 DEF Backed
  <2>3. CASE Drops(c)
    <3>1. /\ record' = record /\ record.phase \in Cleanable /\ Cleaning(c)
          /\ caller'[c] = Idle \/ caller'[c].at = "gone"
      BY <1>1, <2>0, <2>3, OwnMoves DEF Drops, Halted, Places, Cleaning
    <3>2. CASE UNCHANGED world
      <4>1. Performed(c)'
        BY <3>1 DEF Performed, Idle
      <4>2. \A d \in Callers : Performed(d)'
        BY <1>p, <2>0, <3>1, <3>2, <4>1
      <4> QED
        BY <1>k, <3>1, <3>2, <4>2
    <3>3. CASE /\ world' = [world EXCEPT !.replacement = {}]
               /\ ~("created" \in world.replacement /\ world.env = "staged")
      <4>1. world'.replacement = {} /\ world'.env = world.env
        BY <1>0, <3>3 DEF Worlds
      <4>2. world.env # "staged"
        BY <3>3 DEF Backed, Grown
      <4>3. record.phase \notin Verified \cup Undoing
        BY <3>1 DEF Cleanable, Verified, Fenced, MonitorMayRun, AfterSwitch, RollbackEntry, Undoing
      <4>4. Performed(c)'
        BY <3>1 DEF Performed, Idle
      <4>5. \A d \in Callers : Leased(d) => d = c
        <5>1. c \in Operators
          BY <3>1 DEF InJob, Cleaning
        <5>2. \A d \in Callers : Leased(d) => caller[d].job = "run"
          BY <4>3 DEF InJob
        <5> QED
          BY <5>1, <5>2 DEF InJob, OneOperator
      <4>6. \A d \in Callers : Performed(d)'
        BY <1>p, <2>0, <4>4, <4>5
      <4> QED
        BY <3>1, <4>1, <4>2, <4>3, <4>6 DEF Backed, Grown
    <3> QED
      BY <2>3, <3>2, <3>3 DEF Drops
  <2>4. CASE ~PhaseMoves(c) /\ ~Performs(c) /\ ~Drops(c)
    <3>1. record'.phase = record.phase /\ world' = world
      BY <1>1, <2>4, PhaseStays, WorldStays
    <3>2. Performed(c)'
      BY <1>1, <2>4, <3>1, Arrived, CompleteMeans DEF Backed, Performed
    <3>3. \A d \in Callers : Performed(d)'
      BY <1>p, <2>0, <3>1, <3>2
    <3> QED
      BY <1>k, <3>1, <3>3
  <2> QED
    BY <2>1, <2>2, <2>3, <2>4
<1>2. ASSUME NEW c \in Callers, Crashes(c) PROVE Backed'
  <2>1. /\ record' = record /\ caller'[c] = Idle /\ \A d \in Callers : d # c => caller'[d] = caller[d]
        /\ world'.replacement = world.replacement /\ world'.env = world.env
    BY <1>0, <1>2 DEF Crashes, Ends, Worlds
  <2>2. Performed(c)'
    BY <2>1 DEF Performed, Idle
  <2>3. \A d \in Callers : Performed(d)'
    BY <1>p, <2>1, <2>2
  <2> QED
    BY <1>k, <2>1, <2>3
<1>3. ASSUME NEW c \in Callers, NEW job \in {"run", "rollback", "clean"}, Begins(c, job) PROVE Backed'
  <2>1. /\ record' = record /\ world' = world /\ caller'[c].at = "deciding"
        /\ \A d \in Callers : d # c => caller'[d] = caller[d]
    BY <1>0, <1>3 DEF Begins
  <2>2. Performed(c)'
    BY <2>1 DEF Performed
  <2>3. \A d \in Callers : Performed(d)'
    BY <1>p, <2>1, <2>2
  <2> QED
    BY <1>k, <2>1, <2>3
<1>4. CASE Edits \/ MonitorWrites \/ UNCHANGED vars
  <2>1. /\ record' = record /\ caller' = caller
        /\ world'.replacement = world.replacement
        /\ world'.env = "staged" => world.env = "staged"
    BY <1>0, <1>4 DEF Edits, MonitorWrites, vars, Worlds
  <2>2. \A d \in Callers : Performed(d)'
    BY <1>p, <2>1
  <2> QED
    BY <1>k, <2>1, <2>2
<1> QED
  BY <1>1, <1>2, <1>3, <1>4 DEF Next, RollbackIsCalled, Callers

(***************************************************************************)
(* The cleanup.                                                            *)
(***************************************************************************)
\* A rollback does nothing to a record in a phase a cleanup may begin in.
LEMMA RollbackKeepsOff ==
  ASSUME Typed, InJob, NEW c \in Callers, GoesOn(c), caller[c].job = "rollback",
         record.phase \in Cleanable
  PROVE  record'.phase = record.phase
<1>1. ~StepIntends(c)
  BY RollbackLeads DEF StepIntends, Steps, Deciding
<1>2. ~RollbackBegins(c)
  BY DEF RollbackBegins, RollbackEntry, AfterSwitch, Cleanable
<1>3. ~Results(c)
  BY DEF Results, InJob, Leased, Undoing, Cleanable
<1>4. ~Advances(c)
  BY DEF Advances, Deciding, Moves, Cleanable
<1>5. ~Confirms(c)
  BY DEF Confirms, InJob, Leased
<1> QED
  BY <1>1, <1>2, <1>3, <1>4, <1>5, PhaseStays DEF PhaseMoves

\* While the operator cleans up only rollbacks act, and they keep off.
LEMMA HaltedStep ==
  ASSUME OneOperator
  PROVE  Typed /\ InJob /\ Halted /\ [Next]_vars => Halted'
<1> SUFFICES ASSUME Typed, InJob, Halted, [Next]_vars,
                    NEW d \in Callers, Cleaning(d)',
                    (caller[d].at # "deciding" \/ caller[d].seen.phase \in Cleanable)'
             PROVE  record'.phase \in Cleanable
  BY DEF Halted
<1>0. record \in Records /\ caller \in [Callers -> CallerStates]
  BY DEF Typed
<1>k. ASSUME caller'[d] = caller[d] PROVE record.phase \in Cleanable /\ caller[d].job = "clean"
  BY <1>k DEF Halted, Cleaning
<1>1. ASSUME NEW c \in Callers, GoesOn(c) PROVE record'.phase \in Cleanable
  <2>0. OwnState(c) /\ caller[c].job # "none"
    BY <1>1, CallStep
  <2>1. CASE d # c
    <3>1. caller'[d] = caller[d]
      BY <2>0, <2>1 DEF OwnState
    <3>2. record.phase \in Cleanable /\ d \in Operators
      BY <1>k, <3>1 DEF InJob
    <3>3. c \notin Operators
      BY <2>1, <3>2 DEF OneOperator
    <3>4. caller[c].job = "rollback"
      BY <1>0, <2>0, <3>3 DEF InJob, CallerStates, Idle
    <3> QED
      BY <1>1, <3>2, <3>4, RollbackKeepsOff
  <2>2. CASE d = c
    <3>1. caller[c].job = "clean" /\ caller'[c] # Idle
      BY <2>0, <2>2 DEF OwnState, Cleaning, Idle
    <3>2. ~Leased(c) /\ ~PhaseMoves(c)
      BY <3>1 DEF InJob, PhaseMoves, StepIntends, RollbackBegins, Results, Advances, Confirms, Deciding,
         Leased
    <3>3. record'.phase = record.phase
      BY <1>1, <3>2, PhaseStays
    <3>4. caller[c].at # "deciding" \/ caller[c].seen.phase \in Cleanable
      <4>1. CASE RequestsCleanup(c)
        BY <4>1 DEF RequestsCleanup, MayClean, Cleanable
      <4>2. CASE caller[c].at = "deciding" /\ ~RequestsCleanup(c)
        BY <1>1, <3>1, <4>2, CallStep, OwnMoves
           DEF GoesOn, FindsMisplaced, StepIntends, RollbackBegins, RollbackRefused, Resumes, Performs,
               OperationFails, Notes, Results, Advances, AuthorizesWatchlist, Decides, Confirms,
               RecordsFailure, Rejects, ReadsChild, CleanupStarts, Drops, DropIsObserved,
               CleanupCompletes, CleanupIsRecorded, CleanupRejects, ChildAdvances, Deciding
      <4> QED
        BY <4>1, <4>2
    <3> QED
      BY <3>1, <3>3, <3>4 DEF Halted, Cleaning
  <2> QED
    BY <2>1, <2>2
<1>2. ASSUME NEW c \in Callers, Crashes(c) PROVE record'.phase \in Cleanable
  <2>1. d # c
    BY <1>0, <1>2 DEF Crashes, Ends, Cleaning, Idle
  <2> QED
    BY <1>0, <1>2, <1>k, <2>1 DEF Crashes, Ends
<1>3. ASSUME NEW c \in Callers, NEW job \in {"run", "rollback", "clean"}, Begins(c, job)
      PROVE  record'.phase \in Cleanable
  <2>1. CASE d = c
    BY <1>0, <1>3, <2>1 DEF Begins
  <2>2. CASE d # c
    BY <1>0, <1>3, <1>k, <2>2 DEF Begins
  <2> QED
    BY <2>1, <2>2
<1>4. CASE Edits \/ MonitorWrites \/ UNCHANGED vars
  BY <1>4, <1>k DEF Edits, MonitorWrites, vars
<1> QED
  BY <1>1, <1>2, <1>3, <1>4 DEF Next, RollbackIsCalled, Callers

(***************************************************************************)
(* The theorems.                                                           *)
(***************************************************************************)
\* What holds with any number of operators, and what needs that there is one.
LEMMA AnyInvariant == Spec => []AnyInv
<1>1. AnyInv /\ [Next]_vars => AnyInv'
  BY TypedStep, OneLeaseStep, InJobStep, ServicesStep DEF AnyInv
<1>2. Init => AnyInv
  BY InitHolds DEF IInv
<1> QED
  BY <1>1, <1>2, PTL DEF Spec

LEMMA Invariant == ASSUME OneOperator PROVE Spec => []IInv
<1>1. IInv /\ [Next]_vars => IInv'
  BY TypedStep, OneLeaseStep, InJobStep, ServicesStep, BackedStep, HaltedStep DEF IInv, AnyInv
<1> QED
  BY <1>1, InitHolds, PTL DEF Spec

\* The active configuration never names a database that was dropped or not verified: switch_env
\* comes behind verification_completed, drop_once only where the record stands still.
THEOREM ActiveWasVerified == ASSUME OneOperator PROVE Spec => []ActiveIsVerified
<1>1. IInv => ActiveIsVerified
  BY DEF IInv, AnyInv, Typed, Worlds, Backed, Grown, ActiveIsVerified, Whole
<1> QED
  BY <1>1, Invariant, PTL

\* From the start of the monitor on the application stays on the replacement, wherever calls
\* die: no phase from monitor_start_started on leads back (RollbackEntry).
THEOREM HistoryNeverForks == ASSUME OneOperator PROVE Spec => []NoForkedHistory
<1>1. IInv => NoForkedHistory
  BY DEF IInv, AnyInv, Services, Backed, Grown, NoForkedHistory, Verified, OnReplacement
<1> QED
  BY <1>1, Invariant, PTL

\* A record that says rolled_back tells the truth, however often the rollback died and was
\* resumed: _run_rollback takes an operation for done only when the world shows it.
THEOREM RolledBackIsBack == Spec => []BackOnOriginal
<1>1. AnyInv => BackOnOriginal
  BY DEF AnyInv, Services, BackOnOriginal, OnOriginal, ReadyBack, AppBack, WatchlistBack, EnvBack,
     MonitorDown, Fenced, MonitorMayRun, RollbackEntry, AfterSwitch
<1> QED
  BY <1>1, AnyInvariant, PTL

\* env_switch, watchlist_switch and their ways back are intents between the stop of the services
\* and the start of the application.
THEOREM SwitchesAtRest == Spec => SwitchedAtRest
<1> DEFINE Rested == \A file \in {"env", "watchlist"} :
             world'[file] \notin {world[file], "unknown"} => Stopped(world) /\ ~world.monitor
<1>1. AnyInv /\ [Next]_vars => [Rested]_vars
  <2> SUFFICES ASSUME AnyInv, [Next]_vars PROVE Rested
    OBVIOUS
  <2>0. world \in Worlds /\ Typed /\ InJob
    BY DEF AnyInv, Typed
  <2>1. ASSUME NEW c \in Callers, Performs(c) PROVE Rested
    <3>1. PICK s \in AllSteps : record.phase = s.intent /\ world' = Effect(s.operation, world)
      BY <2>1 DEF Performs
    <3>2. world'.env # world.env \/ world'.watchlist # world.watchlist => record.phase \in Resting
      BY <2>0, <3>1, ServiceEffect DEF Resting
    <3> QED
      BY <3>2 DEF AnyInv, Services
  <2>2. CASE /\ world'.env \in {world.env, "unknown"}
             /\ world'.watchlist \in {world.watchlist, "unknown"}
    BY <2>2
  <2>3. ASSUME NEW c \in Callers, GoesOn(c), ~Performs(c) PROVE Rested
    <3>1. CASE Drops(c)
      BY <2>0, <2>2, <3>1 DEF Drops, Worlds
    <3>2. CASE ~Drops(c)
      BY <2>2, <2>3, <3>2, WorldStays
    <3> QED
      BY <3>1, <3>2
  <2>4. ASSUME NEW c \in Callers, Crashes(c) PROVE Rested
    BY <2>0, <2>2, <2>4 DEF Crashes, Worlds
  <2>5. CASE Edits \/ MonitorWrites \/ UNCHANGED vars
    BY <2>0, <2>2, <2>5 DEF Edits, MonitorWrites, vars, Worlds
  <2>6. ASSUME NEW c \in Callers, NEW job \in {"run", "rollback", "clean"}, Begins(c, job) PROVE Rested
    BY <2>2, <2>6 DEF Begins
  <2> QED
    BY <2>1, <2>3, <2>4, <2>5, <2>6 DEF Next, RollbackIsCalled, Callers
<1> QED
  BY <1>1, AnyInvariant, PTL DEF Spec, SwitchedAtRest
=============================================================================
