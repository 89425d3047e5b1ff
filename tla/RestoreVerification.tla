------------------------ MODULE RestoreVerification ------------------------
(***************************************************************************)
(* RestoreVerificationService: run() restores a backup into a database of  *)
(* its own, verifies and drops it, and signs the backup; cleanup() drops   *)
(* what a run left. A recovery record on disk is written before and after  *)
(* every statement, because a call that raised may still have had its      *)
(* effect, and because the process may die between any two calls. Both     *)
(* services hold the backup lock shared, which does not order them: nobody *)
(* asks for the cleanup of a run that is still going, for its handle is    *)
(* not out, but two cleanups may overlap.                                  *)
(***************************************************************************)
EXTENDS Naturals, Sequences

CONSTANTS
  Runs,          \* bound: runs, named by the opaque id of their record
  Cleaners,      \* bound: cleanups at work at the same time
  Unsigned,      \* no verification sidecar
  MaxFailures,   \* bound: calls that raise, cancellations and crashes
  MaxChanges     \* bound: other versions of the package, by who ignores the lock

ASSUME RestoreAssumption ==
  /\ MaxFailures \in Nat /\ MaxChanges \in Nat /\ Unsigned \notin [run: Runs, version: Nat]

VARIABLES
  package,    \* the version of the package's files
  records,    \* per run: the phase in its recovery record, "none" without one
  target,     \* per run: its database: absent, bare, or ours by its comment
  inUse,      \* runs whose database has other connections
  snapshots,  \* runs with a private copy of the dump
  sidecar,    \* the signed verification: its run and version
  run,        \* per run: the step it is at and its locals
  results,    \* per run: what it returned
  cleaning,   \* per cleaner: the run it cleans up, the phase read, the step
  failures    \* failing calls so far

vars == <<package, records, target, inUse, snapshots, sidecar, run, results, cleaning, failures>>
world == <<package, inUse, sidecar>>

Phases == {"planned", "create_started", "database_created", "identity_commit_started",
           "identity_committed", "restore_started", "restore_failed", "verification_failed",
           "verification_passed", "drop_failed"}

\* Variant with a bug: the database is created before the record says so.
CreatedFirst ==
  <<"capture", "planned", "create", "create_started", "database_created",
    "identity_commit_started", "comment", "identity_committed", "copy", "restore_started",
    "restore", "verify", "verification_passed", "drop", "confirm", "forget", "sign",
    "project">>

\* The calls of _run_locked in their order; a phase stands for its durable write.
Calls ==
  <<"capture", "planned", "create_started", "create", "database_created",
    "identity_commit_started", "comment", "identity_committed", "copy", "restore_started",
    "restore", "verify", "verification_passed", "drop", "confirm", "forget", "sign",
    "project">>

Ended == Len(Calls) + 1
Step(r) == IF run[r].at \in 1 .. Len(Calls) THEN Calls[run[r].at] ELSE "ended"
Past(r, call) == \E i \in 1 .. run[r].at - 1 : i <= Len(Calls) /\ Calls[i] = call

NotRun == [at |-> 0, phase |-> "none", initial |-> 0, restored |-> 0]
NotCleaning == [step |-> "none"]
NoResult == [status |-> "none"]

Init ==
  /\ package = 1 /\ sidecar = Unsigned /\ failures = 0
  /\ records = [r \in Runs |-> "none"] /\ target = [r \in Runs |-> "absent"]
  /\ inUse = {} /\ snapshots = {}
  /\ run = [r \in Runs |-> NotRun] /\ results = [r \in Runs |-> NoResult]
  /\ cleaning = [c \in Cleaners |-> NotCleaning]

MayFail == failures < MaxFailures

(***************************************************************************)
(* What a call does to the record, the database and the snapshot. The      *)
(* ones that verify or sign have an action of their own.                   *)
(***************************************************************************)
Effect(r) ==
  /\ records' = CASE Step(r) \in Phases -> [records EXCEPT ![r] = Step(r)]
                  [] Step(r) = "forget" -> [records EXCEPT ![r] = "none"]
                  [] OTHER -> records
  /\ target' = CASE Step(r) = "create"  -> [target EXCEPT ![r] = "bare"]
                 [] Step(r) = "comment" -> [target EXCEPT ![r] = "ours"]
                 [] Step(r) = "drop"    -> [target EXCEPT ![r] = "absent"]
                 [] OTHER -> target
  /\ snapshots' = CASE Step(r) = "copy" -> snapshots \cup {r}
                    [] Step(r) \in {"restore", "forget"} -> snapshots \ {r}
                    [] OTHER -> snapshots

\* What the inspections of the database before a call ask for: _require_created,
\* _require_identified, _require_drop_safe, and that a dropped one is gone.
Required(r) ==
  CASE Step(r) = "create" -> target[r] = "absent"
    [] Step(r) = "comment" -> target[r] = "bare"
    [] Step(r) = "database_created" -> target[r] = "bare"
    [] Step(r) \in {"identity_committed", "verify"} -> target[r] = "ours"
    [] Step(r) = "drop" -> target[r] = "ours" /\ r \notin inUse
    [] Step(r) = "confirm" -> target[r] = "absent"
    [] Step(r) = "forget" -> records[r] # "none"
    [] OTHER -> TRUE

\* Variant with a bug: a handle is given only for a database known to be created.
HandledIfCreated(r) == Past(r, "create")

\* "record is not None and (target_created or record.phase != planned)"
CleanupRequired(r) == run[r].phase # "none" /\ (Past(r, "create") \/ run[r].phase # "planned")

Ends(r, status, cleanup) ==
  /\ run' = [run EXCEPT ![r].at = Ended]
  /\ results' = [results EXCEPT ![r] =
                   [status |-> status, cleanup |-> cleanup, dropped |-> Past(r, "confirm")]]

\* A run begins with the capture of the package's identity.
RunBegins(r) ==
  /\ run[r] = NotRun
  /\ run' = [run EXCEPT ![r] = [NotRun EXCEPT !.at = 2, !.initial = package]]
  /\ UNCHANGED <<world, records, target, snapshots, results, cleaning, failures>>

Ordinary == Phases \cup {"create", "comment", "drop", "confirm", "forget"}

RunSteps(r) ==
  /\ Step(r) \in Ordinary /\ Required(r) /\ Effect(r)
  /\ run' = [run EXCEPT ![r].at = @ + 1,
                        ![r].phase = IF Step(r) \in Phases THEN Step(r) ELSE @]
  /\ UNCHANGED <<world, results, cleaning, failures>>

\* Variant with a bug: the copied dump is not compared with the captured identity.
AnySnapshot(r) == TRUE

SnapshotMatches(r) == package = run[r].initial

\* The dump is copied and compared; a copy of other bytes is removed again.
RunCopies(r) ==
  /\ Step(r) = "copy"
  /\ IF SnapshotMatches(r)
     THEN /\ Effect(r) /\ run' = [run EXCEPT ![r].at = @ + 1, ![r].restored = package]
          /\ UNCHANGED results
     ELSE Ends(r, "fail", CleanupRequired(r)) /\ UNCHANGED <<records, target, snapshots>>
  /\ UNCHANGED <<world, cleaning, failures>>

\* pg_restore from the snapshot, which is removed whatever comes of it.
RunRestores(r) ==
  /\ Step(r) = "restore" /\ Effect(r)
  /\ run' = [run EXCEPT ![r].at = @ + 1]
  /\ UNCHANGED <<world, results, cleaning, failures>>

RunVerifies(r) ==
  /\ Step(r) = "verify" /\ Required(r)
  /\ run' = [run EXCEPT ![r].at = @ + 1]
  /\ UNCHANGED <<world, records, target, snapshots, results, cleaning, failures>>

\* The package is captured again, and the sidecar created or found to say the same.
RunSigns(r) ==
  LET signed == [run |-> r, version |-> run[r].initial] IN
  /\ Step(r) = "sign"
  /\ IF package = run[r].initial /\ (sidecar = Unsigned \/ sidecar.version = signed.version)
     THEN /\ sidecar' = IF sidecar = Unsigned THEN signed ELSE sidecar
          /\ run' = [run EXCEPT ![r].at = @ + 1] /\ UNCHANGED results
     ELSE Ends(r, "fail", FALSE) /\ UNCHANGED sidecar
  /\ UNCHANGED <<package, inUse, records, target, snapshots, cleaning, failures>>

\* The inventory is asked whether the package now counts as verified.
RunProjects(r) ==
  /\ Step(r) = "project"
  /\ Ends(r, IF package = run[r].initial THEN "pass" ELSE "fail", FALSE)
  /\ UNCHANGED <<world, records, target, snapshots, cleaning, failures>>

\* The phase a failing call leaves in the record, if that write succeeds.
PhaseOfFailure ==
  [restore |-> "restore_failed", verify |-> "verification_failed", drop |-> "drop_failed"]

\* A call may have had its effect although it raised, or although the process died in it.
MaybeEffect(r) == Effect(r) \/ UNCHANGED <<records, target, snapshots>>

\* A call raises: the failure is reported, with a handle unless nothing was left.
RunFails(r) ==
  /\ run[r].at \in 2 .. Len(Calls) /\ MayFail /\ failures' = failures + 1
  /\ \/ MaybeEffect(r)
     \/ /\ Step(r) \in DOMAIN PhaseOfFailure
        /\ records' = [records EXCEPT ![r] = PhaseOfFailure[Step(r)]]
        /\ \/ UNCHANGED <<target, snapshots>>
           \/ Step(r) = "restore" /\ snapshots' = snapshots \ {r} /\ UNCHANGED target
           \/ Step(r) = "drop" /\ target' = [target EXCEPT ![r] = "absent"] /\ UNCHANGED snapshots
  /\ Ends(r, "fail", IF Step(r) \in {"sign", "project"} THEN FALSE ELSE CleanupRequired(r))
  /\ UNCHANGED <<world, cleaning>>

\* An inspection finds the database other than required.
RunRefuses(r) ==
  /\ Step(r) \in Ordinary \cup {"verify"} /\ ~Required(r)
  /\ Ends(r, "fail", CleanupRequired(r))
  /\ UNCHANGED <<world, records, target, snapshots, cleaning, failures>>

\* The task is cancelled or the process dies: nothing is returned. A cancelled
\* restore or verification is first recorded as failed, if that can be written.
RunStops(r) ==
  /\ run[r].at \in 2 .. Len(Calls) /\ MayFail /\ failures' = failures + 1
  /\ \/ MaybeEffect(r)
     \/ /\ run[r].phase = "restore_started"
        /\ records' = [records EXCEPT ![r] = "restore_failed"]
        /\ snapshots' \in {snapshots, snapshots \ {r}} /\ UNCHANGED target
  /\ run' = [run EXCEPT ![r].at = Ended]
  /\ UNCHANGED <<world, results, cleaning>>

(***************************************************************************)
(* cleanup(): the record is read, then the database it names inspected.    *)
(***************************************************************************)
\* The phases in which a database that is not there is no surprise.
Absentable == {"planned", "create_started", "verification_passed", "drop_failed"}

\* Variant with a bug: an identity whose commit was only started must be there.
IdentityRequired(phase) ==
  CASE phase = "planned" -> {}
    [] phase \in {"create_started", "database_created"} -> {"bare"}
    [] OTHER -> {"ours"}

\* The identities a database may have in a phase, for cleanup to take it as its own.
IdentitiesIn(phase) ==
  CASE phase = "planned" -> {}
    [] phase \in {"create_started", "database_created"} -> {"bare"}
    [] phase = "identity_commit_started" -> {"bare", "ours"}
    [] OTHER -> {"ours"}

\* cleanup() would go on with the run's database.
Cleanable(r) == records[r] # "none" /\ target[r] \in IdentitiesIn(records[r])

CleanupBegins(c, r) ==
  /\ cleaning[c] = NotCleaning /\ Step(r) = "ended" /\ run[r].at = Ended /\ records[r] # "none"
  /\ cleaning' = [cleaning EXCEPT ![c] = [step |-> "inspect", run |-> r, phase |-> records[r]]]
  /\ UNCHANGED <<world, records, target, snapshots, run, results, failures>>

Stops(c) == cleaning' = [cleaning EXCEPT ![c] = NotCleaning]
Proceeds(c, step) == cleaning' = [cleaning EXCEPT ![c].step = step]

\* The guards, and then the snapshot is removed.
CleanupInspects(c) ==
  LET r == cleaning[c].run  phase == cleaning[c].phase IN
  /\ cleaning[c].step = "inspect"
  /\ \/ /\ target[r] = "absent" /\ phase \in Absentable
        /\ snapshots' = snapshots \ {r} /\ Proceeds(c, "forget")
     \/ /\ target[r] # "absent" /\ target[r] \in IdentitiesIn(phase) /\ r \notin inUse
        /\ snapshots' = snapshots \ {r} /\ Proceeds(c, "drop")
     \/ /\ IF target[r] = "absent" THEN phase \notin Absentable
                                   ELSE target[r] \notin IdentitiesIn(phase) \/ r \in inUse
        /\ UNCHANGED snapshots /\ Stops(c)
  /\ UNCHANGED <<world, records, target, run, results, failures>>

\* DROP DATABASE, which the server refuses while somebody is connected, or when
\* another cleanup was faster.
CleanupDrops(c) ==
  LET r == cleaning[c].run IN
  /\ cleaning[c].step = "drop"
  /\ IF target[r] # "absent" /\ r \notin inUse
     THEN target' = [target EXCEPT ![r] = "absent"] /\ Proceeds(c, "forget") /\ UNCHANGED records
     ELSE /\ Stops(c) /\ UNCHANGED target
          /\ records' = IF cleaning[c].phase = "verification_passed"
                        THEN [records EXCEPT ![r] = "drop_failed"] ELSE records
  /\ UNCHANGED <<world, snapshots, run, results, failures>>

\* The record goes last; without one the removal fails.
CleanupForgets(c) ==
  /\ cleaning[c].step = "forget"
  /\ records' = [records EXCEPT ![cleaning[c].run] = "none"] /\ Stops(c)
  /\ UNCHANGED <<world, target, snapshots, run, results, failures>>

\* A call raises or the process dies, before or after the call had its effect.
CleanupFails(c) ==
  LET r == cleaning[c].run  drops == cleaning[c].step = "drop" IN
  /\ cleaning[c] # NotCleaning /\ MayFail /\ failures' = failures + 1 /\ Stops(c)
  /\ \/ UNCHANGED target
     \/ drops /\ r \notin inUse /\ target' = [target EXCEPT ![r] = "absent"]
  /\ \/ UNCHANGED records
     \/ /\ drops /\ cleaning[c].phase = "verification_passed"
        /\ records' = [records EXCEPT ![r] = "drop_failed"]
  /\ UNCHANGED <<world, snapshots, run, results>>

(***************************************************************************)
(* Others: a session in the database, and who changes the package.         *)
(***************************************************************************)
SessionOpens(r) ==
  /\ target[r] # "absent" /\ MayFail /\ failures' = failures + 1
  /\ inUse' = inUse \cup {r}
  /\ UNCHANGED <<package, sidecar, records, target, snapshots, run, results, cleaning>>
SessionEnds(r) ==
  /\ r \in inUse /\ inUse' = inUse \ {r}
  /\ UNCHANGED <<package, sidecar, records, target, snapshots, run, results, cleaning, failures>>
PackageChanges(v) ==
  /\ v # package /\ MaxChanges > 0 /\ v \in 1 .. MaxChanges + 1 /\ package' = v
  /\ UNCHANGED <<inUse, sidecar, records, target, snapshots, run, results, cleaning, failures>>

RunGoesOn(r) == RunSteps(r) \/ RunCopies(r) \/ RunRestores(r) \/ RunVerifies(r)
                \/ RunSigns(r) \/ RunProjects(r) \/ RunRefuses(r)
CleanupGoesOn(c) == CleanupInspects(c) \/ CleanupDrops(c) \/ CleanupForgets(c)

Next ==
  \/ \E r \in Runs : RunBegins(r) \/ RunGoesOn(r) \/ RunFails(r) \/ RunStops(r)
  \/ \E c \in Cleaners, r \in Runs : CleanupBegins(c, r)
  \/ \E c \in Cleaners : CleanupGoesOn(c) \/ CleanupFails(c)
  \/ \E r \in Runs : SessionOpens(r) \/ SessionEnds(r)
  \/ \E v \in 1 .. MaxChanges + 1 : PackageChanges(v)

\* What is begun goes on, sessions end, and somebody asks for the cleanup of a
\* database that was left, again if need be.
Spec ==
  /\ Init /\ [][Next]_vars
  /\ \A r \in Runs : WF_vars(RunGoesOn(r)) /\ WF_vars(SessionEnds(r))
  /\ \A r \in Runs : SF_vars(target[r] # "absent" /\ \E c \in Cleaners : CleanupBegins(c, r))
  /\ \A c \in Cleaners : WF_vars(CleanupGoesOn(c))

(***************************************************************************)
(* Properties                                                              *)
(***************************************************************************)
\* Wherever a run or a cleanup stopped, and whether or not its last call had an effect,
\* a database it left has a record in a phase in which cleanup() takes it as its own,
\* and a private copy of the dump has one too.
LeftoverIsFindable ==
  \A r \in Runs : /\ target[r] # "absent" => Cleanable(r)
                  /\ r \in snapshots => records[r] # "none"

\* The signed version is the one that was restored from the snapshot and verified, and
\* the database it was verified in has been dropped and its record deleted.
VerifiedIsRestored ==
  sidecar # Unsigned =>
    /\ sidecar.version = run[sidecar.run].restored
    /\ target[sidecar.run] = "absent" /\ records[sidecar.run] = "none"

\* What run() returns can be acted on: without a handle there is no database, a passed
\* one is signed, and a database reported as dropped is gone.
ReportIsHonest ==
  \A r \in Runs : results[r] # NoResult =>
    /\ ~results[r].cleanup => target[r] = "absent"
    /\ results[r].dropped => target[r] = "absent"
    /\ results[r].status = "pass" => sidecar # Unsigned /\ sidecar.version = run[r].initial

\* A database that a run left is dropped in the end.
LeftoverIsDropped == \A r \in Runs : target[r] # "absent" ~> target[r] = "absent"
==========================================================================
