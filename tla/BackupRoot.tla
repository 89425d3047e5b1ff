---------------------------- MODULE BackupRoot ----------------------------
(***************************************************************************)
(* The backup root directory and the services that change it under its     *)
(* exclusive lock: BackupService.create and PinMutationService. The lock   *)
(* is never waited for (LOCK_NB): who does not get it fails at once, so    *)
(* the operations interleave only with what a crash or a failure leaves    *)
(* half done. BackupRetention adds the service that deletes packages.      *)
(***************************************************************************)
EXTENDS Naturals, FiniteSets

CONSTANTS
  Backups,       \* backup ids, numbers in the order of created_at_utc
  Existing,      \* the packages there at the start
  Held,          \* ids with a recovery hold, which no code of src/ writes
  PinOps,        \* bound: operation ids of pin and unpin requests
  Reasons,       \* the reason codes of the requests
  NoPin,         \* the identity "missing" of a pin sidecar
  MaxFailures    \* bound: failing calls and crashes

ASSUME BackupRootAssumption ==
  /\ Backups \subseteq Nat /\ IsFiniteSet(Backups) /\ Existing \subseteq Backups
  /\ NoPin \notin PinOps \X Reasons /\ MaxFailures \in Nat

VARIABLES
  holder,     \* who holds .backup.lock exclusively
  place,      \* per id: where its directory is
  files,      \* per id: the package files in that directory
  creating,   \* create(): the id it makes and what is done
  reported,   \* per id: the package_state create() returned
  verified,   \* ids with a sidecar in .verifications
  pins,       \* per id: the sidecar in .pins, identified by the request that made it
  audits,     \* per operation id: its journal in .pin-audit
  leftover,   \* directories where a dead process left a temporary file
  pinning,    \* the operation at work on a pin and what it does next
  failures    \* failures and crashes so far

rootVars == <<holder, place, files, creating, reported, verified, pins, audits,
              leftover, pinning, failures>>
pinVars    == <<pins, audits, leftover, pinning>>
createVars == <<place, files, creating, reported>>

PackageFiles == {"manifest.json", "database.dump", "watchlist.json"}
Places    == {"none", "tmp", "final", "pending", "gone"}
Pins      == (PinOps \X Reasons) \cup {NoPin}
Visible   == {b \in Backups : place[b] = "final"}
NoAudit   == [phase |-> "none"]
NotPinning  == [op |-> NoPin, next |-> "none"]
NotCreating == [id |-> 0, next |-> "none"]

RootInit ==
  /\ holder = "nobody"
  /\ place = [b \in Backups |-> IF b \in Existing THEN "final" ELSE "none"]
  /\ files = [b \in Backups |-> IF b \in Existing THEN PackageFiles ELSE {}]
  /\ creating = NotCreating /\ reported = [b \in Backups |-> "none"]
  /\ verified \in SUBSET Existing /\ pins = [b \in Backups |-> NoPin]
  /\ audits = [o \in PinOps |-> NoAudit] /\ leftover = {}
  /\ pinning = NotPinning /\ failures = 0

MayFail == failures < MaxFailures

(***************************************************************************)
(* BackupService.create. The package grows in .tmp/<id> and becomes        *)
(* visible by one rename; the snapshot's connection is closed after it.    *)
(***************************************************************************)
CreateBegins(b) ==
  /\ holder = "nobody" /\ place[b] = "none" /\ reported[b] = "none"
  /\ \A c \in Backups : place[c] # "none" => c < b
  /\ holder' = "create" /\ creating' = [id |-> b, next |-> "dump"]
  /\ place' = [place EXCEPT ![b] = "tmp"]
  /\ UNCHANGED <<files, reported, verified, pinVars, failures>>

\* Variant with a bug: the package is renamed before its manifest is written.
StagedTooEarly ==
  [dump |-> [file |-> "database.dump", then |-> "watchlist"],
   watchlist |-> [file |-> "watchlist.json", then |-> "publish"],
   manifest |-> [file |-> "manifest.json", then |-> "publish"]]

\* What each stage puts into the package, and the stage after it.
Staged ==
  [dump |-> [file |-> "database.dump", then |-> "watchlist"],
   watchlist |-> [file |-> "watchlist.json", then |-> "manifest"],
   manifest |-> [file |-> "manifest.json", then |-> "publish"]]

CreateStages ==
  /\ holder = "create" /\ creating.next \in DOMAIN Staged
  /\ files' = [files EXCEPT ![creating.id] = @ \cup {Staged[creating.next].file}]
  /\ creating' = [creating EXCEPT !.next = Staged[creating.next].then]
  /\ UNCHANGED <<holder, place, reported, verified, pinVars, failures>>

\* os.replace(temp_package, final_package), then the fsync of the root, which
\* may fail: the package is there and the result says so, without promising it.
CreatePublishes ==
  /\ holder = "create" /\ creating.next = "publish"
  /\ place' = [place EXCEPT ![creating.id] = "final"]
  /\ \/ creating' = [creating EXCEPT !.next = "final_committed"] /\ UNCHANGED failures
     \/ MayFail /\ failures' = failures + 1 /\ creating' = [creating EXCEPT !.next = "commit_uncertain"]
  /\ UNCHANGED <<holder, files, reported, verified, pinVars>>

\* The snapshot's transaction is rolled back and its connection closed. An
\* OSError of these calls replaces the result by a failed one, any other escapes.
CreateReturns ==
  /\ holder = "create" /\ creating.next \in {"final_committed", "commit_uncertain"}
  /\ \E r \in {creating.next, "not_created", "raised"} :
       /\ r # creating.next => MayFail
       /\ failures' = IF r = creating.next THEN failures ELSE failures + 1
       /\ reported' = [reported EXCEPT ![creating.id] = r]
  /\ holder' = "nobody" /\ creating' = NotCreating
  /\ UNCHANGED <<place, files, verified, pinVars>>

\* Variant with a bug: the failed attempt says that nothing was left behind.
LeftoverReported(left) == "not_created"

\* "temp_only if cleanup_failed else not_created"
StateAfterCleanup(left) == IF left THEN "temp_only" ELSE "not_created"

\* A stage fails or is cancelled: _cleanup_owned_temp, which may fail too.
CreateFails ==
  /\ holder = "create" /\ creating.next \in DOMAIN Staged \cup {"publish"} /\ MayFail
  /\ \E left \in BOOLEAN, cancelled \in BOOLEAN :
       /\ IF left THEN UNCHANGED <<place, files>>
                  ELSE /\ place' = [place EXCEPT ![creating.id] = "none"]
                       /\ files' = [files EXCEPT ![creating.id] = {}]
       /\ reported' = [reported EXCEPT ![creating.id] =
                          IF cancelled THEN "raised" ELSE StateAfterCleanup(left)]
  /\ holder' = "nobody" /\ creating' = NotCreating /\ failures' = failures + 1
  /\ UNCHANGED <<verified, pinVars>>

\* The process dies: the lock is gone with it, the directory stays in .tmp.
CreateCrashes ==
  /\ holder = "create" /\ MayFail
  /\ holder' = "nobody" /\ creating' = NotCreating /\ failures' = failures + 1
  /\ UNCHANGED <<place, files, reported, verified, pinVars>>

\* RestoreVerificationService.run ends well, under the shared lock.
VerificationPasses(b) ==
  /\ holder = "nobody" /\ place[b] = "final"
  /\ verified' = verified \cup {b}
  /\ UNCHANGED <<holder, createVars, pinVars, failures>>

(***************************************************************************)
(* PinMutationService: _mutate_locked, _audit_rejected and reconcile. The  *)
(* journal of an operation goes planned, mutation_started,                 *)
(* mutation_committed, completed around the change of the sidecar.         *)
(***************************************************************************)
\* What pin or unpin intends, from the sidecar it finds.
Wanted(kind, existing, desired) ==
  CASE kind = "unpin" -> [intended |-> IF existing = NoPin THEN "idempotent" ELSE "removed",
                          result |-> NoPin]
    [] kind = "pin" /\ existing = NoPin -> [intended |-> "created", result |-> desired]
    [] kind = "pin" /\ existing # NoPin ->
         [intended |-> IF existing[2] = desired[2] THEN "idempotent" ELSE "rejected",
          result |-> existing]

PinBegins(o, kind, b, reason) ==
  LET want == Wanted(kind, pins[b], <<o, reason>>) IN
  /\ holder = "nobody" /\ place[b] = "final" /\ audits[o] = NoAudit
  /\ holder' = "pin"
  /\ audits' = [audits EXCEPT ![o] =
       [phase |-> "planned", kind |-> kind, id |-> b, before |-> pins[b],
        pin |-> <<o, reason>>, result |-> want.result, intended |-> want.intended]]
  /\ pinning' = [op |-> o, next |-> IF want.intended = "rejected" THEN "settle" ELSE "start"]
  /\ UNCHANGED <<createVars, verified, pins, leftover, failures>>

PinStarts ==
  /\ holder = "pin" /\ pinning.next = "start"
  /\ audits' = [audits EXCEPT ![pinning.op].phase = "mutation_started"]
  /\ pinning' = [pinning EXCEPT !.next = "mutate"]
  /\ UNCHANGED <<holder, createVars, verified, pins, leftover, failures>>

PinMutates ==
  LET a == audits[pinning.op] IN
  /\ holder = "pin" /\ pinning.next = "mutate"
  /\ pins' = [pins EXCEPT ![a.id] = a.result]
  /\ pinning' = [pinning EXCEPT !.next = "commit"]
  /\ UNCHANGED <<holder, createVars, verified, audits, leftover, failures>>

PinCommits ==
  /\ holder = "pin" /\ pinning.next = "commit"
  /\ pins[audits[pinning.op].id] = audits[pinning.op].result
  /\ audits' = [audits EXCEPT ![pinning.op].phase = "mutation_committed"]
  /\ pinning' = [pinning EXCEPT !.next = "settle"]
  /\ UNCHANGED <<holder, createVars, verified, pins, leftover, failures>>

PinCompletes ==
  /\ holder = "pin" /\ pinning.next = "settle"
  /\ audits' = [audits EXCEPT ![pinning.op].phase = "completed"]
  /\ holder' = "nobody" /\ pinning' = NotPinning
  /\ UNCHANGED <<createVars, verified, pins, leftover, failures>>

\* A write of the journal or the sidecar fails, or the process dies: before the
\* temporary file of a journal becomes the journal, or after that of the pin is
\* linked and before it is unlinked. Nothing removes such a file later.
PinStops ==
  /\ holder = "pin" /\ MayFail
  /\ holder' = "nobody" /\ pinning' = NotPinning /\ failures' = failures + 1
  /\ leftover' \in {leftover, leftover \cup {".pin-audit"},
                   leftover \cup IF pinning.next = "commit" THEN {".pins"} ELSE {}}
  /\ UNCHANGED <<createVars, verified, pins, audits>>

\* Variant with a bug: an operation that was only planned is carried out.
ReconcileReplays(a) ==
  CASE a.phase = "planned" /\ pins[a.id] = a.before -> "mutate"
    [] a.phase = "mutation_started" /\ pins[a.id] \in {a.before, a.result} -> "mutate"
    [] a.phase = "mutation_committed" /\ pins[a.id] = a.result -> "settle"
    [] OTHER -> "none"

\* Where reconcile() takes an unfinished journal up; "none": BACKUP_PIN_INVALID.
\* An untouched sidecar makes it repeat the operation, and to create a pin that is
\* there, which is what an idempotent pin intends, is refused.
ReconcileFrom(a) ==
  CASE a.phase = "planned" /\ pins[a.id] = a.before -> "reject"
    [] a.phase = "mutation_started" /\ pins[a.id] = a.before ->
         IF a.kind = "pin" /\ a.before # NoPin THEN "none" ELSE "mutate"
    [] a.phase = "mutation_started" /\ pins[a.id] = a.result -> "commit"
    [] a.phase = "mutation_committed" /\ pins[a.id] = a.result -> "settle"
    [] OTHER -> "none"

ReconcileBegins(o) ==
  /\ holder = "nobody" /\ audits[o].phase \notin {"none", "completed"}
  /\ ReconcileFrom(audits[o]) # "none"
  /\ holder' = "pin"
  /\ pinning' = [op |-> o, next |-> ReconcileFrom(audits[o])]
  /\ UNCHANGED <<createVars, verified, pins, audits, leftover, failures>>

\* An operation that was only planned is closed as rejected.
ReconcileRejects ==
  /\ holder = "pin" /\ pinning.next = "reject"
  /\ audits' = [audits EXCEPT ![pinning.op].phase = "completed",
                              ![pinning.op].intended = "rejected"]
  /\ holder' = "nobody" /\ pinning' = NotPinning
  /\ UNCHANGED <<createVars, verified, pins, leftover, failures>>

Create == \/ \E b \in Backups : CreateBegins(b)
          \/ CreateStages \/ CreatePublishes \/ CreateReturns
          \/ CreateFails \/ CreateCrashes
Pin == \/ \E o \in PinOps, kind \in {"pin", "unpin"}, b \in Backups, r \in Reasons :
            PinBegins(o, kind, b, r)
       \/ PinStarts \/ PinMutates \/ PinCommits \/ PinCompletes \/ PinStops
       \/ \E o \in PinOps : ReconcileBegins(o)
       \/ ReconcileRejects
Verification == \E b \in Backups : VerificationPasses(b)

(***************************************************************************)
(* What plan() and apply() ask of the root before they trust it.           *)
(***************************************************************************)
\* _has_unfinished_pin_audit: a leftover file counts as unfinished.
UnfinishedAudit ==
  ".pin-audit" \in leftover \/ \E o \in PinOps : audits[o].phase \notin {"none", "completed"}

\* A verification sidecar whose package is not there: an orphan.
OrphanVerification == verified \ Visible # {}

\* RetentionPackageIdentity, as far as it can change.
Identity(b) == [verification |-> b \in verified, pin |-> pins[b], held |-> b \in Held]
===========================================================================
