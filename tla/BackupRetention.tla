------------------------- MODULE BackupRetention -------------------------
(***************************************************************************)
(* RetentionPlanService.plan and TempRetentionApplyService.apply over the  *)
(* backup root. A plan is a file made under the shared lock; apply checks  *)
(* under the exclusive one that the root is still what the plan saw, then  *)
(* renames each candidate away and unlinks its files one by one, with a    *)
(* journal written before and after every change so that a run that failed *)
(* or died can be taken up again.                                          *)
(***************************************************************************)
EXTENDS BackupRoot, FiniteSetsExt

CONSTANTS
  Plans,        \* bound: plan ids
  NoPlan,       \* no such plan, no such journal
  Minimum,      \* policy.minimum_valid_packages
  SlotChoices   \* what the daily and weekly slots may pick, for some clock

ASSUME RetentionAssumption ==
  /\ Minimum \in Nat \ {0} /\ NoPlan \notin Plans /\ SlotChoices \subseteq SUBSET Backups

VARIABLES
  plans,      \* per plan id: the plan file
  journals,   \* per plan id: its execution journal
  pendingOf,  \* per backup id: the plan in the name of its pending directory
  applying    \* apply(): its plan, candidate, next step and progress in memory

retentionVars == <<plans, journals, pendingOf, applying>>
vars == <<rootVars, retentionVars>>

FileOrder == <<"manifest.json", "database.dump", "watchlist.json">>
NotApplying == [plan |-> NoPlan, next |-> "none"]
Untouched == [phase |-> "planned", index |-> 0, file |-> "ready", dir |-> "ready"]

\* The files that are left when the first n are gone.
FilesFrom(n) == {FileOrder[i] : i \in n + 1 .. 3}

Init ==
  /\ RootInit
  /\ plans = [p \in Plans |-> NoPlan] /\ journals = [p \in Plans |-> NoPlan]
  /\ pendingOf = [b \in Backups |-> NoPlan] /\ applying = NotApplying

(***************************************************************************)
(* plan(): _select over the inventory.                                     *)
(***************************************************************************)
Newer(b, packages) == {c \in packages : c > b}

Protected(packages, slots) ==
  {b \in packages : \/ b \in slots \/ Cardinality(Newer(b, packages)) < Minimum
                    \/ pins[b] # NoPin \/ b \in Held
                    \/ b \in verified /\ Newer(b, packages \cap verified) = {}}

PlanMade(p, slots) ==
  /\ holder = "nobody" /\ plans[p] = NoPlan
  /\ ~OrphanVerification /\ ~UnfinishedAudit
  /\ \A b \in Backups : place[b] # "pending"
  /\ verified \cap Visible # {}
  /\ plans' = [plans EXCEPT ![p] =
       [packages |-> Visible, identity |-> [b \in Visible |-> Identity(b)],
        candidates |-> Visible \ Protected(Visible, slots)]]
  /\ UNCHANGED <<rootVars, journals, pendingOf, applying>>

(***************************************************************************)
(* apply(): what must still hold, then one candidate after the other.      *)
(***************************************************************************)
Started(p, b) == journals[p] # NoPlan /\ b \in DOMAIN journals[p]
                 /\ journals[p][b].phase # "planned"

\* Variant with a bug: packages that came or went are noticed, changed ones are not.
SamePackages(p) ==
  /\ Visible \subseteq plans[p].packages
  /\ \A b \in plans[p].packages \ Visible : Started(p, b)
  /\ ~UnfinishedAudit

\* _verify_root_and_packages and _verify_apply_auxiliary_state.
StillAsPlanned(p) ==
  /\ Visible \subseteq plans[p].packages
  /\ \A b \in plans[p].packages \ Visible : Started(p, b)
  /\ \A b \in Visible : Identity(b) = plans[p].identity[b]
  /\ verified \cup Held \cup {b \in Backups : pins[b] # NoPin} \subseteq plans[p].packages
  /\ ~UnfinishedAudit /\ ".pins" \notin leftover
  /\ \A b \in Backups : place[b] = "pending" =>
       pendingOf[b] = p /\ Started(p, b) /\ journals[p][b].phase # "deleted"

ApplyBegins(p) ==
  /\ holder = "nobody" /\ plans[p] # NoPlan /\ StillAsPlanned(p)
  /\ holder' = "apply"
  /\ journals' = IF journals[p] # NoPlan THEN journals
                 ELSE [journals EXCEPT ![p] = [b \in plans[p].candidates |-> Untouched]]
  /\ applying' = [plan |-> p, next |-> "choose"]
  /\ UNCHANGED <<createVars, verified, pinVars, failures, plans, pendingOf>>

Unfinished(p) == {b \in DOMAIN journals[p] : journals[p][b].phase # "deleted"}

ApplyTakes(p) ==
  LET b == Min(Unfinished(p))
      progress == journals[p][b]
  IN applying' = [plan |-> p, id |-> b, progress |-> progress,
       next |-> CASE progress.phase = "planned" -> "intend"
                  [] progress.phase = "rename_started" -> "rename"
                  [] OTHER -> "delete"]

\* The loop over the candidates, oldest first; a deleted one is passed over.
ApplyChooses ==
  /\ holder = "apply" /\ applying.next = "choose"
  /\ IF Unfinished(applying.plan) # {}
     THEN ApplyTakes(applying.plan) /\ UNCHANGED holder
     ELSE holder' = "nobody" /\ applying' = NotApplying
  /\ UNCHANGED <<createVars, verified, pinVars, failures, plans, journals, pendingOf>>

\* What is next for the files and the directory of a pending package.
NextRemoval(progress) ==
  IF progress.index < 3 THEN IF progress.file = "ready" THEN "verify" ELSE "unlink"
  ELSE IF progress.dir = "ready" THEN "seal" ELSE "rmdir"

\* Variant with a bug: the intent is recorded with the result of the unlink.
RecordAfterwards(progress, next) ==
  CASE next = "intend"   -> [now |-> [progress EXCEPT !.phase = "rename_started"], then |-> "rename"]
    [] next = "renamed"  -> [now |-> [progress EXCEPT !.phase = "pending"], then |-> "delete"]
    [] next = "delete"   -> [now |-> [progress EXCEPT !.phase = "delete_started"], then |-> "open"]
    [] next = "verify"   -> [now |-> progress, then |-> "unlink"]
    [] next = "unlinked" -> LET later == [progress EXCEPT !.index = @ + 1, !.file = "ready"]
                            IN [now |-> later, then |-> NextRemoval(later)]
    [] next = "seal"     -> [now |-> [progress EXCEPT !.dir = "rmdir_started"], then |-> "rmdir"]
    [] next = "removed"  -> [now |-> [progress EXCEPT !.phase = "deleted", !.dir = "completed"],
                             then |-> "choose"]

\* The progress a _persist_progress writes, and what follows it.
Record(progress, next) ==
  CASE next = "intend"   -> [now |-> [progress EXCEPT !.phase = "rename_started"], then |-> "rename"]
    [] next = "renamed"  -> [now |-> [progress EXCEPT !.phase = "pending"], then |-> "delete"]
    [] next = "delete"   -> [now |-> [progress EXCEPT !.phase = "delete_started"], then |-> "open"]
    [] next = "verify"   -> [now |-> [progress EXCEPT !.file = "unlink_started"], then |-> "unlink"]
    [] next = "unlinked" -> LET later == [progress EXCEPT !.index = @ + 1, !.file = "ready"]
                            IN [now |-> later, then |-> NextRemoval(later)]
    [] next = "seal"     -> [now |-> [progress EXCEPT !.dir = "rmdir_started"], then |-> "rmdir"]
    [] next = "removed"  -> [now |-> [progress EXCEPT !.phase = "deleted", !.dir = "completed"],
                             then |-> "choose"]

Persisting == {"intend", "renamed", "delete", "verify", "unlinked", "seal", "removed"}

\* What a step that changes or reads the directory needs to find there.
Possible ==
  LET b == applying.id  progress == applying.progress IN
  CASE applying.next = "rename" -> place[b] \in {"final", "pending"}
    [] applying.next = "open"   -> place[b] = "pending"
    [] applying.next = "verify" -> files[b] = FilesFrom(progress.index)
    [] applying.next = "rmdir"  -> files[b] = {}
    [] OTHER -> TRUE

ApplyPersists ==
  /\ holder = "apply" /\ applying.next \in Persisting /\ Possible
  /\ LET record == Record(applying.progress, applying.next) IN
     /\ journals' = [journals EXCEPT ![applying.plan][applying.id] = record.now]
     /\ applying' = [applying EXCEPT !.progress = record.now, !.next = record.then]
  /\ UNCHANGED <<holder, createVars, verified, pinVars, failures, plans, pendingOf>>

\* The rename into .retention-pending, unless an earlier run has done it.
ApplyRenames ==
  /\ holder = "apply" /\ applying.next = "rename" /\ Possible
  /\ place' = [place EXCEPT ![applying.id] = "pending"]
  /\ pendingOf' = [pendingOf EXCEPT ![applying.id] = applying.plan]
  /\ applying' = [applying EXCEPT !.next = "renamed"]
  /\ UNCHANGED <<holder, files, creating, reported, verified, pinVars, failures, plans, journals>>

ApplyOpens ==
  /\ holder = "apply" /\ applying.next = "open" /\ Possible
  /\ applying' = [applying EXCEPT !.next = NextRemoval(applying.progress)]
  /\ UNCHANGED <<holder, createVars, verified, pinVars, failures, plans, journals, pendingOf>>

\* The unlink of the file at the index; a missing one was unlinked by an earlier run.
ApplyUnlinks ==
  /\ holder = "apply" /\ applying.next = "unlink"
  /\ files' = [files EXCEPT ![applying.id] = @ \ {FileOrder[applying.progress.index + 1]}]
  /\ applying' = [applying EXCEPT !.next = "unlinked"]
  /\ UNCHANGED <<holder, place, creating, reported, verified, pinVars, failures, plans, journals, pendingOf>>

ApplyRemoves ==
  /\ holder = "apply" /\ applying.next = "rmdir" /\ Possible
  /\ place' = [place EXCEPT ![applying.id] = "gone"]
  /\ applying' = [applying EXCEPT !.next = "removed"]
  /\ UNCHANGED <<holder, files, creating, reported, verified, pinVars, failures, plans, journals, pendingOf>>

\* The handler of an exception: cleanup_required, written over what the step had in
\* memory, if that can be written; then the exception goes on.
GivesUp(progress) ==
  /\ holder' = "nobody" /\ applying' = NotApplying
  /\ \/ UNCHANGED journals
     \/ journals' = [journals EXCEPT ![applying.plan][applying.id] =
                       [progress EXCEPT !.phase = "cleanup_required"]]
  /\ UNCHANGED <<createVars, verified, pinVars, plans, pendingOf>>

\* A call fails, after the progress in memory has moved on if it was a persist.
ApplyFails ==
  /\ holder = "apply" /\ applying.next # "choose" /\ MayFail
  /\ failures' = failures + 1
  /\ \/ GivesUp(applying.progress)
     \/ applying.next \in Persisting /\ GivesUp(Record(applying.progress, applying.next).now)

\* The directory is not as it has to be.
ApplyRefuses ==
  /\ holder = "apply" /\ applying.next # "choose" /\ ~Possible
  /\ GivesUp(applying.progress) /\ UNCHANGED failures

ApplyCrashes ==
  /\ holder = "apply" /\ MayFail
  /\ holder' = "nobody" /\ applying' = NotApplying /\ failures' = failures + 1
  /\ UNCHANGED <<createVars, verified, pinVars, plans, journals, pendingOf>>

ApplySteps == ApplyChooses \/ ApplyPersists \/ ApplyRenames \/ ApplyOpens \/ ApplyUnlinks
              \/ ApplyRemoves \/ ApplyRefuses

Next ==
  \/ (Create \/ Pin \/ Verification) /\ UNCHANGED retentionVars
  \/ \E p \in Plans, slots \in SlotChoices : PlanMade(p, slots)
  \/ \E p \in Plans : ApplyBegins(p)
  \/ ApplySteps \/ ApplyFails \/ ApplyCrashes

Spec == Init /\ [][Next]_vars

\* What is begun goes on, and somebody applies the plan again until it is done.
FairSpec == /\ Spec /\ WF_vars(ApplySteps)
            /\ \A p \in Plans : WF_vars(journals[p] # NoPlan /\ Unfinished(p) # {} /\ ApplyBegins(p))

(***************************************************************************)
(* Properties                                                              *)
(***************************************************************************)
\* A name in the backup root always stands for a whole package: create() renames it
\* there complete and apply() takes it away by a rename before it unlinks a file.
VisibleIsComplete == \A b \in Visible : files[b] = PackageFiles

\* A package leaves the root only while it is no one's only copy: others newer than it
\* are there, as many as the policy keeps, a newer one has been restore-verified, and
\* neither a pin nor a hold protects it, whatever happened since the plan was made.
DeletesOnlySurplus ==
  [][\A b \in Visible \ Visible' :
       /\ Cardinality(Newer(b, Visible)) >= Minimum
       /\ b \in verified => Newer(b, Visible \cap verified) # {}
       /\ pins[b] = NoPin /\ b \notin Held]_vars

\* What has been removed of a package never runs ahead of the journal: a package that
\* left the root has a journal that began with it, its unlinked files are those before
\* the journal's index or the one whose unlink was announced, and its directory is
\* removed only once that was announced. A run that takes it up can tell where it is.
ProgressCoversDeletion ==
  \A b \in Backups : place[b] \in {"pending", "gone"} =>
    LET progress == journals[pendingOf[b]][b]
        announced == progress.index + IF progress.file = "unlink_started" THEN 1 ELSE 0
    IN /\ progress.phase # "planned"
       /\ FilesFrom(announced) \subseteq files[b] /\ files[b] \subseteq FilesFrom(progress.index)
       /\ place[b] = "gone" => progress.dir # "ready"

\* No pin without a journal that says so: the request that made a sidecar has at least
\* announced its mutation, and was not closed as rejected.
PinsAreAudited ==
  \A b \in Backups : pins[b] # NoPin =>
    LET a == audits[pins[b][1]] IN
    /\ a.phase \in {"mutation_started", "mutation_committed", "completed"}
    /\ a.id = b /\ a.pin = pins[b] /\ a.intended = "created"

\* What create() reports is where the package is: a failed attempt that claims to have
\* left nothing behind leaves nothing in .tmp, one that names the package published it.
ReportIsTrue ==
  \A b \in Backups : /\ reported[b] = "not_created" => place[b] # "tmp"
                     /\ reported[b] = "temp_only" => place[b] = "tmp"
                     /\ reported[b] \in {"final_committed", "commit_uncertain"} =>
                          place[b] \notin {"none", "tmp"}

\* "rmdir_started 且目录已缺失时 ... 推进 completed": once the removal of a directory was
\* announced, applying the plan again brings the candidate to deleted, unless the root
\* has changed under the plan.
RemovalAnnounced(p, b) ==
  Started(p, b) /\ journals[p][b].dir = "rmdir_started" /\ StillAsPlanned(p)
ResumeConverges ==
  \A p \in Plans, b \in Backups :
    RemovalAnnounced(p, b) ~> Started(p, b) /\ (journals[p][b].phase = "deleted" \/ ~StillAsPlanned(p))

\* "sidecar == before -> ... 可按原 operation 重试; sidecar == intended result -> ...
\* 推进 mutation_committed": reconcile() accepts a journal whose sidecar is in one of
\* the two states.
\* The code does not meet it: the README has the circumstances.
InterruptedIsReconcilable ==
  \A o \in PinOps :
    LET a == audits[o] IN
    holder = "nobody" /\ a.phase = "mutation_started" /\ pins[a.id] \in {a.before, a.result} =>
      ReconcileFrom(a) # "none"
==========================================================================
