------------------------ MODULE BackupRetention_proofs ------------------------
(***************************************************************************)
(* What the services of the backup root guarantee for any number of        *)
(* backups, plans, pin requests, failures and crashes: a package in the    *)
(* root is whole, and one that leaves it is surplus. The first follows     *)
(* from the order of create() and apply(), the second from what apply()    *)
(* verifies of a plan and from the order in which it takes the candidates. *)
(***************************************************************************)
EXTENDS BackupRetention, FiniteSetTheorems, WellFoundedInduction, TLAPS

Progress == [phase: {"planned", "rename_started", "pending", "delete_started",
                     "cleanup_required", "deleted"},
             index: Nat, file: {"ready", "unlink_started"},
             dir: {"ready", "rmdir_started", "completed"}]

Removing == {"verify", "unlink", "unlinked", "seal", "rmdir"}
AtWork   == {"intend", "rename", "renamed", "delete", "open", "removed"} \cup Removing

Typed ==
  /\ holder \in {"nobody", "create", "pin", "apply"}
  /\ place \in [Backups -> Places] /\ files \in [Backups -> SUBSET PackageFiles]
  /\ plans = [p \in Plans |-> plans[p]] /\ journals = [p \in Plans |-> journals[p]]

\* What create() has written when it comes to a stage.
Written(next) == CASE next = "dump" -> {}
                   [] next = "watchlist" -> {"database.dump"}
                   [] next = "manifest" -> {"database.dump", "watchlist.json"}
                   [] next = "publish" -> PackageFiles

Stages    == {"dump", "watchlist", "manifest", "publish", "final_committed", "commit_uncertain"}
InStages  == creating.next \in {"dump", "watchlist", "manifest", "publish"}
Published == creating.next \in {"final_committed", "commit_uncertain"}

\* Until its rename a package grows in .tmp.
Staging ==
  /\ \A b \in Backups : place[b] = "none" => files[b] = {}
  /\ holder = "create" =>
       /\ creating \in [id: Backups, next: Stages]
       /\ \/ InStages /\ place[creating.id] = "tmp" /\ files[creating.id] = Written(creating.next)
          \/ Published /\ place[creating.id] = "final"

\* What a plan says of its candidates is what plan() saw.
SurplusIn(plan, b) ==
  /\ Cardinality(Newer(b, plan.packages)) >= Minimum
  /\ plan.identity[b].pin = NoPin /\ b \notin Held
  /\ plan.identity[b].verification => \E c \in plan.packages : c > b /\ plan.identity[c].verification

PlansSound == \A p \in Plans : plans[p] # NoPlan =>
  /\ plans[p].packages \subseteq Backups /\ plans[p].candidates \subseteq plans[p].packages
  /\ \A b \in plans[p].candidates : SurplusIn(plans[p], b)

\* The candidates are taken oldest first, and the next one when the last is deleted.
InOrder(p) == \A c, d \in plans[p].candidates :
  c < d /\ journals[p][d].phase # "planned" => journals[p][c].phase = "deleted"

JournalsSound == \A p \in Plans : journals[p] # NoPlan =>
  plans[p] # NoPlan /\ journals[p] \in [plans[p].candidates -> Progress] /\ InOrder(p)

\* Under the lock the root stays what the plan saw, but for what apply() takes away.
AsPlanned(p) ==
  /\ Visible \subseteq plans[p].packages
  /\ \A b \in plans[p].packages \ Visible :
       b \in plans[p].candidates /\ journals[p][b].phase # "planned"
  /\ \A b \in Visible : Identity(b) = plans[p].identity[b]

\* The candidate apply() is at: all older ones are deleted, and what it has in memory is
\* what the journal says.
Working(p) ==
  /\ applying \in [plan: Plans, id: Backups, progress: Progress, next: AtWork]
  /\ applying.id \in plans[p].candidates
  /\ applying.progress = journals[p][applying.id] /\ applying.progress.phase # "deleted"
  /\ applying.next # "intend" => applying.progress.phase # "planned"
  /\ \A c \in plans[p].candidates : c < applying.id => journals[p][c].phase = "deleted"
  /\ applying.next \in Removing => place[applying.id] = "pending"

Applying(p) == /\ p \in Plans /\ plans[p] # NoPlan
               /\ journals[p] \in [plans[p].candidates -> Progress] /\ InOrder(p)
               /\ AsPlanned(p)
               /\ applying.next = "choose" \/ Working(p)

ApplyingSound == holder = "apply" => Applying(applying.plan)

IInv == Typed /\ Staging /\ VisibleIsComplete /\ PlansSound /\ JournalsSound /\ ApplyingSound

(***************************************************************************)
(* Facts about the operators.                                              *)
(***************************************************************************)
LEMMA LeastExists ==
  ASSUME NEW S \in SUBSET Nat, S # {}
  PROVE  Min(S) \in S /\ \A c \in S : Min(S) <= c
<1>1. IsWellFoundedOn(OpToRel(<, Nat), Nat)
  BY NatLessThanWellFounded
<1>2. \A x, y \in Nat : y < x => <<y, x>> \in OpToRel(<, Nat)
  BY Zenon DEF OpToRel
<1>3. PICK x \in S : \A y \in S : ~(<<y, x>> \in OpToRel(<, Nat))
  BY <1>1, WFMin, Zenon
<1>4. \A y \in S : ~(y < x)
  BY <1>2, <1>3, Zenon
<1>5. \A y \in S : x <= y
  BY <1>4
<1>6. QED
  BY <1>5 DEF Min
LEMMA NextRemovalOf ==
  ASSUME NEW progress \in Progress
  PROVE  NextRemoval(progress) \in {"verify", "unlink", "seal", "rmdir"}
BY DEF NextRemoval

\* A write of the journal keeps its shape, and what follows it is known.
LEMMA RecordOf ==
  ASSUME NEW progress \in Progress, NEW next \in Persisting,
         next # "intend" => progress.phase # "planned", progress.phase # "deleted"
  PROVE  LET record == Record(progress, next) IN
         /\ record.now \in Progress /\ record.now.phase # "planned"
         /\ next # "removed" => /\ record.now.phase # "deleted"
                                /\ record.then \in AtWork \ {"intend"}
         /\ next = "removed" => record.then = "choose"
         /\ record.then \in Removing => next \in Removing
<1>1. CASE next = "intend"
  BY <1>1 DEF Record, Progress, AtWork, Removing
<1>2. CASE next = "renamed"
  BY <1>2 DEF Record, Progress, AtWork, Removing
<1>3. CASE next = "delete"
  BY <1>3 DEF Record, Progress, AtWork, Removing
<1>4. CASE next = "verify"
  BY <1>4 DEF Record, Progress, AtWork, Removing
<1>5. CASE next = "unlinked"
  <2> DEFINE later == [progress EXCEPT !.index = @ + 1, !.file = "ready"]
  <2>1. later \in Progress /\ later.phase = progress.phase
    <3>1. progress.index + 1 \in Nat
      BY DEF Progress
    <3>2. later = [[progress EXCEPT !.index = progress.index + 1] EXCEPT !.file = "ready"]
      BY DEF Progress
    <3>3. [progress EXCEPT !.index = progress.index + 1] \in Progress
      BY <3>1 DEF Progress
    <3>4. QED
      BY <3>2, <3>3 DEF Progress
  <2>2. Record(progress, next) = [now |-> later, then |-> NextRemoval(later)]
    BY <1>5 DEF Record
  <2>3. NextRemoval(later) \in {"verify", "unlink", "seal", "rmdir"}
    BY <2>1, NextRemovalOf
  <2> HIDE DEF later
  <2>4. QED
    BY <1>5, <2>1, <2>2, <2>3 DEF AtWork, Removing
<1>6. CASE next = "seal"
  BY <1>6 DEF Record, Progress, AtWork, Removing
<1>7. CASE next = "removed"
  BY <1>7 DEF Record, Progress, AtWork, Removing
<1>8. QED
  BY <1>1, <1>2, <1>3, <1>4, <1>5, <1>6, <1>7 DEF Persisting

\* A write for the candidate at work keeps the journal's type and order.
LEMMA JournalWritten ==
  ASSUME IInv, NEW p \in Plans, Applying(p), Working(p), UNCHANGED plans,
         NEW now \in Progress, now.phase # "planned",
         journals' = [journals EXCEPT ![p][applying.id] = now]
  PROVE  /\ journals'[p] = [journals[p] EXCEPT ![applying.id] = now]
         /\ journals'[p] \in [plans[p].candidates -> Progress]
         /\ journals' = [q \in Plans |-> journals'[q]]
         /\ InOrder(p)' /\ JournalsSound'
<1>2. journals[p] \in [plans[p].candidates -> Progress] /\ applying.id \in plans[p].candidates
  BY DEF Applying, Working
<1>3. journals' = [q \in Plans |-> IF q = p THEN [journals[p] EXCEPT ![applying.id] = now] ELSE journals[q]]
  BY DEF IInv, Typed
<1>4. journals'[p] = [journals[p] EXCEPT ![applying.id] = now]
  BY <1>3
<1>5. journals'[p] \in [plans[p].candidates -> Progress]
  BY <1>2, <1>4
<1>6. InOrder(p)'
  <2> SUFFICES ASSUME NEW c \in plans[p].candidates, NEW d \in plans[p].candidates,
                      c < d, journals'[p][d].phase # "planned"
               PROVE  journals'[p][c].phase = "deleted"
    BY DEF InOrder
  <2>1. CASE d = applying.id
    <3>1. c # d
      BY BackupRootAssumption DEF IInv, PlansSound, Applying
    <3>2. QED
      BY <1>2, <1>4, <2>1, <3>1 DEF Working
  <2>2. CASE d # applying.id
    <3>1. journals[p][d].phase # "planned"
      BY <1>2, <1>4, <2>2
    <3>2. journals[p][c].phase = "deleted"
      BY <3>1 DEF Applying, InOrder
    <3>3. c # applying.id
      BY <3>2 DEF Working
    <3>4. QED
      BY <1>2, <1>4, <3>2, <3>3
  <2>3. QED
    BY <2>1, <2>2
<1>7. \A q \in Plans \ {p} : journals'[q] = journals[q]
  BY <1>3
<1>8. JournalsSound'
  <2> SUFFICES ASSUME NEW q \in Plans, journals'[q] # NoPlan
               PROVE  plans[q] # NoPlan /\ journals'[q] \in [plans[q].candidates -> Progress] /\ InOrder(q)'
    BY DEF JournalsSound
  <2>1. CASE q = p
    BY <1>5, <1>6, <2>1 DEF Applying
  <2>2. CASE q # p
    BY <1>7, <2>2 DEF IInv, JournalsSound, InOrder
  <2>3. QED
    BY <2>1, <2>2
<1>9. journals' = [q \in Plans |-> journals'[q]]
  BY <1>3
<1>10. QED
  BY <1>4, <1>5, <1>6, <1>8, <1>9

(***************************************************************************)
(* The services of BackupRoot: while one of them has the lock, apply() has *)
(* not, and no plan or journal changes.                                    *)
(***************************************************************************)
LEMMA InitHolds == Init => IInv
<1> SUFFICES ASSUME Init PROVE IInv
  OBVIOUS
<1>1. Typed
  BY DEF Init, RootInit, Typed, Places
<1>2. Staging /\ VisibleIsComplete
  BY DEF Init, RootInit, Staging, VisibleIsComplete, Visible
<1>3. PlansSound /\ JournalsSound /\ ApplyingSound
  BY DEF Init, RootInit, PlansSound, JournalsSound, ApplyingSound
<1>4. QED
  BY <1>1, <1>2, <1>3 DEF IInv

LEMMA CreateKept == IInv /\ Create /\ UNCHANGED retentionVars => IInv'
<1> SUFFICES ASSUME IInv, Create, UNCHANGED retentionVars PROVE IInv'
  OBVIOUS
<1> USE DEF retentionVars, pinVars
<1>1. holder' \in {"nobody", "create"} /\ holder \in {"nobody", "create"} /\ UNCHANGED pinVars
  BY DEF Create, CreateBegins, CreateStages, CreatePublishes, CreateReturns, CreateFails, CreateCrashes
<1>2. PlansSound' /\ JournalsSound'
  BY DEF IInv, PlansSound, JournalsSound, SurplusIn, Newer, InOrder
<1>3. ApplyingSound'
  BY <1>1 DEF ApplyingSound
<1> SUFFICES Typed' /\ Staging' /\ VisibleIsComplete'
  BY <1>2, <1>3 DEF IInv
<1> USE DEF IInv, Typed, Staging, VisibleIsComplete, Visible, InStages, Published, Places, Stages
<1>4. ASSUME NEW b \in Backups, CreateBegins(b) PROVE Typed' /\ Staging' /\ VisibleIsComplete'
  BY <1>4 DEF CreateBegins, Written
<1>5. CASE CreateStages
  <2>1. creating.id \in Backups /\ InStages /\ creating.next # "publish"
        /\ place[creating.id] = "tmp" /\ files[creating.id] = Written(creating.next)
    BY <1>5 DEF CreateStages, Staged
  <2> DEFINE next == Staged[creating.next].then
  <2>2. /\ files' = [files EXCEPT ![creating.id] = @ \cup {Staged[creating.next].file}]
        /\ creating' = [creating EXCEPT !.next = next] /\ UNCHANGED <<holder, place>>
    BY <1>5 DEF CreateStages
  <2>3. /\ next \in {"watchlist", "manifest", "publish"}
        /\ Staged[creating.next].file \in PackageFiles
        /\ Written(creating.next) \cup {Staged[creating.next].file} = Written(next)
    BY <2>1 DEF Staged, Written, PackageFiles
  <2> HIDE DEF next
  <2>4. /\ creating'.id = creating.id /\ creating'.next = next
        /\ creating' \in [id: Backups, next: Stages]
    <3>1. creating \in [id: Backups, next: Stages]
      BY <1>5 DEF CreateStages
    <3>2. QED
      BY <2>2, <2>3, <3>1
  <2>5. files' \in [Backups -> SUBSET PackageFiles] /\ files'[creating.id] = Written(next)
    BY <2>1, <2>2, <2>3
  <2>6. \A b \in Backups : b # creating.id => files'[b] = files[b]
    BY <2>2
  <2>7. QED
    BY <2>1, <2>2, <2>3, <2>4, <2>5, <2>6
<1>6. CASE CreatePublishes
  <2>1. creating.id \in Backups /\ files[creating.id] = PackageFiles
    BY <1>6 DEF CreatePublishes, Written
  <2>2. /\ place' = [place EXCEPT ![creating.id] = "final"] /\ UNCHANGED <<holder, files>>
        /\ \/ creating' = [creating EXCEPT !.next = "final_committed"]
           \/ creating' = [creating EXCEPT !.next = "commit_uncertain"]
    BY <1>6 DEF CreatePublishes
  <2>3. /\ creating'.id = creating.id /\ Published' /\ creating' \in [id: Backups, next: Stages]
    <3>1. creating \in [id: Backups, next: Stages]
      BY <1>6 DEF CreatePublishes
    <3>2. CASE creating' = [creating EXCEPT !.next = "final_committed"]
      BY <3>1, <3>2
    <3>3. CASE creating' = [creating EXCEPT !.next = "commit_uncertain"]
      BY <3>1, <3>3
    <3>4. QED
      BY <2>2, <3>2, <3>3
  <2>4. QED
    BY <2>1, <2>2, <2>3
<1>7. CASE CreateReturns \/ CreateCrashes
  <2>1. holder' = "nobody" /\ UNCHANGED <<place, files>>
    BY <1>7 DEF CreateReturns, CreateCrashes
  <2>2. QED
    BY <2>1
<1>8. CASE CreateFails
  <2>1. creating.id \in Backups /\ place[creating.id] = "tmp"
    <3>1. holder = "create" /\ creating.next \in {"dump", "watchlist", "manifest", "publish"}
      BY <1>8 DEF CreateFails, Staged
    <3>2. QED
      BY <3>1
  <2>2. holder' = "nobody"
        /\ \/ UNCHANGED <<place, files>>
           \/ /\ place' = [place EXCEPT ![creating.id] = "none"]
              /\ files' = [files EXCEPT ![creating.id] = {}]
    BY <1>8 DEF CreateFails
  <2>3. QED
    BY <2>1, <2>2
<1>9. QED
  BY <1>4, <1>5, <1>6, <1>7, <1>8 DEF Create

LEMMA PinKept == IInv /\ (Pin \/ Verification) /\ UNCHANGED retentionVars => IInv'
<1> SUFFICES ASSUME IInv, Pin \/ Verification, UNCHANGED retentionVars PROVE IInv'
  OBVIOUS
<1>1. holder' \in {"nobody", "pin"} /\ UNCHANGED createVars
  BY DEF Pin, Verification, VerificationPasses, PinBegins, PinStarts, PinMutates, PinCommits,
         PinCompletes, PinStops, ReconcileBegins, ReconcileRejects
<1>2. PlansSound' /\ JournalsSound'
  BY DEF IInv, PlansSound, JournalsSound, SurplusIn, Newer, InOrder, retentionVars
<1>3. QED
  BY <1>1, <1>2 DEF IInv, Typed, Staging, VisibleIsComplete, Visible, InStages, Published, Stages, createVars,
                    retentionVars, ApplyingSound

(***************************************************************************)
(* plan() and apply().                                                     *)
(***************************************************************************)
LEMMA PlanKept ==
  ASSUME IInv, NEW p \in Plans, NEW slots \in SlotChoices, PlanMade(p, slots)
  PROVE  IInv'
<1> DEFINE plan == [packages |-> Visible, identity |-> [b \in Visible |-> Identity(b)],
                    candidates |-> Visible \ Protected(Visible, slots)]
<1>1. plans' = [plans EXCEPT ![p] = plan] /\ plans[p] = NoPlan /\ holder = "nobody"
      /\ UNCHANGED <<rootVars, journals, pendingOf, applying>>
  BY DEF PlanMade
<1>2. \A b \in plan.candidates : SurplusIn(plan, b)
  <2> SUFFICES ASSUME NEW b \in Visible, b \notin Protected(Visible, slots) PROVE SurplusIn(plan, b)
    OBVIOUS
  <2>1. Cardinality(Newer(b, Visible)) >= Minimum
    <3>1. Cardinality(Newer(b, Visible)) \in Nat
      BY FS_Subset, FS_CardinalityType, BackupRootAssumption DEF Newer, Visible
    <3>2. ~(Cardinality(Newer(b, Visible)) < Minimum)
      BY DEF Protected
    <3>3. QED
      BY <3>1, <3>2, RetentionAssumption
  <2>2. pins[b] = NoPin /\ b \notin Held /\ (b \in verified => Newer(b, Visible \cap verified) # {})
    BY DEF Protected
  <2>3. b \in verified => \E c \in Visible : c > b /\ c \in verified
    BY <2>2 DEF Newer
  <2>4. QED
    BY <2>1, <2>2, <2>3 DEF SurplusIn, Identity
<1>3. plan.packages \subseteq Backups /\ plan.candidates \subseteq plan.packages
  BY DEF Visible
<1> HIDE DEF plan
<1>4. PlansSound'
  BY <1>1, <1>2, <1>3 DEF IInv, Typed, PlansSound, SurplusIn, Newer
<1>5. JournalsSound'
  <2>1. journals[p] = NoPlan
    BY <1>1 DEF IInv, JournalsSound
  <2>2. \A q \in Plans \ {p} : plans'[q] = plans[q]
    BY <1>1 DEF IInv, Typed
  <2>3. QED
    BY <1>1, <2>1, <2>2 DEF IInv, JournalsSound, InOrder
<1>6. Typed' /\ Staging' /\ VisibleIsComplete' /\ ApplyingSound'
  BY <1>1 DEF IInv, Typed, Staging, VisibleIsComplete, Visible, InStages, Published, ApplyingSound, rootVars
<1>7. QED
  BY <1>4, <1>5, <1>6 DEF IInv

LEMMA BeginsKept ==
  ASSUME IInv, NEW p \in Plans, ApplyBegins(p)
  PROVE  IInv'
<1>1. /\ holder' = "apply" /\ applying'.plan = p /\ applying'.next = "choose" /\ plans[p] # NoPlan
      /\ UNCHANGED <<createVars, verified, pinVars, plans>> /\ StillAsPlanned(p)
  BY DEF ApplyBegins
<1> DEFINE fresh == [b \in plans[p].candidates |-> Untouched]
<1>2. \/ journals[p] # NoPlan /\ UNCHANGED journals
      \/ journals[p] = NoPlan /\ journals' = [journals EXCEPT ![p] = fresh]
  BY DEF ApplyBegins
<1>3. fresh \in [plans[p].candidates -> Progress]
      /\ \A b \in plans[p].candidates : fresh[b].phase = "planned"
  BY DEF Untouched, Progress
<1> HIDE DEF fresh
<1>4. /\ journals'[p] \in [plans[p].candidates -> Progress] /\ InOrder(p)'
      /\ \A b \in plans[p].packages \ Visible :
           b \in plans[p].candidates /\ journals'[p][b].phase # "planned"
  <2>1. CASE journals[p] # NoPlan
    BY <1>1, <1>2, <2>1 DEF IInv, JournalsSound, InOrder, StillAsPlanned, Started
  <2>2. CASE journals[p] = NoPlan
    <3>1. journals'[p] = fresh
      BY <1>2, <2>2 DEF IInv, Typed
    <3>2. plans[p].packages \ Visible = {}
      BY <1>1, <2>2 DEF StillAsPlanned, Started
    <3>3. QED
      BY <1>1, <1>3, <3>1, <3>2 DEF InOrder
  <2>3. QED
    BY <2>1, <2>2
<1>5. Visible' = Visible /\ \A b \in Backups : Identity(b)' = Identity(b)
  BY <1>1 DEF Visible, Identity, createVars, pinVars
<1>6. Applying(p)'
  BY <1>1, <1>4, <1>5 DEF Applying, AsPlanned, StillAsPlanned, Visible
<1>7. ApplyingSound'
  BY <1>1, <1>6 DEF ApplyingSound
<1>8. JournalsSound' /\ journals' = [q \in Plans |-> journals'[q]]
  BY <1>1, <1>2, <1>4 DEF IInv, Typed, JournalsSound, InOrder
<1>9. PlansSound'
  BY <1>1 DEF IInv, PlansSound, SurplusIn, Newer
<1>10. Typed' /\ Staging' /\ VisibleIsComplete'
  BY <1>1, <1>8 DEF IInv, Typed, Staging, VisibleIsComplete, Visible, createVars
<1>11. QED
  BY <1>7, <1>8, <1>9, <1>10 DEF IInv

\* What every step of a run under way may rely on.
LEMMA AtTheCandidate ==
  ASSUME IInv, holder = "apply"
  PROVE  /\ applying.plan \in Plans /\ Applying(applying.plan)
         /\ applying.next # "choose" => Working(applying.plan)
BY DEF IInv, ApplyingSound, Applying

\* A step that neither touches the root nor ends the run keeps all but the run's own place.
LEMMA RootUntouched ==
  ASSUME IInv, UNCHANGED <<place, files, plans>>, holder' \in {"apply", "nobody"}, holder = "apply",
         journals' = [q \in Plans |-> journals'[q]], JournalsSound'
  PROVE  Typed' /\ Staging' /\ VisibleIsComplete' /\ PlansSound' /\ JournalsSound'
<1>1. Typed'
  BY DEF IInv, Typed
<1>2. Staging' /\ VisibleIsComplete'
  BY DEF IInv, Staging, VisibleIsComplete, Visible
<1>3. PlansSound'
  BY DEF IInv, PlansSound, SurplusIn, Newer
<1>4. QED
  BY <1>1, <1>2, <1>3

LEMMA ChoosesKept == IInv /\ ApplyChooses => IInv'
<1> SUFFICES ASSUME IInv, ApplyChooses PROVE IInv'
  OBVIOUS
<1>1. PICK p \in Plans : p = applying.plan /\ Applying(p)
  BY AtTheCandidate DEF ApplyChooses
<1>2. UNCHANGED <<createVars, verified, pinVars, failures, plans, journals, pendingOf>> /\ holder = "apply"
  BY DEF ApplyChooses
<1>3. JournalsSound' /\ journals' = [q \in Plans |-> journals'[q]]
  BY <1>2 DEF IInv, Typed, JournalsSound, InOrder
<1>4. holder' \in {"apply", "nobody"}
  BY <1>2 DEF ApplyChooses
<1>5. Typed' /\ Staging' /\ VisibleIsComplete' /\ PlansSound' /\ JournalsSound'
  BY <1>2, <1>3, <1>4, RootUntouched DEF createVars
<1>6. CASE Unfinished(p) # {}
  <2> DEFINE b == Min(Unfinished(p))
  <2>1. b \in Unfinished(p) /\ \A c \in Unfinished(p) : b <= c
    <3>1. Unfinished(p) \subseteq plans[p].candidates /\ plans[p].candidates \subseteq Nat
      BY <1>1, BackupRootAssumption DEF Unfinished, Applying, IInv, PlansSound
    <3>2. QED
      BY <1>6, <3>1, LeastExists
  <2> HIDE DEF b
  <2>2. /\ b \in plans[p].candidates /\ b \in Backups /\ journals[p][b] \in Progress
        /\ journals[p][b].phase # "deleted"
        /\ \A c \in plans[p].candidates : c < b => journals[p][c].phase = "deleted"
    <3>1. journals[p] \in [plans[p].candidates -> Progress] /\ plans[p].candidates \subseteq Backups
      BY <1>1 DEF Applying, IInv, PlansSound
    <3>2. Unfinished(p) = {c \in plans[p].candidates : journals[p][c].phase # "deleted"}
      BY <3>1 DEF Unfinished
    <3>3. b \in plans[p].candidates /\ journals[p][b].phase # "deleted"
      BY <2>1, <3>2
    <3>4. ASSUME NEW c \in plans[p].candidates, c < b PROVE journals[p][c].phase = "deleted"
      <4>1. Backups \subseteq Nat
        BY BackupRootAssumption
      <4>2. c \in Nat /\ b \in Nat
        BY <3>1, <3>3, <4>1
      <4>3. ~(b <= c)
        BY <3>4, <4>2
      <4>4. QED
        BY <2>1, <3>2, <4>3
    <3>5. QED
      BY <3>1, <3>3, <3>4
  <2>3. applying' = [plan |-> p, id |-> b, progress |-> journals[p][b],
                     next |-> CASE journals[p][b].phase = "planned" -> "intend"
                                [] journals[p][b].phase = "rename_started" -> "rename"
                                [] OTHER -> "delete"]
        /\ holder' = "apply"
    BY <1>1, <1>2, <1>6 DEF ApplyChooses, ApplyTakes, b
  <2>4. /\ applying'.plan = p /\ applying'.id = b /\ applying'.progress = journals[p][b]
        /\ applying'.next \in {"intend", "rename", "delete"}
        /\ applying'.next # "intend" => journals[p][b].phase # "planned"
        /\ applying' \in [plan: Plans, id: Backups, progress: Progress, next: AtWork]
    BY <2>2, <2>3 DEF AtWork
  <2>5. Working(p)'
    BY <1>2, <2>2, <2>4 DEF Working, Removing
  <2>6. AsPlanned(p)' /\ InOrder(p)'
    BY <1>1, <1>2 DEF Applying, AsPlanned, InOrder, Visible, Identity, createVars, pinVars
  <2>7. ApplyingSound'
    BY <1>1, <1>2, <2>4, <2>5, <2>6 DEF ApplyingSound, Applying
  <2>8. QED
    BY <1>5, <2>7 DEF IInv
<1>7. CASE Unfinished(p) = {}
  BY <1>1, <1>5, <1>7 DEF ApplyChooses, ApplyingSound, IInv
<1>8. QED
  BY <1>6, <1>7

LEMMA PersistsKept == IInv /\ ApplyPersists => IInv'
<1> SUFFICES ASSUME IInv, ApplyPersists PROVE IInv'
  OBVIOUS
<1>1. PICK p \in Plans : p = applying.plan /\ Applying(p) /\ Working(p)
  BY AtTheCandidate DEF ApplyPersists, Persisting
<1> DEFINE record == Record(applying.progress, applying.next)
<1>2. /\ holder = "apply" /\ applying.next \in Persisting
      /\ journals' = [journals EXCEPT ![p][applying.id] = record.now]
      /\ applying' = [applying EXCEPT !.progress = record.now, !.next = record.then]
      /\ UNCHANGED <<holder, createVars, verified, pinVars, failures, plans, pendingOf>>
  BY <1>1 DEF ApplyPersists
<1>3. /\ applying \in [plan: Plans, id: Backups, progress: Progress, next: AtWork]
      /\ applying.id \in plans[p].candidates /\ journals[p] \in [plans[p].candidates -> Progress]
  BY <1>1 DEF Working, Applying
<1>4. /\ record.now \in Progress /\ record.now.phase # "planned"
      /\ applying.next # "removed" => /\ record.now.phase # "deleted"
                                      /\ record.then \in AtWork \ {"intend"}
      /\ applying.next = "removed" => record.then = "choose"
      /\ record.then \in Removing => applying.next \in Removing
  BY <1>1, <1>2, <1>3, RecordOf DEF Working
<1> HIDE DEF record
<1>5. /\ journals'[p] = [journals[p] EXCEPT ![applying.id] = record.now]
      /\ journals'[p] \in [plans[p].candidates -> Progress]
      /\ journals' = [q \in Plans |-> journals'[q]]
      /\ InOrder(p)' /\ JournalsSound'
  BY <1>1, <1>2, <1>4, JournalWritten
<1>6. Typed' /\ Staging' /\ VisibleIsComplete' /\ PlansSound' /\ JournalsSound'
  BY <1>2, <1>5, RootUntouched DEF createVars
<1>7. AsPlanned(p)'
  <2>1. \A b \in plans[p].candidates : journals[p][b].phase # "planned" => journals'[p][b].phase # "planned"
    BY <1>3, <1>4, <1>5
  <2>2. QED
    BY <1>1, <1>2, <2>1 DEF Applying, AsPlanned, Visible, Identity, createVars, pinVars
<1>8. applying'.plan = p /\ applying'.id = applying.id /\ applying'.progress = record.now
      /\ applying'.next = record.then
  BY <1>1, <1>2, <1>3
<1>9. CASE applying.next = "removed"
  BY <1>1, <1>2, <1>4, <1>5, <1>6, <1>7, <1>8, <1>9 DEF IInv, ApplyingSound, Applying
<1>10. CASE applying.next # "removed"
  <2>1. applying' \in [plan: Plans, id: Backups, progress: Progress, next: AtWork]
    <3>1. record.then \in AtWork
      BY <1>4, <1>10
    <3>2. [applying EXCEPT !.progress = record.now] \in [plan: Plans, id: Backups, progress: Progress, next: AtWork]
      BY <1>3, <1>4
    <3>3. QED
      BY <1>2, <3>1, <3>2
  <2>2. \A c \in plans[p].candidates : c < applying.id => journals'[p][c].phase = "deleted"
    <3>1. applying.id \in Nat
      BY <1>3, BackupRootAssumption
    <3>2. QED
      BY <1>1, <1>3, <1>5, <3>1 DEF Working
  <2>3. journals'[p][applying.id] = record.now
    BY <1>3, <1>5
  <2>4. Working(p)'
    BY <1>1, <1>2, <1>3, <1>4, <1>8, <1>10, <2>1, <2>2, <2>3 DEF Working, createVars
  <2>5. QED
    BY <1>1, <1>2, <1>5, <1>6, <1>7, <1>8, <2>4 DEF IInv, ApplyingSound, Applying
<1>11. QED
  BY <1>9, <1>10

\* What the steps that change the directory of a candidate have in common.
LEMMA MovesOn ==
  ASSUME IInv, holder = "apply", NEW p \in Plans, p = applying.plan, Applying(p), Working(p),
         NEW next \in AtWork \ {"intend"},
         applying' = [applying EXCEPT !.next = next], applying.next # "intend",
         UNCHANGED <<holder, plans, journals, verified, pins>>,
         Visible' = Visible \/ Visible' = Visible \ {applying.id},
         next \in Removing => place'[applying.id] = "pending"
  PROVE  ApplyingSound'
<1>1. /\ applying \in [plan: Plans, id: Backups, progress: Progress, next: AtWork]
      /\ applying.id \in plans[p].candidates
  BY DEF Working
<1>2. /\ applying' \in [plan: Plans, id: Backups, progress: Progress, next: AtWork]
      /\ applying'.plan = p /\ applying'.id = applying.id
      /\ applying'.progress = applying.progress /\ applying'.next = next
  BY <1>1
<1>3. Working(p)'
  BY <1>1, <1>2 DEF Working
<1>4. AsPlanned(p)'
  <2>1. journals[p][applying.id].phase # "planned"
    BY DEF Working
  <2>2. Visible' \subseteq Visible /\ \A b \in Visible \ Visible' : b = applying.id
    OBVIOUS
  <2>3. QED
    BY <1>1, <2>1, <2>2 DEF Applying, AsPlanned, Identity
<1>5. QED
  BY <1>2, <1>3, <1>4 DEF ApplyingSound, Applying, InOrder

\* A removal works on a directory that was renamed away.
LEMMA RemovalIsAway ==
  ASSUME IInv, holder = "apply", applying.next \in Removing
  PROVE  applying.id \in Backups /\ place[applying.id] = "pending"
BY AtTheCandidate DEF Working, Removing

LEMMA DirectoryKept == IInv /\ (ApplyRenames \/ ApplyOpens \/ ApplyUnlinks \/ ApplyRemoves) => IInv'
<1> SUFFICES ASSUME IInv, ApplyRenames \/ ApplyOpens \/ ApplyUnlinks \/ ApplyRemoves PROVE IInv'
  OBVIOUS
<1>1. /\ holder = "apply" /\ applying.next \in {"rename", "open", "unlink", "rmdir"}
      /\ UNCHANGED <<holder, plans, journals, verified, pins>>
  BY DEF ApplyRenames, ApplyOpens, ApplyUnlinks, ApplyRemoves, pinVars
<1>2. PICK p \in Plans : p = applying.plan /\ Applying(p) /\ Working(p)
  BY <1>1, AtTheCandidate
<1>3. applying \in [plan: Plans, id: Backups, progress: Progress, next: AtWork]
  BY <1>2 DEF Working
<1>4. PlansSound' /\ JournalsSound'
  BY <1>1 DEF IInv, PlansSound, SurplusIn, Newer, JournalsSound, InOrder
<1>5. CASE ApplyRenames
  <2>1. /\ place' = [place EXCEPT ![applying.id] = "pending"] /\ UNCHANGED files
        /\ applying' = [applying EXCEPT !.next = "renamed"] /\ applying.next = "rename"
        /\ place[applying.id] \in {"final", "pending"}
    BY <1>5 DEF ApplyRenames, Possible
  <2>2. Visible' = Visible \ {applying.id}
    BY <1>3, <2>1 DEF Visible, IInv, Typed
  <2>3. ApplyingSound'
    BY <1>1, <1>2, <2>1, <2>2, MovesOn DEF AtWork, Removing
  <2>4. Typed' /\ Staging' /\ VisibleIsComplete'
    BY <1>1, <1>3, <2>1, <2>2 DEF IInv, Typed, Staging, VisibleIsComplete, Visible, Places
  <2>5. QED
    BY <1>4, <2>3, <2>4 DEF IInv
<1>6. CASE ApplyOpens
  <2>1. /\ UNCHANGED <<place, files>> /\ applying.next = "open" /\ place[applying.id] = "pending"
        /\ applying' = [applying EXCEPT !.next = NextRemoval(applying.progress)]
    BY <1>6 DEF ApplyOpens, Possible, createVars
  <2>2. NextRemoval(applying.progress) \in AtWork \ {"intend"}
    BY <1>3, NextRemovalOf DEF AtWork, Removing
  <2>3. Visible' = Visible
    BY <2>1 DEF Visible
  <2>4. ApplyingSound'
    BY <1>1, <1>2, <2>1, <2>2, <2>3, MovesOn
  <2>5. Typed' /\ Staging' /\ VisibleIsComplete'
    BY <1>1, <2>1, <2>3 DEF IInv, Typed, Staging, VisibleIsComplete
  <2>6. QED
    BY <1>4, <2>4, <2>5 DEF IInv
<1>7. CASE ApplyUnlinks
  <2>1. /\ files' = [files EXCEPT ![applying.id] = @ \ {FileOrder[applying.progress.index + 1]}]
        /\ UNCHANGED place /\ applying.next = "unlink"
        /\ applying' = [applying EXCEPT !.next = "unlinked"]
    BY <1>7 DEF ApplyUnlinks
  <2>2. place[applying.id] = "pending" /\ Visible' = Visible
    BY <1>1, <2>1, RemovalIsAway DEF Removing, Visible
  <2>3. ApplyingSound'
    BY <1>1, <1>2, <2>1, <2>2, MovesOn DEF AtWork, Removing
  <2>4. files' \in [Backups -> SUBSET PackageFiles]
        /\ \A b \in Backups : b # applying.id => files'[b] = files[b]
    BY <1>3, <2>1 DEF IInv, Typed
  <2>5. Typed' /\ Staging' /\ VisibleIsComplete'
    BY <1>1, <2>1, <2>2, <2>4 DEF IInv, Typed, Staging, VisibleIsComplete, Visible
  <2>6. QED
    BY <1>4, <2>3, <2>5 DEF IInv
<1>8. CASE ApplyRemoves
  <2>1. /\ place' = [place EXCEPT ![applying.id] = "gone"] /\ UNCHANGED files
        /\ applying' = [applying EXCEPT !.next = "removed"] /\ applying.next = "rmdir"
    BY <1>8 DEF ApplyRemoves
  <2>2. place[applying.id] = "pending"
    BY <1>1, <2>1, RemovalIsAway DEF Removing
  <2>3. Visible' = Visible
    BY <1>3, <2>1, <2>2 DEF Visible, IInv, Typed
  <2>4. ApplyingSound'
    BY <1>1, <1>2, <2>1, <2>3, MovesOn DEF AtWork, Removing
  <2>5. Typed' /\ Staging' /\ VisibleIsComplete'
    BY <1>1, <1>3, <2>1, <2>3 DEF IInv, Typed, Staging, VisibleIsComplete, Visible, Places
  <2>6. QED
    BY <1>4, <2>4, <2>5 DEF IInv
<1>9. QED
  BY <1>5, <1>6, <1>7, <1>8

\* The end of a run that failed or died: at most the journal says cleanup_required.
LEMMA EndKept ==
  ASSUME IInv, holder = "apply", holder' = "nobody", UNCHANGED <<createVars, plans>>,
         \/ UNCHANGED journals
         \/ /\ applying.next # "choose"
            /\ \E progress \in Progress :
                 journals' = [journals EXCEPT ![applying.plan][applying.id] =
                                [progress EXCEPT !.phase = "cleanup_required"]]
  PROVE  IInv'
<1>1. PICK p \in Plans : p = applying.plan /\ Applying(p) /\ (applying.next # "choose" => Working(p))
  BY AtTheCandidate
<1>2. JournalsSound' /\ journals' = [q \in Plans |-> journals'[q]]
  <2>1. CASE UNCHANGED journals
    BY <2>1 DEF IInv, Typed, JournalsSound, InOrder
  <2>2. CASE ~UNCHANGED journals
    <3>1. PICK progress \in Progress :
            journals' = [journals EXCEPT ![p][applying.id] = [progress EXCEPT !.phase = "cleanup_required"]]
      BY <1>1, <2>2
    <3>2. /\ [progress EXCEPT !.phase = "cleanup_required"] \in Progress
          /\ [progress EXCEPT !.phase = "cleanup_required"].phase # "planned"
      BY DEF Progress
    <3>3. Working(p)
      BY <1>1, <2>2
    <3>4. QED
      BY <1>1, <3>1, <3>2, <3>3, JournalWritten
  <2>3. QED
    BY <2>1, <2>2
<1>3. QED
  BY <1>2, RootUntouched DEF IInv, ApplyingSound, createVars

LEMMA EndsKept == IInv /\ (ApplyRefuses \/ ApplyFails \/ ApplyCrashes) => IInv'
<1> SUFFICES ASSUME IInv, ApplyRefuses \/ ApplyFails \/ ApplyCrashes PROVE IInv'
  OBVIOUS
<1>1. CASE ApplyCrashes
  BY <1>1, EndKept DEF ApplyCrashes
<1>2. CASE ApplyRefuses \/ ApplyFails
  <2>1. holder = "apply" /\ applying.next # "choose"
    BY <1>2 DEF ApplyRefuses, ApplyFails
  <2>2. Working(applying.plan)
    BY <2>1, AtTheCandidate
  <2>3. applying.progress \in Progress
        /\ (applying.next \in Persisting => Record(applying.progress, applying.next).now \in Progress)
    BY <2>2, RecordOf DEF Working
  <2>4. \E progress \in Progress : GivesUp(progress)
    BY <1>2, <2>3 DEF ApplyRefuses, ApplyFails
  <2>5. PICK progress \in Progress : GivesUp(progress)
    BY <2>4
  <2>6. /\ holder' = "nobody" /\ UNCHANGED <<createVars, plans>>
        /\ \/ UNCHANGED journals
           \/ journals' = [journals EXCEPT ![applying.plan][applying.id] =
                             [progress EXCEPT !.phase = "cleanup_required"]]
    BY <2>5 DEF GivesUp
  <2>7. CASE UNCHANGED journals
    BY <2>1, <2>6, <2>7, EndKept
  <2>8. CASE ~UNCHANGED journals
    <3>1. \E q \in Progress : journals' = [journals EXCEPT ![applying.plan][applying.id] =
                                            [q EXCEPT !.phase = "cleanup_required"]]
      BY <2>6, <2>8
    <3>2. QED
      BY <2>1, <2>6, <3>1, EndKept
  <2>9. QED
    BY <2>7, <2>8
<1>3. QED
  BY <1>1, <1>2

LEMMA Invariant == Spec => []IInv
<1>1. IInv /\ [Next]_vars => IInv'
  <2> SUFFICES ASSUME IInv, [Next]_vars PROVE IInv'
    OBVIOUS
  <2>1. CASE (Create \/ Pin \/ Verification) /\ UNCHANGED retentionVars
    BY <2>1, CreateKept, PinKept
  <2>2. CASE \E p \in Plans, slots \in SlotChoices : PlanMade(p, slots)
    BY <2>2, PlanKept
  <2>3. CASE \E p \in Plans : ApplyBegins(p)
    BY <2>3, BeginsKept
  <2>4. CASE ApplySteps \/ ApplyFails \/ ApplyCrashes
    BY <2>4, ChoosesKept, PersistsKept, DirectoryKept, EndsKept DEF ApplySteps
  <2>5. CASE UNCHANGED vars
    <3>1. UNCHANGED <<holder, place, files, creating, verified, pins, plans, journals, applying>>
      BY <2>5 DEF vars, rootVars, retentionVars
    <3>2. Typed' /\ Staging' /\ VisibleIsComplete'
      BY <3>1 DEF IInv, Typed, Staging, VisibleIsComplete, Visible, InStages, Published
    <3>3. PlansSound' /\ JournalsSound'
      BY <3>1 DEF IInv, PlansSound, SurplusIn, Newer, JournalsSound, InOrder
    <3>4. ApplyingSound'
      BY <3>1 DEF IInv, ApplyingSound, Applying, InOrder, AsPlanned, Visible, Identity, Working
    <3>5. QED
      BY <3>2, <3>3, <3>4 DEF IInv
  <2>6. QED
    BY <2>1, <2>2, <2>3, <2>4, <2>5 DEF Next
<1>2. QED
  BY InitHolds, <1>1, PTL DEF Spec

\* Whatever fails or dies, a package in the root is whole (create() of backup_service.py
\* and _apply_candidate of backup_retention.py).
THEOREM PackagesAreWhole == Spec => []VisibleIsComplete
BY Invariant, PTL DEF IInv

(***************************************************************************)
(* What leaves the root.                                                   *)
(***************************************************************************)
\* Only the rename of apply() takes a package away, and only its candidate.
LEMMA OnlyRenamesTakeAway ==
  ASSUME IInv, [Next]_vars, NEW b \in Visible, b \notin Visible'
  PROVE  ApplyRenames /\ b = applying.id
<1> USE DEF Visible, IInv, Typed
<1>1. CASE (Create \/ Pin \/ Verification) /\ UNCHANGED retentionVars
  <2>1. CASE Create
    <3>1. UNCHANGED place \/ \E c \in Backups : place[c] # "final" /\ \E q : place' = [place EXCEPT ![c] = q]
      <4>1. ASSUME NEW c \in Backups, CreateBegins(c) PROVE place[c] # "final"
                       /\ place' = [place EXCEPT ![c] = "tmp"]
        BY <4>1 DEF CreateBegins
      <4>2. CASE CreateStages \/ CreateReturns \/ CreateCrashes
        BY <4>2 DEF CreateStages, CreateReturns, CreateCrashes
      <4>3. CASE CreatePublishes
        BY <4>3 DEF CreatePublishes, Staging, InStages, Published
      <4>4. CASE CreateFails
        <5>1. holder = "create" /\ creating.next \in {"dump", "watchlist", "manifest", "publish"}
          BY <4>4 DEF CreateFails, Staged
        <5>2. creating.id \in Backups /\ place[creating.id] = "tmp"
          BY <5>1 DEF Staging, InStages, Published
        <5>3. QED
          BY <4>4, <5>2 DEF CreateFails
      <4>5. QED
        BY <2>1, <4>1, <4>2, <4>3, <4>4 DEF Create
    <3>2. QED
      BY <3>1
  <2>2. CASE Pin \/ Verification
    BY <2>2 DEF Pin, Verification, VerificationPasses, PinBegins, PinStarts, PinMutates, PinCommits,
       PinCompletes, PinStops, ReconcileBegins, ReconcileRejects, createVars
  <2>3. QED
    BY <1>1, <2>1, <2>2
<1>2. ASSUME NEW p \in Plans, NEW slots \in SlotChoices, PlanMade(p, slots) \/ ApplyBegins(p)
      PROVE  UNCHANGED place
  BY <1>2 DEF PlanMade, ApplyBegins, createVars, rootVars
<1>3. CASE ApplyChooses \/ ApplyPersists \/ ApplyOpens \/ ApplyUnlinks \/ ApplyCrashes
  BY <1>3 DEF ApplyChooses, ApplyPersists, ApplyOpens, ApplyUnlinks, ApplyCrashes, createVars
<1>4. CASE ApplyRefuses \/ ApplyFails
  BY <1>4 DEF ApplyRefuses, ApplyFails, GivesUp, createVars
<1>5. CASE ApplyRemoves
  <2>1. place[applying.id] = "pending" /\ place' = [place EXCEPT ![applying.id] = "gone"]
    BY <1>5, RemovalIsAway DEF ApplyRemoves, Removing
  <2>2. QED
    BY <2>1
<1>6. CASE ApplyRenames
  BY <1>6 DEF ApplyRenames
<1>7. CASE UNCHANGED vars
  BY <1>7 DEF vars, rootVars
<1>8. CASE \E p \in Plans : ApplyBegins(p)
  BY <1>8 DEF ApplyBegins, createVars
<1>9. QED
  BY <1>1, <1>2, <1>3, <1>4, <1>5, <1>6, <1>7, <1>8 DEF Next, ApplySteps

LEMMA LeavesAsSurplus ==
  ASSUME IInv, [Next]_vars, NEW b \in Visible \ Visible'
  PROVE  /\ Cardinality(Newer(b, Visible)) >= Minimum
         /\ b \in verified => Newer(b, Visible \cap verified) # {}
         /\ pins[b] = NoPin /\ b \notin Held
<1>1. ApplyRenames /\ b = applying.id
  BY OnlyRenamesTakeAway
<1>2. PICK p \in Plans : p = applying.plan /\ Applying(p) /\ Working(p)
  BY <1>1, AtTheCandidate DEF ApplyRenames
<1>3. b \in plans[p].candidates /\ SurplusIn(plans[p], b) /\ journals[p][b].phase # "deleted"
      /\ plans[p].candidates \subseteq plans[p].packages /\ plans[p].packages \subseteq Backups
  BY <1>1, <1>2 DEF Working, Applying, IInv, PlansSound
<1>4. \A c \in plans[p].packages : c > b => c \in Visible
  <2> SUFFICES ASSUME NEW c \in plans[p].packages, c > b, c \notin Visible PROVE FALSE
    OBVIOUS
  <2>1. c \in plans[p].candidates /\ journals[p][c].phase # "planned"
    BY <1>2 DEF Applying, AsPlanned
  <2>2. b < c
    <3>1. b \in Nat /\ c \in Nat
      BY <1>3, BackupRootAssumption
    <3>2. QED
      BY <3>1
  <2>3. journals[p][b].phase = "deleted"
    BY <1>2, <1>3, <2>1, <2>2 DEF Applying, InOrder
  <2>4. QED
    BY <1>3, <2>3
<1>5. Newer(b, Visible) = Newer(b, plans[p].packages)
  BY <1>2, <1>4 DEF Applying, AsPlanned, Newer
<1>6. Identity(b) = plans[p].identity[b] /\ \A c \in Visible : Identity(c) = plans[p].identity[c]
  BY <1>2 DEF Applying, AsPlanned
<1>7. \A c \in Backups : /\ Identity(c).pin = pins[c] /\ Identity(c).held = (c \in Held)
                         /\ Identity(c).verification = (c \in verified)
  BY DEF Identity
<1>8. b \in verified => Newer(b, Visible \cap verified) # {}
  <2> SUFFICES ASSUME b \in verified PROVE Newer(b, Visible \cap verified) # {}
    OBVIOUS
  <2>1. plans[p].identity[b].verification
    <3>1. Identity(b).verification
      BY <1>3, <1>7
    <3>2. QED
      BY <1>6, <3>1
  <2>2. PICK c \in plans[p].packages : c > b /\ plans[p].identity[c].verification
    BY <1>3, <2>1 DEF SurplusIn
  <2>3. c \in Visible /\ c \in Backups
    BY <1>3, <1>4, <2>2
  <2>4. Identity(c).verification
    BY <1>6, <2>2, <2>3
  <2>5. c \in verified
    BY <1>7, <2>3, <2>4
  <2>6. QED
    BY <2>2, <2>3, <2>5 DEF Newer
<1>9. pins[b] = NoPin /\ b \notin Held
  <2>1. plans[p].identity[b].pin = NoPin
    BY <1>3 DEF SurplusIn
  <2>2. Identity(b).pin = NoPin
    BY <1>6, <2>1
  <2>3. QED
    BY <1>3, <1>7, <2>2 DEF SurplusIn
<1>10. Cardinality(Newer(b, Visible)) >= Minimum
  BY <1>3, <1>5 DEF SurplusIn
<1>11. QED
  BY <1>8, <1>9, <1>10

\* For any policy, plan and interruption, apply() takes a package away only while newer
\* ones are there, a verified one among them, and nothing protects it (_select,
\* _verify_root_and_packages and the loop of apply in backup_retention.py).
THEOREM OnlySurplusLeaves == Spec => DeletesOnlySurplus
<1>1. IInv /\ [Next]_vars =>
        [\A b \in Visible \ Visible' :
           /\ Cardinality(Newer(b, Visible)) >= Minimum
           /\ b \in verified => Newer(b, Visible \cap verified) # {}
           /\ pins[b] = NoPin /\ b \notin Held]_vars
  BY LeavesAsSurplus
<1>2. QED
  BY Invariant, <1>1, PTL DEF Spec, DeletesOnlySurplus

-----------------------------------------------------------------------------
(***************************************************************************)
(* What the journals of the backup root are worth after any number of      *)
(* failures and crashes: a pin has an audit that says so, what create()    *)
(* reported is where the package is, and of a package that is being        *)
(* deleted never more is gone than its journal has announced.              *)
(***************************************************************************)
(***************************************************************************)
(* Pins.                                                                   *)
(***************************************************************************)
Audits == [phase: {"planned", "mutation_started", "mutation_committed", "completed"},
           kind: {"pin", "unpin"}, id: Backups, before: Pins, pin: PinOps \X Reasons,
           result: Pins, intended: {"created", "removed", "idempotent", "rejected"}]

\* A pin that a request has announced and not taken back.
Audited(all, x, b) ==
  /\ x \in PinOps \X Reasons
  /\ all[x[1]].phase \in {"mutation_started", "mutation_committed", "completed"}
  /\ all[x[1]].id = b /\ all[x[1]].pin = x /\ all[x[1]].intended = "created"

PinsTyped == pins \in [Backups -> Pins] /\ audits \in [PinOps -> Audits \cup {NoAudit}]

\* What a journal intends: to leave no pin, one that is audited, or its own. Only one that
\* was closed before its mutation says "rejected".
Intends(all, a) ==
  /\ \/ a.result = NoPin
     \/ Audited(all, a.result, a.id)
     \/ a.result = a.pin /\ a.intended = "created"
     \/ a.intended = "rejected"
  /\ a.intended = "rejected" => a.phase \in {"planned", "completed"}

AuditsSound == \A o \in PinOps : audits[o] # NoAudit => audits[o].pin[1] = o /\ Intends(audits, audits[o])

\* The phase a journal is in at each step of the request that works on it.
PhaseAt(a, next) ==
  CASE next = "start"  -> a.phase = "planned" /\ a.intended # "rejected"
    [] next \in {"mutate", "commit"} -> a.phase = "mutation_started"
    [] next = "settle" ->
         a.phase = "mutation_committed" \/ (a.phase = "planned" /\ a.intended = "rejected")
    [] next = "reject" -> a.phase = "planned"
    [] OTHER -> FALSE

Pinnings == [op: PinOps, next: {"start", "mutate", "commit", "settle", "reject"}]

PinningSound == holder = "pin" =>
  /\ pinning \in Pinnings /\ audits[pinning.op] # NoAudit
  /\ PhaseAt(audits[pinning.op], pinning.next)

PinsAudited == \A b \in Backups : pins[b] # NoPin => Audited(audits, pins[b], b)

PinInv == PinsTyped /\ PinsAudited /\ AuditsSound /\ PinningSound

LEMMA PinInit == Init => PinInv
BY DEF Init, RootInit, PinInv, PinsTyped, PinsAudited, AuditsSound, PinningSound, Pins

\* A journal that goes on to another phase stays what it is.
LEMMA AuditMoves ==
  ASSUME PinsTyped, NEW o \in PinOps, audits[o] # NoAudit,
         NEW phase \in {"planned", "mutation_started", "mutation_committed", "completed"},
         audits' = [audits EXCEPT ![o].phase = phase]
  PROVE  /\ audits' \in [PinOps -> Audits \cup {NoAudit}] /\ audits'[o] \in Audits
         /\ audits'[o] # NoAudit /\ audits'[o].phase = phase
         /\ audits'[o].id = audits[o].id /\ audits'[o].pin = audits[o].pin
         /\ audits'[o].result = audits[o].result /\ audits'[o].intended = audits[o].intended
         /\ \A q \in PinOps \ {o} : audits'[q] = audits[q]
<1> DEFINE a == [audits[o] EXCEPT !.phase = phase]
<1>1. audits[o] \in Audits
  BY DEF PinsTyped
<1>2. /\ a \in Audits /\ a.phase = phase /\ a.id = audits[o].id /\ a.pin = audits[o].pin
      /\ a.result = audits[o].result /\ a.intended = audits[o].intended
  BY <1>1 DEF Audits
<1>3. audits' = [audits EXCEPT ![o] = a]
  BY DEF PinsTyped
<1> HIDE DEF a
<1>4. a # NoAudit
  BY <1>2 DEF NoAudit
<1>5. QED
  BY <1>2, <1>3, <1>4 DEF PinsTyped

\* What is audited stays so when a journal goes on past its announcement.
LEMMA ForwardKeeps ==
  ASSUME PinInv, NEW o \in PinOps, audits[o] # NoAudit,
         NEW phase \in {"mutation_started", "mutation_committed", "completed"},
         audits' = [audits EXCEPT ![o].phase = phase], UNCHANGED pins,
         audits[o].intended = "rejected" => phase = "completed"
  PROVE  PinsTyped' /\ PinsAudited' /\ AuditsSound'
<1>1. /\ audits' \in [PinOps -> Audits \cup {NoAudit}]
      /\ audits'[o] # NoAudit /\ audits'[o].phase = phase
      /\ audits'[o].id = audits[o].id /\ audits'[o].pin = audits[o].pin
      /\ audits'[o].result = audits[o].result /\ audits'[o].intended = audits[o].intended
      /\ \A q \in PinOps \ {o} : audits'[q] = audits[q]
  BY AuditMoves DEF PinInv
<1>2. ASSUME NEW x, NEW b, Audited(audits, x, b) PROVE Audited(audits', x, b)
  <2>1. x[1] \in PinOps
    BY <1>2 DEF Audited
  <2>2. QED
    BY <1>1, <1>2, <2>1 DEF Audited
<1>3. PinsTyped'
  BY <1>1 DEF PinInv, PinsTyped
<1>4. PinsAudited'
  BY <1>2 DEF PinInv, PinsAudited
<1>5. AuditsSound'
  <2> SUFFICES ASSUME NEW q \in PinOps, audits'[q] # NoAudit
               PROVE  audits'[q].pin[1] = q /\ Intends(audits', audits'[q])
    BY DEF AuditsSound
  <2>1. /\ audits[q] # NoAudit /\ audits'[q].pin = audits[q].pin /\ audits'[q].id = audits[q].id
        /\ audits'[q].result = audits[q].result /\ audits'[q].intended = audits[q].intended
        /\ q = o => audits'[q].phase = phase
        /\ q # o => audits'[q].phase = audits[q].phase
    BY <1>1
  <2>2. audits[q].pin[1] = q /\ Intends(audits, audits[q])
    BY <2>1 DEF PinInv, AuditsSound
  <2>3. Audited(audits, audits[q].result, audits[q].id) => Audited(audits', audits[q].result, audits[q].id)
    BY <1>2
  <2>4. QED
    BY <2>1, <2>2, <2>3 DEF Intends
<1>6. QED
  BY <1>3, <1>4, <1>5

\* A pin that is there stays audited whatever the request does next.
LEMMA PinBeginsKept ==
  ASSUME PinInv, NEW o \in PinOps, NEW kind \in {"pin", "unpin"}, NEW b \in Backups,
         NEW reason \in Reasons, PinBegins(o, kind, b, reason)
  PROVE  PinInv'
<1> DEFINE want == Wanted(kind, pins[b], <<o, reason>>)
<1> DEFINE a == [phase |-> "planned", kind |-> kind, id |-> b, before |-> pins[b],
                 pin |-> <<o, reason>>, result |-> want.result, intended |-> want.intended]
<1>1. /\ audits[o] = NoAudit /\ holder' = "pin" /\ UNCHANGED pins
      /\ audits' = [audits EXCEPT ![o] = a]
      /\ pinning' = [op |-> o, next |-> IF want.intended = "rejected" THEN "settle" ELSE "start"]
  BY DEF PinBegins
<1>2. <<o, reason>> \in PinOps \X Reasons /\ <<o, reason>> \in Pins /\ pins[b] \in Pins
  BY DEF PinInv, PinsTyped, Pins
<1>3. /\ want.result \in Pins /\ want.intended \in {"created", "removed", "idempotent", "rejected"}
      /\ \/ want.result = NoPin
         \/ want.result = pins[b] /\ pins[b] # NoPin
         \/ want.result = <<o, reason>> /\ want.intended = "created"
  <2>1. CASE kind = "unpin"
    BY <1>2, <2>1 DEF Wanted, Pins
  <2>2. CASE kind = "pin" /\ pins[b] = NoPin
    BY <1>2, <2>2 DEF Wanted
  <2>3. CASE kind = "pin" /\ pins[b] # NoPin
    BY <1>2, <2>3 DEF Wanted
  <2>4. QED
    BY <2>1, <2>2, <2>3
<1> HIDE DEF want
<1>4. /\ a \in Audits /\ a.phase = "planned" /\ a.id = b /\ a.pin = <<o, reason>>
      /\ a.result = want.result /\ a.intended = want.intended
  BY <1>2, <1>3 DEF Audits
<1> HIDE DEF a
<1>5. /\ audits' \in [PinOps -> Audits \cup {NoAudit}] /\ audits'[o] = a
      /\ \A q \in PinOps \ {o} : audits'[q] = audits[q]
  BY <1>1, <1>4 DEF PinInv, PinsTyped
<1>6. ASSUME NEW x, NEW c, Audited(audits, x, c) PROVE Audited(audits', x, c)
  <2>1. x[1] \in PinOps /\ x[1] # o
    BY <1>1, <1>6 DEF Audited, NoAudit
  <2>2. QED
    BY <1>5, <1>6, <2>1 DEF Audited
<1>7. PinsTyped'
  BY <1>1, <1>5 DEF PinInv, PinsTyped
<1>8. PinsAudited'
  BY <1>1, <1>6 DEF PinInv, PinsAudited
<1>9. Intends(audits', a) /\ a.pin[1] = o
  <2>1. want.result = pins[b] /\ pins[b] # NoPin => Audited(audits', a.result, a.id)
    BY <1>4, <1>6 DEF PinInv, PinsAudited
  <2>2. QED
    BY <1>3, <1>4, <2>1 DEF Intends
<1>10. AuditsSound'
  <2> SUFFICES ASSUME NEW q \in PinOps, audits'[q] # NoAudit
               PROVE  audits'[q].pin[1] = q /\ Intends(audits', audits'[q])
    BY DEF AuditsSound
  <2>1. CASE q = o
    BY <1>5, <1>9, <2>1
  <2>2. CASE q # o
    <3>1. audits'[q] = audits[q] /\ audits[q].pin[1] = q /\ Intends(audits, audits[q])
      BY <1>5, <2>2 DEF PinInv, AuditsSound
    <3>2. Audited(audits, audits[q].result, audits[q].id) => Audited(audits', audits[q].result, audits[q].id)
      BY <1>6
    <3>3. QED
      BY <3>1, <3>2 DEF Intends
  <2>3. QED
    BY <2>1, <2>2
<1>11. PinningSound'
  <2>1. /\ pinning'.op = o /\ pinning'.next = IF a.intended = "rejected" THEN "settle" ELSE "start"
        /\ pinning' \in Pinnings
    BY <1>1, <1>4 DEF Pinnings
  <2>2. audits'[o] # NoAudit
    BY <1>4, <1>5 DEF NoAudit
  <2>3. PhaseAt(audits'[o], pinning'.next)
    BY <1>4, <1>5, <2>1 DEF PhaseAt
  <2>4. QED
    BY <2>1, <2>2, <2>3 DEF PinningSound
<1>12. QED
  BY <1>7, <1>8, <1>10, <1>11 DEF PinInv

\* The journal goes to its next phase around the change of the sidecar.
LEMMA PinPhasesKept ==
  PinInv /\ (PinStarts \/ PinCommits \/ PinCompletes) => PinInv'
<1> SUFFICES ASSUME PinInv, PinStarts \/ PinCommits \/ PinCompletes PROVE PinInv'
  OBVIOUS
<1> DEFINE o == pinning.op
<1>1. /\ holder = "pin" /\ pinning \in Pinnings /\ o \in PinOps /\ audits[o] # NoAudit
      /\ PhaseAt(audits[o], pinning.next) /\ UNCHANGED pins
  BY DEF Pinnings, PinInv, PinningSound, PinStarts, PinCommits, PinCompletes
<1>2. Intends(audits, audits[o])
  BY <1>1 DEF PinInv, AuditsSound
<1>3. CASE PinStarts
  <2>1. audits' = [audits EXCEPT ![o].phase = "mutation_started"] /\ audits[o].intended # "rejected"
        /\ pinning' = [pinning EXCEPT !.next = "mutate"]
    BY <1>1, <1>3 DEF PinStarts, PhaseAt
  <2>2. PinsTyped' /\ PinsAudited' /\ AuditsSound'
    BY <1>1, <2>1, ForwardKeeps
  <2>3. audits'[o] # NoAudit /\ audits'[o].phase = "mutation_started"
    BY <1>1, <2>1, AuditMoves DEF PinInv
  <2>4. pinning'.op = o /\ pinning'.next = "mutate"
    BY <1>1, <2>1 DEF Pinnings
  <2>5. pinning' \in Pinnings
    BY <1>1, <2>1 DEF Pinnings
  <2>6. QED
    BY <1>1, <2>2, <2>3, <2>4, <2>5 DEF PinInv, PinningSound, PhaseAt
<1>4. CASE PinCommits
  <2>1. audits' = [audits EXCEPT ![o].phase = "mutation_committed"] /\ audits[o].intended # "rejected"
        /\ pinning' = [pinning EXCEPT !.next = "settle"]
    BY <1>1, <1>2, <1>4 DEF PinCommits, PhaseAt, Intends
  <2>2. PinsTyped' /\ PinsAudited' /\ AuditsSound'
    BY <1>1, <2>1, ForwardKeeps
  <2>3. audits'[o] # NoAudit /\ audits'[o].phase = "mutation_committed"
    BY <1>1, <2>1, AuditMoves DEF PinInv
  <2>4. pinning'.op = o /\ pinning'.next = "settle"
    BY <1>1, <2>1 DEF Pinnings
  <2>5. pinning' \in Pinnings
    BY <1>1, <2>1 DEF Pinnings
  <2>6. QED
    BY <1>1, <2>2, <2>3, <2>4, <2>5 DEF PinInv, PinningSound, PhaseAt
<1>5. CASE PinCompletes
  <2>1. audits' = [audits EXCEPT ![o].phase = "completed"] /\ holder' = "nobody"
    BY <1>5 DEF PinCompletes
  <2>2. PinsTyped' /\ PinsAudited' /\ AuditsSound'
    BY <1>1, <2>1, ForwardKeeps
  <2>3. QED
    BY <2>1, <2>2 DEF PinInv, PinningSound
<1>6. QED
  BY <1>3, <1>4, <1>5

LEMMA PinMutatesKept == PinInv /\ PinMutates => PinInv'
<1> SUFFICES ASSUME PinInv, PinMutates PROVE PinInv'
  OBVIOUS
<1>1. PICK o \in PinOps : /\ o = pinning.op /\ pinning \in Pinnings
                          /\ audits[o] # NoAudit /\ audits[o].phase = "mutation_started"
  BY DEF Pinnings, PinInv, PinningSound, PinMutates, PhaseAt
<1>2. PICK a \in Audits : a = audits[o]
  BY <1>1 DEF PinInv, PinsTyped
<1>3. /\ pins' = [pins EXCEPT ![a.id] = a.result] /\ pinning' = [pinning EXCEPT !.next = "commit"]
      /\ UNCHANGED <<holder, audits>>
  BY <1>1, <1>2 DEF PinMutates
<1>4. a.result # NoPin => Audited(audits, a.result, a.id)
  <2>1. a.pin[1] = o /\ Intends(audits, a) /\ a.intended # "rejected"
    BY <1>1, <1>2 DEF PinInv, AuditsSound, Intends
  <2>2. CASE a.result = a.pin /\ a.intended = "created"
    <3>1. a.pin \in PinOps \X Reasons
      BY DEF Audits
    <3>2. QED
      BY <1>1, <1>2, <2>1, <2>2, <3>1 DEF Audited
  <2>3. QED
    BY <2>1, <2>2 DEF Intends
<1>5. a.id \in Backups /\ a.result \in Pins
  BY DEF Audits
<1>6. PinsTyped' /\ PinsAudited'
  BY <1>3, <1>4, <1>5 DEF PinInv, PinsTyped, PinsAudited
<1>7. AuditsSound'
  BY <1>3 DEF PinInv, AuditsSound
<1>8. PinningSound'
  <2>1. pinning'.op = o /\ pinning'.next = "commit" /\ pinning' \in Pinnings
    BY <1>1, <1>3 DEF Pinnings
  <2>2. QED
    BY <1>1, <1>3, <2>1 DEF PinningSound, PhaseAt
<1>9. QED
  BY <1>6, <1>7, <1>8 DEF PinInv

LEMMA ReconcileKept ==
  PinInv /\ ((\E o \in PinOps : ReconcileBegins(o)) \/ ReconcileRejects) => PinInv'
<1> SUFFICES ASSUME PinInv, (\E o \in PinOps : ReconcileBegins(o)) \/ ReconcileRejects
             PROVE  PinInv'
  OBVIOUS
<1>1. ASSUME NEW o \in PinOps, ReconcileBegins(o) PROVE PinInv'
  <2>1. /\ audits[o].phase \notin {"none", "completed"} /\ ReconcileFrom(audits[o]) # "none"
        /\ holder' = "pin" /\ UNCHANGED <<pins, audits>>
        /\ pinning' = [op |-> o, next |-> ReconcileFrom(audits[o])]
    BY <1>1 DEF ReconcileBegins
  <2>2. PinsTyped' /\ PinsAudited' /\ AuditsSound'
    BY <2>1 DEF PinInv, PinsTyped, PinsAudited, AuditsSound
  <2>3. audits[o] # NoAudit
    BY <2>1 DEF NoAudit
  <2>4. ReconcileFrom(audits[o]) \in {"mutate", "commit", "settle", "reject"}
        /\ PhaseAt(audits[o], ReconcileFrom(audits[o]))
    BY <2>1 DEF ReconcileFrom, PhaseAt
  <2>5. PinningSound'
    BY <2>1, <2>3, <2>4 DEF PinningSound, Pinnings
  <2>6. QED
    BY <2>2, <2>5 DEF PinInv
<1>2. CASE ReconcileRejects
  <2>1. PICK o \in PinOps : o = pinning.op /\ audits[o] # NoAudit /\ audits[o].phase = "planned"
    BY <1>2 DEF Pinnings, PinInv, PinningSound, ReconcileRejects, PhaseAt
  <2> DEFINE a == [audits[o] EXCEPT !.phase = "completed", !.intended = "rejected"]
  <2>2. audits[o] \in Audits
    BY <2>1 DEF PinInv, PinsTyped
  <2>3. /\ a \in Audits /\ a.phase = "completed" /\ a.intended = "rejected" /\ a.pin = audits[o].pin
    BY <2>2 DEF Audits
  <2>4. audits' = [audits EXCEPT ![o] = a] /\ holder' = "nobody" /\ UNCHANGED pins
    BY <1>2, <2>1 DEF ReconcileRejects, PinInv, PinsTyped
  <2> HIDE DEF a
  <2>5. /\ audits' \in [PinOps -> Audits \cup {NoAudit}] /\ audits'[o] = a
        /\ \A q \in PinOps \ {o} : audits'[q] = audits[q]
    BY <2>3, <2>4 DEF PinInv, PinsTyped
  <2>6. ASSUME NEW x, NEW b, Audited(audits, x, b) PROVE Audited(audits', x, b)
    <3>1. x[1] \in PinOps /\ x[1] # o
      BY <2>1, <2>6 DEF Audited
    <3>2. QED
      BY <2>5, <2>6, <3>1 DEF Audited
  <2>7. PinsTyped' /\ PinsAudited' /\ PinningSound'
    BY <2>4, <2>5, <2>6 DEF PinInv, PinsTyped, PinsAudited, PinningSound
  <2>8. AuditsSound'
    <3> SUFFICES ASSUME NEW q \in PinOps, audits'[q] # NoAudit
                 PROVE  audits'[q].pin[1] = q /\ Intends(audits', audits'[q])
      BY DEF AuditsSound
    <3>1. audits[q] # NoAudit /\ audits[q].pin[1] = q /\ Intends(audits, audits[q])
      BY <2>1, <2>5 DEF PinInv, AuditsSound
    <3>2. CASE q = o
      BY <2>3, <2>5, <3>1, <3>2 DEF Intends
    <3>3. CASE q # o
      BY <2>5, <2>6, <3>1, <3>3 DEF Intends
    <3>4. QED
      BY <3>2, <3>3
  <2>9. QED
    BY <2>7, <2>8 DEF PinInv
<1>3. QED
  BY <1>1, <1>2

LEMMA PinInvKept == PinInv /\ [Next]_vars => PinInv'
<1> SUFFICES ASSUME PinInv, [Next]_vars PROVE PinInv'
  OBVIOUS
<1>1. ASSUME UNCHANGED <<pins, audits>>, holder' # "pin" \/ UNCHANGED <<holder, pinning>> PROVE PinInv'
  <2>1. PinsTyped' /\ PinsAudited' /\ AuditsSound'
    BY <1>1 DEF PinInv, PinsTyped, PinsAudited, AuditsSound
  <2>2. PinningSound'
    BY <1>1 DEF PinInv, PinningSound
  <2>3. QED
    BY <2>1, <2>2 DEF PinInv
<1>2. CASE Create
  BY <1>1, <1>2 DEF Create, CreateBegins, CreateStages, CreatePublishes, CreateReturns, CreateFails,
     CreateCrashes, pinVars
<1>3. CASE Pin
  <2>1. CASE PinStops
    BY <1>1, <2>1 DEF PinStops
  <2>2. QED
    BY <1>3, <2>1, PinBeginsKept, PinPhasesKept, PinMutatesKept, ReconcileKept DEF Pin
<1>4. CASE Verification
  BY <1>1, <1>4 DEF Verification, VerificationPasses, pinVars
<1>5. CASE \E p \in Plans, slots \in SlotChoices : PlanMade(p, slots)
  BY <1>1, <1>5 DEF PlanMade, rootVars
<1>6. CASE \E p \in Plans : ApplyBegins(p)
  BY <1>1, <1>6 DEF ApplyBegins, pinVars
<1>7. CASE ApplySteps \/ ApplyFails \/ ApplyCrashes
  <2>1. UNCHANGED <<pins, audits>> /\ holder' \in {"apply", "nobody"}
    BY <1>7 DEF ApplySteps, ApplyChooses, ApplyPersists, ApplyRenames, ApplyOpens, ApplyUnlinks,
       ApplyRemoves, ApplyRefuses, ApplyFails, ApplyCrashes, GivesUp, pinVars
  <2>2. QED
    BY <1>1, <2>1
<1>8. CASE UNCHANGED vars
  BY <1>1, <1>8 DEF vars, rootVars
<1>9. QED
  BY <1>2, <1>3, <1>4, <1>5, <1>6, <1>7, <1>8 DEF Next

\* Whatever fails or dies between the journal and the sidecar, and whatever reconcile()
\* makes of it later: a pin that is there was announced by the request it names, which
\* was not closed as rejected (pin_mutation.py).
THEOREM PinsHaveAudits == Spec => []PinsAreAudited
<1>1. PinInv => PinsAreAudited
  BY DEF PinInv, PinsAudited, Audited, PinsAreAudited
<1>2. QED
  BY PinInit, PinInvKept, <1>1, PTL DEF Spec

(***************************************************************************)
(* What create() reports.                                                  *)
(***************************************************************************)
\* It reports once, at the end.
ReportInv == /\ ReportIsTrue /\ reported = [b \in Backups |-> reported[b]]
             /\ holder = "create" => reported[creating.id] = "none"

LEMMA ReportKept == IInv /\ ReportInv /\ [Next]_vars => ReportInv'
<1> SUFFICES ASSUME IInv, ReportInv, [Next]_vars PROVE ReportInv'
  OBVIOUS
<1> USE DEF ReportInv, ReportIsTrue
<1>1. CASE Create
  <2>1. ASSUME NEW b \in Backups, CreateBegins(b) PROVE ReportInv'
    BY <2>1 DEF CreateBegins, IInv, Typed
  <2>2. CASE CreateStages \/ CreateCrashes
    <3>1. UNCHANGED <<place, reported>>
      BY <2>2 DEF CreateStages, CreateCrashes
    <3>2. holder' = "create" => holder = "create" /\ creating'.id = creating.id
      BY <2>2 DEF CreateStages, CreateCrashes, IInv, Staging
    <3>3. QED
      BY <3>1, <3>2
  <2>3. CASE CreatePublishes
    <3>1. /\ holder = "create" /\ UNCHANGED <<holder, reported>> /\ creating.id \in Backups
          /\ place' = [place EXCEPT ![creating.id] = "final"] /\ creating'.id = creating.id
      BY <2>3 DEF CreatePublishes, IInv, Staging
    <3>2. QED
      BY <3>1 DEF IInv, Typed
  <2>4. CASE CreateReturns
    <3>1. PICK r \in {"final_committed", "commit_uncertain", "not_created", "raised"} :
            reported' = [reported EXCEPT ![creating.id] = r]
      BY <2>4 DEF CreateReturns
    <3>2. /\ place[creating.id] = "final" /\ creating.id \in Backups
          /\ holder' = "nobody" /\ UNCHANGED place
      BY <2>4 DEF CreateReturns, IInv, Staging, InStages
    <3>3. QED
      BY <3>1, <3>2
  <2>5. CASE CreateFails
    <3>1. holder = "create" /\ creating.next \in {"dump", "watchlist", "manifest", "publish"}
          /\ holder' = "nobody"
      BY <2>5 DEF CreateFails, Staged
    <3>2. creating.id \in Backups /\ place[creating.id] = "tmp"
      BY <3>1 DEF IInv, Staging, Published
    <3>3. PICK left \in BOOLEAN, cancelled \in BOOLEAN :
            /\ IF left THEN UNCHANGED <<place, files>>
                       ELSE place' = [place EXCEPT ![creating.id] = "none"]
            /\ reported' = [reported EXCEPT ![creating.id] =
                              IF cancelled THEN "raised" ELSE StateAfterCleanup(left)]
      BY <2>5 DEF CreateFails
    <3>4. QED
      BY <3>1, <3>2, <3>3 DEF StateAfterCleanup, IInv, Typed
  <2>6. QED
    BY <1>1, <2>1, <2>2, <2>3, <2>4, <2>5 DEF Create
<1>2. ASSUME UNCHANGED <<place, reported>>, holder' # "create" \/ UNCHANGED <<holder, creating>>
      PROVE  ReportInv'
  BY <1>2
<1>3. CASE Pin \/ Verification
  BY <1>2, <1>3 DEF Pin, Verification, VerificationPasses, PinBegins, PinStarts, PinMutates, PinCommits,
     PinCompletes, PinStops, ReconcileBegins, ReconcileRejects, createVars
<1>4. CASE \/ \E p \in Plans, slots \in SlotChoices : PlanMade(p, slots)
           \/ \E p \in Plans : ApplyBegins(p)
  BY <1>2, <1>4 DEF PlanMade, ApplyBegins, rootVars, createVars
<1>5. CASE \/ ApplyChooses \/ ApplyPersists \/ ApplyOpens \/ ApplyUnlinks
           \/ ApplyRefuses \/ ApplyFails \/ ApplyCrashes
  <2>1. UNCHANGED <<place, reported>> /\ holder' # "create"
    BY <1>5 DEF ApplyChooses, ApplyPersists, ApplyOpens, ApplyUnlinks, ApplyRefuses, ApplyFails,
       ApplyCrashes, GivesUp, createVars
  <2>2. QED
    BY <1>2, <2>1
<1>6. CASE ApplyRenames \/ ApplyRemoves
  <2>1. /\ holder = "apply" /\ UNCHANGED <<holder, reported>> /\ Possible
        /\ \/ place' = [place EXCEPT ![applying.id] = "pending"] /\ applying.next = "rename"
           \/ place' = [place EXCEPT ![applying.id] = "gone"] /\ applying.next = "rmdir"
    BY <1>6 DEF ApplyRenames, ApplyRemoves
  <2>2. applying.id \in Backups /\ place[applying.id] \in {"final", "pending"}
    BY <2>1, AtTheCandidate DEF Working, Removing, Possible
  <2>3. QED
    BY <2>1, <2>2 DEF IInv, Typed
<1>7. CASE UNCHANGED vars
  BY <1>2, <1>7 DEF vars, rootVars
<1>8. QED
  BY <1>1, <1>3, <1>4, <1>5, <1>6, <1>7 DEF Next, ApplySteps

\* A failed create() that says nothing was left is right, one that says the temporary
\* package was left too, and one that names a package has published it
\* (backup_service.py).
THEOREM CreateReportsTrue == Spec => []ReportIsTrue
<1>1. Init => ReportInv
  BY DEF Init, RootInit, ReportInv, ReportIsTrue
<1>2. ReportInv => ReportIsTrue
  BY DEF ReportInv
<1>3. QED
  BY <1>1, Invariant, ReportKept, <1>2, PTL DEF Spec

(***************************************************************************)
(* Deletion.                                                               *)
(***************************************************************************)
Away == {"pending", "gone"}

\* A journal accounts for the files that are there and for the directory's place.
Covers(progress, there, where) ==
  /\ progress.phase # "planned"
  /\ FilesFrom(progress.index + IF progress.file = "unlink_started" THEN 1 ELSE 0) \subseteq there
  /\ there \subseteq FilesFrom(progress.index)
  /\ where = "gone" => progress.dir # "ready"

\* A package that left the root is a candidate of the plan in its name, whose journal
\* covers it.
Journalled == \A b \in Backups : place[b] \in Away =>
  /\ pendingOf[b] \in Plans /\ plans[pendingOf[b]] # NoPlan
  /\ b \in plans[pendingOf[b]].candidates
  /\ Covers(journals[pendingOf[b]][b], files[b], place[b])

\* Nothing is unlinked of a package that has not left the root.
Unopened(p) == \A b \in plans[p].candidates : place[b] \notin Away => journals[p][b].index = 0
Unbegun == \A p \in Plans : journals[p] # NoPlan => Unopened(p)

\* How far the removal of a package is at each step.
AtStep(next, progress, there, where) ==
  /\ next \in {"verify", "unlink", "unlinked"} => progress.index < 3
  /\ next = "verify" => progress.file = "ready"
  /\ next \in {"unlink", "unlinked"} => progress.file = "unlink_started"
  /\ next = "unlinked" => there = FilesFrom(progress.index + 1)
  /\ next \in {"rmdir", "removed"} => progress.dir # "ready"

\* What is away under the lock belongs to the plan that is applied.
Owning == holder = "apply" =>
  /\ Unopened(applying.plan)
  /\ \A b \in Backups : place[b] = "pending" => pendingOf[b] = applying.plan
  /\ applying.next # "choose" =>
       AtStep(applying.next, applying.progress, files[applying.id], place[applying.id])

JournalInv == Journalled /\ Unbegun /\ Owning /\ pendingOf = [b \in Backups |-> pendingOf[b]]

\* The files go in their order.
LEMMA FilesLeft ==
  /\ FilesFrom(0) = PackageFiles
  /\ \A n \in Nat : FilesFrom(n + 1) \subseteq FilesFrom(n)
  /\ \A n \in 0 .. 2 : \A there : FilesFrom(n + 1) \subseteq there /\ there \subseteq FilesFrom(n)
                                 => there \ {FileOrder[n + 1]} = FilesFrom(n + 1)
<1>1. FilesFrom(0) = PackageFiles
  <2>1. 0 + 1 .. 3 = {1, 2, 3}
    OBVIOUS
  <2>2. QED
    BY <2>1 DEF FilesFrom, FileOrder, PackageFiles
<1>2. \A n \in Nat : FilesFrom(n + 1) \subseteq FilesFrom(n)
  <2> SUFFICES ASSUME NEW n \in Nat PROVE FilesFrom(n + 1) \subseteq FilesFrom(n)
    OBVIOUS
  <2>1. (n + 1) + 1 .. 3 \subseteq n + 1 .. 3
    OBVIOUS
  <2>2. QED
    BY <2>1 DEF FilesFrom
<1>3. ASSUME NEW n \in 0 .. 2, NEW there, FilesFrom(n + 1) \subseteq there, there \subseteq FilesFrom(n)
      PROVE  there \ {FileOrder[n + 1]} = FilesFrom(n + 1)
  <2>1. FilesFrom(n) = FilesFrom(n + 1) \cup {FileOrder[n + 1]}
    <3>1. n + 1 .. 3 = ((n + 1) + 1 .. 3) \cup {n + 1}
      OBVIOUS
    <3>2. QED
      BY <3>1 DEF FilesFrom
  <2>2. FileOrder[n + 1] \notin FilesFrom(n + 1)
    <3>1. CASE n = 0
      <4>1. (n + 1) + 1 .. 3 = {2, 3}
        BY <3>1
      <4>2. QED
        BY <3>1, <4>1 DEF FilesFrom, FileOrder
    <3>2. CASE n = 1
      <4>1. (n + 1) + 1 .. 3 = {3}
        BY <3>2
      <4>2. QED
        BY <3>2, <4>1 DEF FilesFrom, FileOrder
    <3>3. CASE n = 2
      <4>1. (n + 1) + 1 .. 3 = {}
        BY <3>3
      <4>2. QED
        BY <3>3, <4>1 DEF FilesFrom
    <3>4. QED
      BY <3>1, <3>2, <3>3
  <2>3. QED
    BY <1>3, <2>1, <2>2
<1>4. QED
  BY <1>1, <1>2, <1>3

\* A whole package is covered by a journal that has not begun to unlink.
LEMMA WholeCovered ==
  ASSUME NEW progress \in Progress, progress.index = 0, progress.phase # "planned"
  PROVE  Covers(progress, PackageFiles, "pending")
<1>1. FilesFrom(0 + 1) \subseteq PackageFiles
  BY FilesLeft
<1>2. QED
  BY <1>1, FilesLeft DEF Covers

\* A write of the journal covers what the one before it did, and says where the next step is.
LEMMA RecordCovers ==
  ASSUME NEW progress \in Progress, NEW next \in Persisting, NEW there, NEW where,
         progress.phase # "deleted", next # "intend" => progress.phase # "planned",
         AtStep(next, progress, there, where)
  PROVE  LET record == Record(progress, next) IN
         /\ Covers(progress, there, where) => Covers(record.now, there, where)
         /\ next # "unlinked" => record.now.index = progress.index
         /\ record.then # "choose" => AtStep(record.then, record.now, there, where)
<1> DEFINE record == Record(progress, next)
<1>1. CASE next \in {"intend", "renamed", "delete", "removed"}
  <2>1. /\ record.now.index = progress.index /\ record.now.file = progress.file
        /\ record.now.phase # "planned" /\ record.now.dir \in {progress.dir, "completed"}
        /\ record.then \in {"rename", "delete", "open", "choose"}
    BY <1>1 DEF Record, Progress
  <2> HIDE DEF record
  <2>2. QED
    BY <1>1, <2>1 DEF Covers, AtStep, record
<1>2. CASE next = "verify"
  <2>1. /\ record.now.index = progress.index /\ record.now.file = "unlink_started"
        /\ record.now.phase = progress.phase /\ record.now.dir = progress.dir
        /\ record.then = "unlink"
    BY <1>2 DEF Record, Progress
  <2>2. progress.index \in Nat /\ progress.index < 3 /\ progress.file = "ready"
    BY <1>2 DEF Progress, AtStep
  <2>3. FilesFrom(progress.index + 1) \subseteq FilesFrom(progress.index + 0)
    BY <2>2, FilesLeft
  <2> HIDE DEF record
  <2>4. QED
    BY <1>2, <2>1, <2>2, <2>3 DEF Covers, AtStep, record
<1>3. CASE next = "seal"
  <2>1. /\ record.now.index = progress.index /\ record.now.file = progress.file
        /\ record.now.phase = progress.phase /\ record.now.dir = "rmdir_started"
        /\ record.then = "rmdir"
    BY <1>3 DEF Record, Progress
  <2> HIDE DEF record
  <2>2. QED
    BY <1>3, <2>1 DEF Covers, AtStep, record
<1>4. CASE next = "unlinked"
  <2> DEFINE later == [progress EXCEPT !.index = @ + 1, !.file = "ready"]
  <2>1. /\ later.index = progress.index + 1 /\ later.file = "ready"
        /\ later.phase = progress.phase /\ later.dir = progress.dir
    BY DEF Progress
  <2>2. record = [now |-> later, then |-> NextRemoval(later)]
    BY <1>4 DEF Record
  <2> HIDE DEF later
  <2>3. record.now = later /\ record.then = NextRemoval(later)
    BY <2>2
  <2> HIDE DEF record
  <2>4. progress.index \in Nat /\ progress.index < 3 /\ there = FilesFrom(progress.index + 1)
    BY <1>4 DEF Progress, AtStep
  <2>5. Covers(progress, there, where) => Covers(later, there, where)
    <3>1. FilesFrom(later.index + 0) = there
      BY <2>1, <2>4
    <3>2. QED
      BY <2>1, <2>4, <3>1 DEF Covers
  <2>6. AtStep(NextRemoval(later), later, there, where)
    BY <2>1, <2>4 DEF AtStep, NextRemoval
  <2>7. QED
    BY <1>4, <2>3, <2>5, <2>6 DEF record
<1>5. QED
  BY <1>1, <1>2, <1>3, <1>4 DEF Persisting

\* What happens to packages that have not left the root is no matter of the journals.
LEMMA OthersAway ==
  ASSUME JournalInv, UNCHANGED <<plans, journals, pendingOf>>,
         \A b \in Backups : /\ place'[b] \in Away <=> place[b] \in Away
                            /\ place[b] \in Away => place'[b] = place[b] /\ files'[b] = files[b],
         IInv
  PROVE  /\ Journalled' /\ Unbegun' /\ pendingOf' = [b \in Backups |-> pendingOf'[b]]
         /\ \A p \in Plans : plans[p] # NoPlan /\ Unopened(p) => Unopened(p)'
<1>1. Journalled'
  BY DEF JournalInv, Journalled
<1>2. ASSUME NEW p \in Plans, plans[p] # NoPlan, Unopened(p) PROVE Unopened(p)'
  <2>1. plans[p].candidates \subseteq Backups
    BY <1>2 DEF IInv, PlansSound
  <2>2. QED
    BY <1>2, <2>1 DEF Unopened
<1>3. Unbegun'
  BY <1>2 DEF JournalInv, Unbegun, IInv, JournalsSound
<1>4. QED
  BY <1>1, <1>2, <1>3 DEF JournalInv

\* A write of the journal of the candidate at work.
LEMMA Writes ==
  ASSUME IInv, JournalInv, holder = "apply",
         NEW p \in Plans, p = applying.plan, Applying(p), Working(p),
         UNCHANGED <<place, files, plans, pendingOf>>,
         NEW now \in Progress, now.phase # "planned",
         journals' = [journals EXCEPT ![p][applying.id] = now],
         place[applying.id] \notin Away => now.index = 0,
         place[applying.id] \in Away /\ pendingOf[applying.id] = p =>
           Covers(now, files[applying.id], place[applying.id])
  PROVE  Journalled' /\ Unbegun' /\ Unopened(p)'
<1>1. PICK b \in Backups : b = applying.id /\ b \in plans[p].candidates
  BY DEF Working
<1>2. journals'[p] = [journals[p] EXCEPT ![b] = now] /\ journals' = [q \in Plans |-> journals'[q]]
  BY <1>1, JournalWritten
<1>3. journals[p] \in [plans[p].candidates -> Progress]
  BY DEF Applying
<1>4. journals'[p][b] = now /\ \A c \in plans[p].candidates \ {b} : journals'[p][c] = journals[p][c]
  BY <1>1, <1>2, <1>3
<1>5. \A q \in Plans \ {p} : journals'[q] = journals[q]
  BY DEF IInv, Typed
<1>6. Unopened(p)'
  BY <1>1, <1>4 DEF JournalInv, Owning, Unopened
<1>7. Unbegun'
  <2> SUFFICES ASSUME NEW q \in Plans, journals'[q] # NoPlan, q # p PROVE Unopened(q)'
    BY <1>6 DEF Unbegun
  <2>1. journals'[q] = journals[q]
    BY <1>5
  <2>2. QED
    BY <2>1 DEF JournalInv, Unbegun, Unopened
<1>8. Journalled'
  <2> SUFFICES ASSUME NEW c \in Backups, place[c] \in Away
               PROVE  /\ pendingOf[c] \in Plans /\ plans[pendingOf[c]] # NoPlan
                      /\ c \in plans[pendingOf[c]].candidates
                      /\ Covers(journals'[pendingOf[c]][c], files[c], place[c])
    BY DEF Journalled
  <2>1. /\ pendingOf[c] \in Plans /\ plans[pendingOf[c]] # NoPlan
        /\ c \in plans[pendingOf[c]].candidates
        /\ Covers(journals[pendingOf[c]][c], files[c], place[c])
    BY DEF JournalInv, Journalled
  <2>2. CASE pendingOf[c] = p /\ c = b
    BY <1>1, <1>4, <2>1, <2>2
  <2>3. CASE ~(pendingOf[c] = p /\ c = b)
    BY <1>4, <1>5, <2>1, <2>3
  <2>4. QED
    BY <2>1, <2>2, <2>3
<1>9. QED
  BY <1>6, <1>7, <1>8

LEMMA JournalInit == Init => JournalInv
BY DEF Init, RootInit, JournalInv, Journalled, Unbegun, Owning, Away

LEMMA OthersJournalKept ==
  IInv /\ JournalInv /\ (Create \/ Pin \/ Verification) /\ UNCHANGED retentionVars => JournalInv'
<1> SUFFICES ASSUME IInv, JournalInv, Create \/ Pin \/ Verification, UNCHANGED retentionVars
             PROVE  JournalInv'
  OBVIOUS
<1>1. UNCHANGED <<plans, journals, pendingOf>>
  BY DEF retentionVars
<1>2. /\ holder' # "apply"
      /\ \A b \in Backups : /\ place'[b] \in Away <=> place[b] \in Away
                            /\ place[b] \in Away => place'[b] = place[b] /\ files'[b] = files[b]
  <2>1. ASSUME NEW c \in Backups, CreateBegins(c)
        PROVE  /\ holder' = "create" /\ UNCHANGED files
               /\ place[c] \notin Away /\ place' = [place EXCEPT ![c] = "tmp"]
    BY <2>1 DEF CreateBegins, Away
  <2>2. CASE CreateStages \/ CreatePublishes \/ CreateFails
    <3>1. creating.id \in Backups /\ place[creating.id] \notin Away /\ holder' # "apply"
      BY <2>2 DEF CreateStages, CreatePublishes, CreateFails, Staged, IInv, Staging, InStages, Published, Away
    <3>2. UNCHANGED place \/ \E q \in {"final", "none"} : place' = [place EXCEPT ![creating.id] = q]
      BY <2>2 DEF CreateStages, CreatePublishes, CreateFails
    <3>3. \A b \in Backups : b # creating.id => files'[b] = files[b]
      BY <2>2 DEF CreateStages, CreatePublishes, CreateFails, IInv, Typed
    <3>4. QED
      BY <3>1, <3>2, <3>3 DEF IInv, Typed, Away
  <2>3. CASE CreateReturns \/ CreateCrashes
    BY <2>3 DEF CreateReturns, CreateCrashes
  <2>4. CASE Pin \/ Verification
    <3>1. UNCHANGED <<place, files>> /\ holder' # "apply"
      BY <2>4 DEF Pin, Verification, VerificationPasses, PinBegins, PinStarts, PinMutates, PinCommits,
         PinCompletes, PinStops, ReconcileBegins, ReconcileRejects, createVars
    <3>2. QED
      BY <3>1
  <2>5. CASE \E c \in Backups : CreateBegins(c)
    <3>1. PICK c \in Backups : CreateBegins(c)
      BY <2>5
    <3>2. QED
      BY <2>1, <3>1 DEF IInv, Typed, Away
  <2>6. QED
    BY <2>2, <2>3, <2>4, <2>5 DEF Create
<1>3. QED
  BY <1>1, <1>2, OthersAway DEF JournalInv, Owning

LEMMA BeginsJournalKept ==
  ASSUME IInv, JournalInv, NEW p \in Plans,
         ApplyBegins(p) \/ \E slots \in SlotChoices : PlanMade(p, slots)
  PROVE  JournalInv'
<1>1. CASE \E slots \in SlotChoices : PlanMade(p, slots)
  <2>1. /\ plans[p] = NoPlan /\ holder' = "nobody" /\ UNCHANGED <<place, files, journals, pendingOf>>
        /\ \A q \in Plans \ {p} : plans'[q] = plans[q]
    BY <1>1 DEF PlanMade, rootVars, IInv, Typed
  <2>2. journals[p] = NoPlan
    BY <2>1 DEF IInv, JournalsSound
  <2>3. QED
    BY <2>1, <2>2 DEF JournalInv, Journalled, Unbegun, Unopened, Owning
<1>2. CASE ApplyBegins(p)
  <2>1. /\ plans[p] # NoPlan /\ StillAsPlanned(p) /\ UNCHANGED <<place, files, plans, pendingOf>>
        /\ applying'.plan = p /\ applying'.next = "choose"
    BY <1>2 DEF ApplyBegins, createVars
  <2>2. \A b \in Backups : place[b] = "pending" => pendingOf[b] = p
    BY <2>1 DEF StillAsPlanned
  <2>3. CASE journals[p] # NoPlan
    <3>1. UNCHANGED journals
      BY <1>2, <2>3 DEF ApplyBegins
    <3>2. Unopened(p)'
      BY <2>1, <2>3, <3>1 DEF JournalInv, Unbegun, Unopened
    <3>3. QED
      BY <2>1, <2>2, <3>1, <3>2 DEF JournalInv, Journalled, Unbegun, Unopened, Owning
  <2>4. CASE journals[p] = NoPlan
    <3>1. journals' = [journals EXCEPT ![p] = [b \in plans[p].candidates |-> Untouched]]
      BY <1>2, <2>4 DEF ApplyBegins
    <3>2. \A q \in Plans \ {p} : journals'[q] = journals[q]
      BY <3>1 DEF IInv, Typed
    <3>3. Unopened(p)'
      BY <2>1, <3>1 DEF Unopened, Untouched, IInv, Typed
    <3>4. \A b \in Backups : place[b] \in Away => pendingOf[b] # p
      <4> SUFFICES ASSUME NEW b \in Backups, place[b] \in Away, pendingOf[b] = p PROVE FALSE
        OBVIOUS
      <4>1. b \in plans[p].packages \ Visible
        BY <2>1 DEF JournalInv, Journalled, IInv, PlansSound, Visible, Away
      <4>2. QED
        BY <2>1, <2>4, <4>1 DEF StillAsPlanned, Started
    <3>5. Journalled'
      BY <2>1, <3>2, <3>4 DEF JournalInv, Journalled
    <3>6. Unbegun'
      BY <2>1, <3>2, <3>3 DEF JournalInv, Unbegun, Unopened
    <3>7. QED
      BY <2>1, <2>2, <3>3, <3>5, <3>6 DEF JournalInv, Owning
  <2>5. QED
    BY <2>3, <2>4
<1>3. QED
  BY <1>1, <1>2

LEMMA ChoosesJournalKept == IInv /\ JournalInv /\ ApplyChooses => JournalInv'
<1> SUFFICES ASSUME IInv, JournalInv, ApplyChooses PROVE JournalInv'
  OBVIOUS
<1>1. PICK p \in Plans : p = applying.plan
  BY AtTheCandidate DEF ApplyChooses
<1>2. UNCHANGED <<place, files, plans, journals, pendingOf>> /\ holder = "apply"
  BY DEF ApplyChooses, createVars
<1>3. /\ Journalled' /\ Unbegun' /\ pendingOf' = [b \in Backups |-> pendingOf'[b]]
      /\ Unopened(p)'
  BY <1>1, <1>2 DEF JournalInv, Journalled, Unbegun, Owning, Unopened
<1>4. holder' = "apply" => applying'.plan = p /\ applying'.next \in {"intend", "rename", "delete"}
  <2> SUFFICES ASSUME holder' = "apply"
               PROVE  applying'.plan = p /\ applying'.next \in {"intend", "rename", "delete"}
    OBVIOUS
  <2>1. ApplyTakes(p)
    BY <1>1, <1>2 DEF ApplyChooses
  <2> DEFINE phase == journals[p][Min(Unfinished(p))].phase
  <2>2. /\ applying'.plan = p
        /\ applying'.next = CASE phase = "planned" -> "intend"
                              [] phase = "rename_started" -> "rename"
                              [] OTHER -> "delete"
    BY <2>1 DEF ApplyTakes
  <2> HIDE DEF phase
  <2>3. QED
    BY <2>2
<1>5. Owning'
  BY <1>1, <1>2, <1>3, <1>4 DEF JournalInv, Owning, AtStep
<1>6. QED
  BY <1>3, <1>5 DEF JournalInv

LEMMA PersistsJournalKept == IInv /\ JournalInv /\ ApplyPersists => JournalInv'
<1> SUFFICES ASSUME IInv, JournalInv, ApplyPersists PROVE JournalInv'
  OBVIOUS
<1>1. PICK p \in Plans : p = applying.plan /\ Applying(p) /\ Working(p)
  BY AtTheCandidate DEF ApplyPersists, Persisting
<1> DEFINE record == Record(applying.progress, applying.next)
<1>2. /\ holder = "apply" /\ applying.next \in Persisting /\ applying.next # "choose"
      /\ journals' = [journals EXCEPT ![p][applying.id] = record.now]
      /\ applying' = [applying EXCEPT !.progress = record.now, !.next = record.then]
      /\ UNCHANGED <<holder, place, files, plans, pendingOf>>
  BY <1>1 DEF ApplyPersists, createVars, Persisting
<1>3. /\ applying \in [plan: Plans, id: Backups, progress: Progress, next: AtWork]
      /\ applying.id \in plans[p].candidates /\ applying.progress = journals[p][applying.id]
      /\ applying.progress.phase # "deleted"
      /\ applying.next # "intend" => applying.progress.phase # "planned"
      /\ applying.next \in Removing => place[applying.id] = "pending"
  BY <1>1 DEF Working
<1>4. record.now \in Progress /\ record.now.phase # "planned"
  BY <1>2, <1>3, RecordOf
<1>5. AtStep(applying.next, applying.progress, files[applying.id], place[applying.id])
  BY <1>2 DEF JournalInv, Owning
<1>6. /\ Covers(applying.progress, files[applying.id], place[applying.id]) =>
           Covers(record.now, files[applying.id], place[applying.id])
      /\ applying.next # "unlinked" => record.now.index = applying.progress.index
      /\ record.then # "choose" =>
           AtStep(record.then, record.now, files[applying.id], place[applying.id])
  BY <1>2, <1>3, <1>5, RecordCovers
<1> HIDE DEF record
<1>7. place[applying.id] \notin Away => record.now.index = 0
  BY <1>1, <1>2, <1>3, <1>6 DEF JournalInv, Owning, Unopened, Removing, Away
<1>8. place[applying.id] \in Away /\ pendingOf[applying.id] = p =>
        Covers(record.now, files[applying.id], place[applying.id])
  BY <1>3, <1>6 DEF JournalInv, Journalled
<1>9. Journalled' /\ Unbegun' /\ Unopened(p)'
  BY <1>1, <1>2, <1>4, <1>7, <1>8, Writes
<1>10. /\ applying'.plan = p /\ applying'.id = applying.id /\ applying'.progress = record.now
       /\ applying'.next = record.then
  BY <1>1, <1>2, <1>3
<1>11. Owning'
  BY <1>1, <1>2, <1>6, <1>9, <1>10 DEF JournalInv, Owning
<1>12. QED
  BY <1>2, <1>9, <1>11 DEF JournalInv

\* A step on the directory of the candidate at work, which leaves its journal alone.
LEMMA DirectoryCovered ==
  ASSUME IInv, JournalInv, holder = "apply",
         NEW p \in Plans, p = applying.plan, Applying(p), Working(p),
         NEW next, next # "choose", applying' = [applying EXCEPT !.next = next],
         UNCHANGED <<holder, plans, journals>>,
         pendingOf' = [pendingOf EXCEPT ![applying.id] = p],
         place'[applying.id] \in Away,
         \A b \in Backups : b # applying.id => place'[b] = place[b] /\ files'[b] = files[b],
         Covers(applying.progress, files'[applying.id], place'[applying.id]),
         AtStep(next, applying.progress, files'[applying.id], place'[applying.id])
  PROVE  JournalInv'
<1>1. PICK b \in Backups : b = applying.id /\ b \in plans[p].candidates
  BY DEF Working
<1>2. /\ applying \in [plan: Plans, id: Backups, progress: Progress, next: AtWork]
      /\ applying.progress = journals[p][b] /\ plans[p] # NoPlan
  BY <1>1 DEF Working, Applying
<1>3. /\ applying'.plan = p /\ applying'.id = b /\ applying'.progress = applying.progress
      /\ applying'.next = next
  BY <1>1, <1>2
<1>4. /\ pendingOf' = [c \in Backups |-> pendingOf'[c]] /\ pendingOf'[b] = p
      /\ \A c \in Backups : c # b => pendingOf'[c] = pendingOf[c]
  BY <1>1 DEF JournalInv
<1>5. Journalled'
  BY <1>1, <1>2, <1>4 DEF JournalInv, Journalled
<1>6. \A q \in Plans : plans[q] # NoPlan /\ Unopened(q) => Unopened(q)'
  <2> SUFFICES ASSUME NEW q \in Plans, plans[q] # NoPlan, Unopened(q) PROVE Unopened(q)'
    OBVIOUS
  <2>1. plans[q].candidates \subseteq Backups
    BY DEF IInv, PlansSound
  <2>2. QED
    BY <1>1, <2>1 DEF Unopened
<1>7. Unbegun' /\ Unopened(p)'
  BY <1>2, <1>6 DEF JournalInv, Unbegun, Owning, IInv, JournalsSound
<1>8. Owning'
  BY <1>1, <1>3, <1>4, <1>7 DEF JournalInv, Owning
<1>9. QED
  BY <1>4, <1>5, <1>7, <1>8 DEF JournalInv

LEMMA DirectoryJournalKept ==
  IInv /\ JournalInv /\ (ApplyRenames \/ ApplyOpens \/ ApplyUnlinks \/ ApplyRemoves) => JournalInv'
<1> SUFFICES ASSUME IInv, JournalInv, ApplyRenames \/ ApplyOpens \/ ApplyUnlinks \/ ApplyRemoves
             PROVE  JournalInv'
  OBVIOUS
<1>1. /\ holder = "apply" /\ applying.next \in {"rename", "open", "unlink", "rmdir"}
      /\ UNCHANGED <<holder, plans, journals>>
  BY DEF ApplyRenames, ApplyOpens, ApplyUnlinks, ApplyRemoves
<1>2. PICK p \in Plans : p = applying.plan /\ Applying(p) /\ Working(p)
  BY <1>1, AtTheCandidate
<1>3. PICK b \in Backups : b = applying.id
  BY <1>2 DEF Working
<1>4. PICK progress \in Progress : progress = applying.progress
  BY <1>2 DEF Working
<1>5. /\ b \in plans[p].candidates /\ progress = journals[p][b] /\ progress.phase # "planned"
      /\ applying.next \in Removing => place[b] = "pending"
  BY <1>1, <1>2, <1>3, <1>4 DEF Working
<1>6. /\ AtStep(applying.next, progress, files[b], place[b])
      /\ place[b] = "pending" => pendingOf[b] = p /\ Covers(progress, files[b], place[b])
      /\ place[b] \notin Away => progress.index = 0
  BY <1>1, <1>2, <1>3, <1>4, <1>5 DEF JournalInv, Owning, Journalled, Unopened, Away
<1>7. pendingOf[b] = p => pendingOf = [pendingOf EXCEPT ![b] = p]
  BY DEF JournalInv
<1>8. CASE ApplyRenames
  <2>1. /\ place' = [place EXCEPT ![b] = "pending"] /\ UNCHANGED files
        /\ pendingOf' = [pendingOf EXCEPT ![b] = p]
        /\ applying' = [applying EXCEPT !.next = "renamed"] /\ place[b] \in {"final", "pending"}
    BY <1>2, <1>3, <1>8 DEF ApplyRenames, Possible
  <2>2. place'[b] = "pending" /\ \A c \in Backups : c # b => place'[c] = place[c]
    BY <2>1 DEF IInv, Typed
  <2>3. Covers(progress, files[b], "pending")
    <3>1. CASE place[b] = "final"
      BY <1>4, <1>5, <1>6, <3>1, WholeCovered DEF Away, IInv, VisibleIsComplete, Visible
    <3>2. QED
      BY <1>6, <2>1, <3>1
  <2>4. QED
    BY <1>1, <1>2, <1>3, <1>4, <2>1, <2>2, <2>3, DirectoryCovered DEF AtStep, Away
<1>9. CASE ApplyOpens
  <2>1. /\ UNCHANGED <<place, files, pendingOf>> /\ place[b] = "pending"
        /\ applying' = [applying EXCEPT !.next = NextRemoval(progress)]
    BY <1>3, <1>4, <1>9 DEF ApplyOpens, Possible, createVars
  <2>2. AtStep(NextRemoval(progress), progress, files[b], place[b]) /\ NextRemoval(progress) # "choose"
    BY DEF AtStep, NextRemoval, Progress
  <2>3. QED
    BY <1>1, <1>2, <1>3, <1>4, <1>6, <1>7, <2>1, <2>2, DirectoryCovered DEF Away
<1>10. CASE ApplyUnlinks
  <2>1. /\ files' = [files EXCEPT ![b] = @ \ {FileOrder[progress.index + 1]}]
        /\ UNCHANGED <<place, pendingOf>> /\ applying.next = "unlink"
        /\ applying' = [applying EXCEPT !.next = "unlinked"]
    BY <1>3, <1>4, <1>10 DEF ApplyUnlinks
  <2>2. /\ place[b] = "pending" /\ progress.file = "unlink_started"
        /\ progress.index \in Nat /\ progress.index \in 0 .. 2
    BY <1>5, <1>6, <2>1 DEF AtStep, Progress, Removing
  <2>3. FilesFrom(progress.index + 1) \subseteq files[b] /\ files[b] \subseteq FilesFrom(progress.index)
    BY <1>6, <2>2 DEF Covers
  <2>4. files'[b] = FilesFrom(progress.index + 1)
        /\ \A c \in Backups : c # b => files'[c] = files[c]
    BY <2>1, <2>2, <2>3, FilesLeft DEF IInv, Typed
  <2>5. Covers(progress, files'[b], place[b])
    BY <1>6, <2>2, <2>4, FilesLeft DEF Covers
  <2>6. AtStep("unlinked", progress, files'[b], place[b])
    BY <2>2, <2>4 DEF AtStep
  <2>7. QED
    BY <1>1, <1>2, <1>3, <1>4, <1>6, <1>7, <2>1, <2>2, <2>4, <2>5, <2>6, DirectoryCovered DEF Away
<1>11. CASE ApplyRemoves
  <2>1. /\ place' = [place EXCEPT ![b] = "gone"] /\ UNCHANGED <<files, pendingOf>>
        /\ applying' = [applying EXCEPT !.next = "removed"] /\ applying.next = "rmdir"
    BY <1>3, <1>11 DEF ApplyRemoves
  <2>2. place'[b] = "gone" /\ \A c \in Backups : c # b => place'[c] = place[c]
    BY <2>1 DEF IInv, Typed
  <2>3. place[b] = "pending" /\ progress.dir # "ready"
    BY <1>5, <1>6, <2>1 DEF AtStep, Removing
  <2>4. Covers(progress, files[b], "gone") /\ AtStep("removed", progress, files[b], "gone")
    BY <1>6, <2>3 DEF Covers, AtStep
  <2>5. QED
    BY <1>1, <1>2, <1>3, <1>4, <1>6, <1>7, <2>1, <2>2, <2>3, <2>4, DirectoryCovered DEF Away
<1>12. QED
  BY <1>8, <1>9, <1>10, <1>11

LEMMA EndsJournalKept ==
  IInv /\ JournalInv /\ (ApplyRefuses \/ ApplyFails \/ ApplyCrashes) => JournalInv'
<1> SUFFICES ASSUME IInv, JournalInv, ApplyRefuses \/ ApplyFails \/ ApplyCrashes PROVE JournalInv'
  OBVIOUS
<1>1. holder = "apply" /\ holder' = "nobody" /\ UNCHANGED <<place, files, plans, pendingOf>>
  BY DEF ApplyRefuses, ApplyFails, ApplyCrashes, GivesUp, createVars
<1>2. CASE UNCHANGED journals
  BY <1>1, <1>2 DEF JournalInv, Journalled, Unbegun, Unopened, Owning
<1>3. CASE ~UNCHANGED journals
  <2>1. applying.next # "choose"
    BY <1>3 DEF ApplyRefuses, ApplyFails, ApplyCrashes
  <2>2. PICK p \in Plans : p = applying.plan /\ Applying(p) /\ Working(p)
    BY <1>1, <2>1, AtTheCandidate
  <2>3. /\ applying.progress \in Progress /\ applying.progress.phase # "deleted"
        /\ applying.next # "intend" => applying.progress.phase # "planned"
        /\ applying.next \in Removing => place[applying.id] = "pending"
        /\ applying.progress = journals[p][applying.id] /\ applying.id \in Backups
        /\ applying.id \in plans[p].candidates
    BY <2>2 DEF Working
  <2>4. PICK progress : /\ GivesUp(progress)
                        /\ \/ progress = applying.progress
                           \/ /\ applying.next \in Persisting
                              /\ progress = Record(applying.progress, applying.next).now
    BY <1>3 DEF ApplyRefuses, ApplyFails, ApplyCrashes
  <2>5. /\ progress \in Progress
        /\ progress.index = applying.progress.index \/ place[applying.id] = "pending"
        /\ Covers(applying.progress, files[applying.id], place[applying.id]) =>
             Covers(progress, files[applying.id], place[applying.id])
    <3>1. CASE progress = applying.progress
      BY <2>3, <3>1
    <3>2. CASE /\ applying.next \in Persisting
               /\ progress = Record(applying.progress, applying.next).now
      <4>1. AtStep(applying.next, applying.progress, files[applying.id], place[applying.id])
        BY <1>1, <2>1 DEF JournalInv, Owning
      <4>2. progress \in Progress
        BY <2>3, <3>2, RecordOf
      <4>3. /\ Covers(applying.progress, files[applying.id], place[applying.id]) =>
                 Covers(progress, files[applying.id], place[applying.id])
            /\ applying.next # "unlinked" => progress.index = applying.progress.index
        BY <2>3, <3>2, <4>1, RecordCovers
      <4>4. QED
        BY <2>3, <4>2, <4>3 DEF Removing
    <3>3. QED
      BY <2>4, <3>1, <3>2
  <2> DEFINE now == [progress EXCEPT !.phase = "cleanup_required"]
  <2>6. /\ now \in Progress /\ now.phase = "cleanup_required" /\ now.index = progress.index
        /\ now.file = progress.file /\ now.dir = progress.dir
    BY <2>5 DEF Progress
  <2>7. journals' = [journals EXCEPT ![p][applying.id] = now]
    BY <1>3, <2>2, <2>4 DEF GivesUp
  <2> HIDE DEF now
  <2>8. place[applying.id] \notin Away => now.index = 0
    BY <1>1, <2>2, <2>3, <2>5, <2>6 DEF JournalInv, Owning, Unopened, Away
  <2>9. place[applying.id] \in Away /\ pendingOf[applying.id] = p =>
          Covers(now, files[applying.id], place[applying.id])
    <3> SUFFICES ASSUME place[applying.id] \in Away, pendingOf[applying.id] = p
                 PROVE  Covers(now, files[applying.id], place[applying.id])
      OBVIOUS
    <3>1. Covers(applying.progress, files[applying.id], place[applying.id])
      BY <2>3 DEF JournalInv, Journalled
    <3>2. Covers(progress, files[applying.id], place[applying.id])
      BY <2>4, <2>5, <3>1 DEF Covers
    <3>3. QED
      BY <2>6, <3>2 DEF Covers
  <2>10. Journalled' /\ Unbegun'
    BY <1>1, <2>2, <2>6, <2>7, <2>8, <2>9, Writes
  <2>11. QED
    BY <1>1, <2>10 DEF JournalInv, Owning
<1>4. QED
  BY <1>2, <1>3

LEMMA JournalKept == IInv /\ JournalInv /\ [Next]_vars => JournalInv'
<1> SUFFICES ASSUME IInv, JournalInv, [Next]_vars PROVE JournalInv'
  OBVIOUS
<1>1. CASE UNCHANGED vars
  BY <1>1 DEF vars, rootVars, retentionVars, JournalInv, Journalled, Unbegun, Unopened, Owning
<1>2. CASE Next
  BY <1>2, OthersJournalKept, BeginsJournalKept, ChoosesJournalKept, PersistsJournalKept,
     DirectoryJournalKept, EndsJournalKept DEF Next, ApplySteps
<1>3. QED
  BY <1>1, <1>2

\* Whatever fails or dies during apply(), of a package that left the root no more is gone
\* than its journal has announced, so that the run that takes it up can tell where it is
\* (_apply_candidate and _delete_pending of backup_retention.py).
THEOREM ProgressCovers == Spec => []ProgressCoversDeletion
<1>1. JournalInv => ProgressCoversDeletion
  BY DEF JournalInv, Journalled, Covers, Away, ProgressCoversDeletion
<1>2. QED
  BY Invariant, JournalInit, JournalKept, <1>1, PTL DEF Spec
=============================================================================
