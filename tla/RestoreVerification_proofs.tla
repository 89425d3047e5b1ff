---------------------- MODULE RestoreVerification_proofs ----------------------
(***************************************************************************)
(* What the restore verification guarantees for any number of runs,        *)
(* overlapping cleanups, failures and crashes: a database it leaves can be *)
(* found and recognised as its own, a signature stands for a restored copy *)
(* that is gone again, and a report is true. All three follow from what    *)
(* the record, the database and the snapshot are at each call of a run,    *)
(* and from what is left of that when the run has ended anywhere.          *)
(***************************************************************************)
EXTENDS RestoreVerification, TLAPS

(***************************************************************************)
(* The situation of a run at the i-th of its calls.                        *)
(***************************************************************************)
RecordAt(i) == CASE i = 3 -> "planned"
                 [] i \in {4, 5} -> "create_started"
                 [] i = 6 -> "database_created"
                 [] i \in {7, 8} -> "identity_commit_started"
                 [] i \in {9, 10} -> "identity_committed"
                 [] i \in {11, 12, 13} -> "restore_started"
                 [] i \in {14, 15, 16} -> "verification_passed"
                 [] OTHER -> "none"

TargetAt(i) == CASE i \in 5 .. 7 -> "bare"
                 [] i \in 8 .. 14 -> "ours"
                 [] OTHER -> "absent"

SnapshotAt(i) == i \in {10, 11}

\* The last phase the run has written.
PhaseAt(i) == IF i \in {17, 18} THEN "verification_passed" ELSE RecordAt(i)

RunRecords == [at: {0} \cup 2 .. 19, phase: Phases \cup {"none"},
               initial: {0} \cup 1 .. MaxChanges + 1, restored: {0} \cup 1 .. MaxChanges + 1]

Results == [status: {"none", "pass", "fail"}]
           \cup [status: {"pass", "fail"}, cleanup: BOOLEAN, dropped: BOOLEAN]

Cleanings == {NotCleaning}
             \cup [step: {"inspect", "drop", "forget"}, run: Runs, phase: Phases]

Typed ==
  /\ package \in 1 .. MaxChanges + 1
  /\ records \in [Runs -> Phases \cup {"none"}]
  /\ target \in [Runs -> {"absent", "bare", "ours"}]
  /\ snapshots \subseteq Runs
  /\ run \in [Runs -> RunRecords]
  /\ results = [r \in Runs |-> results[r]]
  /\ cleaning \in [Cleaners -> Cleanings]

\* Nobody else touches what belongs to a run that is going.
InStep ==
  \A r \in Runs : run[r].at # Ended =>
    /\ records[r] = RecordAt(run[r].at) /\ target[r] = TargetAt(run[r].at)
    /\ r \in snapshots <=> SnapshotAt(run[r].at)
    /\ run[r].phase = PhaseAt(run[r].at) /\ results[r] = NoResult
    /\ run[r].at \in 10 .. 18 => run[r].restored = run[r].initial
    /\ \A c \in Cleaners : cleaning[c] # NotCleaning => cleaning[c].run # r

\* A cleanup removes the snapshot before it drops, and forgets the record when the
\* database is gone; the phase it read is one it was in.
Orderly ==
  \A c \in Cleaners : cleaning[c] # NotCleaning =>
    LET r == cleaning[c].run IN
    /\ cleaning[c].step # "inspect" => r \notin snapshots
    /\ cleaning[c].step = "forget" => target[r] = "absent"
    /\ cleaning[c].phase = "verification_passed" => target[r] \in {"ours", "absent"}

\* Nobody touches what belongs to the signing run either.
Signed ==
  sidecar # Unsigned =>
    /\ sidecar.run \in Runs /\ run[sidecar.run].at \in {18, 19}
    /\ sidecar.version = run[sidecar.run].restored
    /\ target[sidecar.run] = "absent" /\ records[sidecar.run] = "none"
    /\ \A c \in Cleaners : cleaning[c] # NotCleaning => cleaning[c].run # sidecar.run

\* A run that comes to the inventory is signed.
ToProject ==
  \A r \in Runs : run[r].at = 18 => sidecar # Unsigned /\ sidecar.version = run[r].initial

IInv == /\ Typed /\ InStep /\ Orderly /\ Signed /\ ToProject
        /\ LeftoverIsFindable /\ ReportIsHonest

(***************************************************************************)
(* The order of the calls, once and for all.                               *)
(***************************************************************************)
LEMMA Order ==
  /\ Ended = 19 /\ Len(Calls) = 18
  /\ Calls[1] = "capture"
  /\ Calls[2] = "planned"
  /\ Calls[3] = "create_started"
  /\ Calls[4] = "create"
  /\ Calls[5] = "database_created"
  /\ Calls[6] = "identity_commit_started"
  /\ Calls[7] = "comment"
  /\ Calls[8] = "identity_committed"
  /\ Calls[9] = "copy"
  /\ Calls[10] = "restore_started"
  /\ Calls[11] = "restore"
  /\ Calls[12] = "verify"
  /\ Calls[13] = "verification_passed"
  /\ Calls[14] = "drop"
  /\ Calls[15] = "confirm"
  /\ Calls[16] = "forget"
  /\ Calls[17] = "sign"
  /\ Calls[18] = "project"
BY DEF Calls, Ended

\* The call a run is at, by its number.
LEMMA StepOf ==
  ASSUME Typed, NEW r \in Runs
  PROVE  /\ run[r].at \in {0, 19} => Step(r) = "ended"
         /\ run[r].at \in 2 .. 18 => Step(r) = Calls[run[r].at]
         /\ run[r].at \in {0, 19} \cup 2 .. 18
<1>1. run[r].at \in {0} \cup 2 .. 19
  BY DEF Typed, RunRecords
<1>2. QED
  BY <1>1, Order DEF Step

LEMMA PastOf ==
  ASSUME Typed, NEW r \in Runs
  PROVE  /\ Past(r, "create") <=> run[r].at >= 5
         /\ Past(r, "confirm") <=> run[r].at >= 16
<1>1. run[r].at \in {0} \cup 2 .. 19
  BY DEF Typed, RunRecords
<1>2. \A i \in 1 .. 18 : (Calls[i] = "create" <=> i = 4) /\ (Calls[i] = "confirm" <=> i = 15)
  BY Order
<1>3. QED
  BY <1>1, <1>2, Order DEF Past

\* The situation of run r is that of its i-th call.
Situated(r, i) == /\ records[r] = RecordAt(i) /\ target[r] = TargetAt(i)
                  /\ r \in snapshots <=> SnapshotAt(i)

\* A call touches what belongs to its run only.
OnlyOf(r) == /\ records' \in [Runs -> Phases \cup {"none"}]
             /\ target' \in [Runs -> {"absent", "bare", "ours"}]
             /\ snapshots' \subseteq Runs
             /\ \A q \in Runs \ {r} : /\ records'[q] = records[q] /\ target'[q] = target[q]
                                      /\ q \in snapshots' <=> q \in snapshots

LEMMA EffectIsOwn ==
  ASSUME Typed, NEW r \in Runs, Effect(r)
  PROVE  OnlyOf(r)
<1>1. records' \in [Runs -> Phases \cup {"none"}] /\ \A q \in Runs \ {r} : records'[q] = records[q]
  BY DEF Effect, Typed
<1>2. target' \in [Runs -> {"absent", "bare", "ours"}] /\ \A q \in Runs \ {r} : target'[q] = target[q]
  BY DEF Effect, Typed
<1>3. snapshots' \subseteq Runs /\ \A q \in Runs \ {r} : q \in snapshots' <=> q \in snapshots
  BY DEF Effect, Typed
<1>4. QED
  BY <1>1, <1>2, <1>3 DEF OnlyOf

\* A call that has its effect brings the situation of the next one.
LEMMA EffectOf ==
  ASSUME Typed, NEW r \in Runs, NEW i \in 2 .. 18, run[r].at = i, Situated(r, i), Effect(r)
  PROVE  Situated(r, i + 1)'
<1> USE DEF Situated, RecordAt, TargetAt, SnapshotAt
<1>0. Step(r) = Calls[i] /\ i \in 2 .. 18
  BY StepOf
<1>1. records'[r] = IF Step(r) \in Phases THEN Step(r) ELSE IF Step(r) = "forget" THEN "none" ELSE records[r]
  <2>1. CASE Step(r) \in Phases
    BY <2>1 DEF Effect, Typed, Phases
  <2>2. CASE Step(r) = "forget"
    BY <2>2 DEF Effect, Typed, Phases
  <2>3. CASE Step(r) \notin Phases /\ Step(r) # "forget"
    BY <2>3 DEF Effect, Typed
  <2>4. QED
    BY <2>1, <2>2, <2>3
<1>2. target'[r] = CASE Step(r) = "create" -> "bare" [] Step(r) = "comment" -> "ours"
                     [] Step(r) = "drop" -> "absent" [] OTHER -> target[r]
  BY DEF Effect, Typed
<1>3. r \in snapshots' <=>
        (Step(r) = "copy" \/ (r \in snapshots /\ Step(r) \notin {"restore", "forget"}))
  BY DEF Effect
<1>4. CASE i = 2
  BY <1>4, <1>0, <1>1, <1>2, <1>3, Order DEF Phases
<1>5. CASE i = 3
  BY <1>5, <1>0, <1>1, <1>2, <1>3, Order DEF Phases
<1>6. CASE i = 4
  BY <1>6, <1>0, <1>1, <1>2, <1>3, Order DEF Phases
<1>7. CASE i = 5
  BY <1>7, <1>0, <1>1, <1>2, <1>3, Order DEF Phases
<1>8. CASE i = 6
  BY <1>8, <1>0, <1>1, <1>2, <1>3, Order DEF Phases
<1>9. CASE i = 7
  BY <1>9, <1>0, <1>1, <1>2, <1>3, Order DEF Phases
<1>10. CASE i = 8
  BY <1>10, <1>0, <1>1, <1>2, <1>3, Order DEF Phases
<1>11. CASE i = 9
  BY <1>11, <1>0, <1>1, <1>2, <1>3, Order DEF Phases
<1>12. CASE i = 10
  BY <1>12, <1>0, <1>1, <1>2, <1>3, Order DEF Phases
<1>13. CASE i = 11
  BY <1>13, <1>0, <1>1, <1>2, <1>3, Order DEF Phases
<1>14. CASE i = 12
  BY <1>14, <1>0, <1>1, <1>2, <1>3, Order DEF Phases
<1>15. CASE i = 13
  BY <1>15, <1>0, <1>1, <1>2, <1>3, Order DEF Phases
<1>16. CASE i = 14
  BY <1>16, <1>0, <1>1, <1>2, <1>3, Order DEF Phases
<1>17. CASE i = 15
  BY <1>17, <1>0, <1>1, <1>2, <1>3, Order DEF Phases
<1>18. CASE i = 16
  BY <1>18, <1>0, <1>1, <1>2, <1>3, Order DEF Phases
<1>19. CASE i = 17
  BY <1>19, <1>0, <1>1, <1>2, <1>3, Order DEF Phases
<1>20. CASE i = 18
  BY <1>20, <1>0, <1>1, <1>2, <1>3, Order DEF Phases
<1>21. QED
  BY <1>0, <1>4, <1>5, <1>6, <1>7, <1>8, <1>9, <1>10, <1>11, <1>12, <1>13, <1>14, <1>15, <1>16, <1>17, <1>18, <1>19, <1>20

\* What LeftoverIsFindable says of one run.
Findable(r) == /\ target[r] # "absent" => records[r] # "none" /\ target[r] \in IdentitiesIn(records[r])
               /\ r \in snapshots => records[r] # "none"

LEMMA FindableEach == LeftoverIsFindable <=> \A r \in Runs : Findable(r)
BY DEF LeftoverIsFindable, Findable, Cleanable

\* Wherever a run stops, cleanup() finds what it left.
LEMMA LeftFindable ==
  ASSUME NEW r \in Runs, NEW i \in 2 .. 19, Situated(r, i)
  PROVE  Findable(r)
BY DEF Situated, RecordAt, TargetAt, SnapshotAt, Findable, IdentitiesIn

LEMMA InitHolds == Init => IInv
<1> SUFFICES ASSUME Init PROVE IInv
  OBVIOUS
<1>1. Typed
  BY RestoreAssumption DEF Init, Typed, NotRun, RunRecords, NotCleaning, Cleanings
<1>2. InStep /\ Orderly /\ Signed /\ ToProject
  BY Order DEF Init, InStep, Orderly, Signed, ToProject, NotRun, NotCleaning, NoResult, RecordAt,
       TargetAt, SnapshotAt, PhaseAt
<1>3. LeftoverIsFindable /\ ReportIsHonest
  BY DEF Init, LeftoverIsFindable, ReportIsHonest
<1>4. QED
  BY <1>1, <1>2, <1>3 DEF IInv

(***************************************************************************)
(* A run goes on, or ends.                                                 *)
(***************************************************************************)
\* The report of a run is true, read after the step.
Honest(result, r) ==
  /\ ~result.cleanup => target[r] = "absent"
  /\ result.dropped => target[r] = "absent"
  /\ result.status = "pass" => sidecar # Unsigned /\ sidecar.version = run[r].initial

\* What a run reports is true after the step.
Told(r) == \E report : results' = [results EXCEPT ![r] = report] /\ Honest(report, r)'

LEMMA OthersUntouched ==
  ASSUME IInv, NEW r \in Runs, run[r].at \in 2 .. 18, OnlyOf(r),
         run' \in [Runs -> RunRecords], \A q \in Runs \ {r} : run'[q] = run[q],
         UNCHANGED <<package, cleaning>>, results' = [q \in Runs |-> results'[q]],
         \A q \in Runs \ {r} : results'[q] = results[q]
  PROVE  /\ Typed' /\ Orderly'
         /\ \A q \in Runs \ {r} : run'[q].at # Ended =>
              /\ records'[q] = RecordAt(run'[q].at) /\ target'[q] = TargetAt(run'[q].at)
              /\ q \in snapshots' <=> SnapshotAt(run'[q].at)
              /\ run'[q].phase = PhaseAt(run'[q].at) /\ results'[q] = NoResult
              /\ run'[q].at \in 10 .. 18 => run'[q].restored = run'[q].initial
              /\ \A c \in Cleaners : cleaning'[c] # NotCleaning => cleaning'[c].run # q
         /\ \A c \in Cleaners : cleaning'[c] # NotCleaning => cleaning'[c].run # r
         /\ \A q \in Runs \ {r} : Findable(q)'
<1>1. Typed'
  BY DEF IInv, Typed, OnlyOf
<1>2. \A c \in Cleaners : cleaning[c] # NotCleaning => cleaning[c].run \in Runs \ {r}
  BY Order DEF IInv, InStep, Typed, Cleanings
<1>3. Orderly'
  BY <1>2 DEF IInv, Orderly, OnlyOf
<1>4. \A q \in Runs \ {r} : run'[q].at # Ended =>
        /\ records'[q] = RecordAt(run'[q].at) /\ target'[q] = TargetAt(run'[q].at)
        /\ q \in snapshots' <=> SnapshotAt(run'[q].at)
        /\ run'[q].phase = PhaseAt(run'[q].at) /\ results'[q] = NoResult
        /\ run'[q].at \in 10 .. 18 => run'[q].restored = run'[q].initial
        /\ \A c \in Cleaners : cleaning'[c] # NotCleaning => cleaning'[c].run # q
  BY DEF IInv, InStep, OnlyOf
<1>5. \A q \in Runs \ {r} : Findable(q)'
  BY DEF IInv, LeftoverIsFindable, OnlyOf, Cleanable, Findable
<1>6. QED
  BY <1>1, <1>2, <1>3, <1>4, <1>5

LEMMA RunMoves ==
  ASSUME IInv, NEW r \in Runs, NEW i \in 2 .. 17, run[r].at = i, OnlyOf(r), Situated(r, i + 1)',
         run' \in [Runs -> RunRecords], \A q \in Runs \ {r} : run'[q] = run[q],
         run'[r].at = i + 1, run'[r].phase = PhaseAt(i + 1), run'[r].initial = run[r].initial,
         i >= 9 => run'[r].restored = run[r].initial,
         UNCHANGED <<package, cleaning, results>>,
         \/ i # 17 /\ UNCHANGED sidecar
         \/ /\ i = 17 /\ sidecar' # Unsigned /\ sidecar'.version = run[r].initial
            /\ sidecar = Unsigned => sidecar'.run = r
            /\ sidecar # Unsigned => UNCHANGED sidecar
  PROVE  IInv'
<1>1. results' = [q \in Runs |-> results'[q]] /\ i + 1 # Ended /\ i # Ended
  BY Order DEF IInv, Typed
<1>2. /\ Typed' /\ Orderly'
      /\ \A c \in Cleaners : cleaning'[c] # NotCleaning => cleaning'[c].run # r
  BY <1>1, OthersUntouched
<1>3. InStep'
  <2>1. results'[r] = NoResult
    BY <1>1 DEF IInv, InStep
  <2>2. QED
    BY <1>1, <1>2, <2>1, OthersUntouched DEF InStep, Situated
<1>4. LeftoverIsFindable'
  <2>1. Findable(r)'
    BY DEF Situated, TargetAt, RecordAt, SnapshotAt, Findable, IdentitiesIn
  <2>2. \A q \in Runs \ {r} : Findable(q)'
    BY <1>1, OthersUntouched
  <2>3. \A q \in Runs : Findable(q)'
    BY <2>1, <2>2
  <2>4. LeftoverIsFindable'
    BY <2>3 DEF LeftoverIsFindable, Findable, Cleanable
  <2>5. QED
    BY <2>1, <2>2, <2>4
<1>5. Signed'
  <2>1. CASE UNCHANGED sidecar
    BY <2>1, <1>2 DEF IInv, Signed, OnlyOf
  <2>2. CASE i = 17 /\ sidecar' # Unsigned /\ sidecar'.version = run[r].initial /\ sidecar'.run = r
    BY <2>2, <1>2 DEF Signed, Situated, TargetAt, RecordAt
  <2>3. QED
    BY <2>1, <2>2
<1>6. ToProject'
  <2>1. CASE UNCHANGED sidecar
    BY <2>1 DEF IInv, ToProject
  <2>2. CASE ~UNCHANGED sidecar
    <3>1. i = 17 /\ sidecar' # Unsigned /\ sidecar'.version = run[r].initial /\ sidecar = Unsigned
      BY <2>2
    <3>2. \A q \in Runs \ {r} : run'[q].at # 18
      BY <3>1 DEF IInv, ToProject
    <3>3. QED
      BY <3>1, <3>2 DEF ToProject
  <2>3. QED
    BY <2>1, <2>2
<1>7. ReportIsHonest'
  <2>1. results[r] = NoResult
    BY <1>1 DEF IInv, InStep
  <2>2. ASSUME NEW q \in Runs \ {r}, results[q] # NoResult
        PROVE  /\ ~results[q].cleanup => target'[q] = "absent"
               /\ results[q].dropped => target'[q] = "absent"
               /\ results[q].status = "pass" => sidecar' # Unsigned /\ sidecar'.version = run'[q].initial
    <3>1. target'[q] = target[q] /\ run'[q] = run[q]
      BY DEF OnlyOf
    <3>2. sidecar # Unsigned => UNCHANGED sidecar
      OBVIOUS
    <3>3. /\ ~results[q].cleanup => target[q] = "absent"
          /\ results[q].dropped => target[q] = "absent"
          /\ results[q].status = "pass" => sidecar # Unsigned /\ sidecar.version = run[q].initial
      BY <2>2 DEF IInv, ReportIsHonest
    <3>4. QED
      BY <3>1, <3>2, <3>3
  <2>3. QED
    BY <2>1, <2>2 DEF ReportIsHonest
<1>8. QED
  BY <1>2, <1>3, <1>4, <1>5, <1>6, <1>7 DEF IInv

LEMMA RunEnds ==
  ASSUME IInv, NEW r \in Runs, NEW i \in 2 .. 18, run[r].at = i, OnlyOf(r),
         run' = [run EXCEPT ![r].at = Ended], UNCHANGED <<world, cleaning>>,
         Findable(r)',
         i = 18 => target'[r] = "absent" /\ records'[r] = "none",
         UNCHANGED results \/ Told(r)
  PROVE  IInv'
<1>1. /\ run' \in [Runs -> RunRecords] /\ \A q \in Runs \ {r} : run'[q] = run[q]
      /\ run'[r].at = 19 /\ run'[r].initial = run[r].initial /\ run'[r].restored = run[r].restored
  BY Order DEF IInv, Typed, RunRecords
<1>2. results' = [q \in Runs |-> results'[q]] /\ \A q \in Runs \ {r} : results'[q] = results[q]
  BY DEF IInv, Typed, Told
<1>3. UNCHANGED <<package, cleaning, sidecar>>
  BY DEF world
<1>4. Typed' /\ Orderly' /\ InStep' /\ LeftoverIsFindable'
  <2>1. /\ Typed' /\ Orderly'
        /\ \A q \in Runs \ {r} : Findable(q)'
    BY <1>1, <1>2, <1>3, OthersUntouched
  <2>2. InStep'
    BY <1>1, <1>2, <1>3, OthersUntouched, Order DEF InStep
  <2>3. \A q \in Runs : Findable(q)'
    BY <2>1, <2>2
  <2>4. LeftoverIsFindable'
    BY <2>3 DEF LeftoverIsFindable, Findable, Cleanable
  <2>5. QED
    BY <2>1, <2>2, <2>4
<1>5. Signed'
  BY <1>1, <1>3 DEF IInv, Signed, OnlyOf
<1>6. ToProject'
  BY <1>1, <1>3 DEF IInv, ToProject
<1>7. ReportIsHonest'
  <2>1. ASSUME NEW q \in Runs \ {r}, results'[q] # NoResult
        PROVE  Honest(results[q], q)'
    <3>1. target'[q] = target[q] /\ run'[q] = run[q] /\ results'[q] = results[q]
      BY <1>1, <1>2 DEF OnlyOf
    <3>2. Honest(results[q], q)
      BY <2>1, <3>1 DEF IInv, ReportIsHonest, Honest
    <3>3. QED
      BY <1>3, <3>1, <3>2 DEF Honest
  <2>2. ASSUME results'[r] # NoResult PROVE Honest(results[r], r)'
    <3>1. results[r] = NoResult
      BY Order DEF IInv, InStep
    <3>2. PICK result : results' = [results EXCEPT ![r] = result] /\ Honest(result, r)'
      BY <2>2, <3>1 DEF Told
    <3>3. results'[r] = result
      BY <3>2 DEF IInv, Typed
    <3>4. QED
      BY <3>2, <3>3 DEF Honest
  <2>3. ASSUME NEW q \in Runs, results'[q] # NoResult PROVE Honest(results[q], q)'
    BY <2>1, <2>2, <2>3
  <2>4. QED
    BY <2>3 DEF ReportIsHonest, Honest
<1>8. QED
  BY <1>4, <1>5, <1>6, <1>7 DEF IInv

(***************************************************************************)
(* The steps of a run.                                                     *)
(***************************************************************************)
\* A run at one of its calls.
LEMMA Going ==
  ASSUME IInv, NEW r \in Runs, run[r].at \in 2 .. 18
  PROVE  \E i \in 2 .. 18 : /\ run[r].at = i /\ Step(r) = Calls[i] /\ Situated(r, i)
                            /\ run[r].phase = PhaseAt(i) /\ run[r] \in RunRecords
                            /\ i >= 10 => run[r].restored = run[r].initial
<1>1. run[r].at # Ended /\ Step(r) = Calls[run[r].at] /\ run[r] \in RunRecords
  BY StepOf, Order DEF IInv, Typed
<1>2. QED
  BY <1>1 DEF IInv, InStep, Situated

\* Where the report has no handle, or says that the database was dropped.
LEMMA HandleOf ==
  ASSUME IInv, NEW r \in Runs, NEW i \in 2 .. 18, run[r].at = i
  PROVE  /\ ~CleanupRequired(r) => i \in {2, 3}
         /\ Past(r, "confirm") => i >= 16
<1>1. run[r].phase = PhaseAt(i)
  BY Order DEF IInv, InStep
<1>2. Past(r, "create") <=> i >= 5
  BY PastOf DEF IInv
<1>3. Past(r, "confirm") => i >= 16
  BY PastOf DEF IInv
<1>4. QED
  BY <1>1, <1>2, <1>3 DEF CleanupRequired, PhaseAt, RecordAt

\* What a run leaves that ends at its i-th call.
Left(r, i) == /\ OnlyOf(r)
              /\ Findable(r)'
              /\ (i <= 3 \/ i >= 16) => target'[r] = "absent"
              /\ i = 18 => records'[r] = "none"

LEMMA RunReports ==
  ASSUME IInv, NEW r \in Runs, NEW i \in 2 .. 18, run[r].at = i, Left(r, i),
         UNCHANGED <<world, cleaning>>, NEW status \in {"pass", "fail"}, NEW cleanup \in BOOLEAN,
         Ends(r, status, cleanup), ~cleanup => ~CleanupRequired(r) \/ i >= 16,
         status = "pass" => i = 18
  PROVE  IInv'
<1> DEFINE dropped == Past(r, "confirm")
<1> DEFINE result == [status |-> status, cleanup |-> cleanup, dropped |-> dropped]
<1>1. run' = [run EXCEPT ![r].at = Ended] /\ results' = [results EXCEPT ![r] = result]
  BY DEF Ends
<1>2. ~cleanup => target'[r] = "absent"
  BY HandleOf DEF Left
<1>3. dropped => target'[r] = "absent"
  BY HandleOf DEF Left
<1>4. status = "pass" => sidecar' # Unsigned /\ sidecar'.version = run'[r].initial
  <2>1. run'[r].initial = run[r].initial /\ UNCHANGED sidecar
    BY <1>1 DEF IInv, Typed, RunRecords, world
  <2>2. QED
    BY <2>1 DEF IInv, ToProject
<1>5. PICK told \in BOOLEAN : told = dropped
  BY DEF Past
<1>6. results' = [results EXCEPT ![r] = [status |-> status, cleanup |-> cleanup, dropped |-> told]]
      /\ Honest([status |-> status, cleanup |-> cleanup, dropped |-> told], r)'
  BY <1>1, <1>2, <1>3, <1>4, <1>5 DEF Honest
<1>7. Told(r)
  BY <1>6 DEF Told
<1> HIDE DEF dropped, result
<1>8. OnlyOf(r) /\ Findable(r)' /\ (i = 18 => target'[r] = "absent" /\ records'[r] = "none")
  BY DEF Left
<1>9. QED
  BY <1>1, <1>7, <1>8, RunEnds

\* What a call leaves that may have had its effect.
LEMMA MaybeSituated ==
  ASSUME IInv, NEW r \in Runs, NEW i \in 2 .. 18, run[r].at = i, MaybeEffect(r)
  PROVE  Left(r, i)
<1>1. Situated(r, i)
  BY Order DEF IInv, InStep, Situated
<1>2. CASE Effect(r)
  <2>1. OnlyOf(r) /\ Situated(r, i + 1)'
    BY <1>1, <1>2, EffectIsOwn, EffectOf DEF IInv
  <2>2. QED
    BY <2>1 DEF Left, Situated, TargetAt, RecordAt, SnapshotAt, Findable, IdentitiesIn
<1>3. CASE UNCHANGED <<records, target, snapshots>>
  <2>1. OnlyOf(r)
    BY <1>3 DEF OnlyOf, IInv, Typed
  <2>2. QED
    BY <1>1, <1>3, <2>1 DEF Left, Situated, TargetAt, RecordAt, SnapshotAt, Findable, IdentitiesIn
<1>4. QED
  BY <1>2, <1>3 DEF MaybeEffect

LEMMA UntouchedSituated ==
  ASSUME IInv, NEW r \in Runs, NEW i \in 2 .. 18, run[r].at = i, UNCHANGED <<records, target, snapshots>>
  PROVE  Left(r, i)
BY MaybeSituated DEF MaybeEffect

\* The locals of a run after a call.
LEMMA RecordMoves ==
  ASSUME NEW x \in RunRecords, NEW i \in {0} \cup 2 .. 19, NEW phase \in Phases \cup {"none"},
         NEW version \in {0} \cup 1 .. MaxChanges + 1
  PROVE  /\ [x EXCEPT !.at = i, !.phase = phase] \in RunRecords
         /\ [x EXCEPT !.at = i, !.initial = version] \in RunRecords
         /\ [x EXCEPT !.at = i, !.restored = version] \in RunRecords
         /\ [x EXCEPT !.at = i] \in RunRecords
<1> USE DEF RunRecords
<1>1. [x EXCEPT !.at = i, !.phase = phase] \in RunRecords
  OBVIOUS
<1>2. [x EXCEPT !.at = i, !.initial = version] \in RunRecords
  OBVIOUS
<1>3. [x EXCEPT !.at = i, !.restored = version] \in RunRecords
  OBVIOUS
<1>4. [x EXCEPT !.at = i] \in RunRecords
  OBVIOUS
<1>5. QED
  BY <1>1, <1>2, <1>3, <1>4

LEMMA RunUpdated ==
  ASSUME Typed, NEW r \in Runs, NEW x \in RunRecords, run' = [run EXCEPT ![r] = x]
  PROVE  run' \in [Runs -> RunRecords] /\ run'[r] = x /\ \A q \in Runs \ {r} : run'[q] = run[q]
BY DEF Typed

LEMMA BeginsKept == \A r \in Runs : IInv /\ RunBegins(r) => IInv'
<1> SUFFICES ASSUME NEW r \in Runs, IInv, RunBegins(r) PROVE IInv'
  OBVIOUS
<1>1. /\ run[r] = NotRun /\ run' = [run EXCEPT ![r] = [NotRun EXCEPT !.at = 2, !.initial = package]]
      /\ UNCHANGED <<world, records, target, snapshots, results, cleaning>>
  BY DEF RunBegins
<1>2. /\ run' \in [Runs -> RunRecords] /\ run'[r].at = 2 /\ run'[r].phase = "none"
      /\ run[r].at = 0 /\ \A q \in Runs \ {r} : run'[q] = run[q]
  <2> DEFINE x == [NotRun EXCEPT !.at = 2, !.initial = package]
  <2>1. NotRun \in RunRecords /\ 2 \in {0} \cup 2 .. 19 /\ "none" \in Phases \cup {"none"}
        /\ package \in {0} \cup 1 .. MaxChanges + 1
    BY RestoreAssumption DEF IInv, Typed, RunRecords, NotRun
  <2>2. x \in RunRecords
    BY <2>1, RecordMoves
  <2>3. x.at = 2 /\ x.phase = "none" /\ run[r].at = 0
    BY <1>1 DEF NotRun
  <2> HIDE DEF x
  <2>4. QED
    BY <1>1, <2>2, <2>3, RunUpdated DEF x, IInv
<1>3. Typed' /\ Orderly'
  BY <1>1, <1>2 DEF IInv, Typed, Orderly, world
<1>4. InStep'
  <2>1. /\ records[r] = "none" /\ target[r] = "absent" /\ r \notin snapshots /\ results[r] = NoResult
        /\ \A c \in Cleaners : cleaning[c] # NotCleaning => cleaning[c].run # r
    BY <1>2, Order DEF IInv, InStep, RecordAt, TargetAt, SnapshotAt
  <2>2. QED
    BY <1>1, <1>2, <2>1 DEF IInv, InStep, RecordAt, TargetAt, SnapshotAt, PhaseAt
<1>5. Signed' /\ ToProject'
  BY <1>1, <1>2 DEF IInv, Signed, ToProject, world
<1>6. LeftoverIsFindable'
  BY <1>1 DEF IInv, LeftoverIsFindable, Cleanable
<1>7. ReportIsHonest'
  <2>1. results[r] = NoResult
    BY <1>2, Order DEF IInv, InStep
  <2>2. QED
    BY <1>1, <1>2, <2>1 DEF IInv, ReportIsHonest, world
<1>8. QED
  BY <1>3, <1>4, <1>5, <1>6, <1>7 DEF IInv

LEMMA CallOf ==
  \A i \in 2 .. 18 : /\ Calls[i] = "copy" => i = 9
                     /\ Calls[i] = "restore" => i = 11
                     /\ Calls[i] = "verify" => i = 12
                     /\ Calls[i] = "drop" => i = 14
                     /\ Calls[i] = "sign" => i = 17
                     /\ Calls[i] = "project" => i = 18
BY Order

LEMMA GoesOnKept == \A r \in Runs : IInv /\ RunGoesOn(r) => IInv'
<1> SUFFICES ASSUME NEW r \in Runs, IInv, RunGoesOn(r) PROVE IInv'
  OBVIOUS
<1>1. run[r].at \in 2 .. 18
  BY StepOf DEF IInv, RunGoesOn, RunSteps, RunCopies, RunRestores, RunVerifies, RunSigns, RunProjects,
     RunRefuses, Ordinary, Phases
<1>2. PICK i \in 2 .. 18 :
        /\ run[r].at = i /\ Step(r) = Calls[i] /\ Situated(r, i)
        /\ run[r].phase = PhaseAt(i) /\ run[r] \in RunRecords
        /\ i >= 10 => run[r].restored = run[r].initial
  BY <1>1, Going
<1>3. run \in [Runs -> RunRecords]
  BY DEF IInv, Typed
<1>4. CASE RunSteps(r)
  <2>1. i # 17 /\ i # 18 /\ i # 9 /\ i # 11 /\ i # 12
    BY <1>2, <1>4, Order DEF RunSteps, Ordinary, Phases
  <2>2. OnlyOf(r) /\ Situated(r, i + 1)'
    BY <1>2, <1>4, EffectIsOwn, EffectOf DEF RunSteps, IInv
  <2>3. /\ run' = [run EXCEPT ![r] = [run[r] EXCEPT !.at = i + 1, !.phase = PhaseAt(i + 1)]]
        /\ UNCHANGED <<package, sidecar, cleaning, results>>
    <3>1. (IF Step(r) \in Phases THEN Step(r) ELSE run[r].phase) = PhaseAt(i + 1)
      BY <1>2, <1>4, <2>1, Order DEF RunSteps, Ordinary, Phases, PhaseAt, RecordAt
    <3>2. QED
      BY <1>2, <1>3, <1>4, <3>1 DEF RunSteps, world
  <2>4. PhaseAt(i + 1) \in Phases \cup {"none"}
    BY DEF PhaseAt, RecordAt, Phases
  <2>5. /\ run' \in [Runs -> RunRecords] /\ \A q \in Runs \ {r} : run'[q] = run[q]
        /\ run'[r].at = i + 1 /\ run'[r].phase = PhaseAt(i + 1) /\ run'[r].initial = run[r].initial
        /\ run'[r].restored = run[r].restored
    <3> DEFINE x == [run[r] EXCEPT !.at = i + 1, !.phase = PhaseAt(i + 1)]
    <3>0. i + 1 \in {0} \cup 2 .. 19 /\ 0 \in {0} \cup 1 .. MaxChanges + 1
      OBVIOUS
    <3>1. x \in RunRecords
      BY <1>2, <2>4, <3>0, RecordMoves
    <3>2. /\ x.at = i + 1 /\ x.phase = PhaseAt(i + 1) /\ x.initial = run[r].initial
          /\ x.restored = run[r].restored
      BY <1>2 DEF RunRecords
    <3> HIDE DEF x
    <3>3. QED
      BY <2>3, <3>1, <3>2, RunUpdated DEF x, IInv
  <2>6. i \in 2 .. 17 /\ (i >= 9 => run'[r].restored = run[r].initial)
    BY <1>2, <2>1, <2>5
  <2>7. QED
    BY <1>2, <2>1, <2>2, <2>3, <2>5, <2>6, RunMoves
<1>5. CASE RunCopies(r)
  <2>1. i = 9
    BY <1>2, <1>5, CallOf DEF RunCopies
  <2>2. CASE SnapshotMatches(r)
    <3>1. OnlyOf(r) /\ Situated(r, i + 1)'
      BY <1>2, <1>5, <2>2, EffectIsOwn, EffectOf DEF RunCopies, IInv
    <3>2. /\ run' = [run EXCEPT ![r] = [run[r] EXCEPT !.at = i + 1, !.restored = package]]
          /\ UNCHANGED <<package, sidecar, cleaning, results>> /\ package = run[r].initial
      BY <1>2, <1>3, <1>5, <2>2 DEF RunCopies, SnapshotMatches, world
    <3>3. /\ run' \in [Runs -> RunRecords] /\ \A q \in Runs \ {r} : run'[q] = run[q]
          /\ run'[r].at = i + 1 /\ run'[r].phase = run[r].phase /\ run'[r].initial = run[r].initial
          /\ run'[r].restored = run[r].initial
      <4> DEFINE x == [run[r] EXCEPT !.at = i + 1, !.restored = package]
      <4>1. "none" \in Phases \cup {"none"} /\ package \in {0} \cup 1 .. MaxChanges + 1
            /\ i + 1 \in {0} \cup 2 .. 19
        BY DEF IInv, Typed
      <4>2. x \in RunRecords
        BY <1>2, <4>1, RecordMoves
      <4>3. /\ x.at = i + 1 /\ x.phase = run[r].phase /\ x.initial = run[r].initial
            /\ x.restored = package
        BY <1>2 DEF RunRecords
      <4> HIDE DEF x
      <4>4. QED
        BY <3>2, <4>2, <4>3, RunUpdated DEF x, IInv
    <3>4. run'[r].phase = PhaseAt(i + 1)
      BY <1>2, <2>1, <3>3 DEF PhaseAt, RecordAt
    <3>5. QED
      BY <1>2, <2>1, <3>1, <3>2, <3>3, <3>4, RunMoves
  <2>3. CASE ~SnapshotMatches(r)
    <3>1. PICK cleanup \in BOOLEAN : cleanup = CleanupRequired(r)
      BY DEF CleanupRequired, Past
    <3>2. Ends(r, "fail", cleanup) /\ UNCHANGED <<records, target, snapshots, world, cleaning>>
      BY <1>5, <2>3, <3>1 DEF RunCopies
    <3>3. Left(r, i)
      BY <1>2, <3>2, UntouchedSituated
    <3>4. QED
      BY <1>2, <2>1, <3>1, <3>2, <3>3, RunReports
  <2>4. QED
    BY <2>2, <2>3
<1>6. CASE RunRestores(r) \/ RunVerifies(r)
  <2>1. i \in {11, 12}
    BY <1>2, <1>6, CallOf DEF RunRestores, RunVerifies
  <2>2. Effect(r)
    <3>1. CASE RunRestores(r)
      BY <3>1 DEF RunRestores
    <3>2. CASE RunVerifies(r)
      BY <3>2 DEF RunVerifies, Effect, Phases
    <3>3. QED
      BY <1>6, <3>1, <3>2
  <2>3. OnlyOf(r) /\ Situated(r, i + 1)'
    BY <1>2, <2>2, EffectIsOwn, EffectOf DEF IInv
  <2>4. /\ run' = [run EXCEPT ![r] = [run[r] EXCEPT !.at = i + 1]]
        /\ UNCHANGED <<package, sidecar, cleaning, results>>
    BY <1>2, <1>3, <1>6 DEF RunRestores, RunVerifies, world
  <2>5. /\ run' \in [Runs -> RunRecords] /\ \A q \in Runs \ {r} : run'[q] = run[q]
        /\ run'[r].at = i + 1 /\ run'[r].phase = run[r].phase /\ run'[r].initial = run[r].initial
        /\ run'[r].restored = run[r].initial
    <3> DEFINE x == [run[r] EXCEPT !.at = i + 1]
    <3>1. /\ "none" \in Phases \cup {"none"} /\ 0 \in {0} \cup 1 .. MaxChanges + 1
        /\ i + 1 \in {0} \cup 2 .. 19
      OBVIOUS
    <3>2. x \in RunRecords
      BY <1>2, <3>1, RecordMoves
    <3>3. /\ x.at = i + 1 /\ x.phase = run[r].phase /\ x.initial = run[r].initial
          /\ x.restored = run[r].initial
      BY <1>2, <2>1 DEF RunRecords
    <3> HIDE DEF x
    <3>4. QED
      BY <2>4, <3>2, <3>3, RunUpdated DEF x, IInv
  <2>6. run'[r].phase = PhaseAt(i + 1)
    BY <1>2, <2>1, <2>5 DEF PhaseAt, RecordAt
  <2>7. QED
    BY <1>2, <2>1, <2>3, <2>4, <2>5, <2>6, RunMoves
<1>7. CASE RunSigns(r)
  <2>1. i = 17 /\ UNCHANGED <<package, inUse, records, target, snapshots, cleaning>>
    BY <1>2, <1>7, CallOf DEF RunSigns
  <2>2. CASE package = run[r].initial /\ (sidecar = Unsigned \/ sidecar.version = run[r].initial)
    <3>1. /\ run' = [run EXCEPT ![r] = [run[r] EXCEPT !.at = i + 1]] /\ UNCHANGED results
          /\ sidecar' = IF sidecar = Unsigned THEN [run |-> r, version |-> run[r].initial] ELSE sidecar
      BY <1>2, <1>3, <1>7, <2>2 DEF RunSigns
    <3>2. /\ run' \in [Runs -> RunRecords] /\ \A q \in Runs \ {r} : run'[q] = run[q]
          /\ run'[r].at = i + 1 /\ run'[r].phase = run[r].phase /\ run'[r].initial = run[r].initial
          /\ run'[r].restored = run[r].initial
      <4> DEFINE x == [run[r] EXCEPT !.at = i + 1]
      <4>1. /\ "none" \in Phases \cup {"none"} /\ 0 \in {0} \cup 1 .. MaxChanges + 1
          /\ i + 1 \in {0} \cup 2 .. 19
        OBVIOUS
      <4>2. x \in RunRecords
        BY <1>2, <4>1, RecordMoves
      <4>3. /\ x.at = i + 1 /\ x.phase = run[r].phase /\ x.initial = run[r].initial
            /\ x.restored = run[r].initial
        BY <1>2, <2>1 DEF RunRecords
      <4> HIDE DEF x
      <4>4. QED
        BY <3>1, <4>2, <4>3, RunUpdated DEF x, IInv
    <3>3. run'[r].phase = PhaseAt(i + 1) /\ OnlyOf(r) /\ Situated(r, i + 1)'
      <4>1. UNCHANGED <<records, target, snapshots>>
        BY <2>1
      <4>2. OnlyOf(r)
        BY <1>2, <4>1, UntouchedSituated DEF Left
      <4>3. QED
        BY <1>2, <2>1, <3>2, <4>1, <4>2 DEF PhaseAt, RecordAt, Situated, TargetAt, SnapshotAt
    <3>4. /\ sidecar' # Unsigned /\ sidecar'.version = run[r].initial
          /\ sidecar = Unsigned => sidecar'.run = r
          /\ sidecar # Unsigned => UNCHANGED sidecar
      <4>1. [run |-> r, version |-> run[r].initial] # Unsigned
        <5>1. run[r].initial \in Nat
          BY <1>2, RestoreAssumption DEF RunRecords
        <5>2. QED
          BY <5>1, RestoreAssumption
      <4>2. QED
        BY <2>2, <3>1, <4>1
    <3>5. QED
      BY <1>2, <2>1, <3>1, <3>2, <3>3, <3>4, RunMoves
  <2>3. CASE ~(package = run[r].initial /\ (sidecar = Unsigned \/ sidecar.version = run[r].initial))
    <3>1. Ends(r, "fail", FALSE) /\ UNCHANGED sidecar
      BY <1>7, <2>3 DEF RunSigns
    <3>2. Left(r, i)
      BY <1>2, <2>1, UntouchedSituated
    <3>3. UNCHANGED <<world, cleaning>>
      BY <2>1, <3>1 DEF world
    <3>4. PICK cleanup \in BOOLEAN : Ends(r, "fail", cleanup)
      BY <3>1
    <3>5. QED
      BY <1>2, <2>1, <3>2, <3>3, <3>4, RunReports
  <2>4. QED
    BY <2>2, <2>3
<1>8. CASE RunProjects(r)
  <2>1. i = 18 /\ UNCHANGED <<world, records, target, snapshots, cleaning>>
    BY <1>2, <1>8, CallOf DEF RunProjects
  <2>2. PICK status \in {"pass", "fail"}, cleanup \in BOOLEAN : Ends(r, status, cleanup)
    BY <1>8 DEF RunProjects
  <2>3. Left(r, i)
    BY <1>2, <2>1, <2>2, UntouchedSituated
  <2>4. QED
    BY <1>2, <2>1, <2>2, <2>3, RunReports
<1>9. CASE RunRefuses(r)
  <2>1. PICK cleanup \in BOOLEAN : cleanup = CleanupRequired(r)
    BY DEF CleanupRequired, Past
  <2>2. Ends(r, "fail", cleanup) /\ UNCHANGED <<records, target, snapshots, world, cleaning>>
    BY <1>9, <2>1 DEF RunRefuses
  <2>3. Left(r, i)
    BY <1>2, <2>1, <2>2, UntouchedSituated
  <2>4. QED
    BY <1>2, <2>1, <2>2, <2>3, RunReports
<1>10. QED
  BY <1>4, <1>5, <1>6, <1>7, <1>8, <1>9 DEF RunGoesOn

LEMMA FailsKept == \A r \in Runs : IInv /\ RunFails(r) => IInv'
<1> SUFFICES ASSUME NEW r \in Runs, IInv, RunFails(r) PROVE IInv'
  OBVIOUS
<1>1. run[r].at \in 2 .. 18
  BY Order DEF RunFails
<1>2. PICK i \in 2 .. 18 : run[r].at = i /\ Step(r) = Calls[i] /\ Situated(r, i)
  BY <1>1, Going
<1>3. Left(r, i)
  <2>1. CASE MaybeEffect(r)
    BY <1>2, <2>1, MaybeSituated
  <2>2. CASE ~MaybeEffect(r)
    <3>1. /\ Step(r) \in {"restore", "verify", "drop"}
          /\ records' = [records EXCEPT ![r] = PhaseOfFailure[Step(r)]]
          /\ snapshots' = snapshots \/ (Step(r) = "restore" /\ snapshots' = snapshots \ {r})
          /\ target' = target \/ (Step(r) = "drop" /\ target' = [target EXCEPT ![r] = "absent"])
      BY <2>2 DEF RunFails, PhaseOfFailure
    <3>2. i \in {11, 12, 14}
      BY <1>2, <3>1, CallOf
    <3>3. PhaseOfFailure[Step(r)] \in {"restore_failed", "verification_failed", "drop_failed"}
      BY <3>1 DEF PhaseOfFailure
    <3>4. records'[r] \in {"restore_failed", "verification_failed", "drop_failed"}
      BY <3>1, <3>3 DEF IInv, Typed
    <3>5. OnlyOf(r)
      BY <3>1, <3>3 DEF OnlyOf, IInv, Typed, Phases
    <3>6. target'[r] \in {"ours", "absent"}
      BY <1>2, <3>1, <3>2 DEF Situated, TargetAt, IInv, Typed
    <3>7. Findable(r)'
      BY <3>4, <3>6 DEF Findable, IdentitiesIn
    <3>8. QED
      BY <3>2, <3>5, <3>7 DEF Left
  <2>3. QED
    BY <2>1, <2>2
<1>4. UNCHANGED <<world, cleaning>>
  BY DEF RunFails
<1>5. PICK cleanup \in BOOLEAN : /\ Ends(r, "fail", cleanup)
                                 /\ ~cleanup => (~CleanupRequired(r) \/ i >= 16)
  <2>1. CASE Step(r) \in {"sign", "project"}
    <3>1. i >= 16
      BY <1>2, <2>1, CallOf
    <3>2. Ends(r, "fail", FALSE)
      BY <2>1 DEF RunFails
    <3>3. QED
      BY <3>1, <3>2
  <2>2. CASE Step(r) \notin {"sign", "project"}
    <3>1. PICK cleanup \in BOOLEAN : cleanup = CleanupRequired(r)
      BY DEF CleanupRequired, Past
    <3>2. Ends(r, "fail", cleanup)
      BY <2>2, <3>1 DEF RunFails
    <3>3. QED
      BY <3>1, <3>2
  <2>3. QED
    BY <2>1, <2>2
<1>6. QED
  BY <1>2, <1>3, <1>4, <1>5, RunReports

LEMMA StopsKept == \A r \in Runs : IInv /\ RunStops(r) => IInv'
<1> SUFFICES ASSUME NEW r \in Runs, IInv, RunStops(r) PROVE IInv'
  OBVIOUS
<1>1. run[r].at \in 2 .. 18
  BY Order DEF RunStops
<1>2. PICK i \in 2 .. 18 : run[r].at = i /\ Situated(r, i) /\ run[r].phase = PhaseAt(i)
  BY <1>1, Going
<1>3. Left(r, i)
  <2>1. CASE MaybeEffect(r)
    BY <1>2, <2>1, MaybeSituated
  <2>2. CASE ~MaybeEffect(r)
    <3>1. /\ run[r].phase = "restore_started" /\ UNCHANGED target
          /\ records' = [records EXCEPT ![r] = "restore_failed"]
          /\ snapshots' \in {snapshots, snapshots \ {r}}
      BY <2>2 DEF RunStops
    <3>2. i \in {11, 12, 13}
      BY <1>2, <3>1 DEF PhaseAt, RecordAt
    <3>3. records'[r] = "restore_failed" /\ target'[r] = "ours"
      BY <1>2, <3>1, <3>2 DEF Situated, TargetAt, IInv, Typed
    <3>4. OnlyOf(r)
      BY <3>1 DEF OnlyOf, IInv, Typed, Phases
    <3>5. Findable(r)'
      BY <3>3 DEF Findable, IdentitiesIn
    <3>6. QED
      BY <3>2, <3>4, <3>5 DEF Left
  <2>3. QED
    BY <2>1, <2>2
<1>4. run' = [run EXCEPT ![r].at = Ended] /\ UNCHANGED <<world, cleaning, results>>
  BY DEF RunStops
<1>5. OnlyOf(r) /\ Findable(r)' /\ (i = 18 => target'[r] = "absent" /\ records'[r] = "none")
  BY <1>3 DEF Left
<1>6. QED
  BY <1>2, <1>4, <1>5, RunEnds

(***************************************************************************)
(* A cleanup goes on, or stops.                                            *)
(***************************************************************************)
\* What a cleanup may be next without losing the order of its calls.
NextOf(c, x) ==
  \/ x = NotCleaning
  \/ /\ x \in Cleanings /\ x.run = cleaning[c].run /\ x.phase = cleaning[c].phase
     /\ x.step # "inspect" => cleaning[c].run \notin snapshots'
     /\ x.step = "forget" => target'[cleaning[c].run] = "absent"

LEMMA CleanerMoves ==
  ASSUME IInv, NEW c \in Cleaners, cleaning[c] # NotCleaning, NEW r \in Runs, r = cleaning[c].run,
         OnlyOf(r), UNCHANGED <<world, run, results>>, snapshots' \subseteq snapshots,
         target'[r] \in {target[r], "absent"}, Findable(r)',
         NEW x, NextOf(c, x), cleaning' = [cleaning EXCEPT ![c] = x]
  PROVE  IInv'
<1>1. run[r].at = Ended /\ (sidecar # Unsigned => sidecar.run # r)
  BY DEF IInv, InStep, Signed
<1>2. UNCHANGED <<package, sidecar>>
  BY DEF world
<1>3. cleaning' \in [Cleaners -> Cleanings] /\ cleaning'[c] = x
      /\ \A d \in Cleaners \ {c} : cleaning'[d] = cleaning[d]
  BY DEF IInv, Typed, NextOf, Cleanings
<1>4. Typed'
  BY <1>2, <1>3 DEF IInv, Typed, OnlyOf
<1>5. \A d \in Cleaners : cleaning'[d] # NotCleaning =>
        cleaning[d] # NotCleaning /\ cleaning'[d].run = cleaning[d].run
        /\ cleaning'[d].phase = cleaning[d].phase
  BY <1>3 DEF NextOf
<1>6. InStep'
  BY <1>1, <1>5 DEF IInv, InStep, OnlyOf
<1>7. Orderly'
  <2>1. ASSUME NEW d \in Cleaners, cleaning'[d] # NotCleaning
        PROVE  /\ cleaning'[d].step # "inspect" => cleaning'[d].run \notin snapshots'
               /\ cleaning'[d].step = "forget" => target'[cleaning'[d].run] = "absent"
               /\ cleaning'[d].phase = "verification_passed" =>
                    target'[cleaning'[d].run] \in {"ours", "absent"}
    <3>1. cleaning[d] # NotCleaning /\ cleaning[d].run \in Runs
      BY <1>5, <2>1 DEF IInv, Typed, Cleanings
    <3>2. \A q \in Runs : target'[q] \in {target[q], "absent"}
      BY DEF OnlyOf
    <3>3. cleaning'[d].phase = "verification_passed" =>
            target'[cleaning'[d].run] \in {"ours", "absent"}
      BY <1>5, <2>1, <3>1, <3>2 DEF IInv, Orderly
    <3>4. CASE d = c
      BY <1>3, <2>1, <3>3, <3>4 DEF NextOf
    <3>5. CASE d # c
      BY <1>3, <2>1, <3>1, <3>2, <3>3, <3>5 DEF IInv, Orderly
    <3>6. QED
      BY <3>4, <3>5
  <2>2. QED
    BY <2>1 DEF Orderly
<1>8. Signed' /\ ToProject'
  BY <1>1, <1>2, <1>5 DEF IInv, Signed, ToProject, OnlyOf
<1>9. LeftoverIsFindable'
  <2>1. \A q \in Runs : Findable(q)'
    BY DEF IInv, LeftoverIsFindable, OnlyOf, Cleanable, Findable
  <2>2. QED
    BY <2>1 DEF LeftoverIsFindable, Findable, Cleanable
<1>10. ReportIsHonest'
  BY <1>2 DEF IInv, ReportIsHonest, OnlyOf
<1>11. QED
  BY <1>4, <1>6, <1>7, <1>8, <1>9, <1>10 DEF IInv

LEMMA CleanupBeginsKept == \A c \in Cleaners, r \in Runs : IInv /\ CleanupBegins(c, r) => IInv'
<1> SUFFICES ASSUME NEW c \in Cleaners, NEW r \in Runs, IInv, CleanupBegins(c, r) PROVE IInv'
  OBVIOUS
<1> DEFINE x == [step |-> "inspect", run |-> r, phase |-> records[r]]
<1>1. /\ run[r].at = Ended /\ records[r] # "none" /\ cleaning' = [cleaning EXCEPT ![c] = x]
      /\ UNCHANGED <<world, records, target, snapshots, run, results>>
  BY DEF CleanupBegins
<1>2. x \in Cleanings /\ x.run = r /\ x.phase = records[r] /\ x.step = "inspect"
  BY <1>1 DEF IInv, Typed, Cleanings
<1> HIDE DEF x
<1>3. cleaning' \in [Cleaners -> Cleanings] /\ cleaning'[c] = x
      /\ \A d \in Cleaners \ {c} : cleaning'[d] = cleaning[d]
  BY <1>1, <1>2 DEF IInv, Typed
<1>4. Typed'
  BY <1>1, <1>3 DEF IInv, Typed, world
<1>5. InStep'
  BY <1>1, <1>2, <1>3 DEF IInv, InStep
<1>6. Orderly'
  <2>1. records[r] = "verification_passed" => target[r] \in {"ours", "absent"}
    BY DEF IInv, LeftoverIsFindable, Cleanable, IdentitiesIn
  <2>2. QED
    BY <1>1, <1>2, <1>3, <2>1 DEF IInv, Orderly
<1>7. Signed' /\ ToProject'
  BY <1>1, <1>2, <1>3 DEF IInv, Signed, ToProject, world
<1>8. LeftoverIsFindable' /\ ReportIsHonest'
  BY <1>1 DEF IInv, LeftoverIsFindable, Cleanable, ReportIsHonest, world
<1>9. QED
  BY <1>4, <1>5, <1>6, <1>7, <1>8 DEF IInv

\* What a cleanup that is under way knows of its run.
LEMMA Cleaning ==
  ASSUME IInv, NEW c \in Cleaners, cleaning[c] # NotCleaning
  PROVE  /\ cleaning[c].run \in Runs /\ cleaning[c] \in Cleanings
         /\ cleaning[c].step \in {"inspect", "drop", "forget"}
         /\ Findable(cleaning[c].run)
BY FindableEach DEF IInv, Typed, Cleanings

\* A cleanup that goes on from one step to another.
LEMMA ProceedsTo ==
  ASSUME IInv, NEW c \in Cleaners, cleaning[c] # NotCleaning, NEW step \in {"drop", "forget"},
         Proceeds(c, step), cleaning[c].run \notin snapshots',
         step = "forget" => target'[cleaning[c].run] = "absent"
  PROVE  \E x : NextOf(c, x) /\ cleaning' = [cleaning EXCEPT ![c] = x]
<1> DEFINE x == [cleaning[c] EXCEPT !.step = step]
<1>1. cleaning[c] \in [step: {"inspect", "drop", "forget"}, run: Runs, phase: Phases]
  BY DEF IInv, Typed, Cleanings
<1>2. x \in [step: {"inspect", "drop", "forget"}, run: Runs, phase: Phases]
      /\ x.step = step /\ x.run = cleaning[c].run /\ x.phase = cleaning[c].phase
  BY <1>1
<1>3. cleaning' = [cleaning EXCEPT ![c] = x]
  BY DEF Proceeds, IInv, Typed
<1> HIDE DEF x
<1>4. NextOf(c, x)
  BY <1>2 DEF NextOf, Cleanings
<1>5. QED
  BY <1>3, <1>4

LEMMA StopsAt ==
  ASSUME NEW c \in Cleaners, Stops(c)
  PROVE  \E x : NextOf(c, x) /\ cleaning' = [cleaning EXCEPT ![c] = x]
BY DEF Stops, NextOf

LEMMA InspectsKept == \A c \in Cleaners : IInv /\ CleanupInspects(c) => IInv'
<1> SUFFICES ASSUME NEW c \in Cleaners, IInv, CleanupInspects(c) PROVE IInv'
  OBVIOUS
<1>0. PICK r \in Runs : cleaning[c] # NotCleaning /\ r = cleaning[c].run
  BY Cleaning DEF CleanupInspects, NotCleaning
<1>1. cleaning[c] # NotCleaning /\ UNCHANGED <<world, records, target, run, results>>
  BY <1>0 DEF CleanupInspects, NotCleaning
<1>2. r \in Runs /\ Findable(r)
  BY <1>0, <1>1, Cleaning
<1>3. \/ /\ target[r] = "absent" /\ snapshots' = snapshots \ {r} /\ Proceeds(c, "forget")
      \/ snapshots' = snapshots \ {r} /\ Proceeds(c, "drop")
      \/ UNCHANGED snapshots /\ Stops(c)
  BY <1>0 DEF CleanupInspects
<1>4. \E x : NextOf(c, x) /\ cleaning' = [cleaning EXCEPT ![c] = x]
  <2>1. CASE Stops(c)
    BY <1>0, <2>1, StopsAt
  <2>2. CASE ~Stops(c)
    <3>1. r \notin snapshots' /\ UNCHANGED target
      BY <1>0, <1>1, <1>3, <2>2
    <3>2. CASE Proceeds(c, "drop")
      BY <1>0, <1>1, <3>1, <3>2, ProceedsTo
    <3>3. CASE Proceeds(c, "forget") /\ target[r] = "absent"
      BY <1>0, <1>1, <3>1, <3>3, ProceedsTo
    <3>4. QED
      BY <1>0, <1>3, <2>2, <3>2, <3>3
  <2>3. QED
    BY <1>0, <2>1, <2>2
<1>5. OnlyOf(r) /\ snapshots' \subseteq snapshots
  BY <1>0, <1>1, <1>2, <1>3 DEF OnlyOf, IInv, Typed
<1>6. Findable(r)' /\ target'[r] \in {target[r], "absent"}
  BY <1>0, <1>1, <1>2, <1>5 DEF Findable
<1>7. QED
  BY <1>0, <1>1, <1>2, <1>4, <1>5, <1>6, CleanerMoves

LEMMA DropsKept == \A c \in Cleaners : IInv /\ CleanupDrops(c) => IInv'
<1> SUFFICES ASSUME NEW c \in Cleaners, IInv, CleanupDrops(c) PROVE IInv'
  OBVIOUS
<1>0. PICK r \in Runs : cleaning[c] # NotCleaning /\ r = cleaning[c].run
  BY Cleaning DEF CleanupDrops, NotCleaning
<1>1. /\ cleaning[c] # NotCleaning /\ cleaning[c].step = "drop"
      /\ UNCHANGED <<world, snapshots, run, results>>
  BY <1>0 DEF CleanupDrops, NotCleaning
<1>2. r \in Runs /\ Findable(r) /\ r \notin snapshots
      /\ (cleaning[c].phase = "verification_passed" => target[r] \in {"ours", "absent"})
  BY <1>0, <1>1, Cleaning DEF IInv, Orderly
<1>3. \/ target' = [target EXCEPT ![r] = "absent"] /\ UNCHANGED records /\ Proceeds(c, "forget")
      \/ /\ Stops(c) /\ UNCHANGED target
         /\ \/ UNCHANGED records
            \/ /\ cleaning[c].phase = "verification_passed"
               /\ records' = [records EXCEPT ![r] = "drop_failed"]
  BY <1>0 DEF CleanupDrops
<1>4. OnlyOf(r)
  BY <1>0, <1>1, <1>2, <1>3 DEF OnlyOf, IInv, Typed, Phases
<1>5. target'[r] \in {target[r], "absent"}
  BY <1>0, <1>2, <1>3 DEF IInv, Typed
<1>6. Findable(r)'
  <2>1. CASE UNCHANGED records
    BY <1>0, <1>1, <1>2, <1>5, <2>1 DEF Findable
  <2>2. CASE cleaning[c].phase = "verification_passed" /\ records' = [records EXCEPT ![r] = "drop_failed"]
    <3>1. records'[r] = "drop_failed"
      BY <1>0, <1>2, <2>2 DEF IInv, Typed
    <3>2. QED
      BY <1>0, <1>1, <1>2, <1>5, <2>2, <3>1 DEF Findable, IdentitiesIn
  <2>3. QED
    BY <1>0, <1>3, <2>1, <2>2
<1>7. \E x : NextOf(c, x) /\ cleaning' = [cleaning EXCEPT ![c] = x]
  <2>1. CASE Stops(c)
    BY <1>0, <2>1, StopsAt
  <2>2. CASE Proceeds(c, "forget") /\ target' = [target EXCEPT ![r] = "absent"]
    <3>1. target'[r] = "absent" /\ r \notin snapshots'
      BY <1>0, <1>1, <1>2, <2>2 DEF IInv, Typed
    <3>2. QED
      BY <1>0, <1>1, <2>2, <3>1, ProceedsTo
  <2>3. QED
    BY <1>0, <1>3, <2>1, <2>2
<1>8. QED
  BY <1>0, <1>1, <1>2, <1>4, <1>5, <1>6, <1>7, CleanerMoves

LEMMA ForgetsKept == \A c \in Cleaners : IInv /\ CleanupForgets(c) => IInv'
<1> SUFFICES ASSUME NEW c \in Cleaners, IInv, CleanupForgets(c) PROVE IInv'
  OBVIOUS
<1>0. PICK r \in Runs : cleaning[c] # NotCleaning /\ r = cleaning[c].run
  BY Cleaning DEF CleanupForgets, NotCleaning
<1>1. /\ cleaning[c] # NotCleaning /\ cleaning[c].step = "forget"
      /\ records' = [records EXCEPT ![r] = "none"] /\ Stops(c)
      /\ UNCHANGED <<world, target, snapshots, run, results>>
  BY <1>0 DEF CleanupForgets, NotCleaning
<1>2. r \in Runs /\ r \notin snapshots /\ target[r] = "absent"
  BY <1>0, <1>1, Cleaning DEF IInv, Orderly
<1>3. OnlyOf(r)
  BY <1>0, <1>1, <1>2 DEF OnlyOf, IInv, Typed
<1>4. Findable(r)' /\ target'[r] \in {target[r], "absent"} /\ snapshots' \subseteq snapshots
  BY <1>0, <1>1, <1>2 DEF Findable
<1>5. \E x : NextOf(c, x) /\ cleaning' = [cleaning EXCEPT ![c] = x]
  BY <1>0, <1>1, StopsAt
<1>6. QED
  BY <1>0, <1>1, <1>2, <1>3, <1>4, <1>5, CleanerMoves

LEMMA CleanupFailsKept == \A c \in Cleaners : IInv /\ CleanupFails(c) => IInv'
<1> SUFFICES ASSUME NEW c \in Cleaners, IInv, CleanupFails(c) PROVE IInv'
  OBVIOUS
<1>0. PICK r \in Runs : cleaning[c] # NotCleaning /\ r = cleaning[c].run
  BY Cleaning DEF CleanupFails, NotCleaning
<1>1. /\ cleaning[c] # NotCleaning /\ Stops(c)
      /\ UNCHANGED <<world, snapshots, run, results>>
      /\ target' \in {target, [target EXCEPT ![r] = "absent"]}
      /\ \/ UNCHANGED records
         \/ /\ cleaning[c].step = "drop" /\ cleaning[c].phase = "verification_passed"
            /\ records' = [records EXCEPT ![r] = "drop_failed"]
  BY <1>0 DEF CleanupFails
<1>2. r \in Runs /\ Findable(r)
  BY <1>0, <1>1, Cleaning
<1>3. OnlyOf(r)
  BY <1>0, <1>1, <1>2 DEF OnlyOf, IInv, Typed, Phases
<1>4. target'[r] \in {target[r], "absent"}
  BY <1>0, <1>1, <1>2 DEF IInv, Typed
<1>5. Findable(r)'
  <2>1. CASE UNCHANGED records
    BY <1>0, <1>1, <1>2, <1>4, <2>1 DEF Findable
  <2>2. CASE /\ cleaning[c].step = "drop" /\ cleaning[c].phase = "verification_passed"
             /\ records' = [records EXCEPT ![r] = "drop_failed"]
    <3>1. records'[r] = "drop_failed"
      BY <1>0, <1>2, <2>2 DEF IInv, Typed
    <3>2. r \notin snapshots /\ target[r] \in {"ours", "absent"}
      BY <1>0, <1>1, <2>2 DEF IInv, Orderly
    <3>3. QED
      BY <1>0, <1>1, <1>4, <3>1, <3>2 DEF Findable, IdentitiesIn
  <2>3. QED
    BY <1>0, <1>1, <2>1, <2>2
<1>6. \E x : NextOf(c, x) /\ cleaning' = [cleaning EXCEPT ![c] = x]
  BY <1>0, <1>1, StopsAt
<1>7. QED
  BY <1>0, <1>1, <1>2, <1>3, <1>4, <1>5, <1>6, CleanerMoves

(***************************************************************************)
(* Others, and all together.                                               *)
(***************************************************************************)
LEMMA OthersKept ==
  IInv /\ (\/ \E r \in Runs : SessionOpens(r) \/ SessionEnds(r)
           \/ \E v \in 1 .. MaxChanges + 1 : PackageChanges(v)
           \/ UNCHANGED vars) => IInv'
<1> SUFFICES ASSUME IInv, \/ \E r \in Runs : SessionOpens(r) \/ SessionEnds(r)
                          \/ \E v \in 1 .. MaxChanges + 1 : PackageChanges(v)
                          \/ UNCHANGED vars
             PROVE  IInv'
  OBVIOUS
<1>1. /\ UNCHANGED <<sidecar, records, target, snapshots, run, results, cleaning>>
      /\ package' \in 1 .. MaxChanges + 1
  BY DEF SessionOpens, SessionEnds, PackageChanges, vars, IInv, Typed
<1>2. Typed' /\ InStep' /\ Orderly'
  BY <1>1 DEF IInv, Typed, InStep, Orderly
<1>3. Signed' /\ ToProject' /\ LeftoverIsFindable' /\ ReportIsHonest'
  BY <1>1 DEF IInv, Signed, ToProject, LeftoverIsFindable, Cleanable, ReportIsHonest
<1>4. QED
  BY <1>2, <1>3 DEF IInv

LEMMA StepKeeps == IInv /\ [Next]_vars => IInv'
<1> SUFFICES ASSUME IInv, [Next]_vars PROVE IInv'
  OBVIOUS
<1>1. CASE \E r \in Runs : RunBegins(r) \/ RunGoesOn(r) \/ RunFails(r) \/ RunStops(r)
  BY <1>1, BeginsKept, GoesOnKept, FailsKept, StopsKept
<1>2. CASE \E c \in Cleaners, r \in Runs : CleanupBegins(c, r)
  BY <1>2, CleanupBeginsKept
<1>3. CASE \E c \in Cleaners : CleanupGoesOn(c) \/ CleanupFails(c)
  BY <1>3, InspectsKept, DropsKept, ForgetsKept, CleanupFailsKept DEF CleanupGoesOn
<1>4. CASE \/ \E r \in Runs : SessionOpens(r) \/ SessionEnds(r)
           \/ \E v \in 1 .. MaxChanges + 1 : PackageChanges(v)
           \/ UNCHANGED vars
  BY <1>4, OthersKept
<1>5. QED
  BY <1>1, <1>2, <1>3, <1>4 DEF Next

LEMMA Invariant == Spec => []IInv
<1>1. QED
  BY InitHolds, StepKeeps, PTL DEF Spec

\* For any number of runs and overlapping cleanups, and wherever each of them failed or
\* died: a database that was left has a record in a phase in which cleanup() takes it as
\* its own, and so has a private copy of the dump.
THEOREM LeftoversFindable == Spec => []LeftoverIsFindable
<1>1. IInv => LeftoverIsFindable
  BY DEF IInv
<1>2. QED
  BY <1>1, Invariant, PTL

\* A signature stands for a copy of that very version that was restored and verified, in
\* a database that is gone again together with its record.
THEOREM SignedWasRestored == Spec => []VerifiedIsRestored
<1>1. IInv => VerifiedIsRestored
  BY DEF IInv, Signed, VerifiedIsRestored
<1>2. QED
  BY <1>1, Invariant, PTL

\* A report without a handle leaves no database, one that says "dropped" is right, and
\* one that says "pass" is backed by a signature of the version the run captured.
THEOREM ReportsTrue == Spec => []ReportIsHonest
<1>1. IInv => ReportIsHonest
  BY DEF IInv
<1>2. QED
  BY <1>1, Invariant, PTL
=============================================================================
