-------------------------- MODULE LogRotation_proofs --------------------------
(***************************************************************************)
(* What the log rotation guarantees for any number of heartbeat sinks,     *)
(* lines, failures and crashes, and any limits of retention: nothing that  *)
(* was acknowledged is lost before retention takes it, oldest first, and   *)
(* no line is archived twice. Both rest on where a run is, on the phase of *)
(* the pending file that its metadata gives, and on one order: the active  *)
(* file is newer than the pending one, and that newer than every archive.  *)
(***************************************************************************)
EXTENDS LogRotation, TLAPS

(***************************************************************************)
(* The inductive invariant.                                                *)
(***************************************************************************)
Steps == {"idle", "recover", "check", "copy", "commit", "describe", "truncate", "confirm",
          "rename", "create", "gzip", "unlink", "retention"}
Metas == {"absent", "none", "missing", "snapshot_committed", "active_truncated"}
AppCalls == {"copy", "commit", "describe", "truncate", "confirm"}
HeartbeatCalls == {"rename", "create"}
Lines == Nat \ {0}

Runs == [step : Steps, target : Targets \cup {"none"}, copy : SUBSET Lines,
         recovered : SUBSET Targets, recovering : BOOLEAN]
PendingFiles == [meta : Metas, lines : SUBSET Lines, inode : Nat, id : Nat]
Archives == [target : Targets, id : Nat, lines : SUBSET Lines, mtime : Nat]

Typed ==
  /\ active \in [Targets -> SUBSET Lines] /\ inode \in Nat
  /\ pending \in [Targets -> PendingFiles] /\ archives \subseteq Archives
  /\ engine \in Runs
  /\ hbLock \in Sinks \cup {Free, "engine"} /\ sinks \in [Sinks -> Nat]
  /\ written \in [Targets -> Nat]
  /\ late \subseteq Lines /\ acked \subseteq Lines /\ cleaned \in [Targets -> SUBSET Lines]
  /\ failures \in Nat

\* Which target a call is about, and when a run recovers.
RunInPlace ==
  /\ engine.step = "idle" => engine = Idle
  /\ engine.step \in AppCalls => engine.target = "app"
  /\ engine.step \in HeartbeatCalls => engine.target = "heartbeat"
  /\ engine.step \in {"check", "gzip", "unlink"} => engine.target \in Targets
  /\ engine.recovering => engine.step \in {"recover", "gzip", "unlink"}

\* The engine has the heartbeat lock from the rename to the new file. A sink that has the
\* file open has the lock, so that what it has open is still the active file.
LockHeld ==
  /\ hbLock = "engine" <=> engine.step = "create"
  /\ \A s \in Sinks : sinks[s] # 0 => hbLock = s /\ sinks[s] = inode

\* Only an application log has metadata; a renamed heartbeat file is never the active one.
PhasesRight ==
  /\ \A t \in Targets : pending[t].meta = "absent" => pending[t] = NoPending
  /\ pending["app"].meta # "none" /\ pending["app"].inode = 0
  /\ pending["heartbeat"].meta \in {"absent", "none"}
  /\ pending["heartbeat"].meta = "none" =>
       pending["heartbeat"].inode # 0 /\ inode # pending["heartbeat"].inode
  /\ inode = 0 => active["heartbeat"] = {}

\* Where a run is tells what is pending: a rotation begins with nothing pending, and an
\* application log is compressed only after its truncation.
InStep ==
  /\ engine.step \in {"copy", "commit"} => pending["app"] = NoPending
  /\ engine.step = "check" /\ engine.target = "app" => pending["app"] = NoPending
  /\ engine.step = "describe" => pending["app"].meta = "missing"
  /\ engine.step \in {"truncate", "confirm"} => pending["app"].meta = "snapshot_committed"
  /\ engine.step \in {"gzip", "unlink"} /\ engine.target = "app" =>
       pending["app"].meta = "active_truncated"
  /\ engine.step \in {"gzip", "unlink"} /\ engine.target = "heartbeat" =>
       pending["heartbeat"].meta = "none"
  /\ engine.step = "create" => pending["heartbeat"].meta = "none" /\ inode = 0
  /\ engine.step \in {"check", "rename"} \cup AppCalls => pending["heartbeat"] = NoPending
  /\ engine.step \in {"gzip", "unlink"} /\ engine.target = "app" /\ ~engine.recovering =>
       pending["heartbeat"] = NoPending

\* A file's id bounds its lines, and the active file is newer than every archive.
Numbered ==
  \A t \in Targets :
    /\ active[t] \cup pending[t].lines \subseteq 1 .. written[t]
    /\ pending[t].id <= written[t] /\ \A n \in cleaned[t] : n <= written[t]
    /\ pending[t].lines \subseteq 1 .. pending[t].id
    /\ \A a \in OfTarget(t) :
         /\ a.lines \subseteq 1 .. a.id /\ a.id <= written[t]
         /\ \A n \in active[t] : a.id < n

\* The archives of a target are in the same order by id, by mtime and by their lines.
ArchivesApart ==
  \A a, b \in archives : a.target = b.target /\ a # b =>
    /\ a.id # b.id
    /\ a.id < b.id => a.mtime < b.mtime /\ \A n \in b.lines : a.id < n

\* A pending file is newer than every archive, but for the one already made of it.
PendingApart ==
  \A t \in Targets : pending[t].meta # "absent" =>
    /\ \A n \in cleaned[t] : n <= pending[t].id
    /\ \A a \in OfTarget(t) :
         /\ a.id <= pending[t].id
         /\ a.id = pending[t].id => a.lines = pending[t].lines
         /\ a.id # pending[t].id => \A n \in pending[t].lines : a.id < n

\* What may still be in the active file, or may go back there, has no archive.
NotYetArchived ==
  /\ engine.step = "create" => \A a \in OfTarget("heartbeat") : a.id # pending["heartbeat"].id
  /\ pending["app"].meta \in {"missing", "snapshot_committed"} =>
       \A a \in OfTarget("app") : a.id # pending["app"].id

\* From the truncation or the rename on, the active file is newer than the pending one.
ActiveIsNewer ==
  /\ engine.step = "confirm" \/ pending["app"].meta = "active_truncated" =>
       \A n \in active["app"] : pending["app"].id < n
  /\ pending["heartbeat"].meta = "none" => \A n \in active["heartbeat"] : pending["heartbeat"].id < n

\* Until the truncation only late lines are missing from the snapshot.
SnapshotCovers ==
  /\ engine.step = "copy" => active["app"] # {}
  /\ engine.step = "rename" => active["heartbeat"] # {}
  /\ engine.step = "commit" => /\ engine.copy # {} /\ engine.copy \subseteq active["app"]
                               /\ active["app"] \subseteq engine.copy \cup late
  /\ engine.step \in {"describe", "truncate"} => active["app"] \subseteq pending["app"].lines \cup late

\* A pending file is removed only when it has its archive.
GzippedFirst ==
  engine.step = "unlink" =>
    \E a \in OfTarget(engine.target) :
      a.id = pending[engine.target].id /\ a.lines = pending[engine.target].lines

IInv == /\ Typed /\ RunInPlace /\ LockHeld /\ PhasesRight /\ InStep
        /\ Numbered /\ ArchivesApart /\ PendingApart /\ NotYetArchived /\ ActiveIsNewer
        /\ SnapshotCovers /\ GzippedFirst /\ NothingLost

(***************************************************************************)
(* What the steps do to the run, for the invariants that follow it.        *)
(***************************************************************************)
\* The loop goes on with the heartbeat, or is over.
MovesOn ==
  /\ engine'.copy = {} /\ engine'.recovering = engine.recovering
  /\ \/ engine.target = "app" /\ engine'.step = "check" /\ engine'.target = "heartbeat"
     \/ engine.target # "app" /\ engine'.step = "retention" /\ engine'.target = engine.target

LEMMA NextTargetMoves ==
  ASSUME Typed, engine' = NextTarget(engine)
  PROVE  engine' \in Runs /\ MovesOn
<1>1. CASE engine.target = "app"
  <2>1. engine' = [engine EXCEPT !.step = "check", !.target = "heartbeat", !.copy = {}]
    BY <1>1 DEF NextTarget
  <2>2. QED
    BY <1>1, <2>1 DEF Typed, Runs, Steps, Targets, Lines, MovesOn
<1>2. CASE engine.target # "app"
  <2>1. engine' = [engine EXCEPT !.step = "retention", !.copy = {}]
    BY <1>2 DEF NextTarget
  <2>2. QED
    BY <1>2, <2>1 DEF Typed, Runs, Steps, Targets, Lines, MovesOn
<1>3. QED
  BY <1>1, <1>2

LEMMA IdleRun ==
  /\ Idle \in Runs
  /\ Idle.step = "idle" /\ Idle.target = "none" /\ Idle.copy = {} /\ Idle.recovering = FALSE
BY DEF Idle, Runs, Steps, Targets, Lines

LEMMA NoPendingFile ==
  /\ NoPending \in PendingFiles
  /\ NoPending.meta = "absent" /\ NoPending.lines = {} /\ NoPending.inode = 0 /\ NoPending.id = 0
BY DEF NoPending, PendingFiles, Metas, Lines

\* A run that recovers takes up a pending file, gives up, or goes on to the first target.
LEMMA Recovers ==
  ASSUME Typed, RunRecovers
  PROVE  /\ engine' \in Runs
         /\ engine.step = "recover"
         /\ UNCHANGED <<active, inode, pending, archives, hbLock, sinks, written, late, acked, cleaned, failures>>
         /\ \/ /\ \A t \in Targets : pending[t] = NoPending
               /\ engine'.step = "check" /\ engine'.target = "app" /\ ~engine'.recovering
            \/ /\ engine'.step = "gzip" /\ engine'.target \in Targets /\ engine'.recovering
               /\ pending[engine'.target] # NoPending /\ Recoverable(engine'.target)
            \/ engine' = Idle
<1> USE DEF RunRecovers, At, files, history
<1>1. CASE \A t \in Targets : pending[t] = NoPending
  <2>1. engine' = [engine EXCEPT !.step = "check", !.target = "app", !.recovering = FALSE]
    BY <1>1 DEF FirstPending, Targets
  <2>2. QED
    BY <1>1, <2>1 DEF Typed, Runs, Steps, Targets
<1>2. ASSUME NEW t \in Targets, FirstPending(t),
             engine' = IF Recoverable(t)
                       THEN [engine EXCEPT !.step = "gzip", !.target = t, !.recovering = TRUE]
                       ELSE Idle
      PROVE  /\ engine' \in Runs
             /\ \/ /\ engine'.step = "gzip" /\ engine'.target = t /\ engine'.recovering
                   /\ pending[t] # NoPending /\ Recoverable(t)
                \/ engine' = Idle
  <2>1. CASE Recoverable(t)
    <3>1. engine' = [engine EXCEPT !.step = "gzip", !.target = t, !.recovering = TRUE]
      BY <1>2, <2>1
    <3>2. QED
      BY <1>2, <2>1, <3>1 DEF Typed, Runs, Steps, FirstPending
  <2>2. CASE ~Recoverable(t)
    BY <1>2, <2>2, IdleRun
  <2>3. QED
    BY <2>1, <2>2
<1>3. QED
  BY <1>1, <1>2

\* A check leaves a target alone or begins to rotate it.
LEMMA Checks ==
  ASSUME Typed, RunInPlace, RunChecks
  PROVE  /\ engine' \in Runs
         /\ engine.step = "check" /\ engine.target \in Targets
         /\ UNCHANGED <<active, inode, pending, archives, hbLock, sinks, written, late, acked, cleaned, failures>>
         /\ \/ MovesOn
            \/ /\ engine'.target = engine.target /\ engine'.copy = engine.copy
               /\ engine'.recovering = engine.recovering /\ active[engine.target] # {}
               /\ \/ engine.target = "app" /\ engine'.step = "copy"
                  \/ engine.target = "heartbeat" /\ engine'.step = "rename" /\ inode # 0
<1> USE DEF RunChecks, At, files, history, RunInPlace
<1>1. CASE engine' = NextTarget(engine)
  BY <1>1, NextTargetMoves
<1>2. CASE engine' # NextTarget(engine)
  <2>1. engine.target = "app" \/ engine.target = "heartbeat"
    BY DEF Targets
  <2>2. FirstCall["app"] = "copy" /\ FirstCall["heartbeat"] = "rename"
    BY DEF FirstCall
  <2>3. /\ engine' = [engine EXCEPT !.step = FirstCall[engine.target]]
        /\ active[engine.target] # {} /\ (engine.target = "heartbeat" => inode # 0)
    BY <1>2
  <2>4. CASE engine.target = "app"
    BY <2>2, <2>3, <2>4 DEF Typed, Runs, Steps, Targets
  <2>5. CASE engine.target = "heartbeat"
    BY <2>2, <2>3, <2>5 DEF Typed, Runs, Steps, Targets
  <2>6. QED
    BY <2>1, <2>4, <2>5
<1>3. QED
  BY <1>1, <1>2

\* A failing call ends the run, or the turn of its target.
LEMMA Fails ==
  ASSUME Typed, RunInPlace, RunFails
  PROVE  /\ engine' \in Runs
         /\ engine.step \notin {"idle", "create"} /\ failures' = failures + 1
         /\ UNCHANGED <<active, inode, pending, archives, hbLock, sinks, written, late, acked, cleaned>>
         /\ \/ engine' = Idle
            \/ ~engine.recovering /\ engine.step \notin {"recover", "retention"} /\ MovesOn
<1> USE DEF RunFails, At, files, history, RunInPlace
<1>1. CASE engine.recovering \/ engine.step \in {"recover", "retention"}
  BY <1>1, IdleRun
<1>2. CASE ~(engine.recovering \/ engine.step \in {"recover", "retention"})
  BY <1>2, NextTargetMoves
<1>3. QED
  BY <1>1, <1>2

\* The next call of the same target.
LEMMA Advances ==
  ASSUME Typed, Advance, engine.step \in DOMAIN CallAfter
  PROVE  /\ engine' \in Runs /\ engine'.step = CallAfter[engine.step]
         /\ engine'.target = engine.target /\ engine'.copy = engine.copy
         /\ engine'.recovering = engine.recovering /\ engine'.recovered = engine.recovered
<1>1. CallAfter[engine.step] \in Steps
  BY DEF CallAfter, Steps
<1>2. QED
  BY <1>1 DEF Advance, Typed, Runs

\* The pending file goes; a recovery looks for the next one.
LEMMA Unlinked ==
  ASSUME Typed, RunInPlace, Unlinks
  PROVE  /\ engine' \in Runs /\ engine.step = "unlink" /\ engine.target \in Targets
         /\ pending' = [pending EXCEPT ![engine.target] = NoPending]
         /\ UNCHANGED <<active, inode, archives, hbLock, sinks, written, late, acked, cleaned, failures>>
         /\ \/ engine.recovering /\ engine'.step = "recover"
            \/ ~engine.recovering /\ MovesOn
<1> USE DEF Unlinks, At, history, RunInPlace
<1>1. CASE engine.recovering
  <2>1. engine' = [engine EXCEPT !.step = "recover", !.recovered = @ \cup {engine.target}]
    BY <1>1
  <2>2. engine.recovered \cup {engine.target} \in SUBSET Targets
    BY DEF Typed, Runs
  <2>3. QED
    BY <1>1, <2>1, <2>2 DEF Typed, Runs, Steps
<1>2. CASE ~engine.recovering
  BY <1>2, NextTargetMoves
<1>3. QED
  BY <1>1, <1>2

\* The rename of the heartbeat file, with the lock, or nothing at all.
LEMMA Renamed ==
  ASSUME Typed, RunInPlace, HeartbeatRenames
  PROVE  /\ engine' \in Runs /\ engine.step = "rename" /\ engine.target = "heartbeat"
         /\ UNCHANGED <<archives, sinks, written, late, acked, cleaned, failures>>
         /\ \/ /\ hbLock = Free /\ hbLock' = "engine" /\ engine'.step = "create"
               /\ engine'.target = "heartbeat" /\ engine'.copy = engine.copy
               /\ engine'.recovering = engine.recovering
               /\ pending' = [pending EXCEPT !["heartbeat"] =
                    [meta |-> "none", lines |-> active["heartbeat"], inode |-> inode,
                     id |-> written["heartbeat"]]]
               /\ active' = [active EXCEPT !["heartbeat"] = {}] /\ inode' = 0
            \/ UNCHANGED <<active, inode, pending, hbLock>> /\ MovesOn
<1> USE DEF HeartbeatRenames, At, history, RunInPlace, HeartbeatCalls
<1>1. engine.step = "rename" /\ engine.target = "heartbeat"
  OBVIOUS
<1>2. CASE LockAvailable
  <2>1. Advance
    BY <1>2
  <2>2. engine.step \in DOMAIN CallAfter /\ CallAfter[engine.step] = "create"
    BY <1>1 DEF CallAfter
  <2>3. QED
    BY <1>1, <1>2, <2>1, <2>2, Advances DEF LockAvailable
<1>3. CASE ~LockAvailable
  BY <1>1, <1>3, NextTargetMoves
<1>4. QED
  BY <1>2, <1>3

LEMMA RolledBack ==
  ASSUME Typed, RunInPlace, HeartbeatRollsBack
  PROVE  /\ engine' \in Runs /\ engine.step = "create" /\ engine.target = "heartbeat"
         /\ MovesOn /\ hbLock' = Free
         /\ UNCHANGED <<archives, sinks, written, late, acked, cleaned>> /\ failures' \in Nat
         /\ \/ inode' = pending["heartbeat"].inode + 1 /\ UNCHANGED <<active, pending>>
            \/ /\ inode' = pending["heartbeat"].inode
               /\ active' = [active EXCEPT !["heartbeat"] = pending["heartbeat"].lines]
               /\ pending' = [pending EXCEPT !["heartbeat"] = NoPending]
            \/ UNCHANGED <<active, inode, pending>>
<1>1. engine.step = "create" /\ engine.target = "heartbeat"
  BY DEF HeartbeatRollsBack, At, RunInPlace, HeartbeatCalls
<1>2. engine' \in Runs /\ MovesOn
  BY NextTargetMoves DEF HeartbeatRollsBack
<1>3. failures' \in Nat
  BY DEF HeartbeatRollsBack, Typed
<1>4. QED
  BY <1>1, <1>2, <1>3 DEF HeartbeatRollsBack, history

\* One archive goes, none of the same target is older; or the run is over.
LEMMA OneCleaned ==
  ASSUME Typed, Cleans
  PROVE  /\ engine.step = "retention"
         /\ UNCHANGED <<active, inode, pending, hbLock, sinks, written, late, acked, failures>>
         /\ \/ /\ engine' = engine
               /\ \E a \in archives :
                    /\ archives' = archives \ {a}
                    /\ cleaned' = [cleaned EXCEPT ![a.target] = @ \cup a.lines]
                    /\ \A b \in OfTarget(a.target) : a.mtime <= b.mtime
            \/ engine' = Idle /\ UNCHANGED <<archives, cleaned>>
<1> USE DEF Cleans, At
<1>1. CASE \A a \in archives : ~Superfluous(a)
  BY <1>1
<1>2. ASSUME NEW a \in archives, Superfluous(a)
      PROVE  \A b \in OfTarget(a.target) : a.mtime <= b.mtime
  BY <1>2 DEF Superfluous, Oldest, OfTarget
<1>3. QED
  BY <1>1, <1>2

\* The archive of the pending file is made, or made again, and is the newest.
LEMMA GzipMade ==
  ASSUME Typed, RunInPlace, Compresses
  PROVE  /\ engine' \in Runs /\ engine.step = "gzip" /\ engine'.step = "unlink"
         /\ engine.target \in Targets /\ engine'.target = engine.target
         /\ engine'.recovering = engine.recovering
         /\ UNCHANGED <<active, inode, pending, hbLock, sinks, written, late, acked, cleaned, failures>>
         /\ \E final \in Archives :
              /\ final.target = engine.target /\ final.id = pending[engine.target].id
              /\ final.lines = pending[engine.target].lines
              /\ \A a \in archives : a.mtime < final.mtime
              /\ archives' = {a \in archives : a.target # final.target \/ a.id # final.id} \cup {final}
<1> USE DEF Compresses, At, RunInPlace, history
<1>1. engine.step = "gzip" /\ engine.target \in Targets
  OBVIOUS
<1>2. engine.step \in DOMAIN CallAfter /\ CallAfter[engine.step] = "unlink"
  BY <1>1 DEF CallAfter
<1>3. PICK now \in {1} \cup {a.mtime + 1 : a \in archives} :
        /\ \A a \in archives : a.mtime < now
        /\ archives' = {a \in archives : a.target # engine.target \/ a.id # pending[engine.target].id}
             \cup {[target |-> engine.target, id |-> pending[engine.target].id,
                    lines |-> pending[engine.target].lines, mtime |-> now]}
  OBVIOUS
<1>4. now \in Nat
  BY DEF Typed, Archives
<1>5. [target |-> engine.target, id |-> pending[engine.target].id,
       lines |-> pending[engine.target].lines, mtime |-> now] \in Archives
  BY <1>1, <1>4 DEF Typed, PendingFiles, Archives
<1>6. QED
  BY <1>1, <1>2, <1>3, <1>5, Advances

\* The file a sink has open is the active one, whatever the engine did meanwhile.
LEMMA Appended ==
  ASSUME Typed, LockHeld, PhasesRight, NEW s \in Sinks, SinkWrites(s)
  PROVE  /\ hbLock = s /\ hbLock' = Free /\ inode # 0
         /\ written' = [written EXCEPT !["heartbeat"] = written["heartbeat"] + 1]
         /\ acked' = acked \cup {written["heartbeat"] + 1}
         /\ active' = [active EXCEPT !["heartbeat"] = @ \cup {written["heartbeat"] + 1}]
         /\ sinks' = [sinks EXCEPT ![s] = 0]
         /\ UNCHANGED <<pending, inode, archives, engine, late, cleaned, failures>>
<1> USE DEF SinkWrites
<1>1. hbLock = s /\ sinks[s] = inode /\ inode # 0
  BY DEF LockHeld
<1>2. pending["heartbeat"].meta = "absent" => pending["heartbeat"].inode = 0
  BY NoPendingFile DEF PhasesRight, Targets
<1>3. sinks[s] # pending["heartbeat"].inode
  BY <1>1, <1>2 DEF PhasesRight
<1>4. QED
  BY <1>1, <1>3

\* The files' contents and what is known of each line; the other steps leave them alone.
contents == <<active, pending, archives, written, late, acked, cleaned>>

LEMMA StepOfContents ==
  ASSUME IInv, [Next]_vars
  PROVE  \/ UNCHANGED contents
         \/ AppCommits \/ AppDescribes \/ AppTruncates \/ HeartbeatRenames \/ HeartbeatRollsBack
         \/ Compresses \/ Unlinks \/ Cleans \/ AppWrites \/ \E s \in Sinks : SinkWrites(s)
<1> USE DEF contents, files, history
<1>1. CASE RunBegins \/ RunRecovers \/ RunChecks \/ AppCopies \/ HeartbeatCreates
  BY <1>1 DEF RunBegins, RunRecovers, RunChecks, AppCopies, HeartbeatCreates
<1>2. CASE RunFails \/ RunCrashes
  BY <1>2 DEF RunFails, RunCrashes
<1>3. CASE \E s \in Sinks : SinkLocks(s) \/ SinkOpens(s) \/ SinkFails(s)
  BY <1>3 DEF SinkLocks, SinkOpens, SinkFails
<1>4. CASE UNCHANGED vars
  BY <1>4 DEF vars
<1>5. QED
  BY <1>1, <1>2, <1>3, <1>4 DEF Next, RunGoesOn, SinkGoesOn

(***************************************************************************)
(* Every step keeps the invariant, one conjunct after the other.           *)
(***************************************************************************)
LEMMA TypedKept == IInv /\ [Next]_vars => Typed'
<1> SUFFICES ASSUME Typed, RunInPlace, [Next]_vars PROVE Typed'
  BY DEF IInv
<1> USE RotationAssumption DEF Typed, files, history
<1>1. CASE RunBegins
  BY <1>1, IdleRun DEF RunBegins, Idle, Runs, Steps
<1>2. CASE RunRecovers
  BY <1>2, Recovers
<1>3. CASE RunChecks
  BY <1>3, Checks
<1>4. CASE AppCopies
  BY <1>4 DEF AppCopies, At, CallAfter, Runs, Steps, Targets
<1>5. CASE AppCommits
  <2>1. engine' \in Runs
    BY <1>5, Advances DEF AppCommits, At, CallAfter
  <2>2. [NoPending EXCEPT !.meta = "missing", !.lines = engine.copy, !.id = written["app"]] \in PendingFiles
    BY DEF NoPending, PendingFiles, Metas, Runs, Targets
  <2>3. QED
    BY <1>5, <2>1, <2>2 DEF AppCommits
<1>6. CASE AppDescribes
  <2>1. engine' \in Runs
    BY <1>6, Advances DEF AppDescribes, CallAfter
  <2>2. \A m \in Metas : [pending["app"] EXCEPT !.meta = m] \in PendingFiles
    BY DEF PendingFiles, Targets
  <2>3. pending' \in [Targets -> PendingFiles]
    BY <1>6, <2>2 DEF AppDescribes, Metas
  <2>4. QED
    BY <1>6, <2>1, <2>3 DEF AppDescribes
<1>7. CASE AppTruncates
  <2>1. engine' \in Runs
    BY <1>7, Advances DEF AppTruncates, At, CallAfter
  <2>2. QED
    BY <1>7, <2>1 DEF AppTruncates
<1>8. CASE HeartbeatRenames
  <2>1. [meta |-> "none", lines |-> active["heartbeat"], inode |-> inode, id |-> written["heartbeat"]]
          \in PendingFiles
    BY DEF PendingFiles, Metas, Targets
  <2>2. QED
    BY <1>8, <2>1, Renamed
<1>9. CASE HeartbeatCreates
  <2>1. engine' \in Runs
    BY <1>9, Advances DEF HeartbeatCreates, At, CallAfter
  <2>2. pending["heartbeat"].inode + 1 \in Nat
    BY DEF PendingFiles, Targets
  <2>3. QED
    BY <1>9, <2>1, <2>2 DEF HeartbeatCreates
<1>10. CASE HeartbeatRollsBack
  <2>1. pending["heartbeat"].inode \in Nat /\ pending["heartbeat"].lines \in SUBSET Lines
    BY DEF PendingFiles, Targets
  <2>2. QED
    BY <1>10, <2>1, RolledBack, NoPendingFile
<1>11. CASE Compresses
  <2>1. archives' \subseteq Archives
    BY <1>11, GzipMade
  <2>2. QED
    BY <1>11, <2>1, GzipMade
<1>12. CASE Unlinks
  BY <1>12, Unlinked, NoPendingFile
<1>13. CASE Cleans
  <2>1. \A a \in archives : a.lines \subseteq Lines /\ a.target \in Targets
    BY DEF Archives
  <2>2. cleaned' \in [Targets -> SUBSET Lines] /\ archives' \subseteq Archives
    BY <1>13, <2>1, OneCleaned
  <2>3. QED
    BY <1>13, <2>2, OneCleaned, IdleRun
<1>14. CASE RunFails
  BY <1>14, Fails
<1>15. CASE RunCrashes
  BY <1>15, IdleRun DEF RunCrashes, MayFail
<1>16. CASE AppWrites
  <2>1. written["app"] + 1 \in Lines
    BY DEF Lines, Targets
  <2>2. active["app"] \cup {written["app"] + 1} \in SUBSET Lines
    BY <2>1 DEF Targets
  <2>3. active' \in [Targets -> SUBSET Lines]
    BY <1>16, <2>2 DEF AppWrites
  <2>4. written' \in [Targets -> Nat] /\ late' \subseteq Lines
    BY <1>16, <2>1 DEF AppWrites, Lines
  <2>5. QED
    BY <1>16, <2>3, <2>4 DEF AppWrites
<1>17. ASSUME NEW s \in Sinks, SinkLocks(s) \/ SinkFails(s) PROVE Typed'
  BY <1>17 DEF SinkLocks, SinkFails, MayFail
<1>18. ASSUME NEW s \in Sinks, SinkOpens(s) PROVE Typed'
  <2>1. pending["heartbeat"].inode + 1 \in Nat
    BY DEF PendingFiles, Targets
  <2>2. QED
    BY <1>18, <2>1 DEF SinkOpens
<1>19. ASSUME NEW s \in Sinks, SinkWrites(s) PROVE Typed'
  <2>1. written["heartbeat"] + 1 \in Lines
    BY DEF Lines, Targets
  <2>2. [pending["heartbeat"] EXCEPT !.lines = @ \cup {written["heartbeat"] + 1}] \in PendingFiles
    BY <2>1 DEF PendingFiles, Targets
  <2>3. pending' \in [Targets -> PendingFiles]
    BY <1>19, <2>2 DEF SinkWrites
  <2>4. active["heartbeat"] \cup {written["heartbeat"] + 1} \in SUBSET Lines
    BY <2>1 DEF Targets
  <2>5. active' \in [Targets -> SUBSET Lines]
    BY <1>19, <2>4 DEF SinkWrites
  <2>6. written' \in [Targets -> Nat] /\ acked' \subseteq Lines
    BY <1>19, <2>1 DEF SinkWrites, Lines
  <2>7. QED
    BY <1>19, <2>3, <2>5, <2>6 DEF SinkWrites
<1>20. CASE UNCHANGED vars
  BY <1>20 DEF vars
<1>. QED
  BY <1>1, <1>2, <1>3, <1>4, <1>5, <1>6, <1>7, <1>8, <1>9, <1>10, <1>11, <1>12, <1>13, <1>14, <1>15,
     <1>16, <1>17, <1>18, <1>19, <1>20 DEF Next, RunGoesOn, SinkGoesOn

LEMMA RunInPlaceKept == IInv /\ [Next]_vars => RunInPlace'
<1> SUFFICES ASSUME IInv, [Next]_vars PROVE RunInPlace'
  OBVIOUS
<1> USE RotationAssumption DEF IInv, Typed, RunInPlace, Steps, Runs, AppCalls, HeartbeatCalls, files,
        history, Targets
<1>1. CASE RunBegins \/ RunCrashes
  BY <1>1, IdleRun DEF RunBegins, RunCrashes, Idle
<1>2. CASE RunRecovers \/ RunChecks \/ RunFails
  BY <1>2, Recovers, Checks, Fails, IdleRun DEF MovesOn
<1>3. CASE AppCopies
  BY <1>3 DEF AppCopies, At, CallAfter
<1>4. CASE AppCommits
  BY <1>4 DEF AppCommits, At, Advance, CallAfter, NoPending
<1>5. CASE AppDescribes
  BY <1>5 DEF AppDescribes, At, Advance, CallAfter
<1>6. CASE AppTruncates
  BY <1>6 DEF AppTruncates, At, Advance, CallAfter
<1>7. CASE HeartbeatCreates
  BY <1>7 DEF HeartbeatCreates, At, Advance, CallAfter
<1>8. CASE HeartbeatRenames \/ HeartbeatRollsBack
  BY <1>8, Renamed, RolledBack, NoPendingFile DEF MovesOn
<1>9. CASE Compresses \/ Unlinks \/ Cleans
  BY <1>9, GzipMade, Unlinked, OneCleaned, NoPendingFile, IdleRun DEF MovesOn
<1>10. CASE AppWrites \/ (\E s \in Sinks : SinkLocks(s) \/ SinkOpens(s) \/ SinkFails(s))
  BY <1>10 DEF AppWrites, Snapshotted, SinkLocks, SinkOpens, SinkFails
<1>11. CASE \E s \in Sinks : SinkWrites(s)
  BY <1>11, Appended
<1>12. CASE UNCHANGED vars
  BY <1>12 DEF vars
<1>. QED
  BY <1>1, <1>2, <1>3, <1>4, <1>5, <1>6, <1>7, <1>8, <1>9, <1>10, <1>11, <1>12 DEF Next, RunGoesOn,
     SinkGoesOn

LEMMA LockHeldKept == IInv /\ [Next]_vars => LockHeld'
<1> SUFFICES ASSUME IInv, [Next]_vars PROVE LockHeld'
  OBVIOUS
<1> USE RotationAssumption DEF IInv, Typed, LockHeld, RunInPlace, AppCalls, HeartbeatCalls, Steps, Runs,
        files, history, Targets
<1>1. CASE RunBegins \/ RunCrashes
  BY <1>1, IdleRun DEF RunBegins, RunCrashes, Idle
<1>2. CASE RunRecovers \/ RunChecks \/ RunFails
  BY <1>2, Recovers, Checks, Fails, IdleRun DEF MovesOn
<1>3. CASE AppCopies
  BY <1>3 DEF AppCopies, At, CallAfter
<1>4. CASE AppCommits
  BY <1>4 DEF AppCommits, At, Advance, CallAfter, NoPending
<1>5. CASE AppDescribes
  BY <1>5 DEF AppDescribes, At, Advance, CallAfter
<1>6. CASE AppTruncates
  BY <1>6 DEF AppTruncates, At, Advance, CallAfter
<1>7. CASE HeartbeatCreates
  BY <1>7 DEF HeartbeatCreates, At, Advance, CallAfter
<1>8. CASE HeartbeatRenames
  BY <1>8, Renamed, NoPendingFile DEF MovesOn
<1>9. CASE HeartbeatRollsBack
  BY <1>9, RolledBack, NoPendingFile DEF MovesOn
<1>10. CASE Compresses
  BY <1>10, GzipMade
<1>11. CASE Unlinks
  BY <1>11, Unlinked, NoPendingFile DEF MovesOn
<1>12. CASE Cleans
  BY <1>12, OneCleaned, IdleRun
<1>13. CASE AppWrites \/ (\E s \in Sinks : SinkLocks(s) \/ SinkOpens(s) \/ SinkFails(s))
  BY <1>13 DEF AppWrites, Snapshotted, SinkLocks, SinkOpens, SinkFails
<1>14. CASE \E s \in Sinks : SinkWrites(s)
  BY <1>14, Appended
<1>15. CASE UNCHANGED vars
  BY <1>15 DEF vars
<1>. QED
  BY <1>1, <1>2, <1>3, <1>4, <1>5, <1>6, <1>7, <1>8, <1>9, <1>10, <1>11, <1>12, <1>13, <1>14,
     <1>15 DEF Next, RunGoesOn, SinkGoesOn

LEMMA PhasesRightKept == IInv /\ [Next]_vars => PhasesRight'
<1> SUFFICES ASSUME IInv, [Next]_vars PROVE PhasesRight'
  OBVIOUS
<1> USE RotationAssumption DEF IInv, Typed, LockHeld, RunInPlace, PhasesRight, InStep, PendingFiles, Runs,
        AppCalls, HeartbeatCalls, Metas, files, history, Targets
<1>1. CASE RunBegins \/ RunCrashes
  BY <1>1, IdleRun DEF RunBegins, RunCrashes, Idle
<1>2. CASE RunRecovers \/ RunChecks \/ RunFails
  BY <1>2, Recovers, Checks, Fails, IdleRun DEF MovesOn
<1>3. CASE AppCopies
  BY <1>3 DEF AppCopies, At, CallAfter
<1>4. CASE AppCommits
  BY <1>4 DEF AppCommits, At, Advance, CallAfter, NoPending
<1>5. CASE AppDescribes
  BY <1>5 DEF AppDescribes, At, Advance, CallAfter
<1>6. CASE AppTruncates
  BY <1>6 DEF AppTruncates, At, Advance, CallAfter
<1>7. CASE HeartbeatCreates
  BY <1>7 DEF HeartbeatCreates, At, Advance, CallAfter
<1>8. CASE HeartbeatRollsBack
  BY <1>8, RolledBack, NoPendingFile DEF MovesOn
<1>9. CASE HeartbeatRenames
  <2>1. engine.step = "rename" /\ inode \in Nat
    BY <1>9, Renamed
  <2>2. CASE UNCHANGED <<active, inode, pending, hbLock>>
    BY <2>2
  <2>3. CASE ~UNCHANGED <<active, inode, pending, hbLock>>
    <3>1. /\ pending'["heartbeat"] = [meta |-> "none", lines |-> active["heartbeat"], inode |-> inode,
                                     id |-> written["heartbeat"]]
          /\ pending'["app"] = pending["app"] /\ inode' = 0 /\ active'["heartbeat"] = {}
      BY <1>9, <2>3, Renamed
    <3>2. inode # 0
      BY <2>1 DEF SnapshotCovers
    <3>3. QED
      BY <3>1, <3>2
  <2>4. QED
    BY <2>2, <2>3
<1>10. CASE Compresses \/ Unlinks \/ Cleans
  BY <1>10, GzipMade, Unlinked, OneCleaned, NoPendingFile, IdleRun DEF MovesOn
<1>11. CASE AppWrites \/ (\E s \in Sinks : SinkLocks(s) \/ SinkOpens(s) \/ SinkFails(s))
  BY <1>11 DEF AppWrites, Snapshotted, SinkLocks, SinkOpens, SinkFails
<1>12. CASE \E s \in Sinks : SinkWrites(s)
  BY <1>12, Appended
<1>13. CASE UNCHANGED vars
  BY <1>13 DEF vars
<1>. QED
  BY <1>1, <1>2, <1>3, <1>4, <1>5, <1>6, <1>7, <1>8, <1>9, <1>10, <1>11, <1>12, <1>13 DEF Next,
     RunGoesOn, SinkGoesOn

LEMMA InStepKept == IInv /\ [Next]_vars => InStep'
<1> SUFFICES ASSUME IInv, [Next]_vars PROVE InStep'
  OBVIOUS
<1> USE RotationAssumption DEF IInv, Typed, RunInPlace, LockHeld, PhasesRight, InStep, PendingFiles, Runs,
        AppCalls, HeartbeatCalls, Metas, files, history, Targets
<1>1. CASE RunBegins \/ RunCrashes
  BY <1>1, IdleRun DEF RunBegins, RunCrashes, Idle
<1>2. CASE RunRecovers
  BY <1>2, Recovers, IdleRun DEF Recoverable
<1>3. CASE RunChecks
  BY <1>3, Checks DEF MovesOn
<1>4. CASE RunFails
  <2>1. UNCHANGED <<pending, inode>>
    BY <1>4, Fails
  <2>2. CASE engine' = Idle
    BY <2>1, <2>2, IdleRun
  <2>3. CASE engine' # Idle
    <3>1. ~engine.recovering /\ engine.step \notin {"idle", "create", "recover", "retention"} /\ MovesOn
      BY <1>4, <2>3, Fails
    <3>2. CASE engine.target = "app"
      <4>1. engine'.step = "check" /\ engine'.target = "heartbeat"
        BY <3>1, <3>2 DEF MovesOn
      <4>2. engine.step \in AppCalls \cup {"check", "gzip", "unlink"}
        BY <3>1, <3>2 DEF Steps
      <4>3. pending["heartbeat"] = NoPending
        BY <3>1, <3>2, <4>2
      <4>4. QED
        BY <2>1, <4>1, <4>3
    <3>3. CASE engine.target # "app"
      BY <2>1, <3>1, <3>3 DEF MovesOn
    <3>4. QED
      BY <3>2, <3>3
  <2>4. QED
    BY <2>2, <2>3
<1>5. CASE AppCopies
  BY <1>5 DEF AppCopies, At, CallAfter
<1>6. CASE AppCommits
  BY <1>6 DEF AppCommits, At, Advance, CallAfter, NoPending
<1>7. CASE AppDescribes
  BY <1>7 DEF AppDescribes, At, Advance, CallAfter
<1>8. CASE AppTruncates
  BY <1>8 DEF AppTruncates, At, Advance, CallAfter
<1>9. CASE HeartbeatCreates
  BY <1>9 DEF HeartbeatCreates, At, Advance, CallAfter
<1>10. CASE HeartbeatRenames \/ HeartbeatRollsBack
  BY <1>10, Renamed, RolledBack, NoPendingFile DEF MovesOn
<1>11. CASE Compresses \/ Unlinks \/ Cleans
  BY <1>11, GzipMade, Unlinked, OneCleaned, NoPendingFile, IdleRun DEF MovesOn
<1>12. CASE AppWrites \/ (\E s \in Sinks : SinkLocks(s) \/ SinkOpens(s) \/ SinkFails(s))
  BY <1>12 DEF AppWrites, Snapshotted, SinkLocks, SinkOpens, SinkFails
<1>13. CASE \E s \in Sinks : SinkWrites(s)
  BY <1>13, Appended
<1>14. CASE UNCHANGED vars
  BY <1>14 DEF vars
<1>. QED
  BY <1>1, <1>2, <1>3, <1>4, <1>5, <1>6, <1>7, <1>8, <1>9, <1>10, <1>11, <1>12, <1>13,
     <1>14 DEF Next, RunGoesOn, SinkGoesOn

LEMMA NumberedKept == IInv /\ [Next]_vars => Numbered'
<1> SUFFICES ASSUME IInv, [Next]_vars PROVE Numbered'
  OBVIOUS
<1> USE RotationAssumption DEF IInv, Typed, RunInPlace, LockHeld, PhasesRight, InStep, PendingFiles, Runs,
        AppCalls, HeartbeatCalls, OfTarget, Archives, Numbered, ActiveIsNewer, SnapshotCovers,
        PendingApart, NotYetArchived, files, history, Targets
<1>1. CASE UNCHANGED contents
  BY <1>1 DEF contents, Lines
<1>2. CASE AppCommits
  BY <1>2 DEF AppCommits, At, Advance, CallAfter, NoPending, Lines
<1>3. CASE AppDescribes
  BY <1>3 DEF AppDescribes, Lines
<1>4. CASE AppTruncates
  BY <1>4 DEF AppTruncates, At, Lines
<1>5. CASE HeartbeatRenames
  BY <1>5, Renamed, NoPendingFile DEF Lines
<1>6. CASE HeartbeatRollsBack
  BY <1>6, RolledBack, NoPendingFile DEF Lines
<1>7. CASE Compresses
  BY <1>7, GzipMade DEF Lines
<1>8. CASE Unlinks
  BY <1>8, Unlinked, NoPendingFile DEF Lines
<1>9. CASE Cleans
  BY <1>9, OneCleaned DEF Lines
<1>10. CASE AppWrites
  BY <1>10 DEF AppWrites, Lines
<1>11. CASE \E s \in Sinks : SinkWrites(s)
  BY <1>11, Appended DEF Lines
<1>. QED
  BY <1>1, <1>2, <1>3, <1>4, <1>5, <1>6, <1>7, <1>8, <1>9, <1>10, <1>11, StepOfContents

LEMMA ArchivesApartKept == IInv /\ [Next]_vars => ArchivesApart'
<1> SUFFICES ASSUME IInv, [Next]_vars PROVE ArchivesApart'
  OBVIOUS
<1> USE RotationAssumption DEF IInv, Typed, RunInPlace, LockHeld, PhasesRight, InStep, PendingFiles, Runs,
        AppCalls, HeartbeatCalls, OfTarget, Archives, Numbered, ArchivesApart, PendingApart, files,
        history, Targets
<1>1. CASE UNCHANGED contents
  BY <1>1 DEF contents, Lines
<1>2. CASE AppCommits
  BY <1>2 DEF AppCommits, At, Advance, CallAfter, NoPending, Lines
<1>3. CASE AppDescribes
  BY <1>3 DEF AppDescribes, Lines
<1>4. CASE AppTruncates
  BY <1>4 DEF AppTruncates, At, Lines
<1>5. CASE HeartbeatRenames
  BY <1>5, Renamed, NoPendingFile DEF Lines
<1>6. CASE HeartbeatRollsBack
  BY <1>6, RolledBack, NoPendingFile DEF Lines
<1>7. CASE Compresses
  BY <1>7, GzipMade DEF Lines
<1>8. CASE Unlinks
  BY <1>8, Unlinked, NoPendingFile DEF Lines
<1>9. CASE Cleans
  BY <1>9, OneCleaned DEF Lines
<1>10. CASE AppWrites
  BY <1>10 DEF AppWrites, Lines
<1>11. CASE \E s \in Sinks : SinkWrites(s)
  BY <1>11, Appended DEF Lines
<1>. QED
  BY <1>1, <1>2, <1>3, <1>4, <1>5, <1>6, <1>7, <1>8, <1>9, <1>10, <1>11, StepOfContents

LEMMA PendingApartKept == IInv /\ [Next]_vars => PendingApart'
<1> SUFFICES ASSUME IInv, [Next]_vars PROVE PendingApart'
  OBVIOUS
<1> USE RotationAssumption DEF IInv, Typed, RunInPlace, LockHeld, PhasesRight, InStep, PendingFiles, Runs,
        AppCalls, HeartbeatCalls, OfTarget, Archives, Numbered, SnapshotCovers, PendingApart, files,
        history, Targets
<1>1. CASE UNCHANGED contents
  BY <1>1 DEF contents, Lines
<1>2. CASE AppCommits
  BY <1>2 DEF AppCommits, At, Advance, CallAfter, NoPending, Lines
<1>3. CASE AppDescribes
  BY <1>3 DEF AppDescribes, Lines
<1>4. CASE AppTruncates
  BY <1>4 DEF AppTruncates, At, Lines
<1>5. CASE HeartbeatRenames
  BY <1>5, Renamed, NoPendingFile DEF Lines
<1>6. CASE HeartbeatRollsBack
  BY <1>6, RolledBack, NoPendingFile DEF Lines
<1>7. CASE Compresses
  BY <1>7, GzipMade DEF Lines
<1>8. CASE Unlinks
  BY <1>8, Unlinked, NoPendingFile DEF Lines
<1>9. CASE Cleans
  BY <1>9, OneCleaned DEF Lines
<1>10. CASE AppWrites
  BY <1>10 DEF AppWrites, Lines
<1>11. CASE \E s \in Sinks : SinkWrites(s)
  BY <1>11, Appended DEF Lines
<1>. QED
  BY <1>1, <1>2, <1>3, <1>4, <1>5, <1>6, <1>7, <1>8, <1>9, <1>10, <1>11, StepOfContents

LEMMA NotYetArchivedKept == IInv /\ [Next]_vars => NotYetArchived'
<1> SUFFICES ASSUME IInv, [Next]_vars PROVE NotYetArchived'
  OBVIOUS
<1> USE RotationAssumption DEF IInv, Typed, RunInPlace, LockHeld, PhasesRight, InStep, PendingFiles, Runs,
        AppCalls, HeartbeatCalls, OfTarget, Archives, Numbered, SnapshotCovers, NotYetArchived, Metas,
        files, history, Targets
<1>1. CASE RunBegins \/ RunCrashes
  BY <1>1, IdleRun DEF RunBegins, RunCrashes, Idle, Lines
<1>2. CASE RunRecovers \/ RunChecks \/ RunFails
  BY <1>2, Recovers, Checks, Fails, IdleRun DEF MovesOn, Lines
<1>3. CASE AppCopies
  BY <1>3 DEF AppCopies, At, CallAfter, Lines
<1>4. CASE AppCommits
  BY <1>4 DEF AppCommits, At, Advance, CallAfter, NoPending, Lines
<1>5. CASE AppDescribes
  BY <1>5 DEF AppDescribes, At, Advance, CallAfter, Lines
<1>6. CASE AppTruncates
  BY <1>6 DEF AppTruncates, At, Advance, CallAfter, Lines
<1>7. CASE HeartbeatCreates
  BY <1>7 DEF HeartbeatCreates, At, Advance, CallAfter, Lines
<1>8. CASE HeartbeatRenames \/ HeartbeatRollsBack
  BY <1>8, Renamed, RolledBack, NoPendingFile DEF MovesOn, Lines
<1>9. CASE Compresses \/ Unlinks \/ Cleans
  BY <1>9, GzipMade, Unlinked, OneCleaned, NoPendingFile, IdleRun DEF MovesOn, Lines
<1>10. CASE AppWrites \/ (\E s \in Sinks : SinkLocks(s) \/ SinkOpens(s) \/ SinkFails(s))
  BY <1>10 DEF AppWrites, Snapshotted, SinkLocks, SinkOpens, SinkFails, Lines
<1>11. CASE \E s \in Sinks : SinkWrites(s)
  BY <1>11, Appended DEF Lines
<1>12. CASE UNCHANGED vars
  BY <1>12 DEF vars
<1>. QED
  BY <1>1, <1>2, <1>3, <1>4, <1>5, <1>6, <1>7, <1>8, <1>9, <1>10, <1>11, <1>12 DEF Next, RunGoesOn,
     SinkGoesOn

LEMMA ActiveIsNewerKept == IInv /\ [Next]_vars => ActiveIsNewer'
<1> SUFFICES ASSUME IInv, [Next]_vars PROVE ActiveIsNewer'
  OBVIOUS
<1> USE RotationAssumption DEF IInv, Typed, RunInPlace, LockHeld, PhasesRight, InStep, PendingFiles, Runs,
        AppCalls, HeartbeatCalls, OfTarget, Numbered, SnapshotCovers, ActiveIsNewer, files, history,
        Targets
<1>1. CASE RunBegins \/ RunCrashes
  BY <1>1, IdleRun DEF RunBegins, RunCrashes, Idle, Lines, Metas
<1>2. CASE RunRecovers \/ RunChecks \/ RunFails
  BY <1>2, Recovers, Checks, Fails, IdleRun DEF MovesOn, Lines, Metas
<1>3. CASE AppCopies
  BY <1>3 DEF AppCopies, At, CallAfter, Lines, Metas
<1>4. CASE AppCommits
  BY <1>4 DEF AppCommits, At, Advance, CallAfter, NoPending, Lines, Metas
<1>5. CASE AppDescribes
  BY <1>5 DEF AppDescribes, At, Advance, CallAfter, Lines, Metas
<1>6. CASE AppTruncates
  BY <1>6 DEF AppTruncates, At, Advance, CallAfter, Lines, Metas
<1>7. CASE HeartbeatCreates
  BY <1>7 DEF HeartbeatCreates, At, Advance, CallAfter, Lines, Metas
<1>8. CASE HeartbeatRenames \/ HeartbeatRollsBack
  BY <1>8, Renamed, RolledBack, NoPendingFile DEF MovesOn, Lines, Metas
<1>9. CASE Compresses \/ Unlinks \/ Cleans
  BY <1>9, GzipMade, Unlinked, OneCleaned, NoPendingFile, IdleRun DEF MovesOn, Lines, Metas
<1>10. CASE AppWrites \/ (\E s \in Sinks : SinkLocks(s) \/ SinkOpens(s) \/ SinkFails(s))
  BY <1>10 DEF AppWrites, Snapshotted, SinkLocks, SinkOpens, SinkFails, Lines, Metas
<1>11. CASE \E s \in Sinks : SinkWrites(s)
  BY <1>11, Appended DEF Lines, Metas
<1>12. CASE UNCHANGED vars
  BY <1>12 DEF vars
<1>. QED
  BY <1>1, <1>2, <1>3, <1>4, <1>5, <1>6, <1>7, <1>8, <1>9, <1>10, <1>11, <1>12 DEF Next, RunGoesOn,
     SinkGoesOn

LEMMA SnapshotCoversKept == IInv /\ [Next]_vars => SnapshotCovers'
<1> SUFFICES ASSUME IInv, [Next]_vars PROVE SnapshotCovers'
  OBVIOUS
<1> USE RotationAssumption DEF IInv, Typed, RunInPlace, LockHeld, PhasesRight, InStep, PendingFiles, Runs,
        AppCalls, HeartbeatCalls, OfTarget, Numbered, SnapshotCovers, Metas, files, history, Targets
<1>1. CASE RunBegins \/ RunCrashes
  BY <1>1, IdleRun DEF RunBegins, RunCrashes, Idle, Lines
<1>2. CASE RunRecovers \/ RunChecks \/ RunFails
  BY <1>2, Recovers, Checks, Fails, IdleRun DEF MovesOn, Lines
<1>3. CASE AppCopies
  BY <1>3 DEF AppCopies, At, CallAfter, Lines
<1>4. CASE AppCommits
  BY <1>4 DEF AppCommits, At, Advance, CallAfter, NoPending, Lines
<1>5. CASE AppDescribes
  BY <1>5 DEF AppDescribes, At, Advance, CallAfter, Lines
<1>6. CASE AppTruncates
  BY <1>6 DEF AppTruncates, At, Advance, CallAfter, Lines
<1>7. CASE HeartbeatCreates
  BY <1>7 DEF HeartbeatCreates, At, Advance, CallAfter, Lines
<1>8. CASE HeartbeatRenames \/ HeartbeatRollsBack
  BY <1>8, Renamed, RolledBack, NoPendingFile DEF MovesOn, Lines
<1>9. CASE Compresses \/ Unlinks \/ Cleans
  BY <1>9, GzipMade, Unlinked, OneCleaned, NoPendingFile, IdleRun DEF MovesOn, Lines
<1>10. CASE AppWrites \/ (\E s \in Sinks : SinkLocks(s) \/ SinkOpens(s) \/ SinkFails(s))
  BY <1>10 DEF AppWrites, Snapshotted, SinkLocks, SinkOpens, SinkFails, Lines
<1>11. CASE \E s \in Sinks : SinkWrites(s)
  BY <1>11, Appended DEF Lines
<1>12. CASE UNCHANGED vars
  BY <1>12 DEF vars
<1>. QED
  BY <1>1, <1>2, <1>3, <1>4, <1>5, <1>6, <1>7, <1>8, <1>9, <1>10, <1>11, <1>12 DEF Next, RunGoesOn,
     SinkGoesOn

LEMMA GzippedFirstKept == IInv /\ [Next]_vars => GzippedFirst'
<1> SUFFICES ASSUME IInv, [Next]_vars PROVE GzippedFirst'
  OBVIOUS
<1> USE RotationAssumption DEF IInv, Typed, RunInPlace, LockHeld, PhasesRight, InStep, PendingFiles, Runs,
        AppCalls, HeartbeatCalls, OfTarget, Archives, GzippedFirst, files, history, Targets
<1>1. CASE RunBegins \/ RunCrashes
  BY <1>1, IdleRun DEF RunBegins, RunCrashes, Idle, Lines
<1>2. CASE RunRecovers \/ RunChecks \/ RunFails
  BY <1>2, Recovers, Checks, Fails, IdleRun DEF MovesOn, Lines
<1>3. CASE AppCopies
  BY <1>3 DEF AppCopies, At, CallAfter, Lines
<1>4. CASE AppCommits
  BY <1>4 DEF AppCommits, At, Advance, CallAfter, NoPending, Lines
<1>5. CASE AppDescribes
  BY <1>5 DEF AppDescribes, At, Advance, CallAfter, Lines
<1>6. CASE AppTruncates
  BY <1>6 DEF AppTruncates, At, Advance, CallAfter, Lines
<1>7. CASE HeartbeatCreates
  BY <1>7 DEF HeartbeatCreates, At, Advance, CallAfter, Lines
<1>8. CASE HeartbeatRenames \/ HeartbeatRollsBack
  BY <1>8, Renamed, RolledBack, NoPendingFile DEF MovesOn, Lines
<1>9. CASE Compresses \/ Unlinks \/ Cleans
  BY <1>9, GzipMade, Unlinked, OneCleaned, NoPendingFile, IdleRun DEF MovesOn, Lines
<1>10. CASE AppWrites \/ (\E s \in Sinks : SinkLocks(s) \/ SinkOpens(s) \/ SinkFails(s))
  BY <1>10 DEF AppWrites, Snapshotted, SinkLocks, SinkOpens, SinkFails, Lines
<1>11. CASE \E s \in Sinks : SinkWrites(s)
  BY <1>11, Appended DEF Lines
<1>12. CASE UNCHANGED vars
  BY <1>12 DEF vars
<1>. QED
  BY <1>1, <1>2, <1>3, <1>4, <1>5, <1>6, <1>7, <1>8, <1>9, <1>10, <1>11, <1>12 DEF Next, RunGoesOn,
     SinkGoesOn

LEMMA NothingLostKept == IInv /\ [Next]_vars => NothingLost'
<1> SUFFICES ASSUME IInv, [Next]_vars PROVE NothingLost'
  OBVIOUS
<1> USE RotationAssumption DEF IInv, Typed, RunInPlace, LockHeld, PhasesRight, InStep, PendingFiles, Runs,
        AppCalls, HeartbeatCalls, OfTarget, Archives, NothingLost, Kept, Stored, Archived, SnapshotCovers,
        GzippedFirst, PendingApart, Numbered, ArchivesApart, files, history, Targets
<1>1. CASE UNCHANGED contents
  BY <1>1 DEF contents, Lines
<1>2. CASE AppCommits
  BY <1>2 DEF AppCommits, At, Advance, CallAfter, NoPending, Lines
<1>3. CASE AppDescribes
  BY <1>3 DEF AppDescribes, Lines
<1>4. CASE AppTruncates
  BY <1>4 DEF AppTruncates, At, Lines
<1>5. CASE HeartbeatRenames
  <2>1. UNCHANGED <<archives, written, late, acked, cleaned>>
    BY <1>5, Renamed
  <2>2. \A t \in Targets : active[t] \cup pending[t].lines \subseteq active'[t] \cup pending'[t].lines
    <3>1. pending["heartbeat"].lines = {}
      BY <1>5, Renamed, NoPendingFile
    <3>2. QED
      BY <1>5, <3>1, Renamed
  <2>3. QED
    BY <2>1, <2>2
<1>6. CASE HeartbeatRollsBack
  <2>1. UNCHANGED <<archives, written, late, acked, cleaned>>
    BY <1>6, RolledBack
  <2>2. active["heartbeat"] = {}
    BY <1>6, RolledBack
  <2>3. \A t \in Targets : active[t] \cup pending[t].lines \subseteq active'[t] \cup pending'[t].lines
    BY <1>6, <2>2, RolledBack
  <2>4. QED
    BY <2>1, <2>3
<1>7. CASE Compresses
  <2>1. UNCHANGED <<active, pending, written, late, acked, cleaned>>
    BY <1>7, GzipMade
  <2>2. PICK final \in Archives :
          /\ final.target = engine.target /\ final.id = pending[engine.target].id
          /\ final.lines = pending[engine.target].lines
          /\ archives' = {a \in archives : a.target # final.target \/ a.id # final.id} \cup {final}
    BY <1>7, GzipMade
  <2>3. engine.target \in Targets /\ pending[engine.target].meta # "absent"
    BY <1>7, GzipMade
  <2>4. \A a \in archives : \E b \in archives' : b.target = a.target /\ a.lines \subseteq b.lines
    <3>1. SUFFICES ASSUME NEW a \in archives, a.target = final.target, a.id = final.id
                   PROVE  a.lines \subseteq final.lines
      BY <2>2
    <3>2. QED
      BY <2>2, <2>3, <3>1
  <2>5. \A t \in Targets : Archived(t) \subseteq Archived(t)'
    BY <2>4
  <2>6. \A t \in Targets : \A a \in OfTarget(t)', n \in cleaned[t] : n <= a.id
    BY <2>2, <2>3
  <2>7. QED
    BY <2>1, <2>5, <2>6
<1>8. CASE Unlinks
  <2>1. UNCHANGED <<active, archives, written, late, acked, cleaned>>
    BY <1>8, Unlinked
  <2>2. pending[engine.target].lines \subseteq Archived(engine.target)
    BY <1>8, Unlinked
  <2>3. \A t \in Targets : t # engine.target => pending'[t] = pending[t]
    BY <1>8, Unlinked
  <2>4. \A t \in Targets : Kept(t) \subseteq Kept(t)'
    BY <2>1, <2>2, <2>3
  <2>5. QED
    BY <2>1, <2>4
<1>9. CASE Cleans
  <2>1. UNCHANGED <<active, pending, written, late, acked>>
    BY <1>9, OneCleaned
  <2>2. ASSUME NEW a \in archives, archives' = archives \ {a},
               cleaned' = [cleaned EXCEPT ![a.target] = @ \cup a.lines],
               \A b \in OfTarget(a.target) : a.mtime <= b.mtime
        PROVE  NothingLost'
    <3>1. \A t \in Targets : cleaned[t] \subseteq cleaned'[t]
      BY <2>2
    <3>2. a.lines \subseteq cleaned'[a.target]
      BY <2>2
    <3>3. \A t \in Targets : Archived(t) \subseteq Archived(t)' \cup cleaned'[t]
      BY <2>2, <3>2
    <3>4. \A t \in Targets : Kept(t) \subseteq Kept(t)'
      BY <2>1, <3>1, <3>3
    <3>5. ASSUME NEW b \in archives, b # a, b.target = a.target PROVE a.id < b.id
      <4>1. b \in OfTarget(a.target)
        BY <3>5
      <4>2. a.mtime <= b.mtime /\ a.id # b.id
        BY <2>2, <3>5, <4>1
      <4>3. ~(b.id < a.id)
        BY <3>5, <4>2
      <4>4. QED
        BY <4>2, <4>3
    <3>6. ASSUME NEW t \in Targets, NEW b \in OfTarget(t)', NEW n \in cleaned'[t] PROVE n <= b.id
      <4>1. b \in archives /\ b # a /\ b.target = t
        BY <2>2, <3>6
      <4>2. CASE n \in cleaned[t]
        BY <4>1, <4>2
      <4>3. CASE n \notin cleaned[t]
        <5>1. a.target = t /\ n \in a.lines
          BY <2>2, <3>6, <4>3
        <5>2. a.id < b.id /\ n \in 1 .. a.id
          BY <3>5, <4>1, <5>1
        <5>3. QED
          BY <4>1, <5>2
      <4>4. QED
        BY <4>2, <4>3
    <3>7. QED
      BY <2>1, <3>4, <3>6
  <2>3. CASE UNCHANGED <<archives, cleaned>>
    BY <2>1, <2>3
  <2>4. QED
    BY <1>9, <2>2, <2>3, OneCleaned
<1>10. CASE AppWrites
  BY <1>10 DEF AppWrites, Lines
<1>11. CASE \E s \in Sinks : SinkWrites(s)
  <2>1. /\ active' = [active EXCEPT !["heartbeat"] = @ \cup {written["heartbeat"] + 1}]
        /\ acked' = acked \cup {written["heartbeat"] + 1}
        /\ UNCHANGED <<pending, archives, late, cleaned>> /\ written'["app"] = written["app"]
    BY <1>11, Appended
  <2>2. /\ active'["heartbeat"] = active["heartbeat"] \cup {written["heartbeat"] + 1}
        /\ active'["app"] = active["app"]
    BY <2>1
  <2>3. QED
    BY <2>1, <2>2
<1>. QED
  BY <1>1, <1>2, <1>3, <1>4, <1>5, <1>6, <1>7, <1>8, <1>9, <1>10, <1>11, StepOfContents

(***************************************************************************)
(* The rotation implements RetainedLog: what each step does to the lines   *)
(* a target has, over all its files.                                       *)
(***************************************************************************)
LEMMA LogStutters ==
  ASSUME \A t \in Targets : Stored(t)' = Stored(t), UNCHANGED <<active, written, late>>
  PROVE  UNCHANGED Log!vars
BY DEF Log!vars

LEMMA LogAppends ==
  ASSUME Typed, NEW t \in Targets, written' = [written EXCEPT ![t] = written[t] + 1],
         active' = [active EXCEPT ![t] = @ \cup {written[t] + 1}],
         Stored(t)' = Stored(t) \cup {written[t] + 1},
         \A u \in Targets : u # t => Stored(u)' = Stored(u),
         \/ late' = late
         \/ t = "app" /\ late' = late \cup {written[t] + 1}
  PROVE  Log!Append(t)
<1> DEFINE stored == [u \in Targets |-> Stored(u)]
           risky == [u \in Targets |-> IF u = "app" THEN late ELSE {}]
<1>1. stored' = [stored EXCEPT ![t] = @ \cup {written[t] + 1}]
  OBVIOUS
<1>2. CASE late' = late
  <2>1. risky' = risky
    BY <1>2
  <2>2. QED
    BY <1>1, <2>1 DEF Log!Append
<1>3. CASE t = "app" /\ late' = late \cup {written[t] + 1}
  <2>1. risky' = [risky EXCEPT ![t] = @ \cup {written[t] + 1}]
    BY <1>3
  <2>2. QED
    BY <1>1, <1>3, <2>1 DEF Log!Append
<1>4. QED
  BY <1>2, <1>3

LEMMA LogExpires ==
  ASSUME NEW t \in Targets, NEW n \in 1 .. written[t], \A m \in active[t] : n < m,
         Stored(t)' = {m \in Stored(t) : m > n},
         \A u \in Targets : u # t => Stored(u)' = Stored(u),
         UNCHANGED <<active, written, late>>
  PROVE  Log!Expire(t)
<1> DEFINE stored == [u \in Targets |-> Stored(u)]
<1>1. stored' = [stored EXCEPT ![t] = {m \in @ : m > n}]
  OBVIOUS
<1>2. QED
  BY <1>1 DEF Log!Expire

LEMMA LogRotates ==
  ASSUME NEW t \in Targets, NEW S \in SUBSET (IF t = "app" THEN late ELSE {}),
         active' = [active EXCEPT ![t] = {}], Stored(t)' = Stored(t) \ S,
         \A u \in Targets : u # t => Stored(u)' = Stored(u),
         UNCHANGED <<written, late>>
  PROVE  Log!Rotate(t)
<1> DEFINE stored == [u \in Targets |-> Stored(u)]
           risky == [u \in Targets |-> IF u = "app" THEN late ELSE {}]
<1>1. stored' = [stored EXCEPT ![t] = @ \ S]
  OBVIOUS
<1>2. S \in SUBSET risky[t]
  OBVIOUS
<1>3. QED
  BY <1>1, <1>2 DEF Log!Rotate

\* The copy has what the active file had, but for late lines, when that is emptied.
LEMMA TruncationRotates ==
  ASSUME IInv, AppTruncates
  PROVE  Log!Rotate("app")
<1> DEFINE S == active["app"] \ (pending["app"].lines \cup Archived("app"))
<1>1. /\ active' = [active EXCEPT !["app"] = {}]
      /\ UNCHANGED <<pending, archives, written, late>>
  BY DEF AppTruncates, history
<1>2. S \subseteq late
  BY DEF IInv, SnapshotCovers, AppTruncates, At
<1>3. \A t \in Targets : Archived(t)' = Archived(t)
  BY <1>1 DEF Archived, OfTarget
<1>4. active'["app"] = {} /\ active'["heartbeat"] = active["heartbeat"]
  BY <1>1 DEF IInv, Typed, Targets
<1>5. Stored("app")' = Stored("app") \ S
  BY <1>1, <1>3, <1>4 DEF Stored, Targets
<1>6. Stored("heartbeat")' = Stored("heartbeat")
  BY <1>1, <1>3, <1>4 DEF Stored, Targets
<1>7. QED
  BY <1>1, <1>2, <1>5, <1>6, LogRotates DEF Targets

\* A rename moves the lines to a pending file, and moves them back when it is rolled back.
LEMMA RenameRotates ==
  ASSUME IInv, HeartbeatRenames
  PROVE  Log!Rotate("heartbeat") \/ UNCHANGED Log!vars
<1> USE DEF IInv, Typed, RunInPlace, InStep, HeartbeatCalls, Targets
<1>1. UNCHANGED <<archives, written, late>>
  BY Renamed
<1>2. \A t \in Targets : Archived(t)' = Archived(t)
  BY <1>1 DEF Archived, OfTarget
<1>3. pending["heartbeat"].lines = {}
  BY Renamed, NoPendingFile
<1>4. \A t \in Targets : active'[t] \cup pending'[t].lines = active[t] \cup pending[t].lines
  BY <1>3, Renamed
<1>5. \A t \in Targets : Stored(t)' = Stored(t)
  BY <1>2, <1>4 DEF Stored
<1>6. CASE active' = [active EXCEPT !["heartbeat"] = {}]
  BY <1>1, <1>5, <1>6, LogRotates
<1>7. CASE UNCHANGED active
  BY <1>1, <1>5, <1>7, LogStutters
<1>8. QED
  BY <1>6, <1>7, Renamed

LEMMA RollbackRestores ==
  ASSUME IInv, HeartbeatRollsBack
  PROVE  Log!Restore("heartbeat") \/ UNCHANGED Log!vars
<1> USE DEF IInv, Typed, RunInPlace, PhasesRight, InStep, PendingFiles, HeartbeatCalls, Targets
<1>1. UNCHANGED <<archives, written, late>>
  BY RolledBack
<1>2. \A t \in Targets : Archived(t)' = Archived(t)
  BY <1>1 DEF Archived, OfTarget
<1>3. active["heartbeat"] = {}
  BY RolledBack
<1>4. \A t \in Targets : active'[t] \cup pending'[t].lines = active[t] \cup pending[t].lines
  BY <1>3, RolledBack, NoPendingFile
<1>5. \A t \in Targets : Stored(t)' = Stored(t)
  BY <1>2, <1>4 DEF Stored
<1>6. CASE active' = [active EXCEPT !["heartbeat"] = pending["heartbeat"].lines]
  <2>1. pending["heartbeat"].lines \in SUBSET Stored("heartbeat")
    BY DEF Stored
  <2>2. QED
    BY <1>1, <1>5, <1>6, <2>1 DEF Log!Restore
<1>7. CASE UNCHANGED active
  BY <1>1, <1>5, <1>7, LogStutters
<1>8. QED
  BY <1>6, <1>7, RolledBack

\* The copy doubles lines of the active file, and its metadata is about no line.
LEMMA CopyUnseen ==
  ASSUME IInv, AppCommits \/ AppDescribes
  PROVE  UNCHANGED Log!vars
<1>1. UNCHANGED <<active, archives, written, late>>
  BY DEF AppCommits, AppDescribes, history
<1>2. \A t \in Targets : Archived(t)' = Archived(t)
  BY <1>1 DEF Archived, OfTarget
<1> USE DEF IInv, Typed, InStep, PendingFiles, Targets
<1>3. \A t \in Targets : active'[t] \cup pending'[t].lines = active[t] \cup pending[t].lines
  <2>1. CASE AppCommits
    BY <2>1, NoPendingFile DEF AppCommits, At, SnapshotCovers, NoPending
  <2>2. CASE AppDescribes
    BY <2>2 DEF AppDescribes
  <2>3. QED
    BY <2>1, <2>2
<1>4. \A t \in Targets : Stored(t)' = Stored(t)
  BY <1>2, <1>3 DEF Stored
<1>5. QED
  BY <1>1, <1>4, LogStutters

\* The archive repeats the pending file, or an archive that was made of it before.
LEMMA CompressionUnseen ==
  ASSUME IInv, Compresses
  PROVE  UNCHANGED Log!vars
<1> USE DEF IInv
<1>1. UNCHANGED <<active, pending, written, late>>
  BY GzipMade
<1>2. PICK final \in Archives :
        /\ final.target = engine.target /\ final.id = pending[engine.target].id
        /\ final.lines = pending[engine.target].lines
        /\ archives' = {a \in archives : a.target # final.target \/ a.id # final.id} \cup {final}
  BY GzipMade
<1>3. engine.target \in Targets /\ pending[engine.target].meta # "absent"
  BY GzipMade DEF InStep, Targets
<1>4. \A a \in archives : a.target = final.target /\ a.id = final.id => a.lines = final.lines
  BY <1>2, <1>3 DEF PendingApart, OfTarget
<1>5. ASSUME NEW t \in Targets PROVE Stored(t)' = Stored(t)
  <2>1. Archived(t) \subseteq Archived(t)'
    <3>1. ASSUME NEW a \in OfTarget(t) PROVE \E b \in OfTarget(t)' : b.lines = a.lines
      BY <1>2, <1>4, <3>1 DEF OfTarget
    <3>2. QED
      BY <3>1 DEF Archived
  <2>2. Archived(t)' \subseteq Archived(t) \cup pending[t].lines
    BY <1>2 DEF Archived, OfTarget
  <2>3. QED
    BY <1>1, <2>1, <2>2 DEF Stored
<1>6. QED
  BY <1>1, <1>5, LogStutters

\* A pending file is removed when its lines are in an archive.
LEMMA RemovalUnseen ==
  ASSUME IInv, Unlinks
  PROVE  UNCHANGED Log!vars
<1> USE DEF IInv
<1>1. /\ engine.step = "unlink" /\ engine.target \in Targets
      /\ pending' = [pending EXCEPT ![engine.target] = NoPending]
      /\ UNCHANGED <<active, archives, written, late>>
  BY Unlinked
<1>2. pending[engine.target].lines \subseteq Archived(engine.target)
  BY <1>1 DEF GzippedFirst, Archived
<1>3. ASSUME NEW t \in Targets PROVE Stored(t)' = Stored(t)
  <2>1. Archived(t)' = Archived(t)
    BY <1>1 DEF Archived, OfTarget
  <2>2. pending'[t].lines = IF t = engine.target THEN {} ELSE pending[t].lines
    BY <1>1, NoPendingFile DEF Typed
  <2>3. QED
    BY <1>1, <1>2, <2>1, <2>2 DEF Stored
<1>4. QED
  BY <1>1, <1>3, LogStutters

\* Retention takes the oldest lines of a target, or an archive whose pending file is there.
LEMMA CleaningExpires ==
  ASSUME IInv, Cleans
  PROVE  (\E t \in Targets : Log!Expire(t)) \/ UNCHANGED Log!vars
<1> USE DEF IInv
<1>1. UNCHANGED <<active, pending, written, late>>
  BY OneCleaned
<1>2. CASE UNCHANGED archives
  BY <1>1, <1>2, LogStutters DEF Stored, Archived, OfTarget
<1>3. ASSUME NEW a \in archives, archives' = archives \ {a},
             \A b \in OfTarget(a.target) : a.mtime <= b.mtime
      PROVE  Log!Expire(a.target) \/ UNCHANGED Log!vars
  <2> DEFINE t == a.target
             Rest == UNION {b.lines : b \in OfTarget(t) \ {a}}
  <2>1. /\ t \in Targets /\ a.id \in Nat /\ a.lines \subseteq 1 .. a.id
        /\ a.id <= written[t] /\ written[t] \in Nat /\ a \in OfTarget(t)
    BY DEF Typed, Archives, Numbered, OfTarget
  <2>2. \A u \in Targets : u # t => Stored(u)' = Stored(u)
    <3>1. \A u \in Targets : u # t => OfTarget(u)' = OfTarget(u)
      BY <1>3 DEF OfTarget
    <3>2. QED
      BY <1>1, <3>1 DEF Stored, Archived
  <2>3. OfTarget(t)' = OfTarget(t) \ {a}
    BY <1>3 DEF OfTarget
  <2>4. Stored(t)' = active[t] \cup pending[t].lines \cup Rest
    BY <1>1, <2>3 DEF Stored, Archived
  <2>5. Stored(t) = active[t] \cup pending[t].lines \cup Rest \cup a.lines
    BY <2>1 DEF Stored, Archived
  <2>6. \A n \in Rest : n \in Nat /\ n > a.id
    <3>1. ASSUME NEW b \in OfTarget(t), b # a PROVE \A n \in b.lines : n \in Nat /\ n > a.id
      <4>1. b \in archives /\ b.target = t /\ b.id \in Nat /\ b.mtime \in Nat /\ a.mtime \in Nat
        BY <3>1 DEF Typed, Archives, OfTarget
      <4>2. a.mtime <= b.mtime /\ a.id # b.id /\ (b.id < a.id => b.mtime < a.mtime)
        BY <1>3, <3>1, <4>1 DEF ArchivesApart
      <4>3. a.id < b.id
        BY <2>1, <4>1, <4>2
      <4>4. b.lines \subseteq Lines
        BY <4>1 DEF Typed, Archives
      <4>5. QED
        BY <3>1, <4>1, <4>3, <4>4 DEF ArchivesApart, Lines
    <3>2. QED
      BY <3>1
  <2>7. \A n \in active[t] : n \in Nat /\ n > a.id
    BY <2>1 DEF Numbered, Typed, Lines
  <2>8. CASE pending[t].meta # "absent" /\ pending[t].id = a.id
    <3>1. a.lines = pending[t].lines
      BY <2>1, <2>8 DEF PendingApart
    <3>2. Stored(t)' = Stored(t)
      BY <2>4, <2>5, <3>1
    <3>3. QED
      BY <1>1, <2>2, <3>2, LogStutters
  <2>9. CASE ~(pending[t].meta # "absent" /\ pending[t].id = a.id)
    <3>1. \A n \in pending[t].lines : n \in Nat /\ n > a.id
      <4>1. CASE pending[t].meta = "absent"
        BY <2>1, <4>1, NoPendingFile DEF PhasesRight
      <4>2. CASE pending[t].meta # "absent"
        BY <2>1, <2>9, <4>2 DEF PendingApart, Typed, PendingFiles, Lines
      <4>3. QED
        BY <4>1, <4>2
    <3>2. Stored(t)' = {m \in Stored(t) : m > a.id}
      BY <2>1, <2>4, <2>5, <2>6, <2>7, <3>1
    <3>3. CASE a.id = 0
      <4>1. Stored(t)' = Stored(t)
        BY <2>1, <2>4, <2>5, <3>3
      <4>2. QED
        BY <1>1, <2>2, <4>1, LogStutters
    <3>4. CASE a.id # 0
      <4>1. a.id \in 1 .. written[t]
        BY <2>1, <3>4
      <4>2. QED
        BY <1>1, <2>1, <2>2, <2>7, <3>2, <4>1, LogExpires
    <3>5. QED
      BY <3>3, <3>4
  <2>10. QED
    BY <2>8, <2>9
<1>4. \A a \in archives : a.target \in Targets
  BY DEF Typed, Archives
<1>5. QED
  BY <1>2, <1>3, <1>4, OneCleaned

\* A writer adds the next line, and the application's may be late.
LEMMA WritesAppend ==
  ASSUME IInv, AppWrites \/ \E s \in Sinks : SinkWrites(s)
  PROVE  \E t \in Targets : Log!Append(t)
<1> USE DEF IInv
<1>1. CASE AppWrites
  <2>1. /\ written' = [written EXCEPT !["app"] = written["app"] + 1]
        /\ active' = [active EXCEPT !["app"] = @ \cup {written["app"] + 1}]
        /\ UNCHANGED <<pending, archives>>
        /\ late' = late \/ late' = late \cup {written["app"] + 1}
    BY <1>1 DEF AppWrites
  <2>2. /\ active'["app"] = active["app"] \cup {written["app"] + 1}
        /\ active'["heartbeat"] = active["heartbeat"]
    BY <2>1 DEF Typed, Targets
  <2>3. /\ Stored("app")' = Stored("app") \cup {written["app"] + 1}
        /\ Stored("heartbeat")' = Stored("heartbeat")
    BY <2>1, <2>2 DEF Stored, Archived, OfTarget
  <2>4. QED
    BY <2>1, <2>3, LogAppends DEF Targets
<1>2. ASSUME NEW s \in Sinks, SinkWrites(s) PROVE Log!Append("heartbeat")
  <2>1. /\ written' = [written EXCEPT !["heartbeat"] = written["heartbeat"] + 1]
        /\ active' = [active EXCEPT !["heartbeat"] = @ \cup {written["heartbeat"] + 1}]
        /\ UNCHANGED <<pending, archives, late>>
    BY <1>2, Appended
  <2>2. /\ active'["heartbeat"] = active["heartbeat"] \cup {written["heartbeat"] + 1}
        /\ active'["app"] = active["app"]
    BY <2>1 DEF Typed, Targets
  <2>3. /\ Stored("heartbeat")' = Stored("heartbeat") \cup {written["heartbeat"] + 1}
        /\ Stored("app")' = Stored("app")
    BY <2>1, <2>2 DEF Stored, Archived, OfTarget
  <2>4. QED
    BY <2>1, <2>3, LogAppends DEF Targets
<1>3. QED
  BY <1>1, <1>2 DEF Targets

LEMMA LogInit == Init => Log!Init
<1> SUFFICES ASSUME Init PROVE Log!Init
  OBVIOUS
<1>1. \A t \in Targets : Stored(t) = {}
  BY NoPendingFile DEF Init, Stored, Archived, OfTarget
<1>2. QED
  BY <1>1 DEF Init, Log!Init

LEMMA LogStep == IInv /\ [Next]_vars => [Log!Next]_(Log!vars)
<1> SUFFICES ASSUME IInv, [Next]_vars PROVE Log!Next \/ UNCHANGED Log!vars
  OBVIOUS
<1>1. CASE UNCHANGED contents
  BY <1>1, LogStutters DEF contents, Stored, Archived, OfTarget
<1>2. CASE AppTruncates \/ HeartbeatRenames \/ HeartbeatRollsBack
  BY <1>2, TruncationRotates, RenameRotates, RollbackRestores DEF Log!Next, Targets
<1>3. CASE AppWrites \/ \E s \in Sinks : SinkWrites(s)
  BY <1>3, WritesAppend DEF Log!Next
<1>4. CASE Cleans
  BY <1>4, CleaningExpires DEF Log!Next
<1>5. QED
  BY <1>1, <1>2, <1>3, <1>4, CopyUnseen, CompressionUnseen, RemovalUnseen, StepOfContents

(***************************************************************************)
(* The theorems.                                                           *)
(***************************************************************************)
LEMMA InitHolds == Init => IInv
<1> SUFFICES ASSUME Init PROVE IInv
  OBVIOUS
<1> USE RotationAssumption DEF Init, Targets
<1>1. Typed
  BY IdleRun, NoPendingFile DEF Typed, Lines
<1>2. RunInPlace /\ LockHeld /\ InStep
  BY IdleRun DEF RunInPlace, LockHeld, InStep, AppCalls, HeartbeatCalls
<1>3. PhasesRight
  BY NoPendingFile DEF PhasesRight
<1>4. Numbered /\ ArchivesApart /\ PendingApart
  BY NoPendingFile DEF Numbered, ArchivesApart, PendingApart, OfTarget
<1>5. NotYetArchived /\ ActiveIsNewer /\ SnapshotCovers /\ GzippedFirst
  BY IdleRun, NoPendingFile DEF NotYetArchived, ActiveIsNewer, SnapshotCovers, GzippedFirst
<1>6. NothingLost
  BY NoPendingFile DEF NothingLost, Kept, Stored, Archived, OfTarget
<1>7. QED
  BY <1>1, <1>2, <1>3, <1>4, <1>5, <1>6 DEF IInv

LEMMA Inductive == Spec => []IInv
<1>1. Init => IInv
  BY InitHolds
<1>2. IInv /\ [Next]_vars => IInv'
  BY TypedKept, RunInPlaceKept, LockHeldKept, PhasesRightKept, InStepKept, NumberedKept, ArchivesApartKept,
     PendingApartKept, NotYetArchivedKept, ActiveIsNewerKept, SnapshotCoversKept, GzippedFirstKept,
     NothingLostKept DEF IInv
<1>3. QED
  BY <1>1, <1>2, PTL DEF Spec

\* Type correctness: every variable of the rotation keeps its shape, whatever fails.
THEOREM TypeCorrect == Spec => []Typed
BY Inductive, PTL DEF IInv

\* For any number of sinks, failures and crashes: RotationEngine.run loses no acknowledged
\* heartbeat and no application line but those written between its snapshot and its
\* truncation, and retention removes the oldest of a target first.
THEOREM LinesSurvive == Spec => []NothingLost
BY Inductive, PTL DEF IInv

\* No line is in two archives, or in an archive and the active file, though a run that died
\* between the archive and the removal of its pending file is compressed again.
THEOREM ArchivedAtMostOnce == Spec => []ArchivedOnce
<1>1. IInv => ArchivedOnce
  <2> SUFFICES ASSUME IInv, NEW t \in Targets
               PROVE  /\ Archived(t) \cap active[t] = {}
                      /\ \A a, b \in OfTarget(t) : a # b => a.lines \cap b.lines = {}
    BY DEF ArchivedOnce
  <2>1. ASSUME NEW a \in OfTarget(t)
        PROVE  /\ a \in archives /\ a.target = t /\ a.id \in Nat
               /\ a.lines \subseteq 1 .. a.id /\ \A n \in active[t] : a.id < n
    BY <2>1 DEF IInv, Typed, Archives, Numbered, OfTarget
  <2>2. Archived(t) \cap active[t] = {}
    BY <2>1 DEF Archived
  <2>3. ASSUME NEW a \in OfTarget(t), NEW b \in OfTarget(t), a # b PROVE a.lines \cap b.lines = {}
    <3>1. a.id # b.id
      BY <2>1, <2>3 DEF IInv, ArchivesApart
    <3>2. a.id < b.id \/ b.id < a.id
      BY <2>1, <3>1
    <3>3. CASE a.id < b.id
      BY <2>1, <2>3, <3>3 DEF IInv, ArchivesApart
    <3>4. CASE b.id < a.id
      BY <2>1, <2>3, <3>4 DEF IInv, ArchivesApart
    <3>5. QED
      BY <3>2, <3>3, <3>4
  <2>4. QED
    BY <2>2, <2>3
<1>2. QED
  BY <1>1, Inductive, PTL

\* Over all its files each target is a RetainedLog: whatever fails, a step of the engine or of
\* a writer adds the next line, begins the file anew or puts it back, lets the oldest lines
\* expire, loses late application lines, or changes nothing.
THEOREM LogIsRetained == Spec => ImplementsRetainedLog
BY Inductive, LogInit, LogStep, PTL DEF Spec, ImplementsRetainedLog, Log!Spec
=============================================================================
