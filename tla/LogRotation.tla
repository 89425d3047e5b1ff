---------------------------- MODULE LogRotation ----------------------------
(***************************************************************************)
(* RotationEngine.run and the two kinds of writers it rotates under: the   *)
(* application, whose log descriptor launchd holds open and nobody locks,  *)
(* and the heartbeat sinks, which append under heartbeat.lock. An          *)
(* application log is copied and truncated, the heartbeat file renamed and *)
(* made anew. What is not in a final archive yet is a pending file; after  *)
(* a crash the next run recovers it, or refuses to guess. One application  *)
(* log stands for the two. Lines are numbered as they are written.         *)
(***************************************************************************)
EXTENDS Naturals, FiniteSets

CONSTANTS
  Sinks,         \* bound: processes with a JsonlHeartbeatSink
  Free,          \* nobody holds heartbeat.lock
  Keep,          \* archives kept of each target
  Budget,        \* archives kept in all
  MaxLines,      \* bound: lines written to each file
  MaxFailures    \* bound: failing calls and crashes

ASSUME RotationAssumption ==
  /\ Free \notin Sinks \cup {"engine"} /\ "engine" \notin Sinks
  /\ {Keep, Budget, MaxLines, MaxFailures} \subseteq Nat

VARIABLES
  active,     \* per target: the lines in the active file
  inode,      \* the heartbeat file's inode, counting up; 0 when the name is missing
  pending,    \* per target: the pending file, its metadata and inode
  archives,   \* the final archives, each with its mtime
  engine,     \* the run: its step, target, copy and the targets it recovered
  hbLock,     \* who holds heartbeat.lock
  sinks,      \* per sink: the inode it has open, 0 for none
  written,    \* per target: the number of lines written so far
  late,       \* application lines written between a snapshot and its truncation
  acked,      \* heartbeats whose write returned ok
  cleaned,    \* per target: lines of archives that retention removed
  failures    \* failures and crashes so far

files == <<active, inode, pending, archives>>
history == <<late, acked, cleaned>>
vars == <<files, engine, hbLock, sinks, written, history, failures>>

Targets == {"app", "heartbeat"}
NoPending == [meta |-> "absent", lines |-> {}, inode |-> 0, id |-> 0]
Idle == [step |-> "idle", target |-> "none", copy |-> {}, recovered |-> {}, recovering |-> FALSE]

Init ==
  /\ active = [t \in Targets |-> {}] /\ inode = 1
  /\ pending = [t \in Targets |-> NoPending] /\ archives = {}
  /\ engine = Idle /\ hbLock = Free /\ sinks = [s \in Sinks |-> 0]
  /\ written = [t \in Targets |-> 0]
  /\ late = {} /\ acked = {} /\ cleaned = [t \in Targets |-> {}] /\ failures = 0

MayFail == failures < MaxFailures

(***************************************************************************)
(* One target's rotation, call by call.                                    *)
(***************************************************************************)
\* copy to .tmp, rename to .pending, metadata snapshot_committed, ftruncate, metadata
\* active_truncated; or rename to .pending, create. Then compress and unlink.
FirstCall == [app |-> "copy", heartbeat |-> "rename"]
CallAfter ==
  [copy |-> "commit", commit |-> "describe", describe |-> "truncate", truncate |-> "confirm",
   confirm |-> "gzip", rename |-> "create", create |-> "gzip", gzip |-> "unlink"]

\* The next target is checked, or retention is next.
NextTarget(e) ==
  IF e.target = "app" THEN [e EXCEPT !.step = "check", !.target = "heartbeat", !.copy = {}]
                      ELSE [e EXCEPT !.step = "retention", !.copy = {}]

Advance == engine' = [engine EXCEPT !.step = CallAfter[engine.step]]
At(call) == engine.step = call

\* run() takes rotate.lock: one engine at a time, others return ROTATION_ALREADY_RUNNING.
\* What ends in .tmp is disposable; a copy is only in memory here.
RunBegins ==
  /\ engine = Idle
  /\ engine' = [Idle EXCEPT !.step = "recover"]
  /\ UNCHANGED <<files, hbLock, sinks, written, history, failures>>

\* Variant with a bug: an application log's pending file is taken whatever its phase.
AnyPhase(t) == TRUE

\* Variant with a bug: a heartbeat, which has no metadata, is not taken up either.
OnlyTruncated(t) == pending[t].meta = "active_truncated"

\* A heartbeat is always taken up, an application log only when it was truncated.
Recoverable(t) == t = "heartbeat" \/ pending[t].meta = "active_truncated"

\* _recover_pending, in the order of the file names, raises at the first it must not touch.
FirstPending(t) == pending[t] # NoPending /\ (t = "app" \/ pending["app"] = NoPending)
RunRecovers ==
  /\ At("recover")
  /\ \/ /\ \A t \in Targets : pending[t] = NoPending
        /\ engine' = [engine EXCEPT !.step = "check", !.target = "app", !.recovering = FALSE]
     \/ \E t \in Targets :
          /\ FirstPending(t)
          /\ engine' = IF Recoverable(t)
                       THEN [engine EXCEPT !.step = "gzip", !.target = t, !.recovering = TRUE]
                       ELSE Idle
  /\ UNCHANGED <<files, hbLock, sinks, written, history, failures>>

\* _check_targets: a recovered target is left alone; size or age may trigger another
\* that is not empty.
RunChecks ==
  /\ At("check")
  /\ \/ engine' = NextTarget(engine)
     \/ /\ engine.target \notin engine.recovered /\ active[engine.target] # {}
        /\ engine.target = "heartbeat" => inode # 0
        /\ engine' = [engine EXCEPT !.step = FirstCall[engine.target]]
  /\ UNCHANGED <<files, hbLock, sinks, written, history, failures>>

AppCopies ==
  /\ At("copy")
  /\ engine' = [engine EXCEPT !.step = CallAfter["copy"], !.copy = active["app"]]
  /\ UNCHANGED <<files, hbLock, sinks, written, history, failures>>

\* os.replace makes the copy durable; the metadata then says how far the rotation is.
AppCommits ==
  /\ At("commit") /\ Advance
  /\ pending' = [pending EXCEPT !["app"] =
       [NoPending EXCEPT !.meta = "missing", !.lines = engine.copy, !.id = written["app"]]]
  /\ UNCHANGED <<active, inode, archives, hbLock, sinks, written, history, failures>>
AppDescribes ==
  /\ engine.step \in {"describe", "confirm"} /\ Advance
  /\ pending' = [pending EXCEPT !["app"].meta =
       IF At("describe") THEN "snapshot_committed" ELSE "active_truncated"]
  /\ UNCHANGED <<active, inode, archives, hbLock, sinks, written, history, failures>>
AppTruncates ==
  /\ At("truncate") /\ Advance
  /\ active' = [active EXCEPT !["app"] = {}]
  /\ UNCHANGED <<inode, pending, archives, hbLock, sinks, written, history, failures>>

\* Variant with a bug: a lock that is held does not keep the engine out.
LockIgnored == TRUE

\* flock LOCK_EX | LOCK_NB on heartbeat.lock.
LockAvailable == hbLock = Free

HeartbeatRenames ==
  /\ At("rename")
  /\ IF LockAvailable
     THEN /\ hbLock' = "engine" /\ Advance
          /\ pending' = [pending EXCEPT !["heartbeat"] =
               [meta |-> "none", lines |-> active["heartbeat"], inode |-> inode, id |-> written["heartbeat"]]]
          /\ active' = [active EXCEPT !["heartbeat"] = {}] /\ inode' = 0
     ELSE engine' = NextTarget(engine) /\ UNCHANGED <<active, inode, pending, hbLock>>
  /\ UNCHANGED <<archives, sinks, written, history, failures>>

HeartbeatCreates ==
  /\ At("create") /\ Advance
  /\ inode' = pending["heartbeat"].inode + 1 /\ hbLock' = Free
  /\ UNCHANGED <<active, pending, archives, sinks, written, history, failures>>

\* A call fails once the file was renamed: a new one that is there stays, else the old
\* one is renamed back, unless that fails too.
HeartbeatRollsBack ==
  /\ At("create") /\ MayFail
  /\ \/ /\ failures' = failures + 1 /\ inode' = pending["heartbeat"].inode + 1
        /\ UNCHANGED <<active, pending>>
     \/ /\ failures' = failures + 1 /\ inode' = pending["heartbeat"].inode
        /\ active' = [active EXCEPT !["heartbeat"] = pending["heartbeat"].lines]
        /\ pending' = [pending EXCEPT !["heartbeat"] = NoPending]
     \/ failures + 2 <= MaxFailures /\ failures' = failures + 2 /\ UNCHANGED <<active, inode, pending>>
  /\ hbLock' = Free /\ engine' = NextTarget(engine)
  /\ UNCHANGED <<archives, sinks, written, history>>

\* _gzip_atomic: the archive is newer than all others, and has one name per pending file,
\* so that a second one replaces it.
Compresses ==
  LET t == engine.target
      others == {a \in archives : a.target # t \/ a.id # pending[t].id}
  IN /\ At("gzip") /\ Advance
     /\ \E now \in {1} \cup {a.mtime + 1 : a \in archives} :
          /\ \A a \in archives : a.mtime < now
          /\ archives' = others \cup
               {[target |-> t, id |-> pending[t].id, lines |-> pending[t].lines, mtime |-> now]}
     /\ UNCHANGED <<active, inode, pending, hbLock, sinks, written, history, failures>>

Unlinks ==
  LET t == engine.target IN
  /\ At("unlink") /\ pending' = [pending EXCEPT ![t] = NoPending]
  /\ engine' = IF engine.recovering
               THEN [engine EXCEPT !.step = "recover", !.recovered = @ \cup {t}]
               ELSE NextTarget(engine)
  /\ UNCHANGED <<active, inode, archives, hbLock, sinks, written, history, failures>>

OfTarget(t) == {a \in archives : a.target = t}

\* Variant with a bug: the archives are sorted the other way round.
Newest(a, S) == a \in S /\ \A b \in S : b.mtime <= a.mtime

Oldest(a, S) == a \in S /\ \A b \in S : a.mtime <= b.mtime

\* _apply_retention_and_budget removes one archive after another, oldest first.
Superfluous(a) ==
  \/ \E t \in Targets : Cardinality(OfTarget(t)) > Keep /\ Oldest(a, OfTarget(t))
  \/ /\ \A t \in Targets : Cardinality(OfTarget(t)) <= Keep
     /\ Cardinality(archives) > Budget /\ Oldest(a, archives)
Cleans ==
  /\ At("retention")
  /\ \/ \E a \in archives :
          /\ Superfluous(a) /\ archives' = archives \ {a}
          /\ cleaned' = [cleaned EXCEPT ![a.target] = @ \cup a.lines] /\ UNCHANGED engine
     \/ /\ \A a \in archives : ~Superfluous(a)
        /\ engine' = Idle /\ UNCHANGED <<archives, cleaned>>
  /\ UNCHANGED <<active, inode, pending, hbLock, sinks, written, late, acked, failures>>

\* A call of one target fails: its result is failed and the next is checked; while
\* recovering or cleaning the run is over. The lock on the heartbeat is not held.
RunFails ==
  /\ engine # Idle /\ ~At("create") /\ MayFail /\ failures' = failures + 1
  /\ engine' = IF engine.recovering \/ engine.step \in {"recover", "retention"}
               THEN Idle ELSE NextTarget(engine)
  /\ UNCHANGED <<files, hbLock, sinks, written, history>>

\* The process dies; the kernel gives its locks back.
RunCrashes ==
  /\ engine # Idle /\ MayFail /\ failures' = failures + 1
  /\ engine' = Idle /\ hbLock' = IF hbLock = "engine" THEN Free ELSE hbLock
  /\ UNCHANGED <<files, sinks, written, history>>

(***************************************************************************)
(* The writers.                                                            *)
(***************************************************************************)
Snapshotted == engine.step \in {"commit", "describe", "truncate"}

AppWrites ==
  LET line == written["app"] + 1 IN
  /\ line <= MaxLines
  /\ written' = [written EXCEPT !["app"] = line]
  /\ active' = [active EXCEPT !["app"] = @ \cup {line}]
  /\ late' = IF Snapshotted THEN late \cup {line} ELSE late
  /\ UNCHANGED <<inode, pending, archives, engine, hbLock, sinks, acked, cleaned, failures>>

\* _write_blocking: the lock, which is polled until a timeout, then a fresh open that
\* creates a missing file, one line, and the lock is given back.
SinkLocks(s) ==
  /\ hbLock = Free /\ sinks[s] = 0 /\ written["heartbeat"] < MaxLines
  /\ hbLock' = s
  /\ UNCHANGED <<files, engine, sinks, written, history, failures>>
SinkOpens(s) ==
  /\ hbLock = s /\ sinks[s] = 0
  /\ inode' = IF inode # 0 THEN inode ELSE pending["heartbeat"].inode + 1
  /\ sinks' = [sinks EXCEPT ![s] = inode']
  /\ UNCHANGED <<active, pending, archives, engine, hbLock, written, history, failures>>

\* The line goes to the file that was opened, whatever its name is by now.
SinkWrites(s) ==
  LET line == written["heartbeat"] + 1 IN
  /\ sinks[s] # 0 /\ line <= MaxLines
  /\ written' = [written EXCEPT !["heartbeat"] = line] /\ acked' = acked \cup {line}
  /\ active' = IF sinks[s] = inode THEN [active EXCEPT !["heartbeat"] = @ \cup {line}] ELSE active
  /\ pending' = IF sinks[s] = pending["heartbeat"].inode
                THEN [pending EXCEPT !["heartbeat"].lines = @ \cup {line}] ELSE pending
  /\ sinks' = [sinks EXCEPT ![s] = 0] /\ hbLock' = Free
  /\ UNCHANGED <<inode, archives, engine, late, cleaned, failures>>

\* The write fails or the process dies: nothing was promised.
SinkFails(s) ==
  /\ hbLock = s /\ MayFail /\ failures' = failures + 1
  /\ sinks' = [sinks EXCEPT ![s] = 0] /\ hbLock' = Free
  /\ UNCHANGED <<files, engine, written, history>>

RunGoesOn == RunRecovers \/ RunChecks \/ AppCopies \/ AppCommits \/ AppDescribes \/ AppTruncates
             \/ HeartbeatRenames \/ HeartbeatCreates \/ Compresses \/ Unlinks \/ Cleans
SinkGoesOn(s) == SinkOpens(s) \/ SinkWrites(s)

Next == \/ RunBegins \/ RunGoesOn \/ HeartbeatRollsBack \/ RunFails \/ RunCrashes
        \/ AppWrites
        \/ \E s \in Sinks : SinkLocks(s) \/ SinkGoesOn(s) \/ SinkFails(s)

\* The rotation agent runs again and again, and what has begun goes on.
Spec == Init /\ [][Next]_vars /\ WF_vars(RunBegins) /\ WF_vars(RunGoesOn)
        /\ \A s \in Sinks : WF_vars(SinkGoesOn(s))

(***************************************************************************)
(* Properties                                                              *)
(***************************************************************************)
Archived(t) == UNION {a.lines : a \in OfTarget(t)}
Stored(t) == active[t] \cup pending[t].lines \cup Archived(t)
Kept(t) == Stored(t) \cup cleaned[t]

\* Wherever a run fails or dies, a heartbeat that was acknowledged is in the active, a
\* pending or an archived file until retention removes it, and so is an application
\* line, but for those written between the snapshot and the truncation of a rotation.
\* Retention removes no line while an archive of older ones is kept.
NothingLost ==
  /\ acked \subseteq Kept("heartbeat") /\ 1 .. written["app"] \subseteq Kept("app") \cup late
  /\ \A t \in Targets : \A a \in OfTarget(t), n \in cleaned[t] : n <= a.id

\* Over all the files it is in, each target is a RetainedLog: a step of the engine or of a
\* writer, a failure or a crash adds the next line, begins the file anew or puts it back,
\* lets the oldest lines expire, loses late application lines, or changes nothing.
Log == INSTANCE RetainedLog WITH
  Copied <- {"app"}, kept <- [t \in Targets |-> Stored(t)], open <- active, count <- written,
  atRisk <- [t \in Targets |-> IF t = "app" THEN late ELSE {}]
ImplementsRetainedLog == Log!Spec

\* Recovery never archives what is still, or again, in the active file, and no line is
\* in two archives.
ArchivedOnce ==
  \A t \in Targets :
    /\ Archived(t) \cap active[t] = {}
    /\ \A a, b \in OfTarget(t) : a # b => a.lines \cap b.lines = {}

\* What a dead run left pending is archived by a later one, unless an application log
\* was left in a phase that needs a human.
NeedsHuman == pending["app"] # NoPending /\ ~Recoverable("app") /\ engine = Idle
PendingFinalized ==
  \A t \in Targets : pending[t] # NoPending ~> pending[t] = NoPending \/ NeedsHuman
==========================================================================
