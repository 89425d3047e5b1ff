------------------------ MODULE RawMessagePipeline ------------------------
(***************************************************************************)
(* The path of one Telegram message from its delivery to a handler task to *)
(* the published resource events: RawMessageService.ingest, then           *)
(* RawMessageProcessingBoundary.process_raw_message, which calls           *)
(* parse_and_persist and dedup_and_persist, which calls DedupService.dedup *)
(* for every parsed item.                                                  *)
(*                                                                         *)
(* The monitor runs many handler tasks in one event loop. Every `await` on *)
(* the database is a point where the others run, so every statement is an  *)
(* action of its own; the code between two awaits belongs to the action    *)
(* before it.                                                              *)
(***************************************************************************)
EXTENDS RegistryDatabase

CONSTANTS
  WorkOf,         \* WorkOf[r]: the work_key a resource with key r belongs to
  Content,        \* Content[m]: what the parser finds in m; <<>> if it finds nothing
  MaxDeliveries,  \* bound: deliveries of any messages, in total
  MaxFaults       \* bound: failed statements, failed publish() calls and process
                  \* crashes, in total

\* Messages is finite: channels are rows of a table and tg_message_id is a 64-bit integer.
ASSUME PipelineAssumption ==
  /\ Messages # {} /\ IsFiniteSet(Messages)
  /\ WorkOf \in [Resources -> Works]
  /\ Items \subseteq [res : Resources, links : Seq(Links)]
  /\ Content \in [Messages -> Seq(Items)]
  /\ MaxDeliveries \in Nat /\ MaxFaults \in Nat

VARIABLES
  pc,         \* pc[t]: the statement task t executes next
  job,        \* job[t]: local variables of task t
  reported,   \* reported[m]: the statuses ever reported to the monitor for m
  stored,     \* stored[m]: how many deliveries of m were answered "stored"
  published,  \* published[e]: how many times event e reached the bus
  deliveries, faults,  \* used up so far
  irregular   \* history: a message was delivered while another task handled it, or a
              \* COMMIT of dedup_and_persist took effect and yet raised

envVars  == <<deliveries, faults, irregular>>
seenVars == <<reported, stored, published>>
vars == <<dbVars, pc, job, seenVars, envVars>>

Events == [kind : {"created", "merged"}, res : Resources, msg : Messages]

Outcomes == {"ingest_failed", "already_processed", "parse_failed",
             "dedup_new", "dedup_matched", "dedup_failed", "processing_failed"}

(***************************************************************************)
(* Local state of a task. `data` is the session's copy of parsed_data,     *)
(* `item` and `link` the loop positions, `count` the number just counted,    *)
(* `isNew` and `grew` describe the DedupResult being built, `due` the      *)
(* events of the finished results, `seen` the reloaded dedup_status.       *)
(***************************************************************************)
Job == [msg : Messages, attempts : Nat, data : Seq(Items), item : Nat \ {0},
        link : Nat \ {0}, count : Nat, isNew : BOOLEAN, grew : BOOLEAN,
        due : Seq(Events), seen : DedupStatuses]

JobFor(m) == [msg |-> m, attempts |-> 0, data |-> <<>>, item |-> 1, link |-> 1,
              count |-> 0, isNew |-> FALSE, grew |-> FALSE, due |-> <<>>,
              seen |-> "dedup_pending"]
NoJob == JobFor(CHOOSE m \in Messages : TRUE)

Msg(t)     == job[t].msg
Item(t)    == job[t].data[job[t].item]
Res(t)     == Item(t).res
Link(t)    == Item(t).links[job[t].link]

IngestSteps == {"ingest_select", "ingest_insert", "ingest_commit", "ingest_reread"}
\* Statements inside the try block of dedup_and_persist.
DedupSteps == {"res_select", "work_select", "work_insert", "res_insert", "link_select",
               "link_insert", "source_select", "source_insert", "count", "update",
               "dedup_commit"}
\* What raises here goes to the except branch, the answer to the COMMIT included.
TrySteps == DedupSteps \cup {"dedup_committed"}
Steps == {"idle", "load", "parse", "parse_refresh", "publish", "reload", "repend",
          "report"} \cup IngestSteps \cup TrySteps

Init ==
  /\ DbInit
  /\ pc = [t \in Tasks |-> "idle"]
  /\ job = [t \in Tasks |-> NoJob]
  /\ reported = [m \in Messages |-> {}]
  /\ stored = [m \in Messages |-> 0]
  /\ published = [e \in Events |-> 0]
  /\ deliveries = 0 /\ faults = 0 /\ irregular = FALSE

At(t, step)   == pc[t] = step
Goto(t, step) == pc' = [pc EXCEPT ![t] = step]

\* The task returns `status` to the monitor and leaves its session (open work is rolled back).
Finish(t, status) ==
  /\ Goto(t, "idle")
  /\ reported' = [reported EXCEPT ![Msg(t)] = @ \cup {status}]
  /\ job' = [job EXCEPT ![t] = NoJob]
  /\ UNCHANGED <<stored, published>>

(***************************************************************************)
(* Delivery and ingest.                                                    *)
(***************************************************************************)
Deliver(t, m) ==
  /\ At(t, "idle")
  /\ deliveries < MaxDeliveries
  /\ deliveries' = deliveries + 1
  /\ irregular' = (irregular \/ \E u \in Tasks : ~At(u, "idle") /\ Msg(u) = m)
  /\ Goto(t, "ingest_select")
  /\ job' = [job EXCEPT ![t] = JobFor(m)]
  /\ UNCHANGED <<dbVars, seenVars, faults>>

IngestSelect(t) ==
  /\ At(t, "ingest_select")
  /\ Goto(t, IF RawKey(Msg(t)) \in Visible(t) THEN "load" ELSE "ingest_insert")
  /\ UNCHANGED <<dbVars, job, seenVars, envVars>>

IngestInsert(t) ==
  /\ At(t, "ingest_insert")
  /\ Insert(t, RawKey(Msg(t)))
  /\ Goto(t, "ingest_commit")
  /\ UNCHANGED <<job, seenVars, envVars>>

\* The unique constraint decided for another session: rollback, then read its row.
IngestConflict(t) ==
  /\ At(t, "ingest_insert")
  /\ Rejects(RawKey(Msg(t)))
  /\ Rollback(t)
  /\ Goto(t, "ingest_reread")
  /\ UNCHANGED <<job, seenVars, envVars>>

\* The row appears with the initial column values, which raw[m] holds from the start.
IngestCommit(t) ==
  /\ At(t, "ingest_commit")
  /\ Commit(t, Msg(t), raw[Msg(t)])
  /\ stored' = [stored EXCEPT ![Msg(t)] = @ + 1]
  /\ Goto(t, "load")
  /\ UNCHANGED <<job, reported, published, envVars>>

\* Variant with a bug: answers "stored" for the row it lost the race to.
IngestRereadAsStored(t) ==
  /\ At(t, "ingest_reread")
  /\ stored' = [stored EXCEPT ![Msg(t)] = @ + 1]
  /\ Goto(t, "load")
  /\ UNCHANGED <<dbVars, job, reported, published, envVars>>

IngestReread(t) ==
  /\ At(t, "ingest_reread")
  /\ IF RawKey(Msg(t)) \in Visible(t)
     THEN Goto(t, "load") /\ UNCHANGED <<job, seenVars>>
     ELSE Finish(t, "ingest_failed")
  /\ UNCHANGED <<dbVars, envVars>>

(***************************************************************************)
(* process_raw_message: load, decide, parse.                               *)
(***************************************************************************)
ActionFor(row) ==
  CASE row.parse = "parse_pending" /\ row.dedup = "dedup_pending" -> "parse"
    [] row.parse = "parsed" /\ row.dedup = "dedup_pending"        -> "dedup"
    [] row.parse = "parsed" /\ row.dedup \in FinalDedup           -> "already_processed"
    [] row.parse = "parse_failed" /\ row.dedup = "dedup_pending"  -> "parse_failed"
    [] OTHER                                                      -> "processing_failed"

Load(t) ==
  LET row == raw[Msg(t)]
      action == ActionFor(row)
  IN  /\ At(t, "load")
      /\ \/ /\ action \in {"parse", "dedup"}
            /\ Goto(t, IF action = "parse" THEN "parse" ELSE "res_select")
            /\ job' = [job EXCEPT ![t].attempts = row.attempts, ![t].data = row.data]
            /\ UNCHANGED seenVars
         \/ /\ action \notin {"parse", "dedup"}
            /\ Finish(t, action)
      /\ UNCHANGED <<dbVars, envVars>>

\* The columns parse_and_persist changes; parse_attempts counts from the loaded value.
ParseResult(t) ==
  [raw[Msg(t)] EXCEPT !.attempts = job[t].attempts + 1,
                      !.data = Content[Msg(t)],
                      !.parse = IF Content[Msg(t)] = <<>> THEN "parse_failed" ELSE "parsed"]

Parse(t) ==
  /\ At(t, "parse")
  /\ Commit(t, Msg(t), ParseResult(t))
  /\ Goto(t, "parse_refresh")
  /\ UNCHANGED <<job, seenVars, envVars>>

\* refresh() after the commit, and the boundary's check of what it returned.
ParseRefresh(t) ==
  LET row == raw[Msg(t)]
  IN  /\ At(t, "parse_refresh")
      /\ \/ /\ row.parse = "parsed" /\ row.dedup = "dedup_pending"
            /\ Goto(t, "res_select")
            /\ job' = [job EXCEPT ![t].data = row.data]
            /\ UNCHANGED seenVars
         \/ /\ ~(row.parse = "parsed" /\ row.dedup = "dedup_pending")
            /\ Finish(t, IF row.parse = "parse_failed" THEN "parse_failed"
                         ELSE "processing_failed")
      /\ UNCHANGED <<dbVars, envVars>>

(***************************************************************************)
(* DedupService.dedup for the current item.                                *)
(***************************************************************************)
\* Variant with a bug: leaves the loop before the last link.
LinkStepOffByOne(t, j) == IF j >= Len(Item(t).links) THEN "source_select" ELSE "link_select"

\* The loop over parsed.links: the step for link j, or the step after the loop.
LinkStep(t, j) == IF j > Len(Item(t).links) THEN "source_select" ELSE "link_select"

ResourceSelect(t) ==
  /\ At(t, "res_select")
  /\ \/ /\ ResourceKey(Res(t)) \in Visible(t)
        /\ LoadResource(t, Res(t))
        /\ Goto(t, LinkStep(t, 1))
     \/ /\ ResourceKey(Res(t)) \notin Visible(t)
        /\ Goto(t, "work_select")
        /\ UNCHANGED dbVars
  /\ job' = [job EXCEPT ![t].isNew = ResourceKey(Res(t)) \notin Visible(t),
                        ![t].grew = FALSE, ![t].link = 1]
  /\ UNCHANGED <<seenVars, envVars>>

WorkSelect(t) ==
  /\ At(t, "work_select")
  /\ Goto(t, IF WorkKey(WorkOf[Res(t)]) \in Visible(t) THEN "res_insert" ELSE "work_insert")
  /\ UNCHANGED <<dbVars, job, seenVars, envVars>>

WorkInsert(t) ==
  /\ At(t, "work_insert")
  /\ Insert(t, WorkKey(WorkOf[Res(t)]))
  /\ Goto(t, "res_insert")
  /\ UNCHANGED <<job, seenVars, envVars>>

ResourceInsert(t) ==
  /\ At(t, "res_insert")
  /\ Insert(t, ResourceKey(Res(t)))
  /\ Goto(t, LinkStep(t, 1))
  /\ UNCHANGED <<job, seenVars, envVars>>

LinkSelect(t) ==
  LET found == LinkKey(Res(t), Link(t)) \in Visible(t)
  IN  /\ At(t, "link_select")
      /\ Goto(t, IF found THEN LinkStep(t, job[t].link + 1) ELSE "link_insert")
      /\ job' = [job EXCEPT ![t].link = IF found THEN @ + 1 ELSE @]
      /\ UNCHANGED <<dbVars, seenVars, envVars>>

LinkInsert(t) ==
  /\ At(t, "link_insert")
  /\ Insert(t, LinkKey(Res(t), Link(t)))
  /\ Goto(t, LinkStep(t, job[t].link + 1))
  /\ job' = [job EXCEPT ![t].link = @ + 1, ![t].grew = TRUE]
  /\ UNCHANGED <<seenVars, envVars>>

SourceSelect(t) ==
  /\ At(t, "source_select")
  /\ Goto(t, IF SourceKey(Res(t), Msg(t)) \in Visible(t) THEN "count" ELSE "source_insert")
  /\ UNCHANGED <<dbVars, job, seenVars, envVars>>

SourceInsert(t) ==
  /\ At(t, "source_insert")
  /\ Insert(t, SourceKey(Res(t), Msg(t)))
  /\ Goto(t, "count")
  /\ job' = [job EXCEPT ![t].grew = TRUE]
  /\ UNCHANGED <<seenVars, envVars>>

\* Variant with a bug: one more than the loaded source_count instead of a count.
CountByIncrement(t) ==
  /\ At(t, "count")
  /\ job' = [job EXCEPT ![t].count = txn[t].attr[Res(t)] + 1]
  /\ Goto(t, "update")
  /\ UNCHANGED <<dbVars, seenVars, envVars>>

CountSources(t) ==
  /\ At(t, "count")
  /\ job' = [job EXCEPT ![t].count = Cardinality(SourcesOf(Visible(t), Res(t)))]
  /\ Goto(t, "update")
  /\ UNCHANGED <<dbVars, seenVars, envVars>>

\* Variants with a bug: every change is a creation; a result without a change is a merge.
EventsOfAnyChange(t) ==
  IF job[t].isNew \/ job[t].grew THEN <<[kind |-> "created", res |-> Res(t), msg |-> Msg(t)]>>
  ELSE <<>>

EventsOfAnyResult(t) ==
  <<[kind |-> IF job[t].isNew THEN "created" ELSE "merged", res |-> Res(t), msg |-> Msg(t)]>>

\* The event dedup_and_persist will publish for the result of the current item, if any.
EventsOf(t) ==
  IF job[t].isNew THEN <<[kind |-> "created", res |-> Res(t), msg |-> Msg(t)]>>
  ELSE IF job[t].grew THEN <<[kind |-> "merged", res |-> Res(t), msg |-> Msg(t)]>>
  ELSE <<>>

\* Variant with a bug: the loop over the items never advances.
UpdateCountStuck(t) ==
  /\ At(t, "update")
  /\ UpdateResource(t, Res(t), job[t].count)
  /\ Goto(t, IF job[t].item < Len(job[t].data) THEN "res_select" ELSE "dedup_commit")
  /\ job' = [job EXCEPT ![t].due = @ \o EventsOf(t)]
  /\ UNCHANGED <<seenVars, envVars>>

\* source_count is set and flushed; the loop in dedup_and_persist goes on to the next item.
UpdateCount(t) ==
  /\ At(t, "update")
  /\ UpdateResource(t, Res(t), job[t].count)
  /\ Goto(t, IF job[t].item < Len(job[t].data) THEN "res_select" ELSE "dedup_commit")
  /\ job' = [job EXCEPT ![t].due = @ \o EventsOf(t), ![t].item = @ + 1]
  /\ UNCHANGED <<seenVars, envVars>>

\* Variant with a bug: a message that only extended known resources counts as new.
AnyEvent(t) == job[t].due # <<>>

AnyNew(t) == \E i \in DOMAIN job[t].due : job[t].due[i].kind = "created"

DedupCommit(t) ==
  /\ At(t, "dedup_commit")
  /\ Commit(t, Msg(t), [raw[Msg(t)] EXCEPT !.dedup = IF AnyNew(t) THEN "new" ELSE "matched"])
  /\ Goto(t, "dedup_committed")
  /\ UNCHANGED <<job, seenVars, envVars>>

\* The COMMIT of the dedup is answered: it takes effect before the handler knows.
DedupAnswered(t) ==
  /\ At(t, "dedup_committed")
  /\ Goto(t, IF job[t].due = <<>> THEN "report" ELSE "publish")
  /\ UNCHANGED <<dbVars, job, seenVars, envVars>>

(***************************************************************************)
(* After the commit: one publish() per due event.                          *)
(***************************************************************************)
NextDue(t) ==
  /\ job' = [job EXCEPT ![t].due = Tail(@)]
  /\ Goto(t, IF Len(job[t].due) = 1 THEN "report" ELSE "publish")

Publish(t) ==
  /\ At(t, "publish")
  /\ published' = [published EXCEPT ![Head(job[t].due)] = @ + 1]
  /\ NextDue(t)
  /\ UNCHANGED <<dbVars, reported, stored, envVars>>

\* publish() raises: logged, and the remaining events are still published.
PublishFails(t) ==
  /\ At(t, "publish")
  /\ faults < MaxFaults
  /\ faults' = faults + 1
  /\ NextDue(t)
  /\ UNCHANGED <<dbVars, seenVars, deliveries, irregular>>

(***************************************************************************)
(* The except branch of dedup_and_persist: rollback, reload, set           *)
(* dedup_pending, commit. The UPDATE is issued only if the reloaded status *)
(* was something else.                                                     *)
(***************************************************************************)
\* Variant with a bug: no rollback before the status is reset and committed.
DedupFailsWithoutRollback(t) ==
  /\ Goto(t, "reload")
  /\ UNCHANGED <<dbVars, job, seenVars>>

DedupFails(t) ==
  /\ Rollback(t)
  /\ Goto(t, "reload")
  /\ UNCHANGED <<job, seenVars>>

\* The key the next statement of t inserts, as a set with at most one element.
KeyToInsert(t) ==
  CASE At(t, "work_insert")   -> {WorkKey(WorkOf[Res(t)])}
    [] At(t, "res_insert")    -> {ResourceKey(Res(t))}
    [] At(t, "link_insert")   -> {LinkKey(Res(t), Link(t))}
    [] At(t, "source_insert") -> {SourceKey(Res(t), Msg(t))}
    [] OTHER                  -> {}

DedupConflict(t) ==
  /\ \E k \in KeyToInsert(t) : Rejects(k)
  /\ DedupFails(t)
  /\ UNCHANGED envVars

\* t's next statement waits for a lock that u's transaction holds.
WaitsFor(t, u) ==
  /\ t # u
  /\ \/ \E k \in KeyToInsert(t) : k \in txn[u].ins
     \/ At(t, "update") /\ Res(t) \in txn[u].locks

\* A task waits for at most one other, so a set in which everyone waits for a member and
\* is waited for by a member consists of wait cycles.
InDeadlock(t) ==
  \E S \in SUBSET Tasks :
    /\ t \in S
    /\ \A u \in S : (\E v \in S : WaitsFor(u, v)) /\ (\E v \in S : WaitsFor(v, u))

\* PostgreSQL aborts one transaction of a wait cycle; its statement raises.
DeadlockAbort(t) ==
  /\ InDeadlock(t)
  /\ DedupFails(t)
  /\ UNCHANGED envVars

Reload(t) ==
  /\ At(t, "reload")
  /\ job' = [job EXCEPT ![t].seen = raw[Msg(t)].dedup]
  /\ Goto(t, "repend")
  /\ UNCHANGED <<dbVars, seenVars, envVars>>

\* Variant with a bug: goes on to the events of the failed dedup.
RependThenPublish(t) ==
  /\ At(t, "repend")
  /\ Commit(t, Msg(t), [raw[Msg(t)] EXCEPT !.dedup = "dedup_pending"])
  /\ Goto(t, IF job[t].due = <<>> THEN "report" ELSE "publish")
  /\ UNCHANGED <<job, seenVars, envVars>>

Repend(t) ==
  /\ At(t, "repend")
  /\ Commit(t, Msg(t), IF job[t].seen = "dedup_pending" THEN raw[Msg(t)]
                       ELSE [raw[Msg(t)] EXCEPT !.dedup = "dedup_pending"])
  /\ Goto(t, "report")
  /\ UNCHANGED <<job, seenVars, envVars>>

\* Variant with a bug: everything but a match is new.
StatusNewByDefault(row) == IF row.dedup = "matched" THEN "dedup_matched" ELSE "dedup_new"

\* refresh() and the mapping of the row's final status in _dedup.
StatusOf(row) ==
  CASE row.parse # "parsed"      -> "processing_failed"
    [] row.dedup = "new"         -> "dedup_new"
    [] row.dedup = "matched"     -> "dedup_matched"
    [] OTHER                     -> "dedup_failed"

Report(t) ==
  /\ At(t, "report")
  /\ Finish(t, StatusOf(raw[Msg(t)]))
  /\ UNCHANGED <<dbVars, envVars>>

(***************************************************************************)
(* Failures.                                                               *)
(***************************************************************************)
\* A statement raises for a reason of its own (connection, timeout). What the handler
\* does depends on where it is: ingest_incoming and process_raw_message give up, the
\* try block of dedup_and_persist goes to its except branch. A COMMIT can raise after it
\* took effect: that of the dedup here, the others as a failure of the statement after it.
DatabaseError(t) ==
  /\ pc[t] \notin {"idle", "publish"}
  /\ faults < MaxFaults
  /\ faults' = faults + 1
  /\ irregular' = (irregular \/ At(t, "dedup_committed"))
  /\ \/ /\ pc[t] \in TrySteps
        /\ DedupFails(t)
     \/ /\ pc[t] \notin TrySteps
        /\ Rollback(t)
        /\ Finish(t, IF pc[t] \in IngestSteps THEN "ingest_failed" ELSE "processing_failed")
  /\ UNCHANGED deliveries

\* The process dies: sessions and undelivered events are gone, the database stays.
Crash ==
  /\ faults < MaxFaults
  /\ \E t \in Tasks : ~At(t, "idle")
  /\ faults' = faults + 1
  /\ txn' = [t \in Tasks |-> NoTxn]
  /\ pc' = [t \in Tasks |-> "idle"]
  /\ job' = [t \in Tasks |-> NoJob]
  /\ UNCHANGED <<rows, raw, sourceCount, seenVars, deliveries, irregular>>

\* Every handler has returned: the monitor waits for the next event.
Quiescent == (\A t \in Tasks : At(t, "idle")) /\ UNCHANGED vars

\* What the code and the database do for task t without outside help.
Progress(t) ==
  \/ IngestSelect(t) \/ IngestInsert(t) \/ IngestConflict(t) \/ IngestCommit(t)
  \/ IngestReread(t) \/ Load(t) \/ Parse(t) \/ ParseRefresh(t)
  \/ ResourceSelect(t) \/ WorkSelect(t) \/ WorkInsert(t) \/ ResourceInsert(t)
  \/ LinkSelect(t) \/ LinkInsert(t) \/ SourceSelect(t) \/ SourceInsert(t)
  \/ CountSources(t) \/ UpdateCount(t) \/ DedupCommit(t) \/ DedupAnswered(t)
  \/ DedupConflict(t) \/ DeadlockAbort(t) \/ Publish(t) \/ Reload(t) \/ Repend(t) \/ Report(t)

Next ==
  \/ \E t \in Tasks, m \in Messages : Deliver(t, m)
  \/ \E t \in Tasks : Progress(t) \/ PublishFails(t) \/ DatabaseError(t)
  \/ Crash
  \/ Quiescent

Spec == Init /\ [][Next]_vars

\* The event loop runs every task whose await has completed, and the database answers.
FairSpec == Spec /\ \A t \in Tasks : WF_vars(Progress(t))
-----------------------------------------------------------------------------
(***************************************************************************)
(* Properties.                                                             *)
(***************************************************************************)

\* The type invariant.
TypeOK ==
  /\ DbTypeOK
  /\ pc \in [Tasks -> Steps]
  /\ job \in [Tasks -> Job]
  /\ reported \in [Messages -> SUBSET Outcomes]
  /\ stored \in [Messages -> Nat]
  /\ published \in [Events -> Nat]
  /\ deliveries \in 0 .. MaxDeliveries
  /\ faults \in 0 .. MaxFaults
  /\ irregular \in BOOLEAN

\* What a completed dedup of m leaves behind: resource, links and source of every item.
Attributed(m) ==
  \A i \in DOMAIN Content[m] :
    LET item == Content[m][i]
    IN  /\ ResourceKey(item.res) \in rows
        /\ SourceKey(item.res, m) \in rows
        /\ \A j \in DOMAIN item.links : LinkKey(item.res, item.links[j]) \in rows

\* A final dedup_status is never there without the rows it stands for: whatever interleaves,
\* fails or crashes, "new" or "matched" is committed in one transaction with the resource,
\* links and source of every parsed item (RawMessageService.dedup_and_persist).
FinalIsBacked == \A m \in Messages : raw[m].dedup \in FinalDedup => Attributed(m)

\* Dedup of a message is all or nothing: if one item of a message is attributed to its
\* resource, all of them are; a failure at a later item leaves no earlier one behind.
AllOrNothing ==
  \A m \in Messages :
    (\E i \in DOMAIN Content[m] : SourceKey(Content[m][i].res, m) \in rows) => Attributed(m)

\* A success the boundary reports to the monitor is durable.
SuccessIsDurable ==
  \A m \in Messages :
    reported[m] \cap {"dedup_new", "dedup_matched", "already_processed"} # {} => Attributed(m)

\* An event reaches the bus only after the transaction it tells of has been committed.
EventsAfterCommit ==
  \A e \in Events : published[e] > 0 => SourceKey(e.res, e.msg) \in rows

\* ResourceCreated is published at most once for a resource, by whichever message, over
\* crashes, redeliveries and lost insert races.
CreatedOnce ==
  \A d, e \in Events :
    /\ d.kind = "created" /\ e.kind = "created" /\ d.res = e.res
    /\ published[d] > 0 /\ published[e] > 0
    => d = e /\ published[d] = 1

\* Replaying a message publishes nothing again: no event is published more often than its
\* message mentions the resource.
NoReplayedEvents ==
  \A e \in Events :
    published[e] <= Cardinality({i \in DOMAIN Content[e.msg] : Content[e.msg][i].res = e.res})

\* source_count never promises a source that does not exist, and never misses all of them.
CountIsBacked ==
  \A r \in Resources :
    ResourceKey(r) \in rows => sourceCount[r] \in 1 .. Cardinality(SourcesOf(rows, r))

\* Of all deliveries of a message, at most one is answered "stored", and only with its row.
StoredOnce ==
  \A m \in Messages : stored[m] > 0 => stored[m] = 1 /\ RawKey(m) \in rows

\* A completed message is not processed again: once final, dedup_status stays as it is
\* (_action_for_state answers already_processed).
FinalIsStable ==
  [][\A m \in Messages : raw[m].dedup \in FinalDedup => raw'[m].dedup = raw[m].dedup]_raw

\* DedupService sets source_count to the actual number of ResourceSource rows.
\* The code does not meet it: the README has the circumstances.
CountIsExact ==
  \A r \in Resources :
    ResourceKey(r) \in rows => sourceCount[r] = Cardinality(SourcesOf(rows, r))

\* get_or_create finds a row before it inserts one, so that it never meets IntegrityError.
\* The code does not meet it: the README has the circumstances.
GetOrCreateNeverRejected ==
  \A t \in Tasks :
    pc[t] \in {"link_insert", "source_insert"} => \A k \in KeyToInsert(t) : ~Rejects(k)

\* Every handler returns: no wait for a lock lasts, wait cycles included.
HandlersReturn == \A t \in Tasks : []<>At(t, "idle")

\* The refinement mapping to MessageSettlement.
Settlement == INSTANCE MessageSettlement WITH
  kept      <- {m \in Messages : RawKey(m) \in rows},
  parse     <- [m \in Messages |-> raw[m].parse],
  dedup     <- [m \in Messages |-> raw[m].dedup],
  known     <- {r \in Resources : ResourceKey(r) \in rows},
  sources   <- {p \in Resources \X Messages : SourceKey(p[1], p[2]) \in rows},
  announced <- {e \in Events : published[e] > 0}

\* Until a message is first delivered while another task handles it, or the COMMIT of a
\* dedup first raises although it took effect, every step of the pipeline is a step of
\* MessageSettlement or invisible in it, whatever else fails or crashes.
ImplementsSettlement ==
  Settlement!AbsInit /\ [][irregular' \/ Settlement!AbsNext]_(Settlement!absVars)
=============================================================================
