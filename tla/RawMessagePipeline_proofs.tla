--------------------- MODULE RawMessagePipeline_proofs ---------------------
(***************************************************************************)
(* Machine-checked proofs about RawMessagePipeline: for every number of    *)
(* tasks, messages, resources, deliveries, failures and crashes. The first *)
(* part proves the inductive invariant IInv, which is about the rows; the  *)
(* second adds layers to it for what the program tells the outside world:  *)
(* the results a task holds (Results), the events that are out or about to *)
(* be (Announced), the counts (Counted), what a transaction inserts        *)
(* (Inserts), and what a task may rely on that handles its message alone   *)
(* (Serial), with which it implements MessageSettlement.                   *)
(***************************************************************************)
EXTENDS RawMessagePipeline, FiniteSetTheorems, TLAPS

(***************************************************************************)
(* The inductive invariant, in layers. Each layer is proved from the ones  *)
(* before it.                                                              *)
(***************************************************************************)

\* Layer 1: types, and the loop positions that keep every access inside its sequence.
ItemSteps == DedupSteps \ {"dedup_commit"}
LinkSteps == {"link_select", "link_insert"}
NewSteps == {"work_select", "work_insert", "res_insert"}

ParsedHasData ==
  \A m \in Messages :
    /\ raw[m].parse = "parsed" => Content[m] # <<>> /\ raw[m].data = Content[m]
    /\ raw[m].dedup \in FinalDedup => raw[m].parse = "parsed"

BoundsOf(t) ==
  /\ pc[t] \in IngestSteps \cup {"load", "parse", "parse_refresh"} => job[t].item = 1
  /\ pc[t] \in DedupSteps => job[t].data = Content[Msg(t)]
  /\ pc[t] \in DedupSteps => raw[Msg(t)].parse = "parsed"
  /\ pc[t] \in ItemSteps => job[t].item \in 1 .. Len(job[t].data)
  /\ pc[t] = "dedup_commit" => job[t].item = Len(job[t].data) + 1
  /\ pc[t] \in NewSteps => job[t].link = 1
  /\ pc[t] \in LinkSteps => job[t].link \in 1 .. Len(Item(t).links)
  /\ pc[t] = "publish" => job[t].due # <<>>

LoopBounds == \A t \in Tasks : BoundsOf(t)

Typed == TypeOK /\ ParsedHasData /\ LoopBounds

\* Layer 2: transactions never share a key with each other or with the committed rows,
\* and exist only where the code has one open.
UniqueKeys ==
  \A t \in Tasks :
    /\ txn[t].ins \cap rows = {}
    /\ \A u \in Tasks \ {t} : txn[t].ins \cap txn[u].ins = {}

OpenWork ==
  \A t \in Tasks :
    /\ pc[t] \notin DedupSteps \cup {"ingest_commit"} => txn[t].ins = {}
    /\ pc[t] = "ingest_commit" => txn[t].ins = {RawKey(Msg(t))}

\* Layer 3: how far the dedup of the current message has got.
ItemDone(t, i) ==
  LET item == job[t].data[i]
  IN  /\ ResourceKey(item.res) \in Visible(t)
      /\ SourceKey(item.res, Msg(t)) \in Visible(t)
      /\ \A j \in DOMAIN item.links : LinkKey(item.res, item.links[j]) \in Visible(t)

AfterResource == LinkSteps \cup {"source_select", "source_insert", "count", "update"}
AfterSource   == {"count", "update"}

\* What DedupProgress says of one task.
ProgressOf(t) ==
  /\ pc[t] \in DedupSteps => \A i \in 1 .. (job[t].item - 1) : ItemDone(t, i)
  /\ pc[t] \in AfterResource =>
       /\ ResourceKey(Res(t)) \in Visible(t)
       /\ \A j \in DOMAIN Item(t).links :
            (j < job[t].link \/ pc[t] \notin LinkSteps) =>
              LinkKey(Res(t), Item(t).links[j]) \in Visible(t)
  /\ pc[t] \in AfterSource => SourceKey(Res(t), Msg(t)) \in Visible(t)

DedupProgress == \A t \in Tasks : ProgressOf(t)

\* Source rows a transaction has inserted are of the message its task handles.
SourcesOwned(t) ==
  \A r \in Resources, m \in Messages :
    SourceKey(r, m) \in txn[t].ins => pc[t] \in DedupSteps /\ m = Msg(t)

OwnSources == \A t \in Tasks : SourcesOwned(t)

Backed == FinalIsBacked /\ AllOrNothing
-----------------------------------------------------------------------------
(***************************************************************************)
(* Layer 1.                                                                *)
(***************************************************************************)

\* The unique keys of typed arguments are keys.
LEMMA KeysTyped ==
  /\ \A m \in Messages : RawKey(m) \in Keys
  /\ \A w \in Works : WorkKey(w) \in Keys
  /\ \A r \in Resources : ResourceKey(r) \in Keys
  /\ \A r \in Resources, l \in Links : LinkKey(r, l) \in Keys
  /\ \A r \in Resources, m \in Messages : SourceKey(r, m) \in Keys
BY DEF Keys

\* The local variables a delivery starts with are typed.
LEMMA JobForTyped == \A m \in Messages : JobFor(m) \in Job
BY DEF JobFor, Job, DedupStatuses

\* What the current item of a task inside the loops is.
LEMMA CurrentItem ==
  ASSUME Typed, NEW t \in Tasks, pc[t] \in ItemSteps
  PROVE  /\ Item(t) \in [res : Resources, links : Seq(Links)]
         /\ Res(t) \in Resources
         /\ Msg(t) \in Messages
         /\ pc[t] \in LinkSteps => Link(t) \in Links
<1>1. job[t] \in Job
  BY DEF Typed, TypeOK
<1>2. job[t].item \in 1 .. Len(job[t].data) /\ job[t].data \in Seq(Items)
  BY <1>1 DEF Typed, LoopBounds, BoundsOf, Job, ItemSteps
<1>3. Item(t) \in Items
  BY <1>2 DEF Item
<1>4. Item(t) \in [res : Resources, links : Seq(Links)]
  BY <1>3, PipelineAssumption
<1>5. pc[t] \in LinkSteps => job[t].link \in 1 .. Len(Item(t).links)
  BY DEF Typed, LoopBounds, BoundsOf
<1> QED
  BY <1>1, <1>4, <1>5 DEF Res, Link, Msg, Job

\* The operations of the database keep its type: INSERT,
LEMMA InsertTyped ==
  ASSUME DbTypeOK, NEW t \in Tasks, NEW k \in Keys, Insert(t, k)
  PROVE  DbTypeOK'
<1>1. txn' \in [Tasks -> Txn]
  BY DEF DbTypeOK, Insert, Txn
<1> QED
  BY <1>1 DEF DbTypeOK, Insert

\* loading a resource row,
LEMMA LoadResourceTyped ==
  ASSUME DbTypeOK, NEW t \in Tasks, NEW r \in Resources, LoadResource(t, r)
  PROVE  DbTypeOK'
<1>1. txn' \in [Tasks -> Txn]
  BY DEF DbTypeOK, LoadResource, Txn
<1> QED
  BY <1>1 DEF DbTypeOK, LoadResource

\* updating one,
LEMMA UpdateResourceTyped ==
  ASSUME DbTypeOK, NEW t \in Tasks, NEW r \in Resources, NEW n \in Nat, UpdateResource(t, r, n)
  PROVE  DbTypeOK'
<1> DEFINE old == txn[t]
           new == [old EXCEPT !.locks = @ \cup {r},
                              !.counts = IF n = old.attr[r] THEN @ ELSE [@ EXCEPT ![r] = n],
                              !.attr = [@ EXCEPT ![r] = n]]
<1>a. old \in Txn
  BY DEF DbTypeOK
<1>b. [old.counts EXCEPT ![r] = n] \in [Resources -> Nat] /\ [old.attr EXCEPT ![r] = n] \in [Resources -> Nat]
  BY <1>a DEF Txn
<1>c. new \in Txn
  BY <1>a, <1>b DEF Txn
<1>d. txn' = [txn EXCEPT ![t] = new]
  BY DEF UpdateResource
<1>1. txn' \in [Tasks -> Txn]
  BY <1>c, <1>d DEF DbTypeOK
<1> QED
  BY <1>1 DEF DbTypeOK, UpdateResource

\* (a session without a transaction is typed)
LEMMA NoTxnTyped == NoTxn \in Txn
BY DEF NoTxn, Txn

\* commit,
LEMMA CommitTyped ==
  ASSUME DbTypeOK, NEW t \in Tasks, NEW m \in Messages, NEW row \in RawRow, Commit(t, m, row)
  PROVE  DbTypeOK'
<1>1. txn' \in [Tasks -> Txn]
  BY NoTxnTyped DEF DbTypeOK, Commit
<1>2. txn[t] \in Txn
  BY DEF DbTypeOK
<1>3. rows' \in SUBSET Keys
  BY <1>2 DEF DbTypeOK, Commit, Txn
<1>4. sourceCount' \in [Resources -> Nat]
  BY <1>2 DEF DbTypeOK, Commit, Txn
<1>5. raw' \in [Messages -> RawRow]
  BY DEF DbTypeOK, Commit
<1> QED
  BY <1>1, <1>3, <1>4, <1>5 DEF DbTypeOK

\* and rollback.
LEMMA RollbackTyped ==
  ASSUME DbTypeOK, NEW t \in Tasks, Rollback(t)
  PROVE  DbTypeOK'
<1>1. txn' \in [Tasks -> Txn]
  BY NoTxnTyped DEF DbTypeOK, Rollback
<1> QED
  BY <1>1 DEF DbTypeOK, Rollback
\* The steps of task t, without the delivery that starts it.
Acts(t) == Progress(t) \/ PublishFails(t) \/ DatabaseError(t)

\* Every step keeps the type of the database.
LEMMA DbTypeStep ==
  ASSUME Typed, [Next]_vars
  PROVE  DbTypeOK'
<1> USE DEF Typed, TypeOK
<1>1. ASSUME NEW t \in Tasks, Acts(t)
      PROVE  DbTypeOK'
  <2>m. Msg(t) \in Messages /\ raw[Msg(t)] \in RawRow
    BY DEF Msg, Job, DbTypeOK
  <2>1. CASE \/ IngestSelect(t) \/ IngestReread(t) \/ Load(t) \/ ParseRefresh(t) \/ WorkSelect(t)
             \/ LinkSelect(t) \/ SourceSelect(t) \/ CountSources(t) \/ Publish(t) \/ Reload(t)
             \/ Report(t) \/ PublishFails(t) \/ DedupAnswered(t)
    <3>1. UNCHANGED dbVars
      BY <2>1 DEF IngestSelect, IngestReread, Load, ParseRefresh, WorkSelect, LinkSelect,
                  SourceSelect, CountSources, Publish, Reload, Report, PublishFails, DedupAnswered
    <3> QED
      BY <3>1 DEF DbTypeOK, dbVars
  <2>2. CASE IngestInsert(t)
    BY <2>2, <2>m, InsertTyped, KeysTyped DEF IngestInsert
  <2>3. CASE WorkInsert(t) \/ ResourceInsert(t) \/ LinkInsert(t) \/ SourceInsert(t)
    <3>1. pc[t] \in ItemSteps /\ (LinkInsert(t) => pc[t] \in LinkSteps)
      BY <2>3 DEF WorkInsert, ResourceInsert, LinkInsert, SourceInsert, At, ItemSteps, DedupSteps, LinkSteps
    <3>2. Res(t) \in Resources /\ WorkOf[Res(t)] \in Works /\ (LinkInsert(t) => Link(t) \in Links)
      BY <3>1, CurrentItem, PipelineAssumption
    <3>3. \E k \in Keys : Insert(t, k)
      BY <2>3, <2>m, <3>2, KeysTyped DEF WorkInsert, ResourceInsert, LinkInsert, SourceInsert
    <3> QED
      BY <3>3, InsertTyped
  <2>4. CASE ResourceSelect(t) \/ UpdateCount(t)
    <3>1. pc[t] \in ItemSteps /\ job[t].count \in Nat
      BY <2>4 DEF ResourceSelect, UpdateCount, At, ItemSteps, DedupSteps, Job
    <3>2. Res(t) \in Resources
      BY <3>1, CurrentItem
    <3>3. LoadResource(t, Res(t)) \/ UpdateResource(t, Res(t), job[t].count) \/ UNCHANGED dbVars
      BY <2>4 DEF ResourceSelect, UpdateCount
    <3> QED
      BY <3>1, <3>2, <3>3, LoadResourceTyped, UpdateResourceTyped DEF DbTypeOK, dbVars
  <2>5. CASE IngestCommit(t)
    BY <2>5, <2>m, CommitTyped DEF IngestCommit
  <2>6. CASE Parse(t)
    <3>0. job[t].attempts + 1 \in Nat /\ Content[Msg(t)] \in Seq(Items)
      BY <2>m, PipelineAssumption DEF Job
    <3>1. ParseResult(t) \in RawRow
      BY <2>m, <3>0 DEF ParseResult, RawRow, ParseStatuses
    <3> QED
      BY <2>6, <2>m, <3>1, CommitTyped DEF Parse
  <2>7. CASE DedupCommit(t)
    <3>1. [raw[Msg(t)] EXCEPT !.dedup = IF AnyNew(t) THEN "new" ELSE "matched"] \in RawRow
      BY <2>m DEF RawRow, DedupStatuses
    <3> QED
      BY <2>7, <2>m, <3>1, CommitTyped DEF DedupCommit
  <2>8. CASE Repend(t)
    <3>1. [raw[Msg(t)] EXCEPT !.dedup = "dedup_pending"] \in RawRow
      BY <2>m DEF RawRow, DedupStatuses
    <3> QED
      BY <2>8, <2>m, <3>1, CommitTyped DEF Repend
  <2>9. CASE IngestConflict(t) \/ DedupConflict(t) \/ DeadlockAbort(t) \/ DatabaseError(t)
    <3>1. Rollback(t)
      BY <2>9 DEF IngestConflict, DedupConflict, DeadlockAbort, DatabaseError, DedupFails
    <3> QED
      BY <3>1, RollbackTyped
  <2> QED
    BY <1>1, <2>1, <2>2, <2>3, <2>4, <2>5, <2>6, <2>7, <2>8, <2>9 DEF Acts, Progress
<1>2. ASSUME NEW t \in Tasks, NEW m \in Messages, Deliver(t, m)
      PROVE  DbTypeOK'
  BY <1>2 DEF Deliver, DbTypeOK, dbVars
<1>3. CASE Crash
  BY <1>3, NoTxnTyped DEF Crash, DbTypeOK
<1>4. CASE Quiescent \/ UNCHANGED vars
  BY <1>4 DEF Quiescent, vars, dbVars, DbTypeOK
<1> QED
  BY <1>1, <1>2, <1>3, <1>4 DEF Next, Acts

\* Only the three committing steps of the processing boundary write status columns.
LEMMA RawStep ==
  ASSUME Typed, [Next]_vars
  PROVE  raw' = raw \/ \E t \in Tasks : Parse(t) \/ DedupCommit(t) \/ Repend(t)
<1>1. ASSUME NEW t \in Tasks, Acts(t), ~Parse(t), ~DedupCommit(t), ~Repend(t), ~IngestCommit(t)
      PROVE  raw' = raw
  BY <1>1 DEF Acts, Progress, IngestSelect, IngestInsert, IngestConflict, IngestReread, Load,
     ParseRefresh, ResourceSelect, WorkSelect, WorkInsert, ResourceInsert, LinkSelect, LinkInsert,
     SourceSelect, SourceInsert, CountSources, UpdateCount, DedupAnswered, DedupConflict, DeadlockAbort, Publish,
     Reload, Report, PublishFails, DatabaseError, DedupFails, Insert, LoadResource, UpdateResource,
     Rollback, dbVars
<1>2. ASSUME NEW t \in Tasks, IngestCommit(t)
      PROVE  raw' = raw
  BY <1>2 DEF IngestCommit, Commit, Typed, TypeOK, DbTypeOK
<1>3. ASSUME NEW t \in Tasks, NEW m \in Messages, Deliver(t, m)
      PROVE  raw' = raw
  BY <1>3 DEF Deliver, dbVars
<1>4. CASE Crash \/ Quiescent \/ UNCHANGED vars
  BY <1>4 DEF Crash, Quiescent, vars, dbVars
<1> QED
  BY <1>1, <1>2, <1>3, <1>4 DEF Next, Acts

\* A parsed message keeps the data it was parsed into, and stays parsed.
LEMMA ParsedHasDataStep ==
  ASSUME Typed, [Next]_vars
  PROVE  /\ ParsedHasData'
         /\ \A m \in Messages : raw[m].parse = "parsed" => raw'[m].parse = "parsed"
<1> USE DEF Typed, TypeOK, DbTypeOK, ParsedHasData
<1>1. CASE raw' = raw
  BY <1>1
<1>2. ASSUME NEW t \in Tasks, Parse(t) \/ DedupCommit(t) \/ Repend(t)
      PROVE  /\ ParsedHasData'
             /\ \A m \in Messages : raw[m].parse = "parsed" => raw'[m].parse = "parsed"
  <2>1. Msg(t) \in Messages /\ raw[Msg(t)] \in RawRow
    BY DEF Msg, Job
  <2>2. CASE Parse(t)
    <3>1. raw' = [raw EXCEPT ![Msg(t)] = ParseResult(t)]
      BY <2>2 DEF Parse, Commit
    <3>2. /\ ParseResult(t).data = Content[Msg(t)]
          /\ ParseResult(t).dedup = raw[Msg(t)].dedup
          /\ ParseResult(t).parse = IF Content[Msg(t)] = <<>> THEN "parse_failed" ELSE "parsed"
      BY <2>1 DEF ParseResult, RawRow
    <3> QED
      BY <2>1, <3>1, <3>2
  <2>3. CASE DedupCommit(t)
    <3>1. raw[Msg(t)].parse = "parsed"
      BY <2>3 DEF DedupCommit, At, LoopBounds, BoundsOf, DedupSteps
    <3>2. PICK s \in {"new", "matched"} : raw' = [raw EXCEPT ![Msg(t)] = [raw[Msg(t)] EXCEPT !.dedup = s]]
      BY <2>3 DEF DedupCommit, Commit
    <3> DEFINE row == [raw[Msg(t)] EXCEPT !.dedup = s]
    <3>4. row.parse = raw[Msg(t)].parse /\ row.data = raw[Msg(t)].data
      BY <2>1 DEF RawRow
    <3>5. \A m \in Messages : raw'[m].parse = raw[m].parse /\ raw'[m].data = raw[m].data
      BY <2>1, <3>2, <3>4
    <3>6. \A m \in Messages : raw'[m].dedup \in FinalDedup => raw[m].dedup \in FinalDedup \/ m = Msg(t)
      BY <2>1, <3>2
    <3> QED
      BY <3>1, <3>5, <3>6
  <2>4. CASE Repend(t)
    <3>1. \/ raw' = [raw EXCEPT ![Msg(t)] = raw[Msg(t)]]
          \/ raw' = [raw EXCEPT ![Msg(t)] = [raw[Msg(t)] EXCEPT !.dedup = "dedup_pending"]]
      BY <2>4 DEF Repend, Commit
    <3> DEFINE row == [raw[Msg(t)] EXCEPT !.dedup = "dedup_pending"]
    <3>2. row.parse = raw[Msg(t)].parse /\ row.data = raw[Msg(t)].data /\ row.dedup \notin FinalDedup
      BY <2>1 DEF RawRow, FinalDedup
    <3>3. \A m \in Messages : raw'[m].parse = raw[m].parse /\ raw'[m].data = raw[m].data
      BY <2>1, <3>1, <3>2
    <3>4. \A m \in Messages : raw'[m].dedup \in FinalDedup => raw[m].dedup \in FinalDedup
      BY <2>1, <3>1, <3>2
    <3> QED
      BY <3>3, <3>4
  <2> QED
    BY <1>2, <2>2, <2>3, <2>4
<1> QED
  BY <1>1, <1>2, RawStep

\* The event of an item is an event of the model.
LEMMA EventsOfTyped ==
  ASSUME Typed, NEW t \in Tasks, pc[t] \in ItemSteps
  PROVE  EventsOf(t) \in Seq(Events)
<1>1. Res(t) \in Resources /\ Msg(t) \in Messages
  BY CurrentItem
<1> DEFINE event(k) == [kind |-> k, res |-> Res(t), msg |-> Msg(t)]
<1>2. event("created") \in Events /\ event("merged") \in Events
  BY <1>1 DEF Events
<1>3. <<event("created")>> \in Seq(Events) /\ <<event("merged")>> \in Seq(Events) /\ <<>> \in Seq(Events)
  BY <1>2
<1> QED
  BY <1>3 DEF EventsOf

\* The number of source rows a statement counts is a natural number.
LEMMA CountIsNat == \A S, r : Cardinality(SourcesOf(S, r)) \in Nat
<1>1. \A S, r : SourcesOf(S, r) \subseteq Messages
  BY DEF SourcesOf
<1> QED
  BY <1>1, FS_Subset, FS_CardinalityType, PipelineAssumption

\* A step of task t takes t to one of the steps, and moves no other task.
LEMMA GotoStep ==
  ASSUME NEW t \in Tasks, Acts(t)
  PROVE  \E s \in Steps : Goto(t, s)
<1> USE DEF Steps, IngestSteps, DedupSteps, TrySteps
<1>1. CASE \/ IngestSelect(t) \/ IngestInsert(t) \/ IngestConflict(t) \/ IngestCommit(t)
           \/ IngestReread(t) \/ Load(t) \/ Parse(t) \/ ParseRefresh(t)
  BY <1>1 DEF IngestSelect, IngestInsert, IngestConflict, IngestCommit, IngestReread, Load, Parse,
     ParseRefresh, Finish
<1>2. \A j : LinkStep(t, j) \in Steps
  BY DEF LinkStep
<1>3. CASE ResourceSelect(t) \/ WorkSelect(t) \/ WorkInsert(t) \/ ResourceInsert(t)
  BY <1>2, <1>3 DEF ResourceSelect, WorkSelect, WorkInsert, ResourceInsert
<1>4. CASE LinkSelect(t) \/ LinkInsert(t) \/ SourceSelect(t) \/ SourceInsert(t)
  BY <1>2, <1>4 DEF LinkSelect, LinkInsert, SourceSelect, SourceInsert
<1>5. CASE CountSources(t) \/ UpdateCount(t) \/ DedupCommit(t) \/ DedupAnswered(t) \/ Publish(t) \/ PublishFails(t)
  BY <1>5 DEF CountSources, UpdateCount, DedupCommit, DedupAnswered, Publish, PublishFails, NextDue
<1>6. CASE DedupConflict(t) \/ DeadlockAbort(t) \/ Reload(t) \/ Repend(t) \/ Report(t) \/ DatabaseError(t)
  BY <1>6 DEF DedupConflict, DeadlockAbort, Reload, Repend, Report, DatabaseError, DedupFails, Finish
<1> QED
  BY <1>1, <1>3, <1>4, <1>5, <1>6 DEF Acts, Progress

\* A step of task t leaves t with well-typed local variables, and changes no other task's.
LEMMA JobStep ==
  ASSUME Typed, NEW t \in Tasks, Acts(t)
  PROVE  \E j \in Job : job' = [job EXCEPT ![t] = j]
<1>0. job[t] \in Job /\ job \in [Tasks -> Job] /\ Msg(t) \in Messages /\ raw[Msg(t)] \in RawRow
  BY DEF Typed, TypeOK, DbTypeOK, Msg, Job
<1> DEFINE Goal == \E j \in Job : job' = [job EXCEPT ![t] = j]
<1>2. CASE UNCHANGED job
  <2>1. job' = [job EXCEPT ![t] = job[t]]
    BY <1>0, <1>2
  <2> QED
    BY <1>0, <2>1
<1>3. CASE job' = [job EXCEPT ![t] = NoJob]
  BY <1>3, JobForTyped, PipelineAssumption DEF NoJob
<1>4. ASSUME NEW n \in Nat, NEW d \in Seq(Items), job' = [job EXCEPT ![t].attempts = n, ![t].data = d]
      PROVE  Goal
  <2> DEFINE new == [job[t] EXCEPT !.attempts = n, !.data = d]
  <2>1. new \in Job
    BY <1>0 DEF Job
  <2>2. job' = [job EXCEPT ![t] = new]
    BY <1>0, <1>4
  <2> QED
    BY <2>1, <2>2
<1>5. CASE Load(t)
  <2>1. raw[Msg(t)].attempts \in Nat /\ raw[Msg(t)].data \in Seq(Items)
    BY <1>0 DEF RawRow
  <2> QED
    BY <1>5, <1>3, <1>4, <2>1 DEF Load, Finish
<1>6. CASE ParseRefresh(t)
  <2>1. raw[Msg(t)].data \in Seq(Items)
    BY <1>0 DEF RawRow
  <2> DEFINE new == [job[t] EXCEPT !.data = raw[Msg(t)].data]
  <2>2. new \in Job
    BY <1>0, <2>1 DEF Job
  <2>3. job' = [job EXCEPT ![t] = new] \/ job' = [job EXCEPT ![t] = NoJob]
    BY <1>0, <1>6 DEF ParseRefresh, Finish
  <2> QED
    BY <1>3, <2>2, <2>3
<1>7. CASE ResourceSelect(t)
  <2> DEFINE new(b, g, n) == [job[t] EXCEPT !.isNew = b, !.grew = g, !.link = n]
  <2>1. 1 \in Nat \ {0}
    OBVIOUS
  <2>2. \A b, g \in BOOLEAN, n \in Nat \ {0} : new(b, g, n) \in Job
    BY <1>0 DEF Job
  <2>3. \E b, g \in BOOLEAN : job' = [job EXCEPT ![t] = new(b, g, 1)]
    BY <1>0, <1>7 DEF ResourceSelect
  <2> QED
    BY <2>1, <2>2, <2>3
<1>8. CASE LinkSelect(t) \/ LinkInsert(t)
  <2> DEFINE new(n, g) == [job[t] EXCEPT !.link = n, !.grew = g]
  <2>0. job[t].link \in Nat \ {0} /\ job[t].link + 1 \in Nat \ {0} /\ job[t].grew \in BOOLEAN
    BY <1>0 DEF Job
  <2>1. \A n \in Nat \ {0}, g \in BOOLEAN : new(n, g) \in Job
    BY <1>0 DEF Job
  <2>2. \/ job' = [job EXCEPT ![t] = new(job[t].link, job[t].grew)]
        \/ job' = [job EXCEPT ![t] = new(job[t].link + 1, job[t].grew)]
        \/ job' = [job EXCEPT ![t] = new(job[t].link + 1, TRUE)]
    BY <1>0, <1>8 DEF LinkSelect, LinkInsert, Job
  <2> QED
    BY <2>0, <2>1, <2>2
<1>9. CASE SourceInsert(t)
  <2> DEFINE new == [job[t] EXCEPT !.grew = TRUE]
  <2>1. new \in Job
    BY <1>0 DEF Job
  <2>2. job' = [job EXCEPT ![t] = new]
    BY <1>0, <1>9 DEF SourceInsert
  <2> QED
    BY <2>1, <2>2
<1>10. CASE CountSources(t)
  <2> DEFINE n == Cardinality(SourcesOf(Visible(t), Res(t)))
             new == [job[t] EXCEPT !.count = n]
  <2>0. n \in Nat
    BY CountIsNat
  <2>1. new \in Job
    BY <1>0, <2>0 DEF Job
  <2>2. job' = [job EXCEPT ![t] = new]
    BY <1>0, <1>10 DEF CountSources
  <2> QED
    BY <2>1, <2>2
<1>11. CASE UpdateCount(t)
  <2> DEFINE new == [job[t] EXCEPT !.due = job[t].due \o EventsOf(t), !.item = job[t].item + 1]
  <2>1. pc[t] \in ItemSteps
    BY <1>11 DEF UpdateCount, At, ItemSteps, DedupSteps
  <2>2. job[t].due \o EventsOf(t) \in Seq(Events) /\ job[t].item + 1 \in Nat \ {0}
    BY <1>0, <2>1, EventsOfTyped DEF Job
  <2>3. new \in Job
    BY <1>0, <2>2 DEF Job
  <2>4. job' = [job EXCEPT ![t] = new]
    BY <1>0, <1>11 DEF UpdateCount
  <2> QED
    BY <2>3, <2>4
<1>12. CASE Publish(t) \/ PublishFails(t)
  <2> DEFINE new == [job[t] EXCEPT !.due = Tail(job[t].due)]
  <2>1. job[t].due \in Seq(Events) /\ job[t].due # <<>>
    BY <1>0, <1>12 DEF Publish, PublishFails, At, Typed, LoopBounds, BoundsOf, Job
  <2>a. Tail(job[t].due) \in Seq(Events)
    BY <2>1
  <2>2. new \in Job
    BY <1>0, <2>a DEF Job
  <2>3. job' = [job EXCEPT ![t] = new]
    BY <1>0, <1>12 DEF Publish, PublishFails, NextDue
  <2> QED
    BY <2>2, <2>3
<1>13. CASE Reload(t)
  <2> DEFINE new == [job[t] EXCEPT !.seen = raw[Msg(t)].dedup]
  <2>1. new \in Job
    BY <1>0 DEF Job, RawRow
  <2>2. job' = [job EXCEPT ![t] = new]
    BY <1>0, <1>13 DEF Reload
  <2> QED
    BY <2>1, <2>2
<1>14. CASE IngestReread(t) \/ Report(t) \/ DatabaseError(t)
  BY <1>2, <1>3, <1>14 DEF IngestReread, Report, DatabaseError, DedupFails, Finish
<1>15. CASE \/ IngestSelect(t) \/ IngestInsert(t) \/ IngestConflict(t) \/ IngestCommit(t) \/ Parse(t)
            \/ WorkSelect(t) \/ WorkInsert(t) \/ ResourceInsert(t) \/ SourceSelect(t)
            \/ DedupCommit(t) \/ DedupAnswered(t) \/ DedupConflict(t) \/ DeadlockAbort(t) \/ Repend(t)
  BY <1>2, <1>15 DEF IngestSelect, IngestInsert, IngestConflict, IngestCommit, Parse, WorkSelect,
     WorkInsert, ResourceInsert, SourceSelect, DedupCommit, DedupAnswered, DedupConflict, DeadlockAbort, Repend,
     DedupFails
<1> QED
  BY <1>5, <1>6, <1>7, <1>8, <1>9, <1>10, <1>11, <1>12, <1>13, <1>14, <1>15 DEF Acts, Progress

\* A step of task t keeps t's loop positions inside the sequences they index.
LEMMA OwnBoundsStep ==
  ASSUME Typed, NEW t \in Tasks, Acts(t)
  PROVE  BoundsOf(t)'
<1>0. /\ job[t] \in Job /\ job \in [Tasks -> Job] /\ pc \in [Tasks -> Steps]
      /\ Msg(t) \in Messages /\ raw[Msg(t)] \in RawRow /\ Content[Msg(t)] \in Seq(Items)
      /\ BoundsOf(t)
  BY PipelineAssumption DEF Typed, TypeOK, DbTypeOK, LoopBounds, Msg, Job
<1>p. raw[Msg(t)].parse = "parsed" => raw'[Msg(t)].parse = "parsed"
  BY <1>0, ParsedHasDataStep DEF Next, Acts
<1> USE DEF Goto, ItemSteps, DedupSteps, LinkSteps, NewSteps, IngestSteps
<1>1. ASSUME NEW s, Goto(t, s), s \notin DedupSteps \cup IngestSteps,
             s \notin {"publish", "load", "parse", "parse_refresh"}
      PROVE  BoundsOf(t)'
  BY <1>0, <1>1 DEF BoundsOf
<1>2. CASE \/ IngestSelect(t) \/ IngestInsert(t) \/ IngestConflict(t) \/ IngestCommit(t)
           \/ IngestReread(t) \/ Parse(t)
  <2>1. \/ Goto(t, "idle")
        \/ /\ UNCHANGED job
           /\ pc[t] \in IngestSteps \cup {"parse"}
           /\ \E s \in {"load", "ingest_insert", "ingest_commit", "ingest_reread", "parse_refresh"} : Goto(t, s)
    BY <1>2 DEF IngestSelect, IngestInsert, IngestConflict, IngestCommit, IngestReread, Parse, Finish, At
  <2> QED
    BY <1>0, <1>1, <2>1 DEF BoundsOf
<1>3. CASE Load(t)
  <2>1. CASE Finish(t, ActionFor(raw[Msg(t)]))
    BY <1>1, <2>1 DEF Finish
  <2> DEFINE row == raw[Msg(t)]
             new == [job[t] EXCEPT !.attempts = row.attempts, !.data = row.data]
  <2>2. CASE ~Finish(t, ActionFor(row))
    <3>1. /\ pc[t] = "load" /\ ActionFor(row) \in {"parse", "dedup"}
          /\ Goto(t, IF ActionFor(row) = "parse" THEN "parse" ELSE "res_select")
          /\ job' = [job EXCEPT ![t] = new]
      BY <1>0, <1>3, <2>2 DEF Load, At
    <3>2. job'[t] = new /\ new.item = 1 /\ new.msg = Msg(t) /\ new.data = row.data
      BY <1>0, <3>1 DEF BoundsOf, Job, Msg
    <3>3. CASE ActionFor(row) = "parse"
      BY <1>0, <3>1, <3>2, <3>3 DEF BoundsOf
    <3>4. CASE ActionFor(row) = "dedup"
      <4>1. row.parse = "parsed"
        BY <3>4 DEF ActionFor
      <4>2. row.data = Content[Msg(t)] /\ Content[Msg(t)] # <<>>
        BY <1>0, <4>1 DEF Typed, ParsedHasData
      <4>3. 1 \in 1 .. Len(Content[Msg(t)])
        BY <1>0, <4>2
      <4>4. pc'[t] = "res_select"
        BY <1>0, <3>1, <3>4
      <4> QED
        BY <1>p, <3>2, <4>1, <4>2, <4>3, <4>4 DEF BoundsOf, Msg
    <3> QED
      BY <3>1, <3>3, <3>4
  <2> QED
    BY <2>1, <2>2
<1>4. CASE ParseRefresh(t)
  <2> DEFINE row == raw[Msg(t)]
             new == [job[t] EXCEPT !.data = row.data]
  <2>1. CASE Goto(t, "idle")
    BY <1>1, <2>1
  <2>2. CASE ~Goto(t, "idle")
    <3>1. /\ pc[t] = "parse_refresh" /\ row.parse = "parsed"
          /\ Goto(t, "res_select")
          /\ job' = [job EXCEPT ![t] = new]
      BY <1>0, <1>4, <2>2 DEF ParseRefresh, At, Finish
    <3>2. job'[t] = new /\ new.item = 1 /\ new.msg = Msg(t) /\ new.data = row.data
      BY <1>0, <3>1 DEF BoundsOf, Job, Msg
    <3>3. row.data = Content[Msg(t)] /\ Content[Msg(t)] # <<>>
      BY <1>0, <3>1 DEF Typed, ParsedHasData
    <3>4. 1 \in 1 .. Len(Content[Msg(t)]) /\ pc'[t] = "res_select"
      BY <1>0, <3>1, <3>3
    <3> QED
      BY <1>p, <3>1, <3>2, <3>3, <3>4 DEF BoundsOf, Msg
  <2> QED
    BY <2>1, <2>2
<1>5. ASSUME NEW s, Goto(t, s), s \in ItemSteps, pc[t] \in ItemSteps,
             job'[t].data = job[t].data, job'[t].item = job[t].item, job'[t].msg = job[t].msg,
             s \in NewSteps => job'[t].link = 1,
             s \in LinkSteps => job'[t].link \in 1 .. Len(Item(t).links)
      PROVE  BoundsOf(t)'
  BY <1>0, <1>p, <1>5 DEF BoundsOf, Msg, Item
<1>6. CASE WorkSelect(t) \/ WorkInsert(t) \/ SourceSelect(t) \/ SourceInsert(t) \/ CountSources(t)
  <2>1. /\ pc[t] \in ItemSteps /\ \E s \in ItemSteps \ LinkSteps : Goto(t, s) /\ (s \in NewSteps => UNCHANGED job /\ pc[t] \in NewSteps)
        /\ job'[t].data = job[t].data /\ job'[t].item = job[t].item /\ job'[t].msg = job[t].msg
    BY <1>0, <1>6 DEF WorkSelect, WorkInsert, SourceSelect, SourceInsert, CountSources, At, Job
  <2>2. pc[t] \in NewSteps => job[t].link = 1
    BY <1>0 DEF BoundsOf
  <2> QED
    BY <1>5, <2>1, <2>2
\* The step LinkStep(t, j) chooses is right for loop position j.
<1>7. ASSUME NEW j \in Nat \ {0}, pc[t] \in ItemSteps
      PROVE  /\ LinkStep(t, j) \in {"source_select", "link_select"}
             /\ LinkStep(t, j) \in LinkSteps => j \in 1 .. Len(Item(t).links)
  <2>1. Item(t).links \in Seq(Links)
    BY <1>7, CurrentItem
  <2> QED
    BY <2>1 DEF LinkStep
<1>8. CASE ResourceSelect(t)
  <2>1. /\ pc[t] \in ItemSteps
        /\ job'[t].data = job[t].data /\ job'[t].item = job[t].item /\ job'[t].msg = job[t].msg
        /\ job'[t].link = 1
        /\ Goto(t, LinkStep(t, 1)) \/ Goto(t, "work_select")
    BY <1>0, <1>8 DEF ResourceSelect, At, Job
  <2> QED
    BY <1>5, <1>7, <2>1
<1>9. CASE ResourceInsert(t)
  <2>1. pc[t] \in NewSteps /\ UNCHANGED job /\ Goto(t, LinkStep(t, 1))
    BY <1>0, <1>9 DEF ResourceInsert, At
  <2>2. job[t].link = 1 /\ pc[t] \in ItemSteps
    BY <1>0, <2>1 DEF BoundsOf
  <2>3. /\ LinkStep(t, 1) \in {"source_select", "link_select"}
        /\ LinkStep(t, 1) \in LinkSteps => 1 \in 1 .. Len(Item(t).links)
    BY <1>7, <2>2
  <2> QED
    BY <1>5, <2>1, <2>2, <2>3
<1>10. CASE LinkSelect(t) \/ LinkInsert(t)
  <2>1. /\ pc[t] \in LinkSteps
        /\ job'[t].data = job[t].data /\ job'[t].item = job[t].item /\ job'[t].msg = job[t].msg
        /\ \/ Goto(t, LinkStep(t, job[t].link + 1)) /\ job'[t].link = job[t].link + 1
           \/ Goto(t, "link_insert") /\ job'[t].link = job[t].link
    BY <1>0, <1>10 DEF LinkSelect, LinkInsert, At, Job
  <2>2. job[t].link \in 1 .. Len(Item(t).links) /\ job[t].link + 1 \in Nat \ {0}
    BY <1>0, <2>1 DEF BoundsOf, Job
  <2>3. CASE Goto(t, LinkStep(t, job[t].link + 1)) /\ job'[t].link = job[t].link + 1
    BY <1>5, <1>7, <2>1, <2>2, <2>3
  <2>4. CASE Goto(t, "link_insert") /\ job'[t].link = job[t].link
    BY <1>5, <2>1, <2>2, <2>4
  <2> QED
    BY <2>1, <2>3, <2>4
<1>11. CASE UpdateCount(t)
  <2> DEFINE last == ~(job[t].item < Len(job[t].data))
  <2>1. /\ pc[t] \in ItemSteps
        /\ job'[t].data = job[t].data /\ job'[t].item = job[t].item + 1 /\ job'[t].msg = job[t].msg
        /\ Goto(t, IF last THEN "dedup_commit" ELSE "res_select")
    BY <1>0, <1>11 DEF UpdateCount, At, Job
  <2>2. job[t].item \in 1 .. Len(job[t].data) /\ job[t].data = Content[Msg(t)]
        /\ raw'[Msg(t)].parse = "parsed"
    BY <1>0, <1>p, <2>1 DEF BoundsOf
  <2>3. job[t].data \in Seq(Items)
    BY <1>0 DEF Job
  <2>4. pc'[t] = IF last THEN "dedup_commit" ELSE "res_select"
    BY <1>0, <2>1
  <2>5. CASE last
    BY <1>0, <2>1, <2>2, <2>3, <2>4, <2>5 DEF BoundsOf, Msg
  <2>6. CASE ~last
    BY <1>0, <2>1, <2>2, <2>3, <2>4, <2>6 DEF BoundsOf, Msg
  <2> QED
    BY <2>5, <2>6
<1>12. CASE DedupCommit(t) \/ DedupAnswered(t)
  <2>1. \/ pc'[t] \in {"dedup_committed", "report"}
        \/ pc'[t] = "publish" /\ job'[t].due # <<>>
    BY <1>0, <1>12 DEF DedupCommit, DedupAnswered
  <2> QED
    BY <2>1 DEF BoundsOf
<1>13. CASE Publish(t) \/ PublishFails(t)
  <2>1. /\ pc[t] = "publish" /\ job[t].due \in Seq(Events) /\ job[t].due # <<>>
        /\ job'[t].due = Tail(job[t].due)
        /\ pc'[t] = IF Len(job[t].due) = 1 THEN "report" ELSE "publish"
    BY <1>0, <1>13 DEF Publish, PublishFails, NextDue, At, BoundsOf, Job
  <2>2. Len(job[t].due) # 1 => Len(Tail(job[t].due)) # 0
    BY <2>1
  <2>3. pc'[t] = "publish" => job'[t].due # <<>>
    <3>1. Len(<<>>) = 0
      OBVIOUS
    <3> HIDE <2>1
    <3>2. pc'[t] = "publish" => Len(job[t].due) # 1
      BY <2>1
    <3>3. job'[t].due = Tail(job[t].due)
      BY <2>1
    <3> QED
      BY <2>2, <3>1, <3>2, <3>3
  <2>4. pc'[t] \in {"publish", "report"}
    BY <2>1
  <2> QED
    BY <2>3, <2>4 DEF BoundsOf
<1>14. CASE \/ DedupConflict(t) \/ DeadlockAbort(t) \/ Reload(t) \/ Repend(t) \/ Report(t)
            \/ DatabaseError(t)
  <2>1. \E s \in {"reload", "repend", "report", "idle"} : Goto(t, s)
    BY <1>14 DEF DedupConflict, DeadlockAbort, Reload, Repend, Report, DatabaseError, DedupFails, Finish
  <2> QED
    BY <1>1, <2>1
<1> QED
  BY <1>2, <1>3, <1>4, <1>6, <1>8, <1>9, <1>10, <1>11, <1>12, <1>13, <1>14 DEF Acts, Progress

\* The counters and the records of what was reported, stored and published stay typed.
LEMMA RecordsStep ==
  ASSUME Typed, [Next]_vars
  PROVE  /\ reported' \in [Messages -> SUBSET Outcomes]
         /\ stored' \in [Messages -> Nat]
         /\ published' \in [Events -> Nat]
         /\ deliveries' \in 0 .. MaxDeliveries /\ faults' \in 0 .. MaxFaults
         /\ irregular' \in BOOLEAN
<1> DEFINE Recorded == /\ reported' \in [Messages -> SUBSET Outcomes]
                       /\ stored' \in [Messages -> Nat]
                       /\ published' \in [Events -> Nat]
           Counted == /\ deliveries' \in 0 .. MaxDeliveries /\ faults' \in 0 .. MaxFaults
                      /\ irregular' \in BOOLEAN
<1>0. TypeOK
  BY DEF Typed
<1>1. ASSUME NEW t \in Tasks, NEW status \in Outcomes, Finish(t, status)
      PROVE  Recorded
  <2>1. Msg(t) \in Messages
    BY <1>0 DEF TypeOK, Msg, Job
  <2>2. reported[Msg(t)] \cup {status} \in SUBSET Outcomes
    BY <1>0, <2>1 DEF TypeOK
  <2> QED
    BY <1>0, <1>1, <2>1, <2>2 DEF TypeOK, Finish
<1>2. ASSUME UNCHANGED seenVars
      PROVE  Recorded
  BY <1>0, <1>2 DEF TypeOK, seenVars
<1>3. ASSUME NEW t \in Tasks, \/ IngestReread(t) \/ Load(t) \/ ParseRefresh(t) \/ Report(t)
                              \/ DatabaseError(t)
      PROVE  Recorded
  <2>1. \A row : ActionFor(row) \in Outcomes \cup {"parse", "dedup"} /\ StatusOf(row) \in Outcomes
    BY DEF ActionFor, StatusOf, Outcomes
  <2>2. UNCHANGED seenVars \/ \E status \in Outcomes : Finish(t, status)
    BY <1>3, <2>1 DEF IngestReread, Load, ParseRefresh, Report, DatabaseError, DedupFails, Outcomes
  <2> QED
    BY <1>1, <1>2, <2>2
<1>4. ASSUME NEW t \in Tasks, IngestCommit(t)
      PROVE  Recorded
  <2>1. Msg(t) \in Messages
    BY <1>0 DEF TypeOK, Msg, Job
  <2> QED
    BY <1>0, <1>4, <2>1 DEF IngestCommit, TypeOK
<1>5. ASSUME NEW t \in Tasks, Publish(t)
      PROVE  Recorded
  <2>1. job[t].due \in Seq(Events) /\ job[t].due # <<>>
    BY <1>0, <1>5 DEF Publish, At, Typed, LoopBounds, BoundsOf, TypeOK, Job
  <2>2. Head(job[t].due) \in Events
    BY <2>1
  <2> QED
    BY <1>0, <1>5, <2>2 DEF Publish, TypeOK
<1>6. ASSUME NEW t \in Tasks, Acts(t), ~IngestReread(t), ~Load(t), ~ParseRefresh(t), ~Report(t),
             ~DatabaseError(t), ~IngestCommit(t), ~Publish(t)
      PROVE  UNCHANGED seenVars
  BY <1>6 DEF Acts, Progress, IngestSelect, IngestInsert, IngestConflict, Parse, ResourceSelect,
     WorkSelect, WorkInsert, ResourceInsert, LinkSelect, LinkInsert, SourceSelect, SourceInsert,
     CountSources, UpdateCount, DedupCommit, DedupAnswered, DedupConflict, DeadlockAbort, Reload, Repend,
     PublishFails, DedupFails
<1>7. ASSUME NEW t \in Tasks, Acts(t)
      PROVE  Counted
  <2>1. CASE PublishFails(t) \/ DatabaseError(t)
    <3>1. /\ faults < MaxFaults /\ faults' = faults + 1 /\ UNCHANGED deliveries
          /\ irregular' \in {irregular, irregular \/ At(t, "dedup_committed")}
      BY <2>1 DEF PublishFails, DatabaseError
    <3>2. irregular' \in BOOLEAN
      BY <1>0, <3>1 DEF TypeOK, At
    <3> QED
      BY <1>0, <3>1, <3>2, PipelineAssumption DEF TypeOK
  <2>2. CASE Progress(t)
    <3>1. UNCHANGED envVars
      BY <2>2 DEF Progress, IngestSelect, IngestInsert, IngestConflict, IngestCommit, IngestReread,
         Load, Parse, ParseRefresh, ResourceSelect, WorkSelect, WorkInsert, ResourceInsert, LinkSelect,
         LinkInsert, SourceSelect, SourceInsert, CountSources, UpdateCount, DedupCommit, DedupAnswered, DedupConflict,
         DeadlockAbort, Publish, Reload, Repend, Report
    <3> QED
      BY <1>0, <3>1 DEF TypeOK, envVars
  <2> QED
    BY <1>7, <2>1, <2>2 DEF Acts
<1>8. ASSUME NEW t \in Tasks, NEW m \in Messages, Deliver(t, m)
      PROVE  Recorded /\ Counted
  BY <1>0, <1>8, PipelineAssumption DEF Deliver, TypeOK, seenVars
<1>9. CASE Crash
  BY <1>0, <1>9, PipelineAssumption DEF Crash, TypeOK, seenVars
<1>10. CASE Quiescent \/ UNCHANGED vars
  BY <1>0, <1>10 DEF Quiescent, vars, seenVars, envVars, TypeOK
<1> QED
  BY <1>2, <1>3, <1>4, <1>5, <1>6, <1>7, <1>8, <1>9, <1>10 DEF Next, Acts

\* Layer 1 holds initially,
LEMMA TypedInit == Init => Typed
<1> SUFFICES ASSUME Init PROVE Typed
  OBVIOUS
<1>1. InitialRow \in RawRow
  BY DEF InitialRow, RawRow, ParseStatuses, DedupStatuses
<1>2. DbTypeOK
  BY <1>1, NoTxnTyped DEF Init, DbInit, DbTypeOK
<1>3. NoJob \in Job
  BY JobForTyped, PipelineAssumption DEF NoJob
<1>c. deliveries \in 0 .. MaxDeliveries /\ faults \in 0 .. MaxFaults /\ irregular \in BOOLEAN
  <2>1. deliveries = 0 /\ faults = 0 /\ irregular = FALSE
    BY DEF Init
  <2>2. deliveries \in 0 .. MaxDeliveries /\ faults \in 0 .. MaxFaults
    BY <2>1, PipelineAssumption
  <2> QED
    BY <2>1, <2>2
<1>4. TypeOK
  BY <1>2, <1>3, <1>c DEF Init, TypeOK, Steps
<1>5. ParsedHasData
  BY DEF Init, DbInit, ParsedHasData, InitialRow, FinalDedup
<1>6. LoopBounds
  BY DEF Init, LoopBounds, BoundsOf, DedupSteps, IngestSteps, ItemSteps, LinkSteps, NewSteps
<1> QED
  BY <1>4, <1>5, <1>6 DEF Typed

\* and every step preserves it.
LEMMA TypedStep == Typed /\ [Next]_vars => Typed'
<1> SUFFICES ASSUME Typed, [Next]_vars PROVE Typed'
  OBVIOUS
<1>1. DbTypeOK' /\ ParsedHasData'
  BY DbTypeStep, ParsedHasDataStep
<1>2. \A m \in Messages : raw[m].parse = "parsed" => raw'[m].parse = "parsed"
  BY ParsedHasDataStep
<1> DEFINE Local == pc' \in [Tasks -> Steps] /\ job' \in [Tasks -> Job] /\ LoopBounds'
<1>0. /\ pc \in [Tasks -> Steps] /\ job \in [Tasks -> Job] /\ LoopBounds
      /\ \A t \in Tasks : Msg(t) \in Messages
  BY DEF Typed, TypeOK, Msg, Job
<1>3. ASSUME NEW u \in Tasks, pc'[u] = pc[u], job'[u] = job[u]
      PROVE  BoundsOf(u)'
  BY <1>0, <1>2, <1>3 DEF LoopBounds, BoundsOf, Msg, Item
<1>4. ASSUME NEW t \in Tasks, Acts(t)
      PROVE  Local
  <2>1. PICK s \in Steps : pc' = [pc EXCEPT ![t] = s]
    BY <1>4, GotoStep DEF Goto
  <2>2. PICK j \in Job : job' = [job EXCEPT ![t] = j]
    BY <1>4, JobStep
  <2>3. \A u \in Tasks \ {t} : pc'[u] = pc[u] /\ job'[u] = job[u]
    BY <1>0, <2>1, <2>2
  <2>4. \A u \in Tasks : BoundsOf(u)'
    BY <1>3, <1>4, <2>3, OwnBoundsStep
  <2> QED
    BY <1>0, <2>1, <2>2, <2>4 DEF LoopBounds
<1>5. ASSUME NEW t \in Tasks, NEW m \in Messages, Deliver(t, m)
      PROVE  Local
  <2>1. pc' = [pc EXCEPT ![t] = "ingest_select"] /\ job' = [job EXCEPT ![t] = JobFor(m)]
    BY <1>5 DEF Deliver, Goto
  <2>2. \A u \in Tasks \ {t} : pc'[u] = pc[u] /\ job'[u] = job[u]
    BY <1>0, <2>1
  <2>3. BoundsOf(t)'
    BY <1>0, <2>1 DEF BoundsOf, JobFor, DedupSteps, ItemSteps, LinkSteps, NewSteps
  <2>4. \A u \in Tasks : BoundsOf(u)'
    BY <1>3, <2>2, <2>3
  <2> QED
    BY <1>0, <2>1, <2>4, JobForTyped DEF LoopBounds, Steps, IngestSteps
<1>6. ASSUME Crash
      PROVE  Local
  <2>1. /\ pc' = [t \in Tasks |-> "idle"] /\ job' = [t \in Tasks |-> NoJob] /\ NoJob \in Job
    BY <1>6, JobForTyped, PipelineAssumption DEF Crash, NoJob
  <2>2. \A u \in Tasks : BoundsOf(u)'
    BY <2>1 DEF BoundsOf, DedupSteps, ItemSteps, LinkSteps, NewSteps, IngestSteps
  <2>3. LoopBounds'
    BY <2>2 DEF LoopBounds
  <2>4. "idle" \in Steps
    BY DEF Steps
  <2> QED
    BY <2>1, <2>3, <2>4
<1>7. ASSUME Quiescent \/ UNCHANGED vars
      PROVE  Local
  <2>1. UNCHANGED <<pc, job>>
    BY <1>7 DEF Quiescent, vars
  <2>2. LoopBounds'
    BY <1>3, <2>1 DEF LoopBounds
  <2> QED
    BY <1>0, <2>1, <2>2
<1>8. Local
  <2> HIDE DEF Local
  <2> QED
    BY <1>4, <1>5, <1>6, <1>7 DEF Next, Acts
<1> QED
  BY <1>1, <1>8, RecordsStep DEF Typed, TypeOK

\* Every state of the pipeline is well typed (RawMessagePipeline!TypeOK), for any number of
\* handler tasks, messages, resources, failures and crashes.
THEOREM TypeCorrect == Spec => []TypeOK
<1>1. Spec => []Typed
  BY TypedInit, TypedStep, PTL DEF Spec
<1>2. Typed => TypeOK
  BY DEF Typed
<1> QED
  BY <1>1, <1>2, PTL
-----------------------------------------------------------------------------
(***************************************************************************)
(* Layer 2.                                                                *)
(***************************************************************************)

\* The four things a step of task t does to the keys: nothing, one INSERT, COMMIT, ROLLBACK.
Others(t) == \A u \in Tasks \ {t} : txn'[u].ins = txn[u].ins

Keeps(t) == rows' = rows /\ Others(t) /\ txn'[t].ins = txn[t].ins

Adds(t, k) ==
  /\ k \in Keys /\ ~Rejects(k) /\ ~HeldElsewhere(t, k)
  /\ rows' = rows /\ Others(t) /\ txn'[t].ins = txn[t].ins \cup {k}

Commits(t) == rows' = rows \cup txn[t].ins /\ Others(t) /\ txn'[t].ins = {}

Aborts(t) == rows' = rows /\ Others(t) /\ txn'[t].ins = {}

Working == DedupSteps \cup {"ingest_commit"}

\* What the operations of the database do to the open inserts: INSERT adds its key,
LEMMA InsertAdds ==
  ASSUME Typed, NEW t \in Tasks, NEW k \in Keys, Insert(t, k)
  PROVE  Adds(t, k)
<1>1. txn \in [Tasks -> Txn]
  BY DEF Typed, TypeOK, DbTypeOK
<1> DEFINE new == [txn[t] EXCEPT !.ins = txn[t].ins \cup {k}]
<1>2. txn' = [txn EXCEPT ![t] = new] /\ new.ins = txn[t].ins \cup {k}
  BY <1>1 DEF Insert, Txn
<1> QED
  BY <1>1, <1>2 DEF Adds, Insert, Others

\* commit makes them rows,
LEMMA CommitCommits ==
  ASSUME Typed, NEW t \in Tasks, NEW m, NEW row, Commit(t, m, row)
  PROVE  Commits(t)
BY DEF Typed, TypeOK, DbTypeOK, Commit, Commits, Others, NoTxn

\* rollback drops them,
LEMMA RollbackAborts ==
  ASSUME Typed, NEW t \in Tasks, Rollback(t)
  PROVE  Aborts(t)
BY DEF Typed, TypeOK, DbTypeOK, Rollback, Aborts, Others, NoTxn

\* and loading or updating a resource keeps them.
LEMMA LoadKeeps ==
  ASSUME Typed, NEW t \in Tasks, NEW r \in Resources, LoadResource(t, r)
  PROVE  Keeps(t)
<1>1. txn \in [Tasks -> Txn]
  BY DEF Typed, TypeOK, DbTypeOK
<1>2. \E a : txn' = [txn EXCEPT ![t] = [txn[t] EXCEPT !.attr = a]]
  <2>1. txn' = [txn EXCEPT ![t] = [txn[t] EXCEPT !.attr = txn'[t].attr]]
    BY <1>1 DEF LoadResource, Txn
  <2> QED
    BY <2>1
<1> QED
  BY <1>1, <1>2 DEF LoadResource, Keeps, Others, Txn

\* (the same for an UPDATE)
LEMMA UpdateKeeps ==
  ASSUME Typed, NEW t \in Tasks, NEW r \in Resources, NEW n \in Nat, UpdateResource(t, r, n)
  PROVE  Keeps(t)
<1>1. txn \in [Tasks -> Txn]
  BY DEF Typed, TypeOK, DbTypeOK
<1>2. \A u \in Tasks : txn'[u].ins = txn[u].ins
  BY <1>1 DEF UpdateResource, Txn
<1> QED
  BY <1>2 DEF UpdateResource, Keeps, Others

\* Which step inserts which key: a raw message key only in ingest, the rest inside dedup.
LEMMA InsertStep ==
  ASSUME Typed, NEW t \in Tasks
  PROVE  /\ IngestInsert(t) => Adds(t, RawKey(Msg(t)))
         /\ WorkInsert(t) => Adds(t, WorkKey(WorkOf[Res(t)]))
         /\ ResourceInsert(t) => Adds(t, ResourceKey(Res(t)))
         /\ LinkInsert(t) => Adds(t, LinkKey(Res(t), Link(t)))
         /\ SourceInsert(t) => Adds(t, SourceKey(Res(t), Msg(t)))
<1>0. Msg(t) \in Messages
  BY DEF Typed, TypeOK, Msg, Job
<1>1. IngestInsert(t) => Adds(t, RawKey(Msg(t)))
  BY <1>0, KeysTyped, InsertAdds DEF IngestInsert
<1>2. WorkInsert(t) \/ ResourceInsert(t) \/ LinkInsert(t) \/ SourceInsert(t)
        => pc[t] \in ItemSteps /\ (LinkInsert(t) => pc[t] \in LinkSteps)
  BY DEF WorkInsert, ResourceInsert, LinkInsert, SourceInsert, At, ItemSteps, DedupSteps, LinkSteps
<1>3. pc[t] \in ItemSteps => Res(t) \in Resources /\ WorkOf[Res(t)] \in Works
                             /\ (pc[t] \in LinkSteps => Link(t) \in Links)
  BY CurrentItem, PipelineAssumption
<1>4. WorkInsert(t) => Adds(t, WorkKey(WorkOf[Res(t)]))
  BY <1>2, <1>3, KeysTyped, InsertAdds DEF WorkInsert
<1>5. ResourceInsert(t) => Adds(t, ResourceKey(Res(t)))
  BY <1>2, <1>3, KeysTyped, InsertAdds DEF ResourceInsert
<1>6. LinkInsert(t) => Adds(t, LinkKey(Res(t), Link(t)))
  BY <1>2, <1>3, KeysTyped, InsertAdds DEF LinkInsert
<1>7. SourceInsert(t) => Adds(t, SourceKey(Res(t), Msg(t)))
  BY <1>0, <1>2, <1>3, KeysTyped, InsertAdds DEF SourceInsert
<1> QED
  BY <1>1, <1>4, <1>5, <1>6, <1>7

\* Where each of the four things happens, and that a transaction inside dedup_and_persist
\* stays there until it is committed or rolled back.
LEMMA StepShape ==
  ASSUME Typed, NEW t \in Tasks, Acts(t)
  PROVE  \/ /\ Keeps(t) /\ pc[t] # "ingest_commit" /\ pc'[t] # "ingest_commit"
            /\ pc[t] \in DedupSteps => pc'[t] \in DedupSteps
         \/ IngestInsert(t) /\ Adds(t, RawKey(Msg(t)))
         \/ WorkInsert(t) \/ ResourceInsert(t) \/ LinkInsert(t) \/ SourceInsert(t)
         \/ Commits(t) /\ (IngestCommit(t) \/ Parse(t) \/ DedupCommit(t) \/ Repend(t))
         \/ Aborts(t) /\ pc'[t] \in {"reload", "ingest_reread", "idle"}
<1>0. pc \in [Tasks -> Steps] /\ Msg(t) \in Messages
  BY DEF Typed, TypeOK, Msg, Job
<1> USE DEF DedupSteps
<1>1. CASE \/ IngestSelect(t) \/ IngestReread(t) \/ Load(t) \/ ParseRefresh(t) \/ Publish(t)
           \/ PublishFails(t) \/ Reload(t) \/ Report(t) \/ DedupAnswered(t)
  <2>1. Keeps(t)
    BY <1>1 DEF IngestSelect, IngestReread, Load, ParseRefresh, Publish, PublishFails, Reload,
       Report, DedupAnswered, dbVars, Keeps, Others
  <2>2. /\ pc[t] \in {"ingest_select", "ingest_reread", "load", "parse_refresh", "publish", "reload", "report",
                  "dedup_committed"}
        /\ pc'[t] # "ingest_commit"
    BY <1>0, <1>1 DEF IngestSelect, IngestReread, Load, ParseRefresh, Publish, PublishFails, NextDue,
       Reload, Report, DedupAnswered, At, Goto, Finish
  <2> QED
    BY <2>1, <2>2
<1>2. CASE WorkSelect(t) \/ LinkSelect(t) \/ SourceSelect(t) \/ CountSources(t)
  <2>1. Keeps(t)
    BY <1>2 DEF WorkSelect, LinkSelect, SourceSelect, CountSources, dbVars, Keeps, Others
  <2>2. pc[t] \in DedupSteps /\ pc'[t] \in DedupSteps
    BY <1>0, <1>2 DEF WorkSelect, LinkSelect, SourceSelect, CountSources, At, Goto, LinkStep
  <2> QED
    BY <2>1, <2>2
<1>3. CASE ResourceSelect(t) \/ UpdateCount(t)
  <2>1. pc[t] \in DedupSteps /\ pc'[t] \in DedupSteps /\ pc[t] \in ItemSteps
    BY <1>0, <1>3 DEF ResourceSelect, UpdateCount, At, Goto, LinkStep, ItemSteps
  <2>2. Res(t) \in Resources /\ job[t].count \in Nat
    BY <2>1, CurrentItem DEF Typed, TypeOK, Job
  <2>3. LoadResource(t, Res(t)) \/ UpdateResource(t, Res(t), job[t].count) \/ UNCHANGED dbVars
    BY <1>3 DEF ResourceSelect, UpdateCount
  <2>4. UNCHANGED dbVars => Keeps(t)
    BY DEF dbVars, Keeps, Others
  <2>5. Keeps(t)
    BY <2>2, <2>3, <2>4, LoadKeeps, UpdateKeeps
  <2> QED
    BY <2>1, <2>5
<1>4. CASE IngestInsert(t)
  BY <1>4, InsertStep
<1>5. CASE IngestCommit(t) \/ Parse(t) \/ DedupCommit(t) \/ Repend(t)
  BY <1>5, CommitCommits DEF IngestCommit, Parse, DedupCommit, Repend
<1>6. CASE IngestConflict(t) \/ DedupConflict(t) \/ DeadlockAbort(t) \/ DatabaseError(t)
  <2>1. Rollback(t)
    BY <1>6 DEF IngestConflict, DedupConflict, DeadlockAbort, DatabaseError, DedupFails
  <2>2. pc'[t] \in {"reload", "ingest_reread", "idle"}
    BY <1>0, <1>6 DEF IngestConflict, DedupConflict, DeadlockAbort, DatabaseError, DedupFails, Goto, Finish
  <2> QED
    BY <2>1, <2>2, RollbackAborts
<1> QED
  BY <1>1, <1>2, <1>3, <1>4, <1>5, <1>6 DEF Acts, Progress

Keyed == UniqueKeys /\ OpenWork

\* Layer 2 is preserved by the steps of a task.
LEMMA KeyedActs ==
  ASSUME Typed, Keyed, NEW t \in Tasks, Acts(t)
  PROVE  Keyed'
<1>0. pc \in [Tasks -> Steps] /\ Msg(t) \in Messages /\ job \in [Tasks -> Job]
  BY DEF Typed, TypeOK, Msg, Job
<1>1. \A u \in Tasks \ {t} : pc'[u] = pc[u] /\ job'[u] = job[u]
  BY <1>0, GotoStep, JobStep DEF Goto
<1>2. ASSUME Others(t), rows' \subseteq rows \cup txn[t].ins,
             txn'[t].ins \cap rows' = {},
             \A u \in Tasks \ {t} : txn'[t].ins \cap txn[u].ins = {},
             pc'[t] \notin Working => txn'[t].ins = {},
             pc'[t] = "ingest_commit" => txn'[t].ins = {RawKey(Msg(t)')}
      PROVE  Keyed'
  <2>1. UniqueKeys'
    <3>1. ASSUME NEW u \in Tasks PROVE txn'[u].ins \cap rows' = {}
      BY <1>2, <3>1 DEF Keyed, UniqueKeys, Others
    <3>2. ASSUME NEW u \in Tasks, NEW v \in Tasks \ {u} PROVE txn'[u].ins \cap txn'[v].ins = {}
      BY <1>2, <3>2 DEF Keyed, UniqueKeys, Others
    <3> QED
      BY <3>1, <3>2 DEF UniqueKeys
  <2>2. OpenWork'
    <3>1. ASSUME NEW u \in Tasks \ {t}
          PROVE  /\ pc'[u] \notin Working => txn'[u].ins = {}
                 /\ pc'[u] = "ingest_commit" => txn'[u].ins = {RawKey(Msg(u)')}
      BY <1>1, <1>2, <3>1 DEF Keyed, OpenWork, Others, Msg, Working
    <3> QED
      BY <1>2, <3>1 DEF OpenWork, Working
  <2> QED
    BY <2>1, <2>2 DEF Keyed
<1>3. /\ txn[t].ins \cap rows = {}
      /\ \A u \in Tasks \ {t} : txn[t].ins \cap txn[u].ins = {}
      /\ pc[t] \notin Working => txn[t].ins = {}
  BY DEF Keyed, UniqueKeys, OpenWork, Working
<1>4. CASE Keeps(t) /\ pc[t] # "ingest_commit" /\ pc'[t] # "ingest_commit"
           /\ (pc[t] \in DedupSteps => pc'[t] \in DedupSteps)
  <2>1. /\ Others(t) /\ rows' \subseteq rows \cup txn[t].ins
        /\ txn'[t].ins \cap rows' = {}
        /\ \A u \in Tasks \ {t} : txn'[t].ins \cap txn[u].ins = {}
    BY <1>3, <1>4 DEF Keeps
  <2>2. /\ pc'[t] \notin Working => txn'[t].ins = {}
        /\ pc'[t] # "ingest_commit"
    BY <1>3, <1>4 DEF Keeps, Working
  <2> QED
    BY <1>2, <2>1, <2>2
<1>5. ASSUME NEW k, Adds(t, k)
      PROVE  /\ Others(t) /\ rows' \subseteq rows \cup txn[t].ins
             /\ txn'[t].ins \cap rows' = {}
             /\ \A u \in Tasks \ {t} : txn'[t].ins \cap txn[u].ins = {}
  BY <1>3, <1>5 DEF Adds, Rejects, HeldElsewhere
<1>6. CASE IngestInsert(t) /\ Adds(t, RawKey(Msg(t)))
  <2>1. pc[t] = "ingest_insert" /\ pc'[t] = "ingest_commit" /\ Msg(t)' = Msg(t)
    BY <1>0, <1>6 DEF IngestInsert, At, Goto, Msg
  <2>2. txn[t].ins = {}
    BY <1>3, <2>1 DEF Working, DedupSteps
  <2>3. txn'[t].ins = {RawKey(Msg(t))}
    BY <1>6, <2>2 DEF Adds
  <2>4. pc'[t] \in Working
    BY <2>1 DEF Working
  <2> QED
    BY <1>2, <1>5, <1>6, <2>1, <2>3, <2>4
<1>7. CASE WorkInsert(t) \/ ResourceInsert(t) \/ LinkInsert(t) \/ SourceInsert(t)
  <2>1. \E k : Adds(t, k)
    BY <1>7, InsertStep
  <2>2. pc'[t] \in DedupSteps /\ pc'[t] # "ingest_commit"
    BY <1>0, <1>7 DEF WorkInsert, ResourceInsert, LinkInsert, SourceInsert, Goto, LinkStep, DedupSteps
  <2> QED
    BY <1>2, <1>5, <2>1, <2>2 DEF Working
<1>8. CASE \/ Commits(t) /\ (IngestCommit(t) \/ Parse(t) \/ DedupCommit(t) \/ Repend(t))
           \/ Aborts(t) /\ pc'[t] \in {"reload", "ingest_reread", "idle"}
  <2>1. /\ Others(t) /\ rows' \subseteq rows \cup txn[t].ins /\ txn'[t].ins = {}
    BY <1>8 DEF Commits, Aborts
  <2>2. pc'[t] # "ingest_commit"
    BY <1>0, <1>8 DEF IngestCommit, Parse, DedupCommit, Repend, Goto
  <2> QED
    BY <1>2, <2>1, <2>2
<1> QED
  BY <1>4, <1>6, <1>7, <1>8, StepShape

\* Layer 2 holds initially, and every step preserves it.
LEMMA KeyedInit == Init => Keyed
BY DEF Init, DbInit, NoTxn, Keyed, UniqueKeys, OpenWork, DedupSteps

\* Layer 2 is preserved by every step.
LEMMA KeyedStep == Typed /\ Keyed /\ [Next]_vars => Keyed'
<1> SUFFICES ASSUME Typed, Keyed, [Next]_vars PROVE Keyed'
  OBVIOUS
<1>0. pc \in [Tasks -> Steps] /\ job \in [Tasks -> Job]
  BY DEF Typed, TypeOK
<1>1. ASSUME NEW t \in Tasks, NEW m \in Messages, Deliver(t, m) PROVE Keyed'
  <2>1. UNCHANGED <<rows, txn>> /\ pc[t] = "idle" /\ pc'[t] = "ingest_select"
    BY <1>0, <1>1 DEF Deliver, At, Goto, dbVars
  <2>2. \A u \in Tasks \ {t} : pc'[u] = pc[u] /\ job'[u] = job[u]
    BY <1>0, <1>1 DEF Deliver, Goto
  <2>3. UniqueKeys'
    BY <2>1 DEF Keyed, UniqueKeys
  <2>4. txn'[t].ins = {}
    BY <2>1 DEF Keyed, OpenWork, DedupSteps
  <2>5. OpenWork'
    BY <2>1, <2>2, <2>4 DEF Keyed, OpenWork, Msg
  <2> QED
    BY <2>3, <2>5 DEF Keyed
<1>2. ASSUME Crash PROVE Keyed'
  BY <1>2 DEF Crash, NoTxn, Keyed, UniqueKeys, OpenWork, DedupSteps
<1>3. ASSUME Quiescent \/ UNCHANGED vars PROVE Keyed'
  <2>1. UNCHANGED <<rows, txn, pc, job>>
    BY <1>3 DEF Quiescent, vars, dbVars
  <2> QED
    BY <2>1 DEF Keyed, UniqueKeys, OpenWork, Msg
<1> QED
  BY <1>1, <1>2, <1>3, KeyedActs DEF Next, Acts

\* Committed rows are never deleted.
LEMMA RowsGrow ==
  ASSUME Typed, [Next]_vars
  PROVE  rows \subseteq rows'
<1>1. ASSUME NEW t \in Tasks, Acts(t) PROVE rows \subseteq rows'
  <2>1. \A k : Adds(t, k) => rows \subseteq rows'
    BY DEF Adds
  <2> QED
    BY <1>1, <2>1, StepShape, InsertStep DEF Keeps, Commits, Aborts
<1>2. ASSUME NEW t \in Tasks, NEW m \in Messages, Deliver(t, m) PROVE rows \subseteq rows'
  BY <1>2 DEF Deliver, dbVars
<1>3. CASE Crash \/ Quiescent \/ UNCHANGED vars
  BY <1>3 DEF Crash, Quiescent, vars, dbVars
<1> QED
  BY <1>1, <1>2, <1>3 DEF Next, Acts

\* Only the commit of ingest() answers "stored".
LEMMA StoredStep ==
  ASSUME [Next]_vars
  PROVE  stored' = stored \/ \E t \in Tasks : IngestCommit(t)
<1>1. ASSUME NEW t \in Tasks, Acts(t), ~IngestCommit(t) PROVE stored' = stored
  BY <1>1 DEF Acts, Progress, IngestSelect, IngestInsert, IngestConflict, IngestReread,
     Load, Parse, ParseRefresh, ResourceSelect, WorkSelect, WorkInsert, ResourceInsert, LinkSelect,
     LinkInsert, SourceSelect, SourceInsert, CountSources, UpdateCount, DedupCommit, DedupAnswered, DedupConflict,
     DeadlockAbort, Publish, Reload, Repend, Report, PublishFails, DatabaseError, DedupFails, Finish,
     seenVars
<1>2. ASSUME NEW t \in Tasks, NEW m \in Messages, Deliver(t, m) PROVE stored' = stored
  BY <1>2 DEF Deliver, seenVars
<1>3. CASE Crash \/ Quiescent \/ UNCHANGED vars
  BY <1>3 DEF Crash, Quiescent, vars, seenVars
<1> QED
  BY <1>1, <1>2, <1>3 DEF Next, Acts

\* Ingest is idempotent (RawMessagePipeline!StoredOnce): of all deliveries of a message, over
\* crashes and lost insert races, at most one is answered "stored", and its row is there.
THEOREM IngestIdempotent == Spec => []StoredOnce
<1> DEFINE IInv == Typed /\ Keyed /\ StoredOnce
<1>1. Init => IInv
  BY TypedInit, KeyedInit DEF Init, StoredOnce
<1>2. IInv /\ [Next]_vars => IInv'
  <2> SUFFICES ASSUME IInv, [Next]_vars PROVE StoredOnce'
    BY TypedStep, KeyedStep
  <2>0. stored \in [Messages -> Nat] /\ \A t \in Tasks : Msg(t) \in Messages
    BY DEF Typed, TypeOK, Msg, Job
  <2>1. rows \subseteq rows'
    BY RowsGrow
  <2>2. CASE stored' = stored
    BY <2>1, <2>2 DEF StoredOnce
  <2>3. ASSUME NEW t \in Tasks, IngestCommit(t) PROVE StoredOnce'
    <3>1. rows' = rows \cup {RawKey(Msg(t))} /\ RawKey(Msg(t)) \notin rows
      BY <2>3 DEF IngestCommit, Commit, At, Keyed, OpenWork, UniqueKeys
    <3>2. stored' = [stored EXCEPT ![Msg(t)] = stored[Msg(t)] + 1] /\ stored[Msg(t)] = 0
      BY <2>0, <2>3, <3>1 DEF IngestCommit, StoredOnce
    <3> QED
      BY <2>0, <3>1, <3>2 DEF StoredOnce
  <2>4. stored' = stored \/ \E t \in Tasks : IngestCommit(t)
    BY StoredStep
  <2> QED
    BY <2>2, <2>3, <2>4
<1> QED
  BY <1>1, <1>2, PTL DEF Spec
-----------------------------------------------------------------------------
(***************************************************************************)
(* Layer 3.                                                                *)
(***************************************************************************)
\* What a task sees never shrinks while it is inside dedup_and_persist.
LEMMA VisibleGrows ==
  ASSUME Typed, Keyed, NEW t \in Tasks, Acts(t)
  PROVE  /\ \A u \in Tasks \ {t} : Visible(u) \subseteq Visible(u)'
         /\ pc'[t] \in DedupSteps => Visible(t) \subseteq Visible(t)'
         /\ \A k : Adds(t, k) => k \in Visible(t)'
<1>0. pc \in [Tasks -> Steps]
  BY DEF Typed, TypeOK
<1>1. rows \subseteq rows'
  BY RowsGrow DEF Next, Acts
<1>2. \A k : Adds(t, k) => Others(t) /\ txn[t].ins \subseteq txn'[t].ins /\ k \in txn'[t].ins
  BY DEF Adds
<1>3. Keeps(t) \/ (\E k : Adds(t, k)) \/ Commits(t) \/ (Aborts(t) /\ pc'[t] \notin DedupSteps)
  BY StepShape, InsertStep DEF DedupSteps
<1>4. Others(t)
  BY <1>2, <1>3 DEF Keeps, Commits, Aborts
<1>5. \A u \in Tasks \ {t} : Visible(u) \subseteq Visible(u)'
  BY <1>1, <1>4 DEF Visible, Others
<1>6. pc'[t] \in DedupSteps => Visible(t) \subseteq Visible(t)'
  BY <1>1, <1>2, <1>3 DEF Visible, Keeps, Commits
<1>7. \A k : Adds(t, k) => k \in Visible(t)'
  BY <1>2 DEF Visible
<1> QED
  BY <1>5, <1>6, <1>7

\* The dedup progress of a task other than the one that steps.
LEMMA ProgressFrame ==
  ASSUME NEW u \in Tasks, ProgressOf(u), pc'[u] = pc[u], job'[u] = job[u],
         Visible(u) \subseteq Visible(u)'
  PROVE  ProgressOf(u)'
BY DEF ProgressOf, ItemDone, Res, Item, Msg

\* The dedup progress of the task that steps.
LEMMA OwnProgressStep ==
  ASSUME Typed, Keyed, NEW t \in Tasks, ProgressOf(t), Acts(t)
  PROVE  ProgressOf(t)'
<1>0. /\ job[t] \in Job /\ job \in [Tasks -> Job] /\ pc \in [Tasks -> Steps] /\ BoundsOf(t)
  BY DEF Typed, TypeOK, LoopBounds
<1>v. pc'[t] \in DedupSteps => Visible(t) \subseteq Visible(t)'
  BY VisibleGrows
<1> USE DEF DedupSteps, LinkSteps, AfterResource, AfterSource, ItemSteps
<1>1. ASSUME pc'[t] \notin DedupSteps PROVE ProgressOf(t)'
  BY <1>1 DEF ProgressOf
<1>2. CASE Load(t) \/ ParseRefresh(t)
  <2>1. pc'[t] \notin DedupSteps \/ (pc'[t] = "res_select" /\ job'[t].item = job[t].item)
    BY <1>0, <1>2 DEF Load, ParseRefresh, Goto, Finish, Job
  <2>2. job[t].item = 1
    BY <1>0, <1>2 DEF Load, ParseRefresh, At, BoundsOf
  <2> QED
    BY <1>1, <2>1, <2>2 DEF ProgressOf
\* Steps inside the handling of one item.
<1>3. ASSUME pc[t] \in ItemSteps, pc'[t] \in ItemSteps,
             job'[t].data = job[t].data, job'[t].item = job[t].item, job'[t].msg = job[t].msg
      PROVE  /\ \A i \in 1 .. (job'[t].item - 1) : ItemDone(t, i)'
             /\ Item(t)' = Item(t) /\ Res(t)' = Res(t) /\ Msg(t)' = Msg(t)
  <2>1. \A i \in 1 .. (job[t].item - 1) : ItemDone(t, i)
    BY <1>3 DEF ProgressOf
  <2> QED
    BY <1>v, <1>3, <2>1 DEF ItemDone, Item, Res, Msg
<1>4. CASE WorkSelect(t) \/ WorkInsert(t)
  <2>1. /\ pc[t] \in ItemSteps /\ pc'[t] \in ItemSteps \ AfterResource
        /\ job'[t].data = job[t].data /\ job'[t].item = job[t].item /\ job'[t].msg = job[t].msg
    BY <1>0, <1>4 DEF WorkSelect, WorkInsert, At, Goto
  <2> QED
    BY <1>3, <2>1 DEF ProgressOf
<1>l. ASSUME pc[t] \in ItemSteps PROVE Item(t).links \in Seq(Links)
  BY <1>l, CurrentItem
<1>5. ASSUME pc[t] \in ItemSteps, Goto(t, LinkStep(t, 1)),
             job'[t].data = job[t].data, job'[t].item = job[t].item, job'[t].msg = job[t].msg,
             job'[t].link = 1, ResourceKey(Res(t)) \in Visible(t)'
      PROVE  ProgressOf(t)'
  <2>1. pc'[t] \in {"link_select", "source_select"} /\ (pc'[t] = "source_select" => Len(Item(t).links) < 1)
    BY <1>0, <1>5, <1>l DEF Goto, LinkStep
  <2>2. \A j \in DOMAIN Item(t).links : j >= 1 /\ Len(Item(t).links) >= 1 /\ ~(j < 1)
    BY <1>5, <1>l
  <2>3. /\ \A i \in 1 .. (job'[t].item - 1) : ItemDone(t, i)'
        /\ Item(t)' = Item(t) /\ Res(t)' = Res(t)
    BY <1>3, <1>5, <2>1
  <2>4. \A j \in DOMAIN Item(t)'.links : ~(j < job'[t].link \/ pc'[t] \notin LinkSteps)
    BY <1>5, <1>l, <2>1, <2>2, <2>3
  <2> QED
    BY <1>5, <2>1, <2>3, <2>4 DEF ProgressOf
<1>6. CASE ResourceSelect(t)
  <2>1. /\ pc[t] \in ItemSteps
        /\ job'[t].data = job[t].data /\ job'[t].item = job[t].item /\ job'[t].msg = job[t].msg
        /\ job'[t].link = 1
    BY <1>0, <1>6 DEF ResourceSelect, At, Job
  <2>2. CASE Goto(t, "work_select")
    BY <1>0, <1>3, <2>1, <2>2 DEF ProgressOf, Goto
  <2>3. CASE Goto(t, LinkStep(t, 1)) /\ ResourceKey(Res(t)) \in Visible(t)
    <3>1. pc'[t] \in DedupSteps
      BY <1>0, <2>3 DEF Goto, LinkStep
    <3> QED
      BY <1>v, <1>5, <2>1, <2>3, <3>1
  <2> QED
    BY <1>6, <2>2, <2>3 DEF ResourceSelect
<1>7. CASE ResourceInsert(t)
  <2>1. /\ pc[t] \in ItemSteps /\ Goto(t, LinkStep(t, 1)) /\ UNCHANGED job /\ job[t].link = 1
    BY <1>0, <1>7 DEF ResourceInsert, At, BoundsOf, NewSteps
  <2>2. ResourceKey(Res(t)) \in Visible(t)'
    BY <1>7, InsertStep, VisibleGrows
  <2> QED
    BY <1>5, <2>1, <2>2
<1>8. CASE LinkSelect(t) \/ LinkInsert(t)
  <2> DEFINE n == job[t].link
  <2>1. /\ pc[t] \in LinkSteps /\ n \in 1 .. Len(Item(t).links)
        /\ job'[t].data = job[t].data /\ job'[t].item = job[t].item /\ job'[t].msg = job[t].msg
        /\ Item(t).links \in Seq(Links)
    BY <1>0, <1>8, <1>l DEF LinkSelect, LinkInsert, At, Job, BoundsOf
  <2>2. \/ Goto(t, "link_insert") /\ job'[t].link = n
        \/ /\ Goto(t, LinkStep(t, n + 1)) /\ job'[t].link = n + 1
           /\ LinkKey(Res(t), Link(t)) \in Visible(t)'
    <3>1. CASE LinkInsert(t)
      <4>1. LinkKey(Res(t), Link(t)) \in Visible(t)'
        BY <3>1, InsertStep, VisibleGrows
      <4> QED
        BY <1>0, <3>1, <4>1 DEF LinkInsert, Job
    <3>2. CASE LinkSelect(t)
      <4>1. pc'[t] \in DedupSteps
        BY <1>0, <3>2 DEF LinkSelect, Goto, LinkStep
      <4> QED
        BY <1>0, <1>v, <3>2, <4>1 DEF LinkSelect, Job
    <3> QED
      BY <1>8, <3>1, <3>2
  <2>3. /\ pc'[t] \in {"link_insert", "link_select", "source_select"}
        /\ pc'[t] = "source_select" => job'[t].link = n + 1 /\ Len(Item(t).links) < n + 1
    BY <1>0, <2>1, <2>2 DEF Goto, LinkStep
  <2>4. /\ \A i \in 1 .. (job'[t].item - 1) : ItemDone(t, i)'
        /\ Item(t)' = Item(t) /\ Res(t)' = Res(t)
    BY <1>3, <2>1, <2>3
  <2>5. /\ ResourceKey(Res(t)) \in Visible(t)'
        /\ \A j \in DOMAIN Item(t).links : j < n => LinkKey(Res(t), Item(t).links[j]) \in Visible(t)'
    BY <1>v, <2>1, <2>3 DEF ProgressOf
  <2>6. job'[t].link = n + 1 => LinkKey(Res(t), Item(t).links[n]) \in Visible(t)'
    BY <2>1, <2>2 DEF Link
  <2>7. ASSUME NEW j \in DOMAIN Item(t).links, j < job'[t].link \/ pc'[t] \notin LinkSteps
        PROVE  LinkKey(Res(t), Item(t).links[j]) \in Visible(t)'
    <3>1. j \in Nat /\ j <= Len(Item(t).links) /\ n \in Nat
      BY <2>1
    <3>2. j < n \/ (j = n /\ job'[t].link = n + 1)
      BY <2>2, <2>3, <2>7, <3>1
    <3> QED
      BY <2>5, <2>6, <3>2
  <2> QED
    BY <2>3, <2>4, <2>5, <2>7 DEF ProgressOf
\* The resource and all its links stay visible over the steps after the link loop.
<1>9. ASSUME pc[t] \in AfterResource \ LinkSteps, pc'[t] \in AfterResource \ LinkSteps,
             job'[t].data = job[t].data, job'[t].item = job[t].item, job'[t].msg = job[t].msg,
             pc'[t] \in AfterSource => SourceKey(Res(t), Msg(t)) \in Visible(t)'
      PROVE  ProgressOf(t)'
  <2>1. /\ \A i \in 1 .. (job'[t].item - 1) : ItemDone(t, i)'
        /\ Item(t)' = Item(t) /\ Res(t)' = Res(t) /\ Msg(t)' = Msg(t)
    BY <1>3, <1>9
  <2>2. /\ ResourceKey(Res(t)) \in Visible(t)'
        /\ \A j \in DOMAIN Item(t).links : LinkKey(Res(t), Item(t).links[j]) \in Visible(t)'
    BY <1>v, <1>9 DEF ProgressOf
  <2> QED
    BY <1>9, <2>1, <2>2 DEF ProgressOf
<1>10. CASE SourceSelect(t)
  <2>1. /\ pc[t] = "source_select" /\ pc'[t] \in {"count", "source_insert"} /\ UNCHANGED job
        /\ pc'[t] = "count" => SourceKey(Res(t), Msg(t)) \in Visible(t)
    BY <1>0, <1>10 DEF SourceSelect, At, Goto
  <2> QED
    BY <1>v, <1>9, <2>1
<1>11. CASE SourceInsert(t)
  <2>1. /\ pc[t] = "source_insert" /\ pc'[t] = "count"
        /\ job'[t].data = job[t].data /\ job'[t].item = job[t].item /\ job'[t].msg = job[t].msg
    BY <1>0, <1>11 DEF SourceInsert, At, Goto, Job
  <2>2. SourceKey(Res(t), Msg(t)) \in Visible(t)'
    BY <1>11, InsertStep, VisibleGrows
  <2> QED
    BY <1>9, <2>1, <2>2
<1>12. CASE CountSources(t)
  <2>1. /\ pc[t] = "count" /\ pc'[t] = "update"
        /\ job'[t].data = job[t].data /\ job'[t].item = job[t].item /\ job'[t].msg = job[t].msg
    BY <1>0, <1>12 DEF CountSources, At, Goto, Job
  <2>2. SourceKey(Res(t), Msg(t)) \in Visible(t)'
    BY <1>v, <2>1 DEF ProgressOf
  <2> QED
    BY <1>9, <2>1, <2>2
<1>13. CASE UpdateCount(t)
  <2>1. /\ pc[t] = "update" /\ pc'[t] \in {"res_select", "dedup_commit"}
        /\ job'[t].data = job[t].data /\ job'[t].item = job[t].item + 1 /\ job'[t].msg = job[t].msg
        /\ job[t].item \in Nat
    BY <1>0, <1>13 DEF UpdateCount, At, Goto, Job
  <2>2. ItemDone(t, job[t].item)
    BY <2>1 DEF ProgressOf, ItemDone, Item, Res
  <2>3. \A i \in 1 .. job[t].item : ItemDone(t, i)
    BY <2>1, <2>2 DEF ProgressOf
  <2>4. \A i \in 1 .. (job'[t].item - 1) : ItemDone(t, i)'
    BY <1>v, <2>1, <2>3 DEF ItemDone, Msg
  <2> QED
    BY <2>1, <2>4 DEF ProgressOf
<1>14. CASE ~(\/ Load(t) \/ ParseRefresh(t) \/ ResourceSelect(t) \/ WorkSelect(t) \/ WorkInsert(t)
              \/ ResourceInsert(t) \/ LinkSelect(t) \/ LinkInsert(t) \/ SourceSelect(t)
              \/ SourceInsert(t) \/ CountSources(t) \/ UpdateCount(t))
  <2>1. pc'[t] \notin DedupSteps
    BY <1>0, <1>14 DEF Acts, Progress, IngestSelect, IngestInsert, IngestConflict, IngestCommit,
       IngestReread, Parse, DedupCommit, DedupAnswered, DedupConflict, DeadlockAbort, Publish, NextDue, Reload,
       Repend, Report, PublishFails, DatabaseError, DedupFails, Goto, Finish
  <2> QED
    BY <1>1, <2>1
<1> QED
  BY <1>2, <1>4, <1>6, <1>7, <1>8, <1>10, <1>11, <1>12, <1>13, <1>14

\* A task keeps its message from the delivery to the return.
LEMMA SameMessage ==
  ASSUME Typed, NEW t \in Tasks, Acts(t), pc'[t] \in DedupSteps
  PROVE  Msg(t)' = Msg(t)
<1>0. job[t] \in Job /\ job \in [Tasks -> Job] /\ pc \in [Tasks -> Steps]
  BY DEF Typed, TypeOK
<1>1. CASE UNCHANGED job
  BY <1>1 DEF Msg
<1>2. CASE Load(t) \/ ParseRefresh(t) \/ ResourceSelect(t) \/ LinkSelect(t) \/ LinkInsert(t)
  BY <1>0, <1>2 DEF Load, ParseRefresh, ResourceSelect, LinkSelect, LinkInsert, Finish, Goto,
     DedupSteps, Msg, Job
<1>3. CASE SourceInsert(t) \/ CountSources(t) \/ UpdateCount(t)
  BY <1>0, <1>3 DEF SourceInsert, CountSources, UpdateCount, Msg, Job
<1>4. CASE \/ IngestReread(t) \/ Publish(t) \/ PublishFails(t) \/ Reload(t) \/ Report(t)
           \/ DatabaseError(t)
  BY <1>0, <1>1, <1>4 DEF IngestReread, Publish, PublishFails, NextDue, Reload, Report,
     DatabaseError, DedupFails, Finish, Goto, DedupSteps
<1>5. CASE \/ IngestSelect(t) \/ IngestInsert(t) \/ IngestConflict(t) \/ IngestCommit(t) \/ Parse(t)
           \/ WorkSelect(t) \/ WorkInsert(t) \/ ResourceInsert(t) \/ SourceSelect(t)
           \/ DedupCommit(t) \/ DedupAnswered(t) \/ DedupConflict(t) \/ DeadlockAbort(t) \/ Repend(t)
  BY <1>1, <1>5 DEF IngestSelect, IngestInsert, IngestConflict, IngestCommit, Parse, WorkSelect,
     WorkInsert, ResourceInsert, SourceSelect, DedupCommit, DedupAnswered, DedupConflict, DeadlockAbort, Repend,
     DedupFails
<1> QED
  BY <1>2, <1>3, <1>4, <1>5 DEF Acts, Progress

\* The sources a task has inserted are of its message after its step too.
LEMMA OwnSourcesStep ==
  ASSUME Typed, Keyed, NEW t \in Tasks, SourcesOwned(t), Acts(t)
  PROVE  SourcesOwned(t)'
<1>0. job \in [Tasks -> Job] /\ pc \in [Tasks -> Steps] /\ Msg(t) \in Messages
  BY DEF Typed, TypeOK, Msg, Job
<1>t. /\ \A r, m, x : SourceKey(r, m) # RawKey(x) /\ SourceKey(r, m) # WorkKey(x)
                      /\ SourceKey(r, m) # ResourceKey(x)
      /\ \A r, m, x, y : SourceKey(r, m) # LinkKey(x, y)
      /\ \A r, m, x, y : SourceKey(r, m) = SourceKey(x, y) => m = y
  BY DEF SourceKey, RawKey, WorkKey, ResourceKey, LinkKey
<1>1. CASE Commits(t) \/ Aborts(t)
  BY <1>1 DEF Commits, Aborts, SourcesOwned
<1>2. CASE Keeps(t) /\ (pc[t] \in DedupSteps => pc'[t] \in DedupSteps)
  <2>1. pc[t] \in DedupSteps => Msg(t)' = Msg(t)
    BY <1>2, SameMessage
  <2> QED
    BY <1>2, <2>1 DEF Keeps, SourcesOwned
<1>3. CASE IngestInsert(t) /\ Adds(t, RawKey(Msg(t)))
  <2>1. txn[t].ins = {}
    BY <1>3 DEF IngestInsert, At, Keyed, OpenWork, DedupSteps
  <2> QED
    BY <1>3, <1>t, <2>1 DEF Adds, SourcesOwned
<1>4. CASE WorkInsert(t) \/ ResourceInsert(t) \/ LinkInsert(t) \/ SourceInsert(t)
  <2>1. pc[t] \in DedupSteps /\ pc'[t] \in DedupSteps
    BY <1>0, <1>4 DEF WorkInsert, ResourceInsert, LinkInsert, SourceInsert, At, Goto, LinkStep, DedupSteps
  <2>2. Msg(t)' = Msg(t)
    BY <2>1, SameMessage
  <2>3. \E k : Adds(t, k) /\ \A r \in Resources, m \in Messages : SourceKey(r, m) = k => m = Msg(t)
    BY <1>4, <1>t, InsertStep
  <2> QED
    BY <2>1, <2>2, <2>3 DEF Adds, SourcesOwned
<1> QED
  BY <1>1, <1>2, <1>3, <1>4, StepShape

\* Layer 3 is preserved by every step.
LEMMA TrackedStep ==
  ASSUME Typed, Keyed, DedupProgress, OwnSources, [Next]_vars
  PROVE  DedupProgress' /\ OwnSources'
<1>0. pc \in [Tasks -> Steps] /\ job \in [Tasks -> Job]
  BY DEF Typed, TypeOK
<1>1. ASSUME NEW t \in Tasks, Acts(t) PROVE DedupProgress' /\ OwnSources'
  <2>1. \A u \in Tasks \ {t} : pc'[u] = pc[u] /\ job'[u] = job[u]
    BY <1>0, <1>1, GotoStep, JobStep DEF Goto
  <2>2. \A u \in Tasks \ {t} : txn'[u].ins = txn[u].ins
    <3>1. \A k : Adds(t, k) => Others(t)
      BY DEF Adds
    <3> QED
      BY <1>1, <3>1, StepShape, InsertStep DEF Keeps, Commits, Aborts, Others
  <2>3. \A u \in Tasks \ {t} : ProgressOf(u)'
    BY <1>1, <2>1, ProgressFrame, VisibleGrows DEF DedupProgress
  <2>4. \A u \in Tasks \ {t} : SourcesOwned(u)'
    BY <2>1, <2>2 DEF OwnSources, SourcesOwned, Msg
  <2>5. ProgressOf(t)' /\ SourcesOwned(t)'
    BY <1>1, OwnProgressStep, OwnSourcesStep DEF DedupProgress, OwnSources
  <2> QED
    BY <2>3, <2>4, <2>5 DEF DedupProgress, OwnSources
<1>2. ASSUME NEW t \in Tasks, NEW m \in Messages, Deliver(t, m) PROVE DedupProgress' /\ OwnSources'
  <2>1. UNCHANGED <<rows, txn>> /\ pc[t] = "idle" /\ pc'[t] = "ingest_select"
    BY <1>0, <1>2 DEF Deliver, At, Goto, dbVars
  <2>2. \A u \in Tasks \ {t} : pc'[u] = pc[u] /\ job'[u] = job[u] /\ Visible(u)' = Visible(u)
    BY <1>0, <1>2, <2>1 DEF Deliver, Goto, Visible
  <2>3. \A u \in Tasks \ {t} : ProgressOf(u)' /\ SourcesOwned(u)'
    BY <2>1, <2>2, ProgressFrame DEF DedupProgress, OwnSources, SourcesOwned, Msg
  <2>4. ProgressOf(t)'
    BY <2>1 DEF ProgressOf, DedupSteps, AfterResource, AfterSource, LinkSteps
  <2>5. SourcesOwned(t)'
    BY <2>1 DEF OwnSources, SourcesOwned, DedupSteps
  <2> QED
    BY <2>3, <2>4, <2>5 DEF DedupProgress, OwnSources
<1>3. ASSUME Crash PROVE DedupProgress' /\ OwnSources'
  BY <1>3 DEF Crash, NoTxn, DedupProgress, ProgressOf, OwnSources, SourcesOwned, DedupSteps,
     AfterResource, AfterSource, LinkSteps
<1>4. ASSUME Quiescent \/ UNCHANGED vars PROVE DedupProgress' /\ OwnSources'
  <2>1. UNCHANGED <<rows, txn, pc, job>>
    BY <1>4 DEF Quiescent, vars, dbVars
  <2>2. \A u \in Tasks : Visible(u)' = Visible(u)
    BY <2>1 DEF Visible
  <2>3. \A u \in Tasks : ProgressOf(u)'
    BY <2>1, <2>2, ProgressFrame DEF DedupProgress
  <2> QED
    BY <2>1, <2>3 DEF DedupProgress, OwnSources, SourcesOwned, Msg
<1> QED
  BY <1>1, <1>2, <1>3, <1>4 DEF Next, Acts

\* The commit of dedup_and_persist makes every item of its message durable.
LEMMA CommitAttributes ==
  ASSUME Typed, NEW t \in Tasks, ProgressOf(t), DedupCommit(t)
  PROVE  Attributed(Msg(t))'
<1>0. Msg(t) \in Messages /\ Content[Msg(t)] \in Seq(Items)
  BY PipelineAssumption DEF Typed, TypeOK, Msg, Job
<1>1. rows' = Visible(t) /\ Msg(t)' = Msg(t) /\ pc[t] = "dedup_commit"
  BY DEF DedupCommit, Commit, Visible, Msg, At
<1>2. job[t].data = Content[Msg(t)] /\ job[t].item = Len(job[t].data) + 1
  BY <1>1 DEF Typed, LoopBounds, BoundsOf, DedupSteps
<1>3. \A i \in 1 .. Len(job[t].data) : ItemDone(t, i)
  BY <1>0, <1>1, <1>2 DEF ProgressOf, DedupSteps
<1>4. \A i \in DOMAIN Content[Msg(t)] : ItemDone(t, i)
  BY <1>0, <1>2, <1>3
<1> QED
  BY <1>1, <1>2, <1>4 DEF Attributed, ItemDone

\* What makes a message final, and what makes its sources durable, is that commit.
LEMMA FinalStep ==
  ASSUME Typed, [Next]_vars, NEW m \in Messages,
         raw'[m].dedup \in FinalDedup, raw[m].dedup \notin FinalDedup
  PROVE  \E t \in Tasks : DedupCommit(t) /\ m = Msg(t)
<1>0. raw \in [Messages -> RawRow] /\ \A t \in Tasks : Msg(t) \in Messages
  BY DEF Typed, TypeOK, DbTypeOK, Msg, Job
<1>1. ASSUME NEW t \in Tasks, Parse(t) PROVE raw'[m].dedup = raw[m].dedup
  <2>1. raw' = [raw EXCEPT ![Msg(t)] = ParseResult(t)]
    BY <1>1 DEF Parse, Commit
  <2>2. ParseResult(t).dedup = raw[Msg(t)].dedup
    BY <1>0 DEF ParseResult, RawRow
  <2> QED
    BY <1>0, <2>1, <2>2
<1>2. ASSUME NEW t \in Tasks, Repend(t) PROVE raw'[m].dedup \in {raw[m].dedup, "dedup_pending"}
  <2>1. \/ raw' = [raw EXCEPT ![Msg(t)] = raw[Msg(t)]]
        \/ raw' = [raw EXCEPT ![Msg(t)] = [raw[Msg(t)] EXCEPT !.dedup = "dedup_pending"]]
    BY <1>2 DEF Repend, Commit
  <2>2. [raw[Msg(t)] EXCEPT !.dedup = "dedup_pending"].dedup = "dedup_pending"
    BY <1>0 DEF RawRow
  <2> QED
    BY <1>0, <2>1, <2>2
<1>3. ASSUME NEW t \in Tasks, DedupCommit(t), m # Msg(t) PROVE raw'[m] = raw[m]
  BY <1>0, <1>3 DEF DedupCommit, Commit
<1> QED
  BY <1>1, <1>2, <1>3, RawStep DEF FinalDedup

\* A source row becomes durable only in the commit of its message's dedup.
LEMMA SourceRowStep ==
  ASSUME Typed, Keyed, OwnSources, [Next]_vars, NEW r \in Resources, NEW m \in Messages,
         SourceKey(r, m) \in rows', SourceKey(r, m) \notin rows
  PROVE  \E t \in Tasks : DedupCommit(t) /\ m = Msg(t)
<1>1. ASSUME NEW t \in Tasks, Acts(t), rows' # rows
      PROVE  Commits(t) /\ (IngestCommit(t) \/ Parse(t) \/ DedupCommit(t) \/ Repend(t))
  <2>1. \A k : Adds(t, k) => rows' = rows
    BY DEF Adds
  <2> QED
    BY <1>1, <2>1, StepShape, InsertStep DEF Keeps, Aborts
<1>2. ASSUME NEW t \in Tasks, NEW n \in Messages, Deliver(t, n) PROVE rows' = rows
  BY <1>2 DEF Deliver, dbVars
<1>3. ASSUME Crash \/ Quiescent \/ UNCHANGED vars PROVE rows' = rows
  BY <1>3 DEF Crash, Quiescent, vars, dbVars
<1>4. PICK t \in Tasks : /\ Commits(t)
                         /\ IngestCommit(t) \/ Parse(t) \/ DedupCommit(t) \/ Repend(t)
  BY <1>1, <1>2, <1>3 DEF Next, Acts
<1>5. SourceKey(r, m) \in txn[t].ins
  BY <1>4 DEF Commits
<1>6. pc[t] \in DedupSteps /\ m = Msg(t)
  BY <1>5 DEF OwnSources, SourcesOwned
<1> QED
  BY <1>4, <1>6 DEF IngestCommit, Parse, Repend, At, DedupSteps

\* The inductive invariant.
IInv == Typed /\ Keyed /\ DedupProgress /\ OwnSources /\ Backed

\* Every step preserves what the theorems promise, given the layers below.
LEMMA BackedStep ==
  ASSUME IInv, [Next]_vars
  PROVE  Backed'
<1> USE DEF IInv
<1>1. \A m \in Messages : Attributed(m) => Attributed(m)'
  BY RowsGrow DEF Attributed
<1>2. \A t \in Tasks : DedupCommit(t) => Attributed(Msg(t))'
  BY CommitAttributes DEF DedupProgress
<1>3. FinalIsBacked'
  <2> SUFFICES ASSUME NEW m \in Messages, raw'[m].dedup \in FinalDedup PROVE Attributed(m)'
    BY DEF FinalIsBacked
  <2>1. CASE raw[m].dedup \in FinalDedup
    BY <1>1, <2>1 DEF Backed, FinalIsBacked
  <2>2. CASE raw[m].dedup \notin FinalDedup
    <3>1. PICK t \in Tasks : DedupCommit(t) /\ m = Msg(t)
      BY <2>2, FinalStep
    <3>2. Msg(t)' = Msg(t)
      BY <3>1 DEF DedupCommit, Msg
    <3>3. Attributed(Msg(t))'
      BY <1>2, <3>1
    <3> QED
      BY <3>1, <3>2, <3>3 DEF Attributed
  <2> QED
    BY <2>1, <2>2
<1>4. AllOrNothing'
  <2> SUFFICES ASSUME NEW m \in Messages, NEW i \in DOMAIN Content[m],
                      SourceKey(Content[m][i].res, m) \in rows'
               PROVE  Attributed(m)'
    BY DEF AllOrNothing
  <2>0. Content[m][i].res \in Resources
    BY PipelineAssumption
  <2>1. CASE SourceKey(Content[m][i].res, m) \in rows
    BY <1>1, <2>1 DEF Backed, AllOrNothing
  <2>2. CASE SourceKey(Content[m][i].res, m) \notin rows
    <3>1. PICK t \in Tasks : DedupCommit(t) /\ m = Msg(t)
      BY <2>0, <2>2, SourceRowStep
    <3>2. Msg(t)' = Msg(t)
      BY <3>1 DEF DedupCommit, Msg
    <3>3. Attributed(Msg(t))'
      BY <1>2, <3>1
    <3> QED
      BY <3>1, <3>2, <3>3 DEF Attributed
  <2> QED
    BY <2>1, <2>2
<1> QED
  BY <1>3, <1>4 DEF Backed

\* The invariant holds initially,
LEMMA IInvInit == Init => IInv
<1> SUFFICES ASSUME Init PROVE IInv
  OBVIOUS
<1>1. DedupProgress /\ OwnSources
  BY DEF Init, DbInit, NoTxn, DedupProgress, ProgressOf, OwnSources, SourcesOwned, DedupSteps,
     AfterResource, AfterSource, LinkSteps
<1>2. Backed
  BY DEF Init, DbInit, Backed, FinalIsBacked, AllOrNothing, InitialRow, FinalDedup
<1> QED
  BY <1>1, <1>2, TypedInit, KeyedInit DEF IInv

\* and always.
LEMMA IInvAlways == Spec => []IInv
<1>1. IInv /\ [Next]_vars => IInv'
  BY TypedStep, KeyedStep, TrackedStep, BackedStep DEF IInv
<1> QED
  BY <1>1, IInvInit, PTL DEF Spec

\* A final dedup_status is always backed by the rows it stands for
\* (RawMessagePipeline!FinalIsBacked), for any number of tasks, failures and crashes.
THEOREM FinalStatusBacked == Spec => []FinalIsBacked
<1>1. IInv => FinalIsBacked
  BY DEF IInv, Backed
<1> QED
  BY <1>1, IInvAlways, PTL

\* No failure or crash leaves a message half deduplicated (RawMessagePipeline!AllOrNothing).
THEOREM DedupAtomic == Spec => []AllOrNothing
<1>1. IInv => AllOrNothing
  BY DEF IInv, Backed
<1> QED
  BY <1>1, IInvAlways, PTL

-----------------------------------------------------------------------------
(***************************************************************************)
(* Reported statuses.                                                      *)
(***************************************************************************)

\* The statuses that tell the monitor its message is in the registry.
Successes == {"dedup_new", "dedup_matched", "already_processed"}

\* A step that reports a success for m has read a final status in m's row.
LEMMA SuccessStep ==
  ASSUME Typed, [Next]_vars, NEW m \in Messages, NEW s \in Successes,
         s \in reported'[m], s \notin reported[m]
  PROVE  raw[m].dedup \in FinalDedup
<1>0. reported \in [Messages -> SUBSET Outcomes] /\ \A t \in Tasks : Msg(t) \in Messages
  BY DEF Typed, TypeOK, Msg, Job
<1>1. ASSUME NEW t \in Tasks, NEW status, Finish(t, status)
      PROVE  m = Msg(t) /\ s = status
  BY <1>0, <1>1 DEF Finish
<1>2. ASSUME NEW t \in Tasks, Acts(t),
             ~Load(t), ~ParseRefresh(t), ~Report(t), ~IngestReread(t), ~DatabaseError(t)
      PROVE  reported' = reported
  BY <1>2 DEF Acts, Progress, IngestSelect, IngestInsert, IngestConflict, IngestCommit, Parse,
     ResourceSelect, WorkSelect, WorkInsert, ResourceInsert, LinkSelect, LinkInsert, SourceSelect,
     SourceInsert, CountSources, UpdateCount, DedupCommit, DedupAnswered, DedupConflict, DeadlockAbort, Publish,
     Reload, Repend, PublishFails, DedupFails, seenVars
<1>3. ASSUME NEW t \in Tasks, IngestReread(t) \/ DatabaseError(t) PROVE FALSE
  <2>1. reported' = reported \/ \E status \in {"ingest_failed", "processing_failed"} : Finish(t, status)
    BY <1>3 DEF IngestReread, DatabaseError, DedupFails, seenVars
  <2> QED
    BY <1>1, <2>1 DEF Successes
<1>4. ASSUME NEW t \in Tasks, ParseRefresh(t) PROVE FALSE
  <2>1. reported' = reported \/ \E status \in {"parse_failed", "processing_failed"} : Finish(t, status)
    BY <1>4 DEF ParseRefresh, seenVars
  <2> QED
    BY <1>1, <2>1 DEF Successes
<1>5. ASSUME NEW t \in Tasks, Load(t) PROVE raw[m].dedup \in FinalDedup
  <2>1. Finish(t, ActionFor(raw[Msg(t)]))
    BY <1>5 DEF Load, seenVars
  <2>2. m = Msg(t) /\ ActionFor(raw[m]) \in Successes
    BY <1>1, <2>1
  <2> QED
    BY <2>2 DEF ActionFor, Successes
<1>6. ASSUME NEW t \in Tasks, Report(t) PROVE raw[m].dedup \in FinalDedup
  <2>1. m = Msg(t) /\ StatusOf(raw[m]) \in Successes
    BY <1>1, <1>6 DEF Report
  <2> QED
    BY <2>1 DEF StatusOf, Successes, FinalDedup
<1>7. ASSUME NEW t \in Tasks, NEW n \in Messages, Deliver(t, n) PROVE reported' = reported
  BY <1>7 DEF Deliver, seenVars
<1>8. CASE Crash \/ Quiescent \/ UNCHANGED vars
  BY <1>8 DEF Crash, Quiescent, vars, seenVars
<1> QED
  BY <1>2, <1>3, <1>4, <1>5, <1>6, <1>7, <1>8 DEF Next, Acts

\* A message whose items are all attributed stays so.
LEMMA AttributedStays ==
  ASSUME Typed, [Next]_vars, NEW m, Attributed(m)
  PROVE  Attributed(m)'
BY RowsGrow DEF Attributed

\* A success the boundary reports is durable (RawMessagePipeline!SuccessIsDurable), whatever
\* fails, crashes or is delivered again after it.
THEOREM SuccessStands == Spec => []SuccessIsDurable
<1>1. Init => SuccessIsDurable
  BY DEF Init, SuccessIsDurable
<1>2. IInv /\ SuccessIsDurable /\ [Next]_vars => SuccessIsDurable'
  <2> SUFFICES ASSUME IInv, SuccessIsDurable, [Next]_vars, NEW m \in Messages,
                      NEW s \in Successes, s \in reported'[m]
               PROVE  Attributed(m)'
    BY DEF SuccessIsDurable, Successes
  <2>0. Typed /\ FinalIsBacked
    BY DEF IInv, Backed
  <2>1. CASE s \in reported[m]
    BY <2>0, <2>1, AttributedStays DEF SuccessIsDurable, Successes
  <2>2. CASE s \notin reported[m]
    <3>1. raw[m].dedup \in FinalDedup
      BY <2>0, <2>2, SuccessStep
    <3> QED
      BY <2>0, <3>1, AttributedStays DEF FinalIsBacked
  <2> QED
    BY <2>1, <2>2
<1> QED
  BY <1>1, <1>2, IInvAlways, PTL DEF Spec
-----------------------------------------------------------------------------
(***************************************************************************)
(* Layer 4: the results of the items a task is done with, and of the one   *)
(* it is at.                                                               *)
(***************************************************************************)
EarlySteps == IngestSteps \cup {"load", "parse", "parse_refresh"}

\* The rows a completed dedup of m leaves behind include the one with key k.
IsNeeded(m, k) ==
  \E i \in DOMAIN Content[m] :
    LET item == Content[m][i]
    IN  \/ k = ResourceKey(item.res)
        \/ k = SourceKey(item.res, m)
        \/ \E j \in DOMAIN item.links : k = LinkKey(item.res, item.links[j])

\* The open transaction of t inserts a row that the dedup of its message cannot do without.
FreshKey(t) == \E k \in txn[t].ins : IsNeeded(Msg(t), k)

\* Whether e is a ResourceCreated event.
IsCreated(e) == e.kind = "created"

\* Where e stands in the sequence s, and which of the first n items of m name resource r.
Occurrences(s, e) == {k \in DOMAIN s : s[k] = e}
Mentions(m, n, r) == {i \in 1 .. n : Content[m][i].res = r}

\* No two created events of t are of the same resource, and all its events are of its message.
CreatedApart(t) ==
  \A k, l \in DOMAIN job[t].due :
    IsCreated(job[t].due[k]) /\ IsCreated(job[t].due[l]) /\ job[t].due[k].res = job[t].due[l].res
      => k = l

OwnMessage(t) == \A k \in DOMAIN job[t].due : job[t].due[k].msg = Msg(t)

\* The results of the items that are done.
FinishedResults(t) ==
  /\ job[t].due # <<>> => FreshKey(t)
  /\ \A e \in Events :
       Cardinality(Occurrences(job[t].due, e)) <= Cardinality(Mentions(Msg(t), job[t].item - 1, e.res))
  /\ \A k \in DOMAIN job[t].due :
       IsCreated(job[t].due[k]) => ResourceKey(job[t].due[k].res) \in txn[t].ins

\* The result being built for the current item.
CurrentResult(t) ==
  /\ pc[t] \in NewSteps => job[t].isNew /\ ResourceKey(Res(t)) \notin txn[t].ins
  /\ pc[t] \in NewSteps \cup AfterResource /\ job[t].isNew =>
       \A k \in DOMAIN job[t].due : IsCreated(job[t].due[k]) => job[t].due[k].res # Res(t)
  /\ pc[t] \in AfterResource /\ job[t].isNew => ResourceKey(Res(t)) \in txn[t].ins
  /\ pc[t] \in AfterResource /\ (job[t].isNew \/ job[t].grew) => FreshKey(t)

\* Where a task still has to publish what it has committed.
DueSteps == {"dedup_committed", "publish"}

\* What Results says of one task, by where it is.
ResultsOf(t) ==
  /\ pc[t] \in EarlySteps => job[t].due = <<>>
  /\ pc[t] \in DedupSteps => FinishedResults(t)
  /\ pc[t] \in DedupSteps \cup DueSteps => CreatedApart(t) /\ OwnMessage(t)
  /\ CurrentResult(t)

Results == \A t \in Tasks : ResultsOf(t)

\* The transactions of the tasks other than t are as they were.
OtherTxns(t) == \A u \in Tasks \ {t} : txn'[u] = txn[u]

\* A step of task t leaves the transactions, positions and locals of the others alone.
LEMMA OthersUnmoved ==
  ASSUME Typed, NEW t \in Tasks, Acts(t)
  PROVE  \A u \in Tasks \ {t} : txn'[u] = txn[u] /\ pc'[u] = pc[u] /\ job'[u] = job[u]
<1>0. txn \in [Tasks -> Txn] /\ pc \in [Tasks -> Steps] /\ job \in [Tasks -> Job]
  BY DEF Typed, TypeOK, DbTypeOK
<1>1. \A u \in Tasks \ {t} : pc'[u] = pc[u] /\ job'[u] = job[u]
  BY <1>0, GotoStep, JobStep DEF Goto
<1>a. UNCHANGED dbVars => OtherTxns(t)
  BY <1>0 DEF dbVars, OtherTxns
<1>2. Rollback(t) => OtherTxns(t)
  BY <1>0 DEF Rollback, OtherTxns
<1>3. \A k : Insert(t, k) => OtherTxns(t)
  BY <1>0 DEF Insert, OtherTxns
<1>4. \A m, row : Commit(t, m, row) => OtherTxns(t)
  BY <1>0 DEF Commit, OtherTxns
<1>5. \A r, n : LoadResource(t, r) \/ UpdateResource(t, r, n) => OtherTxns(t)
  BY <1>0 DEF LoadResource, UpdateResource, OtherTxns
<1>6. OtherTxns(t)
  <2>1. CASE \/ IngestSelect(t) \/ IngestReread(t) \/ Load(t) \/ ParseRefresh(t) \/ WorkSelect(t)
             \/ LinkSelect(t) \/ SourceSelect(t) \/ CountSources(t) \/ Publish(t) \/ Reload(t)
             \/ Report(t) \/ PublishFails(t) \/ DedupAnswered(t)
    BY <1>a, <2>1 DEF IngestSelect, IngestReread, Load, ParseRefresh, WorkSelect, LinkSelect,
       SourceSelect, CountSources, Publish, Reload, Report, PublishFails, DedupAnswered
  <2>2. CASE IngestInsert(t) \/ WorkInsert(t) \/ ResourceInsert(t) \/ LinkInsert(t) \/ SourceInsert(t)
    BY <1>3, <2>2 DEF IngestInsert, WorkInsert, ResourceInsert, LinkInsert, SourceInsert
  <2>3. CASE IngestCommit(t) \/ Parse(t) \/ DedupCommit(t) \/ Repend(t)
    BY <1>4, <2>3 DEF IngestCommit, Parse, DedupCommit, Repend
  <2>4. CASE ResourceSelect(t) \/ UpdateCount(t)
    BY <1>a, <1>5, <2>4 DEF ResourceSelect, UpdateCount
  <2>5. CASE IngestConflict(t) \/ DedupConflict(t) \/ DeadlockAbort(t) \/ DatabaseError(t)
    BY <1>2, <2>5 DEF IngestConflict, DedupConflict, DeadlockAbort, DatabaseError, DedupFails
  <2> QED
    BY <2>1, <2>2, <2>3, <2>4, <2>5 DEF Acts, Progress
<1> QED
  BY <1>1, <1>6 DEF OtherTxns

\* Where the current item stands among those of the message.
LEMMA CurrentContent ==
  ASSUME Typed, NEW t \in Tasks, pc[t] \in ItemSteps
  PROVE  /\ job[t].item \in DOMAIN Content[Msg(t)] /\ job[t].item \in Nat \ {0}
         /\ Item(t) = Content[Msg(t)][job[t].item]
<1>1. job[t].data = Content[Msg(t)] /\ job[t].item \in 1 .. Len(job[t].data)
  BY DEF Typed, LoopBounds, BoundsOf, ItemSteps
<1>2. Content[Msg(t)] \in Seq(Items)
  BY PipelineAssumption DEF Typed, TypeOK, Msg, Job
<1> QED
  BY <1>1, <1>2 DEF Item

\* The rows of the current item are needed.
LEMMA NeededKeys ==
  ASSUME Typed, NEW t \in Tasks, pc[t] \in ItemSteps
  PROVE  /\ IsNeeded(Msg(t), ResourceKey(Res(t)))
         /\ IsNeeded(Msg(t), SourceKey(Res(t), Msg(t)))
         /\ pc[t] \in LinkSteps => IsNeeded(Msg(t), LinkKey(Res(t), Link(t)))
<1>1. PICK i \in DOMAIN Content[Msg(t)] : Item(t) = Content[Msg(t)][i]
  BY CurrentContent
<1>2. pc[t] \in LinkSteps => job[t].link \in DOMAIN Item(t).links
  <2>1. Item(t).links \in Seq(Links)
    BY CurrentItem
  <2> QED
    BY <2>1 DEF Typed, LoopBounds, BoundsOf
<1> QED
  BY <1>1, <1>2 DEF IsNeeded, Res, Link

\* Occurrences and mentions are finite, and how an appended or removed event changes them.
LEMMA FiniteOccurrences ==
  ASSUME NEW S, NEW s \in Seq(S), NEW e
  PROVE  IsFiniteSet(Occurrences(s, e)) /\ Cardinality(Occurrences(s, e)) \in Nat
<1>1. Occurrences(s, e) \subseteq 1 .. Len(s) /\ Len(s) \in Int
  BY DEF Occurrences
<1>2. IsFiniteSet(1 .. Len(s))
  BY <1>1, FS_Interval
<1>3. IsFiniteSet(Occurrences(s, e))
  BY <1>1, <1>2, FS_Subset
<1> QED
  BY <1>3, FS_CardinalityType

\* Appending an event adds one occurrence of it, and none of another.
LEMMA AppendedOccurrences ==
  ASSUME NEW S, NEW s \in Seq(S), NEW x \in S, NEW e
  PROVE  Cardinality(Occurrences(s \o <<x>>, e))
           = Cardinality(Occurrences(s, e)) + (IF x = e THEN 1 ELSE 0)
<1> DEFINE n == Len(s) + 1
<1>1. IsFiniteSet(Occurrences(s, e)) /\ Cardinality(Occurrences(s, e)) \in Nat
  BY FiniteOccurrences
<1>2. DOMAIN (s \o <<x>>) = 1 .. n /\ (s \o <<x>>)[n] = x /\ \A k \in 1 .. Len(s) : (s \o <<x>>)[k] = s[k]
  OBVIOUS
<1>3. n \notin Occurrences(s, e)
  BY DEF Occurrences
<1>4. Occurrences(s \o <<x>>, e) = IF x = e THEN Occurrences(s, e) \cup {n} ELSE Occurrences(s, e)
  BY <1>2 DEF Occurrences
<1>5. Cardinality(Occurrences(s, e) \cup {n}) = Cardinality(Occurrences(s, e)) + 1
  BY <1>1, <1>3, FS_AddElement
<1> QED
  BY <1>1, <1>4, <1>5

\* The head of a sequence is one occurrence that its tail no longer has.
LEMMA TailOccurrences ==
  ASSUME NEW S, NEW s \in Seq(S), s # <<>>, NEW e
  PROVE  Cardinality(Occurrences(Tail(s), e)) + (IF Head(s) = e THEN 1 ELSE 0)
           <= Cardinality(Occurrences(s, e))
<1> DEFINE rest == Occurrences(s, e) \ {1}
           f == [k \in Occurrences(Tail(s), e) |-> k + 1]
<1>1. Tail(s) \in Seq(S) /\ Len(Tail(s)) = Len(s) - 1 /\ \A k \in 1 .. Len(s) - 1 : Tail(s)[k] = s[k + 1]
  OBVIOUS
<1>2. IsFiniteSet(Occurrences(s, e)) /\ Cardinality(Occurrences(s, e)) \in Nat
  BY FiniteOccurrences
<1>3. IsFiniteSet(rest) /\ Cardinality(rest) = Cardinality(Occurrences(s, e)) - (IF Head(s) = e THEN 1 ELSE 0)
  <2>1. 1 \in Occurrences(s, e) <=> Head(s) = e
    BY DEF Occurrences
  <2> QED
    BY <1>2, <2>1, FS_RemoveElement
<1>4. f \in Injection(Occurrences(Tail(s), e), rest)
  <2>1. \A k \in Occurrences(Tail(s), e) : k \in Nat /\ k + 1 \in rest
    BY <1>1 DEF Occurrences
  <2>2. f \in [Occurrences(Tail(s), e) -> rest]
    BY <2>1
  <2>3. \A k, l \in Occurrences(Tail(s), e) : f[k] = f[l] => k = l
    BY <2>1
  <2> QED
    BY <2>2, <2>3 DEF Injection, IsInjective
<1>5. Cardinality(Occurrences(Tail(s), e)) <= Cardinality(rest)
  BY <1>3, <1>4, FS_Injection
<1>6. Cardinality(Occurrences(Tail(s), e)) \in Nat
  BY <1>1, FiniteOccurrences
<1> QED
  BY <1>2, <1>3, <1>5, <1>6

\* One more item mentions a resource once more if it names it.
LEMMA NextMention ==
  ASSUME NEW m, NEW n \in Nat \ {0}, NEW r
  PROVE  /\ Cardinality(Mentions(m, n - 1, r)) \in Nat
         /\ Cardinality(Mentions(m, n, r))
              = Cardinality(Mentions(m, n - 1, r)) + (IF Content[m][n].res = r THEN 1 ELSE 0)
<1>1. IsFiniteSet(Mentions(m, n - 1, r)) /\ Cardinality(Mentions(m, n - 1, r)) \in Nat
  <2>1. Mentions(m, n - 1, r) \subseteq 1 .. (n - 1) /\ n - 1 \in Int /\ 1 \in Int
    BY DEF Mentions
  <2>2. IsFiniteSet(1 .. (n - 1))
    BY <2>1, FS_Interval
  <2>3. IsFiniteSet(Mentions(m, n - 1, r))
    BY <2>1, <2>2, FS_Subset
  <2> QED
    BY <2>3, FS_CardinalityType
<1>2. n \notin Mentions(m, n - 1, r)
  BY DEF Mentions
<1>3. Mentions(m, n, r) = IF Content[m][n].res = r THEN Mentions(m, n - 1, r) \cup {n}
                          ELSE Mentions(m, n - 1, r)
  <2>1. 1 .. n = (1 .. (n - 1)) \cup {n}
    OBVIOUS
  <2> QED
    BY <2>1 DEF Mentions
<1>4. Cardinality(Mentions(m, n - 1, r) \cup {n}) = Cardinality(Mentions(m, n - 1, r)) + 1
  BY <1>1, <1>2, FS_AddElement
<1> QED
  BY <1>1, <1>3, <1>4

\* The results of the finished items stay right over a step inside the handling of an item.
LEMMA InsideFrame ==
  ASSUME NEW t \in Tasks, FinishedResults(t), CreatedApart(t), OwnMessage(t),
         job'[t].due = job[t].due, job'[t].item = job[t].item, job'[t].msg = job[t].msg,
         txn[t].ins \subseteq txn'[t].ins
  PROVE  FinishedResults(t)' /\ CreatedApart(t)' /\ OwnMessage(t)'
<1>1. Msg(t)' = Msg(t)
  BY DEF Msg
<1>2. FreshKey(t) => FreshKey(t)'
  BY <1>1 DEF FreshKey, IsNeeded
<1>3. FinishedResults(t)'
  BY <1>1, <1>2 DEF FinishedResults, Mentions, Occurrences
<1>4. CreatedApart(t)' /\ OwnMessage(t)'
  BY <1>1 DEF CreatedApart, OwnMessage
<1> QED
  BY <1>3, <1>4

\* What an inserted key makes of the transaction of t.
LEMMA AddedKey ==
  ASSUME NEW t \in Tasks, NEW k, Adds(t, k)
  PROVE  /\ txn'[t].ins = txn[t].ins \cup {k}
         /\ IsNeeded(Msg(t), k) /\ Msg(t)' = Msg(t) => FreshKey(t)'
<1>1. txn'[t].ins = txn[t].ins \cup {k}
  BY DEF Adds
<1>2. IsNeeded(Msg(t), k) /\ Msg(t)' = Msg(t) => FreshKey(t)'
  BY <1>1 DEF FreshKey, IsNeeded
<1> QED
  BY <1>1, <1>2

\* The event of the current item, if its result has one.
LEMMA EventOfItem ==
  ASSUME Typed, NEW t \in Tasks, pc[t] \in ItemSteps
  PROVE  \/ ~job[t].isNew /\ ~job[t].grew /\ EventsOf(t) = <<>>
         \/ \E x \in Events :
              /\ EventsOf(t) = <<x>> /\ x.res = Res(t) /\ x.msg = Msg(t)
              /\ job[t].isNew \/ job[t].grew
              /\ IsCreated(x) <=> job[t].isNew
<1>1. Res(t) \in Resources /\ Msg(t) \in Messages /\ job[t].isNew \in BOOLEAN /\ job[t].grew \in BOOLEAN
  BY CurrentItem DEF Typed, TypeOK, Job
<1> DEFINE event(k) == [kind |-> k, res |-> Res(t), msg |-> Msg(t)]
<1>2. \A k \in {"created", "merged"} : event(k) \in Events /\ event(k).res = Res(t) /\ event(k).msg = Msg(t)
                                       /\ (IsCreated(event(k)) <=> k = "created")
  BY <1>1 DEF Events, IsCreated
<1>3. CASE job[t].isNew
  BY <1>2, <1>3 DEF EventsOf
<1>4. CASE ~job[t].isNew /\ job[t].grew
  BY <1>2, <1>4 DEF EventsOf
<1>5. CASE ~job[t].isNew /\ ~job[t].grew
  BY <1>5 DEF EventsOf
<1> QED
  BY <1>1, <1>3, <1>4, <1>5

\* UpdateCount appends the event of the current item to those of the items before it.
LEMMA UpdateResults ==
  ASSUME Typed, Keyed, NEW t \in Tasks, ResultsOf(t), UpdateCount(t)
  PROVE  FinishedResults(t)' /\ CreatedApart(t)' /\ OwnMessage(t)'
<1>0. /\ job[t] \in Job /\ job \in [Tasks -> Job] /\ pc \in [Tasks -> Steps]
      /\ job[t].due \in Seq(Events) /\ job[t].item \in Nat \ {0} /\ job[t].count \in Nat
  BY DEF Typed, TypeOK, Job
<1>1. pc[t] = "update" /\ pc[t] \in ItemSteps /\ pc[t] \in DedupSteps /\ pc[t] \in AfterResource
  BY DEF UpdateCount, At, ItemSteps, DedupSteps, AfterResource
<1>2. /\ job'[t].due = job[t].due \o EventsOf(t) /\ job'[t].item = job[t].item + 1
      /\ job'[t].msg = job[t].msg /\ Msg(t)' = Msg(t)
  BY <1>0 DEF UpdateCount, Job, Msg
<1>3. txn'[t].ins = txn[t].ins
  <2>1. Res(t) \in Resources
    BY <1>1, CurrentItem
  <2> QED
    BY <1>0, <2>1, UpdateKeeps DEF UpdateCount, Keeps
<1>4. /\ FinishedResults(t) /\ CreatedApart(t) /\ OwnMessage(t)
      /\ job[t].isNew =>
           /\ \A k \in DOMAIN job[t].due : IsCreated(job[t].due[k]) => job[t].due[k].res # Res(t)
           /\ ResourceKey(Res(t)) \in txn[t].ins
      /\ job[t].isNew \/ job[t].grew => FreshKey(t)
  BY <1>1 DEF ResultsOf, CurrentResult
<1>5. FreshKey(t) => FreshKey(t)'
  BY <1>2, <1>3 DEF FreshKey, IsNeeded
<1>6. \A e \in Events :
        /\ Cardinality(Mentions(Msg(t), job[t].item - 1, e.res)) \in Nat
        /\ Cardinality(Mentions(Msg(t), job[t].item, e.res))
             = Cardinality(Mentions(Msg(t), job[t].item - 1, e.res)) + (IF Res(t) = e.res THEN 1 ELSE 0)
  <2>1. Res(t) = Content[Msg(t)][job[t].item].res
    BY <1>1, CurrentContent DEF Res
  <2> QED
    BY <1>0, <2>1, NextMention
<1>7. job'[t].item - 1 = job[t].item
  BY <1>0, <1>2
<1>8. CASE EventsOf(t) = <<>>
  <2>1. job'[t].due = job[t].due
    BY <1>0, <1>2, <1>8
  <2>2. CreatedApart(t)' /\ OwnMessage(t)'
    BY <1>2, <1>4, <2>1 DEF CreatedApart, OwnMessage
  <2>3. ASSUME NEW e \in Events
        PROVE  Cardinality(Occurrences(job[t].due, e)) <= Cardinality(Mentions(Msg(t), job[t].item, e.res))
    <3>1. Cardinality(Occurrences(job[t].due, e)) \in Nat
      BY <1>0, FiniteOccurrences
    <3>2. Cardinality(Occurrences(job[t].due, e)) <= Cardinality(Mentions(Msg(t), job[t].item - 1, e.res))
      BY <1>4 DEF FinishedResults
    <3> QED
      BY <1>6, <3>1, <3>2
  <2>4. FinishedResults(t)'
    BY <1>2, <1>3, <1>4, <1>5, <1>7, <2>1, <2>3 DEF FinishedResults, Mentions, Occurrences
  <2> QED
    BY <2>2, <2>4
<1>9. ASSUME NEW x \in Events, EventsOf(t) = <<x>>, x.res = Res(t), x.msg = Msg(t),
             job[t].isNew \/ job[t].grew, IsCreated(x) <=> job[t].isNew
      PROVE  FinishedResults(t)' /\ CreatedApart(t)' /\ OwnMessage(t)'
  <2> DEFINE n == Len(job[t].due) + 1
  <2>1. /\ job'[t].due = job[t].due \o <<x>> /\ DOMAIN job'[t].due = 1 .. n /\ job'[t].due[n] = x
        /\ DOMAIN job[t].due = 1 .. (n - 1) /\ n \in Nat
        /\ \A k \in 1 .. (n - 1) : job'[t].due[k] = job[t].due[k]
    BY <1>0, <1>2, <1>9
  <2>2. \A k \in DOMAIN job'[t].due : k = n \/ k \in DOMAIN job[t].due
    BY <2>1
  <2>3. OwnMessage(t)'
    BY <1>2, <1>4, <1>9, <2>1, <2>2 DEF OwnMessage
  <2>4. CreatedApart(t)'
    <3> SUFFICES ASSUME NEW k \in DOMAIN job'[t].due, NEW l \in DOMAIN job'[t].due,
                        IsCreated(job'[t].due[k]), IsCreated(job'[t].due[l]),
                        job'[t].due[k].res = job'[t].due[l].res
                 PROVE  k = l
      BY DEF CreatedApart
    <3>1. CASE k \in DOMAIN job[t].due /\ l \in DOMAIN job[t].due
      BY <1>4, <2>1, <3>1 DEF CreatedApart
    <3>2. ASSUME NEW i \in DOMAIN job[t].due, IsCreated(x), IsCreated(job[t].due[i])
          PROVE  job[t].due[i].res # x.res
      BY <1>4, <1>9, <3>2
    <3> QED
      BY <2>1, <2>2, <3>1, <3>2
  <2>5. \A k \in DOMAIN job'[t].due : IsCreated(job'[t].due[k]) => ResourceKey(job'[t].due[k].res) \in txn'[t].ins
    BY <1>3, <1>4, <1>9, <2>1, <2>2 DEF FinishedResults
  <2>6. ASSUME NEW e \in Events
        PROVE  Cardinality(Occurrences(job'[t].due, e)) <= Cardinality(Mentions(Msg(t), job[t].item, e.res))
    <3>1. Cardinality(Occurrences(job'[t].due, e))
            = Cardinality(Occurrences(job[t].due, e)) + (IF x = e THEN 1 ELSE 0)
      BY <1>0, <2>1, AppendedOccurrences
    <3>2. Cardinality(Occurrences(job[t].due, e)) \in Nat
      BY <1>0, FiniteOccurrences
    <3>3. Cardinality(Occurrences(job[t].due, e)) <= Cardinality(Mentions(Msg(t), job[t].item - 1, e.res))
      BY <1>4 DEF FinishedResults
    <3>4. x = e => Res(t) = e.res
      BY <1>9
    <3> QED
      BY <1>6, <3>1, <3>2, <3>3, <3>4
  <2>7. FinishedResults(t)'
    BY <1>2, <1>4, <1>5, <1>7, <1>9, <2>5, <2>6 DEF FinishedResults, Mentions, Occurrences
  <2> QED
    BY <2>3, <2>4, <2>7
<1> QED
  BY <1>1, <1>8, <1>9, EventOfItem

\* The step that goes on after the resource row, or after a link.
LEMMA LinkStepShape == \A t, j : LinkStep(t, j) \in AfterResource
BY DEF LinkStep, AfterResource, LinkSteps

\* The results of a task after a step of its own.
LEMMA OwnResultsStep ==
  ASSUME Typed, Keyed, NEW t \in Tasks, ResultsOf(t), Acts(t)
  PROVE  ResultsOf(t)'
<1>0. /\ job[t] \in Job /\ job \in [Tasks -> Job] /\ pc \in [Tasks -> Steps] /\ txn \in [Tasks -> Txn]
      /\ job[t].due \in Seq(Events) /\ job[t].item \in Nat \ {0} /\ Msg(t) \in Messages
  BY DEF Typed, TypeOK, DbTypeOK, Job, Msg
<1>s. /\ NewSteps \subseteq ItemSteps /\ AfterResource \subseteq ItemSteps /\ ItemSteps \subseteq DedupSteps
      /\ LinkSteps \subseteq AfterResource
      /\ NewSteps \cap AfterResource = {} /\ EarlySteps \cap DedupSteps = {} /\ DueSteps \cap DedupSteps = {}
      /\ DueSteps \cap EarlySteps = {} /\ "res_select" \in ItemSteps \ (NewSteps \cup AfterResource)
  BY DEF NewSteps, AfterResource, ItemSteps, DedupSteps, LinkSteps, EarlySteps, IngestSteps, DueSteps
\* Outside the handling of an item nothing is said of the current result.
<1>1. ASSUME pc'[t] \notin NewSteps \cup AfterResource PROVE CurrentResult(t)'
  BY <1>1 DEF CurrentResult
<1>2. ASSUME pc'[t] \notin EarlySteps \cup DedupSteps \cup DueSteps PROVE ResultsOf(t)'
  BY <1>1, <1>2, <1>s DEF ResultsOf
<1>3. ASSUME pc[t] \in EarlySteps, pc'[t] \in EarlySteps, UNCHANGED job PROVE ResultsOf(t)'
  BY <1>1, <1>3, <1>s DEF ResultsOf
\* A step from one statement of dedup_and_persist to another that leaves due alone.
<1>4. ASSUME pc[t] \in ItemSteps, pc'[t] \in ItemSteps, txn[t].ins \subseteq txn'[t].ins,
             job'[t].due = job[t].due, job'[t].item = job[t].item, job'[t].msg = job[t].msg,
             CurrentResult(t)'
      PROVE  ResultsOf(t)'
  <2>1. FinishedResults(t) /\ CreatedApart(t) /\ OwnMessage(t)
    BY <1>4, <1>s DEF ResultsOf
  <2>2. FinishedResults(t)' /\ CreatedApart(t)' /\ OwnMessage(t)'
    BY <1>4, <2>1, InsideFrame
  <2> QED
    BY <1>4, <1>s, <2>2 DEF ResultsOf
<1>5. CASE \/ IngestSelect(t) \/ IngestInsert(t) \/ IngestConflict(t) \/ IngestCommit(t)
           \/ IngestReread(t) \/ Parse(t)
  <2>1. \/ Goto(t, "idle")
        \/ /\ UNCHANGED job /\ pc[t] \in EarlySteps
           /\ \E s \in EarlySteps : Goto(t, s)
    BY <1>5 DEF IngestSelect, IngestInsert, IngestConflict, IngestCommit, IngestReread, Parse, Finish, At,
       EarlySteps, IngestSteps
  <2>2. "idle" \notin EarlySteps \cup DedupSteps \cup DueSteps
    BY DEF EarlySteps, IngestSteps, DedupSteps, DueSteps
  <2> QED
    BY <1>0, <1>2, <1>3, <2>1, <2>2 DEF Goto
<1>6. CASE Load(t) \/ ParseRefresh(t)
  <2>1. \/ pc'[t] = "idle"
        \/ /\ pc[t] \in EarlySteps /\ pc'[t] \in {"parse", "res_select"}
           /\ job'[t].due = job[t].due
    BY <1>0, <1>6 DEF Load, ParseRefresh, Goto, Finish, Job, At, EarlySteps
  <2>2. CASE pc'[t] = "idle"
    BY <1>2, <2>2 DEF EarlySteps, IngestSteps, DedupSteps, DueSteps
  <2>3. CASE pc[t] \in EarlySteps /\ pc'[t] \in {"parse", "res_select"} /\ job'[t].due = job[t].due
    <3>1. job'[t].due = <<>>
      BY <2>3 DEF ResultsOf
    <3>2. CreatedApart(t)' /\ OwnMessage(t)'
      BY <3>1 DEF CreatedApart, OwnMessage
    <3>3. FinishedResults(t)'
      <4>1. \A e : Occurrences(<<>>, e) = {}
        BY DEF Occurrences
      <4>2. \A e : Cardinality(Occurrences(<<>>, e)) = 0
        BY <4>1, FS_EmptySet
      <4>3. job'[t] \in Job
        BY <1>0, JobStep
      <4>4. job'[t].item \in Nat \ {0}
        BY <4>3 DEF Job
      <4>5. \A m, r : Cardinality(Mentions(m, job'[t].item - 1, r)) \in Nat
        BY <4>4, NextMention
      <4>6. \A e \in Events : 0 <= Cardinality(Mentions(Msg(t), job[t].item - 1, e.res))'
        BY <4>5 DEF Msg
      <4>7. \A e \in Events : Cardinality(Occurrences(job[t].due, e))' = 0
        BY <3>1, <4>2
      <4> QED
        BY <3>1, <4>6, <4>7 DEF FinishedResults
    <3>4. pc'[t] \notin NewSteps \cup AfterResource
      BY <2>3 DEF NewSteps, AfterResource, LinkSteps
    <3> QED
      BY <1>1, <3>1, <3>2, <3>3, <3>4 DEF ResultsOf
  <2> QED
    BY <2>1, <2>2, <2>3
<1>7. CASE WorkSelect(t) \/ WorkInsert(t)
  <2>1. pc[t] \in NewSteps /\ pc'[t] \in NewSteps /\ UNCHANGED job
    BY <1>0, <1>7 DEF WorkSelect, WorkInsert, At, Goto, NewSteps
  <2>2. txn'[t].ins = txn[t].ins \/ txn'[t].ins = txn[t].ins \cup {WorkKey(WorkOf[Res(t)])}
    BY <1>7, InsertStep, AddedKey DEF WorkSelect, dbVars
  <2>3. WorkKey(WorkOf[Res(t)]) # ResourceKey(Res(t))
    BY DEF WorkKey, ResourceKey
  <2>4. CurrentResult(t)'
    BY <1>s, <2>1, <2>2, <2>3 DEF ResultsOf, CurrentResult, Res, Item
  <2> QED
    BY <1>4, <1>s, <2>1, <2>2, <2>4
<1>8. CASE ResourceSelect(t)
  <2>1. /\ pc[t] = "res_select"
        /\ job'[t].due = job[t].due /\ job'[t].item = job[t].item /\ job'[t].msg = job[t].msg
        /\ job'[t].data = job[t].data /\ ~job'[t].grew
        /\ job'[t].isNew <=> ResourceKey(Res(t)) \notin Visible(t)
    BY <1>0, <1>8 DEF ResourceSelect, At, Job
  <2>2. txn'[t].ins = txn[t].ins
    <3>1. Res(t) \in Resources
      BY <1>s, <2>1, CurrentItem
    <3> QED
      BY <1>8, <3>1, LoadKeeps DEF ResourceSelect, dbVars, Keeps
  <2>3. Res(t)' = Res(t)
    BY <2>1 DEF Res, Item
  <2>4. \/ pc'[t] \in AfterResource /\ ResourceKey(Res(t)) \in Visible(t)
        \/ pc'[t] = "work_select" /\ ResourceKey(Res(t)) \notin Visible(t)
    BY <1>0, <1>8, LinkStepShape DEF ResourceSelect, Goto
  <2>5. CASE pc'[t] \in AfterResource /\ ResourceKey(Res(t)) \in Visible(t)
    <3>1. CurrentResult(t)'
      BY <1>s, <2>1, <2>5 DEF CurrentResult
    <3> QED
      BY <1>4, <1>s, <2>1, <2>2, <2>5, <3>1
  <2>6. CASE pc'[t] = "work_select" /\ ResourceKey(Res(t)) \notin Visible(t)
    <3>1. FinishedResults(t) /\ ResourceKey(Res(t)) \notin txn[t].ins
      BY <1>s, <2>1, <2>6 DEF ResultsOf, Visible
    <3>2. \A k \in DOMAIN job[t].due : IsCreated(job[t].due[k]) => job[t].due[k].res # Res(t)
      BY <3>1 DEF FinishedResults
    <3>3. pc'[t] \in NewSteps
      BY <2>6 DEF NewSteps
    <3>4. CurrentResult(t)'
      BY <1>s, <2>1, <2>2, <2>3, <2>6, <3>1, <3>2, <3>3 DEF CurrentResult
    <3> QED
      BY <1>4, <1>s, <2>1, <2>2, <3>3, <3>4
  <2> QED
    BY <2>4, <2>5, <2>6
<1>9. CASE ResourceInsert(t)
  <2>1. pc[t] \in NewSteps /\ pc'[t] \in AfterResource /\ UNCHANGED job
    BY <1>0, <1>9, LinkStepShape DEF ResourceInsert, At, Goto, NewSteps
  <2>2. /\ txn'[t].ins = txn[t].ins \cup {ResourceKey(Res(t))} /\ Msg(t)' = Msg(t) /\ Res(t)' = Res(t)
        /\ FreshKey(t)'
    BY <1>9, <1>s, <2>1, InsertStep, AddedKey, NeededKeys DEF Msg, Res, Item
  <2>3. CurrentResult(t)'
    BY <1>s, <2>1, <2>2 DEF ResultsOf, CurrentResult
  <2> QED
    BY <1>4, <1>s, <2>1, <2>2, <2>3
<1>10. CASE LinkSelect(t) \/ SourceSelect(t) \/ CountSources(t)
  <2>1. /\ pc[t] \in AfterResource /\ pc'[t] \in AfterResource /\ txn' = txn
        /\ job'[t].due = job[t].due /\ job'[t].item = job[t].item /\ job'[t].msg = job[t].msg
        /\ job'[t].data = job[t].data /\ job'[t].isNew = job[t].isNew /\ job'[t].grew = job[t].grew
    BY <1>0, <1>10, LinkStepShape DEF LinkSelect, SourceSelect, CountSources, At, Goto, AfterResource,
       LinkSteps, Job, dbVars
  <2>2. Msg(t)' = Msg(t) /\ Res(t)' = Res(t) /\ (FreshKey(t) => FreshKey(t)')
    BY <2>1 DEF Msg, Res, Item, FreshKey, IsNeeded
  <2>3. CurrentResult(t)'
    BY <1>s, <2>1, <2>2 DEF ResultsOf, CurrentResult
  <2> QED
    BY <1>4, <1>s, <2>1, <2>3
<1>11. CASE LinkInsert(t) \/ SourceInsert(t)
  <2>1. /\ pc[t] \in AfterResource /\ pc'[t] \in AfterResource
        /\ LinkInsert(t) => pc[t] \in LinkSteps
        /\ job'[t].due = job[t].due /\ job'[t].item = job[t].item /\ job'[t].msg = job[t].msg
        /\ job'[t].data = job[t].data /\ job'[t].isNew = job[t].isNew
    BY <1>0, <1>11, LinkStepShape DEF LinkInsert, SourceInsert, At, Goto, AfterResource, LinkSteps, Job
  <2>2. Msg(t)' = Msg(t) /\ Res(t)' = Res(t)
    BY <2>1 DEF Msg, Res, Item
  <2>3. \E k : Adds(t, k) /\ IsNeeded(Msg(t), k)
    BY <1>11, <1>s, <2>1, InsertStep, NeededKeys
  <2>4. txn[t].ins \subseteq txn'[t].ins /\ FreshKey(t)'
    BY <2>2, <2>3, AddedKey
  <2>5. CurrentResult(t)'
    BY <1>s, <2>1, <2>2, <2>4 DEF ResultsOf, CurrentResult
  <2> QED
    BY <1>4, <1>s, <2>1, <2>4, <2>5
<1>12. CASE UpdateCount(t)
  <2>1. pc'[t] \in {"res_select", "dedup_commit"}
    BY <1>0, <1>12 DEF UpdateCount, Goto
  <2>2. pc'[t] \in DedupSteps \ (NewSteps \cup AfterResource)
    BY <2>1 DEF DedupSteps, NewSteps, AfterResource, LinkSteps
  <2> QED
    BY <1>1, <1>12, <1>s, <2>2, UpdateResults DEF ResultsOf
<1>13. CASE DedupCommit(t) \/ DedupAnswered(t)
  <2>1. /\ pc[t] \in DedupSteps \cup DueSteps /\ UNCHANGED job
        /\ pc'[t] \in {"dedup_committed", "report", "publish"}
    BY <1>0, <1>13 DEF DedupCommit, DedupAnswered, At, Goto, DedupSteps, DueSteps
  <2>2. CreatedApart(t)' /\ OwnMessage(t)'
    BY <2>1 DEF ResultsOf, CreatedApart, OwnMessage, Msg
  <2>3. pc'[t] \notin EarlySteps \cup DedupSteps \cup NewSteps \cup AfterResource
    BY <2>1 DEF EarlySteps, IngestSteps, DedupSteps, NewSteps, AfterResource, LinkSteps
  <2> QED
    BY <1>1, <2>2, <2>3 DEF ResultsOf
<1>14. CASE Publish(t) \/ PublishFails(t)
  <2>1. pc[t] = "publish" /\ pc'[t] \in {"report", "publish"} /\ job' = [job EXCEPT ![t].due = Tail(job[t].due)]
    BY <1>0, <1>14 DEF Publish, PublishFails, NextDue, At, Goto
  <2>2. job[t].due # <<>> /\ job'[t].due = Tail(job[t].due) /\ Msg(t)' = Msg(t)
    BY <1>0, <2>1 DEF Typed, LoopBounds, BoundsOf, Job, Msg
  <2>3. \A k \in DOMAIN Tail(job[t].due) :
          k + 1 \in DOMAIN job[t].due /\ Tail(job[t].due)[k] = job[t].due[k + 1] /\ k \in Nat
    BY <1>0, <2>2
  <2>4. CreatedApart(t) /\ OwnMessage(t)
    BY <2>1 DEF ResultsOf, DueSteps
  <2>5. OwnMessage(t)'
    BY <2>2, <2>3, <2>4 DEF OwnMessage
  <2>6. CreatedApart(t)'
    <3> SUFFICES ASSUME NEW k \in DOMAIN job'[t].due, NEW l \in DOMAIN job'[t].due,
                        IsCreated(job'[t].due[k]), IsCreated(job'[t].due[l]),
                        job'[t].due[k].res = job'[t].due[l].res
                 PROVE  k = l
      BY DEF CreatedApart
    <3>1. k + 1 = l + 1
      BY <2>2, <2>3, <2>4 DEF CreatedApart
    <3> QED
      BY <2>2, <2>3, <3>1
  <2>7. pc'[t] \notin EarlySteps \cup DedupSteps \cup NewSteps \cup AfterResource
    BY <2>1 DEF EarlySteps, IngestSteps, DedupSteps, NewSteps, AfterResource, LinkSteps
  <2> QED
    BY <1>1, <2>5, <2>6, <2>7 DEF ResultsOf
<1>15. CASE \/ DedupConflict(t) \/ DeadlockAbort(t) \/ Reload(t) \/ Repend(t) \/ Report(t) \/ DatabaseError(t)
  <2>1. pc'[t] \in {"reload", "repend", "report", "idle"}
    BY <1>0, <1>15 DEF DedupConflict, DeadlockAbort, Reload, Repend, Report, DatabaseError, DedupFails,
       Goto, Finish
  <2> QED
    BY <1>2, <2>1 DEF EarlySteps, IngestSteps, DedupSteps, DueSteps
<1> QED
  BY <1>5, <1>6, <1>7, <1>8, <1>9, <1>10, <1>11, <1>12, <1>13, <1>14, <1>15 DEF Acts, Progress

\* Layer 4 is preserved by every step.
LEMMA ResultsStep == IInv /\ Results /\ [Next]_vars => Results'
<1> SUFFICES ASSUME IInv, Results, [Next]_vars PROVE Results'
  OBVIOUS
<1>0. Typed /\ Keyed /\ pc \in [Tasks -> Steps] /\ job \in [Tasks -> Job] /\ txn \in [Tasks -> Txn]
  BY DEF IInv, Typed, TypeOK, DbTypeOK
<1>f. ASSUME NEW u \in Tasks, pc'[u] = pc[u], job'[u] = job[u], txn'[u] = txn[u]
      PROVE  ResultsOf(u)'
  <2>1. Msg(u)' = Msg(u) /\ Res(u)' = Res(u) /\ FreshKey(u)' = FreshKey(u)
    BY <1>f DEF Msg, Res, Item, FreshKey, IsNeeded
  <2>2. ResultsOf(u)
    BY DEF Results
  <2>3. CurrentResult(u)'
    BY <1>f, <2>1, <2>2 DEF ResultsOf, CurrentResult
  <2>4. pc[u] \in DedupSteps => FinishedResults(u)'
    BY <1>f, <2>1, <2>2 DEF ResultsOf, FinishedResults, Occurrences, Mentions
  <2>5. pc[u] \in DedupSteps \cup DueSteps => CreatedApart(u)' /\ OwnMessage(u)'
    BY <1>f, <2>1, <2>2 DEF ResultsOf, CreatedApart, OwnMessage
  <2> QED
    BY <1>f, <2>2, <2>3, <2>4, <2>5 DEF ResultsOf
<1>1. ASSUME NEW t \in Tasks, Acts(t) PROVE Results'
  <2>1. ResultsOf(t)'
    BY <1>0, <1>1, OwnResultsStep DEF Results
  <2>2. \A u \in Tasks \ {t} : ResultsOf(u)'
    BY <1>0, <1>1, <1>f, OthersUnmoved
  <2> QED
    BY <2>1, <2>2 DEF Results
<1>i. ASSUME NEW u \in Tasks, pc'[u] \in {"idle", "ingest_select"}, job'[u].due = <<>> PROVE ResultsOf(u)'
  BY <1>i DEF ResultsOf, CurrentResult, EarlySteps, IngestSteps, DedupSteps, NewSteps, AfterResource,
     LinkSteps, DueSteps
<1>2. ASSUME NEW t \in Tasks, NEW m \in Messages, Deliver(t, m) PROVE Results'
  <2>1. /\ \A u \in Tasks \ {t} : pc'[u] = pc[u] /\ job'[u] = job[u] /\ txn'[u] = txn[u]
        /\ pc'[t] = "ingest_select" /\ job'[t] = JobFor(m)
    BY <1>0, <1>2 DEF Deliver, Goto, dbVars
  <2>2. ResultsOf(t)'
    BY <1>i, <2>1 DEF JobFor
  <2>3. \A u \in Tasks \ {t} : ResultsOf(u)'
    BY <1>f, <2>1
  <2> QED
    BY <2>2, <2>3 DEF Results
<1>3. CASE Crash
  BY <1>3, <1>i DEF Crash, NoJob, JobFor, Results
<1>4. CASE Quiescent \/ UNCHANGED vars
  BY <1>4, <1>f DEF Quiescent, vars, dbVars, Results
<1> QED
  BY <1>1, <1>2, <1>3, <1>4 DEF Next, Acts

-----------------------------------------------------------------------------
(***************************************************************************)
(* Layer 5: what has been published, and what the tasks that have          *)
(* committed a dedup are going to publish.                                 *)
(***************************************************************************)
\* The items of m that name resource r.
AllMentions(m, r) == {i \in DOMAIN Content[m] : Content[m][i].res = r}

\* t has committed a dedup that it still has events of.
Announcing(t) == pc[t] \in DueSteps /\ job[t].due # <<>>

\* What t will publish of e still fits.
DueFits(t) ==
  /\ Attributed(Msg(t))
  /\ \A e \in Events :
       e.msg = Msg(t) =>
         published[e] + Cardinality(Occurrences(job[t].due, e)) <= Cardinality(AllMentions(Msg(t), e.res))
  /\ \A k \in DOMAIN job[t].due :
       IsCreated(job[t].due[k]) =>
         /\ ResourceKey(job[t].due[k].res) \in rows
         /\ \A e \in Events : IsCreated(e) /\ e.res = job[t].due[k].res => published[e] = 0

\* Two tasks with events to publish handle different messages and announce different resources.
PublishersApart ==
  \A t, u \in Tasks :
    t # u /\ Announcing(t) /\ Announcing(u) =>
      /\ Msg(t) # Msg(u)
      /\ \A k \in DOMAIN job[t].due, l \in DOMAIN job[u].due :
           IsCreated(job[t].due[k]) /\ IsCreated(job[u].due[l]) => job[t].due[k].res # job[u].due[l].res

\* What an event on the bus tells of is committed.
PublishedRows ==
  \A e \in Events :
    published[e] > 0 => Attributed(e.msg) /\ (IsCreated(e) => ResourceKey(e.res) \in rows)

\* The layer as a whole.
Announced ==
  /\ \A t \in Tasks : Announcing(t) => DueFits(t)
  /\ PublishersApart
  /\ PublishedRows
  /\ NoReplayedEvents
  /\ CreatedOnce

\* A message mentions a resource finitely often.
LEMMA MentionsFinite == \A m \in Messages : \A r : Cardinality(AllMentions(m, r)) \in Nat
<1> SUFFICES ASSUME NEW m \in Messages, NEW r PROVE Cardinality(AllMentions(m, r)) \in Nat
  OBVIOUS
<1>1. Content[m] \in Seq(Items)
  BY PipelineAssumption
<1>2. AllMentions(m, r) \subseteq 1 .. Len(Content[m]) /\ Len(Content[m]) \in Int /\ 1 \in Int
  BY <1>1 DEF AllMentions
<1>3. IsFiniteSet(1 .. Len(Content[m]))
  BY <1>2, FS_Interval
<1>4. IsFiniteSet(AllMentions(m, r))
  BY <1>2, <1>3, FS_Subset
<1> QED
  BY <1>4, FS_CardinalityType

\* A message some of whose needed rows are not committed is not attributed.
LEMMA NotAttributed ==
  ASSUME Keyed, NEW t \in Tasks, FreshKey(t)
  PROVE  ~Attributed(Msg(t))
<1>1. PICK k \in txn[t].ins : IsNeeded(Msg(t), k)
  BY DEF FreshKey
<1>2. k \notin rows
  BY DEF Keyed, UniqueKeys
<1> QED
  BY <1>1, <1>2 DEF IsNeeded, Attributed

\* Nothing is published, and no task comes to have events to publish, but by these three steps.
LEMMA QuietStep ==
  ASSUME IInv, [Next]_vars, ~(\E t \in Tasks : DedupCommit(t) \/ Publish(t) \/ PublishFails(t))
  PROVE  /\ published' = published
         /\ \A u \in Tasks : Announcing(u)' => Announcing(u) /\ job'[u] = job[u]
<1>0. Typed /\ pc \in [Tasks -> Steps] /\ job \in [Tasks -> Job]
  BY DEF IInv, Typed, TypeOK
<1>1. ASSUME NEW t \in Tasks, Acts(t)
      PROVE  /\ published' = published
             /\ \A u \in Tasks : Announcing(u)' => Announcing(u) /\ job'[u] = job[u]
  <2>1. published' = published
    BY <1>1 DEF Acts, Progress, IngestSelect, IngestInsert, IngestConflict, IngestCommit, IngestReread,
       Load, Parse, ParseRefresh, ResourceSelect, WorkSelect, WorkInsert, ResourceInsert, LinkSelect,
       LinkInsert, SourceSelect, SourceInsert, CountSources, UpdateCount, DedupAnswered, DedupConflict,
       DeadlockAbort, Reload, Repend, Report, DatabaseError, DedupFails, Finish, seenVars
  <2>2. \A j : LinkStep(t, j) \notin DueSteps
    BY DEF LinkStep, DueSteps
  <2>3. \A u \in Tasks \ {t} : pc'[u] = pc[u] /\ job'[u] = job[u]
    BY <1>0, <1>1, OthersUnmoved
  <2>4. CASE DedupAnswered(t)
    <3>1. pc[t] \in DueSteps /\ job' = job
      BY <2>4 DEF DedupAnswered, At, DueSteps
    <3> QED
      BY <2>1, <2>3, <3>1 DEF Announcing
  <2>5. CASE ~DedupAnswered(t)
    <3>1. pc'[t] \notin DueSteps
      BY <1>0, <1>1, <2>2, <2>5 DEF Acts, Progress, IngestSelect, IngestInsert, IngestConflict, IngestCommit, IngestReread,
       Load, Parse, ParseRefresh, ResourceSelect, WorkSelect, WorkInsert, ResourceInsert, LinkSelect,
       LinkInsert, SourceSelect, SourceInsert, CountSources, UpdateCount, DedupConflict,
       DeadlockAbort, Reload, Repend, Report, DatabaseError, DedupFails, Finish, Goto, DueSteps
    <3> QED
      BY <2>1, <2>3, <3>1 DEF Announcing
  <2> QED
    BY <2>4, <2>5
<1>2. ASSUME NEW t \in Tasks, NEW m \in Messages, Deliver(t, m)
      PROVE  /\ published' = published
             /\ \A u \in Tasks : Announcing(u)' => Announcing(u) /\ job'[u] = job[u]
  BY <1>0, <1>2 DEF Deliver, Goto, seenVars, Announcing, DueSteps
<1>3. CASE Crash
  BY <1>3 DEF Crash, seenVars, Announcing, DueSteps
<1>4. CASE Quiescent \/ UNCHANGED vars
  BY <1>4 DEF Quiescent, vars, seenVars, Announcing
<1> QED
  BY <1>1, <1>2, <1>3, <1>4 DEF Next, Acts

\* What holds of a task at publish() stays true while it waits and nothing is published.
LEMMA DueFitsFrame ==
  ASSUME Typed, [Next]_vars, NEW u \in Tasks, DueFits(u), job'[u] = job[u], published' = published
  PROVE  DueFits(u)'
<1>1. Msg(u)' = Msg(u) /\ rows \subseteq rows'
  BY RowsGrow DEF Msg
<1>2. Attributed(Msg(u))'
  BY <1>1 DEF DueFits, Attributed
<1> QED
  BY <1>1, <1>2 DEF DueFits, Occurrences, AllMentions

\* The steps that publish nothing keep what has been published true.
LEMMA PublishedFrame ==
  ASSUME Typed, [Next]_vars, Announced, published' = published
  PROVE  PublishedRows' /\ NoReplayedEvents' /\ CreatedOnce'
<1>1. PublishedRows'
  BY AttributedStays, RowsGrow DEF Announced, PublishedRows
<1> QED
  BY <1>1 DEF Announced, NoReplayedEvents, CreatedOnce

\* The commit of dedup_and_persist: its events are of rows that nobody has committed before.
LEMMA CommitAnnounces ==
  ASSUME IInv, Results, Announced, [Next]_vars, NEW t \in Tasks, DedupCommit(t)
  PROVE  Announced'
<1>0. /\ Typed /\ Keyed /\ DedupProgress /\ pc \in [Tasks -> Steps] /\ job \in [Tasks -> Job]
      /\ published \in [Events -> Nat] /\ Msg(t) \in Messages /\ job[t].due \in Seq(Events)
  BY DEF IInv, Typed, TypeOK, Msg, Job
<1>1. /\ published' = published /\ UNCHANGED job /\ Msg(t)' = Msg(t) /\ pc[t] = "dedup_commit"
      /\ pc[t] \in DedupSteps
      /\ rows' = rows \cup txn[t].ins
      /\ \A u \in Tasks \ {t} : pc'[u] = pc[u]
  BY <1>0 DEF DedupCommit, Commit, Goto, At, seenVars, Msg, DedupSteps
<1>a. /\ Announcing(t)' => job[t].due # <<>>
      /\ \A u \in Tasks \ {t} : Announcing(u)' <=> Announcing(u)
  BY <1>1 DEF Announcing
<1>2. FinishedResults(t) /\ OwnMessage(t)
  BY <1>1 DEF Results, ResultsOf
<1>3. txn[t].ins \cap rows = {}
  BY <1>0 DEF Keyed, UniqueKeys
<1>4. \A u \in Tasks : Announcing(u) => DueFits(u)'
  BY <1>0, <1>1, DueFitsFrame DEF Announced
<1>5. ASSUME Announcing(t)' PROVE DueFits(t)' /\ ~Attributed(Msg(t))
  <2>1. ~Attributed(Msg(t))
    BY <1>0, <1>a, <1>2, <1>5, NotAttributed DEF FinishedResults
  <2>2. Attributed(Msg(t))'
    BY <1>0, CommitAttributes DEF DedupProgress
  <2>3. \A e \in Events : e.msg = Msg(t) => published[e] = 0
    BY <1>0, <2>1 DEF Announced, PublishedRows
  <2>4. \A e \in Events : Cardinality(Occurrences(job[t].due, e)) <= Cardinality(AllMentions(Msg(t), e.res))
    <3>a. Content[Msg(t)] \in Seq(Items)
      BY <1>0, PipelineAssumption
    <3>b. job[t].data = Content[Msg(t)] /\ job[t].item = Len(job[t].data) + 1
      BY <1>0, <1>1 DEF Typed, LoopBounds, BoundsOf
    <3>1. Content[Msg(t)] \in Seq(Items) /\ job[t].item - 1 = Len(Content[Msg(t)])
      BY <3>a, <3>b
    <3>2. \A r : Mentions(Msg(t), job[t].item - 1, r) = AllMentions(Msg(t), r)
      BY <3>1 DEF Mentions, AllMentions
    <3> QED
      BY <1>2, <3>2 DEF FinishedResults
  <2>5. \A e \in Events : Cardinality(Occurrences(job[t].due, e)) \in Nat
    BY <1>0, FiniteOccurrences
  <2>6. \A e \in Events :
          e.msg = Msg(t) =>
            published[e] + Cardinality(Occurrences(job[t].due, e)) <= Cardinality(AllMentions(Msg(t), e.res))
    BY <2>3, <2>4, <2>5
  <2>7. ASSUME NEW k \in DOMAIN job[t].due, IsCreated(job[t].due[k])
        PROVE  /\ ResourceKey(job[t].due[k].res) \in rows'
               /\ \A e \in Events : IsCreated(e) /\ e.res = job[t].due[k].res => published[e] = 0
    <3>1. ResourceKey(job[t].due[k].res) \in txn[t].ins
      BY <1>2, <2>7 DEF FinishedResults
    <3> QED
      BY <1>0, <1>1, <1>3, <3>1 DEF Announced, PublishedRows
  <2>8. DueFits(t)'
    BY <1>1, <2>2, <2>6, <2>7 DEF DueFits, AllMentions, Occurrences, Attributed
  <2> QED
    BY <2>1, <2>8
<1>6. ASSUME NEW u \in Tasks \ {t}, Announcing(t)', Announcing(u)
      PROVE  /\ Msg(t) # Msg(u)
             /\ \A k \in DOMAIN job[t].due, l \in DOMAIN job[u].due :
                  IsCreated(job[t].due[k]) /\ IsCreated(job[u].due[l]) => job[t].due[k].res # job[u].due[l].res
  <2>1. DueFits(u) /\ ~Attributed(Msg(t))
    BY <1>5, <1>6 DEF Announced
  <2>2. \A k \in DOMAIN job[t].due : IsCreated(job[t].due[k]) => ResourceKey(job[t].due[k].res) \notin rows
    BY <1>2, <1>3 DEF FinishedResults
  <2> QED
    BY <2>1, <2>2 DEF DueFits
<1>7. PublishersApart'
  <2> SUFFICES ASSUME NEW u \in Tasks, NEW v \in Tasks, u # v, Announcing(u)', Announcing(v)'
               PROVE  /\ Msg(u) # Msg(v)
                      /\ \A k \in DOMAIN job[u].due, l \in DOMAIN job[v].due :
                           IsCreated(job[u].due[k]) /\ IsCreated(job[v].due[l])
                             => job[u].due[k].res # job[v].due[l].res
    BY <1>1 DEF PublishersApart, Msg
  <2>1. CASE u # t /\ v # t
    BY <1>a, <2>1 DEF Announced, PublishersApart
  <2>2. CASE u = t \/ v = t
    BY <1>a, <1>6, <2>2
  <2> QED
    BY <2>1, <2>2
<1>8. \A u \in Tasks : Announcing(u)' => DueFits(u)'
  BY <1>a, <1>4, <1>5
<1> QED
  BY <1>0, <1>1, <1>7, <1>8, PublishedFrame DEF Announced

\* publish() takes the first of t's events and counts it, or raises and counts nothing.
LEMMA PublishAnnounces ==
  ASSUME IInv, Results, Announced, [Next]_vars, NEW t \in Tasks, Publish(t) \/ PublishFails(t)
  PROVE  Announced'
<1> DEFINE first == Head(job[t].due)
           rest == Tail(job[t].due)
<1>0. /\ Typed /\ pc \in [Tasks -> Steps] /\ job \in [Tasks -> Job] /\ job[t] \in Job
      /\ published \in [Events -> Nat] /\ Msg(t) \in Messages /\ job[t].due \in Seq(Events)
  BY DEF IInv, Typed, TypeOK, Msg, Job
<1>1. /\ pc[t] = "publish" /\ rows' = rows
      /\ \A u \in Tasks \ {t} : pc'[u] = pc[u] /\ job'[u] = job[u]
      /\ job'[t].due = rest /\ job'[t].msg = job[t].msg
      /\ \A u \in Tasks : Msg(u)' = Msg(u)
      /\ published' \in {published, [published EXCEPT ![first] = published[first] + 1]}
  <2>1. /\ pc[t] = "publish" /\ rows' = rows
        /\ job' = [job EXCEPT ![t].due = rest]
        /\ \E s \in {"report", "publish"} : pc' = [pc EXCEPT ![t] = s]
        /\ published' \in {published, [published EXCEPT ![first] = published[first] + 1]}
    BY DEF Publish, PublishFails, NextDue, Goto, At, dbVars, seenVars
  <2>2. /\ job'[t] = [job[t] EXCEPT !.due = rest]
        /\ \A u \in Tasks \ {t} : pc'[u] = pc[u] /\ job'[u] = job[u]
    BY <1>0, <2>1
  <2>3. job'[t].due = rest /\ job'[t].msg = job[t].msg
    BY <1>0, <2>2 DEF Job
  <2> QED
    BY <2>1, <2>2, <2>3 DEF Msg
<1>2. DueFits(t) /\ CreatedApart(t) /\ OwnMessage(t) /\ PublishersApart
  <2>1. pc[t] \in DueSteps /\ job[t].due # <<>>
    BY <1>0, <1>1 DEF Typed, LoopBounds, BoundsOf, DueSteps
  <2> QED
    BY <2>1 DEF Announced, Announcing, Results, ResultsOf
<1>a. /\ Announcing(t)
      /\ \A u \in Tasks \ {t} : Announcing(u)' <=> Announcing(u)
  BY <1>0, <1>1 DEF Typed, LoopBounds, BoundsOf, Announcing, DueSteps
<1>3. /\ job[t].due # <<>> /\ 1 \in DOMAIN job[t].due /\ job[t].due[1] = first /\ first \in Events
      /\ \A k \in DOMAIN rest : k \in Nat \ {0} /\ k + 1 \in DOMAIN job[t].due /\ rest[k] = job[t].due[k + 1]
  <2>1. job[t].due # <<>>
    BY <1>0, <1>1 DEF Typed, LoopBounds, BoundsOf
  <2> QED
    BY <1>0, <2>1
<1>4. first.msg = Msg(t) /\ first.msg \in Messages
  BY <1>0, <1>2, <1>3 DEF OwnMessage
<1>5. \A e \in Events : published'[e] = published[e] \/ (e = first /\ published'[e] = published[e] + 1)
  BY <1>0, <1>1, <1>3
\* Nobody has published that the resource of a created event of t exists.
<1>6. \A k \in DOMAIN job[t].due, e \in Events :
        IsCreated(job[t].due[k]) /\ IsCreated(e) /\ e.res = job[t].due[k].res => published[e] = 0
  BY <1>2 DEF DueFits
<1>7. DueFits(t)'
  <2>1. Attributed(Msg(t))'
    BY <1>1, <1>2 DEF DueFits, Attributed
  <2>2. ASSUME NEW e \in Events, e.msg = Msg(t)
        PROVE  published'[e] + Cardinality(Occurrences(rest, e)) <= Cardinality(AllMentions(Msg(t), e.res))
    <3>1. published[e] + Cardinality(Occurrences(job[t].due, e)) <= Cardinality(AllMentions(Msg(t), e.res))
      BY <1>2, <2>2 DEF DueFits
    <3>2. Cardinality(Occurrences(rest, e)) + (IF first = e THEN 1 ELSE 0)
            <= Cardinality(Occurrences(job[t].due, e))
      BY <1>0, <1>3, TailOccurrences
    <3>3. Cardinality(Occurrences(rest, e)) \in Nat /\ Cardinality(Occurrences(job[t].due, e)) \in Nat
      <4>1. rest \in Seq(Events)
        BY <1>0, <1>3
      <4> QED
        BY <1>0, <4>1, FiniteOccurrences
    <3>4. Cardinality(AllMentions(Msg(t), e.res)) \in Nat
      BY <1>0, MentionsFinite
    <3>5. published[e] \in Nat
      BY <1>0
    <3> QED
      BY <1>5, <3>1, <3>2, <3>3, <3>4, <3>5
  <2>3. ASSUME NEW k \in DOMAIN rest, IsCreated(rest[k])
        PROVE  /\ ResourceKey(rest[k].res) \in rows'
               /\ \A e \in Events : IsCreated(e) /\ e.res = rest[k].res => published'[e] = 0
    <3>1. ResourceKey(rest[k].res) \in rows'
      BY <1>1, <1>2, <1>3, <2>3 DEF DueFits
    <3>2. ASSUME NEW e \in Events, IsCreated(e), e.res = rest[k].res PROVE e # first
      BY <1>2, <1>3, <2>3, <3>2 DEF CreatedApart
    <3> QED
      BY <1>3, <1>5, <1>6, <2>3, <3>1, <3>2
  <2> QED
    BY <1>1, <2>1, <2>2, <2>3 DEF DueFits, AllMentions, Occurrences
<1>8. ASSUME NEW u \in Tasks \ {t}, Announcing(u) PROVE DueFits(u)'
  <2>1. DueFits(u) /\ Msg(u) # Msg(t)
    BY <1>a, <1>8 DEF Announced, PublishersApart
  <2>2. Attributed(Msg(u))'
    BY <1>1, <2>1 DEF DueFits, Attributed
  <2>3. \A e \in Events : e.msg = Msg(u) => published'[e] = published[e]
    BY <1>4, <1>5, <2>1
  <2>4. ASSUME NEW k \in DOMAIN job[u].due, IsCreated(job[u].due[k]),
               NEW e \in Events, IsCreated(e), e.res = job[u].due[k].res
        PROVE  published'[e] = 0
    <3>1. e # first
      BY <1>a, <1>2, <1>3, <1>8, <2>4 DEF PublishersApart
    <3> QED
      BY <1>5, <2>1, <2>4, <3>1 DEF DueFits
  <2> QED
    BY <1>1, <2>1, <2>2, <2>3, <2>4 DEF DueFits, AllMentions, Occurrences
<1>9. PublishersApart'
  <2> SUFFICES ASSUME NEW u \in Tasks, NEW v \in Tasks, u # v, Announcing(u)', Announcing(v)'
               PROVE  /\ Msg(u) # Msg(v)
                      /\ \A k \in DOMAIN job'[u].due, l \in DOMAIN job'[v].due :
                           IsCreated(job'[u].due[k]) /\ IsCreated(job'[v].due[l])
                             => job'[u].due[k].res # job'[v].due[l].res
    BY <1>1 DEF PublishersApart
  <2>1. Announcing(u) /\ Announcing(v)
    BY <1>a
  <2>2. ASSUME NEW w \in Tasks, NEW k \in DOMAIN job'[w].due
        PROVE  \E l \in DOMAIN job[w].due : job'[w].due[k] = job[w].due[l]
    <3>1. CASE w = t
      <4>1. k \in DOMAIN rest /\ job'[w].due[k] = rest[k]
        BY <1>1, <2>2, <3>1
      <4> QED
        BY <1>3, <3>1, <4>1
    <3>2. CASE w # t
      BY <1>1, <2>2, <3>2
    <3> QED
      BY <3>1, <3>2
  <2> QED
    BY <1>2, <2>1, <2>2 DEF PublishersApart
<1>10. PublishedRows'
  <2>1. Attributed(first.msg) /\ (IsCreated(first) => ResourceKey(first.res) \in rows)
    BY <1>2, <1>3, <1>4 DEF DueFits
  <2>2. \A e \in Events : published'[e] > 0 => published[e] > 0 \/ e = first
    BY <1>5
  <2> QED
    BY <1>1, <2>1, <2>2 DEF Announced, PublishedRows, Attributed
<1>11. NoReplayedEvents'
  <2> DEFINE n == Cardinality(AllMentions(first.msg, first.res))
  <2>1. published[first] + Cardinality(Occurrences(job[t].due, first)) <= n
    BY <1>2, <1>3, <1>4 DEF DueFits
  <2>2. Cardinality(Occurrences(rest, first)) + 1 <= Cardinality(Occurrences(job[t].due, first))
    BY <1>0, <1>3, TailOccurrences
  <2>3. Cardinality(Occurrences(rest, first)) \in Nat /\ Cardinality(Occurrences(job[t].due, first)) \in Nat
    <3>1. rest \in Seq(Events)
      BY <1>0, <1>3
    <3> QED
      BY <1>0, <3>1, FiniteOccurrences
  <2>4. n \in Nat
    BY <1>4, MentionsFinite
  <2>5. published[first] \in Nat
    BY <1>0, <1>3
  <2>6. published[first] + 1 <= n
    BY <2>1, <2>2, <2>3, <2>4, <2>5
  <2> QED
    BY <1>5, <2>6 DEF Announced, NoReplayedEvents, AllMentions
<1>12. CreatedOnce'
  <2> SUFFICES ASSUME NEW d \in Events, NEW e \in Events, IsCreated(d), IsCreated(e), d.res = e.res,
                      published'[d] > 0, published'[e] > 0
               PROVE  d = e /\ published'[d] = 1
    BY DEF CreatedOnce, IsCreated
  <2>1. ASSUME IsCreated(first), first.res = d.res PROVE published[d] = 0 /\ published[e] = 0
    BY <1>3, <1>6, <2>1
  <2>2. CASE d = first \/ e = first
    BY <1>0, <1>5, <2>1, <2>2
  <2>3. CASE d # first /\ e # first
    BY <1>5, <2>3 DEF Announced, CreatedOnce, IsCreated
  <2> QED
    BY <2>2, <2>3
<1> QED
  BY <1>a, <1>7, <1>8, <1>9, <1>10, <1>11, <1>12 DEF Announced

\* Layer 5 is preserved by every step.
LEMMA AnnouncedStep == IInv /\ Results /\ Announced /\ [Next]_vars => Announced'
<1> SUFFICES ASSUME IInv, Results, Announced, [Next]_vars PROVE Announced'
  OBVIOUS
<1>0. Typed
  BY DEF IInv
<1>1. CASE \E t \in Tasks : DedupCommit(t)
  BY <1>1, CommitAnnounces
<1>2. CASE \E t \in Tasks : Publish(t) \/ PublishFails(t)
  BY <1>2, PublishAnnounces
<1>3. CASE ~(\E t \in Tasks : DedupCommit(t) \/ Publish(t) \/ PublishFails(t))
  <2>1. /\ published' = published
        /\ \A u \in Tasks : Announcing(u)' => Announcing(u) /\ job'[u] = job[u]
    BY <1>3, QuietStep
  <2>2. \A u \in Tasks : Announcing(u)' => DueFits(u)'
    BY <1>0, <2>1, DueFitsFrame DEF Announced
  <2>3. PublishersApart'
    BY <2>1 DEF Announced, PublishersApart, Msg
  <2> QED
    BY <1>0, <2>1, <2>2, <2>3, PublishedFrame DEF Announced
<1> QED
  BY <1>1, <1>2, <1>3

\* What the outside world learns of a message, together.
EInv == IInv /\ Results /\ Announced

\* The invariant of the events holds initially,
LEMMA EInvInit == Init => EInv
<1> SUFFICES ASSUME Init PROVE EInv
  OBVIOUS
<1>1. Results
  BY DEF Init, NoJob, JobFor, Results, ResultsOf, CurrentResult, EarlySteps, IngestSteps, DedupSteps,
     NewSteps, AfterResource, LinkSteps, DueSteps
<1>2. Announced
  <2>1. \A m \in Messages : \A r : Cardinality(AllMentions(m, r)) \in Nat
    BY MentionsFinite
  <2>2. ASSUME NEW e \in Events PROVE published[e] <= Cardinality(AllMentions(e.msg, e.res))
    <3>1. published[e] = 0 /\ e.msg \in Messages
      BY <2>2 DEF Init, Events
    <3>2. Cardinality(AllMentions(e.msg, e.res)) \in Nat
      BY <2>1, <3>1
    <3> QED
      BY <3>1, <3>2
  <2>3. NoReplayedEvents
    BY <2>2 DEF NoReplayedEvents, AllMentions
  <2> QED
    BY <2>3 DEF Init, Announced, Announcing, DueSteps, PublishersApart, PublishedRows, CreatedOnce
<1> QED
  BY <1>1, <1>2, IInvInit DEF EInv

\* and always.
LEMMA EInvAlways == Spec => []EInv
<1>1. IInv /\ [Next]_vars => IInv'
  BY TypedStep, KeyedStep, TrackedStep, BackedStep DEF IInv
<1>2. EInv /\ [Next]_vars => EInv'
  BY <1>1, ResultsStep, AnnouncedStep DEF EInv
<1> QED
  BY <1>2, EInvInit, PTL DEF Spec

\* However often a message is delivered, and whatever fails or crashes, no event is published
\* more often than the message mentions its resource (RawMessagePipeline!NoReplayedEvents).
THEOREM NothingReplayed == Spec => []NoReplayedEvents
<1>1. EInv => NoReplayedEvents
  BY DEF EInv, Announced
<1> QED
  BY <1>1, EInvAlways, PTL

\* ResourceCreated reaches the bus once at most for a resource (RawMessagePipeline!CreatedOnce),
\* however many messages that mention it race.
THEOREM ResourceCreatedOnce == Spec => []CreatedOnce
<1>1. EInv => CreatedOnce
  BY DEF EInv, Announced
<1> QED
  BY <1>1, EInvAlways, PTL

\* An event tells of committed rows (RawMessagePipeline!EventsAfterCommit).
THEOREM EventsTellOfCommits == Spec => []EventsAfterCommit
<1>1. EInv => EventsAfterCommit
  <2> SUFFICES ASSUME EInv, NEW e \in Events, published[e] > 0 PROVE SourceKey(e.res, e.msg) \in rows
    BY DEF EventsAfterCommit
  <2>0. e.msg \in Messages /\ published[e] \in Nat
    BY DEF EInv, IInv, Typed, TypeOK, Events
  <2>1. Attributed(e.msg)
    BY DEF EInv, Announced, PublishedRows
  <2>2. published[e] <= Cardinality(AllMentions(e.msg, e.res))
    BY DEF EInv, Announced, NoReplayedEvents, AllMentions
  <2>3. AllMentions(e.msg, e.res) # {}
    BY <2>0, <2>2, FS_EmptySet
  <2> QED
    BY <2>1, <2>3 DEF AllMentions, Attributed
<1> QED
  BY <1>1, EInvAlways, PTL

-----------------------------------------------------------------------------
(***************************************************************************)
(* Layer 6: source_count.                                                  *)
(***************************************************************************)

\* The sources of r that the session of t sees.
SourceCard(t, r) == Cardinality(SourcesOf(Visible(t), r))

\* What the open transaction of t will leave in source_count. A resource it has inserted
\* has a count, or is the new one of the current item and not yet loaded or flushed.
CountsOf(t) ==
  /\ pc[t] \notin DedupSteps => \A r \in Resources : txn[t].counts[r] = 0 /\ txn[t].attr[r] = 0
  /\ \A r \in Resources :
       /\ txn[t].counts[r] # 0 => ResourceKey(r) \in Visible(t) /\ txn[t].counts[r] <= SourceCard(t, r)
       /\ txn[t].attr[r] # 0 => ResourceKey(r) \in Visible(t)
       /\ ResourceKey(r) \in txn[t].ins /\ txn[t].counts[r] = 0 =>
            pc[t] \in AfterResource /\ job[t].isNew /\ r = Res(t) /\ txn[t].attr[r] = 0
  /\ pc[t] = "update" => job[t].count \in 1 .. SourceCard(t, Res(t))

\* The layer as a whole.
Counted == CountIsBacked /\ \A t \in Tasks : CountsOf(t)

\* The number of source rows of a resource is finite, and grows with the rows.
LEMMA SourcesGrow ==
  ASSUME NEW S, NEW T, S \subseteq T, NEW r
  PROVE  /\ Cardinality(SourcesOf(S, r)) \in Nat /\ Cardinality(SourcesOf(T, r)) \in Nat
         /\ Cardinality(SourcesOf(S, r)) <= Cardinality(SourcesOf(T, r))
<1>1. SourcesOf(S, r) \subseteq SourcesOf(T, r) /\ SourcesOf(T, r) \subseteq Messages
  BY DEF SourcesOf
<1>2. IsFiniteSet(SourcesOf(T, r))
  BY <1>1, PipelineAssumption, FS_Subset
<1>3. Cardinality(SourcesOf(S, r)) <= Cardinality(SourcesOf(T, r))
  BY <1>1, <1>2, FS_Subset
<1> QED
  BY <1>3, CountIsNat

\* A resource with a source has a count of at least one.
LEMMA SourceCounts ==
  ASSUME NEW S, NEW r, NEW m \in Messages, SourceKey(r, m) \in S
  PROVE  Cardinality(SourcesOf(S, r)) \in Nat \ {0}
<1>1. SourcesOf(S, r) # {} /\ SourcesOf(S, r) \subseteq Messages
  BY DEF SourcesOf
<1>2. IsFiniteSet(SourcesOf(S, r))
  BY <1>1, PipelineAssumption, FS_Subset
<1> QED
  BY <1>1, <1>2, CountIsNat, FS_EmptySet

\* Resources are told apart by their keys, and their keys from those of other tables.
LEMMA ResourceKeys ==
  /\ \A r, s : ResourceKey(r) = ResourceKey(s) => r = s
  /\ \A r, x : ResourceKey(r) # RawKey(x) /\ ResourceKey(r) # WorkKey(x)
  /\ \A r, x, y : ResourceKey(r) # LinkKey(x, y) /\ ResourceKey(r) # SourceKey(x, y)
BY DEF ResourceKey, RawKey, WorkKey, LinkKey, SourceKey

\* The counts of a transaction stay right while it and what it inserts are left alone.
LEMMA CountsFrame ==
  ASSUME NEW u \in Tasks, CountsOf(u), pc'[u] = pc[u], job'[u] = job[u], txn'[u] = txn[u],
         Visible(u) \subseteq Visible(u)', txn \in [Tasks -> Txn], job \in [Tasks -> Job]
  PROVE  CountsOf(u)'
<1>1. Res(u)' = Res(u)
  BY DEF Res, Item
<1>2. \A r : /\ SourceCard(u, r) \in Nat /\ SourceCard(u, r)' \in Nat
             /\ SourceCard(u, r) <= SourceCard(u, r)'
  BY SourcesGrow DEF SourceCard, SourcesOf
<1>3. \A r \in Resources : txn[u].counts[r] \in Nat
  BY DEF Txn
<1>4. job[u].count \in Nat
  BY DEF Job
<1> QED
  BY <1>1, <1>2, <1>3, <1>4 DEF CountsOf

\* Outside dedup_and_persist a transaction updates no resource.
LEMMA IdleCounts ==
  ASSUME NEW t \in Tasks, Keyed', pc'[t] \notin DedupSteps,
         \A r \in Resources : txn'[t].counts[r] = 0 /\ txn'[t].attr[r] = 0
  PROVE  CountsOf(t)'
<1>1. txn'[t].ins = {} \/ txn'[t].ins = {RawKey(Msg(t))'}
  BY DEF Keyed, OpenWork
<1>2. \A r \in Resources : ResourceKey(r) \notin txn'[t].ins
  BY <1>1, ResourceKeys DEF RawKey
<1>3. pc'[t] # "update"
  BY DEF DedupSteps
<1> QED
  BY <1>2, <1>3 DEF CountsOf

\* Inside dedup_and_persist: a step that leaves the counts alone.
LEMMA InsideCounts ==
  ASSUME NEW t \in Tasks, CountsOf(t), pc[t] \in DedupSteps, pc'[t] \in DedupSteps,
         txn \in [Tasks -> Txn], txn'[t].counts = txn[t].counts, txn'[t].attr = txn[t].attr,
         Visible(t) \subseteq Visible(t)',
         \A r \in Resources : ResourceKey(r) \in txn'[t].ins => ResourceKey(r) \in txn[t].ins,
         pc[t] \in AfterResource =>
           pc'[t] \in AfterResource /\ job'[t].isNew = job[t].isNew /\ Res(t)' = Res(t),
         pc'[t] = "update" => (job[t].count \in 1 .. SourceCard(t, Res(t)))'
  PROVE  CountsOf(t)'
<1>1. \A r : /\ SourceCard(t, r) \in Nat /\ SourceCard(t, r)' \in Nat
             /\ SourceCard(t, r) <= SourceCard(t, r)'
  BY SourcesGrow DEF SourceCard, SourcesOf
<1>2. \A r \in Resources : txn[t].counts[r] \in Nat
  BY DEF Txn
<1>3. ASSUME NEW r \in Resources
      PROVE  /\ txn'[t].counts[r] # 0 => ResourceKey(r) \in Visible(t)' /\ txn'[t].counts[r] <= SourceCard(t, r)'
             /\ txn'[t].attr[r] # 0 => ResourceKey(r) \in Visible(t)'
             /\ ResourceKey(r) \in txn'[t].ins /\ txn'[t].counts[r] = 0 =>
                  pc'[t] \in AfterResource /\ job'[t].isNew /\ r = Res(t)' /\ txn'[t].attr[r] = 0
  BY <1>1, <1>2 DEF CountsOf
<1> QED
  BY <1>3 DEF CountsOf

\* The flush of source_count: the object of a new resource has no count yet, so that the
\* UPDATE names the column.
LEMMA UpdateCounts ==
  ASSUME Typed, Keyed, NEW t \in Tasks, ProgressOf(t), CountsOf(t), UpdateCount(t)
  PROVE  CountsOf(t)'
<1>0. /\ pc \in [Tasks -> Steps] /\ txn \in [Tasks -> Txn] /\ job[t].count \in Nat
      /\ \A r \in Resources : txn[t].counts[r] \in Nat /\ txn[t].attr[r] \in Nat
  <2>1. pc \in [Tasks -> Steps] /\ txn \in [Tasks -> Txn] /\ job[t] \in Job /\ txn[t] \in Txn
    BY DEF Typed, TypeOK, DbTypeOK
  <2> QED
    BY <2>1 DEF Txn, Job
<1> DEFINE n == job[t].count
<1>1. /\ pc[t] = "update" /\ pc[t] \in ItemSteps /\ pc[t] \in AfterResource
      /\ pc'[t] \in DedupSteps \ AfterResource /\ pc'[t] # "update"
  BY <1>0 DEF UpdateCount, At, Goto, ItemSteps, DedupSteps, AfterResource, LinkSteps
<1>2. Res(t) \in Resources /\ ResourceKey(Res(t)) \in Visible(t) /\ n \in 1 .. SourceCard(t, Res(t))
  BY <1>1, CurrentItem DEF ProgressOf, CountsOf
<1>3. UpdateResource(t, Res(t), n)
  BY DEF UpdateCount
<1>4. /\ rows' = rows /\ txn'[t].ins = txn[t].ins
      /\ txn'[t].counts = IF n = txn[t].attr[Res(t)] THEN txn[t].counts ELSE [txn[t].counts EXCEPT ![Res(t)] = n]
      /\ txn'[t].attr = [txn[t].attr EXCEPT ![Res(t)] = n]
  <2>1. txn[t] \in Txn
    BY <1>0
  <2> QED
    BY <1>0, <1>3, <2>1 DEF UpdateResource, Txn
<1>5. txn[t].counts \in [Resources -> Nat] /\ txn[t].attr \in [Resources -> Nat]
  BY <1>0 DEF Txn
<1>6. Visible(t)' = Visible(t) /\ \A r : SourceCard(t, r)' = SourceCard(t, r)
  BY <1>4 DEF Visible, SourceCard, SourcesOf
<1>7. \A r : SourceCard(t, r) \in Nat
  BY CountIsNat DEF SourceCard
<1>8. ASSUME NEW r \in Resources \ {Res(t)}
      PROVE  /\ txn'[t].counts[r] = txn[t].counts[r] /\ txn'[t].attr[r] = txn[t].attr[r]
             /\ ResourceKey(r) \in txn[t].ins => txn[t].counts[r] # 0
  BY <1>4, <1>5, <1>8 DEF CountsOf
<1>9. /\ txn'[t].attr[Res(t)] = n
      /\ txn'[t].counts[Res(t)] \in {n, txn[t].counts[Res(t)]}
      /\ ResourceKey(Res(t)) \in txn[t].ins => txn'[t].counts[Res(t)] # 0
  <2>1. txn'[t].attr[Res(t)] = n
    BY <1>2, <1>4, <1>5
  <2>2. txn'[t].counts[Res(t)] = IF n = txn[t].attr[Res(t)] THEN txn[t].counts[Res(t)] ELSE n
    BY <1>2, <1>4, <1>5
  <2>3. ResourceKey(Res(t)) \in txn[t].ins /\ txn[t].counts[Res(t)] = 0 => txn[t].attr[Res(t)] = 0
    BY <1>2 DEF CountsOf
  <2> QED
    BY <1>2, <2>1, <2>2, <2>3
<1>10. ASSUME NEW r \in Resources
       PROVE  /\ txn'[t].counts[r] # 0 => ResourceKey(r) \in Visible(t) /\ txn'[t].counts[r] <= SourceCard(t, r)
              /\ txn'[t].attr[r] # 0 => ResourceKey(r) \in Visible(t)
              /\ ResourceKey(r) \in txn'[t].ins => txn'[t].counts[r] # 0
  <2>1. CASE r = Res(t)
    <3>1. txn[t].counts[r] # 0 => txn[t].counts[r] <= SourceCard(t, r)
      BY DEF CountsOf
    <3>2. n <= SourceCard(t, r)
      BY <1>2, <1>7, <2>1
    <3> QED
      BY <1>2, <1>4, <1>9, <2>1, <3>1, <3>2
  <2>2. CASE r # Res(t)
    BY <1>4, <1>8, <2>2 DEF CountsOf
  <2> QED
    BY <2>1, <2>2
<1> QED
  BY <1>1, <1>6, <1>10 DEF CountsOf

\* The INSERT of a resource: no earlier item of the message has loaded one with its key.
LEMMA InsertCounts ==
  ASSUME Typed, Keyed, NEW t \in Tasks, ResultsOf(t), CountsOf(t), ResourceInsert(t)
  PROVE  CountsOf(t)'
<1>0. pc \in [Tasks -> Steps] /\ txn \in [Tasks -> Txn] /\ txn[t] \in Txn
  BY DEF Typed, TypeOK, DbTypeOK
<1>1. /\ pc[t] \in NewSteps /\ pc[t] \in DedupSteps \ AfterResource
      /\ pc'[t] \in DedupSteps /\ pc'[t] \in AfterResource /\ pc'[t] # "update" /\ UNCHANGED job
  <2>1. LinkStep(t, 1) \in {"link_select", "source_select"}
    BY DEF LinkStep
  <2> QED
    BY <1>0, <2>1 DEF ResourceInsert, At, Goto, NewSteps, DedupSteps, AfterResource, LinkSteps
<1>2. job[t].isNew /\ ResourceKey(Res(t)) \notin txn[t].ins
  BY <1>1 DEF ResultsOf, CurrentResult
<1>3. /\ rows' = rows /\ ResourceKey(Res(t)) \notin rows
      /\ txn'[t].ins = txn[t].ins \cup {ResourceKey(Res(t))}
      /\ txn'[t].counts = txn[t].counts /\ txn'[t].attr = txn[t].attr
  BY <1>0 DEF ResourceInsert, Insert, Rejects, Txn
<1>4. Visible(t) \subseteq Visible(t)' /\ ResourceKey(Res(t)) \notin Visible(t) /\ Res(t)' = Res(t)
  BY <1>1, <1>2, <1>3 DEF Visible, Res, Item
<1>5. \A r : /\ SourceCard(t, r) \in Nat /\ SourceCard(t, r)' \in Nat
             /\ SourceCard(t, r) <= SourceCard(t, r)'
  BY <1>4, SourcesGrow DEF SourceCard, SourcesOf
<1>6. \A r \in Resources : txn[t].counts[r] \in Nat
  BY <1>0 DEF Txn
<1>7. ASSUME NEW r \in Resources
      PROVE  /\ txn'[t].counts[r] # 0 => ResourceKey(r) \in Visible(t)' /\ txn'[t].counts[r] <= SourceCard(t, r)'
             /\ txn'[t].attr[r] # 0 => ResourceKey(r) \in Visible(t)'
             /\ ResourceKey(r) \in txn'[t].ins /\ txn'[t].counts[r] = 0 =>
                  r = Res(t) /\ txn'[t].attr[r] = 0
  <2>1. r # Res(t) => ResourceKey(r) # ResourceKey(Res(t))
    BY ResourceKeys
  <2> QED
    BY <1>1, <1>3, <1>4, <1>5, <1>6, <2>1 DEF CountsOf
<1> QED
  BY <1>1, <1>2, <1>4, <1>7 DEF CountsOf

\* The SELECT of a resource: what it loads is visible.
LEMMA SelectCounts ==
  ASSUME Typed, Keyed, NEW t \in Tasks, CountsOf(t), ResourceSelect(t)
  PROVE  CountsOf(t)'
<1>0. pc \in [Tasks -> Steps] /\ txn \in [Tasks -> Txn] /\ txn[t] \in Txn
  BY DEF Typed, TypeOK, DbTypeOK
<1>1. /\ pc[t] \in ItemSteps /\ pc[t] \in DedupSteps \ AfterResource
      /\ pc'[t] \in DedupSteps /\ pc'[t] # "update"
  <2>1. LinkStep(t, 1) \in {"link_select", "source_select"}
    BY DEF LinkStep
  <2> QED
    BY <1>0, <2>1 DEF ResourceSelect, At, Goto, ItemSteps, DedupSteps, AfterResource, LinkSteps
<1>2. Res(t) \in Resources
  BY <1>1, CurrentItem
<1>3. /\ rows' = rows /\ txn'[t].ins = txn[t].ins /\ txn'[t].counts = txn[t].counts
      /\ \A r \in Resources : txn'[t].attr[r] = txn[t].attr[r] \/ (r = Res(t) /\ ResourceKey(r) \in Visible(t))
  <2>1. CASE UNCHANGED dbVars
    BY <2>1 DEF dbVars
  <2>2. CASE LoadResource(t, Res(t)) /\ ResourceKey(Res(t)) \in Visible(t)
    BY <1>0, <1>2, <2>2 DEF LoadResource, Txn
  <2> QED
    BY <2>1, <2>2 DEF ResourceSelect
<1>4. Visible(t)' = Visible(t) /\ \A r : SourceCard(t, r)' = SourceCard(t, r)
  BY <1>3 DEF Visible, SourceCard, SourcesOf
<1> QED
  BY <1>1, <1>3, <1>4 DEF CountsOf

\* The count of a task after a step of its own.
LEMMA OwnCountsStep ==
  ASSUME IInv, NEW t \in Tasks, ResultsOf(t), CountsOf(t), Acts(t), Keyed'
  PROVE  CountsOf(t)'
<1>0. /\ Typed /\ Keyed /\ ProgressOf(t) /\ pc \in [Tasks -> Steps] /\ txn \in [Tasks -> Txn]
      /\ job \in [Tasks -> Job] /\ job[t] \in Job /\ Msg(t) \in Messages
  BY DEF IInv, Typed, TypeOK, DbTypeOK, DedupProgress, Msg, Job
<1>s. AfterResource \subseteq DedupSteps /\ "idle" \notin DedupSteps
  BY DEF AfterResource, DedupSteps, LinkSteps
<1>1. CASE \/ IngestCommit(t) \/ Parse(t) \/ DedupCommit(t) \/ Repend(t)
           \/ IngestConflict(t) \/ DedupConflict(t) \/ DeadlockAbort(t) \/ DatabaseError(t)
  <2>1. txn'[t] = NoTxn
    BY <1>0, <1>1 DEF IngestCommit, Parse, DedupCommit, Repend, IngestConflict, DedupConflict,
       DeadlockAbort, DatabaseError, DedupFails, Commit, Rollback
  <2>2. pc'[t] \notin DedupSteps
    BY <1>0, <1>1 DEF IngestCommit, Parse, DedupCommit, Repend, IngestConflict, DedupConflict,
       DeadlockAbort, DatabaseError, DedupFails, Goto, Finish, DedupSteps
  <2> QED
    BY <2>1, <2>2, IdleCounts DEF NoTxn
<1>2. CASE \/ IngestSelect(t) \/ IngestReread(t) \/ IngestInsert(t) \/ Publish(t) \/ PublishFails(t)
           \/ Reload(t) \/ Report(t) \/ DedupAnswered(t)
  <2>1. txn'[t].counts = txn[t].counts /\ txn'[t].attr = txn[t].attr
    BY <1>0, <1>2 DEF IngestSelect, IngestReread, IngestInsert, Publish, PublishFails, Reload, Report,
       DedupAnswered, dbVars, Insert, Txn
  <2>2. pc[t] \notin DedupSteps /\ pc'[t] \notin DedupSteps
    BY <1>0, <1>2 DEF IngestSelect, IngestReread, IngestInsert, Publish, PublishFails, NextDue, Reload,
       Report, DedupAnswered, Goto, Finish, At, DedupSteps
  <2> QED
    BY <2>1, <2>2, IdleCounts DEF CountsOf
<1>3. CASE Load(t) \/ ParseRefresh(t)
  <2>1. txn' = txn /\ pc[t] \notin DedupSteps \cup {"ingest_commit"} /\ pc'[t] # "update"
    BY <1>0, <1>3 DEF Load, ParseRefresh, dbVars, At, Goto, Finish, DedupSteps
  <2>2. txn[t].ins = {} /\ \A r \in Resources : txn[t].counts[r] = 0 /\ txn[t].attr[r] = 0
    BY <1>0, <2>1 DEF Keyed, OpenWork, CountsOf
  <2> QED
    BY <2>1, <2>2 DEF CountsOf
<1>4. CASE WorkSelect(t) \/ WorkInsert(t)
  <2>1. /\ pc[t] \in DedupSteps \ AfterResource /\ pc'[t] \in DedupSteps /\ pc'[t] # "update"
    BY <1>0, <1>4 DEF WorkSelect, WorkInsert, At, Goto, DedupSteps, AfterResource, LinkSteps
  <2>2. /\ rows' = rows /\ txn'[t].counts = txn[t].counts /\ txn'[t].attr = txn[t].attr
        /\ txn'[t].ins = txn[t].ins \/ txn'[t].ins = txn[t].ins \cup {WorkKey(WorkOf[Res(t)])}
    BY <1>0, <1>4 DEF WorkSelect, WorkInsert, dbVars, Insert, Txn
  <2>3. Visible(t) \subseteq Visible(t)'
    BY <2>2 DEF Visible
  <2> QED
    BY <1>0, <2>1, <2>2, <2>3, InsideCounts, ResourceKeys
<1>5. CASE LinkSelect(t) \/ SourceSelect(t) \/ CountSources(t)
  <2>1. /\ pc[t] \in AfterResource /\ pc'[t] \in AfterResource /\ txn' = txn /\ rows' = rows
        /\ job'[t].isNew = job[t].isNew /\ job'[t].data = job[t].data /\ job'[t].item = job[t].item
        /\ job'[t].msg = job[t].msg
        /\ pc'[t] = "update" => CountSources(t)
    <3>1. \A j : LinkStep(t, j) \in {"link_select", "source_select"}
      BY DEF LinkStep
    <3>2. CASE LinkSelect(t)
      BY <1>0, <3>1, <3>2 DEF LinkSelect, At, Goto, AfterResource, LinkSteps, Job, dbVars
    <3>3. CASE SourceSelect(t)
      BY <1>0, <3>3 DEF SourceSelect, At, Goto, AfterResource, LinkSteps, dbVars
    <3>4. CASE CountSources(t)
      BY <1>0, <3>4 DEF CountSources, At, Goto, AfterResource, LinkSteps, Job, dbVars
    <3> QED
      BY <1>5, <3>2, <3>3, <3>4
  <2>2. Visible(t)' = Visible(t) /\ Res(t)' = Res(t) /\ Msg(t)' = Msg(t)
    BY <2>1 DEF Visible, Res, Item, Msg
  <2>3. pc'[t] = "update" => (job[t].count \in 1 .. SourceCard(t, Res(t)))'
    <3> SUFFICES ASSUME CountSources(t) PROVE job'[t].count \in 1 .. SourceCard(t, Res(t))'
      BY <2>1
    <3>1. pc[t] \in AfterSource /\ job'[t].count = SourceCard(t, Res(t))
      BY <1>0 DEF CountSources, At, AfterSource, SourceCard, Job
    <3>2. SourceKey(Res(t), Msg(t)) \in Visible(t)
      BY <1>0, <3>1 DEF ProgressOf
    <3>3. SourceCard(t, Res(t)) \in Nat \ {0}
      BY <1>0, <3>2, SourceCounts DEF SourceCard
    <3>4. SourceCard(t, Res(t))' = SourceCard(t, Res(t))
      BY <2>2 DEF SourceCard, SourcesOf
    <3> QED
      BY <3>1, <3>3, <3>4
  <2>4. pc[t] \in DedupSteps /\ pc'[t] \in DedupSteps
    BY <1>s, <2>1
  <2> QED
    BY <1>0, <2>1, <2>2, <2>3, <2>4, InsideCounts
<1>6. CASE LinkInsert(t) \/ SourceInsert(t)
  <2>1. /\ pc[t] \in AfterResource /\ pc'[t] \in AfterResource /\ pc'[t] # "update"
        /\ job'[t].isNew = job[t].isNew /\ job'[t].data = job[t].data /\ job'[t].item = job[t].item
    <3>1. \A j : LinkStep(t, j) \in {"link_select", "source_select"}
      BY DEF LinkStep
    <3> QED
      BY <1>0, <1>6, <3>1 DEF LinkInsert, SourceInsert, At, Goto, AfterResource, LinkSteps, Job
  <2>2. /\ rows' = rows /\ txn'[t].counts = txn[t].counts /\ txn'[t].attr = txn[t].attr
        /\ \/ txn'[t].ins = txn[t].ins \cup {LinkKey(Res(t), Link(t))}
           \/ txn'[t].ins = txn[t].ins \cup {SourceKey(Res(t), Msg(t))}
    BY <1>0, <1>6 DEF LinkInsert, SourceInsert, Insert, Txn
  <2>3. Visible(t) \subseteq Visible(t)' /\ Res(t)' = Res(t)
    BY <2>1, <2>2 DEF Visible, Res, Item
  <2>4. pc[t] \in DedupSteps /\ pc'[t] \in DedupSteps
    BY <1>s, <2>1
  <2>5. \A r \in Resources : ResourceKey(r) \in txn'[t].ins => ResourceKey(r) \in txn[t].ins
    BY <2>2, ResourceKeys
  <2> QED
    BY <1>0, <2>1, <2>2, <2>3, <2>4, <2>5, InsideCounts
<1>7. CASE ResourceSelect(t) \/ ResourceInsert(t) \/ UpdateCount(t)
  BY <1>0, <1>7, SelectCounts, InsertCounts, UpdateCounts
<1> QED
  BY <1>1, <1>2, <1>3, <1>4, <1>5, <1>6, <1>7 DEF Acts, Progress

\* The commit of a transaction leaves a count for each resource it has inserted, and only
\* counts of sources that are rows then.
LEMMA CommitCounts ==
  ASSUME Typed, CountIsBacked, NEW t \in Tasks, CountsOf(t), pc[t] \notin AfterResource,
         NEW m, NEW row, Commit(t, m, row)
  PROVE  CountIsBacked'
<1>0. /\ sourceCount \in [Resources -> Nat] /\ \A r \in Resources : txn[t].counts[r] \in Nat
  BY DEF Typed, TypeOK, DbTypeOK, Txn
<1>1. /\ rows' = Visible(t)
      /\ \A r \in Resources :
           sourceCount'[r] = IF txn[t].counts[r] = 0 THEN sourceCount[r] ELSE txn[t].counts[r]
  BY DEF Commit, Visible
<1>2. \A r : /\ Cardinality(SourcesOf(rows, r)) \in Nat /\ Cardinality(SourcesOf(rows', r)) \in Nat
             /\ Cardinality(SourcesOf(rows, r)) <= Cardinality(SourcesOf(rows', r))
  BY <1>1, SourcesGrow DEF Visible
<1> SUFFICES ASSUME NEW r \in Resources, ResourceKey(r) \in rows'
             PROVE  sourceCount'[r] \in 1 .. Cardinality(SourcesOf(rows', r))
  BY DEF CountIsBacked, SourcesOf
<1>3. CASE txn[t].counts[r] = 0
  <2>1. ResourceKey(r) \in rows
    BY <1>1, <1>3 DEF CountsOf, Visible
  <2>2. sourceCount[r] \in 1 .. Cardinality(SourcesOf(rows, r))
    BY <2>1 DEF CountIsBacked
  <2> QED
    BY <1>1, <1>2, <1>3, <2>2
<1>4. CASE txn[t].counts[r] # 0
  <2>1. txn[t].counts[r] <= Cardinality(SourcesOf(rows', r))
    BY <1>1, <1>4 DEF CountsOf, SourceCard
  <2> QED
    BY <1>0, <1>1, <1>2, <1>4, <2>1
<1> QED
  BY <1>3, <1>4

\* Layer 6 is preserved by every step.
LEMMA CountedStep == IInv /\ Results /\ Counted /\ [Next]_vars => Counted'
<1> SUFFICES ASSUME IInv, Results, Counted, [Next]_vars PROVE Counted'
  OBVIOUS
<1>0. /\ Typed /\ Keyed /\ Keyed' /\ pc \in [Tasks -> Steps] /\ txn \in [Tasks -> Txn]
      /\ job \in [Tasks -> Job]
  BY KeyedStep DEF IInv, Typed, TypeOK, DbTypeOK
<1>b. UNCHANGED <<rows, sourceCount>> => CountIsBacked'
  BY DEF Counted, CountIsBacked, SourcesOf
<1>1. ASSUME NEW t \in Tasks, Acts(t) PROVE Counted'
  <2>1. CountsOf(t)'
    BY <1>0, <1>1, OwnCountsStep DEF Results, Counted
  <2>2. ASSUME NEW u \in Tasks \ {t} PROVE CountsOf(u)'
    <3>1. Visible(u) \subseteq Visible(u)'
      BY <1>0, <1>1, <2>2, VisibleGrows
    <3> QED
      BY <1>0, <1>1, <2>2, <3>1, OthersUnmoved, CountsFrame DEF Counted
  <2>3. CASE IngestCommit(t) \/ Parse(t) \/ DedupCommit(t) \/ Repend(t)
    <3>1. pc[t] \notin AfterResource /\ \E row : Commit(t, Msg(t), row)
      BY <2>3 DEF IngestCommit, Parse, DedupCommit, Repend, At, AfterResource, LinkSteps
    <3>2. CountIsBacked'
      BY <1>0, <3>1, CommitCounts DEF Counted
    <3> QED
      BY <2>1, <2>2, <3>2 DEF Counted
  <2>4. CASE ~(IngestCommit(t) \/ Parse(t) \/ DedupCommit(t) \/ Repend(t))
    <3>1. UNCHANGED <<rows, sourceCount>>
      BY <1>1, <2>4 DEF Acts, Progress, IngestSelect, IngestInsert, IngestConflict, IngestReread, Load,
         ParseRefresh, ResourceSelect, WorkSelect, WorkInsert, ResourceInsert, LinkSelect, LinkInsert,
         SourceSelect, SourceInsert, CountSources, UpdateCount, DedupAnswered, DedupConflict, DeadlockAbort, Publish,
         Reload, Report, PublishFails, DatabaseError, DedupFails, Insert, LoadResource, UpdateResource,
         Rollback, dbVars
    <3> QED
      BY <1>b, <2>1, <2>2, <3>1 DEF Counted
  <2> QED
    BY <2>3, <2>4
<1>2. ASSUME NEW t \in Tasks, NEW m \in Messages, Deliver(t, m) PROVE Counted'
  <2>1. /\ UNCHANGED <<rows, sourceCount, txn>> /\ pc[t] = "idle" /\ pc'[t] = "ingest_select"
        /\ \A u \in Tasks \ {t} : pc'[u] = pc[u] /\ job'[u] = job[u]
    BY <1>0, <1>2 DEF Deliver, At, Goto, dbVars
  <2>2. \A u \in Tasks \ {t} : CountsOf(u)'
    BY <1>0, <2>1, CountsFrame DEF Counted, Visible
  <2>3. CountsOf(t)'
    BY <1>0, <2>1, IdleCounts DEF Counted, CountsOf, DedupSteps
  <2> QED
    BY <1>b, <2>1, <2>2, <2>3 DEF Counted
<1>3. CASE Crash
  <2>1. /\ UNCHANGED <<rows, sourceCount>>
        /\ \A u \in Tasks : pc'[u] = "idle" /\ txn'[u] = NoTxn
    BY <1>3 DEF Crash
  <2>2. \A u \in Tasks : CountsOf(u)'
    BY <1>0, <2>1, IdleCounts DEF NoTxn, DedupSteps
  <2> QED
    BY <1>b, <2>1, <2>2 DEF Counted
<1>4. CASE Quiescent \/ UNCHANGED vars
  <2>1. UNCHANGED <<rows, sourceCount, txn, pc, job>>
    BY <1>4 DEF Quiescent, vars, dbVars
  <2>2. \A u \in Tasks : CountsOf(u)'
    BY <1>0, <2>1, CountsFrame DEF Counted, Visible
  <2> QED
    BY <1>b, <2>1, <2>2 DEF Counted
<1> QED
  BY <1>1, <1>2, <1>3, <1>4 DEF Next, Acts

\* The stored source_count of a resource is never zero and never more than the sources it has
\* (RawMessagePipeline!CountIsBacked), for any number of overlapping transactions.
THEOREM CountsAreBacked == Spec => []CountIsBacked
<1>1. Init => Counted
  BY DEF Init, DbInit, NoTxn, Counted, CountIsBacked, CountsOf
<1>2. EInv /\ Counted /\ [Next]_vars => Counted'
  BY CountedStep DEF EInv
<1>3. Counted => CountIsBacked
  BY DEF Counted
<1> QED
  BY <1>1, <1>2, <1>3, EInvAlways, PTL DEF Spec

-----------------------------------------------------------------------------
(***************************************************************************)
(* What a transaction of dedup_and_persist inserts: nothing but the rows   *)
(* of its message's items, and a created event for each resource.          *)
(***************************************************************************)
\* An item of m names resource r.
Mentioned(m, r) == \E i \in DOMAIN Content[m] : Content[m][i].res = r

\* An earlier item of t's message, or the current one, has created resource r.
HasCreated(t, r) ==
  \/ \E k \in DOMAIN job[t].due : IsCreated(job[t].due[k]) /\ job[t].due[k].res = r
  \/ pc[t] \in AfterResource /\ job[t].isNew /\ r = Res(t)

\* What Inserts says of one task.
InsertsOf(t) ==
  pc[t] \in DedupSteps =>
    /\ \A m \in Messages : RawKey(m) \notin txn[t].ins
    /\ \A r \in Resources : ResourceKey(r) \in txn[t].ins => HasCreated(t, r)
    /\ \A r \in Resources, m \in Messages : SourceKey(r, m) \in txn[t].ins => Mentioned(Msg(t), r)

Inserts == \A t \in Tasks : InsertsOf(t)

\* The rows of the tables are told apart by their keys.
LEMMA TablesApart ==
  /\ \A m, x : RawKey(m) # WorkKey(x) /\ RawKey(m) # ResourceKey(x)
  /\ \A m, x, y : RawKey(m) # LinkKey(x, y) /\ RawKey(m) # SourceKey(x, y)
  /\ \A r, m, x : SourceKey(r, m) # WorkKey(x) /\ SourceKey(r, m) # ResourceKey(x)
  /\ \A r, m, x, y : SourceKey(r, m) # LinkKey(x, y)
  /\ \A m, x : RawKey(m) = RawKey(x) => m = x
  /\ \A r, m, x, y : SourceKey(r, m) = SourceKey(x, y) => r = x /\ m = y
BY DEF RawKey, WorkKey, ResourceKey, LinkKey, SourceKey

\* The inserts of a task after a step of its own.
LEMMA OwnInsertsStep ==
  ASSUME Typed, Keyed, NEW t \in Tasks, ResultsOf(t), InsertsOf(t), Acts(t)
  PROVE  InsertsOf(t)'
<1>0. /\ pc \in [Tasks -> Steps] /\ txn \in [Tasks -> Txn] /\ job \in [Tasks -> Job] /\ job[t] \in Job
      /\ job[t].due \in Seq(Events) /\ Msg(t) \in Messages
  BY DEF Typed, TypeOK, DbTypeOK, Msg, Job
<1>s. /\ AfterResource \subseteq ItemSteps /\ NewSteps \subseteq ItemSteps \ AfterResource
      /\ ItemSteps \subseteq DedupSteps
  BY DEF AfterResource, NewSteps, ItemSteps, DedupSteps, LinkSteps
<1>1. ASSUME pc'[t] \notin DedupSteps PROVE InsertsOf(t)'
  BY <1>1 DEF InsertsOf
\* Steps inside dedup_and_persist: what they insert, and what they make of the events.
<1>2. ASSUME pc[t] \in DedupSteps, job'[t].msg = job[t].msg,
             \A m \in Messages : RawKey(m) \in txn'[t].ins => RawKey(m) \in txn[t].ins,
             \A r \in Resources : ResourceKey(r) \in txn'[t].ins =>
               (ResourceKey(r) \in txn[t].ins /\ (HasCreated(t, r) => HasCreated(t, r)')) \/ HasCreated(t, r)',
             \A r \in Resources, m \in Messages : SourceKey(r, m) \in txn'[t].ins =>
               SourceKey(r, m) \in txn[t].ins \/ Mentioned(Msg(t), r)
      PROVE  InsertsOf(t)'
  <2>1. Msg(t)' = Msg(t)
    BY <1>2 DEF Msg
  <2> QED
    BY <1>2, <2>1 DEF InsertsOf, Mentioned
<1>3. CASE Load(t) \/ ParseRefresh(t)
  <2>1. txn' = txn /\ pc[t] \notin DedupSteps \cup {"ingest_commit"}
    BY <1>0, <1>3 DEF Load, ParseRefresh, dbVars, At, DedupSteps
  <2>2. txn'[t].ins = {}
    BY <2>1 DEF Keyed, OpenWork
  <2> QED
    BY <2>2 DEF InsertsOf
<1>4. CASE WorkSelect(t) \/ WorkInsert(t)
  <2>1. pc[t] \in DedupSteps \ AfterResource /\ UNCHANGED job
    BY <1>4 DEF WorkSelect, WorkInsert, At, DedupSteps, AfterResource, LinkSteps
  <2>2. txn'[t].ins = txn[t].ins \/ txn'[t].ins = txn[t].ins \cup {WorkKey(WorkOf[Res(t)])}
    BY <1>4, InsertStep, AddedKey DEF WorkSelect, dbVars
  <2>3. \A r : HasCreated(t, r) => HasCreated(t, r)'
    BY <2>1 DEF HasCreated
  <2> QED
    BY <1>2, <2>1, <2>2, <2>3, TablesApart, ResourceKeys
<1>5. CASE ResourceSelect(t)
  <2>1. /\ pc[t] \in ItemSteps /\ pc[t] \in DedupSteps \ AfterResource
        /\ job'[t].due = job[t].due /\ job'[t].msg = job[t].msg
    BY <1>0, <1>5 DEF ResourceSelect, At, ItemSteps, DedupSteps, AfterResource, LinkSteps, Job
  <2>2. txn'[t].ins = txn[t].ins
    <3>1. Res(t) \in Resources
      BY <2>1, CurrentItem
    <3> QED
      BY <1>0, <1>5, <3>1, LoadKeeps DEF ResourceSelect, dbVars, Keeps
  <2>3. \A r : HasCreated(t, r) => HasCreated(t, r)'
    BY <2>1 DEF HasCreated
  <2> QED
    BY <1>2, <2>1, <2>2, <2>3
<1>6. CASE ResourceInsert(t)
  <2>1. pc[t] \in NewSteps /\ pc'[t] \in AfterResource /\ UNCHANGED job
    BY <1>0, <1>6, LinkStepShape DEF ResourceInsert, At, Goto, NewSteps
  <2>2. txn'[t].ins = txn[t].ins \cup {ResourceKey(Res(t))} /\ job[t].isNew /\ Res(t)' = Res(t)
    BY <1>6, <2>1, InsertStep, AddedKey DEF ResultsOf, CurrentResult, Res, Item
  <2>3. /\ \A r : HasCreated(t, r) => HasCreated(t, r)'
        /\ HasCreated(t, Res(t))'
    BY <1>s, <2>1, <2>2 DEF HasCreated
  <2>4. \A r : r # Res(t) => (ResourceKey(r) \in txn'[t].ins => ResourceKey(r) \in txn[t].ins)
    BY <2>2, ResourceKeys
  <2>5. ASSUME NEW r \in Resources, ResourceKey(r) \in txn'[t].ins
        PROVE  (ResourceKey(r) \in txn[t].ins /\ (HasCreated(t, r) => HasCreated(t, r)')) \/ HasCreated(t, r)'
    <3>1. CASE r = Res(t)
      BY <2>2, <2>3, <3>1 DEF HasCreated
    <3>2. CASE r # Res(t)
      BY <2>3, <2>4, <2>5, <3>2
    <3> QED
      BY <3>1, <3>2
  <2> QED
    BY <1>2, <1>s, <2>1, <2>2, <2>5, TablesApart
<1>7. CASE \/ LinkSelect(t) \/ SourceSelect(t) \/ CountSources(t) \/ LinkInsert(t) \/ SourceInsert(t)
  <2>1. /\ pc[t] \in AfterResource /\ pc'[t] \in AfterResource
        /\ job'[t].due = job[t].due /\ job'[t].item = job[t].item /\ job'[t].msg = job[t].msg
        /\ job'[t].data = job[t].data /\ job'[t].isNew = job[t].isNew
    <3>1. CASE LinkSelect(t) \/ LinkInsert(t)
      BY <1>0, <3>1, LinkStepShape DEF LinkSelect, LinkInsert, At, Goto, AfterResource, LinkSteps, Job
    <3>2. CASE SourceSelect(t) \/ SourceInsert(t) \/ CountSources(t)
      BY <1>0, <3>2 DEF SourceSelect, SourceInsert, CountSources, At, Goto, AfterResource, LinkSteps, Job
    <3> QED
      BY <1>7, <3>1, <3>2
  <2>2. \/ txn'[t].ins = txn[t].ins
        \/ txn'[t].ins = txn[t].ins \cup {LinkKey(Res(t), Link(t))}
        \/ txn'[t].ins = txn[t].ins \cup {SourceKey(Res(t), Msg(t))}
    BY <1>7, InsertStep, AddedKey DEF LinkSelect, SourceSelect, CountSources, dbVars
  <2>3. \A r : HasCreated(t, r) => HasCreated(t, r)'
    BY <2>1 DEF HasCreated, Res, Item
  <2>4. Mentioned(Msg(t), Res(t))
    BY <1>s, <2>1, CurrentContent DEF Mentioned, Res
  <2>5. /\ \A r : ResourceKey(r) \in txn'[t].ins => ResourceKey(r) \in txn[t].ins
        /\ \A m : RawKey(m) \in txn'[t].ins => RawKey(m) \in txn[t].ins
        /\ \A r, m : SourceKey(r, m) \in txn'[t].ins => SourceKey(r, m) \in txn[t].ins \/ r = Res(t)
    BY <2>2, TablesApart, ResourceKeys
  <2>6. \A r, m : SourceKey(r, m) \in txn'[t].ins => SourceKey(r, m) \in txn[t].ins \/ Mentioned(Msg(t), r)
    BY <2>4, <2>5 DEF Mentioned
  <2> QED
    BY <1>2, <1>s, <2>1, <2>3, <2>5, <2>6
<1>8. CASE UpdateCount(t)
  <2>1. /\ pc[t] = "update" /\ pc[t] \in ItemSteps
        /\ job'[t].due = job[t].due \o EventsOf(t) /\ job'[t].msg = job[t].msg
    BY <1>0, <1>8 DEF UpdateCount, At, ItemSteps, DedupSteps, Job
  <2>2. txn'[t].ins = txn[t].ins
    <3>1. Res(t) \in Resources /\ job[t].count \in Nat
      BY <1>0, <2>1, CurrentItem DEF Job
    <3> QED
      BY <1>8, <3>1, UpdateKeeps DEF UpdateCount, Keeps
  <2>3. ASSUME NEW r, NEW k \in DOMAIN job[t].due, IsCreated(job[t].due[k]), job[t].due[k].res = r
        PROVE  HasCreated(t, r)'
    <3>1. EventsOf(t) \in Seq(Events)
      BY <2>1, EventsOfTyped
    <3>2. k \in DOMAIN job'[t].due /\ job'[t].due[k] = job[t].due[k]
      BY <1>0, <2>1, <3>1
    <3> QED
      BY <2>3, <3>2 DEF HasCreated
  <2>5. ASSUME NEW r, HasCreated(t, r) PROVE HasCreated(t, r)'
    <3>1. CASE \E k \in DOMAIN job[t].due : IsCreated(job[t].due[k]) /\ job[t].due[k].res = r
      BY <2>3, <3>1
    <3>2. CASE job[t].isNew /\ r = Res(t)
      <4>1. PICK x \in Events : EventsOf(t) = <<x>> /\ x.res = Res(t) /\ IsCreated(x)
        BY <2>1, <3>2, EventOfItem
      <4>2. Len(job[t].due) + 1 \in DOMAIN job'[t].due /\ job'[t].due[Len(job[t].due) + 1] = x
        BY <1>0, <2>1, <4>1
      <4> QED
        BY <3>2, <4>1, <4>2 DEF HasCreated
    <3> QED
      BY <2>5, <3>1, <3>2 DEF HasCreated
  <2>6. pc[t] \in DedupSteps
    BY <1>s, <2>1
  <2> QED
    BY <1>2, <2>1, <2>2, <2>5, <2>6
<1>9. CASE ~(\/ Load(t) \/ ParseRefresh(t) \/ ResourceSelect(t) \/ WorkSelect(t) \/ WorkInsert(t)
             \/ ResourceInsert(t) \/ LinkSelect(t) \/ LinkInsert(t) \/ SourceSelect(t)
             \/ SourceInsert(t) \/ CountSources(t) \/ UpdateCount(t))
  <2>1. pc'[t] \notin DedupSteps
    BY <1>0, <1>9 DEF Acts, Progress, IngestSelect, IngestInsert, IngestConflict, IngestCommit,
       IngestReread, Parse, DedupCommit, DedupAnswered, DedupConflict, DeadlockAbort, Publish, NextDue, Reload,
       Repend, Report, PublishFails, DatabaseError, DedupFails, Goto, Finish, DedupSteps
  <2> QED
    BY <1>1, <2>1
<1> QED
  BY <1>3, <1>4, <1>5, <1>6, <1>7, <1>8, <1>9

\* Every step preserves it.
LEMMA InsertsStep == IInv /\ Results /\ Inserts /\ [Next]_vars => Inserts'
<1> SUFFICES ASSUME IInv, Results, Inserts, [Next]_vars PROVE Inserts'
  OBVIOUS
<1>0. Typed /\ Keyed /\ pc \in [Tasks -> Steps] /\ job \in [Tasks -> Job]
  BY DEF IInv, Typed, TypeOK
<1>f. ASSUME NEW u \in Tasks, pc'[u] = pc[u], job'[u] = job[u], txn'[u] = txn[u] PROVE InsertsOf(u)'
  <2>1. Msg(u)' = Msg(u) /\ Res(u)' = Res(u)
    BY <1>f DEF Msg, Res, Item
  <2>2. \A r : HasCreated(u, r)' = HasCreated(u, r)
    BY <1>f, <2>1 DEF HasCreated
  <2> QED
    BY <1>f, <2>1, <2>2 DEF Inserts, InsertsOf, Mentioned
<1>i. ASSUME NEW u \in Tasks, pc'[u] \in {"idle", "ingest_select"} PROVE InsertsOf(u)'
  BY <1>i DEF InsertsOf, DedupSteps
<1>1. ASSUME NEW t \in Tasks, Acts(t) PROVE Inserts'
  <2>1. InsertsOf(t)'
    BY <1>0, <1>1, OwnInsertsStep DEF Results, Inserts
  <2>2. \A u \in Tasks \ {t} : InsertsOf(u)'
    BY <1>0, <1>1, <1>f, OthersUnmoved
  <2> QED
    BY <2>1, <2>2 DEF Inserts
<1>2. ASSUME NEW t \in Tasks, NEW m \in Messages, Deliver(t, m) PROVE Inserts'
  <2>1. /\ \A u \in Tasks \ {t} : pc'[u] = pc[u] /\ job'[u] = job[u] /\ txn'[u] = txn[u]
        /\ pc'[t] = "ingest_select"
    BY <1>0, <1>2 DEF Deliver, Goto, dbVars
  <2> QED
    BY <1>f, <1>i, <2>1 DEF Inserts
<1>3. CASE Crash
  BY <1>3, <1>i DEF Crash, Inserts
<1>4. CASE Quiescent \/ UNCHANGED vars
  BY <1>4, <1>f DEF Quiescent, vars, dbVars, Inserts
<1> QED
  BY <1>1, <1>2, <1>3, <1>4 DEF Next, Acts

-----------------------------------------------------------------------------
(***************************************************************************)
(* The refinement: until a message is handled by two tasks at once, or a   *)
(* COMMIT takes effect and raises, every step of the pipeline is a step of *)
(* MessageSettlement or invisible there.                                   *)
(***************************************************************************)
\* No two tasks that have been given a message have the same one.
OnePerMessage ==
  \A t, u \in Tasks : t # u /\ pc[t] # "idle" /\ pc[u] # "idle" => Msg(t) # Msg(u)

\* What the row of its message holds while a task handles it alone.
SerialOf(t) ==
  /\ pc[t] \in {"load", "parse"} => RawKey(Msg(t)) \in rows
  /\ pc[t] = "parse" => raw[Msg(t)].parse = "parse_pending"
  /\ pc[t] \in DedupSteps \cup {"reload", "repend"} => raw[Msg(t)].dedup = "dedup_pending"
  /\ pc[t] \in DueSteps /\ AnyNew(t) => raw[Msg(t)].dedup = "new"

\* The layer as a whole, and how long it holds.
Serial == OnePerMessage /\ \A t \in Tasks : SerialOf(t)
SerialWhileRegular == ~irregular => Serial

\* A task that acts has been given a message, and keeps it until it returns.
LEMMA BusyStep ==
  ASSUME Typed, NEW t \in Tasks, Acts(t)
  PROVE  pc[t] # "idle" /\ (pc'[t] # "idle" => Msg(t)' = Msg(t))
<1>0. job[t] \in Job /\ job \in [Tasks -> Job] /\ pc \in [Tasks -> Steps]
  BY DEF Typed, TypeOK
<1>1. ASSUME pc'[t] # "idle" PROVE Msg(t)' = Msg(t)
  <2>1. CASE pc'[t] \in DedupSteps
    BY <2>1, SameMessage
  <2>2. CASE UNCHANGED job
    BY <2>2 DEF Msg
  <2>3. CASE Load(t) \/ IngestReread(t) \/ ParseRefresh(t) \/ Report(t) \/ DatabaseError(t)
    <3>1. \A s : ~Finish(t, s)
      BY <1>0, <1>1 DEF Finish, Goto
    <3> QED
      BY <1>0, <2>2, <2>3, <3>1 DEF Load, IngestReread, ParseRefresh, Report, DatabaseError,
         DedupFails, Msg, Job
  <2>4. CASE Publish(t) \/ PublishFails(t) \/ Reload(t) \/ UpdateCount(t) \/ CountSources(t)
             \/ SourceInsert(t) \/ LinkInsert(t) \/ LinkSelect(t) \/ ResourceSelect(t)
    BY <1>0, <2>4 DEF Publish, PublishFails, NextDue, Reload, UpdateCount, CountSources,
       SourceInsert, LinkInsert, LinkSelect, ResourceSelect, Msg, Job
  <2>5. CASE \/ IngestSelect(t) \/ IngestInsert(t) \/ IngestConflict(t) \/ IngestCommit(t) \/ Parse(t)
             \/ WorkSelect(t) \/ WorkInsert(t) \/ ResourceInsert(t) \/ SourceSelect(t)
             \/ DedupCommit(t) \/ DedupAnswered(t) \/ DedupConflict(t) \/ DeadlockAbort(t) \/ Repend(t)
    BY <2>2, <2>5 DEF IngestSelect, IngestInsert, IngestConflict, IngestCommit, Parse, WorkSelect,
       WorkInsert, ResourceInsert, SourceSelect, DedupCommit, DedupAnswered, DedupConflict, DeadlockAbort, Repend,
       DedupFails
  <2> QED
    BY <2>3, <2>4, <2>5 DEF Acts, Progress
<1>2. pc[t] # "idle"
  <2>1. pc[t] = "idle" => KeyToInsert(t) = {} /\ \A u : ~WaitsFor(t, u)
    BY DEF KeyToInsert, WaitsFor, At
  <2>2. pc[t] = "idle" => ~DedupConflict(t) /\ ~DeadlockAbort(t)
    BY <2>1 DEF DedupConflict, DeadlockAbort, InDeadlock
  <2> QED
    BY <2>2 DEF Acts, Progress, IngestSelect, IngestInsert, IngestConflict, IngestCommit,
       IngestReread, Load, Parse, ParseRefresh, ResourceSelect, WorkSelect, WorkInsert,
       ResourceInsert, LinkSelect, LinkInsert, SourceSelect, SourceInsert, CountSources,
       UpdateCount, DedupCommit, DedupAnswered, Publish, PublishFails, Reload, Repend, Report, DatabaseError, At
<1> QED
  BY <1>1, <1>2

\* The columns the settlement looks at: who changes them, and to what.
LEMMA RowStep ==
  ASSUME Typed, NEW t \in Tasks, Acts(t)
  PROVE  /\ \A m \in Messages : m # Msg(t) => raw'[m] = raw[m]
         /\ ~(Parse(t) \/ DedupCommit(t) \/ Repend(t)) => raw' = raw
         /\ Parse(t) => raw'[Msg(t)].dedup = raw[Msg(t)].dedup
         /\ DedupCommit(t) => /\ raw'[Msg(t)].parse = raw[Msg(t)].parse
                              /\ raw'[Msg(t)].dedup = IF AnyNew(t) THEN "new" ELSE "matched"
         /\ Repend(t) /\ raw[Msg(t)].dedup = "dedup_pending" => raw' = raw
<1>0. raw \in [Messages -> RawRow] /\ Msg(t) \in Messages
  BY DEF Typed, TypeOK, DbTypeOK, Msg, Job
<1>1. ASSUME ~(Parse(t) \/ DedupCommit(t) \/ Repend(t)) PROVE raw' = raw
  <2>1. IngestCommit(t) => raw' = raw
    BY <1>0 DEF IngestCommit, Commit
  <2> QED
    BY <1>1, <2>1 DEF Acts, Progress, IngestSelect, IngestInsert, IngestConflict, IngestReread, Load,
       ParseRefresh, ResourceSelect, WorkSelect, WorkInsert, ResourceInsert, LinkSelect, LinkInsert,
       SourceSelect, SourceInsert, CountSources, UpdateCount, DedupAnswered, DedupConflict, DeadlockAbort, Publish,
       Reload, Report, PublishFails, DatabaseError, DedupFails, Insert, LoadResource, UpdateResource,
       Rollback, dbVars
<1>2. Parse(t) => raw' = [raw EXCEPT ![Msg(t)] = ParseResult(t)]
  BY DEF Parse, Commit
<1>3. ParseResult(t).dedup = raw[Msg(t)].dedup
  BY <1>0 DEF ParseResult, RawRow
<1>4. DedupCommit(t) =>
        raw' = [raw EXCEPT ![Msg(t)] = [raw[Msg(t)] EXCEPT !.dedup = IF AnyNew(t) THEN "new" ELSE "matched"]]
  BY DEF DedupCommit, Commit
<1>5. Repend(t) =>
        \/ raw' = [raw EXCEPT ![Msg(t)] = raw[Msg(t)]]
        \/ raw' = [raw EXCEPT ![Msg(t)] = [raw[Msg(t)] EXCEPT !.dedup = "dedup_pending"]]
  BY DEF Repend, Commit
<1>6. raw[Msg(t)].dedup = "dedup_pending" => [raw[Msg(t)] EXCEPT !.dedup = "dedup_pending"] = raw[Msg(t)]
  BY <1>0 DEF RawRow
<1>7. DedupCommit(t) => /\ raw'[Msg(t)].parse = raw[Msg(t)].parse
                        /\ raw'[Msg(t)].dedup = IF AnyNew(t) THEN "new" ELSE "matched"
  BY <1>0, <1>4 DEF RawRow
<1>8. Repend(t) /\ raw[Msg(t)].dedup = "dedup_pending" => raw' = raw
  BY <1>0, <1>5, <1>6
<1>9. \A m \in Messages : m # Msg(t) => raw'[m] = raw[m]
  BY <1>0, <1>1, <1>2, <1>4, <1>5
<1> QED
  BY <1>0, <1>1, <1>2, <1>3, <1>7, <1>8, <1>9

\* What the step of t makes of its message's row, and where that leaves t.
LEMMA OwnSerialStep ==
  ASSUME IInv, NEW t \in Tasks, SerialOf(t), Acts(t), [Next]_vars, ~irregular'
  PROVE  SerialOf(t)'
<1>0. /\ Typed /\ Keyed /\ pc \in [Tasks -> Steps] /\ job \in [Tasks -> Job] /\ job[t] \in Job
      /\ raw \in [Messages -> RawRow] /\ Msg(t) \in Messages /\ job[t].due \in Seq(Events)
  BY DEF IInv, Typed, TypeOK, DbTypeOK, Msg, Job
<1>1. CASE pc'[t] = "idle"
  BY <1>1 DEF SerialOf, DedupSteps, DueSteps
<1>2. ASSUME pc'[t] # "idle" PROVE SerialOf(t)'
  <2>1. Msg(t)' = Msg(t) /\ pc[t] # "idle"
    BY <1>0, <1>2, BusyStep
  <2>2. rows \subseteq rows'
    BY <1>0, RowsGrow
  <2>3. CASE IngestSelect(t) \/ IngestReread(t)
    <3>1. pc[t] \in {"ingest_select", "ingest_reread"}
      BY <2>3 DEF IngestSelect, IngestReread, At
    <3>2. Visible(t) = rows
      BY <1>0, <3>1 DEF Keyed, OpenWork, Visible, DedupSteps
    <3>3. pc'[t] \in {"load", "ingest_insert"} /\ (pc'[t] = "load" => RawKey(Msg(t)) \in rows)
      BY <1>0, <1>2, <2>3, <3>2 DEF IngestSelect, IngestReread, Goto, Finish
    <3> QED
      BY <2>1, <2>2, <3>3 DEF SerialOf, DedupSteps, DueSteps
  <2>4. CASE IngestCommit(t)
    <3>1. pc'[t] = "load" /\ pc[t] = "ingest_commit" /\ rows' = rows \cup txn[t].ins
      BY <1>0, <2>4 DEF IngestCommit, Commit, Goto, At
    <3>2. RawKey(Msg(t)) \in rows'
      BY <1>0, <3>1 DEF Keyed, OpenWork
    <3> QED
      BY <2>1, <3>1, <3>2 DEF SerialOf, DedupSteps, DueSteps
  <2>5. CASE Load(t)
    <3>1. /\ pc[t] = "load" /\ raw' = raw
          /\ \/ pc'[t] = "parse" /\ ActionFor(raw[Msg(t)]) = "parse"
             \/ pc'[t] = "res_select" /\ ActionFor(raw[Msg(t)]) = "dedup"
      BY <1>0, <1>2, <2>5 DEF Load, Goto, Finish, At, dbVars
    <3>2. /\ ActionFor(raw[Msg(t)]) = "parse" => raw[Msg(t)].parse = "parse_pending"
          /\ ActionFor(raw[Msg(t)]) = "dedup" => raw[Msg(t)].dedup = "dedup_pending"
      BY DEF ActionFor
    <3> QED
      BY <2>1, <2>2, <3>1, <3>2 DEF SerialOf, DedupSteps, DueSteps
  <2>6. CASE ParseRefresh(t)
    <3>1. raw' = raw /\ pc'[t] = "res_select" /\ raw[Msg(t)].dedup = "dedup_pending"
      BY <1>0, <1>2, <2>6 DEF ParseRefresh, Goto, Finish, dbVars
    <3> QED
      BY <2>1, <3>1 DEF SerialOf, DedupSteps, DueSteps
  <2>7. CASE Parse(t) \/ Repend(t) \/ IngestInsert(t) \/ IngestConflict(t) \/ Report(t)
    <3>1. pc'[t] \in {"parse_refresh", "report", "ingest_commit", "ingest_reread", "idle"}
      BY <1>0, <2>7 DEF Parse, Repend, IngestInsert, IngestConflict, Report, Finish, Goto
    <3> QED
      BY <3>1 DEF SerialOf, DedupSteps, DueSteps
  <2>8. CASE DedupCommit(t) \/ DedupAnswered(t)
    <3>1. pc'[t] \in {"dedup_committed", "report", "publish"} /\ AnyNew(t)' = AnyNew(t)
      BY <1>0, <2>8 DEF DedupCommit, DedupAnswered, Goto, AnyNew
    <3>2. CASE DedupCommit(t)
      BY <1>0, <2>1, <3>1, <3>2, RowStep DEF SerialOf, DedupSteps, DueSteps
    <3>3. CASE DedupAnswered(t)
      BY <1>0, <2>1, <3>1, <3>3 DEF DedupAnswered, At, SerialOf, DedupSteps, DueSteps, dbVars
    <3> QED
      BY <2>8, <3>2, <3>3
  <2>9. CASE Publish(t) \/ PublishFails(t)
    <3>1. pc[t] = "publish" /\ pc'[t] \in {"report", "publish"} /\ raw' = raw /\ job'[t].due = Tail(job[t].due)
      BY <1>0, <2>9 DEF Publish, PublishFails, NextDue, Goto, At, dbVars, Job
    <3>2. job[t].due # <<>>
      BY <1>0, <3>1 DEF Typed, LoopBounds, BoundsOf
    <3>3. \A k \in DOMAIN Tail(job[t].due) : k + 1 \in DOMAIN job[t].due /\ Tail(job[t].due)[k] = job[t].due[k + 1]
      BY <1>0, <3>2
    <3>4. AnyNew(t)' => AnyNew(t)
      BY <3>1, <3>3 DEF AnyNew
    <3> QED
      BY <2>1, <3>1, <3>4 DEF SerialOf, DedupSteps, DueSteps
  \* The statements of dedup_and_persist and its except branch leave the row alone.
  <2>10. CASE ~(\/ IngestSelect(t) \/ IngestReread(t) \/ IngestCommit(t) \/ Load(t) \/ ParseRefresh(t)
                \/ Parse(t) \/ Repend(t) \/ IngestInsert(t) \/ IngestConflict(t) \/ Report(t)
                \/ DedupCommit(t) \/ DedupAnswered(t) \/ Publish(t) \/ PublishFails(t))
    <3>1. raw' = raw
      BY <1>0, <2>10, RowStep
    <3>2. \A j : LinkStep(t, j) \in DedupSteps
      BY DEF LinkStep, DedupSteps
    <3>3. KeyToInsert(t) # {} \/ (\E u \in Tasks : WaitsFor(t, u)) => pc[t] \in DedupSteps
      BY DEF KeyToInsert, WaitsFor, At, DedupSteps
    <3>4. DedupConflict(t) \/ DeadlockAbort(t) => pc[t] \in DedupSteps
      BY <3>3 DEF DedupConflict, DeadlockAbort, InDeadlock
    <3>d. DatabaseError(t) => pc[t] # "dedup_committed"
      BY DEF DatabaseError, At
    <3>5. pc[t] \in DedupSteps \cup {"reload"} /\ pc'[t] \in DedupSteps \cup {"reload", "repend"}
      BY <1>0, <1>2, <2>10, <3>d, <3>2, <3>4 DEF Acts, Progress, ResourceSelect, WorkSelect, WorkInsert,
         ResourceInsert, LinkSelect, LinkInsert, SourceSelect, SourceInsert, CountSources,
         UpdateCount, DedupConflict, DeadlockAbort, Reload, DatabaseError, DedupFails, Finish, Goto,
         At, DedupSteps, TrySteps
    <3> QED
      BY <2>1, <3>1, <3>5 DEF SerialOf, DedupSteps, DueSteps
  <2> QED
    BY <2>3, <2>4, <2>5, <2>6, <2>7, <2>8, <2>9, <2>10
<1> QED
  BY <1>1, <1>2

\* The history variable stays once it is set.
LEMMA IrregularStays == [Next]_vars /\ irregular => irregular'
<1>1. ASSUME NEW t \in Tasks, Acts(t), irregular PROVE irregular'
  BY <1>1 DEF Acts, Progress, IngestSelect, IngestInsert, IngestConflict, IngestCommit, IngestReread,
     Load, Parse, ParseRefresh, ResourceSelect, WorkSelect, WorkInsert, ResourceInsert, LinkSelect,
     LinkInsert, SourceSelect, SourceInsert, CountSources, UpdateCount, DedupCommit, DedupAnswered,
     DedupConflict, DeadlockAbort, Publish, Reload, Repend, Report, PublishFails, DatabaseError, envVars
<1> QED
  BY <1>1 DEF Next, Acts, Deliver, Crash, Quiescent, vars, envVars

\* While nothing irregular happens a message stays with one task, and so does its row.
LEMMA SerialStep ==
  IInv /\ SerialWhileRegular /\ [Next]_vars => SerialWhileRegular'
<1> SUFFICES ASSUME IInv, SerialWhileRegular, [Next]_vars, ~irregular' PROVE Serial'
  BY DEF SerialWhileRegular
<1>r. ~irregular /\ Serial
  <2>1. ~irregular
    BY IrregularStays
  <2> QED
    BY <2>1 DEF SerialWhileRegular
<1>0. /\ Typed /\ pc \in [Tasks -> Steps] /\ job \in [Tasks -> Job]
      /\ \A u \in Tasks : Msg(u) \in Messages
  BY DEF IInv, Typed, TypeOK, Msg, Job
<1>f. ASSUME NEW u \in Tasks, pc'[u] = pc[u], job'[u] = job[u],
             pc[u] # "idle" => raw'[Msg(u)] = raw[Msg(u)]
      PROVE  SerialOf(u)'
  <2>1. Msg(u)' = Msg(u) /\ AnyNew(u)' = AnyNew(u) /\ rows \subseteq rows' /\ SerialOf(u)
    BY <1>0, <1>f, <1>r, RowsGrow DEF Msg, AnyNew, Serial
  <2> QED
    BY <1>f, <2>1 DEF SerialOf, DedupSteps, DueSteps
<1>1. ASSUME NEW t \in Tasks, Acts(t) PROVE Serial'
  <2>1. \A u \in Tasks \ {t} : pc'[u] = pc[u] /\ job'[u] = job[u] /\ Msg(u)' = Msg(u)
    BY <1>0, <1>1, OthersUnmoved DEF Msg
  <2>2. pc'[t] # "idle" => pc[t] # "idle" /\ Msg(t)' = Msg(t)
    BY <1>0, <1>1, BusyStep
  <2>3. OnePerMessage'
    BY <1>r, <2>1, <2>2 DEF Serial, OnePerMessage
  <2>4. pc[t] # "idle"
    BY <1>0, <1>1, BusyStep
  <2>5. ASSUME NEW u \in Tasks \ {t}, pc[u] # "idle" PROVE raw'[Msg(u)] = raw[Msg(u)]
    <3>1. Msg(u) # Msg(t)
      BY <1>r, <2>4, <2>5 DEF Serial, OnePerMessage
    <3> QED
      BY <1>0, <1>1, <3>1, RowStep
  <2>6. \A u \in Tasks \ {t} : SerialOf(u)'
    BY <1>f, <2>1, <2>5
  <2>7. SerialOf(t)'
    BY <1>1, <1>r, OwnSerialStep DEF Serial
  <2> QED
    BY <2>3, <2>6, <2>7 DEF Serial
<1>2. ASSUME NEW t \in Tasks, NEW m \in Messages, Deliver(t, m) PROVE Serial'
  <2>1. /\ raw' = raw /\ pc'[t] = "ingest_select" /\ Msg(t)' = m
        /\ \A u \in Tasks \ {t} : pc'[u] = pc[u] /\ job'[u] = job[u] /\ Msg(u)' = Msg(u)
        /\ \A u \in Tasks : pc[u] = "idle" \/ Msg(u) # m
    BY <1>0, <1>2 DEF Deliver, Goto, At, dbVars, Msg, JobFor
  <2>2. OnePerMessage'
    BY <1>r, <2>1 DEF Serial, OnePerMessage
  <2>3. SerialOf(t)'
    BY <2>1 DEF SerialOf, DedupSteps, DueSteps
  <2>4. \A u \in Tasks \ {t} : SerialOf(u)'
    BY <1>f, <2>1
  <2> QED
    BY <2>2, <2>3, <2>4 DEF Serial
<1>3. CASE Crash
  BY <1>3 DEF Crash, Serial, OnePerMessage, SerialOf, DedupSteps, DueSteps
<1>4. CASE Quiescent \/ UNCHANGED vars
  <2>1. pc' = pc /\ job' = job /\ raw' = raw
    BY <1>4 DEF Quiescent, vars, dbVars
  <2> QED
    BY <1>f, <1>r, <2>1 DEF Serial, OnePerMessage, Msg
<1> QED
  BY <1>1, <1>2, <1>3, <1>4 DEF Next, Acts

\* An event that is due names a resource the message mentions.
LEMMA DueMentioned ==
  ASSUME Typed, NEW t \in Tasks, pc[t] = "dedup_commit", FinishedResults(t),
         NEW k \in DOMAIN job[t].due
  PROVE  job[t].due[k].res \in Settlement!ResourcesOf(Msg(t))
<1> DEFINE e == job[t].due[k]
<1>0. /\ job[t].due \in Seq(Events) /\ e \in Events /\ Msg(t) \in Messages
      /\ Content[Msg(t)] \in Seq(Items) /\ job[t].data = Content[Msg(t)]
      /\ job[t].item = Len(job[t].data) + 1
  BY PipelineAssumption DEF Typed, TypeOK, Msg, Job, LoopBounds, BoundsOf, DedupSteps
<1>1. k \in Occurrences(job[t].due, e)
  BY DEF Occurrences
<1>2. Cardinality(Occurrences(job[t].due, e)) \in Nat \ {0}
  BY <1>0, <1>1, FiniteOccurrences, FS_EmptySet
<1>3. Cardinality(Occurrences(job[t].due, e)) <= Cardinality(Mentions(Msg(t), job[t].item - 1, e.res))
  BY <1>0 DEF FinishedResults
<1>4. Mentions(Msg(t), job[t].item - 1, e.res) # {}
  <2>1. Cardinality({}) = 0
    BY FS_EmptySet
  <2> QED
    BY <1>2, <1>3, <2>1
<1>5. job[t].item - 1 = Len(Content[Msg(t)])
  BY <1>0
<1>6. PICK i \in 1 .. Len(Content[Msg(t)]) : Content[Msg(t)][i].res = e.res
  BY <1>4, <1>5 DEF Mentions
<1> QED
  BY <1>0, <1>6 DEF Settlement!ResourcesOf

\* The commit of ingest() keeps the message.
LEMMA IngestKeeps ==
  ASSUME IInv, NEW t \in Tasks, IngestCommit(t),
         NEW m \in Messages, m = Msg(t)
  PROVE  Settlement!Keep(m)
<1>0. /\ Typed /\ Keyed /\ Msg(t) \in Messages /\ raw \in [Messages -> RawRow]
      /\ pc[t] = "ingest_commit"
  BY DEF IInv, Typed, TypeOK, DbTypeOK, Msg, Job, IngestCommit, At
<1>1. txn[t].ins = {RawKey(Msg(t))} /\ RawKey(Msg(t)) \notin rows
  BY <1>0 DEF Keyed, OpenWork, UniqueKeys
<1>2. rows' = rows \cup {RawKey(Msg(t))} /\ raw' = raw /\ published' = published
  BY <1>0, <1>1 DEF IngestCommit, Commit
<1>3. {x \in Messages : RawKey(x) \in rows'} = {x \in Messages : RawKey(x) \in rows} \cup {Msg(t)}
  BY <1>0, <1>2, TablesApart
<1>4. {r \in Resources : ResourceKey(r) \in rows'} = {r \in Resources : ResourceKey(r) \in rows}
  BY <1>2, TablesApart
<1>5. {p \in Resources \X Messages : SourceKey(p[1], p[2]) \in rows'}
        = {p \in Resources \X Messages : SourceKey(p[1], p[2]) \in rows}
  BY <1>2, TablesApart
<1> QED
  BY <1>0, <1>1, <1>2, <1>3, <1>4, <1>5 DEF Settlement!Keep

\* The commit of parse_and_persist parses it.
LEMMA ParseParses ==
  ASSUME IInv, NEW t \in Tasks, SerialOf(t), Parse(t),
         NEW m \in Messages, m = Msg(t)
  PROVE  Settlement!ParseOnce(m)
<1>0. /\ Typed /\ Keyed /\ Msg(t) \in Messages /\ raw \in [Messages -> RawRow] /\ pc[t] = "parse"
  BY DEF IInv, Typed, TypeOK, DbTypeOK, Msg, Job, Parse, At
<1>1. txn[t].ins = {}
  BY <1>0 DEF Keyed, OpenWork, DedupSteps
<1>2. rows' = rows /\ published' = published /\ raw' = [raw EXCEPT ![Msg(t)] = ParseResult(t)]
  BY <1>1 DEF Parse, Commit, seenVars
<1>3. /\ ParseResult(t).parse = IF Content[Msg(t)] = <<>> THEN "parse_failed" ELSE "parsed"
      /\ ParseResult(t).dedup = raw[Msg(t)].dedup
  BY <1>0 DEF ParseResult, RawRow
<1>4. RawKey(Msg(t)) \in rows /\ raw[Msg(t)].parse = "parse_pending"
  BY <1>0 DEF SerialOf
<1>5. /\ [x \in Messages |-> raw'[x].parse]
           = [[x \in Messages |-> raw[x].parse] EXCEPT
                ![Msg(t)] = IF Content[Msg(t)] = <<>> THEN "parse_failed" ELSE "parsed"]
      /\ [x \in Messages |-> raw'[x].dedup] = [x \in Messages |-> raw[x].dedup]
  BY <1>0, <1>2, <1>3
<1> QED
  BY <1>0, <1>2, <1>4, <1>5 DEF Settlement!ParseOnce

\* The commit of dedup_and_persist settles it: with what it inserted, and as what it was.
LEMMA CommitSettles ==
  ASSUME IInv, Results, NEW t \in Tasks, InsertsOf(t), SerialOf(t), DedupCommit(t),
         NEW m \in Messages, m = Msg(t)
  PROVE  Settlement!Settle(m)
<1> DEFINE known == {r \in Resources : ResourceKey(r) \in rows}
           sources == {p \in Resources \X Messages : SourceKey(p[1], p[2]) \in rows}
<1>0. /\ Typed /\ Keyed /\ DedupProgress /\ raw \in [Messages -> RawRow]
      /\ pc[t] = "dedup_commit" /\ pc[t] \in DedupSteps /\ pc[t] \notin AfterResource
      /\ Content[m] \in Seq(Items)
  BY PipelineAssumption DEF IInv, Typed, TypeOK, DbTypeOK, Msg, Job, DedupCommit, At, DedupSteps,
     AfterResource, LinkSteps
<1>1. /\ rows' = rows \cup txn[t].ins /\ published' = published /\ txn[t].ins \cap rows = {}
      /\ raw' = [raw EXCEPT ![m] = [raw[m] EXCEPT !.dedup = IF AnyNew(t) THEN "new" ELSE "matched"]]
      /\ Msg(t)' = Msg(t)
  BY <1>0 DEF DedupCommit, Commit, seenVars, Keyed, UniqueKeys, Msg
<1>2. raw[m].parse = "parsed" /\ raw[m].dedup = "dedup_pending"
  BY <1>0 DEF Typed, LoopBounds, BoundsOf, SerialOf
<1>3. FinishedResults(t)
  BY <1>0 DEF Results, ResultsOf
\* What is committed: the resource and the source of every item,
<1>4. \A r \in Settlement!ResourcesOf(m) :
        r \in Resources /\ ResourceKey(r) \in rows' /\ SourceKey(r, m) \in rows'
  <2>1. Attributed(m)'
    <3>1. Attributed(Msg(t))'
      BY <1>0, CommitAttributes DEF DedupProgress
    <3> QED
      BY <1>1, <3>1 DEF Attributed
  <2>2. \A i \in DOMAIN Content[m] : Content[m][i].res \in Resources
    BY <1>0, PipelineAssumption
  <2> QED
    BY <1>1, <2>1, <2>2 DEF Attributed, Settlement!ResourcesOf
\* and nothing else.
<1>5. \A r \in Resources :
        ResourceKey(r) \in txn[t].ins =>
          \E k \in DOMAIN job[t].due : IsCreated(job[t].due[k]) /\ job[t].due[k].res = r
  BY <1>0 DEF InsertsOf, HasCreated
<1>6. \A r \in Resources, x \in Messages :
        SourceKey(r, x) \in txn[t].ins => x = m /\ r \in Settlement!ResourcesOf(m)
  BY <1>0 DEF IInv, OwnSources, SourcesOwned, InsertsOf, Mentioned, Settlement!ResourcesOf
<1>7. {x \in Messages : RawKey(x) \in rows'} = {x \in Messages : RawKey(x) \in rows}
  BY <1>0, <1>1 DEF InsertsOf
<1>8. {r \in Resources : ResourceKey(r) \in rows'} = known \cup Settlement!ResourcesOf(m)
  BY <1>0, <1>1, <1>3, <1>4, <1>5, DueMentioned
<1>9. {p \in Resources \X Messages : SourceKey(p[1], p[2]) \in rows'}
        = sources \cup {<<r, m>> : r \in Settlement!ResourcesOf(m)}
  <2>1. ASSUME NEW r \in Resources, NEW x \in Messages
        PROVE  SourceKey(r, x) \in rows' <=>
                 SourceKey(r, x) \in rows \/ (x = m /\ r \in Settlement!ResourcesOf(m))
    BY <1>1, <1>4, <1>6
  <2>2. \A r \in Settlement!ResourcesOf(m) : <<r, m>> \in Resources \X Messages
    BY <1>0, <1>4
  <2> QED
    BY <2>1, <2>2
\* It is new exactly if it has inserted a resource row.
<1>10. AnyNew(t) <=> ~(Settlement!ResourcesOf(m) \subseteq known)
  <2>1. ASSUME NEW k \in DOMAIN job[t].due, IsCreated(job[t].due[k])
        PROVE  ~(Settlement!ResourcesOf(m) \subseteq known)
    <3>1. job[t].due[k].res \in Settlement!ResourcesOf(m)
      BY <1>0, <1>3, DueMentioned
    <3>2. ResourceKey(job[t].due[k].res) \in txn[t].ins
      BY <1>3, <2>1 DEF FinishedResults
    <3> QED
      BY <1>1, <3>1, <3>2
  <2>2. ASSUME NEW r \in Settlement!ResourcesOf(m), r \notin known
        PROVE  \E k \in DOMAIN job[t].due : IsCreated(job[t].due[k])
    BY <1>1, <1>4, <1>5, <2>2
  <2> QED
    BY <2>1, <2>2 DEF AnyNew, IsCreated
<1>11. /\ [x \in Messages |-> raw'[x].parse] = [x \in Messages |-> raw[x].parse]
       /\ [x \in Messages |-> raw'[x].dedup]
            = [[x \in Messages |-> raw[x].dedup] EXCEPT
                 ![m] = IF Settlement!ResourcesOf(m) \subseteq known THEN "matched" ELSE "new"]
  <2> DEFINE row == [raw[m] EXCEPT !.dedup = IF AnyNew(t) THEN "new" ELSE "matched"]
  <2>1. row.parse = raw[m].parse /\ row.dedup = IF AnyNew(t) THEN "new" ELSE "matched"
    BY <1>0 DEF RawRow
  <2> QED
    BY <1>0, <1>1, <1>10, <2>1
<1> QED
  BY <1>0, <1>1, <1>2, <1>7, <1>8, <1>9, <1>11 DEF Settlement!Settle

\* publish() announces the first of the due events, unless it has been announced.
LEMMA PublishAnnouncesOnce ==
  ASSUME EInv, NEW t \in Tasks, SerialOf(t), Publish(t)
  PROVE  \/ \E kind \in {"created", "merged"}, r \in Resources, m \in Messages :
              Settlement!Announce(kind, r, m)
         \/ UNCHANGED Settlement!absVars
<1> DEFINE announced == {d \in Events : published[d] > 0}
<1>0. /\ Typed /\ Msg(t) \in Messages /\ published \in [Events -> Nat] /\ pc[t] = "publish"
      /\ job[t].due \in Seq(Events) /\ job[t].due # <<>>
  BY DEF EInv, IInv, Typed, TypeOK, Msg, Job, Publish, At, LoopBounds, BoundsOf
<1>e. PICK e \in Events : 1 \in DOMAIN job[t].due /\ e = job[t].due[1] /\ e = Head(job[t].due)
  BY <1>0
<1>1. 1 \in DOMAIN job[t].due /\ job[t].due[1] = e /\ e \in Events
  BY <1>e
<1>2. DueFits(t) /\ OwnMessage(t)
  BY <1>0 DEF EInv, Announced, Announcing, DueSteps, Results, ResultsOf
<1>3. /\ rows' = rows /\ raw' = raw
      /\ published' = [published EXCEPT ![e] = published[e] + 1]
  BY <1>e DEF Publish, dbVars
<1>4. {d \in Events : published'[d] > 0} = announced \cup {e}
  <2>1. \A d \in Events : published'[d] = IF d = e THEN published[e] + 1 ELSE published[d]
    BY <1>0, <1>1, <1>3
  <2>2. published[e] + 1 > 0
    BY <1>0, <1>1
  <2> QED
    BY <1>1, <2>1, <2>2
<1>5. CASE e \in announced
  <2>1. {d \in Events : published'[d] > 0} = announced
    BY <1>4, <1>5
  <2> QED
    BY <1>3, <2>1 DEF Settlement!absVars
<1>6. CASE e \notin announced
  <2>1. /\ e.kind \in {"created", "merged"} /\ e.res \in Resources /\ e.msg \in Messages
        /\ e = [kind |-> e.kind, res |-> e.res, msg |-> e.msg] /\ e.msg = Msg(t)
    BY <1>1, <1>2 DEF Events, OwnMessage
  <2>2. SourceKey(e.res, e.msg) \in rows
    <3>1. 1 \in Occurrences(job[t].due, e)
      BY <1>1 DEF Occurrences
    <3>2. Cardinality(Occurrences(job[t].due, e)) \in Nat \ {0}
      BY <1>0, <3>1, FiniteOccurrences, FS_EmptySet
    <3>3. published[e] + Cardinality(Occurrences(job[t].due, e)) <= Cardinality(AllMentions(Msg(t), e.res))
      BY <1>1, <1>2, <2>1 DEF DueFits
    <3>4. AllMentions(Msg(t), e.res) # {}
      <4>1. published[e] \in Nat
        BY <1>0, <1>1
      <4> QED
        BY <3>2, <3>3, <4>1, FS_EmptySet
    <3> QED
      BY <1>2, <2>1, <3>4 DEF DueFits, AllMentions, Attributed
  <2>3. ASSUME e.kind = "created"
        PROVE  /\ raw[e.msg].dedup = "new"
               /\ \A d \in announced : ~(d.kind = "created" /\ d.res = e.res)
    <3>1. AnyNew(t)
      BY <1>1, <2>3 DEF AnyNew
    <3>2. raw[e.msg].dedup = "new"
      BY <1>0, <2>1, <3>1 DEF SerialOf, DueSteps
    <3>3. ASSUME NEW d \in Events, IsCreated(d), d.res = e.res PROVE published[d] = 0
      BY <1>1, <1>2, <2>3, <3>3 DEF DueFits, IsCreated
    <3> QED
      BY <3>2, <3>3 DEF IsCreated
  <2>4. Settlement!Announce(e.kind, e.res, e.msg)
    BY <1>3, <1>4, <1>6, <2>1, <2>2, <2>3 DEF Settlement!Announce
  <2> QED
    BY <2>1, <2>4
<1> QED
  BY <1>5, <1>6

\* Every other step changes neither a row, nor a status, nor what is on the bus.
LEMMA HiddenStep ==
  ASSUME EInv, Serial, [Next]_vars,
         ~(\E t \in Tasks : IngestCommit(t) \/ Parse(t) \/ DedupCommit(t) \/ Publish(t))
  PROVE  UNCHANGED Settlement!absVars
<1>0. Typed /\ Keyed /\ IInv
  BY DEF EInv, IInv
<1>1. ASSUME NEW t \in Tasks, Acts(t) PROVE rows' = rows /\ raw' = raw /\ published' = published
  <2>1. ASSUME Repend(t) PROVE rows' = rows /\ raw' = raw
    <3>1. pc[t] = "repend" /\ raw[Msg(t)].dedup = "dedup_pending" /\ rows' = rows \cup txn[t].ins
      BY <2>1 DEF Repend, Commit, At, Serial, SerialOf
    <3> QED
      BY <1>0, <1>1, <2>1, <3>1, RowStep DEF Keyed, OpenWork, DedupSteps
  <2>2. rows' = rows
    <3>1. \A k : Adds(t, k) => rows' = rows
      BY DEF Adds
    <3> QED
      BY <1>0, <1>1, <2>1, <3>1, StepShape, InsertStep DEF Keeps, Aborts
  <2>3. raw' = raw
    BY <1>0, <1>1, <2>1, RowStep
  <2>4. published' = published
    BY <1>1 DEF Acts, Progress, IngestSelect, IngestInsert, IngestConflict, IngestReread,
       Load, ParseRefresh, ResourceSelect, WorkSelect, WorkInsert, ResourceInsert, LinkSelect,
       LinkInsert, SourceSelect, SourceInsert, CountSources, UpdateCount, DedupAnswered, DedupConflict,
       DeadlockAbort, Reload, Repend, Report, PublishFails, DatabaseError, DedupFails, Finish, seenVars
  <2> QED
    BY <2>2, <2>3, <2>4
<1>2. ASSUME NEW t \in Tasks, NEW m \in Messages, Deliver(t, m)
      PROVE  rows' = rows /\ raw' = raw /\ published' = published
  BY <1>2 DEF Deliver, dbVars, seenVars
<1>3. CASE Crash \/ Quiescent \/ UNCHANGED vars
  BY <1>3 DEF Crash, Quiescent, vars, dbVars, seenVars, Settlement!absVars
<1>4. CASE rows' = rows /\ raw' = raw /\ published' = published
  BY <1>4 DEF Settlement!absVars
<1> QED
  BY <1>1, <1>2, <1>3, <1>4 DEF Next, Acts

\* The abstract specification starts where the pipeline does.
LEMMA SettlementInit == Init => Settlement!AbsInit
<1> SUFFICES ASSUME Init PROVE Settlement!AbsInit
  OBVIOUS
<1>1. rows = {} /\ raw = [m \in Messages |-> InitialRow]
  BY DEF Init, DbInit
<1>2. \A m \in Messages : raw[m].parse = "parse_pending" /\ raw[m].dedup = "dedup_pending"
  BY <1>1 DEF InitialRow
<1>3. \A e \in Events : ~(published[e] > 0)
  BY DEF Init
<1> QED
  BY <1>1, <1>2, <1>3 DEF Settlement!AbsInit

\* Inserts and Serial hold initially.
LEMMA SerialInit == Init => Inserts /\ SerialWhileRegular
BY DEF Init, Inserts, InsertsOf, SerialWhileRegular, Serial, OnePerMessage, SerialOf, DedupSteps,
       DueSteps

\* Until deliveries of a message overlap or a COMMIT takes effect and raises, the pipeline
\* implements MessageSettlement (RawMessagePipeline!ImplementsSettlement): all its statements,
\* failures and crashes look like storing, parsing, settling and announcing in one step each.
THEOREM SerialImplements == Spec => ImplementsSettlement
<1> DEFINE SInv == EInv /\ Inserts /\ SerialWhileRegular
<1>1. Init => SInv
  BY EInvInit, SerialInit
<1>2. SInv /\ [Next]_vars => SInv'
  <2>1. IInv /\ [Next]_vars => IInv'
    BY TypedStep, KeyedStep, TrackedStep, BackedStep DEF IInv
  <2>2. EInv /\ [Next]_vars => EInv'
    BY <2>1, ResultsStep, AnnouncedStep DEF EInv
  <2> QED
    BY <2>2, InsertsStep, SerialStep DEF EInv
<1>3. SInv /\ [Next]_vars => [irregular' \/ Settlement!AbsNext]_(Settlement!absVars)
  <2> SUFFICES ASSUME EInv, Inserts, SerialWhileRegular, [Next]_vars, ~irregular'
               PROVE  Settlement!AbsNext \/ UNCHANGED Settlement!absVars
    OBVIOUS
  <2>s. Serial
    BY IrregularStays DEF SerialWhileRegular
  <2>0. IInv /\ Results /\ \A t \in Tasks : Msg(t) \in Messages
    BY DEF EInv, IInv, Typed, TypeOK, Msg, Job
  <2>1. ASSUME NEW t \in Tasks, IngestCommit(t) PROVE Settlement!AbsNext
    <3>1. \A m \in Messages : m = Msg(t) => Settlement!Keep(m)
      BY <2>0, <2>1, IngestKeeps
    <3> QED
      BY <2>0, <3>1 DEF Settlement!AbsNext
  <2>2. ASSUME NEW t \in Tasks, Parse(t) PROVE Settlement!AbsNext
    <3>1. \A m \in Messages : m = Msg(t) => Settlement!ParseOnce(m)
      BY <2>0, <2>2, <2>s, ParseParses DEF Serial
    <3> QED
      BY <2>0, <3>1 DEF Settlement!AbsNext
  <2>3. ASSUME NEW t \in Tasks, DedupCommit(t) PROVE Settlement!AbsNext
    <3>1. \A m \in Messages : m = Msg(t) => Settlement!Settle(m)
      BY <2>0, <2>3, <2>s, CommitSettles DEF Serial, Inserts
    <3> QED
      BY <2>0, <3>1 DEF Settlement!AbsNext
  <2>4. ASSUME NEW t \in Tasks, Publish(t) PROVE Settlement!AbsNext \/ UNCHANGED Settlement!absVars
    BY <2>4, <2>s, PublishAnnouncesOnce DEF Settlement!AbsNext, Serial
  <2> QED
    BY <2>1, <2>2, <2>3, <2>4, <2>s, HiddenStep
<1> QED
  BY <1>1, <1>2, <1>3, SettlementInit, PTL DEF Spec, ImplementsSettlement
=============================================================================
