------------------------- MODULE RegistryDatabase -------------------------
(***************************************************************************)
(* The PostgreSQL database as the registry code uses it: one transaction   *)
(* per AsyncSession at READ COMMITTED, unique constraints, row locks, and  *)
(* the part of SQLAlchemy's unit of work that decides which columns an     *)
(* UPDATE writes.                                                          *)
(*                                                                         *)
(* Rows that are only ever inserted (raw_messages, works, resources,       *)
(* resource_links, resource_sources) are represented by the key of their   *)
(* unique constraint; the two columns that are updated later and that the  *)
(* code reads back are kept beside them: the raw message's status columns  *)
(* and resources.source_count.                                             *)
(***************************************************************************)
EXTENDS Naturals, Sequences, FiniteSets

CONSTANTS
  Tasks,       \* handler tasks: each holds at most one open session
  Messages,    \* the (channel_id, tg_message_id) identities
  Resources,   \* resource_key values
  Works,       \* work_key values
  Links,       \* (provider, url_hash) values
  Items        \* what one element of raw_messages.parsed_data can be

VARIABLES
  rows,         \* unique keys of the committed rows
  raw,          \* raw[m]: status columns of m's raw_messages row
  sourceCount,  \* sourceCount[r]: committed resources.source_count
  txn           \* txn[t]: what the open transaction of task t has done

dbVars == <<rows, raw, sourceCount, txn>>

(***************************************************************************)
(* The unique constraints of the five tables.                              *)
(***************************************************************************)
RawKey(m)       == [table |-> "raw_messages",     key |-> <<m>>]
WorkKey(w)      == [table |-> "works",            key |-> <<w>>]
ResourceKey(r)  == [table |-> "resources",        key |-> <<r>>]
LinkKey(r, l)   == [table |-> "resource_links",   key |-> <<r, l>>]
SourceKey(r, m) == [table |-> "resource_sources", key |-> <<r, m>>]

Keys ==
  {RawKey(m) : m \in Messages} \cup {WorkKey(w) : w \in Works}
    \cup {ResourceKey(r) : r \in Resources}
    \cup {LinkKey(r, l) : r \in Resources, l \in Links}
    \cup {SourceKey(r, m) : r \in Resources, m \in Messages}

\* The raw messages that the source rows of S attribute resource r to.
SourcesOf(S, r) == {m \in Messages : SourceKey(r, m) \in S}

ParseStatuses == {"parse_pending", "parsed", "parse_failed"}
DedupStatuses == {"dedup_pending", "new", "matched"}
FinalDedup    == {"new", "matched"}

RawRow == [parse : ParseStatuses, dedup : DedupStatuses,
           attempts : Nat, data : Seq(Items)]

\* The column values ingest() inserts; also what raw[m] holds while m has no row.
InitialRow == [parse |-> "parse_pending", dedup |-> "dedup_pending",
               attempts |-> 0, data |-> <<>>]

(***************************************************************************)
(* A transaction: the keys it has inserted, the resources rows it has      *)
(* updated and therefore locked, the source_count it will leave in each    *)
(* (0: the UPDATE did not name that column), and attr, the source_count    *)
(* attribute of the Resource objects in the session's identity map (0: not *)
(* loaded).                                                                *)
(***************************************************************************)
Txn == [ins : SUBSET Keys, locks : SUBSET Resources,
        counts : [Resources -> Nat], attr : [Resources -> Nat]]

NoTxn == [ins |-> {}, locks |-> {}, counts |-> [r \in Resources |-> 0],
          attr |-> [r \in Resources |-> 0]]

DbInit ==
  /\ rows = {}
  /\ raw = [m \in Messages |-> InitialRow]
  /\ sourceCount = [r \in Resources |-> 0]
  /\ txn = [t \in Tasks |-> NoTxn]

DbTypeOK ==
  /\ rows \in SUBSET Keys
  /\ raw \in [Messages -> RawRow]
  /\ sourceCount \in [Resources -> Nat]
  /\ txn \in [Tasks -> Txn]

\* What a statement of t sees at READ COMMITTED: committed rows and its own.
Visible(t) == rows \cup txn[t].ins

\* An INSERT of k by t waits while another open transaction has inserted k, is
\* rejected (IntegrityError) once k is committed, and otherwise takes effect.
HeldElsewhere(t, k) == \E u \in Tasks \ {t} : k \in txn[u].ins
Rejects(k) == k \in rows

Insert(t, k) ==
  /\ ~Rejects(k)
  /\ ~HeldElsewhere(t, k)
  /\ txn' = [txn EXCEPT ![t].ins = @ \cup {k}]
  /\ UNCHANGED <<rows, raw, sourceCount>>

\* SELECT of resource r: an object already in the identity map keeps its attributes.
LoadResource(t, r) ==
  /\ txn' = [txn EXCEPT ![t].attr[r] = IF @ = 0 THEN sourceCount[r] ELSE @]
  /\ UNCHANGED <<rows, raw, sourceCount>>

\* Flush of `resource.source_count = n; last_seen_at = now`. The row lock is taken in any
\* case; source_count is part of the UPDATE only if n differs from the loaded attribute.
RowLocked(t, r) == \E u \in Tasks \ {t} : r \in txn[u].locks

UpdateResource(t, r, n) ==
  /\ ~RowLocked(t, r)
  /\ txn' = [txn EXCEPT ![t].locks = @ \cup {r},
                        ![t].counts = IF n = txn[t].attr[r] THEN @ ELSE [@ EXCEPT ![r] = n],
                        ![t].attr = [@ EXCEPT ![r] = n]]
  /\ UNCHANGED <<rows, raw, sourceCount>>

\* COMMIT, together with the UPDATE of m's status columns to `row` that the same flush
\* issues. No transaction waits for a lock after it has locked a raw_messages row, so
\* taking UPDATE and COMMIT as one step hides no wait.
Commit(t, m, row) ==
  /\ rows' = rows \cup txn[t].ins
  /\ sourceCount' = [r \in Resources |->
                       IF txn[t].counts[r] = 0 THEN sourceCount[r] ELSE txn[t].counts[r]]
  /\ raw' = [raw EXCEPT ![m] = row]
  /\ txn' = [txn EXCEPT ![t] = NoTxn]

Rollback(t) ==
  /\ txn' = [txn EXCEPT ![t] = NoTxn]
  /\ UNCHANGED <<rows, raw, sourceCount>>
=============================================================================
