------------------------ MODULE WatchlistStore_proofs ------------------------
(***************************************************************************)
(* What WatchlistApplicationService.replace guarantees for any number of   *)
(* requests, watchlists and changes made without the service: the lock     *)
(* admits one request at a time, the second read vouches for the first     *)
(* until somebody changes the file, and the first was of what the author   *)
(* of the request has read.                                                *)
(***************************************************************************)
EXTENDS WatchlistStore, TLAPS

Places == {"new", "waiting", "writing", "checked", "refused", "replaced"}

Records == [at: Places, candidate: Contents \cup {NoRevision},
            expected: Contents \cup {NoRevision}, confirmed: BOOLEAN,
            current: Contents \cup NotValid \cup {NoRevision}]

Typed == /\ file \in Contents \cup NotValid
         /\ request \in [Requests -> Records]
         /\ lock \in BOOLEAN
         /\ slipped \subseteq Requests
         /\ \A r \in Requests : request[r].at # "new" => request[r].candidate \in Contents

Inside(r) == request[r].at \in {"writing", "checked"}

\* The lock is held by whoever is between its first read and its last step.
Exclusive == \A r, s \in Requests : Inside(r) => lock /\ (Inside(s) => r = s)

\* What a request at work read at first is what it was allowed to replace.
Permitted == \A r \in Requests : Inside(r) =>
               /\ request[r].current \in Contents \cup NotValid
               /\ Allowed(r, request[r].current)

\* After the second read the file is what the first one found, or somebody without
\* the lock was faster.
Fresh == \A r \in Requests :
           request[r].at = "checked" /\ r \notin slipped => file = request[r].current

IInv == Typed /\ Exclusive /\ Permitted /\ Fresh

LEMMA InitHolds == Init => IInv
<1> SUFFICES ASSUME Init PROVE IInv
  OBVIOUS
<1>1. \A r \in Requests : request[r].at = "new"
  BY DEF Init, New
<1>2. New \in Records
  BY DEF New, Records, Places
<1>3. Typed
  BY <1>1, <1>2 DEF Init, Typed
<1>4. Exclusive /\ Permitted /\ Fresh
  BY <1>1 DEF Exclusive, Permitted, Fresh, Inside
<1>5. QED
  BY <1>3, <1>4 DEF IInv

LEMMA TypedKept == IInv /\ [Next]_vars => Typed'
<1> SUFFICES ASSUME IInv, [Next]_vars PROVE Typed'
  OBVIOUS
<1> USE DEF IInv, Typed, Records, Places
<1>1. ASSUME NEW r \in Requests, Reads(r) PROVE Typed'
  BY <1>1 DEF Reads, Revision
<1>2. ASSUME NEW r \in Requests, Begins(r) PROVE Typed'
  <2>1. CASE Allowed(r, file)
    <3>1. request' = [request EXCEPT ![r] = [request[r] EXCEPT !.at = "writing", !.current = file]]
      BY <1>2, <2>1 DEF Begins
    <3>2. [request[r] EXCEPT !.at = "writing", !.current = file] \in Records
      OBVIOUS
    <3>3. request' \in [Requests -> Records]
      BY <3>1, <3>2
    <3>4. QED
      BY <1>2, <2>1, <3>1, <3>3 DEF Begins
  <2>2. CASE ~Allowed(r, file)
    BY <1>2, <2>2 DEF Begins, Moves
  <2>3. QED
    BY <2>1, <2>2
<1>3. ASSUME NEW r \in Requests, WriteFails(r) PROVE Typed'
  BY <1>3 DEF WriteFails, Moves
<1>4. ASSUME NEW r \in Requests, Checks(r) PROVE Typed'
  <2>1. request' = [request EXCEPT ![r].at = "checked"] \/ request' = [request EXCEPT ![r].at = "refused"]
    BY <1>4 DEF Checks, Moves
  <2>2. lock' \in BOOLEAN /\ UNCHANGED <<file, slipped>> /\ request[r].at = "writing"
    BY <1>4 DEF Checks
  <2>3. QED
    BY <2>1, <2>2
<1>5. ASSUME NEW r \in Requests, Replaces(r) PROVE Typed'
  <2>1. request[r].candidate \in Contents \/ request[r].candidate = NoRevision
    OBVIOUS
  <2>2. QED
    BY <1>5, <2>1 DEF Replaces, Moves
<1>6. CASE Edited
  BY <1>6 DEF Edited
<1>7. CASE UNCHANGED vars
  BY <1>7 DEF vars
<1>8. QED
  BY <1>1, <1>2, <1>3, <1>4, <1>5, <1>6, <1>7 DEF Next

\* How a step of a request changes the requests and the rest: nobody else's is touched.
LEMMA OnlyItsOwn ==
  ASSUME IInv, NEW r \in Requests,
         Reads(r) \/ Begins(r) \/ WriteFails(r) \/ Checks(r) \/ Replaces(r)
  PROVE  \A s \in Requests \ {r} : request'[s] = request[s]
<1> USE DEF IInv, Typed
<1>1. CASE Reads(r) \/ Begins(r)
  BY <1>1 DEF Reads, Begins, Moves
<1>2. CASE WriteFails(r) \/ Checks(r) \/ Replaces(r)
  BY <1>2 DEF WriteFails, Checks, Replaces, Moves
<1>3. QED
  BY <1>1, <1>2

\* Where the two steps with a decision leave the request that takes them.
LEMMA DecisionOf ==
  ASSUME IInv, NEW r \in Requests
  PROVE  /\ Begins(r) => \/ request'[r].at = "writing" /\ lock'
                         \/ request'[r].at = "refused"
         /\ Checks(r) => \/ request'[r].at = "checked" /\ UNCHANGED lock
                             /\ file = request[r].current
                             /\ request'[r].current = request[r].current
                         \/ request'[r].at = "refused"
<1> USE DEF IInv, Typed, Records
<1>1. ASSUME Begins(r), Allowed(r, file) PROVE request'[r].at = "writing" /\ lock'
  BY <1>1 DEF Begins
<1>2. ASSUME Begins(r), ~Allowed(r, file) PROVE request'[r].at = "refused"
  BY <1>2 DEF Begins, Moves
<1>3. ASSUME Checks(r), SameAs(file, request[r].current)
      PROVE  /\ request'[r].at = "checked" /\ UNCHANGED lock
             /\ file = request[r].current /\ request'[r].current = request[r].current
  BY <1>3 DEF Checks, Moves, SameAs
<1>4. ASSUME Checks(r), ~SameAs(file, request[r].current) PROVE request'[r].at = "refused"
  BY <1>4 DEF Checks, Moves
<1>5. QED
  BY <1>1, <1>2, <1>3, <1>4

LEMMA ExclusiveKept == IInv /\ [Next]_vars => Exclusive'
<1> SUFFICES ASSUME IInv, [Next]_vars PROVE Exclusive'
  OBVIOUS
<1> USE DEF IInv, Typed, Exclusive, Inside
<1>1. ASSUME NEW r \in Requests, Reads(r) PROVE Exclusive'
  BY <1>1, OnlyItsOwn DEF Reads
<1>2. ASSUME NEW r \in Requests, Begins(r) PROVE Exclusive'
  <2>1. ~lock /\ \A s \in Requests : ~Inside(s)
    BY <1>2 DEF Begins, LockFree
  <2>2. \A s \in Requests \ {r} : ~Inside(s)'
    BY <1>2, <2>1, OnlyItsOwn
  <2>3. Inside(r)' => lock'
    BY <1>2, DecisionOf
  <2>4. QED
    BY <2>2, <2>3
<1>3. ASSUME NEW r \in Requests, WriteFails(r) PROVE Exclusive'
  BY <1>3, OnlyItsOwn DEF WriteFails, Moves
<1>4. ASSUME NEW r \in Requests, Checks(r) PROVE Exclusive'
  <2>1. \A s \in Requests \ {r} : ~Inside(s)'
    BY <1>4, OnlyItsOwn DEF Checks
  <2>2. Inside(r)' => lock'
    <3>1. lock /\ Inside(r)
      BY <1>4 DEF Checks
    <3>2. QED
      BY <1>4, <3>1, DecisionOf
  <2>3. QED
    BY <2>1, <2>2
<1>5. ASSUME NEW r \in Requests, Replaces(r) PROVE Exclusive'
  BY <1>5, OnlyItsOwn DEF Replaces, Moves
<1>6. CASE Edited
  BY <1>6 DEF Edited
<1>7. CASE UNCHANGED vars
  BY <1>7 DEF vars
<1>8. QED
  BY <1>1, <1>2, <1>3, <1>4, <1>5, <1>6, <1>7 DEF Next

LEMMA PermittedKept == IInv /\ [Next]_vars => Permitted'
<1> SUFFICES ASSUME IInv, [Next]_vars PROVE Permitted'
  OBVIOUS
<1> USE DEF IInv, Typed, Records, Permitted, Inside, Allowed
<1>1. ASSUME NEW r \in Requests, Reads(r) PROVE Permitted'
  BY <1>1, OnlyItsOwn DEF Reads
<1>2. ASSUME NEW r \in Requests, Begins(r) PROVE Permitted'
  <2>1. CASE Allowed(r, file)
    BY <1>2, <2>1, OnlyItsOwn DEF Begins
  <2>2. CASE ~Allowed(r, file)
    BY <1>2, <2>2, OnlyItsOwn DEF Begins, Moves
  <2>3. QED
    BY <2>1, <2>2
<1>3. ASSUME NEW r \in Requests, WriteFails(r) PROVE Permitted'
  BY <1>3, OnlyItsOwn DEF WriteFails, Moves
<1>4. ASSUME NEW r \in Requests, Checks(r) PROVE Permitted'
  <2>1. /\ request'[r].current = request[r].current /\ request'[r].expected = request[r].expected
        /\ request'[r].confirmed = request[r].confirmed /\ Inside(r)
    BY <1>4 DEF Checks, Moves
  <2>2. QED
    BY <1>4, <2>1, OnlyItsOwn
<1>5. ASSUME NEW r \in Requests, Replaces(r) PROVE Permitted'
  BY <1>5, OnlyItsOwn DEF Replaces, Moves
<1>6. CASE Edited
  BY <1>6 DEF Edited
<1>7. CASE UNCHANGED vars
  BY <1>7 DEF vars
<1>8. QED
  BY <1>1, <1>2, <1>3, <1>4, <1>5, <1>6, <1>7 DEF Next

LEMMA FreshKept == IInv /\ [Next]_vars => Fresh'
<1> SUFFICES ASSUME IInv, [Next]_vars PROVE Fresh'
  OBVIOUS
<1> USE DEF IInv, Typed, Fresh
<1>1. ASSUME NEW r \in Requests, Reads(r) PROVE Fresh'
  BY <1>1, OnlyItsOwn DEF Reads
<1>2. ASSUME NEW r \in Requests, Begins(r) PROVE Fresh'
  <2>1. UNCHANGED <<file, slipped>> /\ request'[r].at # "checked"
    BY <1>2, DecisionOf DEF Begins
  <2>2. QED
    BY <1>2, <2>1, OnlyItsOwn
<1>3. ASSUME NEW r \in Requests, WriteFails(r) PROVE Fresh'
  BY <1>3, OnlyItsOwn DEF WriteFails, Moves
<1>4. ASSUME NEW r \in Requests, Checks(r) PROVE Fresh'
  <2>1. request'[r].at = "checked" => file = request'[r].current
    BY <1>4, DecisionOf
  <2>2. UNCHANGED <<file, slipped>>
    BY <1>4 DEF Checks
  <2>3. QED
    BY <1>4, <2>1, <2>2, OnlyItsOwn
<1>5. ASSUME NEW r \in Requests, Replaces(r) PROVE Fresh'
  <2>1. \A s \in Requests \ {r} : request'[s].at # "checked"
    BY <1>5, OnlyItsOwn DEF Replaces, Exclusive, Inside
  <2>2. QED
    BY <1>5, <2>1 DEF Replaces, Moves
<1>6. CASE Edited
  BY <1>6 DEF Edited
<1>7. CASE UNCHANGED vars
  BY <1>7 DEF vars
<1>8. QED
  BY <1>1, <1>2, <1>3, <1>4, <1>5, <1>6, <1>7 DEF Next

\* The step that replaces the file overwrites what its author has seen: the second read
\* vouches for the file, and the first was allowed.
LEMMA ReplacesWhatWasSeen ==
  ASSUME IInv, [Next]_vars, NEW r \in Requests,
         request[r].at # "replaced", request'[r].at = "replaced", r \notin slipped
  PROVE  IF request[r].expected = NoRevision
         THEN file \in {"missing", "invalid"} /\ request[r].confirmed
         ELSE file = request[r].expected
<1> USE DEF IInv, Typed
<1>1. Replaces(r)
  <2>1. ASSUME NEW s \in Requests, s # r,
               Reads(s) \/ Begins(s) \/ WriteFails(s) \/ Checks(s) \/ Replaces(s)
        PROVE  FALSE
    BY <2>1, OnlyItsOwn
  <2>2. ~Reads(r) /\ ~Begins(r)
    BY DecisionOf DEF Reads
  <2>3. ~WriteFails(r)
    BY DEF WriteFails, Moves, Records
  <2>4. ~Checks(r)
    BY DecisionOf
  <2>5. ~Edited /\ ~UNCHANGED vars
    BY DEF Edited, vars
  <2>6. QED
    BY <2>1, <2>2, <2>3, <2>4, <2>5 DEF Next
<1>2. request[r].at = "checked"
  BY <1>1 DEF Replaces
<1>3. file = request[r].current /\ Allowed(r, file) /\ file \in Contents \cup NotValid
  BY <1>2 DEF Fresh, Permitted, Inside
<1>4. CASE file \in NotValid
  BY <1>3, <1>4 DEF Allowed, NotValid
<1>5. CASE file \in Contents
  <2>1. file \notin NotValid /\ file # NoRevision
    BY <1>5, StatesAssumption, StoreAssumption
  <2>2. request[r].expected = file
    BY <1>3, <2>1 DEF Allowed, NotValid
  <2>3. QED
    BY <2>1, <2>2
<1>6. QED
  BY <1>3, <1>4, <1>5

\* Whichever requests overlap, a replacement overwrites the revision it was made from, or
\* an unusable file its author confirmed (replace() of watchlist_service.py).
THEOREM NothingOverwrittenUnseen == Spec => OverwritesOnlyWhatWasSeen
<1>1. IInv /\ [Next]_vars => IInv'
  BY TypedKept, ExclusiveKept, PermittedKept, FreshKept DEF IInv
<1>2. IInv /\ [Next]_vars =>
        [\A r \in Requests :
            request[r].at # "replaced" /\ request'[r].at = "replaced" /\ r \notin slipped =>
                IF request[r].expected = NoRevision
                THEN file \in {"missing", "invalid"} /\ request[r].confirmed
                ELSE file = request[r].expected]_vars
  BY ReplacesWhatWasSeen
<1>3. QED
  BY InitHolds, <1>1, <1>2, PTL DEF Spec, OverwritesOnlyWhatWasSeen
=============================================================================
