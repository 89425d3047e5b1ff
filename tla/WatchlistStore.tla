--------------------------- MODULE WatchlistStore ---------------------------
(***************************************************************************)
(* WatchlistApplicationService: the watchlist file, read by anybody and    *)
(* replaced by the requests of one web process.  A request carries the     *)
(* revision its author has read; it takes the service's lock, reads the    *)
(* file, writes a sibling file, reads the file again and renames the       *)
(* sibling over it.  Editors and other processes know nothing of the lock. *)
(* A revision is a digest of the contents, so contents stand for it.       *)
(***************************************************************************)
EXTENDS Naturals

CONSTANTS Requests,    \* the calls of replace() (bound)
          Contents,    \* the valid watchlists
          NoRevision,  \* None, the revision of a file that is not valid
          MaxEdits     \* bound: the changes that are made without the service

ASSUME StoreAssumption == MaxEdits \in Nat /\ NoRevision \notin Contents

NotValid == {"missing", "invalid", "unsafe"}
ASSUME StatesAssumption == Contents \cap NotValid = {}

VARIABLES
    file,     \* what WATCHLIST_PATH holds: a valid watchlist, or why it is not one
    request,  \* per request: where it is, what it wants, what it read under the lock
    lock,     \* is self._write_lock held
    edits,    \* how many changes were made without the service
    slipped   \* history: one of them came between a second read and its rename

vars == <<file, request, lock, edits, slipped>>

Revision(found) == IF found \in Contents THEN found ELSE NoRevision

New == [at |-> "new", candidate |-> NoRevision, expected |-> NoRevision,
        confirmed |-> FALSE, current |-> NoRevision]

Init ==
    /\ file \in Contents \cup NotValid
    /\ request = [r \in Requests |-> New]
    /\ lock = FALSE /\ edits = 0 /\ slipped = {}

Moves(r, place) == request' = [request EXCEPT ![r].at = place]

\* The author of a request reads the watchlist, and at some time later sends a
\* candidate with that revision; a candidate that is not valid is refused at once.
Reads(r) ==
    /\ request[r].at = "new"
    /\ \E candidate \in Contents, confirmed \in BOOLEAN :
          request' = [request EXCEPT ![r] =
              [at |-> "waiting", candidate |-> candidate, expected |-> Revision(file),
               confirmed |-> confirmed, current |-> NoRevision]]
    /\ UNCHANGED <<file, lock, edits, slipped>>

\* Variant with a bug: the lock does not keep anybody out.
Entered == TRUE

LockFree == ~lock

\* _assert_replace_allowed
Allowed(r, found) ==
    CASE found = "unsafe" -> FALSE
      [] found \in {"missing", "invalid"} ->
             request[r].expected = NoRevision /\ request[r].confirmed
      [] OTHER -> request[r].expected = found

\* the head of _replace_sync
Begins(r) ==
    /\ request[r].at = "waiting" /\ LockFree
    /\ IF Allowed(r, file)
       THEN /\ lock' = TRUE
            /\ request' = [request EXCEPT ![r].at = "writing", ![r].current = file]
       ELSE Moves(r, "refused") /\ UNCHANGED lock
    /\ UNCHANGED <<file, edits, slipped>>

\* The sibling cannot be written; it is removed, and the file is as it was.
WriteFails(r) ==
    /\ request[r].at \in {"writing", "checked"}
    /\ Moves(r, "refused")
    /\ lock' = FALSE
    /\ UNCHANGED <<file, edits, slipped>>

\* The sibling is written and the file read again: both status and revision must
\* be those of the first read.
SameAs(found, current) ==
    /\ found # "unsafe"
    /\ found = current

Checks(r) ==
    /\ request[r].at = "writing"
    /\ IF SameAs(file, request[r].current)
       THEN Moves(r, "checked") /\ UNCHANGED lock
       ELSE Moves(r, "refused") /\ lock' = FALSE
    /\ UNCHANGED <<file, edits, slipped>>

\* The rename. When the fsync of the directory fails after it, only the answer differs.
Replaces(r) ==
    /\ request[r].at = "checked"
    /\ file' = request[r].candidate
    /\ Moves(r, "replaced")
    /\ lock' = FALSE
    /\ UNCHANGED <<edits, slipped>>

\* An editor, the CLI or another web process.
Edited ==
    /\ edits < MaxEdits
    /\ edits' = edits + 1
    /\ file' \in (Contents \cup NotValid) \ {file}
    /\ slipped' = slipped \cup {r \in Requests : request[r].at = "checked"}
    /\ UNCHANGED <<request, lock>>

Next ==
    \/ \E r \in Requests : Reads(r) \/ Begins(r) \/ WriteFails(r) \/ Checks(r) \/ Replaces(r)
    \/ Edited

Spec == Init /\ [][Next]_vars

\* A replacement overwrites only what its author has read, or a missing or invalid
\* file the author has confirmed to be replaced, whichever requests overlap; the one
\* change that can be lost is an outsider's between the second read and the rename.
OverwritesOnlyWhatWasSeen ==
    [][\A r \in Requests :
          request[r].at # "replaced" /\ request'[r].at = "replaced" /\ r \notin slipped =>
              IF request[r].expected = NoRevision
              THEN file \in {"missing", "invalid"} /\ request[r].confirmed
              ELSE file = request[r].expected]_vars

=============================================================================
