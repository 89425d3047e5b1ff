---------------------------- MODULE RetainedLog ----------------------------
(***************************************************************************)
(* What log rotation promises of a file that is written all the time: the  *)
(* lines that were written stay, in whatever files, until the oldest of    *)
(* them expire, and what is in the file itself does not. Of a file that is *)
(* copied and truncated under its writer, and of no other, lines may be    *)
(* lost, and only those that were written while a rotation was between the *)
(* two. No line comes back.                                                *)
(***************************************************************************)
EXTENDS Naturals

CONSTANTS
  Targets,   \* the files that are rotated
  Copied     \* those that are copied and truncated under a writer

VARIABLES
  kept,      \* per target: the lines there are
  open,      \* per target: those in the file that is written
  count,     \* per target: the number of lines written so far
  atRisk     \* of the copied targets: the lines written while one was rotated

vars == <<kept, open, count, atRisk>>

Init ==
  /\ kept = [t \in Targets |-> {}] /\ open = kept /\ atRisk = kept
  /\ count = [t \in Targets |-> 0]

\* A line is written and there from then on; the writer does not know of a rotation.
Append(t) ==
  LET line == count[t] + 1 IN
  /\ count' = [count EXCEPT ![t] = line]
  /\ kept' = [kept EXCEPT ![t] = @ \cup {line}]
  /\ open' = [open EXCEPT ![t] = @ \cup {line}]
  /\ \/ UNCHANGED atRisk
     \/ t \in Copied /\ atRisk' = [atRisk EXCEPT ![t] = @ \cup {line}]

\* The file begins anew; a truncation may take lines that the copy has not.
Rotate(t) ==
  /\ open' = [open EXCEPT ![t] = {}]
  /\ \E S \in SUBSET atRisk[t] : kept' = [kept EXCEPT ![t] = @ \ S]
  /\ UNCHANGED <<count, atRisk>>

\* A rename is taken back.
Restore(t) ==
  /\ t \notin Copied
  /\ \E S \in SUBSET kept[t] : open' = [open EXCEPT ![t] = S]
  /\ UNCHANGED <<kept, count, atRisk>>

\* Retention: the oldest lines go, up to one of them, and none that is still open.
Expire(t) ==
  /\ \E n \in 1 .. count[t] :
       /\ \A m \in open[t] : n < m
       /\ kept' = [kept EXCEPT ![t] = {m \in @ : m > n}]
  /\ UNCHANGED <<open, count, atRisk>>

Next == \E t \in Targets : Append(t) \/ Rotate(t) \/ Restore(t) \/ Expire(t)

Spec == Init /\ [][Next]_vars
=============================================================================
