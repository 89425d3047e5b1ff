------------------------- MODULE MessageSettlement ------------------------
(***************************************************************************)
(* What the pipeline promises about a message, without tasks, sessions or  *)
(* transactions: it is stored, it is parsed, and in one step it is settled *)
(* as new or matched together with everything that step stands for. Events *)
(* are announced afterwards, or never. RawMessagePipeline implements this  *)
(* until one message is handled by two tasks at once, which is outside the *)
(* scope of docs/P6-2F (serial repeated calls must be safe), or a COMMIT   *)
(* takes effect and raises all the same.                                   *)
(***************************************************************************)
EXTENDS Naturals, Sequences

CONSTANTS Messages, Resources, Content

VARIABLES
  kept,       \* messages with a raw_messages row
  parse,      \* parse[m]: parse_status
  dedup,      \* dedup[m]: dedup_status
  known,      \* resources with a row
  sources,    \* <<r, m>>: r is attributed to m
  announced   \* events that reached the bus

absVars == <<kept, parse, dedup, known, sources, announced>>

ResourcesOf(m) == {Content[m][i].res : i \in DOMAIN Content[m]}

AbsInit ==
  /\ kept = {}
  /\ parse = [m \in Messages |-> "parse_pending"]
  /\ dedup = [m \in Messages |-> "dedup_pending"]
  /\ known = {} /\ sources = {} /\ announced = {}

Keep(m) ==
  /\ m \notin kept
  /\ kept' = kept \cup {m}
  /\ UNCHANGED <<parse, dedup, known, sources, announced>>

\* A message is parsed once; the outcome depends on its content only.
ParseOnce(m) ==
  /\ m \in kept /\ parse[m] = "parse_pending"
  /\ parse' = [parse EXCEPT ![m] = IF Content[m] = <<>> THEN "parse_failed" ELSE "parsed"]
  /\ UNCHANGED <<kept, dedup, known, sources, announced>>

\* "new" if and only if one of its resources did not exist before this very step.
Settle(m) ==
  /\ parse[m] = "parsed" /\ dedup[m] = "dedup_pending"
  /\ dedup' = [dedup EXCEPT ![m] = IF ResourcesOf(m) \subseteq known THEN "matched" ELSE "new"]
  /\ known' = known \cup ResourcesOf(m)
  /\ sources' = sources \cup {<<r, m>> : r \in ResourcesOf(m)}
  /\ UNCHANGED <<kept, parse, announced>>

\* Creation is announced by the one message that was settled as new, a merge by any.
Announce(kind, r, m) ==
  LET e == [kind |-> kind, res |-> r, msg |-> m]
  IN  /\ e \notin announced
      /\ <<r, m>> \in sources
      /\ kind = "created" => /\ dedup[m] = "new"
                             /\ \A d \in announced : ~(d.kind = "created" /\ d.res = r)
      /\ announced' = announced \cup {e}
      /\ UNCHANGED <<kept, parse, dedup, known, sources>>

AbsNext ==
  \/ \E m \in Messages : Keep(m) \/ ParseOnce(m) \/ Settle(m)
  \/ \E r \in Resources, m \in Messages :
       Announce("created", r, m) \/ Announce("merged", r, m)

AbsSpec == AbsInit /\ [][AbsNext]_absVars
=============================================================================
