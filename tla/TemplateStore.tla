--------------------------- MODULE TemplateStore ---------------------------
(***************************************************************************)
(* What a user of either driver is promised about the stored templates:    *)
(* they change only by writes that were asked for, a write is asked for    *)
(* only while the user's own operation calls for it, and each has the      *)
(* effect of its kind and no other.  Writes may be queued, refused, or     *)
(* lost with the power; none is invented.                                  *)
(***************************************************************************)
CONSTANTS TemplateSlots, Writes

VARIABLES store,     \* slots that hold a template
          allowed,   \* writes the operations in progress call for; set by them
          asked      \* writes asked for and not yet carried out or dropped

\* A commit fills a slot of the sensor's choice, a delete empties the slot it
\* names, a wipe all of them; the first two may also be refused.
Effects(w, old) ==
  CASE w.cmd = "commit"      -> {old} \cup {old \cup {s} : s \in TemplateSlots}
    [] w.cmd = "delete"      -> {old, old \ {w.slot}}
    [] w.cmd = "wipe_sensor" -> {{}}

Init == store \subseteq TemplateSlots /\ asked = {}

Ask(w) ==
  /\ w \in allowed
  /\ asked' = asked \cup {w}
  /\ store' = store

\* The same write may have been asked for more than once.
Carry(w) ==
  /\ w \in asked
  /\ store' \in Effects(w, store)
  /\ asked' \in {asked, asked \ {w}}

Lose ==
  /\ asked' = {}
  /\ store' = store

Next == (\E w \in Writes : Ask(w) \/ Carry(w)) \/ Lose

Spec == Init /\ [][Next]_<<store, asked>>
=============================================================================
