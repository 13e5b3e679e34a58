---------------------------- MODULE ActionSequence ----------------------------
(***************************************************************************)
(* What a list of actions on a button or an event of a form promises: its  *)
(* steps take effect one after another, each once and none left out, until *)
(* all are done, one of them stops the rest, or something fails.           *)
(***************************************************************************)
EXTENDS Naturals, Sequences

CONSTANT Stoppers   \* the kinds of steps that stop the ones after them

VARIABLES
  steps,    \* the kinds of the steps, in order
  shown,    \* the steps that took effect
  status    \* "running", "done" or "rejected"

Init == shown = <<>> /\ status = "running"

(* Some steps take effect, the messages of one check together.             *)
Next ==
  /\ status = "running"
  /\ UNCHANGED steps
  /\ \E k \in Len(shown)..Len(steps) :
       /\ shown' = SubSeq(steps, 1, k)
       /\ \A j \in (Len(shown) + 1)..(k - 1) : steps[j] \notin Stoppers
       /\ status' \in {"running", "rejected"} \cup (IF k = Len(steps) THEN {"done"} ELSE {})
       /\ k > Len(shown) /\ steps[k] \in Stoppers => status' = "rejected"

Spec == Init /\ [][Next]_<<steps, shown, status>>
=============================================================================
