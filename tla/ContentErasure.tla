--------------------------- MODULE ContentErasure ---------------------------
(***************************************************************************)
(* What the control plane promises about stored content (ADR 0004, the     *)
(* deletion tasks of models.py): an object can appear only while its       *)
(* reservation is live, retiring it is irrevocable and leaves a durable    *)
(* task, only retired content is removed, and a task is settled as erased  *)
(* only when the object is gone and can never come back.                   *)
(***************************************************************************)
CONSTANT Keys

VARIABLES life, present

vars == <<life, present>>

TypeOK ==
  /\ life \in [Keys -> {"unborn", "live", "retired", "erased", "stranded"}]
  /\ present \subseteq Keys

Init ==
  /\ life = [k \in Keys |-> "unborn"]
  /\ present = {}

Reserve(k) ==
  /\ life[k] = "unborn"
  /\ life' = [life EXCEPT ![k] = "live"]
  /\ UNCHANGED present

Store(k) ==
  /\ life[k] = "live"
  /\ present' = present \cup {k}
  /\ UNCHANGED life

\* a tombstone and its tasks, for everything one transaction retires
Retire(keys) ==
  /\ \A k \in keys : life[k] = "live"
  /\ life' = [k \in Keys |-> IF k \in keys THEN "retired" ELSE life[k]]
  /\ UNCHANGED present

Remove(k) ==
  /\ life[k] = "retired"
  /\ present' = present \ {k}
  /\ UNCHANGED life

\* a maintenance pass settles some tasks as done and gives up on others, whose
\* objects then wait for an operator
Settle(gone, stuck) ==
  /\ \A k \in gone : life[k] = "retired" /\ k \notin present
  /\ \A k \in stuck : life[k] = "retired"
  /\ gone \cap stuck = {}
  /\ life' = [k \in Keys |-> IF k \in gone THEN "erased"
                             ELSE IF k \in stuck THEN "stranded" ELSE life[k]]
  /\ UNCHANGED present

Next ==
  \/ \E k \in Keys : Reserve(k) \/ Store(k) \/ Remove(k)
  \/ \E keys \in SUBSET Keys : Retire(keys)
  \/ \E gone, stuck \in SUBSET Keys : Settle(gone, stuck)

Spec == Init /\ [][Next]_vars

\* What follows from the promise: content outlives neither its reservation nor
\* its task.
NoOrphan == \A k \in present : life[k] \in {"live", "retired", "stranded"}
=============================================================================
