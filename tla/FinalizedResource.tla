------------------------- MODULE FinalizedResource -------------------------
(***************************************************************************)
(* What a finalizer promises.  An object owns external resources; it is    *)
(*   absent   - not stored,                                                *)
(*   new      - stored, without the controller's finalizer,                *)
(*   held     - stored, with the finalizer,                                *)
(*   deleting - stored, with the finalizer and a deletion timestamp.       *)
(* Resources are acquired only while the finalizer is on the object, they  *)
(* are freed only while the object is being deleted, and the finalizer is  *)
(* taken off only when nothing is left.                                    *)
(***************************************************************************)
CONSTANT Resources

VARIABLES meta, owned

vars == <<meta, owned>>

Metas == {"absent", "new", "held", "deleting"}

TypeOK == meta \in Metas /\ owned \in SUBSET Resources

Init == meta \in {"absent", "new"} /\ owned = {}

Create == meta = "absent" /\ meta' = "new" /\ UNCHANGED owned

\* The object may vanish in the same step if it is deleted before it is held.
Discard == meta = "new" /\ meta' = "absent" /\ UNCHANGED owned

Hold == meta = "new" /\ meta' = "held" /\ UNCHANGED owned

RequestDeletion == meta = "held" /\ meta' = "deleting" /\ UNCHANGED owned

Acquire ==
  /\ meta \in {"held", "deleting"}
  /\ \E R \in SUBSET Resources : owned' = owned \cup R
  /\ UNCHANGED meta

Free ==
  /\ meta = "deleting"
  /\ \E r \in owned : owned' = owned \ {r}
  /\ UNCHANGED meta

Release == meta = "deleting" /\ owned = {} /\ meta' = "absent" /\ UNCHANGED owned

Next ==
  \/ Create \/ Discard \/ Hold \/ RequestDeletion
  \/ Acquire \/ Free \/ Release

Spec == Init /\ [][Next]_vars
=============================================================================
