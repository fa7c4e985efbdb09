---------------------------- MODULE PatchHelper ----------------------------
(***************************************************************************)
(* patch.Helper of Cluster API, which every scope uses.  NewHelper copies  *)
(* the object (before); Patch sends what differs in the changed object     *)
(* (after).  The copy is made once and never refreshed, also when Patch is *)
(* called twice.  meta is absent, new (no finalizer), held (finalizer) or  *)
(* deleting (finalizer and deletion timestamp); a changed object whose     *)
(* finalizer was taken off is released.                                    *)
(***************************************************************************)

\* A merge patch of the finalizer list: it names neither uid nor version.  An
\* object that is being deleted is gone with its last finalizer.
PatchedMeta(wanted, m) ==
  CASE wanted = "held" /\ m = "new" -> "held"
    [] wanted = "released" /\ m = "deleting" -> "absent"
    [] wanted = "released" /\ m = "held" -> "new"
    [] OTHER -> m

\* The fields of o after a patch of those fields: only a field that changed
\* since the copy was made is sent.
Merged(o, before, after, fields) ==
  [f \in DOMAIN o |->
     IF f \notin fields \/ before[f] = after[f] THEN o[f]
     ELSE IF f = "meta" THEN PatchedMeta(after.meta, o.meta)
     ELSE after[f]]

Changes(before, after, fields) == \E f \in fields : before[f] # after[f]
=============================================================================
