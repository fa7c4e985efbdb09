------------------------ MODULE VirtualMachineProofs ------------------------
(***************************************************************************)
(* Proofs about VirtualMachine, for every set of error classes and every   *)
(* bound on lag, faults and creations.                                     *)
(***************************************************************************)
EXTENDS VirtualMachine, InformerProofs

-----------------------------------------------------------------------------
(* The order of the versions in a window.                                   *)

\* How one write may change meta, given what is in the window.
LegalWrite(w, v) ==
  \/ v.meta = Stored(w).meta
  \/ Stored(w).meta = "absent" /\ v.meta = "new"
  \/ Stored(w).meta = "new" /\ v.meta = "absent"
  \/ Stored(w).meta = "new" /\ v.meta = "held" /\ DeletionStored(w)
  \/ Stored(w).meta = "held" /\ v.meta = "deleting"
  \/ /\ Stored(w).meta = "deleting" /\ v.meta = "absent"
     /\ NoneHeld(w) /\ NoneDeletedLater(w)

\* Legal writes keep the order of the versions.
LEMMA OrderWritten ==
  ASSUME NEW w \in Windows(Objects), NEW v \in Objects,
         WindowOrder(w), LegalWrite(w, v)
  PROVE  WindowOrder(Written(w, v))
PROOF
<1> DEFINE W == Written(w, v)
           n == Len(w)
<1>1. /\ W \in Windows(Objects) /\ Stored(W) = v
      /\ \A i \in 1..Len(W) :
           \/ i \in 1..n /\ W[i] = w[i]
           \/ i = n + 1 /\ i = Len(W) /\ W[i] = v
  BY WrittenWindow
<1>2. n \in Nat /\ n >= 1 /\ Len(W) \in Nat /\ Stored(w) = w[n]
  BY <1>1, WindowEnds
<1> HIDE DEF W
<1>3. \A i \in 1..Len(W) : W[i].meta = "held" => v.meta \in {"held", "deleting"}
  BY <1>1, <1>2 DEF WindowOrder, LegalWrite, NoneHeld
<1>4. \A i, j \in 1..Len(W) :
        i < j /\ W[i].meta = "deleting" => W[j].meta # "held"
  BY <1>1, <1>2 DEF WindowOrder, LegalWrite, DeletionStored
<1>5. \A i, j, k \in 1..Len(W) :
        i < j /\ j < k /\ W[i].meta = "deleting" /\ W[j].meta # "deleting"
          => W[k].meta # "deleting"
  BY <1>1, <1>2 DEF WindowOrder, LegalWrite
<1>6. \A i, j \in 1..Len(W) :
        i < j /\ Live(W[i]) /\ W[j].meta = "deleting" => v.meta = "deleting"
  BY <1>1, <1>2 DEF WindowOrder, LegalWrite, NoneDeletedLater, DeletionStored, Live
<1> QED
  BY <1>1, <1>3, <1>4, <1>5, <1>6 DEF WindowOrder, W

\* What the path invariants say of the window survives a legal write that does
\* not release the object.
LEMMA PathsWritten ==
  ASSUME NEW w \in Windows(Objects), NEW v \in Objects, LegalWrite(w, v)
  PROVE  /\ NoneHeld(w) /\ v.meta # "held" => NoneHeld(Written(w, v))
         /\ NoneDeletedLater(w) /\ (v.meta = "deleting" => v.meta = Stored(w).meta)
              => NoneDeletedLater(Written(w, v))
         /\ DeletionStored(w) /\ (Stored(w).meta = "deleting" => v.meta = "deleting")
              => DeletionStored(Written(w, v))
PROOF
<1> DEFINE W == Written(w, v)
           n == Len(w)
<1>1. /\ W \in Windows(Objects) /\ Stored(W) = v
      /\ \A i \in 1..Len(W) :
           \/ i \in 1..n /\ W[i] = w[i]
           \/ i = n + 1 /\ i = Len(W) /\ W[i] = v
  BY WrittenWindow
<1>2. n \in Nat /\ n >= 1 /\ Len(W) \in Nat /\ Stored(w) = w[n]
  BY <1>1, WindowEnds
<1> HIDE DEF W
<1>3. ASSUME NoneHeld(w), v.meta # "held" PROVE NoneHeld(W)
  BY <1>1, <1>2, <1>3 DEF NoneHeld
<1>4. ASSUME NoneDeletedLater(w), v.meta = "deleting" => v.meta = Stored(w).meta
      PROVE  NoneDeletedLater(W)
  BY <1>1, <1>2, <1>4 DEF NoneDeletedLater, Live
<1>5. ASSUME DeletionStored(w), Stored(w).meta = "deleting" => v.meta = "deleting"
      PROVE  DeletionStored(W)
  BY <1>1, <1>2, <1>5 DEF DeletionStored
<1> QED
  BY <1>3, <1>4, <1>5 DEF W

\* A watch event keeps them too.
LEMMA OrderTail ==
  ASSUME NEW w \in Windows(Objects), Len(w) > 1
  PROVE  /\ WindowOrder(w) => WindowOrder(Tail(w))
         /\ NoneHeld(w) => NoneHeld(Tail(w))
         /\ NoneDeletedLater(w) => NoneDeletedLater(Tail(w))
         /\ DeletionStored(w) => DeletionStored(Tail(w))
PROOF
<1> DEFINE W == Tail(w)
<1>1. /\ W \in Windows(Objects) /\ Stored(W) = Stored(w)
      /\ \A i \in 1..Len(W) : i + 1 \in 1..Len(w) /\ W[i] = w[i + 1]
  BY TailWindow
<1>2. Len(w) \in Nat /\ Len(W) \in Nat
  BY <1>1, WindowEnds
<1> HIDE DEF W
<1>3. ASSUME WindowOrder(w) PROVE WindowOrder(W)
  <2>1. \A i \in 1..Len(W) : W[i].meta = "held" => Stored(W).meta \in {"held", "deleting"}
    BY <1>1, <1>2, <1>3 DEF WindowOrder
  <2>2. \A i, j \in 1..Len(W) :
          i < j /\ W[i].meta = "deleting" => W[j].meta # "held"
    BY <1>1, <1>2, <1>3 DEF WindowOrder
  <2>3. \A i, j, k \in 1..Len(W) :
          i < j /\ j < k /\ W[i].meta = "deleting" /\ W[j].meta # "deleting"
            => W[k].meta # "deleting"
    <3> TAKE i, j, k \in 1..Len(W)
    <3>1. /\ i + 1 \in 1..Len(w) /\ j + 1 \in 1..Len(w) /\ k + 1 \in 1..Len(w)
          /\ W[i] = w[i + 1] /\ W[j] = w[j + 1] /\ W[k] = w[k + 1]
          /\ (i < j => i + 1 < j + 1) /\ (j < k => j + 1 < k + 1)
      BY <1>1, <1>2
    <3> QED
      BY <1>3, <3>1 DEF WindowOrder
  <2>4. \A i, j \in 1..Len(W) :
          i < j /\ Live(W[i]) /\ W[j].meta = "deleting" => Stored(W).meta = "deleting"
    BY <1>1, <1>2, <1>3 DEF WindowOrder, Live
  <2> QED
    BY <2>1, <2>2, <2>3, <2>4 DEF WindowOrder
<1>4. NoneHeld(w) => NoneHeld(W)
  BY <1>1, <1>2 DEF NoneHeld
<1>5. NoneDeletedLater(w) => NoneDeletedLater(W)
  BY <1>1, <1>2 DEF NoneDeletedLater
<1>6. DeletionStored(w) => DeletionStored(W)
  BY <1>1, <1>2 DEF DeletionStored
<1> QED
  BY <1>3, <1>4, <1>5, <1>6 DEF W

\* A window of one version is in order.
LEMMA OrderRelisted ==
  ASSUME NEW w \in Windows(Objects)
  PROVE  WindowOrder(Relisted(w))
PROOF
<1> DEFINE W == Relisted(w)
<1>1. /\ W \in Windows(Objects) /\ Stored(W) = Stored(w)
      /\ \A i \in 1..Len(W) : i = 1 /\ W[i] = Stored(w)
  BY RelistedWindow
<1>2. Len(W) \in Nat
  BY <1>1, WindowEnds
<1> HIDE DEF W
<1>3. WindowOrder(W)
  BY <1>1, <1>2 DEF WindowOrder
<1> QED
  BY <1>3 DEF W

-----------------------------------------------------------------------------
(* Patches.                                                                 *)

\* What a patch can do to an object: it changes meta only if the object part
\* of the difference is not empty, and Ready only if the status part is not.
LEMMA PatchedObject ==
  ASSUME TypeOK, NEW o \in Objects, NEW parts \in SUBSET Difference
  PROVE  /\ Patched(o, parts) \in Objects
         /\ Patched(o, parts).meta =
              IF "object" \in parts THEN PatchedMeta(after.meta, o.meta) ELSE o.meta
         /\ "object" \in parts => before.meta # after.meta
         /\ Patched(o, parts).ready # o.ready =>
              \/ Patched(o, parts).meta = "absent"
              \/ after.ready # before.ready /\ Patched(o, parts).ready = after.ready
PROOF
<1> DEFINE m == IF "object" \in parts THEN PatchedMeta(after.meta, o.meta) ELSE o.meta
<1>1. m \in {"absent", "new", "held", "deleting"}
  BY DEF PatchedMeta, Objects
<1>2. Absent \in Objects /\ Absent.meta = "absent"
  BY DEF Absent, Empty, Objects, Conditions
<1>3. /\ "status" \in parts => after.ready # before.ready
      /\ "object" \in parts => after.meta # before.meta
  BY DEF Difference
<1>4. /\ after.ready \in BOOLEAN /\ after.running \in Conditions /\ after.readyCond \in Conditions
      /\ o.ready \in BOOLEAN /\ o.running \in Conditions /\ o.readyCond \in Conditions
  BY DEF TypeOK, Copies, Objects
<1>5. CASE m = "absent"
  <2>1. Patched(o, parts) = Absent
    BY <1>5 DEF Patched
  <2> QED
    BY <1>2, <1>3, <1>5, <2>1
<1>6. CASE m # "absent"
  BY <1>1, <1>3, <1>4, <1>6 DEF Patched, Objects
<1> QED
  BY <1>5, <1>6

-----------------------------------------------------------------------------
(* Type correctness.                                                        *)

\* Every reason the error switch sets is a condition value.
LEMMA FailureReasons ==
  \A e \in Errors : ProvisionFailureReason(e) \in Conditions
PROOF
  BY ErrorsAssumption DEF MocErrors, ProvisionFailureReason, Conditions, Reasons

\* The objects the owner and the deletion write are objects.
LEMMA WrittenObjects ==
  /\ Absent \in Objects /\ Absent.meta = "absent" /\ ~Absent.ready
  /\ Absent \in Copies
  /\ Empty("new") \in Objects /\ Empty("new").meta = "new" /\ ~Empty("new").ready
  /\ \A o \in Objects : o \in Copies
PROOF
  BY DEF Absent, Empty, Objects, Copies, Conditions

\* Every step keeps the type, one case per action.
LEMMA TypeStep == TypeOK /\ [Next]_vars => TypeOK'
PROOF
<1> SUFFICES ASSUME TypeOK, [Next]_vars PROVE TypeOK'
  OBVIOUS
<1>w. /\ Stored(window) \in Objects /\ Cached(window) \in Objects
      /\ window \in Windows(Objects) /\ Len(window) \in Nat
      /\ \A v \in Objects : Written(window, v) \in Windows(Objects)
  BY WindowEnds, WrittenWindow DEF TypeOK
<1>p. \A parts \in SUBSET Difference : Patched(Stored(window), parts) \in Objects
  BY <1>w, PatchedObject
<1> USE WrittenObjects
<1>1. CASE CreateObject
  BY <1>1, <1>w DEF CreateObject, TypeOK
<1>2. CASE DeleteObject
  <2>1. [Stored(window) EXCEPT !.meta = "deleting"] \in Objects
    BY <1>w DEF Objects
  <2> QED
    BY <1>2, <1>w, <2>1 DEF DeleteObject, TypeOK
<1>3. CASE Observe
  BY <1>3, <1>w, TailWindow DEF Observe, TypeOK
<1>4. CASE Restart
  BY <1>4, <1>w, RelistedWindow DEF Restart, Fault, TypeOK
<1>5. CASE Reconcile
  <2>1. /\ [Cached(window) EXCEPT !.running = "Deleting"] \in Copies
        /\ [Cached(window) EXCEPT !.meta = "held"] \in Copies
    BY <1>w DEF Objects, Copies, Conditions, Reasons
  <2> QED
    BY <1>5, <1>w, <2>1 DEF Reconcile, TypeOK
<1>6. CASE PatchFinalizer
  BY <1>6, <1>w, <1>p DEF PatchFinalizer, Goto, Fault, TypeOK
<1>7. CASE FindVM
  <2>1. /\ SetVMState(after, SDKToVM) \in Copies
        /\ [after EXCEPT !.running = "VMNotFound"] \in Copies
    BY DEF SetVMState, SDKToVM, TypeOK, Copies, Conditions, Reasons
  <2> QED
    BY <1>7, <2>1 DEF FindVM, Goto, Fault, TypeOK
<1>8. ASSUME NEW effects, effects \subseteq SUBSET MocResources, CreateFails(effects)
      PROVE  TypeOK'
  <2>1. \A e \in Errors :
          setVMProvisionFailure(after, ProvisionFailureReason(e)) \in Copies
    BY FailureReasons DEF setVMProvisionFailure, TypeOK, Copies
  <2>2. moc' \in SUBSET MocResources
    BY <1>8 DEF CreateFails, TypeOK
  <2> QED
    BY <1>8, <2>1, <2>2 DEF CreateFails, Goto, Fault, TypeOK
<1>9. CASE ReconcileNetworkInterface
  <2>1. CASE CreateFails({{}, {"nic"}})
    BY <1>8, <2>1 DEF MocResources
  <2> QED
    BY <1>9, <2>1 DEF ReconcileNetworkInterface, Goto, TypeOK, MocResources
<1>10. CASE CreateVirtualMachine
  <2>1. CASE CreateFails(VMEffects)
    <3>1. VMEffects \subseteq SUBSET MocResources
      BY DEF VMEffects, MocResources
    <3> QED
      BY <1>8, <2>1, <3>1
  <2> QED
    BY <1>10, <2>1 DEF CreateVirtualMachine, Goto, TypeOK, MocResources
<1>11. CASE GetCreatedVM
  <2>1. CASE CreateFails({{}})
    BY <1>8, <2>1 DEF MocResources
  <2>2. SetVMState(after, SDKToVM) \in Copies
    BY DEF SetVMState, SDKToVM, TypeOK, Copies, Conditions
  <2> QED
    BY <1>11, <2>1, <2>2 DEF GetCreatedVM, Goto, TypeOK
<1>12. CASE WaitVolumeAttachments
  BY <1>12 DEF WaitVolumeAttachments, Goto, TypeOK
<1>13. CASE DeleteVM \/ DeleteNIC \/ DeleteDisk
  <2>1. /\ [after EXCEPT !.running = "DeletionFailed"] \in Copies
        /\ [after EXCEPT !.meta = "released"] \in Copies
    BY DEF TypeOK, Copies, Conditions, Reasons
  <2> QED
    BY <1>13, <2>1 DEF DeleteVM, DeleteNIC, DeleteDisk, DeleteResource, Goto, Fault, TypeOK
<1>14. CASE Close
  BY <1>14, <1>w, <1>p DEF Close, Fault, TypeOK
<1>15. CASE UNCHANGED vars
  BY <1>15 DEF vars, TypeOK
<1> QED
  BY <1>1, <1>2, <1>3, <1>4, <1>5, <1>6, <1>7, <1>9, <1>10, <1>11, <1>12, <1>13,
     <1>14, <1>15 DEF Next, Controller

\* The initial state, before the owner creates the object, is typed.
LEMMA TypeInit == Init => TypeOK
PROOF
<1>1. <<Absent>> \in Windows(Objects)
  BY WrittenObjects DEF Windows
<1> QED
  BY <1>1, WrittenObjects DEF Init, TypeOK

\* Every run keeps the state in its type: whatever the errors and the bounds.
THEOREM TypeCorrect == Spec => []TypeOK
PROOF
  BY TypeInit, TypeStep, PTL DEF Spec

-----------------------------------------------------------------------------
(* The inductive invariant, one lemma per kind of step.                     *)

\* Steps of the owner, the watch and a restart.
LEMMA EnvironmentStep ==
  InductiveInvariant /\ (CreateObject \/ DeleteObject \/ Observe \/ Restart)
    => InductiveInvariant'
PROOF
<1> SUFFICES ASSUME InductiveInvariant, CreateObject \/ DeleteObject \/ Observe \/ Restart
             PROVE  InductiveInvariant'
  OBVIOUS
<1>t. TypeOK /\ TypeOK'
  BY TypeStep DEF InductiveInvariant, Next
<1>w. /\ window \in Windows(Objects)
      /\ Stored(window) \in Objects /\ Len(window) \in Nat
      /\ WindowOrder(window)
  BY <1>t, WindowEnds DEF TypeOK, InductiveInvariant
\* What a write must satisfy while the controller stands still.
<1>1. ASSUME NEW v \in Objects, LegalWrite(window, v),
             window' = Written(window, v),
             v.meta = "held" => Stored(window).meta = "held",
             v.meta = "absent" => Stored(window).meta # "deleting",
             v.meta = "new" => ~v.ready,
             Stored(window).meta \in {"held", "deleting"} => v.meta = "deleting",
             v.meta = "deleting" => Stored(window).meta \in {"held", "deleting"},
             UNCHANGED <<moc, pc, before, after>>
      PROVE  InductiveInvariant'
  <2>1. Stored(window') = v /\ WindowOrder(window')
    BY <1>1, <1>w, OrderWritten, WrittenWindow
  <2>2. DeletePath'
    BY <1>1, <1>w, <2>1, PathsWritten, WindowEnds DEF InductiveInvariant, DeletePath, NoneHeld
  <2>3. NormalPath'
    BY <1>1, <1>w, <2>1, PathsWritten DEF InductiveInvariant, NormalPath, LegalWrite
  <2>4. NoOrphan' /\ VMBacked' /\ ReadyMeansProvisioned'
    BY <1>1, <2>1 DEF InductiveInvariant, NoOrphan, VMBacked, ReadyMeansProvisioned, LegalWrite
  <2> QED
    BY <1>1, <1>t, <2>1, <2>2, <2>3, <2>4 DEF InductiveInvariant
<1>2. CASE CreateObject
  BY <1>1, <1>2, WrittenObjects DEF CreateObject, LegalWrite
<1>3. CASE DeleteObject
  <2>1. CASE Stored(window).meta = "new"
    BY <1>1, <1>3, <2>1, WrittenObjects DEF DeleteObject, LegalWrite
  <2>2. CASE Stored(window).meta = "held"
    <3> DEFINE v == [Stored(window) EXCEPT !.meta = "deleting"]
    <3>1. v \in Objects /\ v.meta = "deleting"
      BY <1>w DEF Objects
    <3>2. /\ window' = Written(window, v)
          /\ UNCHANGED <<moc, pc, before, after>>
      BY <1>3, <2>2 DEF DeleteObject
    <3> HIDE DEF v
    <3> QED
      BY <1>1, <2>2, <3>1, <3>2 DEF LegalWrite
  <2> QED
    BY <1>3, <2>1, <2>2 DEF DeleteObject
<1>4. CASE Observe
  <2>1. /\ Stored(window') = Stored(window)
        /\ WindowOrder(window')
        /\ NoneHeld(window) => NoneHeld(window')
        /\ NoneDeletedLater(window) => NoneDeletedLater(window')
        /\ DeletionStored(window) => DeletionStored(window')
    BY <1>4, <1>w, TailWindow, OrderTail DEF Observe
  <2>2. UNCHANGED <<moc, pc, before, after>>
    BY <1>4 DEF Observe
  <2> QED
    BY <1>t, <2>1, <2>2
    DEF InductiveInvariant, NoOrphan, VMBacked, ReadyMeansProvisioned, DeletePath, NormalPath
<1>5. CASE Restart
  <2>1. Stored(window') = Stored(window) /\ WindowOrder(window')
    BY <1>5, <1>w, RelistedWindow, OrderRelisted DEF Restart
  <2>2. pc' = "idle" /\ UNCHANGED moc
    BY <1>5 DEF Restart
  <2> QED
    BY <1>t, <2>1, <2>2
    DEF InductiveInvariant, NoOrphan, VMBacked, ReadyMeansProvisioned, DeletePath, NormalPath
<1> QED
  BY <1>2, <1>3, <1>4, <1>5

\* A reconcile starts from the cached version: what the window says of it is
\* what the two path invariants need.
LEMMA ReconcileStep == InductiveInvariant /\ Reconcile => InductiveInvariant'
PROOF
<1> SUFFICES ASSUME InductiveInvariant, Reconcile PROVE InductiveInvariant'
  OBVIOUS
<1> DEFINE c == Cached(window)
<1>t. TypeOK /\ TypeOK'
  BY TypeStep DEF InductiveInvariant, Next, Controller
<1>w. /\ Len(window) \in Nat /\ Len(window) >= 1 /\ c = window[1] /\ c \in Objects
      /\ WindowOrder(window)
      /\ Stored(window) = window[Len(window)]
  BY <1>t, WindowEnds DEF TypeOK, InductiveInvariant
<1>u. UNCHANGED <<window, moc>> /\ before' = c
  BY DEF Reconcile
<1> HIDE DEF c
<1>1. c.meta = "deleting" => NoneHeld(window) /\ NoneDeletedLater(window)
  <2> SUFFICES ASSUME c.meta = "deleting" PROVE NoneHeld(window) /\ NoneDeletedLater(window)
    OBVIOUS
  <2>1. \A i \in 1..Len(window) : i = 1 \/ 1 < i
    BY <1>w
  <2>2. NoneHeld(window)
    BY <1>w, <2>1 DEF WindowOrder, NoneHeld
  <2>3. NoneDeletedLater(window)
    BY <1>w, <2>1 DEF WindowOrder, NoneDeletedLater, Live
  <2> QED
    BY <2>2, <2>3
<1>2. Live(c) => DeletionStored(window)
  <2>1. \A i \in 1..Len(window) : i = 1 \/ 1 < i
    BY <1>w
  <2> QED
    BY <1>w, <2>1 DEF WindowOrder, DeletionStored, Live
<1>3. c.meta = "held" => Stored(window).meta \in {"held", "deleting"}
  BY <1>w DEF WindowOrder
<1>4. CASE c.meta = "absent"
  <2>1. pc' = "idle"
    BY <1>4 DEF Reconcile, c
  <2> QED
    BY <1>t, <1>u, <2>1
    DEF InductiveInvariant, NoOrphan, VMBacked, ReadyMeansProvisioned, DeletePath, NormalPath
<1>5. CASE c.meta = "deleting"
  <2>1. pc' = "volumes" /\ after' = [c EXCEPT !.running = "Deleting"]
    BY <1>5 DEF Reconcile, c
  <2>2. after'.meta = "deleting" /\ after'.ready = c.ready
    BY <1>5, <1>w, <2>1 DEF Objects
  <2>3. DeletePath'
    BY <1>1, <1>5, <1>u, <2>1, <2>2 DEF DeletePath
  <2> QED
    BY <1>5, <1>t, <1>u, <2>3
    DEF InductiveInvariant, NoOrphan, VMBacked, ReadyMeansProvisioned, NormalPath
<1>6. CASE c.meta \in {"new", "held"}
  <2>1. pc' = "finalizer" /\ after' = [c EXCEPT !.meta = "held"]
    BY <1>6 DEF Reconcile, c
  <2>2. after'.meta = "held" /\ after'.ready = c.ready
    BY <1>w, <2>1 DEF Objects
  <2>3. NormalPath'
    BY <1>2, <1>3, <1>6, <1>u, <2>1, <2>2 DEF NormalPath, Live
  <2> QED
    BY <1>6, <1>t, <1>u, <2>3
    DEF InductiveInvariant, NoOrphan, VMBacked, ReadyMeansProvisioned, DeletePath
<1> QED
  BY <1>4, <1>5, <1>6, <1>w DEF Objects

\* After the finalizer step the stored object has the finalizer.
LEMMA PatchFinalizerStep == InductiveInvariant /\ PatchFinalizer => InductiveInvariant'
PROOF
<1> SUFFICES ASSUME InductiveInvariant, PatchFinalizer PROVE InductiveInvariant'
  OBVIOUS
<1> DEFINE o == Stored(window)
           v == Patched(o, Difference)
<1>t. TypeOK /\ TypeOK'
  BY TypeStep DEF InductiveInvariant, Next, Controller
<1>w. window \in Windows(Objects) /\ o \in Objects /\ WindowOrder(window)
  BY <1>t, WindowEnds DEF TypeOK, InductiveInvariant
<1>n. /\ before.meta # "deleting" /\ Live(before) /\ after.meta = "held"
      /\ after.ready = before.ready /\ DeletionStored(window)
      /\ before.meta = "held" => o.meta \in {"held", "deleting"}
  BY DEF InductiveInvariant, DeletePath, NormalPath, PatchFinalizer
<1>u. UNCHANGED <<moc, before, after>>
  BY DEF PatchFinalizer, Goto
<1>1. CASE UNCHANGED window /\ pc' = "close"
  BY <1>1, <1>n, <1>t, <1>u
  DEF InductiveInvariant, NoOrphan, VMBacked, ReadyMeansProvisioned, DeletePath, NormalPath
<1>2. CASE /\ Difference = {} \/ o.meta # "absent"
           /\ window' = Written(window, v)
           /\ pc' = "find"
  <2>1. v \in Objects /\ (v.meta = "absent" \/ v.ready = o.ready)
    BY <1>t, <1>w, <1>n, PatchedObject
  <2>2. v.meta = IF o.meta = "new" THEN "held" ELSE o.meta
    <3>1. Difference = {} => before.meta = after.meta
      BY DEF Difference
    <3>2. before.meta = "new" => "object" \in Difference
      BY <1>n DEF Difference
    <3>3. PatchedMeta(after.meta, o.meta) = IF o.meta = "new" THEN "held" ELSE o.meta
      BY <1>n DEF PatchedMeta
    <3>4. v.meta = IF "object" \in Difference THEN PatchedMeta(after.meta, o.meta) ELSE o.meta
      BY <1>t, <1>w, PatchedObject
    <3> QED
      BY <1>2, <1>n, <3>1, <3>2, <3>3, <3>4 DEF Live
  <2>3. v.meta \in {"held", "deleting"}
    <3>1. Difference = {} => before.meta = after.meta
      BY DEF Difference
    <3> QED
      BY <1>2, <1>n, <1>w, <2>2, <3>1 DEF Objects
  <2> HIDE DEF v
  <2>4. LegalWrite(window, v)
    BY <1>n, <2>2 DEF LegalWrite
  <2>5. Stored(window') = v /\ WindowOrder(window') /\ DeletionStored(window')
    BY <1>2, <1>n, <1>w, <2>1, <2>2, <2>4, OrderWritten, PathsWritten, WrittenWindow
  <2>6. NormalPath'
    BY <1>2, <1>n, <1>u, <2>3, <2>5 DEF NormalPath
  <2>7. v.meta = "held" /\ v.ready => "vm" \in moc
    BY <2>1, <2>2 DEF InductiveInvariant, ReadyMeansProvisioned
  <2> QED
    BY <1>n, <1>t, <1>u, <2>3, <2>5, <2>6, <2>7
    DEF InductiveInvariant, NoOrphan, VMBacked, ReadyMeansProvisioned, DeletePath
<1> QED
  BY <1>1, <1>2 DEF PatchFinalizer, Goto

\* The steps that query and create in MOC, between the finalizer and Close.
LEMMA CreateStep ==
  InductiveInvariant
    /\ (FindVM \/ ReconcileNetworkInterface \/ CreateVirtualMachine \/ GetCreatedVM)
    => InductiveInvariant'
PROOF
<1> SUFFICES ASSUME InductiveInvariant,
                    FindVM \/ ReconcileNetworkInterface \/ CreateVirtualMachine \/ GetCreatedVM
             PROVE  InductiveInvariant'
  OBVIOUS
<1>t. TypeOK /\ TypeOK'
  BY TypeStep DEF InductiveInvariant, Next, Controller
<1>p. pc \in {"find", "nic", "create", "get"}
  BY DEF FindVM, ReconcileNetworkInterface, CreateVirtualMachine, GetCreatedVM
<1>n. /\ before.meta # "deleting" /\ Live(before) /\ after.meta = "held"
      /\ after.ready = before.ready /\ DeletionStored(window)
      /\ Stored(window).meta \in {"held", "deleting"}
  BY <1>p DEF InductiveInvariant, DeletePath, NormalPath
\* What all of them do: resources are added, the copy stays held, and it turns
\* ready only when the machine exists.
<1>1. ASSUME UNCHANGED <<window, before>>,
             moc \subseteq moc', VMBacked',
             pc' \in {"nic", "create", "get", "close"},
             after'.meta = "held",
             after'.ready # after.ready => pc' = "close" /\ after'.ready /\ "vm" \in moc
      PROVE  InductiveInvariant'
  <2>1. NormalPath' /\ DeletePath'
    BY <1>1, <1>n DEF NormalPath, DeletePath
  <2>2. NoOrphan' /\ ReadyMeansProvisioned'
    BY <1>1, <1>n DEF InductiveInvariant, NoOrphan, ReadyMeansProvisioned
  <2> QED
    BY <1>1, <1>t, <2>1, <2>2 DEF InductiveInvariant
<1>2. /\ SetVMState(after, SDKToVM).meta = "held" /\ SetVMState(after, SDKToVM).ready
      /\ [after EXCEPT !.running = "VMNotFound"].meta = "held"
      /\ [after EXCEPT !.running = "VMNotFound"].ready = after.ready
      /\ \A r : /\ setVMProvisionFailure(after, r).meta = "held"
                /\ setVMProvisionFailure(after, r).ready = after.ready
  BY <1>n, <1>t DEF TypeOK, Copies, SetVMState, SDKToVM, setVMProvisionFailure
<1>b. VMBacked
  BY DEF InductiveInvariant
<1>3. ASSUME NEW effects, CreateFails(effects),
             \A made \in effects : "vm" \in made => "disk" \in made /\ "nic" \in moc
      PROVE  InductiveInvariant'
  <2>1. PICK made \in effects : moc' = moc \cup made
    BY <1>3 DEF CreateFails
  <2>2. moc \subseteq moc' /\ VMBacked'
    BY <1>3, <1>b, <2>1 DEF VMBacked
  <2>3. /\ UNCHANGED <<window, before>> /\ pc' = "close"
        /\ after'.meta = "held" /\ after'.ready = after.ready
    BY <1>2, <1>3 DEF CreateFails, Goto
  <2> QED
    BY <1>1, <2>2, <2>3
<1>4. CASE FindVM
  <2>1. VMBacked' /\ moc' = moc
    BY <1>4, <1>b DEF FindVM, VMBacked
  <2>2. /\ UNCHANGED <<window, before>> /\ pc' \in {"nic", "close"}
        /\ after'.meta = "held"
        /\ after'.ready # after.ready => pc' = "close" /\ after'.ready /\ "vm" \in moc
    BY <1>4, <1>2, <1>n DEF FindVM, Goto
  <2> QED
    BY <1>1, <2>1, <2>2
<1>5. CASE ReconcileNetworkInterface
  <2>1. CASE CreateFails({{}, {"nic"}})
    BY <1>3, <2>1
  <2>2. CASE /\ moc' = moc \cup {"nic"}
             /\ Goto("create", after) /\ UNCHANGED <<window, faults>>
    <3>1. VMBacked' /\ moc \subseteq moc'
      BY <1>b, <2>2 DEF VMBacked
    <3> QED
      BY <1>1, <1>n, <2>2, <3>1 DEF Goto
  <2> QED
    BY <1>5, <2>1, <2>2 DEF ReconcileNetworkInterface
<1>6. CASE CreateVirtualMachine
  <2>1. CASE CreateFails(VMEffects)
    <3>1. \A made \in VMEffects : "vm" \in made => "disk" \in made /\ "nic" \in moc
      BY DEF VMEffects
    <3> QED
      BY <1>3, <2>1, <3>1
  <2>2. CASE Goto("get", after) /\ UNCHANGED <<window, moc, faults>>
    <3>1. VMBacked' /\ moc \subseteq moc'
      BY <1>b, <2>2 DEF VMBacked
    <3> QED
      BY <1>1, <1>n, <2>2, <3>1 DEF Goto
  <2>3. CASE /\ "nic" \in moc /\ moc' = moc \cup {"disk", "vm"}
             /\ Goto("get", after) /\ UNCHANGED <<window, faults>>
    <3>1. VMBacked' /\ moc \subseteq moc'
      BY <2>3 DEF VMBacked
    <3> QED
      BY <1>1, <1>n, <2>3, <3>1 DEF Goto
  <2> QED
    BY <1>6, <2>1, <2>2, <2>3 DEF CreateVirtualMachine
<1>7. CASE GetCreatedVM
  <2>1. CASE CreateFails({{}})
    BY <1>3, <2>1
  <2>2. CASE /\ "vm" \in moc /\ Goto("close", SetVMState(after, SDKToVM))
             /\ UNCHANGED <<window, moc, faults>>
    <3>1. VMBacked' /\ moc \subseteq moc'
      BY <1>b, <2>2 DEF VMBacked
    <3> QED
      BY <1>1, <1>2, <1>n, <2>2, <3>1 DEF Goto
  <2> QED
    BY <1>7, <2>1, <2>2 DEF GetCreatedVM
<1> QED
  BY <1>4, <1>5, <1>6, <1>7

\* The steps of a deletion.
LEMMA DeleteStep ==
  InductiveInvariant /\ (WaitVolumeAttachments \/ DeleteVM \/ DeleteNIC \/ DeleteDisk)
    => InductiveInvariant'
PROOF
<1> SUFFICES ASSUME InductiveInvariant,
                    WaitVolumeAttachments \/ DeleteVM \/ DeleteNIC \/ DeleteDisk
             PROVE  InductiveInvariant'
  OBVIOUS
<1>t. TypeOK /\ TypeOK'
  BY TypeStep DEF InductiveInvariant, Next, Controller
<1>p. pc \in {"volumes", "deleteVM", "deleteNIC", "deleteDisk"}
  BY DEF WaitVolumeAttachments, DeleteVM, DeleteNIC, DeleteDisk, DeleteResource
<1>d. /\ before.meta = "deleting" /\ after.meta = "deleting"
      /\ after.ready = before.ready
      /\ NoneHeld(window) /\ NoneDeletedLater(window)
      /\ pc = "deleteNIC" => "vm" \notin moc
      /\ pc = "deleteDisk" => moc \subseteq {"disk"}
  BY <1>p DEF InductiveInvariant, DeletePath, NormalPath
<1>s. Stored(window).meta # "held"
  BY <1>d, <1>t, WindowEnds DEF TypeOK, NoneHeld
<1>1. ASSUME UNCHANGED <<window, before>>,
             moc' \subseteq moc, VMBacked',
             pc' \in {"deleteVM", "deleteNIC", "deleteDisk", "close"},
             after'.ready = after.ready,
             after'.meta \in {"deleting", "released"},
             after'.meta = "released" => pc' = "close" /\ moc' = {},
             pc' = "deleteNIC" => "vm" \notin moc',
             pc' = "deleteDisk" => moc' \subseteq {"disk"}
      PROVE  InductiveInvariant'
  <2>1. DeletePath' /\ NormalPath'
    BY <1>1, <1>d DEF DeletePath, NormalPath
  <2>2. NoOrphan' /\ ReadyMeansProvisioned'
    BY <1>1, <1>s DEF InductiveInvariant, NoOrphan, ReadyMeansProvisioned
  <2> QED
    BY <1>1, <1>t, <2>1, <2>2 DEF InductiveInvariant
<1>2. /\ [after EXCEPT !.running = "DeletionFailed"].meta = "deleting"
      /\ [after EXCEPT !.running = "DeletionFailed"].ready = after.ready
      /\ [after EXCEPT !.meta = "released"].meta = "released"
      /\ [after EXCEPT !.meta = "released"].ready = after.ready
  BY <1>d, <1>t DEF TypeOK, Copies
<1>b. VMBacked /\ moc \subseteq {"vm", "nic", "disk"}
  BY <1>t DEF InductiveInvariant, TypeOK, MocResources
<1>3. CASE WaitVolumeAttachments
  <2>1. VMBacked' /\ moc' \subseteq moc
    BY <1>3, <1>b DEF WaitVolumeAttachments, VMBacked
  <2> QED
    BY <1>1, <1>3, <1>d, <2>1 DEF WaitVolumeAttachments, Goto
<1>4. CASE DeleteVM
  <2>1. VMBacked' /\ moc' \subseteq moc
    BY <1>4, <1>b DEF DeleteVM, DeleteResource, VMBacked
  <2> QED
    BY <1>1, <1>2, <1>4, <1>d, <2>1 DEF DeleteVM, DeleteResource, Goto
<1>5. CASE DeleteNIC
  <2>1. "vm" \notin moc /\ moc' \subseteq moc
    BY <1>5, <1>d DEF DeleteNIC, DeleteResource
  <2>2. VMBacked'
    BY <2>1 DEF VMBacked
  <2>3. pc' = "deleteDisk" => moc' \subseteq {"disk"}
    BY <1>5, <1>b, <2>1 DEF DeleteNIC, DeleteResource, Goto
  <2> QED
    BY <1>1, <1>2, <1>5, <1>d, <2>1, <2>2, <2>3 DEF DeleteNIC, DeleteResource, Goto
<1>6. CASE DeleteDisk
  <2>1. moc \subseteq {"disk"} /\ moc' \subseteq moc
    BY <1>6, <1>d DEF DeleteDisk, DeleteResource
  <2>2. VMBacked'
    BY <2>1 DEF VMBacked
  <2>3. after'.meta = "released" => moc' = {}
    BY <1>2, <1>6, <2>1 DEF DeleteDisk, DeleteResource, Goto
  <2> QED
    BY <1>1, <1>2, <1>6, <1>d, <2>1, <2>2, <2>3 DEF DeleteDisk, DeleteResource, Goto
<1> QED
  BY <1>3, <1>4, <1>5, <1>6

\* What Close writes: it may put the finalizer on, or take it off an object that
\* owns nothing any more, or leave meta alone.
LEMMA CloseWrites ==
  ASSUME InductiveInvariant, Close
  PROVE  \E v \in Objects :
           /\ window' = Written(window, v) /\ Stored(window') = v
           /\ LegalWrite(window, v)
           /\ \/ v.meta = Stored(window).meta
              \/ Stored(window).meta = "new" /\ v.meta = "held"
              \/ Stored(window).meta = "deleting" /\ v.meta = "absent" /\ moc = {}
           /\ \/ v.meta = "absent"
              \/ v.ready = Stored(window).ready
              \/ Stored(window).meta \in {"held", "deleting"} /\ "vm" \in moc
PROOF
<1> DEFINE o == Stored(window)
<1>t. TypeOK
  BY DEF InductiveInvariant
<1>w. /\ window \in Windows(Objects) /\ o \in Objects
      /\ o.meta \in {"absent", "new", "held", "deleting"}
      /\ o = window[Len(window)] /\ Len(window) \in 1..Len(window)
  <2>1. window \in Windows(Objects)
    BY <1>t DEF TypeOK
  <2>2. o \in Objects /\ o = window[Len(window)] /\ Len(window) \in 1..Len(window)
    BY <2>1, WindowEnds
  <2>3. o.meta \in {"absent", "new", "held", "deleting"}
    BY <2>2 DEF Objects
  <2> QED
    BY <2>1, <2>2, <2>3
<1> HIDE DEF o
<1>1. PICK parts \in SUBSET Difference : window' = Written(window, Patched(o, parts))
  BY DEF Close, o
<1> DEFINE v == Patched(o, parts)
<1>2. /\ v \in Objects
      /\ v.meta = IF "object" \in parts THEN PatchedMeta(after.meta, o.meta) ELSE o.meta
      /\ "object" \in parts => before.meta # after.meta
      /\ v.ready # o.ready =>
           \/ v.meta = "absent"
           \/ after.ready # before.ready /\ v.ready = after.ready
  BY <1>t, <1>w, PatchedObject
<1> HIDE DEF v
<1>3. Stored(window') = v /\ window' = Written(window, v)
  BY <1>1, <1>2, <1>w, WrittenWindow DEF v
<1>4. pc = "close"
  BY DEF Close
<1>5. CASE before.meta = "deleting"
  <2>1. /\ NoneHeld(window) /\ NoneDeletedLater(window)
        /\ after.ready = before.ready /\ after.meta \in {"deleting", "released"}
        /\ after.meta = "released" => moc = {}
    BY <1>4, <1>5 DEF InductiveInvariant, DeletePath
  <2>2. o.meta # "held"
    BY <1>w, <2>1 DEF NoneHeld
  <2>3. \/ v.meta = o.meta
        \/ o.meta = "deleting" /\ v.meta = "absent" /\ moc = {}
    BY <1>2, <1>w, <2>1, <2>2 DEF PatchedMeta
  <2>4. LegalWrite(window, v)
    BY <2>1, <2>3 DEF LegalWrite, o
  <2> QED
    BY <1>2, <1>3, <2>1, <2>3, <2>4 DEF o
<1>6. CASE before.meta # "deleting"
  <2>1. /\ after.meta = "held" /\ DeletionStored(window)
        /\ after.ready # before.ready => o.meta \in {"held", "deleting"} /\ "vm" \in moc
    BY <1>4, <1>6 DEF InductiveInvariant, NormalPath, o
  <2>2. v.meta = o.meta \/ (o.meta = "new" /\ v.meta = "held")
    BY <1>2, <1>w, <2>1 DEF PatchedMeta
  <2>3. LegalWrite(window, v)
    BY <2>1, <2>2 DEF LegalWrite, o
  <2> QED
    BY <1>2, <1>3, <2>1, <2>2, <2>3 DEF o
<1> QED
  BY <1>5, <1>6

\* Close and its partial failures keep the invariant.
LEMMA CloseStep == InductiveInvariant /\ Close => InductiveInvariant'
PROOF
<1> SUFFICES ASSUME InductiveInvariant, Close PROVE InductiveInvariant'
  OBVIOUS
<1>t. TypeOK /\ TypeOK'
  BY TypeStep DEF InductiveInvariant, Next, Controller
<1>1. PICK v \in Objects :
           /\ window' = Written(window, v) /\ Stored(window') = v
           /\ LegalWrite(window, v)
           /\ \/ v.meta = Stored(window).meta
              \/ Stored(window).meta = "new" /\ v.meta = "held"
              \/ Stored(window).meta = "deleting" /\ v.meta = "absent" /\ moc = {}
           /\ \/ v.meta = "absent"
              \/ v.ready = Stored(window).ready
              \/ Stored(window).meta \in {"held", "deleting"} /\ "vm" \in moc
  BY CloseWrites
<1>2. pc' = "idle" /\ UNCHANGED moc
  BY DEF Close
<1>3. WindowOrder(window')
  BY <1>1, <1>t, OrderWritten DEF InductiveInvariant, TypeOK
<1>4. NoOrphan' /\ VMBacked' /\ ReadyMeansProvisioned'
  BY <1>1, <1>2 DEF InductiveInvariant, NoOrphan, VMBacked, ReadyMeansProvisioned
<1>5. v.meta = "new" => ~v.ready
  BY <1>1 DEF InductiveInvariant
<1>6. DeletePath' /\ NormalPath'
  BY <1>2 DEF DeletePath, NormalPath
<1> QED
  BY <1>1, <1>t, <1>3, <1>4, <1>5, <1>6 DEF InductiveInvariant

-----------------------------------------------------------------------------
(* The theorems.                                                            *)

\* With nothing stored and nothing in MOC the invariant holds.
LEMMA InvariantInit == Init => InductiveInvariant
PROOF
<1> SUFFICES ASSUME Init PROVE InductiveInvariant
  OBVIOUS
<1>1. /\ Stored(window) = Absent /\ Len(window) = 1 /\ window[1] = Absent
      /\ moc = {} /\ pc = "idle"
  BY DEF Init, Stored
<1>2. WindowOrder(window)
  BY <1>1, WrittenObjects DEF WindowOrder
<1> QED
  BY <1>1, <1>2, TypeInit, WrittenObjects
  DEF InductiveInvariant, NoOrphan, VMBacked, ReadyMeansProvisioned, DeletePath, NormalPath

\* Every step of Next keeps the invariant: the lemmas above, combined.
LEMMA InvariantStep == InductiveInvariant /\ [Next]_vars => InductiveInvariant'
PROOF
<1>1. ASSUME InductiveInvariant, UNCHANGED vars PROVE InductiveInvariant'
  BY <1>1 DEF vars, InductiveInvariant, TypeOK, NoOrphan, VMBacked, ReadyMeansProvisioned,
              DeletePath, NormalPath
<1> QED
  BY <1>1, EnvironmentStep, ReconcileStep, PatchFinalizerStep, CreateStep, DeleteStep, CloseStep
  DEF Next, Controller

\* The inductive invariant holds in every run.
THEOREM InvariantHolds == Spec => []InductiveInvariant
PROOF
  BY InvariantInit, InvariantStep, PTL DEF Spec

\* No virtual machine, NIC or disk is ever left in MOC without a finalizer on
\* the stored object, for any error, staleness, restart or re-creation.
THEOREM NoOrphanHolds == Spec => []NoOrphan
PROOF
<1>1. InductiveInvariant => NoOrphan
  BY DEF InductiveInvariant
<1> QED
  BY <1>1, InvariantHolds, PTL

\* A machine in MOC always has its NIC and its disk.
THEOREM VMBackedHolds == Spec => []VMBacked
PROOF
<1>1. InductiveInvariant => VMBacked
  BY DEF InductiveInvariant
<1> QED
  BY <1>1, InvariantHolds, PTL

\* Status.Ready of an object that is not being deleted is backed by a machine.
THEOREM ReadyHolds == Spec => []ReadyMeansProvisioned
PROOF
<1>1. InductiveInvariant => ReadyMeansProvisioned
  BY DEF InductiveInvariant
<1> QED
  BY <1>1, InvariantHolds, PTL

-----------------------------------------------------------------------------
(* Refinement.                                                              *)

\* Every step of the controller and its environment is a step of the finalizer
\* protocol or leaves the stored meta and the resources alone.
LEMMA ProtocolStep ==
  InductiveInvariant /\ [Next]_vars => [Finalized!Next]_(Finalized!vars)
PROOF
<1> SUFFICES ASSUME InductiveInvariant, [Next]_vars
             PROVE  [Finalized!Next]_(Finalized!vars)
  OBVIOUS
<1> DEFINE m == Stored(window).meta
           n == Stored(window').meta
<1>t. TypeOK /\ window \in Windows(Objects) /\ moc \subseteq MocResources
  BY DEF InductiveInvariant, TypeOK
<1>w. /\ Stored(window) \in Objects /\ Stored(window) = window[Len(window)]
      /\ Len(window) \in 1..Len(window)
      /\ \A v \in Objects : Stored(Written(window, v)) = v
  BY <1>t, WindowEnds, WrittenWindow
\* The abstract steps, in terms of the stored meta before and after.
<1>1. ASSUME moc' = moc,
             \/ n = m
             \/ m = "absent" /\ n = "new"
             \/ m = "new" /\ n \in {"absent", "held"}
             \/ m = "held" /\ n = "deleting"
             \/ m = "deleting" /\ n = "absent" /\ moc = {}
      PROVE  [Finalized!Next]_(Finalized!vars)
  BY <1>1 DEF Finalized!Next, Finalized!vars, Finalized!Create, Finalized!Discard,
              Finalized!Hold, Finalized!RequestDeletion, Finalized!Release
<1>2. ASSUME n = m, m \in {"held", "deleting"},
             NEW R \in SUBSET MocResources, moc' = moc \cup R
      PROVE  [Finalized!Next]_(Finalized!vars)
  BY <1>2 DEF Finalized!Next, Finalized!Acquire
<1>3. ASSUME n = m, moc # {} => m = "deleting", NEW r, moc' = moc \ {r}
      PROVE  [Finalized!Next]_(Finalized!vars)
  <2>1. CASE r \in moc
    BY <1>3, <2>1 DEF Finalized!Next, Finalized!Free
  <2>2. CASE r \notin moc
    BY <1>3, <2>2 DEF Finalized!vars
  <2> QED
    BY <2>1, <2>2
<1>4. CASE CreateObject
  BY <1>1, <1>4, <1>w, WrittenObjects DEF CreateObject
<1>5. CASE DeleteObject
  <2>1. [Stored(window) EXCEPT !.meta = "deleting"] \in Objects
        /\ [Stored(window) EXCEPT !.meta = "deleting"].meta = "deleting"
    BY <1>w DEF Objects
  <2> QED
    BY <1>1, <1>5, <1>w, <2>1, WrittenObjects DEF DeleteObject
<1>6. CASE Observe
  BY <1>1, <1>6, <1>t, TailWindow DEF Observe
<1>7. CASE Restart
  BY <1>1, <1>7, <1>t, RelistedWindow DEF Restart
<1>8. CASE Reconcile
  BY <1>1, <1>8 DEF Reconcile
<1>9. CASE PatchFinalizer
  <2>1. CASE UNCHANGED window
    BY <1>1, <1>9, <2>1 DEF PatchFinalizer
  <2>2. CASE window' = Written(window, Patched(Stored(window), Difference))
    <3>1. after.meta = "held"
      BY <1>9 DEF PatchFinalizer, InductiveInvariant, DeletePath, NormalPath
    <3>2. /\ Patched(Stored(window), Difference) \in Objects
          /\ Patched(Stored(window), Difference).meta =
               IF "object" \in Difference THEN PatchedMeta(after.meta, m) ELSE m
      BY <1>t, <1>w, PatchedObject
    <3>3. n = m \/ (m = "new" /\ n = "held")
      BY <1>w, <2>2, <3>1, <3>2 DEF PatchedMeta
    <3> QED
      BY <1>1, <1>9, <3>3 DEF PatchFinalizer
  <2> QED
    BY <1>9, <2>1, <2>2 DEF PatchFinalizer
<1>10. CASE FindVM
  BY <1>1, <1>10 DEF FindVM
<1>11. CASE ReconcileNetworkInterface \/ CreateVirtualMachine \/ GetCreatedVM
  <2>1. UNCHANGED window
    BY <1>11 DEF ReconcileNetworkInterface, CreateVirtualMachine, GetCreatedVM, CreateFails
  <2>2. m \in {"held", "deleting"}
    BY <1>11 DEF ReconcileNetworkInterface, CreateVirtualMachine, GetCreatedVM,
                 InductiveInvariant, DeletePath, NormalPath
  <2>3. moc \subseteq moc'
    BY <1>11 DEF ReconcileNetworkInterface, CreateVirtualMachine, GetCreatedVM, CreateFails
  <2>4. moc' \subseteq MocResources
    BY <1>11, TypeStep DEF InductiveInvariant, TypeOK, Next, Controller
  <2>5. moc' = moc \cup moc'
    BY <2>3
  <2> QED
    BY <1>2, <2>1, <2>2, <2>4, <2>5
<1>12. CASE WaitVolumeAttachments
  BY <1>1, <1>12 DEF WaitVolumeAttachments
<1>13. CASE DeleteVM \/ DeleteNIC \/ DeleteDisk
  <2>1. UNCHANGED window
    BY <1>13 DEF DeleteVM, DeleteNIC, DeleteDisk, DeleteResource
  <2>2. NoneHeld(window)
    BY <1>13 DEF DeleteVM, DeleteNIC, DeleteDisk, DeleteResource,
                 InductiveInvariant, DeletePath, NormalPath
  <2>3. moc # {} => m = "deleting"
    BY <1>w, <2>2 DEF InductiveInvariant, NoOrphan, NoneHeld
  <2>4. moc' = moc \/ \E r : moc' = moc \ {r}
    BY <1>13 DEF DeleteVM, DeleteNIC, DeleteDisk, DeleteResource
  <2> QED
    BY <1>1, <1>3, <2>1, <2>3, <2>4
<1>14. CASE Close
  <2>1. \/ n = m
        \/ m = "new" /\ n = "held"
        \/ m = "deleting" /\ n = "absent" /\ moc = {}
    BY <1>14, CloseWrites
  <2>2. moc' = moc
    BY <1>14 DEF Close
  <2> QED
    BY <1>1, <2>1, <2>2
<1>15. CASE UNCHANGED vars
  BY <1>15 DEF vars, Finalized!vars
<1> QED
  BY <1>4, <1>5, <1>6, <1>7, <1>8, <1>9, <1>10, <1>11, <1>12, <1>13, <1>14, <1>15
  DEF Next, Controller

\* The controller implements the finalizer protocol: resources are acquired only
\* while the stored object has the finalizer, freed only while it is being
\* deleted, and the finalizer goes only when none is left.
THEOREM ImplementsFinalizerProtocol == Spec => FinalizerProtocol
PROOF
<1>1. Init => Finalized!Init
  BY WrittenObjects DEF Init, Finalized!Init, Stored
<1> QED
  BY <1>1, InvariantHolds, ProtocolStep, PTL DEF Spec, FinalizerProtocol, Finalized!Spec

-----------------------------------------------------------------------------
(* The Ready condition.                                                     *)

\* Every call of a reconcile takes conditions that agree to conditions that agree.
LEMMA CopyAgreesStep == TypeOK /\ CopyAgrees /\ [Next]_vars => CopyAgrees'
PROOF
<1> SUFFICES ASSUME TypeOK, CopyAgrees, [Next]_vars PROVE CopyAgrees'
  OBVIOUS
<1>t. /\ after \in Copies /\ window \in Windows(Objects)
      /\ Cached(window) \in Objects
  BY WindowEnds DEF TypeOK
<1>a. Agrees(Absent)
  BY DEF Agrees, Absent, Empty
<1>f. \A e \in Errors :
        Agrees(setVMProvisionFailure(after, ProvisionFailureReason(e)))
  BY <1>t DEF Agrees, setVMProvisionFailure, Copies
<1>s. Agrees(SetVMState(after, SDKToVM))
  BY <1>t DEF Agrees, SetVMState, SDKToVM, Copies
<1>1. CASE UNCHANGED <<before, after>>
  BY <1>1 DEF CopyAgrees, Agrees
<1>2. CASE before' = Absent /\ after' = Absent
  BY <1>2, <1>a DEF CopyAgrees
<1>3. CASE Reconcile
  <2>1. Agrees([Cached(window) EXCEPT !.running = "Deleting"])
    BY <1>t DEF Agrees, Objects
  <2>2. Agrees(Cached(window)) => Agrees([Cached(window) EXCEPT !.meta = "held"])
    BY <1>t DEF Agrees, Objects
  <2> QED
    BY <1>3, <1>a, <2>1, <2>2 DEF Reconcile, CopyAgrees
<1>4. CASE FindVM
  <2>1. Agrees([after EXCEPT !.running = "VMNotFound"])
    BY <1>t DEF Agrees, Copies
  <2> QED
    BY <1>1, <1>4, <1>s, <2>1 DEF FindVM, Goto, CopyAgrees
<1>5. CASE ReconcileNetworkInterface \/ CreateVirtualMachine \/ GetCreatedVM
  <2>1. ASSUME NEW effects, CreateFails(effects) PROVE CopyAgrees'
    BY <1>f, <2>1 DEF CreateFails, Goto, CopyAgrees
  <2> QED
    BY <1>1, <1>5, <1>s, <2>1
    DEF ReconcileNetworkInterface, CreateVirtualMachine, GetCreatedVM, Goto, CopyAgrees
<1>6. CASE DeleteVM \/ DeleteNIC \/ DeleteDisk
  <2>1. Agrees([after EXCEPT !.running = "DeletionFailed"])
    BY <1>t DEF Agrees, Copies
  <2>2. Agrees(after) => Agrees([after EXCEPT !.meta = "released"])
    BY <1>t DEF Agrees, Copies
  <2> QED
    BY <1>1, <1>6, <2>1, <2>2
    DEF DeleteVM, DeleteNIC, DeleteDisk, DeleteResource, Goto, CopyAgrees
<1>7. CASE PatchFinalizer \/ WaitVolumeAttachments
  BY <1>1, <1>7 DEF PatchFinalizer, WaitVolumeAttachments, Goto
<1>8. CASE CreateObject \/ DeleteObject \/ Observe \/ UNCHANGED vars
  BY <1>1, <1>8 DEF CreateObject, DeleteObject, Observe, vars
<1>9. CASE Restart \/ Close
  BY <1>2, <1>9 DEF Restart, Close
<1> QED
  BY <1>3, <1>4, <1>5, <1>6, <1>7, <1>8, <1>9 DEF Next, Controller

\* A patch from an up-to-date copy of conditions that agree leaves them agreeing.
LEMMA PatchAgrees ==
  ASSUME TypeOK, CopyAgrees, NEW o \in Objects, NEW parts \in SUBSET Difference,
         Agrees(o), before.running = o.running, before.readyCond = o.readyCond
  PROVE  Agrees(Patched(o, parts))
PROOF
<1>1. Agrees(after)
  BY DEF CopyAgrees, Agrees
<1>2. Agrees(Absent)
  BY DEF Agrees, Absent, Empty
<1>3. CASE Patched(o, parts) = Absent
  BY <1>2, <1>3
<1>4. CASE "conditions" \in parts /\ Patched(o, parts) # Absent
  <2>1. /\ Patched(o, parts).running = after.running
        /\ Patched(o, parts).readyCond = after.readyCond
    BY <1>4 DEF Patched
  <2> QED
    BY <1>1, <2>1 DEF Agrees
<1>5. CASE "conditions" \notin parts /\ Patched(o, parts) # Absent
  <2>1. /\ Patched(o, parts).running = o.running
        /\ Patched(o, parts).readyCond = o.readyCond
    BY <1>5 DEF Patched
  <2> QED
    BY <2>1 DEF Agrees
<1> QED
  BY <1>3, <1>4, <1>5

\* Only a reconcile whose copy of the conditions is outdated can leave VMRunning
\* true beside a Ready that is not: the patches of reconcileNormal name both
\* conditions unless the copy already had one of them.
THEOREM ReadyResetHolds == Spec => ReadyReset
PROOF
<1>1. Init => CopyAgrees
  BY DEF Init, CopyAgrees
<1>2. Spec => []CopyAgrees
  BY <1>1, CopyAgreesStep, TypeCorrect, PTL DEF Spec
<1> DEFINE Current == <<before.running, before.readyCond>>
                        = <<Stored(window).running, Stored(window).readyCond>>
           Kept == Agrees(Stored(window)) /\ Current => Agrees(Stored(window'))
<1>3. TypeOK /\ CopyAgrees /\ [Next]_vars => Kept
  <2> SUFFICES ASSUME TypeOK, CopyAgrees, [Next]_vars, Agrees(Stored(window)), Current
               PROVE  Agrees(Stored(window'))
    OBVIOUS
  <2>w. /\ Stored(window) \in Objects /\ window \in Windows(Objects)
        /\ \A v \in Objects : Stored(Written(window, v)) = v
    BY WindowEnds, WrittenWindow DEF TypeOK
  <2>a. Agrees(Absent) /\ Agrees(Empty("new"))
    BY DEF Agrees, Absent, Empty
  <2>1. CASE UNCHANGED window
    BY <2>1
  <2>2. ASSUME NEW parts \in SUBSET Difference,
               window' = Written(window, Patched(Stored(window), parts))
        PROVE  Agrees(Stored(window'))
    <3>1. Patched(Stored(window), parts) \in Objects
      BY <2>w, PatchedObject
    <3>2. Agrees(Patched(Stored(window), parts))
      BY <2>w, PatchAgrees
    <3> QED
      BY <2>2, <2>w, <3>1, <3>2
  <2>3. CASE CreateObject
    BY <2>3, <2>a, <2>w, WrittenObjects DEF CreateObject
  <2>4. CASE DeleteObject
    <3>1. /\ [Stored(window) EXCEPT !.meta = "deleting"] \in Objects
          /\ Agrees([Stored(window) EXCEPT !.meta = "deleting"])
      BY <2>w DEF Objects, Agrees
    <3> QED
      BY <2>4, <2>a, <2>w, <3>1, WrittenObjects DEF DeleteObject
  <2>5. CASE Observe
    BY <2>5, <2>w, TailWindow DEF Observe
  <2>6. CASE Restart
    BY <2>6, <2>w, RelistedWindow DEF Restart
  <2>7. CASE PatchFinalizer
    BY <2>1, <2>2, <2>7 DEF PatchFinalizer
  <2>8. CASE Close
    BY <2>2, <2>8 DEF Close
  <2>9. CASE Reconcile \/ FindVM \/ WaitVolumeAttachments \/ UNCHANGED vars
    BY <2>1, <2>9 DEF Reconcile, FindVM, WaitVolumeAttachments, vars
  <2>10. CASE ReconcileNetworkInterface \/ CreateVirtualMachine \/ GetCreatedVM
    BY <2>1, <2>10
    DEF ReconcileNetworkInterface, CreateVirtualMachine, GetCreatedVM, CreateFails
  <2>11. CASE DeleteVM \/ DeleteNIC \/ DeleteDisk
    BY <2>1, <2>11 DEF DeleteVM, DeleteNIC, DeleteDisk, DeleteResource
  <2> QED
    BY <2>3, <2>4, <2>5, <2>6, <2>7, <2>8, <2>9, <2>10, <2>11 DEF Next, Controller
<1>4. Kept => (Agrees(Stored(window)) /\ ~Agrees(Stored(window')) =>
                 <<before.running, before.readyCond>>
                   # <<Stored(window).running, Stored(window).readyCond>>)
  OBVIOUS
<1> HIDE DEF Kept
<1> QED
  BY <1>2, <1>3, <1>4, TypeCorrect, PTL DEF Spec, ReadyReset
=============================================================================
