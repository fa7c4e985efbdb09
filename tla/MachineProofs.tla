--------------------------- MODULE MachineProofs ---------------------------
(***************************************************************************)
(* Proofs about Machine, for every set of specifications and every bound   *)
(* on the lag of the two caches, edits, faults and failures.               *)
(***************************************************************************)
EXTENDS Machine, InformerProofs

-----------------------------------------------------------------------------
(* The inductive invariant.                                                 *)

\* The stored machine is being deleted, or it is gone.
Over == Stored(machine).meta \in {"deleting", "absent"}

\* A copy that was made of a machine that is being deleted, or of none, is no newer
\* than the stored machine.
DeletionKnown ==
  /\ \A i \in 1..Len(machine) : machine[i].meta \in {"deleting", "absent"} => Over
  /\ before.meta = "deleting" \/ pc = "delete" \/ after.meta = "released" => Over
  /\ pc \notin {"idle", "delete"} => after.meta \in {"held", "deleting", "released"}
  /\ pc = "delete" => before.meta = "deleting" /\ after.meta = "deleting"
  /\ after.meta = "deleting" => before.meta = "deleting"

\* Before the deletion, and unless somebody else deletes it, the VM object is never
\* deleted, and every Ready that the controller has seen or copied is still there.
ReadyStays ==
  deletes = 0 /\ ~Over =>
    /\ Stored(vm).meta # "deleting"
    /\ \A i \in 1..Len(vm) : vm[i].ready => Stored(vm).ready
    /\ \A i \in 1..Len(machine) : machine[i].ready => Stored(vm).ready
    /\ before.ready \/ after.ready => Stored(vm).ready

\* An object that does not exist is not ready.
AbsentNotReady ==
  \A i \in 1..Len(vm) : vm[i].meta = "absent" => ~vm[i].ready

IInv == TypeOK /\ DeletionKnown /\ ReadyStays /\ AbsentNotReady

-----------------------------------------------------------------------------
(* Objects and patches.                                                     *)

\* What the API server stores: no object is stored without its last finalizer while it
\* is being deleted.
Kept == {m \in Machines : m.meta # "released"}

\* The empty objects are legal.
LEMMA EmptyObjects ==
  /\ NoMachine \in Kept /\ NoMachine \in Machines /\ NoMachine.meta = "absent" /\ ~NoMachine.ready
  /\ NoVM \in VMs /\ NoVM.meta = "absent" /\ ~NoVM.ready
  /\ Kept \subseteq Machines
PROOF
  BY DEF NoMachine, NoVM, Kept, Machines, VMs, Metas, Conditions

\* What a patch does to the stored machine: it changes meta and Ready only as the copy
\* asks, and leaves them alone where the copy did not change them.
LEMMA PatchedMachine ==
  ASSUME TypeOK, NEW copy \in Machines, NEW fields
  PROVE  LET o == Stored(machine)
             p == Patched(copy, fields)
         IN  /\ p \in Kept
             /\ p.meta = IF "meta" \in fields /\ before.meta # copy.meta
                           THEN PatchedMeta(copy.meta, o.meta) ELSE o.meta
             /\ p.ready => o.ready \/ copy.ready
PROOF
<1> DEFINE o == Stored(machine)
           m == Merged(o, before, copy, fields)
<1>1. o \in Kept /\ before \in Machines
  BY WindowEnds DEF TypeOK, Kept
<1>2. DOMAIN o = {"meta", "spec", "providerID", "ready", "running", "readyCond"}
  BY <1>1 DEF Kept, Machines
<1>3. /\ m = [meta |-> m.meta, spec |-> m.spec, providerID |-> m.providerID,
              ready |-> m.ready, running |-> m.running, readyCond |-> m.readyCond]
      /\ m.meta = IF "meta" \in fields /\ before.meta # copy.meta
                    THEN PatchedMeta(copy.meta, o.meta) ELSE o.meta
      /\ m.spec \in {o.spec, copy.spec} /\ m.providerID \in {o.providerID, copy.providerID}
      /\ m.ready \in {o.ready, copy.ready} /\ m.running \in {o.running, copy.running}
      /\ m.readyCond \in {o.readyCond, copy.readyCond}
  BY <1>2 DEF Merged
<1>4. m.meta \in Metas
  BY <1>1, <1>3 DEF PatchedMeta, Kept, Machines, Metas
<1>5. m \in Kept
  BY <1>1, <1>3, <1>4 DEF Kept, Machines, Metas
<1>6. CASE m.meta = "absent"
  BY <1>3, <1>6, EmptyObjects DEF Patched
<1>7. CASE m.meta # "absent"
  BY <1>1, <1>3, <1>5, <1>7 DEF Patched, Kept, Machines
<1> QED
  BY <1>6, <1>7

-----------------------------------------------------------------------------
(* Type correctness.                                                        *)

\* Every step keeps the type, one case per action.
LEMMA TypeStep == TypeOK /\ [Next]_vars => TypeOK'
PROOF
<1> SUFFICES ASSUME TypeOK, [Next]_vars PROVE TypeOK'
  OBVIOUS
<1> USE EmptyObjects, MachineBounds
<1>m. /\ machine \in Windows(Kept) /\ Stored(machine) \in Kept /\ Cached(machine) \in Kept
      /\ \A v \in Kept : WriteMachine(v) => machine' \in Windows(Kept)
  <2>1. machine \in Windows(Kept)
    BY DEF TypeOK, Kept
  <2> QED
    BY <2>1, WindowEnds, PushedWindow DEF WriteMachine
<1>v. /\ vm \in Windows(VMs) /\ Stored(vm) \in VMs /\ Cached(vm) \in VMs
      /\ \A v \in VMs : WriteVM(v) => vm' \in Windows(VMs)
  BY WindowEnds, PushedWindow DEF TypeOK, WriteVM
<1>p. \A fields : Patched(after, fields) \in Kept
  BY PatchedMachine DEF TypeOK
<1>d. Deleted(Stored(machine), NoMachine) \in Kept /\ Deleted(Stored(vm), NoVM) \in VMs
  BY <1>m, <1>v DEF Deleted, Kept, Machines, VMs, Metas
\* What is left to show: the faults, the queue and the rest.
<1>k. SUFFICES /\ machine' \in Windows(Kept) /\ vm' \in Windows(VMs)
               /\ cluster' \in {"absent", "pending", "provisioned"} /\ bootstrap' \in BOOLEAN
               /\ pc' \in {"idle", "finalizer", "createOrUpdate", "get", "delete", "close"}
               /\ before' \in Machines /\ after' \in Machines
               /\ edits' \in 0..MaxEdits /\ failures' \in 0..MaxVMFailures
               /\ deletes' \in 0..MaxVMDeletes
  <2>1. queued' \in BOOLEAN
    BY DEF Next, Controller, VMController, vars, TypeOK, EditSpec, DeleteMachine, InputArrives, Resync,
           DeleteVMObject, GarbageCollect, ObserveMachine, ObserveVM, Restart, VMHolds, VMRuns,
           VMFails, VMGone, VMStep, Reconcile, PatchFinalizer, CreateOrUpdate, GetVM, DeleteVM,
           Close, Goto, Return, Requeue, MachineEvent, VMEvent
  <2>2. faults' \in 0..MaxFaults
    <3>1. Fault \/ UNCHANGED faults
      BY DEF Next, Controller, VMController, vars, EditSpec, DeleteMachine, InputArrives, Resync,
             DeleteVMObject, GarbageCollect, ObserveMachine, ObserveVM, Restart, VMHolds, VMRuns,
             VMFails, VMGone, VMStep, Reconcile, PatchFinalizer, CreateOrUpdate, GetVM, DeleteVM,
             Close
    <3> QED
      BY <3>1 DEF Fault, TypeOK
  <2> QED
    BY <2>1, <2>2 DEF TypeOK, Kept
<1>h. /\ cluster \in {"absent", "pending", "provisioned"} /\ bootstrap \in BOOLEAN
      /\ pc \in {"idle", "finalizer", "createOrUpdate", "get", "delete", "close"}
      /\ before \in Machines /\ after \in Machines
      /\ edits \in 0..MaxEdits /\ failures \in 0..MaxVMFailures /\ deletes \in 0..MaxVMDeletes
  BY DEF TypeOK
<1>1. CASE EditSpec
  <2>1. \A s \in Specs : [Stored(machine) EXCEPT !.spec = s] \in Kept
    BY <1>m DEF Kept, Machines
  <2> QED
    BY <1>1, <1>h, <1>m, <1>v, <2>1 DEF EditSpec, inputs
<1>2. CASE DeleteMachine
  BY <1>2, <1>h, <1>m, <1>v, <1>d DEF DeleteMachine, inputs, bounds
<1>3. CASE InputArrives \/ Resync
  BY <1>3, <1>h, <1>m, <1>v DEF InputArrives, Resync, inputs, bounds
<1>4. CASE DeleteVMObject \/ GarbageCollect
  BY <1>4, <1>h, <1>m, <1>v, <1>d DEF DeleteVMObject, GarbageCollect, inputs, bounds
<1>5. CASE ObserveMachine \/ ObserveVM
  BY <1>5, <1>h, <1>m, <1>v, TailWindow DEF ObserveMachine, ObserveVM, inputs, bounds
<1>6. CASE Restart
  BY <1>6, <1>h, <1>m, <1>v, RelistedWindow DEF Restart, inputs, bounds
<1>7. CASE VMHolds \/ VMRuns \/ VMFails \/ VMGone
  <2>1. /\ [Stored(vm) EXCEPT !.meta = "held"] \in VMs
        /\ [Stored(vm) EXCEPT !.ready = TRUE, !.running = "True", !.readyCond = "True"] \in VMs
        /\ [Stored(vm) EXCEPT !.running = "Failed", !.readyCond = "Failed"] \in VMs
    BY <1>v DEF VMs, Metas, Conditions
  <2> QED
    BY <1>7, <1>h, <1>m, <1>v, <2>1 DEF VMHolds, VMRuns, VMFails, VMGone, VMStep, inputs, bounds
<1>8. CASE Reconcile
  <2>1. [Cached(machine) EXCEPT !.meta = "held"] \in Machines
    BY <1>m DEF Kept, Machines, Metas
  <2> QED
    BY <1>8, <1>h, <1>m, <1>v, <2>1 DEF Reconcile, inputs, bounds
<1>9. CASE PatchFinalizer
  BY <1>9, <1>h, <1>m, <1>v, <1>p DEF PatchFinalizer, Goto, Requeue, inputs, bounds
<1>10. CASE CreateOrUpdate
  <2>1. Mutated(Cached(vm)) \in VMs
    BY <1>h, <1>v DEF Mutated, VMs, Metas, Machines
  <2> QED
    BY <1>10, <1>h, <1>m, <1>v, <2>1 DEF CreateOrUpdate, Goto, Requeue, inputs, bounds
<1>11. CASE GetVM
  <2>1. Merge(after, Cached(vm)) \in Machines
    <3> DEFINE m == after
               v == Cached(vm)
    <3>1. /\ (m.ready \/ v.ready) \in BOOLEAN /\ v.running \in Conditions /\ v.readyCond \in Conditions
          /\ m.running \in Conditions /\ m.readyCond \in Conditions
      BY <1>h, <1>v DEF VMs, Machines
    <3> DEFINE r == m.ready \/ v.ready
               c == IF v.ready THEN "True" ELSE IF v.running # "none" THEN v.running ELSE m.running
               d == IF v.readyCond # "none" THEN v.readyCond ELSE m.readyCond
    <3>3. r \in BOOLEAN /\ c \in Conditions /\ d \in Conditions
      BY <3>1 DEF Conditions
    <3>4. Merge(m, v) = [m EXCEPT !.providerID = TRUE, !.ready = r, !.running = c, !.readyCond = d]
      BY DEF Merge
    <3> HIDE DEF r, c, d
    <3>5. [m EXCEPT !.providerID = TRUE, !.ready = r, !.running = c, !.readyCond = d] \in Machines
      BY <1>h, <3>3 DEF Machines
    <3> QED
      BY <3>4, <3>5
  <2> QED
    BY <1>11, <1>h, <1>m, <1>v, <2>1 DEF GetVM, Goto, Return, Requeue, inputs, bounds
<1>12. CASE DeleteVM
  <2>1. [after EXCEPT !.meta = "released"] \in Machines
    BY DEF TypeOK, Machines
  <2> QED
    BY <1>12, <1>h, <1>m, <1>v, <1>d, <2>1 DEF DeleteVM, Goto, Return, Requeue, inputs, bounds
<1>13. CASE Close
  BY <1>13, <1>h, <1>m, <1>v, <1>p DEF Close, inputs, bounds
<1>14. CASE UNCHANGED vars
  BY <1>14, <1>h, <1>m, <1>v DEF vars
<1> QED
  BY <1>1, <1>2, <1>3, <1>4, <1>5, <1>6, <1>7, <1>8, <1>9, <1>10, <1>11, <1>12, <1>13,
     <1>14 DEF Next, Controller, VMController

-----------------------------------------------------------------------------
(* The invariant, one lemma per kind of step.                               *)

\* A write of the machine that undoes no deletion and claims no Ready that the VM does
\* not have leaves a window that agrees with the stored objects.
LEMMA MachineWritten ==
  ASSUME IInv, NEW v \in Kept, WriteMachine(v), UNCHANGED vm, deletes' = deletes,
         Over => v.meta \in {"deleting", "absent"},
         deletes = 0 /\ ~Over /\ v.ready => Stored(vm).ready
  PROVE  /\ Over => Over'
         /\ \A i \in 1..Len(machine') : machine'[i].meta \in {"deleting", "absent"} => Over'
         /\ deletes' = 0 /\ ~Over' =>
              \A i \in 1..Len(machine') : machine'[i].ready => Stored(vm').ready
PROOF
<1>1. /\ Stored(machine') = v
      /\ \A i \in 1..Len(machine') :
           \/ i \in 1..Len(machine) /\ machine'[i] = machine[i]
           \/ machine'[i] = v
  <2>1. machine \in Windows(Kept)
    BY DEF IInv, TypeOK, Kept
  <2> QED
    BY <2>1, PushedWindow DEF WriteMachine
<1>2. Over => Over'
  BY <1>1 DEF Over
<1>3. \A i \in 1..Len(machine') : machine'[i].meta \in {"deleting", "absent"} => Over'
  BY <1>1, <1>2 DEF IInv, DeletionKnown, Over
<1>4. deletes' = 0 /\ ~Over' =>
        \A i \in 1..Len(machine') : machine'[i].ready => Stored(vm').ready
  BY <1>1, <1>2 DEF IInv, ReadyStays
<1> QED
  BY <1>2, <1>3, <1>4

\* A write of the VM that takes back no Ready before the machine is deleted keeps the
\* invariant, wherever the controller is.
LEMMA VMWritten ==
  ASSUME IInv, TypeOK', NEW v \in VMs, WriteVM(v), UNCHANGED machine,
         v.meta = "absent" => ~v.ready,
         deletes' = 0 => deletes = 0,
         deletes' = 0 /\ ~Over => v.meta # "deleting" /\ (Stored(vm).ready => v.ready),
         DeletionKnown',
         before'.ready \/ after'.ready => before.ready \/ after.ready
  PROVE  IInv'
PROOF
<1>1. /\ Stored(vm') = v
      /\ \A i \in 1..Len(vm') :
           \/ i \in 1..Len(vm) /\ vm'[i] = vm[i]
           \/ vm'[i] = v
  BY PushedWindow DEF IInv, TypeOK, WriteVM
<1>2. AbsentNotReady'
  BY <1>1 DEF IInv, AbsentNotReady
<1>3. ReadyStays'
  BY <1>1 DEF IInv, ReadyStays, Over
<1> QED
  BY <1>2, <1>3 DEF IInv

\* Users, the garbage collector and the VM controller, who write one of the two.
LEMMA EnvironmentStep ==
  ASSUME IInv, TypeOK',
         \/ EditSpec \/ DeleteMachine \/ InputArrives \/ Resync
         \/ DeleteVMObject \/ GarbageCollect \/ VMHolds \/ VMRuns \/ VMFails \/ VMGone
  PROVE  IInv'
PROOF
<1> USE EmptyObjects
<1>s. Stored(machine) \in Kept /\ Stored(vm) \in VMs
  <2>1. machine \in Windows(Kept) /\ vm \in Windows(VMs)
    BY DEF IInv, TypeOK, Kept
  <2> QED
    BY <2>1, WindowEnds
<1>r. deletes = 0 /\ ~Over /\ Stored(machine).ready => Stored(vm).ready
  <2>1. machine \in Windows(Kept)
    BY DEF IInv, TypeOK, Kept
  <2>2. Len(machine) \in 1..Len(machine) /\ Stored(machine) = machine[Len(machine)]
    BY <2>1, WindowEnds
  <2> QED
    BY <2>2 DEF IInv, ReadyStays
<1>1. ASSUME NEW v \in Kept, WriteMachine(v), ~Over, v.ready => Stored(machine).ready,
             UNCHANGED <<vm, pc, before, after, deletes>>
      PROVE  IInv'
  <2>1. /\ \A i \in 1..Len(machine') : machine'[i].meta \in {"deleting", "absent"} => Over'
        /\ deletes' = 0 /\ ~Over' =>
             \A i \in 1..Len(machine') : machine'[i].ready => Stored(vm').ready
    BY <1>1, <1>r, MachineWritten
  <2>2. DeletionKnown' /\ ReadyStays' /\ AbsentNotReady'
    BY <1>1, <2>1 DEF IInv, DeletionKnown, ReadyStays, AbsentNotReady
  <2> QED
    BY <2>2 DEF IInv
<1>2. CASE EditSpec
  <2>1. PICK s \in Specs : WriteMachine([Stored(machine) EXCEPT !.spec = s])
    BY <1>2 DEF EditSpec
  <2>2. /\ [Stored(machine) EXCEPT !.spec = s] \in Kept
        /\ [Stored(machine) EXCEPT !.spec = s].ready = Stored(machine).ready
    BY <1>s DEF Kept, Machines
  <2> QED
    BY <1>1, <1>2, <2>1, <2>2 DEF EditSpec, Over
<1>3. CASE DeleteMachine
  <2> DEFINE v == Deleted(Stored(machine), NoMachine)
  <2>1. v \in Kept /\ (v.ready => Stored(machine).ready)
    BY <1>s DEF Deleted, Kept, Machines, Metas
  <2> QED
    BY <1>1, <1>3, <2>1 DEF DeleteMachine, Over, bounds
<1>4. CASE InputArrives \/ Resync
  BY <1>4 DEF InputArrives, Resync, IInv, DeletionKnown, ReadyStays, AbsentNotReady, Over, bounds
<1>5. CASE DeleteVMObject \/ GarbageCollect
  <2> DEFINE v == Deleted(Stored(vm), NoVM)
  <2>1. v \in VMs /\ (Stored(vm).meta \in {"new", "held"} /\ v.meta = "absent" => ~v.ready)
    BY <1>s DEF Deleted, VMs, Metas
  <2>2. /\ WriteVM(v) /\ Stored(vm).meta \in {"new", "held"}
        /\ UNCHANGED <<machine, pc, before, after>>
        /\ deletes' # 0 \/ (Over /\ deletes' = deletes)
    <3>1. deletes \in Nat
      BY MachineBounds DEF IInv, TypeOK
    <3> QED
      BY <1>5, <3>1 DEF DeleteVMObject, GarbageCollect, Over, bounds
  <2>3. DeletionKnown'
    BY <2>2 DEF IInv, DeletionKnown, Over
  <2> HIDE DEF v
  <2> QED
    BY <2>1, <2>2, <2>3, VMWritten
<1>6. ASSUME NEW v \in VMs, VMStep(v), UNCHANGED deletes, v.meta = "absent" => ~v.ready,
             Stored(vm).meta # "deleting" => v.meta # "deleting" /\ (Stored(vm).ready => v.ready)
      PROVE  IInv'
  <2>1. WriteVM(v) /\ UNCHANGED <<machine, pc, before, after>>
    BY <1>6 DEF VMStep
  <2>2. DeletionKnown'
    BY <2>1 DEF IInv, DeletionKnown, Over
  <2>3. deletes = 0 /\ ~Over => Stored(vm).meta # "deleting"
    BY DEF IInv, ReadyStays
  <2> QED
    BY <1>6, <2>1, <2>2, <2>3, VMWritten
<1>7. CASE VMHolds
  <2>1. /\ [Stored(vm) EXCEPT !.meta = "held"] \in VMs
        /\ [Stored(vm) EXCEPT !.meta = "held"].meta = "held"
        /\ [Stored(vm) EXCEPT !.meta = "held"].ready = Stored(vm).ready
    BY <1>s DEF VMs, Metas
  <2> QED
    BY <1>6, <1>7, <2>1 DEF VMHolds, bounds
<1>8. CASE VMRuns
  <2> DEFINE v == [Stored(vm) EXCEPT !.ready = TRUE, !.running = "True", !.readyCond = "True"]
  <2>1. v \in VMs /\ v.meta = Stored(vm).meta /\ v.ready
    BY <1>s DEF VMs, Conditions
  <2> QED
    BY <1>6, <1>8, <2>1 DEF VMRuns, bounds
<1>9. CASE VMFails
  <2> DEFINE v == [Stored(vm) EXCEPT !.running = "Failed", !.readyCond = "Failed"]
  <2>1. v \in VMs /\ v.meta = Stored(vm).meta /\ v.ready = Stored(vm).ready
    BY <1>s DEF VMs, Conditions
  <2> QED
    BY <1>6, <1>9, <2>1 DEF VMFails
<1>10. CASE VMGone
  BY <1>6, <1>10 DEF VMGone, bounds
<1> QED
  BY <1>2, <1>3, <1>4, <1>5, <1>7, <1>8, <1>9, <1>10

\* The watches, which show the controller what is stored, and a restart.
LEMMA CacheStep ==
  ASSUME IInv, TypeOK', ObserveMachine \/ ObserveVM \/ Restart
  PROVE  IInv'
PROOF
<1> USE EmptyObjects
<1>w. machine \in Windows(Kept) /\ vm \in Windows(VMs)
  BY DEF IInv, TypeOK, Kept
<1>1. CASE ObserveMachine
  <2>1. /\ Stored(machine') = Stored(machine)
        /\ \A i \in 1..Len(machine') : i + 1 \in 1..Len(machine) /\ machine'[i] = machine[i + 1]
    BY <1>1, <1>w, TailWindow DEF ObserveMachine
  <2> QED
    BY <1>1, <2>1 DEF ObserveMachine, IInv, DeletionKnown, ReadyStays, AbsentNotReady, Over, bounds
<1>2. CASE ObserveVM
  <2>1. /\ Stored(vm') = Stored(vm)
        /\ \A i \in 1..Len(vm') : i + 1 \in 1..Len(vm) /\ vm'[i] = vm[i + 1]
    BY <1>2, <1>w, TailWindow DEF ObserveVM
  <2> QED
    BY <1>2, <2>1 DEF ObserveVM, IInv, DeletionKnown, ReadyStays, AbsentNotReady, Over, bounds
<1>3. CASE Restart
  <2>1. /\ Stored(machine') = Stored(machine)
        /\ \A i \in 1..Len(machine') : machine'[i] = Stored(machine)
        /\ Stored(vm') = Stored(vm)
        /\ \A i \in 1..Len(vm') : vm'[i] = Stored(vm)
    BY <1>3, <1>w, RelistedWindow DEF Restart
  <2>2. pc' = "idle" /\ before' = NoMachine /\ after' = NoMachine /\ deletes' = deletes
    BY <1>3 DEF Restart, bounds
  <2>3. DeletionKnown'
    BY <2>1, <2>2 DEF DeletionKnown, Over
  <2>4. Stored(machine) = machine[Len(machine)] /\ Len(machine) \in 1..Len(machine)
        /\ Stored(vm) = vm[Len(vm)] /\ Len(vm) \in 1..Len(vm)
    BY <1>w, WindowEnds
  <2>5. ReadyStays' /\ AbsentNotReady'
    BY <2>1, <2>2, <2>4 DEF IInv, ReadyStays, AbsentNotReady, Over
  <2> QED
    BY <2>3, <2>5 DEF IInv
<1> QED
  BY <1>1, <1>2, <1>3

\* The calls that write nothing, and the deletion of the VM.
LEMMA ReadStep ==
  ASSUME IInv, TypeOK', Reconcile \/ GetVM \/ DeleteVM
  PROVE  IInv'
PROOF
<1> USE EmptyObjects
<1>w. /\ Cached(machine) \in Kept /\ Cached(machine) = machine[1] /\ 1 \in 1..Len(machine)
      /\ Cached(vm) \in VMs /\ Cached(vm) = vm[1] /\ 1 \in 1..Len(vm)
      /\ Stored(vm) \in VMs
  <2>1. machine \in Windows(Kept) /\ vm \in Windows(VMs)
    BY DEF IInv, TypeOK, Kept
  <2> QED
    BY <2>1, WindowEnds
<1>1. CASE Reconcile
  <2>1. UNCHANGED <<machine, vm, deletes>>
    BY <1>1 DEF Reconcile, bounds
  <2>2. CASE UNCHANGED <<pc, before, after>>
    BY <2>1, <2>2 DEF IInv, DeletionKnown, ReadyStays, AbsentNotReady, Over
  <2>3. CASE ~UNCHANGED <<pc, before, after>>
    <3>1. /\ before' = Cached(machine) /\ Cached(machine).meta # "absent"
          /\ IF Cached(machine).meta = "deleting"
               THEN pc' = "delete" /\ after' = Cached(machine)
               ELSE pc' = "finalizer" /\ after' = [Cached(machine) EXCEPT !.meta = "held"]
      BY <1>1, <2>3 DEF Reconcile
    <3>2. /\ after'.ready = Cached(machine).ready
          /\ after'.meta = IF Cached(machine).meta = "deleting" THEN "deleting" ELSE "held"
      BY <1>w, <3>1 DEF Kept, Machines
    <3>3. Cached(machine).meta = "deleting" => Over
      BY <1>w DEF IInv, DeletionKnown
    <3>4. DeletionKnown'
      BY <2>1, <3>1, <3>2, <3>3 DEF IInv, DeletionKnown, Over
    <3>5. ReadyStays' /\ AbsentNotReady'
      BY <1>w, <2>1, <3>1, <3>2 DEF IInv, ReadyStays, AbsentNotReady, Over
    <3> QED
      BY <3>4, <3>5 DEF IInv
  <2> QED
    BY <2>2, <2>3
<1>2. CASE GetVM
  <2>1. /\ UNCHANGED <<machine, vm, deletes, before>> /\ pc' = "close" /\ pc = "get"
        /\ after' \in {after, Merge(after, Cached(vm))}
    BY <1>2 DEF GetVM, Goto, Return, Requeue, bounds
  <2>2. /\ after'.meta = after.meta
        /\ after'.ready => after.ready \/ Cached(vm).ready
    BY <2>1 DEF Merge, IInv, TypeOK, Machines
  <2>3. DeletionKnown'
    BY <2>1, <2>2 DEF IInv, DeletionKnown, Over
  <2>4. ReadyStays' /\ AbsentNotReady'
    BY <1>w, <2>1, <2>2 DEF IInv, ReadyStays, AbsentNotReady, Over
  <2> QED
    BY <2>3, <2>4 DEF IInv
<1>3. CASE DeleteVM
  <2>1. /\ UNCHANGED <<machine, deletes, before>> /\ pc' = "close" /\ pc = "delete"
        /\ after' \in {after, [after EXCEPT !.meta = "released"]}
        /\ \/ UNCHANGED vm
           \/ Stored(vm).meta \in {"new", "held"} /\ WriteVM(Deleted(Stored(vm), NoVM))
    <3>1. Len(vm) = 1 => Cached(vm) = Stored(vm)
      BY DEF Cached, Stored
    <3> QED
      BY <1>3, <3>1 DEF DeleteVM, Goto, Return, Requeue, bounds
  <2>2. after'.ready = after.ready /\ after'.meta \in {"deleting", "released"} /\ Over
    BY <2>1 DEF IInv, TypeOK, Machines, DeletionKnown
  <2>3. DeletionKnown'
    BY <2>1, <2>2 DEF IInv, DeletionKnown, Over
  <2>4. CASE UNCHANGED vm
    BY <2>1, <2>2, <2>3, <2>4 DEF IInv, ReadyStays, AbsentNotReady, Over
  <2>5. CASE Stored(vm).meta \in {"new", "held"} /\ WriteVM(Deleted(Stored(vm), NoVM))
    <3> DEFINE v == Deleted(Stored(vm), NoVM)
    <3>1. v \in VMs /\ (v.meta = "absent" => ~v.ready)
      BY <1>w, <2>5 DEF Deleted, VMs, Metas
    <3> HIDE DEF v
    <3> QED
      BY <2>1, <2>2, <2>3, <2>5, <3>1, VMWritten DEF v
  <2> QED
    BY <2>1, <2>4, <2>5
<1> QED
  BY <1>1, <1>2, <1>3

\* Every patch that the controller makes of its copy may be written: it undoes no
\* deletion, and a Ready that it sends is one the VM had.
LEMMA PatchAllowed ==
  ASSUME IInv, pc \in {"finalizer", "close"}, NEW fields
  PROVE  LET p == Patched(after, fields)
         IN  /\ p \in Kept
             /\ Over => p.meta \in {"deleting", "absent"}
             /\ deletes = 0 /\ ~Over /\ p.ready => Stored(vm).ready
PROOF
<1> DEFINE p == Patched(after, fields)
           o == Stored(machine)
<1>1. /\ p \in Kept
      /\ p.meta = IF "meta" \in fields /\ before.meta # after.meta
                    THEN PatchedMeta(after.meta, o.meta) ELSE o.meta
      /\ p.ready => o.ready \/ after.ready
  BY PatchedMachine DEF IInv, TypeOK
<1>2. o = machine[Len(machine)] /\ Len(machine) \in 1..Len(machine)
  BY WindowEnds DEF IInv, TypeOK
<1> HIDE DEF p
<1>3. Over => p.meta \in {"deleting", "absent"}
  BY <1>1 DEF PatchedMeta, Over
<1>4. deletes = 0 /\ ~Over /\ p.ready => Stored(vm).ready
  BY <1>1, <1>2 DEF IInv, ReadyStays
<1> QED
  BY <1>1, <1>3, <1>4 DEF p

\* The two places where the machine is patched.
LEMMA PatchStep ==
  ASSUME IInv, TypeOK', PatchFinalizer \/ Close
  PROVE  IInv'
PROOF
<1> USE EmptyObjects
<1>1. CASE PatchFinalizer
  <2>1. /\ pc = "finalizer" /\ pc' \in {"createOrUpdate", "close"}
        /\ UNCHANGED <<vm, deletes, before, after>>
        /\ UNCHANGED machine \/ WriteMachine(Patched(after, ObjectFields))
    BY <1>1 DEF PatchFinalizer, Goto, Requeue, bounds
  <2>2. CASE UNCHANGED machine
    BY <2>1, <2>2 DEF IInv, DeletionKnown, ReadyStays, AbsentNotReady, Over
  <2>3. CASE WriteMachine(Patched(after, ObjectFields))
    <3>1. /\ Over => Over'
          /\ \A i \in 1..Len(machine') : machine'[i].meta \in {"deleting", "absent"} => Over'
          /\ deletes' = 0 /\ ~Over' =>
               \A i \in 1..Len(machine') : machine'[i].ready => Stored(vm').ready
      BY <2>1, <2>3, PatchAllowed, MachineWritten
    <3> QED
      BY <2>1, <3>1 DEF IInv, DeletionKnown, ReadyStays, AbsentNotReady
  <2> QED
    BY <2>1, <2>2, <2>3
<1>2. CASE Close
  <2>1. PICK fields : WriteMachine(Patched(after, fields))
    BY <1>2 DEF Close
  <2>2. /\ pc = "close" /\ pc' = "idle" /\ before' = NoMachine /\ after' = NoMachine
        /\ UNCHANGED <<vm, deletes>>
    BY <1>2 DEF Close, bounds
  <2>3. /\ Over => Over'
        /\ \A i \in 1..Len(machine') : machine'[i].meta \in {"deleting", "absent"} => Over'
        /\ deletes' = 0 /\ ~Over' =>
             \A i \in 1..Len(machine') : machine'[i].ready => Stored(vm').ready
    BY <2>1, <2>2, PatchAllowed, MachineWritten
  <2> QED
    BY <2>2, <2>3 DEF IInv, DeletionKnown, ReadyStays, AbsentNotReady
<1> QED
  BY <1>1, <1>2

\* CreateOrUpdate writes on top of the stored VM or makes one where there is none,
\* whatever the cache showed it.
LEMMA CreateOrUpdateStep ==
  ASSUME IInv, TypeOK', CreateOrUpdate
  PROVE  IInv'
PROOF
<1> DEFINE v == Mutated(Cached(vm))
<1>1. /\ pc = "createOrUpdate" /\ pc' \in {"get", "close"}
      /\ UNCHANGED <<machine, deletes, before, after>>
      /\ \/ UNCHANGED vm
         \/ /\ WriteVM(v)
            /\ IF Cached(vm).meta = "absent" THEN Stored(vm).meta = "absent" ELSE Len(vm) = 1
  BY DEF CreateOrUpdate, Goto, Requeue, bounds
<1>w. /\ Cached(vm) \in VMs /\ Stored(vm) \in VMs /\ (Len(vm) = 1 => Cached(vm) = Stored(vm))
      /\ Stored(vm) = vm[Len(vm)] /\ Len(vm) \in 1..Len(vm)
  BY WindowEnds DEF IInv, TypeOK
<1>2. DeletionKnown'
  BY <1>1 DEF IInv, DeletionKnown, Over
<1>3. CASE UNCHANGED vm
  BY <1>1, <1>2, <1>3 DEF IInv, ReadyStays, AbsentNotReady, Over
<1>4. CASE ~UNCHANGED vm
  <2>1. /\ v \in VMs /\ v.ready = Cached(vm).ready
        /\ v.meta = IF Cached(vm).meta = "absent" THEN "new" ELSE Cached(vm).meta
    <3>1. after.spec \in Specs \cup {"none"}
      BY DEF IInv, TypeOK, Machines
    <3> QED
      BY <1>w, <3>1 DEF Mutated, VMs, Metas
  <2>2. Stored(vm).meta = "absent" => ~Stored(vm).ready
    BY <1>w DEF IInv, AbsentNotReady
  <2>3. ~Over /\ deletes = 0 => Stored(vm).meta # "deleting"
    BY DEF IInv, ReadyStays
  <2> HIDE DEF v
  <2>4. ~Over /\ deletes = 0 => v.meta # "deleting" /\ (Stored(vm).ready => v.ready)
    BY <1>1, <1>4, <1>w, <2>1, <2>2, <2>3
  <2>5. v.meta # "absent"
    BY <2>1
  <2> QED
    BY <1>1, <1>2, <1>4, <2>1, <2>4, <2>5, VMWritten
<1> QED
  BY <1>3, <1>4

-----------------------------------------------------------------------------
(* The theorems.                                                            *)

\* A new machine, without a VM, satisfies the invariant.
LEMMA InvariantInit == Init => IInv
PROOF
<1> SUFFICES ASSUME Init PROVE IInv
  OBVIOUS
<1> USE EmptyObjects DEF Init
<1>1. PICK s \in Specs : machine = <<[NoMachine EXCEPT !.meta = "new", !.spec = s]>>
  OBVIOUS
<1> DEFINE m == [NoMachine EXCEPT !.meta = "new", !.spec = s]
<1>2. m \in Kept /\ m.meta = "new" /\ ~m.ready
  BY DEF Kept, Machines, Metas, NoMachine, Conditions
<1> HIDE DEF m
<1>3. /\ machine \in Windows(Kept) /\ Len(machine) = 1 /\ Stored(machine) = m
      /\ \A i \in 1..Len(machine) : machine[i] = m
      /\ vm \in Windows(VMs) /\ Len(vm) = 1 /\ Stored(vm) = NoVM
      /\ \A i \in 1..Len(vm) : vm[i] = NoVM
  BY <1>1, <1>2 DEF Windows, Stored, m
<1>4. TypeOK
  <2>1. 0 \in 0..MaxEdits /\ 0 \in 0..MaxFaults /\ 0 \in 0..MaxVMFailures /\ 0 \in 0..MaxVMDeletes
    BY MachineBounds
  <2>2. machine \in Windows({o \in Machines : o.meta # "released"})
    BY <1>3 DEF Kept
  <2> QED
    BY <1>3, <2>1, <2>2 DEF TypeOK
<1>5. DeletionKnown /\ ReadyStays /\ AbsentNotReady
  BY <1>2, <1>3 DEF DeletionKnown, ReadyStays, AbsentNotReady, Over
<1> QED
  BY <1>4, <1>5 DEF IInv

\* Every step keeps the invariant.
LEMMA InvariantStep == IInv /\ [Next]_vars => IInv'
PROOF
<1> SUFFICES ASSUME IInv, [Next]_vars PROVE IInv'
  OBVIOUS
<1>1. TypeOK'
  BY TypeStep DEF IInv
<1>2. CASE UNCHANGED vars
  BY <1>1, <1>2 DEF vars, IInv, DeletionKnown, ReadyStays, AbsentNotReady, Over
<1>3. CASE Next
  BY <1>1, <1>3, EnvironmentStep, CacheStep, ReadStep, PatchStep, CreateOrUpdateStep
     DEF Next, Controller, VMController
<1> QED
  BY <1>2, <1>3

\* A machine that is not being deleted and says that it is ready has a ready VM, for
\* every lag of the two caches, unless somebody else deletes the VM object: the status
\* is merged from stale copies, but never from one that a deletion has overtaken.
THEOREM ReadyBacked == Spec => []ReadyMeansVMReady
PROOF
<1>1. IInv => ReadyMeansVMReady
  <2> SUFFICES ASSUME IInv PROVE ReadyMeansVMReady
    OBVIOUS
  <2>1. Stored(machine) = machine[Len(machine)] /\ Len(machine) \in 1..Len(machine)
    BY WindowEnds DEF IInv, TypeOK
  <2> QED
    BY <2>1 DEF IInv, ReadyStays, ReadyMeansVMReady, Over
<1> QED
  BY InvariantInit, InvariantStep, <1>1, PTL DEF Spec

\* Every version of the machine and of its VM object is legal and every copy that a patch
\* is made from has the conditions that the code sets, for every lag.
THEOREM TypeCorrect == Spec => []TypeOK
PROOF
<1>1. IInv => TypeOK
  BY DEF IInv
<1> QED
  BY InvariantInit, InvariantStep, <1>1, PTL DEF Spec
=============================================================================
