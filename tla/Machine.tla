------------------------------ MODULE Machine ------------------------------
(***************************************************************************)
(* The AzureStackHCIMachine controller.  It keeps one                      *)
(* AzureStackHCIVirtualMachine object of the same name and copies its      *)
(* status back.  The two kinds are cached separately, so the controller    *)
(* may know of a later version of the one and an earlier one of the other. *)
(* The workqueue is explicit: queued says that a reconcile is due.  The    *)
(* VirtualMachine controller is abstracted to what this one sees of it.    *)
(***************************************************************************)
EXTENDS Informer, PatchHelper

CONSTANTS
  Specs,           \* contents of the specification a user may ask for
  MachineLag,      \* bound: versions the cache of machines may be behind
  VmLag,           \* bound: versions the cache of VMs may be behind
  MaxEdits,        \* bound: changes of the specification
  MaxFaults,       \* bound: failed calls and restarts
  MaxVMFailures,   \* bound: times the VM controller reports a failure
  MaxVMDeletes     \* bound: times somebody else deletes the VM object

ASSUME MachineBounds ==
  {MachineLag, VmLag, MaxEdits, MaxFaults, MaxVMFailures, MaxVMDeletes} \subseteq Nat

VARIABLES
  machine,      \* window of the AzureStackHCIMachine
  vm,           \* window of the AzureStackHCIVirtualMachine
  cluster,      \* the AzureStackHCICluster: absent, pending or provisioned
  bootstrap,    \* does the Machine name its bootstrap secret?
  queued, pc, before, after,
  edits, faults, failures, deletes

vars == <<machine, vm, cluster, bootstrap, queued, pc, before, after,
          edits, faults, failures, deletes>>
inputs == <<cluster, bootstrap>>
bounds == <<edits, failures, deletes>>

-----------------------------------------------------------------------------
(* ready stands for Status.Ready with Status.VMState; a condition is none,  *)
(* True or Failed.                                                          *)

Metas == {"absent", "new", "held", "deleting"}
Conditions == {"none", "True", "Failed"}

Machines ==
  [meta : Metas \cup {"released"}, spec : Specs \cup {"none"}, providerID : BOOLEAN,
   ready : BOOLEAN, running : Conditions, readyCond : Conditions]

NoMachine ==
  [meta |-> "absent", spec |-> "none", providerID |-> FALSE,
   ready |-> FALSE, running |-> "none", readyCond |-> "none"]

VMs == [meta : Metas, spec : Specs \cup {"none"}, ready : BOOLEAN,
        running : Conditions, readyCond : Conditions]

NoVM == [meta |-> "absent", spec |-> "none", ready |-> FALSE,
         running |-> "none", readyCond |-> "none"]

\* Both windows hold legal objects and the reconcile works on a legal copy.
TypeOK ==
  /\ machine \in Windows({m \in Machines : m.meta # "released"})
  /\ vm \in Windows(VMs)
  /\ cluster \in {"absent", "pending", "provisioned"} /\ bootstrap \in BOOLEAN
  /\ queued \in BOOLEAN
  /\ pc \in {"idle", "finalizer", "createOrUpdate", "get", "delete", "close"}
  /\ before \in Machines /\ after \in Machines
  /\ edits \in 0..MaxEdits /\ faults \in 0..MaxFaults
  /\ failures \in 0..MaxVMFailures /\ deletes \in 0..MaxVMDeletes

-----------------------------------------------------------------------------
WriteMachine(m) == Room(machine, MachineLag) /\ machine' = Pushed(machine, m, MachineLag)

WriteVM(v) == Room(vm, VmLag) /\ vm' = Pushed(vm, v, VmLag)

Deleted(o, nothing) == IF o.meta = "new" THEN nothing ELSE [o EXCEPT !.meta = "deleting"]

Fault == faults < MaxFaults /\ faults' = faults + 1

\* Without a lag an event is delivered with the write that causes it.
MachineEvent == queued' = (queued \/ (MachineLag = 0 /\ machine' # machine))

\* mutateFn names the Machine, not the AzureStackHCIMachine, as the owner.
OwnerKind == "Machine"

\* The handler of the watch on VMs enqueues owners of kind AzureStackHCIMachine.
VMEventQueues == OwnerKind = "AzureStackHCIMachine"

VMEvent == queued' = (queued \/ (VmLag = 0 /\ VMEventQueues /\ vm' # vm))

-----------------------------------------------------------------------------
(* Users, Cluster API, the garbage collector, the watches and a restart.    *)

EditSpec ==
  /\ edits < MaxEdits /\ edits' = edits + 1
  /\ Stored(machine).meta \in {"new", "held"}
  /\ \E s \in Specs \ {Stored(machine).spec} :
       WriteMachine([Stored(machine) EXCEPT !.spec = s])
  /\ MachineEvent
  /\ UNCHANGED <<vm, inputs, pc, before, after, faults, failures, deletes>>

DeleteMachine ==
  /\ Stored(machine).meta \in {"new", "held"}
  /\ WriteMachine(Deleted(Stored(machine), NoMachine))
  /\ MachineEvent
  /\ UNCHANGED <<vm, inputs, pc, before, after, faults, bounds>>

\* Both are watched, through AzureStackHCIClusterToAzureStackHCIMachines and
\* MachineToInfrastructureMapFunc.
InputArrives ==
  /\ \/ /\ cluster # "provisioned"
        /\ cluster' = IF cluster = "absent" THEN "pending" ELSE "provisioned"
        /\ UNCHANGED bootstrap
     \/ ~bootstrap /\ bootstrap' = TRUE /\ UNCHANGED cluster
  /\ queued' = TRUE
  /\ UNCHANGED <<machine, vm, pc, before, after, faults, bounds>>

\* Somebody else deletes the VM object.
DeleteVMObject ==
  /\ deletes < MaxVMDeletes /\ deletes' = deletes + 1
  /\ Stored(vm).meta \in {"new", "held"}
  /\ WriteVM(Deleted(Stored(vm), NoVM)) /\ VMEvent
  /\ UNCHANGED <<machine, inputs, pc, before, after, faults, edits, failures>>

\* The owner goes after its infrastructure object.
GarbageCollect ==
  /\ Stored(machine).meta = "absent" /\ Stored(vm).meta \in {"new", "held"}
  /\ WriteVM(Deleted(Stored(vm), NoVM)) /\ VMEvent
  /\ UNCHANGED <<machine, inputs, pc, before, after, faults, bounds>>

ObserveMachine ==
  /\ Len(machine) > 1 /\ machine' = Tail(machine)
  /\ queued' = TRUE
  /\ UNCHANGED <<vm, inputs, pc, before, after, faults, bounds>>

ObserveVM ==
  /\ Len(vm) > 1 /\ vm' = Tail(vm)
  /\ queued' = (queued \/ VMEventQueues)
  /\ UNCHANGED <<machine, inputs, pc, before, after, faults, bounds>>

\* The manager resynchronises its caches every SyncPeriod.
Resync ==
  /\ ~queued /\ queued' = TRUE
  /\ UNCHANGED <<machine, vm, inputs, pc, before, after, faults, bounds>>

Restart ==
  /\ Fault
  /\ machine' = Relisted(machine) /\ vm' = Relisted(vm)
  /\ queued' = TRUE /\ pc' = "idle" /\ before' = NoMachine /\ after' = NoMachine
  /\ UNCHANGED <<inputs, bounds>>

-----------------------------------------------------------------------------
(* The VirtualMachine controller: it takes hold of the object, reports that *)
(* the machine runs or why it does not, and lets go of a deleted object.    *)
(* Ready and VMState are never taken back.                                  *)

VMStep(v) == WriteVM(v) /\ VMEvent /\ UNCHANGED <<machine, inputs, pc, before, after, faults>>

VMHolds ==
  /\ Stored(vm).meta = "new"
  /\ VMStep([Stored(vm) EXCEPT !.meta = "held"]) /\ UNCHANGED bounds

VMRuns ==
  /\ Stored(vm).meta = "held" /\ ~(Stored(vm).ready /\ Stored(vm).running = "True")
  /\ VMStep([Stored(vm) EXCEPT !.ready = TRUE, !.running = "True", !.readyCond = "True"])
  /\ UNCHANGED bounds

VMFails ==
  /\ failures < MaxVMFailures /\ failures' = failures + 1
  /\ Stored(vm).meta = "held"
  /\ VMStep([Stored(vm) EXCEPT !.running = "Failed", !.readyCond = "Failed"])
  /\ UNCHANGED <<edits, deletes>>

VMGone ==
  /\ Stored(vm).meta = "deleting"
  /\ VMStep(NoVM) /\ UNCHANGED bounds

-----------------------------------------------------------------------------
(* Reconcile.  Returning an error or RequeueAfter queues the key again.     *)

ConditionFields == {"running", "readyCond"}
ObjectFields == {"meta", "providerID"}
StatusFields == {"ready"}

Patched(copy, fields) ==
  LET m == Merged(Stored(machine), before, copy, fields)
  IN  IF m.meta = "absent" THEN NoMachine ELSE m

Goto(label, copy) ==
  pc' = label /\ after' = copy /\ UNCHANGED <<before, inputs, bounds>>

Return(copy) == Goto("close", copy) /\ UNCHANGED queued

Requeue(copy) == Goto("close", copy) /\ queued' = TRUE

\* Mutant: a failure that the machine was told of is final.
ReconcileGated ==
  /\ pc = "idle" /\ queued /\ queued' = FALSE
  /\ IF Cached(machine).meta = "absent" \/ cluster = "absent" \/ Cached(machine).running = "Failed"
       THEN UNCHANGED <<pc, before, after>>
       ELSE /\ before' = Cached(machine)
            /\ IF Cached(machine).meta = "deleting"
                 THEN pc' = "delete" /\ after' = Cached(machine)
                 ELSE pc' = "finalizer" /\ after' = [Cached(machine) EXCEPT !.meta = "held"]
  /\ UNCHANGED <<machine, vm, inputs, faults, bounds>>

\* The early returns while the cluster is not there close no scope.
Reconcile ==
  /\ pc = "idle" /\ queued /\ queued' = FALSE
  /\ IF Cached(machine).meta = "absent" \/ cluster = "absent"
       THEN UNCHANGED <<pc, before, after>>
       ELSE /\ before' = Cached(machine)
            /\ IF Cached(machine).meta = "deleting"
                 THEN pc' = "delete" /\ after' = Cached(machine)
                 ELSE pc' = "finalizer" /\ after' = [Cached(machine) EXCEPT !.meta = "held"]
  /\ UNCHANGED <<machine, vm, inputs, faults, bounds>>

\* reconcileNormal up to the checks of the cluster and the bootstrap data, which
\* wait for an event.
PatchFinalizer ==
  /\ pc = "finalizer"
  /\ \/ /\ before = after \/ Stored(machine).meta # "absent"
        /\ WriteMachine(Patched(after, ObjectFields)) /\ MachineEvent
        /\ Goto(IF cluster = "provisioned" /\ bootstrap THEN "createOrUpdate" ELSE "close", after)
        /\ UNCHANGED faults
     \/ /\ before # after
        /\ \/ Stored(machine).meta = "absent" /\ UNCHANGED faults
           \/ Fault
        /\ Requeue(after) /\ UNCHANGED machine
  /\ UNCHANGED vm

\* The object that mutateFn makes of v, which may be NoVM.
Mutated(v) == [v EXCEPT !.meta = IF @ = "absent" THEN "new" ELSE @, !.spec = after.spec]

\* controllerutil.CreateOrUpdate decides by the cached object.  AlreadyExists is
\* ignored; an Update carries the cached version and may be refused.
CreateOrUpdate ==
  /\ pc = "createOrUpdate"
  /\ LET found == Cached(vm)
         accepted == IF found.meta = "absent" THEN Stored(vm).meta = "absent" ELSE Len(vm) = 1
     IN  \/ /\ Mutated(found) # found /\ accepted
            /\ WriteVM(Mutated(found)) /\ VMEvent
            /\ Goto("get", after) /\ UNCHANGED faults
         \/ /\ Mutated(found) = found \/ (found.meta = "absent" /\ ~accepted)
            /\ Goto("get", after) /\ UNCHANGED <<vm, queued, faults>>
         \/ /\ Mutated(found) # found /\ found.meta # "absent" /\ ~accepted
            /\ Requeue(after) /\ UNCHANGED <<vm, faults>>
         \/ /\ Fault /\ Requeue(after)
            /\ (accepted /\ WriteVM(Mutated(found))) \/ UNCHANGED vm
  /\ UNCHANGED machine

\* Mutant: a VM object is enough to be ready.
MergeReadyEarly(m, v) ==
  [m EXCEPT !.providerID = TRUE, !.ready = TRUE, !.running = v.running, !.readyCond = v.readyCond]

\* Mutant: the reason of the condition is kept instead of its status.
MergeReason(m, v) ==
  [m EXCEPT !.providerID = TRUE, !.ready = v.ready, !.running = IF v.ready THEN "VMRunning" ELSE @]

\* The conditions of the VM, and VMRunning again for a VM that has a state.
Merge(m, v) ==
  [m EXCEPT !.providerID = TRUE,
            !.ready = @ \/ v.ready,
            !.running = IF v.ready THEN "True" ELSE IF v.running # "none" THEN v.running ELSE @,
            !.readyCond = IF v.readyCond # "none" THEN v.readyCond ELSE @]

\* The second Get of reconcileVirtualMachineNormal and the rest of
\* reconcileNormal; a VM without a state is looked at again after a minute.
GetVM ==
  /\ pc = "get"
  /\ IF Cached(vm).meta = "absent" THEN Requeue(after)
     ELSE IF Cached(vm).ready THEN Return(Merge(after, Cached(vm)))
     ELSE Requeue(Merge(after, Cached(vm)))
  /\ UNCHANGED <<machine, vm, faults>>

\* reconcileDelete and reconcileVirtualMachineDelete: the finalizer goes when the
\* cache holds no VM; the Update before the Delete carries the cached version.
DeleteVM ==
  /\ pc = "delete"
  /\ \/ /\ Cached(vm).meta = "absent"
        /\ Return([after EXCEPT !.meta = "released"]) /\ UNCHANGED <<vm, faults>>
     \/ /\ Cached(vm).meta = "deleting" \/ (Cached(vm).meta # "absent" /\ Len(vm) > 1)
        /\ Requeue(after) /\ UNCHANGED <<vm, faults>>
     \/ /\ Cached(vm).meta \in {"new", "held"} /\ Len(vm) = 1
        /\ Requeue(after)
        /\ \/ WriteVM(Deleted(Stored(vm), NoVM)) /\ UNCHANGED faults
           \/ Fault /\ UNCHANGED vm
  /\ UNCHANGED machine

\* The deferred Close: three requests; both conditions are owned by the scope, so
\* only a cache that is behind makes a conflict.
Close ==
  /\ pc = "close"
  /\ LET requests == {r \in {ConditionFields, ObjectFields, StatusFields} : Changes(before, after, r)}
     IN  \E sent \in SUBSET requests :
           /\ WriteMachine(Patched(after, UNION sent))
           /\ \/ sent = requests /\ MachineEvent /\ UNCHANGED faults
              \/ /\ requests \ sent = {ConditionFields} /\ Len(machine) > 1
                 /\ queued' = TRUE /\ UNCHANGED faults
              \/ sent # requests /\ queued' = TRUE /\ Fault
  /\ pc' = "idle" /\ before' = NoMachine /\ after' = NoMachine
  /\ UNCHANGED <<vm, inputs, bounds>>

-----------------------------------------------------------------------------
Init ==
  /\ \E s \in Specs : machine = <<[NoMachine EXCEPT !.meta = "new", !.spec = s]>>
  /\ vm = <<NoVM>> /\ cluster = "absent" /\ bootstrap = FALSE
  /\ queued = TRUE /\ pc = "idle" /\ before = NoMachine /\ after = NoMachine
  /\ edits = 0 /\ faults = 0 /\ failures = 0 /\ deletes = 0

Controller == Reconcile \/ PatchFinalizer \/ CreateOrUpdate \/ GetVM \/ DeleteVM \/ Close

VMController == VMHolds \/ VMRuns \/ VMGone

Next ==
  \/ Controller \/ VMController \/ VMFails
  \/ ObserveMachine \/ ObserveVM \/ Resync \/ GarbageCollect
  \/ EditSpec \/ DeleteMachine \/ InputArrives \/ DeleteVMObject \/ Restart

Spec == Init /\ [][Next]_vars

\* Both controllers retry, the watches deliver, the caches are resynchronised, and
\* the cluster and the bootstrap data come in the end.
FairSpec ==
  /\ Spec
  /\ WF_vars(Controller) /\ WF_vars(VMHolds) /\ WF_vars(VMRuns) /\ WF_vars(VMGone)
  /\ WF_vars(ObserveMachine) /\ WF_vars(ObserveVM) /\ WF_vars(Resync)
  /\ WF_vars(GarbageCollect) /\ WF_vars(InputArrives)

-----------------------------------------------------------------------------
\* Ready of a machine that is not being deleted, once set, is backed by a VM that
\* is ready, although the machine's status is patched from stale copies of both.
\* Only somebody else who deletes the VM object can break that.
ReadyMeansVMReady ==
  deletes = 0 /\ Stored(machine).meta = "held" /\ Stored(machine).ready => Stored(vm).ready

\* What a machine settles in: gone with its VM, or held, with a VM made from the
\* latest specification and its status copied.
Converged ==
  LET m == Stored(machine)
      v == Stored(vm)
  IN  \/ m.meta = "absent" /\ v.meta = "absent"
      \/ /\ m.meta = "held" /\ v.meta = "held" /\ v.spec = m.spec
         /\ m.providerID /\ m.ready = v.ready /\ v.ready
         /\ m.running = v.running /\ m.readyCond = v.readyCond

\* A failure that the VM controller recovers from, an update that AlreadyExists
\* hid and a VM object that somebody deleted do not block the machine for ever.
Converges == <>[]Converged
=============================================================================
