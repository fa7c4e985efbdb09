--------------------------- MODULE VirtualMachine ---------------------------
(***************************************************************************)
(* The AzureStackHCIVirtualMachine controller and the MOC resources of one *)
(* virtual machine.  The workqueue never runs two reconciles of one key at *)
(* the same time, so the controller is one process; its program counter is *)
(* the next call that leaves it (to the API server or to MOC).  Between    *)
(* two calls the owner may delete the object, a watch event may arrive or  *)
(* the manager may restart.  Every call may fail, with or without effect.  *)
(***************************************************************************)
EXTENDS Informer, PatchHelper

CONSTANTS
  Errors,      \* error classes a MOC create call may return
  MaxLag,      \* bound: versions the cache may be behind the server
  MaxFaults,   \* bound: failed calls and restarts
  MaxCreates   \* bound: times the owner creates the object

MocErrors == {"OutOfMemory", "OutOfCapacity", "OutOfNodeCapacity",
              "PathNotFound", "NotFound", "Unavailable", "Other"}

ASSUME ErrorsAssumption == Errors \subseteq MocErrors
ASSUME BoundsAssumption == {MaxLag, MaxFaults, MaxCreates} \subseteq Nat

VARIABLES
  window,   \* versions of the object, from the cached to the stored one
  moc,      \* resources that exist in MOC
  pc,       \* next call of the running reconcile, or "idle"
  before,   \* the object as the patch helper copied it
  after,    \* the object as the running reconcile changed it
  faults,
  creates

vars == <<window, moc, pc, before, after, faults, creates>>

-----------------------------------------------------------------------------
(* The object.  meta is absent, new (no finalizer), held (finalizer) or     *)
(* deleting (finalizer and deletion timestamp); a local copy is released    *)
(* once the controller took the finalizer off.  A condition is none, True   *)
(* or the reason for which it is False.  ready stands for Status.Ready and  *)
(* Status.VMState, which are written together.                              *)

MocResources == {"vm", "nic", "disk"}

\* Mutant: the error's own code is used as the reason.
ProvisionFailureReasonIsCode(e) == e

\* getOrCreate, the switch on the error that ams.Create() returned
ProvisionFailureReason(e) ==
  CASE e = "Unavailable" -> "MOCUnreachable"
    [] e = "Other" -> "VMProvisionFailed"
    [] OTHER -> e

Reasons == {"OutOfMemory", "OutOfCapacity", "OutOfNodeCapacity", "PathNotFound",
            "NotFound", "MOCUnreachable", "VMProvisionFailed", "VMNotFound",
            "VMUpdating", "Deleting", "DeletionFailed"}

Conditions == {"none", "True"} \cup Reasons

Objects == [meta : {"absent", "new", "held", "deleting"}, ready : BOOLEAN,
            running : Conditions, readyCond : Conditions]

Copies == [meta : {"absent", "new", "held", "deleting", "released"},
           ready : BOOLEAN, running : Conditions, readyCond : Conditions]

Empty(m) == [meta |-> m, ready |-> FALSE, running |-> "none", readyCond |-> "none"]

Absent == Empty("absent")

\* Every version of the object is legal, and so are the copies that Reconcile
\* changes and the patch helper keeps, at every call the reconcile may be in.
TypeOK ==
  /\ window \in Windows(Objects)
  /\ moc \in SUBSET MocResources
  /\ pc \in {"idle", "finalizer", "find", "nic", "create", "get",
             "volumes", "deleteVM", "deleteNIC", "deleteDisk", "close"}
  /\ before \in Objects
  /\ after \in Copies
  /\ faults \in Nat
  /\ creates \in Nat

-----------------------------------------------------------------------------
(* The patch helper: PatchObject sends the difference between the copy and  *)
(* the changed object in three requests (conditions, object, status), each  *)
(* of which can fail on its own.                                            *)

Difference ==
  {p \in {"conditions", "object", "status"} :
     \/ p = "conditions" /\ <<before.running, before.readyCond>> # <<after.running, after.readyCond>>
     \/ p = "object" /\ before.meta # after.meta
     \/ p = "status" /\ before.ready # after.ready}

Patched(o, parts) ==
  LET m == IF "object" \in parts THEN PatchedMeta(after.meta, o.meta) ELSE o.meta
  IN  IF m = "absent" THEN Absent ELSE
      [meta      |-> m,
       ready     |-> IF "status" \in parts THEN after.ready ELSE o.ready,
       running   |-> IF "conditions" \in parts /\ before.running # after.running
                       THEN after.running ELSE o.running,
       readyCond |-> IF "conditions" \in parts /\ before.readyCond # after.readyCond
                       THEN after.readyCond ELSE o.readyCond]

CanWrite == Len(window) <= MaxLag

Fault == faults < MaxFaults /\ faults' = faults + 1

-----------------------------------------------------------------------------
(* The owner (Machine or load-balancer controller, garbage collector) and   *)
(* the watch.                                                               *)

CreateObject ==
  /\ CanWrite /\ creates < MaxCreates
  /\ Stored(window).meta = "absent"
  /\ window' = Written(window, Empty("new"))
  /\ creates' = creates + 1
  /\ UNCHANGED <<moc, pc, before, after, faults>>

DeleteObject ==
  /\ CanWrite
  /\ Stored(window).meta \in {"new", "held"}
  /\ window' = Written(window,
                 IF Stored(window).meta = "new" THEN Absent
                 ELSE [Stored(window) EXCEPT !.meta = "deleting"])
  /\ UNCHANGED <<moc, pc, before, after, faults, creates>>

Observe ==
  /\ Len(window) > 1
  /\ window' = Tail(window)
  /\ UNCHANGED <<moc, pc, before, after, faults, creates>>

\* The manager stops in the middle of a reconcile and is started again.
Restart ==
  /\ Fault
  /\ pc' = "idle" /\ before' = Absent /\ after' = Absent
  /\ window' = Relisted(window)
  /\ UNCHANGED <<moc, creates>>

-----------------------------------------------------------------------------
(* Reconcile and reconcileNormal.                                           *)

Goto(label, o) == pc' = label /\ after' = o /\ UNCHANGED <<before, creates>>

\* Mutant: an object in an error state is skipped, deleted or not.
ReconcileSkipsFailed ==
  /\ pc = "idle"
  /\ before' = Cached(window)
  /\ CASE Cached(window).meta = "absent" \/ Cached(window).running = "DeletionFailed" -> pc' = "idle" /\ after' = Absent
       [] Cached(window).meta = "deleting" /\ Cached(window).running # "DeletionFailed" ->
            pc' = "volumes" /\ after' = [Cached(window) EXCEPT !.running = "Deleting"]
       [] OTHER -> pc' = "finalizer" /\ after' = [Cached(window) EXCEPT !.meta = "held"]
  /\ UNCHANGED <<window, moc, faults, creates>>

Reconcile ==
  /\ pc = "idle"
  /\ before' = Cached(window)
  /\ CASE Cached(window).meta = "absent" -> pc' = "idle" /\ after' = Absent
       [] Cached(window).meta = "deleting" ->
            pc' = "volumes" /\ after' = [Cached(window) EXCEPT !.running = "Deleting"]
       [] OTHER -> pc' = "finalizer" /\ after' = [Cached(window) EXCEPT !.meta = "held"]
  /\ UNCHANGED <<window, moc, faults, creates>>

\* Mutant: the finalizer is left to the deferred Close.
PatchFinalizerDeferred ==
  pc = "finalizer" /\ Goto("find", after) /\ UNCHANGED <<window, moc, faults>>

\* The finalizer is written before anything is created.  A cached object that
\* has it leaves nothing to send; a patch of an absent object is refused.
PatchFinalizer ==
  /\ pc = "finalizer" /\ CanWrite
  /\ \/ /\ Difference = {} \/ Stored(window).meta # "absent"
        /\ window' = Written(window, Patched(Stored(window), Difference))
        /\ Goto("find", after) /\ UNCHANGED faults
     \/ /\ Difference # {} /\ Stored(window).meta = "absent"
        /\ Goto("close", after) /\ UNCHANGED <<window, faults>>
     \/ /\ Difference # {} /\ Fault
        /\ Goto("close", after) /\ UNCHANGED window
  /\ UNCHANGED moc

\* converters.SDKToVM reports every machine that exists as Succeeded.
SDKToVM == "Succeeded"

\* Mutant: an earlier failure is not cleared from the Ready condition.
SetVMStateKeepsFailure(o, state) ==
  [o EXCEPT !.ready = TRUE, !.running = "True"]

\* reconcileNormal, the switch on vm.State
SetVMState(o, state) ==
  CASE state = "Succeeded" ->
         [o EXCEPT !.ready = TRUE, !.running = "True", !.readyCond = "True"]
    [] state = "Updating" -> [o EXCEPT !.running = "VMUpdating"]
    [] OTHER -> [o EXCEPT !.running = "VMProvisionFailed"]

setVMProvisionFailure(o, reason) ==
  [o EXCEPT !.running = reason, !.readyCond = reason]

\* Mutant: an empty answer is taken for a machine.
FindVMAcceptsEmpty ==
  /\ pc = "find"
  /\ \/ "vm" \in moc /\ Goto("close", SetVMState(after, SDKToVM)) /\ UNCHANGED faults
     \/ "vm" \notin moc /\ Goto("nic", after) /\ UNCHANGED faults
     \/ "vm" \notin moc /\ Fault /\ Goto("close", SetVMState(after, SDKToVM))
  /\ UNCHANGED <<window, moc>>

\* findVM and VMIfExists.  A failed Get and a machine that does not exist look
\* the same; an empty answer without an error is reported as VMNotFound.
FindVM ==
  /\ pc = "find"
  /\ \/ /\ "vm" \in moc
        /\ Goto("close", SetVMState(after, SDKToVM)) /\ UNCHANGED faults
     \/ /\ "vm" \notin moc
        /\ Goto("nic", after) /\ UNCHANGED faults
     \/ /\ "vm" \in moc /\ Fault
        /\ Goto("nic", after)
     \/ /\ "vm" \notin moc /\ Fault
        /\ Goto("close", [after EXCEPT !.running = "VMNotFound"])
  /\ UNCHANGED <<window, moc>>

\* A create call that returns an error may still have had one of its effects.
CreateFails(effects) ==
  /\ Fault
  /\ \E made \in effects : moc' = moc \cup made
  /\ \E e \in Errors :
       Goto("close", setVMProvisionFailure(after, ProvisionFailureReason(e)))
  /\ UNCHANGED window

ReconcileNetworkInterface ==
  /\ pc = "nic"
  /\ \/ /\ moc' = moc \cup {"nic"}
        /\ Goto("create", after) /\ UNCHANGED <<window, faults>>
     \/ CreateFails({{}, {"nic"}})

\* virtualmachines.Reconcile gives up when it cannot get the NIC; MOC makes the
\* OS disk and then the machine.
VMEffects == IF "nic" \in moc THEN {{}, {"disk"}, {"disk", "vm"}} ELSE {{}}

\* createVirtualMachine up to CreateOrUpdate.  A machine that the Get finds is
\* kept.
CreateVirtualMachine ==
  /\ pc = "create"
  /\ \/ /\ "vm" \in moc
        /\ Goto("get", after) /\ UNCHANGED <<window, moc, faults>>
     \/ /\ "vm" \notin moc /\ "nic" \in moc
        /\ moc' = moc \cup {"disk", "vm"}
        /\ Goto("get", after) /\ UNCHANGED <<window, faults>>
     \/ CreateFails(VMEffects)

\* Mutant: a machine that cannot be got is deleted, as a failed one would be.
GetCreatedVMCleansUp ==
  /\ pc = "get"
  /\ \/ /\ "vm" \in moc
        /\ Goto("close", SetVMState(after, SDKToVM))
        /\ UNCHANGED <<moc, faults>>
     \/ /\ Fault /\ moc' = moc \ {"vm"}
        /\ Goto("close", setVMProvisionFailure(after, "VMProvisionFailed"))
  /\ UNCHANGED window

\* createVirtualMachine, the Get after CreateOrUpdate.  The branches for a machine
\* that is failed or pending are dead: SDKToVM knows neither.
GetCreatedVM ==
  /\ pc = "get"
  /\ \/ /\ "vm" \in moc
        /\ Goto("close", SetVMState(after, SDKToVM))
        /\ UNCHANGED <<window, moc, faults>>
     \/ CreateFails({{}})

-----------------------------------------------------------------------------
(* reconcileDelete.                                                         *)

\* The wait for volume attachments ends when there are none, when they cannot
\* be listed and after five minutes; the deletion goes on in every case.
WaitVolumeAttachments ==
  /\ pc = "volumes"
  /\ Goto("deleteVM", after)
  /\ UNCHANGED <<window, moc, faults>>

\* Not found counts as deleted.  On an error the rest is left for a retry.
DeleteResource(r, label, next, result) ==
  /\ pc = label
  /\ \/ /\ moc' = moc \ {r}
        /\ Goto(next, result) /\ UNCHANGED faults
     \/ /\ Fault
        /\ moc' \in {moc, moc \ {r}}
        /\ Goto("close", [after EXCEPT !.running = "DeletionFailed"])
  /\ UNCHANGED window

\* Mutant: the NIC is deleted although the machine could not be.
DeleteVMBestEffort ==
  /\ pc = "deleteVM"
  /\ \/ moc' = moc \ {"vm"} /\ UNCHANGED faults
     \/ Fault /\ UNCHANGED moc
  /\ Goto("deleteNIC", after) /\ UNCHANGED window

DeleteVM == DeleteResource("vm", "deleteVM", "deleteNIC", after)

DeleteNIC == DeleteResource("nic", "deleteNIC", "deleteDisk", after)

DeleteDisk ==
  DeleteResource("disk", "deleteDisk", "close", [after EXCEPT !.meta = "released"])

\* The conditions are merged into what the cache holds and sent with its version:
\* the server refuses a version that is not the stored one.
Conflict == Len(window) > 1

\* The deferred Close.  A failed request is reported and the key is retried.
Close ==
  /\ pc = "close" /\ CanWrite
  /\ \E parts \in SUBSET Difference :
       /\ window' = Written(window, Patched(Stored(window), parts))
       /\ IF parts = Difference \/ (Conflict /\ Difference \ parts = {"conditions"})
            THEN UNCHANGED faults ELSE Fault
  /\ pc' = "idle" /\ before' = Absent /\ after' = Absent
  /\ UNCHANGED <<moc, creates>>

-----------------------------------------------------------------------------
Init ==
  /\ window = <<Absent>>
  /\ moc = {}
  /\ pc = "idle"
  /\ before = Absent /\ after = Absent
  /\ faults = 0 /\ creates = 0

Controller ==
  \/ Reconcile \/ PatchFinalizer \/ FindVM
  \/ ReconcileNetworkInterface \/ CreateVirtualMachine \/ GetCreatedVM
  \/ WaitVolumeAttachments \/ DeleteVM \/ DeleteNIC \/ DeleteDisk
  \/ Close

Next == Controller \/ CreateObject \/ DeleteObject \/ Observe \/ Restart

Spec == Init /\ [][Next]_vars

\* The key is retried after an error and resynchronised every ten minutes, and
\* the watch delivers: the controller and the informer never stop for good.
FairSpec == Spec /\ WF_vars(Controller) /\ WF_vars(Observe)

-----------------------------------------------------------------------------
\* No resource of the machine exists in MOC unless the stored object carries
\* the finalizer: whatever fails, restarts or is read from a stale cache,
\* nothing is left behind that no later reconcile will delete.
NoOrphan ==
  moc # {} => Stored(window).meta \in {"held", "deleting"}

\* A machine in MOC always has its network interface and its OS disk: Create
\* makes the NIC first and Delete frees the machine first, across partial
\* failures, retries and restarts.
VMBacked == "vm" \in moc => {"nic", "disk"} \subseteq moc

\* Status.Ready of an object that is not being deleted is backed by a machine
\* in MOC, even when the status patch was computed from a stale copy.
ReadyMeansProvisioned ==
  Stored(window).meta = "held" /\ Stored(window).ready => "vm" \in moc

-----------------------------------------------------------------------------
(* Why NoOrphan holds although reads are stale.  The cache never goes back, *)
(* so the versions still in the window constrain what may already have      *)
(* happened to the stored object.                                           *)

Live(o) == o.meta \in {"new", "held"}

WindowOrder(w) ==
  /\ \A i \in 1..Len(w) : w[i].meta = "held" => Stored(w).meta \in {"held", "deleting"}
  /\ \A i, j \in 1..Len(w) :
       i < j /\ w[i].meta = "deleting" => w[j].meta # "held"
  /\ \A i, j, k \in 1..Len(w) :
       i < j /\ j < k /\ w[i].meta = "deleting" /\ w[j].meta # "deleting"
         => w[k].meta # "deleting"
  /\ \A i, j \in 1..Len(w) :
       i < j /\ Live(w[i]) /\ w[j].meta = "deleting" => Stored(w).meta = "deleting"

NoneHeld(w) == \A i \in 1..Len(w) : w[i].meta # "held"

NoneDeletedLater(w) ==
  \A i, j \in 1..Len(w) : i < j /\ Live(w[i]) => w[j].meta # "deleting"

DeletionStored(w) ==
  \A i \in 1..Len(w) : w[i].meta = "deleting" => Stored(w).meta = "deleting"

\* A reconcile that found a deletion timestamp: no version that the cache has
\* yet to see is held, and no deletion is to come.
DeletePath ==
  pc # "idle" /\ before.meta = "deleting" =>
    /\ NoneHeld(window)
    /\ NoneDeletedLater(window)
    /\ pc \in {"volumes", "deleteVM", "deleteNIC", "deleteDisk", "close"}
    /\ after.ready = before.ready
    /\ after.meta \in {"deleting", "released"}
    /\ after.meta = "released" => pc = "close" /\ moc = {}
    /\ pc = "deleteNIC" => "vm" \notin moc
    /\ pc = "deleteDisk" => moc \subseteq {"disk"}

\* A reconcile that found none: the object is not released under it, and once
\* the finalizer step is done the stored object has the finalizer.
NormalPath ==
  pc # "idle" /\ before.meta # "deleting" =>
    /\ pc \in {"finalizer", "find", "nic", "create", "get", "close"}
    /\ Live(before) /\ after.meta = "held"
    /\ DeletionStored(window)
    /\ before.meta = "held" \/ pc \in {"find", "nic", "create", "get"}
         \/ after.ready # before.ready
         => Stored(window).meta \in {"held", "deleting"}
    /\ after.ready # before.ready => pc = "close" /\ after.ready /\ "vm" \in moc

\* The inductive strengthening of NoOrphan, VMBacked and ReadyMeansProvisioned.
InductiveInvariant ==
  /\ TypeOK
  /\ NoOrphan /\ VMBacked /\ ReadyMeansProvisioned
  /\ Stored(window).meta = "new" => ~Stored(window).ready
  /\ WindowOrder(window)
  /\ DeletePath
  /\ NormalPath

\* The controller implements the finalizer protocol: see FinalizedResource.
Finalized == INSTANCE FinalizedResource
               WITH Resources <- MocResources,
                    meta <- Stored(window).meta, owned <- moc

FinalizerProtocol == Finalized!Spec

\* Once the faults and the owner's requests stop, the object is gone or held,
\* never stuck in between, and what is held is provisioned and says so: both
\* conditions are True however stale the copies were that earlier patches were
\* computed from.
Converged ==
  LET o == Stored(window)
  IN  \/ o.meta = "absent" /\ moc = {}
      \/ /\ o.meta = "held" /\ MocResources \subseteq moc
         /\ o.ready /\ o.running = "True" /\ o.readyCond = "True"

Converges == <>[]Converged

\* An object that says VMRunning says Ready.
Agrees(o) == o.running = "True" => o.readyCond = "True"

\* reconcileNormal clears the Ready condition of a prior terminal failure once the
\* VM comes up.  A patch names only the conditions that differ from the copy the
\* reconcile began with, so this needs that copy: only a reconcile whose copy of
\* the conditions is outdated leaves VMRunning true beside a Ready that is not.
ReadyReset ==
  [][Agrees(Stored(window)) /\ ~Agrees(Stored(window')) =>
       <<before.running, before.readyCond>>
         # <<Stored(window).running, Stored(window).readyCond>>]_vars

\* What ReadyReset needs of a running reconcile: it takes agreeing conditions to
\* agreeing ones.
CopyAgrees == Agrees(before) => Agrees(after)
=============================================================================
