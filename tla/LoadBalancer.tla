---------------------------- MODULE LoadBalancer ----------------------------
(***************************************************************************)
(* The AzureStackHCILoadBalancer controller: it keeps a number of replica  *)
(* machines (AzureStackHCIVirtualMachine objects), replaces them when the  *)
(* OS version changes, and keeps the load balancer service of MOC.  The    *)
(* controller is one process whose program counter is its next call.  It   *)
(* reads its own object and the list of machines through two caches that   *)
(* lag independently.  The machine controller is abstracted to what this   *)
(* one can see of it.                                                      *)
(***************************************************************************)
EXTENDS Informer, PatchHelper, FiniteSets, Integers

CONSTANTS
  Desires,        \* replica counts the user may ask for
  Versions,       \* OS versions the user may ask for
  LbLag, VmLag,   \* bounds: versions the two caches may be behind
  MaxVMs,         \* bound: machines ever created; the next create is refused
  MaxEdits,       \* bound: changes of the specification
  MaxFaults,      \* bound: failed calls and restarts
  MaxVMFailures   \* bound: failed or disconnected machines

ASSUME LoadBalancerBounds ==
  /\ Desires \subseteq Nat
  /\ {LbLag, VmLag, MaxVMs, MaxEdits, MaxFaults, MaxVMFailures} \subseteq Nat

VARIABLES
  lb,         \* window of the load balancer object
  vms,        \* window of the collection of its machine objects
  service,    \* the service in MOC: absent, pending (no address) or up
  serving,    \* machines connected to the service
  pc, before, after,
  listed,     \* the machines as the running reconcile listed them
  edits, faults, failures

vars == <<lb, vms, service, serving, pc, before, after, listed, edits, faults, failures>>
control == <<pc, before, after, listed>>
world == <<lb, vms, service, serving>>

-----------------------------------------------------------------------------
(* Objects.  replicasReady and infraReady are conditions: none, True or the *)
(* reason for which they are False (of infraReady only that it is False).   *)
(* Machines are numbered in the order of their creation timestamps.         *)

MaxSurge == 1

Names == 1..MaxVMs

Reasons == {"Upgrading", "ScalingUp", "ScalingDown", "Waiting", "VMFailed"}

IsFalse(condition) == condition \notin {"none", "True"}

Phases == {"", "Pending", "Provisioning", "Upgrading", "Provisioned", "Deleting"}

LoadBalancers ==
  [meta : {"absent", "new", "held", "deleting", "released"},
   desired : Desires \cup {0}, version : Versions \cup {"none"},
   ready : BOOLEAN, address : BOOLEAN, replicas : Nat, readyReplicas : Nat,
   replicasReady : {"none", "True"} \cup Reasons,
   infraReady : {"none", "True", "False"}, phase : Phases]

Absent ==
  [meta |-> "absent", desired |-> 0, version |-> "none", ready |-> FALSE,
   address |-> FALSE, replicas |-> 0, readyReplicas |-> 0,
   replicasReady |-> "none", infraReady |-> "none", phase |-> ""]

\* running is the condition VMRunning: none, True or failed.
Machines ==
  [meta : {"unborn", "live", "deleting", "gone"},
   version : Versions \cup {"none"}, running : {"none", "True", "failed"}]

Unborn == [meta |-> "unborn", version |-> "none", running |-> "none"]

NoMachines == [v \in Names |-> Unborn]

Live(machines) == {v \in Names : machines[v].meta = "live"}

\* Every version of the load balancer and of its machines is legal, the replica
\* counts of the copies never go below zero, and only a machine that exists
\* serves.
TypeOK ==
  /\ lb \in Windows({o \in LoadBalancers : o.meta # "released"})
  /\ vms \in Windows([Names -> Machines])
  /\ service \in {"absent", "pending", "up"}
  /\ serving \subseteq {v \in Names : Stored(vms)[v].meta \in {"live", "deleting"}}
  /\ pc \in {"idle", "finalizer", "list", "scaleUp", "surge", "scaleDown", "service",
             "status", "deleteService", "deleteList", "deleteVMs", "close"}
  /\ before \in LoadBalancers /\ after \in LoadBalancers
  /\ listed \in [Names -> Machines]
  /\ edits \in 0..MaxEdits /\ faults \in 0..MaxFaults /\ failures \in 0..MaxVMFailures

-----------------------------------------------------------------------------
WriteLB(o) == Room(lb, LbLag) /\ lb' = Pushed(lb, o, LbLag)

WriteVM(v, machine) ==
  /\ Room(vms, VmLag)
  /\ vms' = Pushed(vms, [Stored(vms) EXCEPT ![v] = machine], VmLag)

Fault == faults < MaxFaults /\ faults' = faults + 1

Failure == failures < MaxVMFailures /\ failures' = failures + 1

-----------------------------------------------------------------------------
(* The user, the garbage collector, the watches and a restart.              *)

EditSpec ==
  /\ edits < MaxEdits /\ edits' = edits + 1
  /\ Stored(lb).meta \in {"new", "held"}
  /\ \E n \in Desires, os \in Versions :
       /\ <<n, os>> # <<Stored(lb).desired, Stored(lb).version>>
       /\ WriteLB([Stored(lb) EXCEPT !.desired = n, !.version = os])
  /\ UNCHANGED <<vms, service, serving, control, faults, failures>>

DeleteLB ==
  /\ edits < MaxEdits /\ edits' = edits + 1
  /\ Stored(lb).meta \in {"new", "held"}
  /\ WriteLB(IF Stored(lb).meta = "new" THEN Absent
             ELSE [Stored(lb) EXCEPT !.meta = "deleting"])
  /\ UNCHANGED <<vms, service, serving, control, faults, failures>>

\* The machines name the load balancer as their owner.
GarbageCollect ==
  /\ Stored(lb).meta = "absent"
  /\ \E v \in Live(Stored(vms)) : WriteVM(v, [Stored(vms)[v] EXCEPT !.meta = "deleting"])
  /\ UNCHANGED <<lb, service, serving, control, edits, faults, failures>>

ObserveLB ==
  /\ Len(lb) > 1 /\ lb' = Tail(lb)
  /\ UNCHANGED <<vms, service, serving, control, edits, faults, failures>>

ObserveVMs ==
  /\ Len(vms) > 1 /\ vms' = Tail(vms)
  /\ UNCHANGED <<lb, service, serving, control, edits, faults, failures>>

Restart ==
  /\ Fault
  /\ lb' = Relisted(lb) /\ vms' = Relisted(vms)
  /\ pc' = "idle" /\ before' = Absent /\ after' = Absent /\ listed' = NoMachines
  /\ UNCHANGED <<service, serving, edits, failures>>

-----------------------------------------------------------------------------
(* The machine controller and MOC, as this controller sees them: a machine  *)
(* runs or fails (and is tried again), a running one connects to the        *)
(* service, and one that is being deleted stays connected until it is gone. *)

MachineRuns ==
  /\ \E v \in Live(Stored(vms)) :
       /\ Stored(vms)[v].running # "True"
       /\ WriteVM(v, [Stored(vms)[v] EXCEPT !.running = "True"])
  /\ UNCHANGED <<lb, service, serving, control, edits, faults, failures>>

MachineFails ==
  /\ Failure
  /\ \E v \in Live(Stored(vms)) :
       /\ Stored(vms)[v].running # "failed"
       /\ WriteVM(v, [Stored(vms)[v] EXCEPT !.running = "failed"])
  /\ UNCHANGED <<lb, service, serving, control, edits, faults>>

MachineGone ==
  /\ \E v \in Names :
       /\ Stored(vms)[v].meta = "deleting"
       /\ WriteVM(v, [Stored(vms)[v] EXCEPT !.meta = "gone"])
       /\ serving' = serving \ {v}
  /\ UNCHANGED <<lb, service, control, edits, faults, failures>>

Connect ==
  /\ service # "absent"
  /\ \E v \in Live(Stored(vms)) \ serving :
       Stored(vms)[v].running = "True" /\ serving' = serving \cup {v}
  /\ UNCHANGED <<lb, vms, service, control, edits, faults, failures>>

Disconnect ==
  /\ Failure
  /\ \E v \in serving : serving' = serving \ {v}
  /\ UNCHANGED <<lb, vms, service, control, edits, faults>>

AssignAddress ==
  /\ service = "pending" /\ service' = "up"
  /\ UNCHANGED <<lb, vms, serving, control, edits, faults, failures>>

-----------------------------------------------------------------------------
(* The patches of the scope.                                                *)

ConditionFields == {"replicasReady", "infraReady"}
StatusFields == {"ready", "address", "replicas", "readyReplicas", "phase"}

Patched(copy, fields) ==
  LET o == Merged(Stored(lb), before, copy, fields)
  IN  IF o.meta = "absent" THEN Absent ELSE o

Goto(label, copy) == pc' = label /\ after' = copy /\ UNCHANGED <<before, edits>>

Failed == Goto("close", [after EXCEPT !.infraReady = "False"])

-----------------------------------------------------------------------------
(* Reconcile.                                                               *)

Reconcile ==
  /\ pc = "idle"
  /\ before' = Cached(lb)
  /\ CASE Cached(lb).meta = "absent" -> pc' = "idle" /\ after' = Absent
       [] Cached(lb).meta = "deleting" -> pc' = "deleteService" /\ after' = Cached(lb)
       [] OTHER -> pc' = "finalizer" /\ after' = [Cached(lb) EXCEPT !.meta = "held"]
  /\ UNCHANGED <<world, listed, edits, faults, failures>>

\* Mutant: a patch that does not find the object is taken for done.
PatchFinalizerNotFoundIgnored ==
  /\ pc = "finalizer"
  /\ \/ WriteLB(Patched(after, {"meta"})) /\ Goto("list", after) /\ UNCHANGED faults
     \/ before # after /\ Fault /\ Goto("close", after) /\ UNCHANGED lb
  /\ UNCHANGED <<vms, service, serving, listed, failures>>

PatchFinalizer ==
  /\ pc = "finalizer"
  /\ \/ /\ before = after \/ Stored(lb).meta # "absent"
        /\ WriteLB(Patched(after, {"meta"}))
        /\ Goto("list", after) /\ UNCHANGED faults
     \/ /\ before # after
        /\ \/ Stored(lb).meta = "absent" /\ UNCHANGED faults
           \/ Fault
        /\ Goto("close", after) /\ UNCHANGED lb
  /\ UNCHANGED <<vms, service, serving, listed, failures>>

-----------------------------------------------------------------------------
(* reconcileVirtualMachines.                                                *)

\* reconcileLoadBalancerServiceStatus
ServiceStatus(o) ==
  [o EXCEPT !.address = o.address \/ service = "up",
            !.readyReplicas = Cardinality(serving)]

replicasAreUpgrading(o) == o.replicasReady = "Upgrading"

replicasAreScalingUp(o) == o.replicasReady = "ScalingUp"

isScaleUpRequired(o) == o.replicas < o.desired

\* Mutant: one too many.
isScaleDownRequiredOffByOne(o) == o.replicas >= o.desired

isScaleDownRequired(o) == o.replicas > o.desired

isUpgradeRequired(o, machines) ==
  \E v \in Live(machines) : machines[v].version # o.version

Because(o, reason) ==
  IF replicasAreUpgrading(o) THEN o ELSE [o EXCEPT !.replicasReady = reason]

\* Mutant: replicas that are not ready are waited for only to finish a scale-up.
ScaleWithoutWaiting(o, machines) ==
  IF o.readyReplicas < o.replicas /\ replicasAreScalingUp(o) THEN <<"service", o>>
  ELSE IF isScaleUpRequired(o) THEN <<"scaleUp", Because(o, "ScalingUp")>>
  ELSE IF isScaleDownRequired(o) THEN <<"scaleDown", Because(o, "ScalingDown")>>
  ELSE IF isUpgradeRequired(o, machines)
    THEN <<"surge", [o EXCEPT !.replicasReady = "Upgrading"]>>
  ELSE <<"service", [o EXCEPT !.replicasReady = IF IsFalse(@) THEN "True" ELSE @]>>

\* What to do about the replica counts in o and the listed machines: the next
\* step, and o with the condition that goes with it.
Scale(o, machines) ==
  LET unready == o.readyReplicas < o.replicas
  IN  IF unready /\ (replicasAreUpgrading(o) \/ replicasAreScalingUp(o))
        THEN <<"service", o>>
      ELSE IF unready /\ ~isScaleDownRequired(o)
        THEN <<"service", [o EXCEPT !.replicasReady = "Waiting"]>>
      ELSE IF isScaleUpRequired(o) THEN <<"scaleUp", Because(o, "ScalingUp")>>
      ELSE IF isScaleDownRequired(o) THEN <<"scaleDown", Because(o, "ScalingDown")>>
      ELSE IF isUpgradeRequired(o, machines)
        THEN <<"surge", [o EXCEPT !.replicasReady = "Upgrading"]>>
      ELSE <<"service", [o EXCEPT !.replicasReady = IF IsFalse(@) THEN "True" ELSE @]>>

\* The list comes from the cache; the status of the service is best effort.  A
\* machine that is not running ends the work on the machines for this time.
ListVMs ==
  /\ pc = "list"
  /\ listed' = Cached(vms)
  /\ LET live == Live(Cached(vms))
     IN  IF \E v \in live : Cached(vms)[v].running = "failed"
           THEN Goto("service", [after EXCEPT !.replicasReady = "VMFailed"]) /\ UNCHANGED faults
           ELSE \/ /\ service # "absent"
                   /\ LET o == [ServiceStatus(after) EXCEPT !.replicas = Cardinality(live)]
                      IN  Goto(Scale(o, Cached(vms))[1], Scale(o, Cached(vms))[2])
                   /\ UNCHANGED faults
                \/ /\ LET o == [after EXCEPT !.replicas = Cardinality(live)]
                      IN  Goto(Scale(o, Cached(vms))[1], Scale(o, Cached(vms))[2])
                   /\ IF service = "absent" THEN UNCHANGED faults ELSE Fault
  /\ UNCHANGED <<world, failures>>

\* createOrUpdateVirtualMachine draws a new name, so a call that fails after it
\* took effect leaves a machine that the retry does not find by name.
CreateMachine ==
  \E v \in Names :
    /\ Stored(vms)[v].meta = "unborn"
    /\ \A u \in Names : u < v => Stored(vms)[u].meta # "unborn"
    /\ WriteVM(v, [meta |-> "live", version |-> after.version, running |-> "none"])

\* Mutant: the loop of the upgrade runs once too often.
ScaleUpOffByOne ==
  /\ pc \in {"scaleUp", "surge"}
  /\ CreateMachine
  /\ LET o == [after EXCEPT !.replicas = @ + 1]
     IN  Goto(IF pc = "surge" /\ o.replicas <= o.desired + MaxSurge
                THEN "surge" ELSE "service", o)
  /\ UNCHANGED <<lb, service, serving, listed, faults, failures>>

\* scaleUpVirtualMachines, once to reach the desired count and up to
\* GetMaxReplicas for an upgrade
ScaleUp ==
  /\ pc \in {"scaleUp", "surge"}
  /\ LET o == [after EXCEPT !.replicas = @ + 1]
     IN  \/ /\ CreateMachine
            /\ Goto(IF pc = "surge" /\ o.replicas < o.desired + MaxSurge
                      THEN "surge" ELSE "service", o)
            /\ UNCHANGED faults
         \/ /\ Fault /\ Failed
            /\ CreateMachine \/ UNCHANGED vms
         \/ /\ \A v \in Names : Stored(vms)[v].meta # "unborn"
            /\ Failed /\ UNCHANGED <<vms, faults>>
  /\ UNCHANGED <<lb, service, serving, listed, failures>>

\* selectVirtualMachineForScaleDown: the oldest of another version, or the oldest
Selected ==
  LET live == Live(listed)
      old == {v \in live : listed[v].version # after.version}
      Oldest(S) == CHOOSE v \in S : \A u \in S : v <= u
  IN  IF old # {} THEN Oldest(old) ELSE Oldest(live)

\* deleteVirtualMachine: the Update carries the version of the listed copy, and
\* not found counts as deleted.
Deletable(v) == Stored(vms)[v] = listed[v]

DeleteMachine(v) ==
  IF Stored(vms)[v].meta = "gone" THEN UNCHANGED vms
  ELSE Deletable(v) /\ WriteVM(v, [listed[v] EXCEPT !.meta = "deleting"])

ScaleDown ==
  /\ pc = "scaleDown"
  /\ \/ /\ DeleteMachine(Selected)
        /\ Goto("service", [after EXCEPT !.replicas = @ - 1]) /\ UNCHANGED faults
     \/ /\ ~Deletable(Selected) /\ Stored(vms)[Selected].meta # "gone"
        /\ Failed /\ UNCHANGED <<vms, faults>>
     \/ /\ Fault /\ Failed
        /\ DeleteMachine(Selected) \/ UNCHANGED vms
  /\ UNCHANGED <<lb, service, serving, listed, failures>>

-----------------------------------------------------------------------------
(* The service and the rest of reconcileNormal.                             *)

ReconcileService ==
  /\ pc = "service"
  /\ LET made == IF service = "absent" THEN "pending" ELSE service
     IN  \/ service' = made /\ Goto("status", after) /\ UNCHANGED faults
         \/ Fault /\ service' \in {service, made} /\ Failed
  /\ UNCHANGED <<lb, vms, serving, listed, failures>>

\* Mutant: a ready replica is enough.
SetReadyWithoutAddress(o) ==
  IF o.replicas # 0 /\ o.readyReplicas < 1
    THEN [o EXCEPT !.infraReady = "False"]
    ELSE [o EXCEPT !.infraReady = IF IsFalse(@) THEN "True" ELSE @, !.ready = TRUE]

\* Ready is set once there is an address and, unless there are no replicas at
\* all, at least one of them is ready.
SetReady(o) ==
  IF ~o.address \/ (o.replicas # 0 /\ o.readyReplicas < 1)
    THEN [o EXCEPT !.infraReady = "False"]
    ELSE [o EXCEPT !.infraReady = IF IsFalse(@) THEN "True" ELSE @, !.ready = TRUE]

ReconcileServiceStatus ==
  /\ pc = "status"
  /\ \/ /\ Goto("close", SetReady(IF after.address THEN after ELSE ServiceStatus(after)))
        /\ UNCHANGED faults
     \/ ~after.address /\ Fault /\ Failed
  /\ UNCHANGED <<world, listed, failures>>

-----------------------------------------------------------------------------
(* reconcileDelete.                                                         *)

\* Mutant: the deletion goes on when the service could not be deleted.
DeleteServiceBestEffort ==
  /\ pc = "deleteService"
  /\ \/ service' = "absent" /\ UNCHANGED faults
     \/ Fault /\ UNCHANGED service
  /\ serving' = IF service' = "absent" THEN {} ELSE serving
  /\ Goto("deleteList", after)
  /\ UNCHANGED <<lb, vms, listed, failures>>

DeleteService ==
  /\ pc = "deleteService"
  /\ \/ service' = "absent" /\ Goto("deleteList", after) /\ UNCHANGED faults
     \/ Fault /\ service' \in {service, "absent"} /\ Failed
  /\ serving' = IF service' = "absent" THEN {} ELSE serving
  /\ UNCHANGED <<lb, vms, listed, failures>>

ListDeletedVMs ==
  /\ pc = "deleteList"
  /\ listed' = Cached(vms)
  /\ Goto("deleteVMs", after)
  /\ UNCHANGED <<world, faults, failures>>

\* Mutant: every deletion counts a replica off, as scaleDownVirtualMachines does.
DeleteVMsCounted ==
  /\ pc = "deleteVMs"
  /\ \/ /\ Live(listed) = {}
        /\ Goto("close", [after EXCEPT !.meta = "released", !.infraReady = "False"])
        /\ UNCHANGED <<vms, listed>>
     \/ \E v \in Live(listed) :
          /\ DeleteMachine(v)
          /\ listed' = [listed EXCEPT ![v].meta = "deleting"]
          /\ Goto("deleteVMs", [after EXCEPT !.replicas = @ - 1])
  /\ UNCHANGED <<lb, service, serving, faults, failures>>

\* reconcileDeleteVirtualMachines: one machine after the other; the first error
\* ends it, and the machines that were not in the cache are not looked for.
DeleteVMs ==
  /\ pc = "deleteVMs"
  /\ \/ /\ Live(listed) = {}
        /\ Goto("close", [after EXCEPT !.meta = "released", !.infraReady = "False"])
        /\ UNCHANGED <<vms, listed, faults>>
     \/ \E v \in Live(listed) :
          \/ /\ DeleteMachine(v)
             /\ listed' = [listed EXCEPT ![v].meta = "deleting"]
             /\ Goto("deleteVMs", after) /\ UNCHANGED faults
          \/ /\ ~Deletable(v) /\ Stored(vms)[v].meta # "gone"
             /\ Failed /\ UNCHANGED <<vms, listed, faults>>
          \/ /\ Fault /\ Failed
             /\ DeleteMachine(v) \/ UNCHANGED vms
             /\ UNCHANGED listed
  /\ UNCHANGED <<lb, service, serving, failures>>

-----------------------------------------------------------------------------
\* Mutant: a condition that was never set counts as False.
PhaseNeedsTrue(o) ==
  CASE o.meta \in {"deleting", "released"} -> "Deleting"
    [] o.meta = "held" /\ o.phase = "" -> "Pending"
    [] o.meta = "held" /\ o.phase # "" /\ replicasAreUpgrading(o) -> "Upgrading"
    [] o.meta = "held" /\ o.phase # "" /\ ~replicasAreUpgrading(o) ->
         IF o.replicasReady = "True" /\ o.infraReady = "True" THEN "Provisioned" ELSE "Provisioning"

\* reconcileStatus, which is deferred and so runs at the end of every reconcile
Phase(o) ==
  CASE o.meta \in {"deleting", "released"} -> "Deleting"
    [] o.meta = "held" /\ o.phase = "" -> "Pending"
    [] o.meta = "held" /\ o.phase # "" /\ replicasAreUpgrading(o) -> "Upgrading"
    [] o.meta = "held" /\ o.phase # "" /\ ~replicasAreUpgrading(o) ->
         IF IsFalse(o.replicasReady) \/ IsFalse(o.infraReady) THEN "Provisioning" ELSE "Provisioned"

\* The scope owns no condition: one that changed since the copy was made refuses
\* the patch of the conditions.
Refused(copy) ==
  \E f \in ConditionFields : before[f] # copy[f] /\ Stored(lb)[f] # before[f]

\* The deferred Close: conditions, object and status are separate requests, and
\* the first also fails while the cache is behind.
Close ==
  /\ pc = "close"
  /\ LET copy == [after EXCEPT !.phase = Phase(after)]
         requests == {r \in {ConditionFields, {"meta"}, StatusFields} : Changes(before, copy, r)}
     IN  \E sent \in SUBSET requests :
           /\ Refused(copy) => ConditionFields \notin sent
           /\ WriteLB(Patched(copy, UNION sent))
           /\ IF \/ sent = requests
                 \/ (Refused(copy) \/ Len(lb) > 1) /\ requests \ sent = {ConditionFields}
                THEN UNCHANGED faults ELSE Fault
  /\ pc' = "idle" /\ before' = Absent /\ after' = Absent /\ listed' = NoMachines
  /\ UNCHANGED <<vms, service, serving, edits, failures>>

-----------------------------------------------------------------------------
Init ==
  /\ \E n \in Desires, os \in Versions :
       lb = <<[Absent EXCEPT !.meta = "new", !.desired = n, !.version = os]>>
  /\ vms = <<NoMachines>> /\ service = "absent" /\ serving = {}
  /\ pc = "idle" /\ before = Absent /\ after = Absent /\ listed = NoMachines
  /\ edits = 0 /\ faults = 0 /\ failures = 0

Controller ==
  \/ Reconcile \/ PatchFinalizer \/ ListVMs \/ ScaleUp \/ ScaleDown
  \/ ReconcileService \/ ReconcileServiceStatus
  \/ DeleteService \/ ListDeletedVMs \/ DeleteVMs \/ Close

MachineSteps == MachineRuns \/ MachineGone \/ Connect \/ AssignAddress \/ GarbageCollect

Next ==
  \/ Controller \/ MachineSteps \/ ObserveLB \/ ObserveVMs
  \/ EditSpec \/ DeleteLB \/ Restart \/ MachineFails \/ Disconnect

Spec == Init /\ [][Next]_vars

\* Failed keys are retried, the others come back with every event and resync;
\* watches deliver; a machine that is tried again comes up, connects or goes.
FairSpec ==
  /\ Spec
  /\ WF_vars(Controller) /\ WF_vars(ObserveLB) /\ WF_vars(ObserveVMs)
  /\ WF_vars(MachineRuns) /\ WF_vars(MachineGone) /\ WF_vars(Connect)
  /\ WF_vars(AssignAddress) /\ WF_vars(GarbageCollect)

-----------------------------------------------------------------------------
\* The service of MOC is made only under the finalizer and the finalizer goes
\* only when it is deleted: see FinalizedResource.
Finalized == INSTANCE FinalizedResource
               WITH Resources <- {"service"}, meta <- Stored(lb).meta,
                    owned <- IF service = "absent" THEN {} ELSE {"service"}

FinalizerProtocol == Finalized!Spec

\* Status.Ready of a load balancer that is not being deleted stands for a service
\* with a published address, whatever stale copies its patches came from.
ReadyHasService ==
  Stored(lb).meta = "held" /\ Stored(lb).ready => Stored(lb).address /\ service = "up"

\* scaleDownVirtualMachines never takes the machines below the number that was
\* asked for when the reconcile began, whatever is edited while it runs.
ReplicaFloor ==
  [][pc = "scaleDown" /\ Live(Stored(vms')) # Live(Stored(vms))
       => Cardinality(Live(Stored(vms'))) >= after.desired]_vars

\* MaxSurge: "The maximum number of Replicas that can be created above the desired
\* amount", for the largest amount that was ever asked for.
SurgeBound ==
  \E n \in Desires : Cardinality(Live(Stored(vms))) <= n + MaxSurge

OnlyUpgrades == \A n \in Desires : n <= after.desired

\* "before we handle any scaling or upgrade operations, we make sure that all
\* existing replicas we have created are ready": while no smaller count is asked
\* for, a machine is taken away only when as many replicas are ready as there are.
ReplacesOnlyWhenReady ==
  pc = "scaleDown" /\ OnlyUpgrades => after.readyReplicas >= after.replicas

\* Once the edits and the failures stop, the load balancer has what was asked
\* for and says so, or it and all its machines are gone.
Settled ==
  LET o == Stored(lb)
      machines == Stored(vms)
  IN  \/ o.meta = "absent" /\ service = "absent"
           /\ \A v \in Names : machines[v].meta \in {"unborn", "gone"}
      \/ /\ o.meta = "held" /\ o.ready /\ o.address /\ service = "up"
         /\ Cardinality(Live(machines)) = o.desired /\ Live(machines) \subseteq serving
         /\ \A v \in Live(machines) : machines[v].version = o.version
         /\ o.replicas = o.desired /\ o.phase = "Provisioned"

Settles == <>[]Settled
=============================================================================
