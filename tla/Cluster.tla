------------------------------ MODULE Cluster ------------------------------
(***************************************************************************)
(* The AzureStackHCICluster controller.  It makes the virtual network, the *)
(* group and the key vault in MOC and the AzureStackHCILoadBalancer of the *)
(* cluster, waits for the load balancer and publishes its address.  On     *)
(* deletion it waits for the machines, then for the load balancer, and     *)
(* deletes what it made in MOC.  The controllers of the load balancer and  *)
(* of the machines are abstracted to what this one sees of them.           *)
(***************************************************************************)
EXTENDS Informer, PatchHelper

CONSTANTS
  LbSpecs,         \* load balancer specifications a user may ask for, "none" for nil
  Names,           \* machines the cluster may get
  SameName,        \* is the AzureStackHCICluster called like its Cluster?
  ClusterLag, LbLag, MachineLag,   \* bounds: versions the caches may be behind
  MaxEdits,        \* bound: changes of the specification
  MaxFaults,       \* bound: failed calls and restarts
  MaxLBFailures    \* bound: times the load balancer reports that it is not ready

ASSUME ClusterBounds ==
  /\ {ClusterLag, LbLag, MachineLag, MaxEdits, MaxFaults, MaxLBFailures} \subseteq Nat
  /\ SameName \in BOOLEAN

VARIABLES
  cluster,    \* window of the AzureStackHCICluster
  lb,         \* window of the AzureStackHCILoadBalancer
  machines,   \* window of the AzureStackHCIMachines
  vnet, group,   \* in MOC: absent, given (made by somebody else) or CAPH (tagged)
  vault,      \* does the key vault exist?
  pc, before, after,
  listed,     \* the machines as the running reconcile listed them
  edits, faults, failures

vars == <<cluster, lb, machines, vnet, group, vault, pc, before, after, listed,
          edits, faults, failures>>
moc == <<vnet, group, vault>>
control == <<pc, before, after, listed>>

-----------------------------------------------------------------------------
(* infra is NetworkInfrastructureReady: none, True or why it is False.       *)

Reasons == {"ReconcileFailed", "LBProvisioning", "LBNotReady", "Deleted",
            "MachinesDeleting", "LBDeleting", "DeletionFailed"}

Clusters ==
  [meta : {"absent", "new", "held", "deleting", "released"}, owner : BOOLEAN,
   lbSpec : LbSpecs \cup {"none"}, vnetName : BOOLEAN, endpoint : BOOLEAN,
   provisioned : BOOLEAN, infra : {"none", "True"} \cup Reasons,
   readyCond : {"none", "True"}, phase : {"", "Provisioning", "Provisioned", "Deleting"}]

NoCluster ==
  [meta |-> "absent", owner |-> FALSE, lbSpec |-> "none", vnetName |-> FALSE,
   endpoint |-> FALSE, provisioned |-> FALSE, infra |-> "none",
   readyCond |-> "none", phase |-> ""]

LBs == [meta : {"absent", "new", "held", "deleting"}, spec : LbSpecs \cup {"none"},
        infraReady : {"none", "True", "False"}, address : BOOLEAN]

NoLB == [meta |-> "absent", spec |-> "none", infraReady |-> "none", address |-> FALSE]

\* owned by a Machine, orphan (owned by none), being deleted, or not there.
MachineStates == {"unborn", "owned", "orphan", "deleting", "gone"}

Present(ms) == {m \in Names : ms[m] \in {"owned", "orphan", "deleting"}}

NoMachines == [m \in Names |-> "unborn"]

\* The three windows hold legal objects and the reconcile works on legal copies.
TypeOK ==
  /\ cluster \in Windows({c \in Clusters : c.meta # "released"})
  /\ lb \in Windows(LBs) /\ machines \in Windows([Names -> MachineStates])
  /\ {vnet, group} \subseteq {"absent", "given", "CAPH"} /\ vault \in BOOLEAN
  /\ pc \in {"idle", "finalizer", "vnet", "group", "vault", "lb", "list", "orphans",
             "deleteLB", "getLB", "deleteVault", "deleteVnet", "deleteGroup", "close"}
  /\ before \in Clusters /\ after \in Clusters /\ listed \in [Names -> MachineStates]
  /\ edits \in 0..MaxEdits /\ faults \in 0..MaxFaults /\ failures \in 0..MaxLBFailures

-----------------------------------------------------------------------------
WriteCluster(c) == Room(cluster, ClusterLag) /\ cluster' = Pushed(cluster, c, ClusterLag)

WriteLB(l) == Room(lb, LbLag) /\ lb' = Pushed(lb, l, LbLag)

WriteMachine(m, state) ==
  /\ Room(machines, MachineLag)
  /\ machines' = Pushed(machines, [Stored(machines) EXCEPT ![m] = state], MachineLag)

Fault == faults < MaxFaults /\ faults' = faults + 1

-----------------------------------------------------------------------------
(* Users, Cluster API, the garbage collector, the watches and a restart.    *)

\* The Cluster controller of Cluster API sets the owner reference.
SetOwner ==
  /\ Stored(cluster).meta = "new" /\ ~Stored(cluster).owner
  /\ WriteCluster([Stored(cluster) EXCEPT !.owner = TRUE])
  /\ UNCHANGED <<lb, machines, moc, control, edits, faults, failures>>

EditSpec ==
  /\ edits < MaxEdits /\ edits' = edits + 1
  /\ Stored(cluster).meta \in {"new", "held"}
  /\ \E s \in LbSpecs \ {Stored(cluster).lbSpec} :
       WriteCluster([Stored(cluster) EXCEPT !.lbSpec = s])
  /\ UNCHANGED <<lb, machines, moc, control, faults, failures>>

DeleteCluster ==
  /\ Stored(cluster).meta \in {"new", "held"}
  /\ WriteCluster(IF Stored(cluster).meta = "new" THEN NoCluster
                  ELSE [Stored(cluster) EXCEPT !.meta = "deleting"])
  /\ UNCHANGED <<lb, machines, moc, control, edits, faults, failures>>

\* Machines are made for a cluster that is not being deleted; one that lost or
\* never got its Machine is an orphan.
CreateMachine ==
  /\ Stored(cluster).meta = "held"
  /\ \E m \in Names, kind \in {"owned", "orphan"} :
       Stored(machines)[m] = "unborn" /\ WriteMachine(m, kind)
  /\ UNCHANGED <<cluster, lb, moc, control, edits, faults, failures>>

\* Cluster API deletes the Machines of a cluster and with them what they own.
DeleteOwnedMachine ==
  /\ Stored(cluster).meta # "held"
  /\ \E m \in Names : Stored(machines)[m] = "owned" /\ WriteMachine(m, "deleting")
  /\ UNCHANGED <<cluster, lb, moc, control, edits, faults, failures>>

MachineGone ==
  /\ \E m \in Names : Stored(machines)[m] = "deleting" /\ WriteMachine(m, "gone")
  /\ UNCHANGED <<cluster, lb, moc, control, edits, faults, failures>>

\* The load balancer is owned by the Cluster, which goes after its infrastructure.
GarbageCollect ==
  /\ Stored(cluster).meta = "absent" /\ Stored(lb).meta \in {"new", "held"}
  /\ WriteLB(IF Stored(lb).meta = "new" THEN NoLB ELSE [Stored(lb) EXCEPT !.meta = "deleting"])
  /\ UNCHANGED <<cluster, machines, moc, control, edits, faults, failures>>

Observe ==
  /\ \/ Len(cluster) > 1 /\ cluster' = Tail(cluster) /\ UNCHANGED <<lb, machines>>
     \/ Len(lb) > 1 /\ lb' = Tail(lb) /\ UNCHANGED <<cluster, machines>>
     \/ Len(machines) > 1 /\ machines' = Tail(machines) /\ UNCHANGED <<cluster, lb>>
  /\ UNCHANGED <<moc, control, edits, faults, failures>>

Restart ==
  /\ Fault
  /\ cluster' = Relisted(cluster) /\ lb' = Relisted(lb) /\ machines' = Relisted(machines)
  /\ pc' = "idle" /\ before' = NoCluster /\ after' = NoCluster /\ listed' = NoMachines
  /\ UNCHANGED <<moc, edits, failures>>

-----------------------------------------------------------------------------
(* The LoadBalancer controller, as the cluster sees it: it takes hold of    *)
(* the object, reports that it is not ready, publishes the address, and     *)
(* lets go of a deleted object.  A condition that was never False is not    *)
(* set to True.                                                             *)

LBStep(l) == WriteLB(l) /\ UNCHANGED <<cluster, machines, moc, control, edits, faults>>

LBHolds ==
  /\ Stored(lb).meta = "new"
  /\ LBStep([Stored(lb) EXCEPT !.meta = "held"]) /\ UNCHANGED failures

LBNotReady ==
  /\ failures < MaxLBFailures /\ failures' = failures + 1
  /\ Stored(lb).meta = "held" /\ Stored(lb).infraReady # "False"
  /\ LBStep([Stored(lb) EXCEPT !.infraReady = "False"])

LBReady ==
  /\ Stored(lb).meta = "held"
  /\ ~Stored(lb).address \/ Stored(lb).infraReady = "False"
  /\ LBStep([Stored(lb) EXCEPT !.address = TRUE,
                               !.infraReady = IF @ = "False" THEN "True" ELSE @])
  /\ UNCHANGED failures

LBGone ==
  /\ Stored(lb).meta = "deleting"
  /\ LBStep(NoLB) /\ UNCHANGED failures

-----------------------------------------------------------------------------
(* Reconcile and reconcileNormal.                                           *)

ConditionFields == {"infra", "readyCond"}
ObjectFields == {"meta", "vnetName", "endpoint"}
StatusFields == {"provisioned", "phase"}

Patched(copy, fields) ==
  LET c == Merged(Stored(cluster), before, copy, fields)
  IN  IF c.meta = "absent" THEN NoCluster ELSE c

Goto(label, copy) ==
  pc' = label /\ after' = copy /\ UNCHANGED <<before, machines, edits, failures>>

Because(reason) == [after EXCEPT !.infra = reason]

\* Without an owner reference nothing is done.
Reconcile ==
  /\ pc = "idle"
  /\ IF Cached(cluster).meta = "absent" \/ ~Cached(cluster).owner
       THEN UNCHANGED <<pc, before, after>>
       ELSE /\ before' = Cached(cluster)
            /\ IF Cached(cluster).meta = "deleting"
                 THEN pc' = "list" /\ after' = [Cached(cluster) EXCEPT !.infra = "Deleted"]
                 ELSE pc' = "finalizer" /\ after' = [Cached(cluster) EXCEPT !.meta = "held"]
  /\ UNCHANGED <<cluster, lb, machines, moc, listed, edits, faults, failures>>

\* Mutant: the finalizer is left to the deferred Close.
PatchFinalizerDeferred ==
  /\ pc = "finalizer" /\ Goto("vnet", [after EXCEPT !.vnetName = TRUE])
  /\ UNCHANGED <<cluster, lb, moc, listed, faults>>

\* createOrUpdateVnetName follows the patch.
PatchFinalizer ==
  /\ pc = "finalizer"
  /\ \/ /\ before = after \/ Stored(cluster).meta # "absent"
        /\ WriteCluster(Patched(after, ObjectFields))
        /\ Goto("vnet", [after EXCEPT !.vnetName = TRUE]) /\ UNCHANGED faults
     \/ /\ before # after
        /\ \/ Stored(cluster).meta = "absent" /\ UNCHANGED faults
           \/ Fault
        /\ Goto("close", after) /\ UNCHANGED cluster
  /\ UNCHANGED <<lb, moc, listed>>

\* Reconcile and Delete of azureStackHCIClusterReconciler: the order of the
\* services.
Reconciles == [vnet |-> "group", group |-> "vault", vault |-> "lb"]

Deletes == [deleteVault |-> "deleteVnet", deleteVnet |-> "deleteGroup", deleteGroup |-> "close"]

\* Reconcile of the three services: what exists is left as it is, and a failed
\* create may have had its effect.
Made(resource) == IF resource = "absent" THEN "CAPH" ELSE resource

ReconcileVnet ==
  /\ pc = "vnet"
  /\ \/ vnet' = Made(vnet) /\ Goto(Reconciles[pc], after) /\ UNCHANGED faults
     \/ Fault /\ vnet' \in {vnet, Made(vnet)} /\ Goto("close", Because("ReconcileFailed"))
  /\ UNCHANGED <<cluster, lb, group, vault, listed>>

ReconcileGroup ==
  /\ pc = "group"
  /\ \/ group' = Made(group) /\ Goto(Reconciles[pc], after) /\ UNCHANGED faults
     \/ Fault /\ group' \in {group, Made(group)} /\ Goto("close", Because("ReconcileFailed"))
  /\ UNCHANGED <<cluster, lb, vnet, vault, listed>>

ReconcileVault ==
  /\ pc = "vault"
  /\ \/ vault' = TRUE /\ Goto(Reconciles[pc], after) /\ UNCHANGED faults
     \/ Fault /\ vault' \in {vault, TRUE} /\ Goto("close", Because("ReconcileFailed"))
  /\ UNCHANGED <<cluster, lb, vnet, group, listed>>

\* Mutant: the endpoint is published whether or not there is an address.
FinishAlways(l) ==
  [after EXCEPT !.endpoint = TRUE, !.provisioned = TRUE, !.infra = "True", !.readyCond = "True"]

\* Mutant: the status of the load balancer's condition is taken for its reason.
FinishCopiesStatus(l) ==
  IF l.infraReady = "False" THEN Because(l.infraReady)
  ELSE [after EXCEPT !.endpoint = @ \/ l.address, !.provisioned = TRUE,
                     !.infra = "True", !.readyCond = "True"]

\* The end of reconcileAzureStackHCILoadBalancer and of reconcileNormal, for the
\* load balancer object that CreateOrUpdate left in memory.
Finish(l) ==
  IF l.infraReady = "False" THEN Because("LBNotReady")
  ELSE [after EXCEPT !.endpoint = @ \/ l.address, !.provisioned = TRUE,
                     !.infra = "True", !.readyCond = "True"]

MutatedLB(l) ==
  [l EXCEPT !.meta = IF @ = "absent" THEN "new" ELSE @, !.spec = after.lbSpec]

\* Mutant: an existing load balancer keeps its specification.
ReconcileLBCreateOnly ==
  /\ pc = "lb"
  /\ \/ /\ after.lbSpec # "none" /\ Stored(lb).meta = "absent"
        /\ WriteLB(MutatedLB(NoLB)) /\ Goto("close", Finish(NoLB))
     \/ /\ after.lbSpec = "none" \/ Stored(lb).meta # "absent"
        /\ Goto("close", Finish(Stored(lb))) /\ UNCHANGED lb
  /\ UNCHANGED <<cluster, moc, listed, faults>>

\* CreateOrUpdate decides by the cached object.  AlreadyExists is ignored and
\* leaves an object without status; an Update carries the cached version.
ReconcileLB ==
  /\ pc = "lb"
  /\ LET found == Cached(lb)
         created == found.meta = "absent"
         changed == MutatedLB(found) # found
     IN  \/ /\ after.lbSpec = "none"
            /\ Goto("close", Finish(NoLB)) /\ UNCHANGED <<lb, faults>>
         \/ /\ after.lbSpec # "none" /\ changed
            /\ IF created THEN Stored(lb).meta = "absent" ELSE Len(lb) = 1
            /\ WriteLB(MutatedLB(found))
            /\ Goto("close", Finish(found)) /\ UNCHANGED faults
         \/ /\ after.lbSpec # "none"
            /\ ~changed \/ (created /\ Stored(lb).meta # "absent")
            /\ Goto("close", Finish(found)) /\ UNCHANGED <<lb, faults>>
         \/ /\ after.lbSpec # "none" /\ changed /\ ~created /\ Len(lb) > 1
            /\ Goto("close", Because("LBProvisioning")) /\ UNCHANGED <<lb, faults>>
         \/ /\ after.lbSpec # "none" /\ Fault
            /\ Goto("close", Because("LBProvisioning"))
            /\ \/ UNCHANGED lb
               \/ created /\ Stored(lb).meta = "absent" /\ WriteLB(MutatedLB(found))
               \/ ~created /\ Len(lb) = 1 /\ WriteLB(MutatedLB(found))
  /\ UNCHANGED <<cluster, moc, listed>>

-----------------------------------------------------------------------------
(* reconcileDelete.                                                         *)

\* GetAzureStackHCIMachinesInCluster selects by the name of the
\* AzureStackHCICluster; the label holds the name of the Cluster.
MachinesInCluster == IF SameName THEN Cached(machines) ELSE NoMachines

ListMachines ==
  /\ pc = "list" /\ listed' = MachinesInCluster
  /\ Goto(IF Present(listed') # {} THEN "orphans" ELSE "deleteLB", after)
  /\ UNCHANGED <<cluster, lb, moc, faults>>

\* deleteOrphanedMachines, one machine after the other: the Update carries the
\* listed version, not found is ignored, the first error ends it.
DeleteOrphans ==
  /\ pc = "orphans"
  /\ \/ /\ \A m \in Names : listed[m] # "orphan"
        /\ after' = Because("MachinesDeleting") /\ UNCHANGED <<machines, listed, faults>>
     \/ \E m \in Names :
          /\ listed[m] = "orphan"
          /\ \/ /\ Stored(machines)[m] = "gone" /\ UNCHANGED <<machines, faults>>
                /\ listed' = [listed EXCEPT ![m] = "gone"]
                /\ after' = Because("MachinesDeleting")
             \/ /\ Stored(machines)[m] = "orphan" /\ WriteMachine(m, "deleting")
                /\ listed' = [listed EXCEPT ![m] = "deleting"]
                /\ after' = Because("MachinesDeleting") /\ UNCHANGED faults
             \/ /\ \/ Stored(machines)[m] = "deleting" /\ UNCHANGED faults
                   \/ Fault
                /\ listed' = NoMachines /\ after' = Because("DeletionFailed")
                /\ UNCHANGED machines
  /\ pc' = IF \E m \in Names : listed'[m] = "orphan" THEN "orphans" ELSE "close"
  /\ UNCHANGED <<cluster, lb, moc, before, edits, failures>>

\* reconcileDeleteAzureStackHCILoadBalancer
DeleteLB ==
  /\ pc = "deleteLB"
  /\ LET wanted == after.lbSpec # "none" /\ Cached(lb).meta \in {"new", "held"}
     IN  \/ ~wanted /\ Goto("getLB", after) /\ UNCHANGED <<lb, faults>>
         \/ /\ wanted /\ Len(lb) = 1 /\ Goto("getLB", after) /\ UNCHANGED faults
            /\ WriteLB(IF Stored(lb).meta = "new" THEN NoLB
                       ELSE [Stored(lb) EXCEPT !.meta = "deleting"])
         \/ /\ wanted /\ Goto("close", Because("DeletionFailed")) /\ UNCHANGED lb
            /\ \/ Len(lb) > 1 /\ UNCHANGED faults
               \/ Fault
  /\ UNCHANGED <<cluster, moc, listed>>

\* Mutant: the load balancer is asked to go but not waited for.
GetLBNoWait ==
  pc = "getLB" /\ Goto("deleteVault", after) /\ UNCHANGED <<cluster, lb, moc, listed, faults>>

\* The second Get: while the cache holds a load balancer the cluster waits.
GetLB ==
  /\ pc = "getLB"
  /\ IF Cached(lb).meta # "absent" THEN Goto("close", Because("LBDeleting"))
     ELSE Goto("deleteVault", after)
  /\ UNCHANGED <<cluster, lb, moc, listed, faults>>

\* Mutant: the deletion goes on without the vault.
DeleteVaultBestEffort ==
  /\ pc = "deleteVault" /\ Goto("deleteVnet", after)
  /\ \/ vault' = FALSE /\ UNCHANGED faults
     \/ Fault /\ UNCHANGED vault
  /\ UNCHANGED <<cluster, lb, vnet, group, listed>>

DeleteVault ==
  /\ pc = "deleteVault"
  /\ \/ vault' = FALSE /\ Goto(Deletes[pc], after) /\ UNCHANGED faults
     \/ Fault /\ vault' \in {vault, FALSE} /\ Goto("close", Because("DeletionFailed"))
  /\ UNCHANGED <<cluster, lb, vnet, group, listed>>

\* A network tagged CAPH is skipped as one that is not owned; so is every other,
\* because the answer of Get is a list, which the type assertion does not accept.
DeleteVnet ==
  /\ pc = "deleteVnet"
  /\ \/ Goto(Deletes[pc], after) /\ UNCHANGED faults
     \/ Fault /\ Goto("close", Because("DeletionFailed"))
  /\ UNCHANGED <<cluster, lb, moc, listed>>

\* Only a group that carries the tag is deleted.
DeleteGroup ==
  /\ pc = "deleteGroup"
  /\ LET left == IF group = "CAPH" THEN "absent" ELSE group
     IN  \/ group' = left /\ Goto(Deletes[pc], [after EXCEPT !.meta = "released"]) /\ UNCHANGED faults
         \/ Fault /\ group' \in {group, left} /\ Goto("close", Because("DeletionFailed"))
  /\ UNCHANGED <<cluster, lb, vnet, vault, listed>>

\* reconcilePhase
Phase(c) ==
  IF c.meta \in {"deleting", "released"} THEN "Deleting"
  ELSE IF c.provisioned THEN "Provisioned" ELSE "Provisioning"

\* The deferred function: the phase and then three requests; both conditions are
\* owned by the scope, so only a cache that is behind makes a conflict.
Close ==
  /\ pc = "close"
  /\ LET copy == [after EXCEPT !.phase = Phase(after)]
         requests == {r \in {ConditionFields, ObjectFields, StatusFields} : Changes(before, copy, r)}
     IN  \E sent \in SUBSET requests :
           /\ WriteCluster(Patched(copy, UNION sent))
           /\ IF sent = requests \/ (Len(cluster) > 1 /\ requests \ sent = {ConditionFields})
                THEN UNCHANGED faults ELSE Fault
  /\ pc' = "idle" /\ before' = NoCluster /\ after' = NoCluster /\ listed' = NoMachines
  /\ UNCHANGED <<lb, machines, moc, edits, failures>>

-----------------------------------------------------------------------------
Init ==
  /\ \E s \in LbSpecs, name \in BOOLEAN :
       /\ cluster = <<[NoCluster EXCEPT !.meta = "new", !.lbSpec = s, !.vnetName = name]>>
       /\ vnet = IF name THEN "given" ELSE "absent"
  /\ group \in {"absent", "given"} /\ vault = FALSE
  /\ lb = <<NoLB>> /\ machines = <<NoMachines>>
  /\ pc = "idle" /\ before = NoCluster /\ after = NoCluster /\ listed = NoMachines
  /\ edits = 0 /\ faults = 0 /\ failures = 0

Controller ==
  \/ Reconcile \/ PatchFinalizer \/ ReconcileVnet \/ ReconcileGroup \/ ReconcileVault
  \/ ReconcileLB \/ ListMachines \/ DeleteOrphans \/ DeleteLB \/ GetLB
  \/ DeleteVault \/ DeleteVnet \/ DeleteGroup \/ Close

Others == LBHolds \/ LBReady \/ LBGone \/ DeleteOwnedMachine \/ MachineGone \/ GarbageCollect

Next ==
  \/ Controller \/ Others \/ LBNotReady \/ Observe
  \/ SetOwner \/ EditSpec \/ DeleteCluster \/ CreateMachine \/ Restart

Spec == Init /\ [][Next]_vars

\* Failed keys are retried and every key is resynchronised, watches deliver, and
\* the other controllers do their part.
FairSpec ==
  /\ Spec
  /\ WF_vars(Controller) /\ WF_vars(Observe) /\ WF_vars(SetOwner)
  /\ WF_vars(LBHolds) /\ WF_vars(LBReady) /\ WF_vars(LBGone)
  /\ WF_vars(DeleteOwnedMachine) /\ WF_vars(MachineGone) /\ WF_vars(GarbageCollect)

-----------------------------------------------------------------------------
\* The key vault and the group that the controller tagged exist only under the
\* finalizer, are freed only by a deletion, and are gone before the finalizer is:
\* see FinalizedResource.
Finalized == INSTANCE FinalizedResource
               WITH Resources <- {"group", "vault"}, meta <- Stored(cluster).meta,
                    owned <- (IF group = "CAPH" THEN {"group"} ELSE {})
                               \cup (IF vault THEN {"vault"} ELSE {})

FinalizerProtocol == Finalized!Spec

\* "Register the finalizer immediately to avoid orphaning Azure resources on
\* delete": when the cluster is gone, so is every resource that CAPH made in MOC.
NoOrphan ==
  Stored(cluster).meta = "absent" => ~vault /\ group # "CAPH" /\ vnet # "CAPH"

\* "1. Wait for machines in the cluster to be deleted 2. Delete the
\* AzureStackHCILoadBalancer 3. Wait for AzureStackHCILoadBalancer Deletion 4.
\* Delete the Cluster": the infrastructure in MOC goes after what stands on it.
TeardownOrder ==
  pc \in {"deleteVault", "deleteVnet", "deleteGroup"} =>
    Present(Stored(machines)) = {} /\ Stored(lb).meta = "absent"

\* A published control plane endpoint belongs to a load balancer that exists and
\* has the address, however stale the copies were that the patches came from.
EndpointBacked ==
  Stored(cluster).meta = "held" /\ Stored(cluster).endpoint =>
    Stored(lb).meta = "held" /\ Stored(lb).address

\* "Wait for the load balancer to be fully provisioned": a cluster with a load
\* balancer is provisioned only with the endpoint that it gives.
ProvisionedHasEndpoint ==
  LET c == Stored(cluster)
  IN  c.meta = "held" /\ c.lbSpec # "none" /\ c.provisioned => c.endpoint

\* What a cluster settles in: gone with all it made (but see NoOrphan for the
\* network), or provisioned with the load balancer that was asked for.
Converged ==
  LET c == Stored(cluster)
  IN  \/ /\ c.meta = "absent" /\ ~vault /\ group # "CAPH" /\ Stored(lb).meta = "absent"
         /\ Present(Stored(machines)) = {}
      \/ /\ c.meta = "held" /\ c.provisioned /\ c.infra = "True" /\ c.phase = "Provisioned"
         /\ c.lbSpec # "none" => c.endpoint /\ Stored(lb).spec = c.lbSpec

\* Nothing a cluster waits for is waited for in vain: "2. Delete the
\* AzureStackHCILoadBalancer 3. Wait for AzureStackHCILoadBalancer Deletion".
Converges == <>[]Converged
=============================================================================
