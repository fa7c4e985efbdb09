--------------------------- MODULE ClusterProofs ---------------------------
(***************************************************************************)
(* Proofs about Cluster, for every set of load balancer specifications and *)
(* machines, whether or not the AzureStackHCICluster is called like its    *)
(* Cluster, and every bound on the lag of the three caches, edits, faults  *)
(* and failures.                                                           *)
(***************************************************************************)
EXTENDS Cluster, InformerProofs

-----------------------------------------------------------------------------
(* The inductive invariant.                                                 *)

\* The stored cluster is being deleted, or it is gone.
Over == Stored(cluster).meta \in {"deleting", "absent"}

\* The stored cluster carries the finalizer.
Guarded == Stored(cluster).meta \in {"held", "deleting"}

NormalPCs == {"vnet", "group", "vault", "lb"}
DeletePCs == {"list", "orphans", "deleteLB", "getLB", "deleteVault", "deleteVnet", "deleteGroup"}

\* Every version of the cluster that the cache has yet to see is being deleted or gone.
AllOver == \A i \in 1..Len(cluster) : cluster[i].meta \in {"deleting", "absent"}

\* The versions in the cache come in the order of a life: the finalizer is not taken off
\* before the deletion, and nothing comes back after it.
LifeOrder ==
  /\ \A i \in 1..Len(cluster) : cluster[i].meta \in {"deleting", "absent"} => Over
  /\ \A i \in 1..Len(cluster) : cluster[i].meta = "held" => Guarded
  /\ \A i, j \in 1..Len(cluster) :
       i <= j /\ cluster[i].meta = "deleting" => cluster[j].meta \in {"deleting", "absent"}

\* Where the reconcile is tells what it copied and what is stored by now.
Path ==
  /\ before.meta = "deleting" \/ pc \in DeletePCs \/ after.meta \in {"deleting", "released"} =>
       before.meta = "deleting" /\ AllOver
  /\ pc \in DeletePCs => after.meta = "deleting"
  /\ pc \in NormalPCs \cup {"finalizer"} => after.meta = "held"
  /\ pc = "finalizer" /\ before.meta # "new" => before = after
  /\ pc \in NormalPCs \/ before.meta = "held" => Guarded
  /\ pc \in {"deleteVnet", "deleteGroup"} \/ after.meta = "released" => ~vault
  /\ after.meta = "released" => group # "CAPH"
  /\ pc = "close" => after.meta \in {"held", "deleting", "released"}

\* Without the finalizer there is no vault, and no group with the tag.
ResourcesGuarded == vault \/ group = "CAPH" => Guarded

\* A load balancer with an address is held by its controller, also while it is deleted.
AddressHeld == \A i \in 1..Len(lb) : lb[i].address => lb[i].meta \in {"held", "deleting"}

\* Before the deletion of the cluster its load balancer stays, and so does the address;
\* no version or copy of the cluster has an endpoint that did not come from it.
EndpointStays ==
  ~Over =>
    /\ Stored(lb).meta # "deleting"
    /\ \A i \in 1..Len(lb) : lb[i].address => Stored(lb).address
    /\ \A i \in 1..Len(cluster) : cluster[i].endpoint => Stored(lb).address
    /\ before.endpoint \/ after.endpoint => Stored(lb).address

IInv == TypeOK /\ LifeOrder /\ Path /\ ResourcesGuarded /\ AddressHeld /\ EndpointStays

-----------------------------------------------------------------------------
(* Copies of the cluster.                                                   *)

\* What the API server stores.
Kept == {c \in Clusters : c.meta # "released"}

\* The empty objects are legal and claim nothing.
LEMMA EmptyObjects ==
  /\ NoCluster \in Kept /\ NoCluster \in Clusters /\ NoCluster.meta = "absent" /\ NoCluster.endpoint = FALSE
  /\ NoLB \in LBs /\ NoLB.meta = "absent" /\ NoLB.address = FALSE
  /\ NoMachines \in [Names -> MachineStates]
PROOF
<1>1. NoCluster \in Kept /\ NoCluster \in Clusters /\ NoCluster.meta = "absent" /\ NoCluster.endpoint = FALSE
  BY DEF NoCluster, Clusters, Kept
<1>2. NoLB \in LBs /\ NoLB.meta = "absent" /\ NoLB.address = FALSE
  BY DEF NoLB, LBs
<1>3. NoMachines \in [Names -> MachineStates]
  BY DEF NoMachines, MachineStates
<1> QED
  BY <1>1, <1>2, <1>3

\* A reason changes nothing that the invariant is about.
LEMMA BecauseCopies ==
  ASSUME after \in Clusters, NEW r \in Reasons
  PROVE  /\ Because(r) \in Clusters
         /\ Because(r).meta = after.meta /\ Because(r).endpoint = after.endpoint
PROOF
  BY DEF Because, Clusters

\* The end of reconcileNormal publishes no endpoint but that of the load balancer it found.
LEMMA FinishCopies ==
  ASSUME after \in Clusters, NEW l \in LBs
  PROVE  /\ Finish(l) \in Clusters /\ Finish(l).meta = after.meta
         /\ Finish(l).endpoint => after.endpoint \/ l.address
PROOF
<1>1. CASE l.infraReady = "False"
  <2>1. Finish(l) = Because("LBNotReady") /\ "LBNotReady" \in Reasons
    BY <1>1 DEF Finish, Reasons
  <2> QED
    BY <2>1, BecauseCopies
<1>2. CASE l.infraReady # "False"
  <2> DEFINE e == after.endpoint \/ l.address
             c == [after EXCEPT !.endpoint = e, !.provisioned = TRUE, !.infra = "True",
                                !.readyCond = "True"]
  <2>1. Finish(l) = c
    BY <1>2 DEF Finish, Clusters
  <2>2. e \in BOOLEAN
    OBVIOUS
  <2>3. ASSUME NEW b \in BOOLEAN
        PROVE  LET d == [after EXCEPT !.endpoint = b, !.provisioned = TRUE, !.infra = "True",
                                      !.readyCond = "True"]
               IN  d \in Clusters /\ d.meta = after.meta /\ d.endpoint = b
    BY <2>3 DEF Clusters
  <2> HIDE DEF e
  <2>4. Finish(l) \in Clusters /\ Finish(l).meta = after.meta /\ Finish(l).endpoint = e
    BY <2>1, <2>2, <2>3
  <2> QED
    BY <2>4 DEF e
<1> QED
  BY <1>1, <1>2

\* What a patch does to the stored cluster: fields that the copy did not change keep
\* their stored value.
LEMMA PatchedCopy ==
  ASSUME NEW o \in Kept, Stored(cluster) = o, before \in Clusters, NEW copy \in Clusters,
         NEW fields
  PROVE  LET p == Patched(copy, fields)
         IN  /\ p \in Kept
             /\ p.meta = IF "meta" \in fields /\ before.meta # copy.meta
                           THEN PatchedMeta(copy.meta, o.meta) ELSE o.meta
             /\ p.endpoint => o.endpoint \/ copy.endpoint
PROOF
<1> DEFINE m == Merged(o, before, copy, fields)
<1>1. DOMAIN o = {"meta", "owner", "lbSpec", "vnetName", "endpoint", "provisioned", "infra",
                  "readyCond", "phase"}
  BY DEF Kept, Clusters
<1>2. /\ m = [meta |-> m.meta, owner |-> m.owner, lbSpec |-> m.lbSpec, vnetName |-> m.vnetName,
              endpoint |-> m.endpoint, provisioned |-> m.provisioned, infra |-> m.infra,
              readyCond |-> m.readyCond, phase |-> m.phase]
      /\ m.meta = IF "meta" \in fields /\ before.meta # copy.meta
                    THEN PatchedMeta(copy.meta, o.meta) ELSE o.meta
      /\ m.owner \in {o.owner, copy.owner} /\ m.lbSpec \in {o.lbSpec, copy.lbSpec}
      /\ m.vnetName \in {o.vnetName, copy.vnetName} /\ m.endpoint \in {o.endpoint, copy.endpoint}
      /\ m.provisioned \in {o.provisioned, copy.provisioned} /\ m.infra \in {o.infra, copy.infra}
      /\ m.readyCond \in {o.readyCond, copy.readyCond} /\ m.phase \in {o.phase, copy.phase}
  BY <1>1 DEF Merged
<1>3. m.meta \in {"absent", "new", "held", "deleting"}
  BY <1>2 DEF PatchedMeta, Kept, Clusters
<1>4. m \in Kept
  <2>1. \A q \in {o, copy} :
          /\ q.owner \in BOOLEAN /\ q.lbSpec \in LbSpecs \cup {"none"} /\ q.vnetName \in BOOLEAN
          /\ q.endpoint \in BOOLEAN /\ q.provisioned \in BOOLEAN
          /\ q.infra \in {"none", "True"} \cup Reasons /\ q.readyCond \in {"none", "True"}
          /\ q.phase \in {"", "Provisioning", "Provisioned", "Deleting"}
    BY DEF Kept, Clusters
  <2>2. /\ m.owner \in BOOLEAN /\ m.lbSpec \in LbSpecs \cup {"none"} /\ m.vnetName \in BOOLEAN
        /\ m.endpoint \in BOOLEAN /\ m.provisioned \in BOOLEAN
        /\ m.infra \in {"none", "True"} \cup Reasons /\ m.readyCond \in {"none", "True"}
        /\ m.phase \in {"", "Provisioning", "Provisioned", "Deleting"}
    BY <1>2, <2>1
  <2> QED
    BY <1>2, <1>3, <2>2 DEF Kept, Clusters
<1>5. CASE m.meta = "absent"
  BY <1>2, <1>5, EmptyObjects DEF Patched
<1>6. CASE m.meta # "absent"
  BY <1>2, <1>4, <1>6 DEF Patched
<1> QED
  BY <1>5, <1>6

-----------------------------------------------------------------------------
(* Writes.                                                                  *)

\* The writes that keep the order of a life.
LegalWrite(v) ==
  \/ v.meta = Stored(cluster).meta
  \/ Stored(cluster).meta = "new" /\ v.meta \in {"held", "absent"}
  \/ Stored(cluster).meta = "held" /\ v.meta = "deleting"
  \/ Stored(cluster).meta = "deleting" /\ v.meta = "absent" /\ AllOver

\* What a legal write leaves behind.
LEMMA ClusterWritten ==
  ASSUME IInv, NEW v \in Kept, WriteCluster(v), LegalWrite(v)
  PROVE  /\ cluster' \in Windows(Kept) /\ Stored(cluster') = v
         /\ (Over => Over')
         /\ (v.meta # "absent" /\ Guarded => Guarded')
         /\ LifeOrder'
         /\ (AllOver => AllOver')
         /\ \A i \in 1..Len(cluster') :
              (i \in 1..Len(cluster) /\ cluster'[i] = cluster[i]) \/ cluster'[i] = v
PROOF
<1>w. cluster \in Windows(Kept)
  BY DEF IInv, TypeOK, Kept
<1>l. Stored(cluster) = cluster[Len(cluster)] /\ Len(cluster) \in 1..Len(cluster) /\ Len(cluster) \in Nat
  BY <1>w, WindowEnds
<1>1. /\ cluster' \in Windows(Kept) /\ Stored(cluster') = v /\ Len(cluster') \in Nat
      /\ \A i \in 1..Len(cluster') :
           \/ i \in 1..Len(cluster) /\ cluster'[i] = cluster[i]
           \/ i = Len(cluster') /\ cluster'[i] = v
  BY <1>w, PushedWindow, WindowEnds DEF WriteCluster
<1>2. Over => Over'
  BY <1>1 DEF LegalWrite, Over
<1>3. v.meta # "absent" /\ Guarded => Guarded'
  BY <1>1 DEF LegalWrite, Guarded
<1>4. LifeOrder'
  <2>1. \A i \in 1..Len(cluster') : cluster'[i].meta \in {"deleting", "absent"} => Over'
    BY <1>1, <1>2 DEF IInv, LifeOrder, Over
  <2>2. \A i \in 1..Len(cluster') : cluster'[i].meta = "held" => Guarded'
    BY <1>1 DEF IInv, LifeOrder, Guarded, LegalWrite, AllOver
  <2>3. \A i, j \in 1..Len(cluster') :
          i <= j /\ cluster'[i].meta = "deleting" => cluster'[j].meta \in {"deleting", "absent"}
    <3> TAKE i, j \in 1..Len(cluster')
    <3> SUFFICES ASSUME i <= j, cluster'[i].meta = "deleting"
                 PROVE  cluster'[j].meta \in {"deleting", "absent"}
      OBVIOUS
    <3>1. CASE cluster'[j] = v
      <4>1. Over'
        BY <2>1
      <4> QED
        BY <1>1, <3>1, <4>1 DEF Over
    <3>2. CASE cluster'[j] # v
      <4>1. j \in 1..Len(cluster) /\ cluster'[j] = cluster[j] /\ j \in 1..Len(cluster')
        BY <1>1, <3>2
      <4>2. cluster'[i] = cluster[i] /\ i \in 1..Len(cluster)
        BY <1>1, <3>2, <4>1
      <4> QED
        BY <4>1, <4>2 DEF IInv, LifeOrder
    <3> QED
      BY <3>1, <3>2
  <2> QED
    BY <2>1, <2>2, <2>3 DEF LifeOrder
<1>5. AllOver => AllOver'
  BY <1>1, <1>l DEF LegalWrite, AllOver
<1> QED
  BY <1>1, <1>2, <1>3, <1>4, <1>5

\* A step that leaves the load balancer legal and, before the deletion of the cluster,
\* keeps its address.
LBMoves ==
  /\ lb' \in Windows(LBs) /\ AddressHeld'
  /\ ~Over =>
       /\ Stored(lb').meta # "deleting"
       /\ Stored(lb).address => Stored(lb').address
       /\ \A i \in 1..Len(lb') : lb'[i].address => Stored(lb').address

\* A step that does not touch the load balancer is one.
LEMMA LBSame ==
  ASSUME IInv, UNCHANGED lb
  PROVE  LBMoves
PROOF
  BY DEF LBMoves, IInv, TypeOK, AddressHeld, EndpointStays

\* So is a write that takes no address back.
LEMMA LBWritten ==
  ASSUME IInv, NEW l \in LBs, WriteLB(l), l.address => l.meta \in {"held", "deleting"},
         ~Over => l.meta # "deleting" /\ (Stored(lb).address => l.address)
  PROVE  LBMoves
PROOF
<1>1. /\ lb' \in Windows(LBs) /\ Stored(lb') = l
      /\ \A i \in 1..Len(lb') :
           \/ i \in 1..Len(lb) /\ lb'[i] = lb[i]
           \/ i = Len(lb') /\ lb'[i] = l
  BY PushedWindow DEF WriteLB, IInv, TypeOK
<1>2. AddressHeld'
  BY <1>1 DEF IInv, AddressHeld
<1>3. ~Over => \A i \in 1..Len(lb') : lb'[i].address => Stored(lb').address
  BY <1>1 DEF IInv, EndpointStays
<1> QED
  BY <1>1, <1>2, <1>3 DEF LBMoves

\* A write of one machine makes a legal window.
LEMMA MachineWritten ==
  ASSUME TypeOK, NEW m \in Names, NEW state \in MachineStates, WriteMachine(m, state)
  PROVE  machines' \in Windows([Names -> MachineStates])
PROOF
<1> DEFINE S == [Names -> MachineStates]
           x == [Stored(machines) EXCEPT ![m] = state]
<1>1. machines \in Windows(S) /\ Stored(machines) \in S
  BY WindowEnds DEF TypeOK
<1>2. x \in S
  BY <1>1
<1>3. machines' = Pushed(machines, x, MachineLag)
  BY DEF WriteMachine
<1> HIDE DEF S, x
<1>4. machines' \in Windows(S)
  BY <1>1, <1>2, <1>3, PushedWindow
<1> QED
  BY <1>4 DEF S

\* The bounded counters stay in their bounds.
LEMMA CounterStep ==
  ASSUME TypeOK, Next
  PROVE  edits' \in 0..MaxEdits /\ faults' \in 0..MaxFaults /\ failures' \in 0..MaxLBFailures
PROOF
<1>1. Fault \/ UNCHANGED faults
  BY DEF Next, Controller, Others, SetOwner, EditSpec, DeleteCluster, CreateMachine,
         DeleteOwnedMachine, MachineGone, GarbageCollect, Observe, Restart, LBStep, LBHolds,
         LBNotReady, LBReady, LBGone, Reconcile, PatchFinalizer, ReconcileVnet, ReconcileGroup,
         ReconcileVault, ReconcileLB, ListMachines, DeleteOrphans, DeleteLB, GetLB, DeleteVault,
         DeleteVnet, DeleteGroup, Close
<1>2. failures' = failures \/ (failures < MaxLBFailures /\ failures' = failures + 1)
  BY DEF Next, Controller, Others, SetOwner, EditSpec, DeleteCluster, CreateMachine,
         DeleteOwnedMachine, MachineGone, GarbageCollect, Observe, Restart, LBHolds,
         LBNotReady, LBReady, LBGone, Reconcile, PatchFinalizer, ReconcileVnet, ReconcileGroup,
         ReconcileVault, ReconcileLB, ListMachines, DeleteOrphans, DeleteLB, GetLB, DeleteVault,
         DeleteVnet, DeleteGroup, Close, Goto
<1>3. edits' = edits \/ (edits < MaxEdits /\ edits' = edits + 1)
  BY DEF Next, Controller, Others, SetOwner, EditSpec, DeleteCluster, CreateMachine,
         DeleteOwnedMachine, MachineGone, GarbageCollect, Observe, Restart, LBStep, LBHolds,
         LBNotReady, LBReady, LBGone, Reconcile, PatchFinalizer, ReconcileVnet, ReconcileGroup,
         ReconcileVault, ReconcileLB, ListMachines, DeleteOrphans, DeleteLB, GetLB, DeleteVault,
         DeleteVnet, DeleteGroup, Close, Goto
<1>4. /\ edits \in 0..MaxEdits /\ faults \in 0..MaxFaults /\ failures \in 0..MaxLBFailures
      /\ MaxEdits \in Nat /\ MaxFaults \in Nat /\ MaxLBFailures \in Nat
  BY ClusterBounds DEF TypeOK
<1>5. edits' \in 0..MaxEdits
  BY <1>3, <1>4
<1>6. faults' \in 0..MaxFaults
  BY <1>1, <1>4 DEF Fault
<1>7. failures' \in 0..MaxLBFailures
  BY <1>2, <1>4
<1> QED
  BY <1>5, <1>6, <1>7

-----------------------------------------------------------------------------
(* The invariant, one lemma per kind of step.                               *)

\* The machines, the load balancer's controller and the garbage collector.
LEMMA OtherStep ==
  ASSUME IInv, Next, Others \/ LBNotReady \/ CreateMachine
  PROVE  IInv'
PROOF
<1>t. TypeOK /\ lb \in Windows(LBs) /\ Stored(lb) \in LBs /\ Stored(lb) = lb[Len(lb)]
      /\ Len(lb) \in 1..Len(lb)
  BY WindowEnds DEF IInv, TypeOK
<1>a. /\ Stored(lb).address => Stored(lb).meta \in {"held", "deleting"}
      /\ ~Over => Stored(lb).meta # "deleting"
  BY <1>t DEF IInv, AddressHeld, EndpointStays
<1>1. ASSUME UNCHANGED <<cluster, vnet, group, vault, pc, before, after, listed>>,
             LBMoves, machines' \in Windows([Names -> MachineStates])
      PROVE  IInv'
  <2>1. TypeOK'
    BY <1>t, <1>1, CounterStep DEF TypeOK, LBMoves
  <2>2. LifeOrder' /\ ResourcesGuarded'
    BY <1>1 DEF IInv, LifeOrder, ResourcesGuarded, Guarded, Over
  <2>3. Path'
    BY <1>1 DEF IInv, Path, Guarded, AllOver
  <2>4. EndpointStays' /\ AddressHeld'
    BY <1>1 DEF IInv, EndpointStays, LBMoves, Over
  <2> QED
    BY <2>1, <2>2, <2>3, <2>4 DEF IInv
<1>2. CASE CreateMachine \/ DeleteOwnedMachine \/ MachineGone
  <2>1. /\ UNCHANGED <<cluster, lb, vnet, group, vault, pc, before, after, listed>>
        /\ \E m \in Names, state \in MachineStates : WriteMachine(m, state)
    BY <1>2 DEF CreateMachine, DeleteOwnedMachine, MachineGone, moc, control, MachineStates
  <2> QED
    BY <1>t, <1>1, <2>1, LBSame, MachineWritten
<1>3. CASE LBHolds \/ LBNotReady \/ LBReady \/ LBGone \/ GarbageCollect
  <2>1. UNCHANGED <<cluster, machines, vnet, group, vault, pc, before, after, listed>>
    BY <1>3 DEF LBHolds, LBNotReady, LBReady, LBGone, GarbageCollect, LBStep, moc, control
  <2>2. LBMoves
    <3>1. CASE LBHolds
      <4> DEFINE l == [Stored(lb) EXCEPT !.meta = "held"]
      <4>1. l \in LBs /\ l.meta = "held" /\ l.address = Stored(lb).address /\ WriteLB(l)
        BY <1>t, <3>1 DEF LBHolds, LBStep, LBs
      <4> HIDE DEF l
      <4> QED
        BY <4>1, LBWritten
    <3>2. CASE LBNotReady
      <4> DEFINE l == [Stored(lb) EXCEPT !.infraReady = "False"]
      <4>1. l \in LBs /\ l.meta = "held" /\ l.address = Stored(lb).address /\ WriteLB(l)
        BY <1>t, <3>2 DEF LBNotReady, LBStep, LBs
      <4> HIDE DEF l
      <4> QED
        BY <4>1, LBWritten
    <3>3. CASE LBReady
      <4> DEFINE r == IF Stored(lb).infraReady = "False" THEN "True" ELSE Stored(lb).infraReady
                 l == [Stored(lb) EXCEPT !.address = TRUE, !.infraReady = r]
      <4>1. r \in {"none", "True", "False"} /\ WriteLB(l) /\ Stored(lb).meta = "held"
        BY <1>t, <3>3 DEF LBReady, LBStep, LBs
      <4> HIDE DEF r
      <4>2. l \in LBs /\ l.meta = "held" /\ l.address
        BY <1>t, <4>1 DEF LBs
      <4> HIDE DEF l
      <4> QED
        BY <4>1, <4>2, LBWritten
    <3>4. CASE LBGone
      BY <1>a, <3>4, EmptyObjects, LBWritten DEF LBGone, LBStep
    <3>5. CASE GarbageCollect
      <4>1. Over
        BY <3>5 DEF GarbageCollect, Over
      <4>2. /\ [Stored(lb) EXCEPT !.meta = "deleting"] \in LBs
            /\ [Stored(lb) EXCEPT !.meta = "deleting"].meta = "deleting"
        BY <1>t DEF LBs
      <4> QED
        BY <3>5, <4>1, <4>2, EmptyObjects, LBWritten DEF GarbageCollect
    <3> QED
      BY <1>3, <3>1, <3>2, <3>3, <3>4, <3>5
  <2> QED
    BY <1>t, <1>1, <2>1, <2>2 DEF TypeOK
<1> QED
  BY <1>2, <1>3 DEF Others

\* Users and Cluster API write the cluster.
LEMMA UserStep ==
  ASSUME IInv, Next, SetOwner \/ EditSpec \/ DeleteCluster
  PROVE  IInv'
PROOF
<1>s. /\ Stored(cluster) \in Kept /\ Stored(cluster) = cluster[Len(cluster)]
      /\ Len(cluster) \in 1..Len(cluster)
  <2>1. cluster \in Windows(Kept)
    BY DEF IInv, TypeOK, Kept
  <2> QED
    BY <2>1, WindowEnds
<1>u. /\ UNCHANGED <<lb, machines, vnet, group, vault, pc, before, after, listed>>
      /\ Stored(cluster).meta \in {"new", "held"}
  BY DEF SetOwner, EditSpec, DeleteCluster, moc, control
<1>1. PICK v \in Kept :
        /\ WriteCluster(v) /\ LegalWrite(v)
        /\ v.meta = Stored(cluster).meta \/ v.meta \in {"deleting", "absent"}
        /\ v.meta = "absent" => ~Guarded
        /\ v.meta = Stored(cluster).meta => v.endpoint = Stored(cluster).endpoint
  <2>1. CASE SetOwner
    <3> DEFINE v == [Stored(cluster) EXCEPT !.owner = TRUE]
    <3>1. /\ v \in Kept /\ v.meta = Stored(cluster).meta /\ v.endpoint = Stored(cluster).endpoint
          /\ WriteCluster(v)
      BY <1>s, <2>1 DEF SetOwner, Kept, Clusters
    <3> HIDE DEF v
    <3> QED
      BY <1>u, <3>1 DEF LegalWrite
  <2>2. CASE EditSpec
    <3>1. PICK s \in LbSpecs : WriteCluster([Stored(cluster) EXCEPT !.lbSpec = s])
      BY <2>2 DEF EditSpec
    <3> DEFINE v == [Stored(cluster) EXCEPT !.lbSpec = s]
    <3>2. /\ v \in Kept /\ v.meta = Stored(cluster).meta /\ v.endpoint = Stored(cluster).endpoint
          /\ WriteCluster(v)
      BY <1>s, <3>1 DEF Kept, Clusters
    <3> HIDE DEF v
    <3> QED
      BY <1>u, <3>2 DEF LegalWrite
  <2>3. CASE DeleteCluster /\ Stored(cluster).meta = "new"
    BY <2>3, EmptyObjects DEF DeleteCluster, LegalWrite, Guarded
  <2>4. CASE DeleteCluster /\ Stored(cluster).meta = "held"
    <3> DEFINE v == [Stored(cluster) EXCEPT !.meta = "deleting"]
    <3>1. v \in Kept /\ v.meta = "deleting" /\ WriteCluster(v)
      BY <1>s, <2>4 DEF DeleteCluster, Kept, Clusters
    <3> HIDE DEF v
    <3> QED
      BY <2>4, <3>1 DEF LegalWrite
  <2> QED
    BY <1>u, <2>1, <2>2, <2>3, <2>4
<1>2. /\ cluster' \in Windows(Kept) /\ Stored(cluster') = v
      /\ (v.meta # "absent" /\ Guarded => Guarded')
      /\ LifeOrder'
      /\ \A i \in 1..Len(cluster') :
           (i \in 1..Len(cluster) /\ cluster'[i] = cluster[i]) \/ cluster'[i] = v
  BY <1>1, ClusterWritten
<1>3. ~Over /\ ~AllOver
  BY <1>s, <1>u DEF Over, AllOver
<1>4. TypeOK'
  BY <1>2, <1>u, CounterStep DEF IInv, TypeOK, Kept
<1>5. Guarded => Guarded'
  BY <1>1, <1>2
<1>6. ResourcesGuarded' /\ AddressHeld'
  BY <1>5, <1>u DEF IInv, ResourcesGuarded, AddressHeld
<1>7. Path'
  BY <1>3, <1>5, <1>u DEF IInv, Path
<1>8. EndpointStays'
  <2>1. ASSUME ~Over' PROVE v.endpoint => Stored(lb).address
    BY <1>1, <1>2, <1>3, <1>s, <2>1 DEF IInv, EndpointStays, Over
  <2> QED
    BY <1>2, <1>3, <1>u, <2>1 DEF IInv, EndpointStays
<1> QED
  BY <1>2, <1>4, <1>6, <1>7, <1>8 DEF IInv

\* The caches and a restart.
LEMMA CacheStep ==
  ASSUME IInv, Next, Observe \/ Restart
  PROVE  IInv'
PROOF
<1>w. /\ cluster \in Windows(Kept) /\ lb \in Windows(LBs)
      /\ machines \in Windows([Names -> MachineStates])
  BY DEF IInv, TypeOK, Kept
<1>l. /\ Stored(cluster) = cluster[Len(cluster)] /\ Len(cluster) \in 1..Len(cluster)
      /\ Stored(lb) = lb[Len(lb)] /\ Len(lb) \in 1..Len(lb) /\ Len(cluster) \in Nat
  BY <1>w, WindowEnds
\* What a shorter window keeps.
<1>1. ASSUME cluster' \in Windows(Kept), Stored(cluster') = Stored(cluster),
             \A i \in 1..Len(cluster') : \E k \in 1..Len(cluster) : cluster'[i] = cluster[k],
             \A i, j \in 1..Len(cluster') : i <= j => \E h, k \in 1..Len(cluster) :
               h <= k /\ cluster'[i] = cluster[h] /\ cluster'[j] = cluster[k]
      PROVE  /\ LifeOrder' /\ (AllOver => AllOver') /\ (Over' <=> Over) /\ (Guarded' <=> Guarded)
             /\ ~Over => \A i \in 1..Len(cluster') : cluster'[i].endpoint => Stored(lb).address
  <2>1. (Over' <=> Over) /\ (Guarded' <=> Guarded)
    BY <1>1 DEF Over, Guarded
  <2>2. \A i, j \in 1..Len(cluster') :
          i <= j /\ cluster'[i].meta = "deleting" => cluster'[j].meta \in {"deleting", "absent"}
    <3> TAKE i, j \in 1..Len(cluster')
    <3> SUFFICES ASSUME i <= j PROVE cluster'[i].meta = "deleting" => cluster'[j].meta \in {"deleting", "absent"}
      OBVIOUS
    <3>1. PICK h, k \in 1..Len(cluster) :
            h <= k /\ cluster'[i] = cluster[h] /\ cluster'[j] = cluster[k]
      BY <1>1
    <3> QED
      BY <3>1 DEF IInv, LifeOrder
  <2>3. LifeOrder'
    BY <1>1, <2>1, <2>2 DEF IInv, LifeOrder
  <2> QED
    BY <1>1, <2>1, <2>3 DEF IInv, AllOver, EndpointStays
<1>2. ASSUME lb' \in Windows(LBs), Stored(lb') = Stored(lb),
             \A i \in 1..Len(lb') : \E k \in 1..Len(lb) : lb'[i] = lb[k]
      PROVE  LBMoves
  BY <1>2 DEF LBMoves, IInv, AddressHeld, EndpointStays
<1>3. cluster' = cluster \/ (Len(cluster) > 1 /\ cluster' = Tail(cluster)) \/ cluster' = Relisted(cluster)
  BY DEF Observe, Restart
<1>4. /\ LifeOrder' /\ (AllOver => AllOver') /\ (Over' <=> Over) /\ (Guarded' <=> Guarded)
      /\ ~Over => \A i \in 1..Len(cluster') : cluster'[i].endpoint => Stored(lb).address
      /\ cluster' \in Windows(Kept)
  <2>1. CASE cluster' = cluster
    BY <1>w, <2>1 DEF IInv, LifeOrder, AllOver, Over, Guarded, EndpointStays
  <2>2. CASE Len(cluster) > 1 /\ cluster' = Tail(cluster)
    <3>1. /\ cluster' \in Windows(Kept) /\ Stored(cluster') = Stored(cluster)
          /\ Len(cluster') = Len(cluster) - 1
          /\ \A i \in 1..Len(cluster') : i + 1 \in 1..Len(cluster) /\ cluster'[i] = cluster[i + 1]
      BY <1>w, <2>2, TailWindow
    <3>2. \A i, j \in 1..Len(cluster') : i <= j => \E h, k \in 1..Len(cluster) :
            h <= k /\ cluster'[i] = cluster[h] /\ cluster'[j] = cluster[k]
      <4> TAKE i, j \in 1..Len(cluster')
      <4>1. /\ i + 1 \in 1..Len(cluster) /\ j + 1 \in 1..Len(cluster) /\ (i <= j => i + 1 <= j + 1)
            /\ cluster'[i] = cluster[i + 1] /\ cluster'[j] = cluster[j + 1]
        BY <1>l, <3>1
      <4> QED
        BY <4>1
    <3> QED
      BY <1>1, <3>1, <3>2
  <2>3. CASE cluster' = Relisted(cluster)
    <3>1. /\ cluster' \in Windows(Kept) /\ Stored(cluster') = Stored(cluster)
          /\ \A i \in 1..Len(cluster') : i = 1 /\ cluster'[i] = cluster[Len(cluster)]
      BY <1>l, <1>w, <2>3, RelistedWindow
    <3> QED
      BY <1>1, <1>l, <3>1
  <2> QED
    BY <1>3, <2>1, <2>2, <2>3
<1>5. LBMoves
  <2>1. CASE UNCHANGED lb
    BY <2>1, LBSame
  <2>2. CASE Len(lb) > 1 /\ lb' = Tail(lb)
    BY <1>2, <1>w, <2>2, TailWindow
  <2>3. CASE lb' = Relisted(lb)
    BY <1>2, <1>l, <1>w, <2>3, RelistedWindow
  <2> QED
    BY <2>1, <2>2, <2>3 DEF Observe, Restart
<1>6. machines' \in Windows([Names -> MachineStates])
  BY <1>w, TailWindow, RelistedWindow DEF Observe, Restart
<1>7. /\ UNCHANGED <<vnet, group, vault>>
      /\ \/ UNCHANGED <<pc, before, after, listed>>
         \/ pc' = "idle" /\ before' = NoCluster /\ after' = NoCluster /\ listed' = NoMachines
  BY DEF Observe, Restart, moc, control
<1>8. TypeOK'
  BY <1>4, <1>5, <1>6, <1>7, CounterStep, EmptyObjects DEF IInv, TypeOK, Kept, LBMoves
<1>9. ResourcesGuarded'
  BY <1>4, <1>7 DEF IInv, ResourcesGuarded
<1>10. Path'
  BY <1>4, <1>7, EmptyObjects DEF IInv, Path, NormalPCs, DeletePCs
<1>11. EndpointStays' /\ AddressHeld'
  BY <1>4, <1>5, <1>7, EmptyObjects DEF IInv, EndpointStays, LBMoves
<1> QED
  BY <1>4, <1>8, <1>9, <1>10, <1>11 DEF IInv

\* The beginning of a reconcile.
LEMMA ReadStep ==
  ASSUME IInv, Next, Reconcile
  PROVE  IInv'
PROOF
<1> DEFINE c == Cached(cluster)
<1>w. cluster \in Windows(Kept)
  BY DEF IInv, TypeOK, Kept
<1>l. c = cluster[1] /\ 1 \in 1..Len(cluster) /\ c \in Kept /\ Len(cluster) \in Nat
  BY <1>w, WindowEnds
<1>u. UNCHANGED <<cluster, lb, machines, vnet, group, vault, listed>>
  BY DEF Reconcile, moc
<1>1. \/ UNCHANGED <<pc, before, after>>
      \/ before' = c /\ c.meta = "deleting" /\ pc' = "list" /\ after' = [c EXCEPT !.infra = "Deleted"]
      \/ /\ before' = c /\ c.meta \in {"new", "held"} /\ pc' = "finalizer"
         /\ after' = [c EXCEPT !.meta = "held"]
  BY <1>l DEF Reconcile, Kept, Clusters
<1> HIDE DEF c
<1>2. /\ [c EXCEPT !.infra = "Deleted"] \in Clusters
      /\ [c EXCEPT !.infra = "Deleted"].meta = c.meta
      /\ [c EXCEPT !.infra = "Deleted"].endpoint = c.endpoint
  <2>1. c \in Clusters /\ "Deleted" \in Reasons
    BY <1>l DEF Kept, Reasons
  <2> QED
    BY <2>1 DEF Clusters
<1>3. /\ [c EXCEPT !.meta = "held"] \in Clusters
      /\ [c EXCEPT !.meta = "held"].meta = "held"
      /\ [c EXCEPT !.meta = "held"].endpoint = c.endpoint
      /\ c.meta = "held" => [c EXCEPT !.meta = "held"] = c
  BY <1>l DEF Kept, Clusters
<1>4. \/ UNCHANGED <<pc, before, after>>
      \/ /\ before' = c /\ c.meta = "deleting" /\ pc' = "list" /\ after' \in Clusters
         /\ after'.meta = "deleting" /\ after'.endpoint = c.endpoint
      \/ /\ before' = c /\ c.meta \in {"new", "held"} /\ pc' = "finalizer" /\ after' \in Clusters
         /\ after'.meta = "held" /\ after'.endpoint = c.endpoint
         /\ c.meta = "held" => after' = before'
  BY <1>1, <1>2, <1>3
<1>5. TypeOK'
  BY <1>4, <1>l, <1>u, CounterStep DEF IInv, TypeOK, Kept
<1>6. LifeOrder' /\ ResourcesGuarded' /\ AddressHeld'
  BY <1>u DEF IInv, LifeOrder, ResourcesGuarded, AddressHeld, Over, Guarded
<1>7. Path'
  <2>1. c.meta = "deleting" => AllOver
    BY <1>l DEF IInv, LifeOrder, AllOver
  <2>2. c.meta = "held" => Guarded
    BY <1>l DEF IInv, LifeOrder
  <2>3. (AllOver => AllOver') /\ (Guarded => Guarded')
    BY <1>u DEF AllOver, Guarded
  <2>4. CASE UNCHANGED <<pc, before, after>>
    BY <1>u, <2>3, <2>4 DEF IInv, Path
  <2>5. CASE ~UNCHANGED <<pc, before, after>>
    BY <1>4, <2>1, <2>2, <2>3, <2>5 DEF Path, NormalPCs, DeletePCs
  <2> QED
    BY <2>4, <2>5
<1>8. EndpointStays'
  BY <1>4, <1>l, <1>u DEF IInv, EndpointStays, Over
<1> QED
  BY <1>5, <1>6, <1>7, <1>8 DEF IInv

\* The calls between the finalizer and the close, on either path.
LEMMA MoveStep ==
  ASSUME IInv, Next, UNCHANGED <<cluster, before>>, LBMoves,
         machines' \in Windows([Names -> MachineStates]), listed' \in [Names -> MachineStates],
         {vnet', group'} \subseteq {"absent", "given", "CAPH"}, vault' \in BOOLEAN,
         after' \in Clusters,
         \/ /\ pc \in NormalPCs /\ pc' \in NormalPCs \cup {"close"} /\ after'.meta = after.meta
            /\ ~Over => (after'.endpoint => Stored(lb').address)
         \/ /\ pc \in DeletePCs /\ pc' \in DeletePCs \cup {"close"}
            /\ vault' => vault
            /\ group' = "CAPH" => group = "CAPH"
            /\ pc' \in {"deleteVnet", "deleteGroup"} => ~vault'
            /\ \/ after'.meta = after.meta
               \/ pc = "deleteGroup" /\ pc' = "close" /\ after'.meta = "released" /\ group' # "CAPH"
  PROVE  IInv'
PROOF
<1>1. /\ (AllOver <=> AllOver') /\ (Over <=> Over') /\ (Guarded <=> Guarded') /\ LifeOrder'
  BY DEF IInv, LifeOrder, AllOver, Over, Guarded
<1>2. TypeOK'
  BY CounterStep DEF IInv, TypeOK, LBMoves, NormalPCs, DeletePCs
<1>3. AddressHeld'
  BY DEF LBMoves
<1>4. CASE pc \in NormalPCs
  <2>1. /\ pc' \in NormalPCs \cup {"close"} /\ after'.meta = after.meta /\ after.meta = "held" /\ Guarded
        /\ ~Over => (after'.endpoint => Stored(lb').address)
    BY <1>4 DEF IInv, Path, NormalPCs, DeletePCs
  <2>2. Path'
    BY <1>1, <1>4, <2>1 DEF IInv, Path, NormalPCs, DeletePCs
  <2>3. ResourcesGuarded'
    BY <1>1, <2>1 DEF ResourcesGuarded
  <2>4. EndpointStays'
    BY <1>1, <2>1 DEF IInv, EndpointStays, LBMoves
  <2> QED
    BY <1>1, <1>2, <1>3, <2>2, <2>3, <2>4 DEF IInv
<1>5. CASE pc \in DeletePCs
  <2>1. /\ pc' \in DeletePCs \cup {"close"} /\ before.meta = "deleting" /\ AllOver
        /\ after.meta = "deleting" /\ (vault' => vault) /\ (group' = "CAPH" => group = "CAPH")
        /\ pc' \in {"deleteVnet", "deleteGroup"} => ~vault'
        /\ \/ after'.meta = after.meta
           \/ pc = "deleteGroup" /\ pc' = "close" /\ after'.meta = "released" /\ group' # "CAPH"
    BY <1>5 DEF IInv, Path, NormalPCs, DeletePCs
  <2>2. Path'
    BY <1>1, <1>5, <2>1 DEF IInv, Path, NormalPCs, DeletePCs
  <2>3. ResourcesGuarded'
    BY <1>1, <2>1 DEF IInv, ResourcesGuarded
  <2>4. Over
    <3>1. Stored(cluster) = cluster[Len(cluster)] /\ Len(cluster) \in 1..Len(cluster)
      BY WindowEnds DEF IInv, TypeOK
    <3> QED
      BY <2>1, <3>1 DEF AllOver, Over
  <2> QED
    BY <1>1, <1>2, <1>3, <2>2, <2>3, <2>4 DEF IInv, EndpointStays
<1> QED
  BY <1>4, <1>5

\* The calls of reconcileNormal that make the network, the group and the vault.
LEMMA MakeStep ==
  ASSUME IInv, Next, ReconcileVnet \/ ReconcileGroup \/ ReconcileVault
  PROVE  IInv'
PROOF
<1>t. TypeOK /\ after \in Clusters /\ {vnet, group} \subseteq {"absent", "given", "CAPH"} /\ vault \in BOOLEAN
  BY DEF IInv, TypeOK
<1>r. "ReconcileFailed" \in Reasons
  BY DEF Reasons
<1>1. /\ UNCHANGED <<cluster, lb, before, machines, listed>>
      /\ pc \in NormalPCs /\ pc' \in NormalPCs \cup {"close"}
      /\ after' \in {after, Because("ReconcileFailed")}
  <2>1. Reconciles["vnet"] = "group" /\ Reconciles["group"] = "vault" /\ Reconciles["vault"] = "lb"
    BY DEF Reconciles
  <2>2. CASE ReconcileVnet
    BY <2>1, <2>2 DEF ReconcileVnet, Goto, NormalPCs
  <2>3. CASE ReconcileGroup
    BY <2>1, <2>3 DEF ReconcileGroup, Goto, NormalPCs
  <2>4. CASE ReconcileVault
    BY <2>1, <2>4 DEF ReconcileVault, Goto, NormalPCs
  <2> QED
    BY <2>2, <2>3, <2>4
<1>2. {vnet', group'} \subseteq {"absent", "given", "CAPH"} /\ vault' \in BOOLEAN
  BY <1>t DEF ReconcileVnet, ReconcileGroup, ReconcileVault, Made
<1>3. after' \in Clusters /\ after'.meta = after.meta /\ after'.endpoint = after.endpoint
  BY <1>1, <1>r, <1>t, BecauseCopies
<1>4. LBMoves
  BY <1>1, LBSame
<1>5. ~Over => (after'.endpoint => Stored(lb').address)
  BY <1>1, <1>3 DEF IInv, EndpointStays
<1> QED
  BY <1>1, <1>2, <1>3, <1>4, <1>5, <1>t, MoveStep DEF TypeOK

\* The load balancer object is created or updated, and the cluster copies its address.
LEMMA LoadBalancerStep ==
  ASSUME IInv, Next, ReconcileLB
  PROVE  IInv'
PROOF
<1> DEFINE found == Cached(lb)
<1>t. /\ TypeOK /\ after \in Clusters /\ found \in LBs /\ Stored(lb) \in LBs /\ found = lb[1]
      /\ 1 \in 1..Len(lb) /\ Stored(lb) = lb[Len(lb)] /\ Len(lb) \in 1..Len(lb)
  BY WindowEnds DEF IInv, TypeOK
<1>a. /\ found.address => found.meta \in {"held", "deleting"}
      /\ Stored(lb).address => Stored(lb).meta \in {"held", "deleting"}
      /\ ~Over => Stored(lb).meta # "deleting" /\ (found.address => Stored(lb).address)
  BY <1>t DEF IInv, AddressHeld, EndpointStays
<1>r. "LBProvisioning" \in Reasons
  BY DEF Reasons
<1>1. /\ UNCHANGED <<cluster, before, machines, listed, vnet, group, vault>>
      /\ pc \in NormalPCs /\ pc' = "close"
      /\ after' \in {Finish(NoLB), Finish(found), Because("LBProvisioning")}
      /\ \/ UNCHANGED lb
         \/ WriteLB(MutatedLB(found)) /\ found.meta = "absent" /\ Stored(lb).meta = "absent"
         \/ WriteLB(MutatedLB(found)) /\ found.meta # "absent" /\ Len(lb) = 1
  BY DEF ReconcileLB, Goto, NormalPCs, moc
<1>2. LBMoves
  <2> DEFINE m == IF found.meta = "absent" THEN "new" ELSE found.meta
             s == after.lbSpec
             l == [found EXCEPT !.meta = m, !.spec = s]
  <2>1. MutatedLB(found) = l /\ m \in {"new", "held", "deleting"} /\ s \in LbSpecs \cup {"none"}
    BY <1>t DEF MutatedLB, LBs, Clusters
  <2> HIDE DEF m, s, found
  <2>2. l \in LBs /\ l.meta = m /\ l.address = found.address
    BY <1>t, <2>1 DEF LBs
  <2> HIDE DEF l
  <2>3. CASE WriteLB(l) /\ found.meta = "absent" /\ Stored(lb).meta = "absent"
    BY <1>a, <2>2, <2>3, LBWritten DEF m
  <2>4. CASE WriteLB(l) /\ found.meta # "absent" /\ Len(lb) = 1
    <3>1. found = Stored(lb) /\ m = found.meta
      BY <1>t, <2>4 DEF m
    <3> QED
      BY <1>a, <2>2, <2>4, <3>1, LBWritten
  <2> QED
    BY <1>1, <2>1, <2>3, <2>4, LBSame
<1> HIDE DEF found
<1>3. /\ after' \in Clusters /\ after'.meta = after.meta
      /\ after'.endpoint => after.endpoint \/ found.address
  BY <1>1, <1>r, <1>t, EmptyObjects, BecauseCopies, FinishCopies
<1>4. ~Over => (after'.endpoint => Stored(lb').address)
  BY <1>2, <1>3, <1>a DEF IInv, EndpointStays, LBMoves
<1> QED
  BY <1>1, <1>2, <1>3, <1>4, <1>t, MoveStep DEF TypeOK

\* The calls of reconcileDelete.
LEMMA DeleteStep ==
  ASSUME IInv, Next,
         \/ ListMachines \/ DeleteOrphans \/ DeleteLB \/ GetLB \/ DeleteVault \/ DeleteVnet \/ DeleteGroup
  PROVE  IInv'
PROOF
<1>t. /\ TypeOK /\ after \in Clusters /\ {vnet, group} \subseteq {"absent", "given", "CAPH"}
      /\ vault \in BOOLEAN /\ machines \in Windows([Names -> MachineStates])
      /\ listed \in [Names -> MachineStates] /\ Stored(lb) \in LBs
  BY WindowEnds DEF IInv, TypeOK
<1>r. {"MachinesDeleting", "DeletionFailed", "LBDeleting"} \subseteq Reasons
  BY DEF Reasons
<1>b. \A r \in {"MachinesDeleting", "DeletionFailed", "LBDeleting"} :
        Because(r) \in Clusters /\ Because(r).meta = after.meta
  BY <1>r, <1>t, BecauseCopies
<1>p. pc \in DeletePCs /\ UNCHANGED <<cluster, before>>
  BY DEF ListMachines, DeleteOrphans, DeleteLB, GetLB, DeleteVault, DeleteVnet, DeleteGroup, Goto, DeletePCs
<1>1. CASE ListMachines
  <2>1. /\ UNCHANGED <<lb, machines, vnet, group, vault, after>> /\ listed' = MachinesInCluster
        /\ pc' \in {"orphans", "deleteLB"}
    BY <1>1 DEF ListMachines, Goto, moc
  <2>2. MachinesInCluster \in [Names -> MachineStates]
    BY <1>t, EmptyObjects, WindowEnds DEF MachinesInCluster
  <2> QED
    BY <1>p, <1>t, <2>1, <2>2, LBSame, MoveStep DEF DeletePCs
<1>2. CASE DeleteOrphans
  <2>1. /\ UNCHANGED <<lb, vnet, group, vault>> /\ pc' \in {"orphans", "close"}
        /\ after' \in {Because("MachinesDeleting"), Because("DeletionFailed")}
        /\ machines' = machines \/ \E m \in Names : WriteMachine(m, "deleting")
    BY <1>2 DEF DeleteOrphans, moc
  <2>2. machines' \in Windows([Names -> MachineStates])
    <3>1. "deleting" \in MachineStates
      BY DEF MachineStates
    <3> QED
      BY <1>t, <2>1, <3>1, MachineWritten
  <2>3. listed' \in [Names -> MachineStates]
    <3>1. \A m \in Names : /\ [listed EXCEPT ![m] = "gone"] \in [Names -> MachineStates]
                           /\ [listed EXCEPT ![m] = "deleting"] \in [Names -> MachineStates]
      BY <1>t DEF MachineStates
    <3>2. \/ listed' = listed \/ listed' = NoMachines
          \/ \E m \in Names : listed' = [listed EXCEPT ![m] = "gone"]
          \/ \E m \in Names : listed' = [listed EXCEPT ![m] = "deleting"]
      BY <1>2 DEF DeleteOrphans
    <3> QED
      BY <1>t, <3>1, <3>2, EmptyObjects
  <2>4. after' \in Clusters /\ after'.meta = after.meta
    BY <1>b, <2>1
  <2> QED
    BY <1>p, <1>t, <2>1, <2>2, <2>3, <2>4, LBSame, MoveStep DEF DeletePCs
<1>3. CASE DeleteLB
  <2>1. /\ UNCHANGED <<machines, vnet, group, vault, listed>> /\ pc' \in {"getLB", "close"}
        /\ after' \in {after, Because("DeletionFailed")}
        /\ \/ UNCHANGED lb
           \/ WriteLB(NoLB)
           \/ WriteLB([Stored(lb) EXCEPT !.meta = "deleting"])
    BY <1>3 DEF DeleteLB, Goto, moc
  <2>2. Over
    <3>1. Stored(cluster) = cluster[Len(cluster)] /\ Len(cluster) \in 1..Len(cluster)
      BY <1>t, WindowEnds DEF TypeOK
    <3> QED
      BY <1>p, <3>1 DEF IInv, Path, AllOver, Over
  <2>3. /\ [Stored(lb) EXCEPT !.meta = "deleting"] \in LBs
        /\ [Stored(lb) EXCEPT !.meta = "deleting"].meta = "deleting"
    BY <1>t DEF LBs
  <2>4. LBMoves
    BY <2>1, <2>2, <2>3, EmptyObjects, LBSame, LBWritten
  <2>5. after' \in Clusters /\ after'.meta = after.meta
    BY <1>b, <1>t, <2>1
  <2> QED
    BY <1>p, <1>t, <2>1, <2>4, <2>5, MoveStep DEF DeletePCs
<1>d. Deletes["deleteVault"] = "deleteVnet" /\ Deletes["deleteVnet"] = "deleteGroup"
  BY DEF Deletes
<1>4. CASE GetLB
  <2>1. /\ UNCHANGED <<lb, machines, vnet, group, vault, listed>> /\ pc' \in {"deleteVault", "close"}
        /\ after' \in {after, Because("LBDeleting")}
    BY <1>4 DEF GetLB, Goto, moc
  <2>2. after' \in Clusters /\ after'.meta = after.meta
    BY <1>b, <1>t, <2>1
  <2> QED
    BY <1>p, <1>t, <2>1, <2>2, LBSame, MoveStep DEF DeletePCs
<1>5. CASE DeleteVault
  <2>1. /\ UNCHANGED <<lb, machines, vnet, group, listed>>
        /\ \/ pc' = "deleteVnet" /\ vault' = FALSE
           \/ pc' = "close" /\ vault' \in {vault, FALSE}
        /\ after' \in {after, Because("DeletionFailed")}
    BY <1>5, <1>d DEF DeleteVault, Goto
  <2>2. after' \in Clusters /\ after'.meta = after.meta
    BY <1>b, <1>t, <2>1
  <2>3. /\ vault' \in BOOLEAN /\ (vault' => vault) /\ pc' \in {"deleteVnet", "close"}
        /\ pc' \in {"deleteVnet", "deleteGroup"} => ~vault'
    <3>1. CASE pc' = "deleteVnet" /\ vault' = FALSE
      BY <3>1
    <3>2. CASE pc' = "close" /\ vault' \in {vault, FALSE}
      <4>1. pc' \notin {"deleteVnet", "deleteGroup"}
        BY <3>2
      <4>2. vault' \in BOOLEAN /\ (vault' => vault)
        <5>1. CASE vault' = vault
          BY <1>t, <5>1
        <5>2. CASE vault' = FALSE
          BY <5>2
        <5> QED
          BY <3>2, <5>1, <5>2
      <4> QED
        BY <3>2, <4>1, <4>2
    <3> QED
      BY <2>1, <3>1, <3>2
  <2> QED
    BY <1>p, <1>t, <2>1, <2>2, <2>3, LBSame, MoveStep DEF DeletePCs
<1>6. CASE DeleteVnet
  <2>1. /\ UNCHANGED <<lb, machines, vnet, group, vault, listed>> /\ pc = "deleteVnet"
        /\ pc' \in {"deleteGroup", "close"} /\ after' \in {after, Because("DeletionFailed")}
    BY <1>6, <1>d DEF DeleteVnet, Goto, moc
  <2>2. after' \in Clusters /\ after'.meta = after.meta
    BY <1>b, <1>t, <2>1
  <2>3. ~vault'
    BY <2>1 DEF IInv, Path
  <2> QED
    BY <1>p, <1>t, <2>1, <2>2, <2>3, LBSame, MoveStep DEF DeletePCs
<1>7. CASE DeleteGroup
  <2> DEFINE o == [after EXCEPT !.meta = "released"]
  <2>1. /\ UNCHANGED <<lb, machines, vnet, vault, listed>> /\ pc = "deleteGroup" /\ pc' = "close"
        /\ group' \in {group, "absent"}
        /\ \/ after' = o /\ group' # "CAPH"
           \/ after' = Because("DeletionFailed")
    BY <1>7 DEF DeleteGroup, Deletes, Goto
  <2>2. o \in Clusters /\ o.meta = "released"
    BY <1>t DEF Clusters
  <2> HIDE DEF o
  <2>3. /\ after' \in Clusters
        /\ after'.meta = after.meta \/ (after'.meta = "released" /\ group' # "CAPH")
    BY <1>b, <2>1, <2>2
  <2> QED
    BY <1>p, <1>t, <2>1, <2>3, LBSame, MoveStep DEF DeletePCs
<1> QED
  BY <1>1, <1>2, <1>3, <1>4, <1>5, <1>6, <1>7

\* The finalizer is on the cluster, or its deletion is under way, before any call to MOC.
LEMMA FinalizerStep ==
  ASSUME IInv, Next, PatchFinalizer
  PROVE  IInv'
PROOF
<1> DEFINE named == [after EXCEPT !.vnetName = TRUE]
<1>w. /\ cluster \in Windows(Kept) /\ Stored(cluster) \in Kept
      /\ Stored(cluster) = cluster[Len(cluster)] /\ Len(cluster) \in 1..Len(cluster)
  <2>1. cluster \in Windows(Kept)
    BY DEF IInv, TypeOK, Kept
  <2> QED
    BY <2>1, WindowEnds
<1>1. /\ pc = "finalizer" /\ UNCHANGED <<lb, machines, vnet, group, vault, listed, before>>
      /\ after.meta = "held" /\ (before.meta # "new" => before = after)
  BY DEF PatchFinalizer, Goto, IInv, Path, moc
<1>n. /\ named \in Clusters /\ named.meta = "held" /\ named.endpoint = after.endpoint
      /\ before \in Clusters /\ after \in Clusters
  BY <1>1 DEF IInv, TypeOK, Clusters
<1>b. before.meta # "deleting"
  BY <1>1
<1> HIDE DEF named
<1>2. CASE UNCHANGED cluster /\ pc' = "close" /\ after' = after
  <2>1. TypeOK'
    BY <1>1, <1>2, CounterStep DEF IInv, TypeOK
  <2>2. LifeOrder' /\ ResourcesGuarded' /\ AddressHeld'
    BY <1>1, <1>2 DEF IInv, LifeOrder, ResourcesGuarded, AddressHeld, Over, Guarded
  <2>3. Path'
    BY <1>1, <1>2, <1>b DEF IInv, Path, Guarded, NormalPCs, DeletePCs
  <2>4. EndpointStays'
    BY <1>1, <1>2 DEF IInv, EndpointStays, Over
  <2> QED
    BY <2>1, <2>2, <2>3, <2>4 DEF IInv
<1>3. CASE /\ before = after \/ Stored(cluster).meta # "absent"
           /\ WriteCluster(Patched(after, ObjectFields)) /\ pc' = "vnet" /\ after' = named
  <2> DEFINE p == Patched(after, ObjectFields)
  <2>1. /\ p \in Kept
        /\ p.meta = IF before.meta # after.meta THEN PatchedMeta(after.meta, Stored(cluster).meta)
                    ELSE Stored(cluster).meta
        /\ p.endpoint => Stored(cluster).endpoint \/ after.endpoint
    <3>1. "meta" \in ObjectFields
      BY DEF ObjectFields
    <3> HIDE DEF p
    <3> QED
      BY <1>n, <1>w, <3>1, PatchedCopy DEF p
  <2> HIDE DEF p
  <2>2. p.meta = Stored(cluster).meta \/ (Stored(cluster).meta = "new" /\ p.meta = "held")
    BY <1>1, <2>1 DEF PatchedMeta
  <2>3. LegalWrite(p) /\ WriteCluster(p)
    BY <1>3, <2>2 DEF LegalWrite, p
  <2>4. /\ cluster' \in Windows(Kept) /\ Stored(cluster') = p /\ (Over => Over')
        /\ LifeOrder'
        /\ \A i \in 1..Len(cluster') :
             (i \in 1..Len(cluster) /\ cluster'[i] = cluster[i]) \/ cluster'[i] = p
    BY <2>1, <2>3, ClusterWritten
  <2>5. Guarded'
    <3>1. CASE before.meta = "new"
      <4>1. Stored(cluster).meta \in {"new", "held", "deleting"}
        BY <1>1, <1>3, <1>w, <3>1 DEF Kept, Clusters
      <4>2. p.meta = PatchedMeta("held", Stored(cluster).meta)
        BY <1>1, <2>1, <3>1
      <4>3. p.meta \in {"held", "deleting"}
        BY <4>1, <4>2 DEF PatchedMeta
      <4> QED
        BY <2>4, <4>3 DEF Guarded
    <3>2. CASE before.meta # "new"
      <4>1. Guarded /\ before = after
        BY <1>1, <3>2 DEF IInv, Path
      <4> QED
        BY <2>1, <2>4, <4>1 DEF Guarded
    <3> QED
      BY <3>1, <3>2
  <2>6. TypeOK'
    BY <1>1, <1>3, <1>n, <2>4, CounterStep DEF IInv, TypeOK, Kept
  <2>7. ResourcesGuarded' /\ AddressHeld'
    BY <1>1, <2>5 DEF IInv, ResourcesGuarded, AddressHeld
  <2>8. Path'
    BY <1>1, <1>3, <1>b, <1>n, <2>5 DEF Path, NormalPCs, DeletePCs
  <2>9. EndpointStays'
    <3>1. ~Over => (p.endpoint => Stored(lb).address)
      BY <1>w, <2>1 DEF IInv, EndpointStays
    <3> QED
      BY <1>1, <1>3, <1>n, <2>4, <3>1 DEF IInv, EndpointStays
  <2> QED
    BY <2>4, <2>6, <2>7, <2>8, <2>9 DEF IInv
<1> QED
  BY <1>2, <1>3 DEF PatchFinalizer, Goto, named

\* What the deferred Close writes, complete or in part, is legal: the finalizer goes only
\* when group and vault are gone, and an endpoint comes from the copy or was there.
LEMMA CloseWrites ==
  ASSUME IInv, Close
  PROVE  \E p \in Kept :
           /\ WriteCluster(p) /\ LegalWrite(p)
           /\ p.meta \in {Stored(cluster).meta, "held"} \/ (p.meta = "absent" /\ ~vault /\ group # "CAPH")
           /\ p.endpoint => Stored(cluster).endpoint \/ after.endpoint
PROOF
<1> DEFINE ph == Phase(after)
           copy == [after EXCEPT !.phase = ph]
           requests == {r \in {ConditionFields, ObjectFields, StatusFields} : Changes(before, copy, r)}
           o == Stored(cluster)
<1>w. o \in Kept /\ o = cluster[Len(cluster)] /\ Len(cluster) \in 1..Len(cluster)
  <2>1. cluster \in Windows(Kept)
    BY DEF IInv, TypeOK, Kept
  <2> QED
    BY <2>1, WindowEnds
<1>1. PICK sent \in SUBSET requests : WriteCluster(Patched(copy, UNION sent))
  BY DEF Close
<1> DEFINE fields == UNION sent
           p == Patched(copy, fields)
<1>2. ph \in {"", "Provisioning", "Provisioned", "Deleting"}
  BY DEF Phase
<1> HIDE DEF ph, requests
<1>t. /\ copy \in Clusters /\ before \in Clusters
      /\ copy.meta = after.meta /\ copy.endpoint = after.endpoint
  BY <1>2 DEF IInv, TypeOK, Clusters
<1> HIDE DEF copy, fields
<1>3. /\ p \in Kept
      /\ p.meta = IF "meta" \in fields /\ before.meta # copy.meta
                    THEN PatchedMeta(copy.meta, o.meta) ELSE o.meta
      /\ p.endpoint => o.endpoint \/ copy.endpoint
  BY <1>t, <1>w, PatchedCopy
<1>4. WriteCluster(p)
  BY <1>1 DEF fields
<1> HIDE DEF p
<1>5. /\ after.meta \in {"held", "deleting", "released"}
      /\ after.meta = "deleting" => before.meta = "deleting"
      /\ after.meta = "released" => ~vault /\ group # "CAPH" /\ AllOver
  BY DEF Close, IInv, Path
<1>6. \/ p.meta = o.meta
      \/ o.meta = "new" /\ p.meta = "held"
      \/ o.meta = "deleting" /\ p.meta = "absent" /\ ~vault /\ group # "CAPH" /\ AllOver
  <2>1. CASE after.meta = "held"
    BY <1>3, <1>t, <2>1 DEF PatchedMeta
  <2>2. CASE after.meta = "deleting"
    BY <1>3, <1>5, <1>t, <2>2
  <2>3. CASE after.meta = "released"
    <3>1. o.meta \in {"deleting", "absent"}
      BY <1>5, <1>w, <2>3 DEF AllOver
    <3>2. p.meta \in {o.meta, PatchedMeta("released", o.meta)}
      BY <1>3, <1>t, <2>3
    <3> QED
      BY <1>5, <2>3, <3>1, <3>2 DEF PatchedMeta
  <2> QED
    BY <1>5, <2>1, <2>2, <2>3
<1>7. LegalWrite(p)
  BY <1>6 DEF LegalWrite
<1> QED
  BY <1>3, <1>4, <1>6, <1>7, <1>t

\* The deferred Close keeps the invariant.
LEMMA CloseStep ==
  ASSUME IInv, Next, Close
  PROVE  IInv'
PROOF
<1> USE EmptyObjects
<1>w. Stored(cluster) = cluster[Len(cluster)] /\ Len(cluster) \in 1..Len(cluster)
  BY WindowEnds DEF IInv, TypeOK
<1>1. PICK p \in Kept :
        /\ WriteCluster(p) /\ LegalWrite(p)
        /\ p.meta \in {Stored(cluster).meta, "held"} \/ (p.meta = "absent" /\ ~vault /\ group # "CAPH")
        /\ p.endpoint => Stored(cluster).endpoint \/ after.endpoint
  BY CloseWrites
<1>2. /\ UNCHANGED <<lb, machines, vnet, group, vault>> /\ pc' = "idle"
      /\ before' = NoCluster /\ after' = NoCluster /\ listed' = NoMachines
  BY DEF Close, moc
<1>3. /\ cluster' \in Windows(Kept) /\ Stored(cluster') = p /\ LifeOrder' /\ (Over => Over')
      /\ (p.meta # "absent" /\ Guarded => Guarded')
      /\ \A i \in 1..Len(cluster') :
           (i \in 1..Len(cluster) /\ cluster'[i] = cluster[i]) \/ cluster'[i] = p
  BY <1>1, ClusterWritten
<1>4. TypeOK'
  BY <1>2, <1>3, CounterStep DEF IInv, TypeOK, Kept
<1>5. ResourcesGuarded' /\ AddressHeld'
  <2>1. p.meta = "absent" => (~vault /\ group # "CAPH") \/ Stored(cluster).meta = "absent"
    BY <1>1
  <2> QED
    BY <1>2, <1>3, <2>1 DEF IInv, ResourcesGuarded, AddressHeld, Guarded
<1>6. Path'
  BY <1>2 DEF Path, NormalPCs, DeletePCs
<1>7. EndpointStays'
  <2>1. ~Over => (p.endpoint => Stored(lb).address)
    BY <1>1, <1>w DEF IInv, EndpointStays
  <2> QED
    BY <1>2, <1>3, <2>1 DEF IInv, EndpointStays
<1> QED
  BY <1>3, <1>4, <1>5, <1>6, <1>7 DEF IInv

-----------------------------------------------------------------------------
(* The theorems.                                                            *)

\* A new cluster, without load balancer and machines, satisfies the invariant.
LEMMA InvariantInit == Init => IInv
PROOF
<1> SUFFICES ASSUME Init PROVE IInv
  OBVIOUS
<1> USE EmptyObjects
<1>1. PICK s \in LbSpecs, name \in BOOLEAN :
        /\ cluster = <<[NoCluster EXCEPT !.meta = "new", !.lbSpec = s, !.vnetName = name]>>
        /\ vnet = IF name THEN "given" ELSE "absent"
  BY DEF Init
<1> DEFINE o == [NoCluster EXCEPT !.meta = "new", !.lbSpec = s, !.vnetName = name]
<1>2. o \in Kept /\ o.meta = "new" /\ o.endpoint = FALSE
  BY DEF Kept, Clusters, NoCluster
<1>3. cluster = <<o>> /\ lb = <<NoLB>> /\ machines = <<NoMachines>>
  BY <1>1 DEF Init
<1>v. vnet \in {"given", "absent"}
  BY <1>1
<1> HIDE DEF o
<1>4. /\ cluster \in Windows(Kept) /\ Len(cluster) = 1 /\ Stored(cluster) = o
      /\ \A i \in 1..Len(cluster) : cluster[i] = o
  BY <1>2, <1>3 DEF Windows, Stored
<1>5. /\ lb \in Windows(LBs) /\ Len(lb) = 1 /\ Stored(lb) = NoLB
      /\ \A i \in 1..Len(lb) : lb[i] = NoLB
  BY <1>3 DEF Windows, Stored
<1>6. machines \in Windows([Names -> MachineStates])
  BY <1>3 DEF Windows
<1>7. 0 \in 0..MaxEdits /\ 0 \in 0..MaxFaults /\ 0 \in 0..MaxLBFailures
  BY ClusterBounds
<1>8. TypeOK
  BY <1>4, <1>5, <1>6, <1>7, <1>v DEF Init, TypeOK, Kept
<1>9. LifeOrder /\ Path /\ ResourcesGuarded
  BY <1>2, <1>4 DEF Init, LifeOrder, Path, ResourcesGuarded, Over, Guarded, AllOver, NormalPCs,
                    DeletePCs
<1>10. AddressHeld /\ EndpointStays
  BY <1>2, <1>4, <1>5 DEF Init, AddressHeld, EndpointStays
<1> QED
  BY <1>8, <1>9, <1>10 DEF IInv

\* Every step keeps the invariant.
LEMMA InvariantStep == IInv /\ [Next]_vars => IInv'
PROOF
<1> SUFFICES ASSUME IInv, [Next]_vars PROVE IInv'
  OBVIOUS
<1>1. CASE UNCHANGED vars
  <2> USE <1>1 DEF vars, IInv
  <2>1. TypeOK'
    BY DEF TypeOK
  <2>2. LifeOrder' /\ ResourcesGuarded'
    BY DEF LifeOrder, ResourcesGuarded, Guarded, Over
  <2>3. Path'
    BY DEF Path, Guarded, AllOver
  <2>4. AddressHeld' /\ EndpointStays'
    BY DEF AddressHeld, EndpointStays, Over
  <2> QED
    BY <2>1, <2>2, <2>3, <2>4
<1>2. CASE Next
  BY <1>2, OtherStep, UserStep, CacheStep, ReadStep, MakeStep, LoadBalancerStep, DeleteStep,
     FinalizerStep, CloseStep
     DEF Next, Controller
<1> QED
  BY <1>1, <1>2

\* The invariant holds throughout.
THEOREM InvariantHolds == Spec => []IInv
PROOF
  BY InvariantInit, InvariantStep, PTL DEF Spec

\* The windows and the copies hold legal objects, for every bound on lag, edits and faults.
THEOREM TypeCorrect == Spec => []TypeOK
PROOF
<1>1. IInv => TypeOK
  BY DEF IInv
<1> QED
  BY InvariantHolds, <1>1, PTL

\* A published endpoint belongs to a load balancer that is held and has the address, for
\* every lag of the three caches: reconcileAzureStackHCILoadBalancer publishes nothing
\* that the deletion of the load balancer could have overtaken.
THEOREM EndpointHasLoadBalancer == Spec => []EndpointBacked
PROOF
<1>1. IInv => EndpointBacked
  <2> SUFFICES ASSUME IInv, Stored(cluster).meta = "held", Stored(cluster).endpoint
               PROVE  Stored(lb).meta = "held" /\ Stored(lb).address
    BY DEF EndpointBacked
  <2>1. /\ Stored(cluster) = cluster[Len(cluster)] /\ Len(cluster) \in 1..Len(cluster)
        /\ Stored(lb) = lb[Len(lb)] /\ Len(lb) \in 1..Len(lb)
    BY WindowEnds DEF IInv, TypeOK
  <2> QED
    BY <2>1 DEF IInv, EndpointStays, AddressHeld, Over
<1> QED
  BY InvariantHolds, <1>1, PTL

-----------------------------------------------------------------------------
(* Refinement.                                                              *)

\* What the controller owns in MOC.
Owned == (IF group = "CAPH" THEN {"group"} ELSE {}) \cup (IF vault THEN {"vault"} ELSE {})

\* Every step of the controller and its environment is a step of the finalizer protocol
\* of group and vault or leaves the stored finalizer and both of them alone.
LEMMA ProtocolStep == IInv /\ [Next]_vars => [Finalized!Next]_(Finalized!vars)
PROOF
<1> SUFFICES ASSUME IInv, [Next]_vars PROVE [Finalized!Next]_(Finalized!vars)
  OBVIOUS
<1> DEFINE m == Stored(cluster).meta
           n == Stored(cluster').meta
<1>t. TypeOK /\ cluster \in Windows(Kept)
  BY DEF IInv, TypeOK, Kept
<1>w. /\ Stored(cluster) \in Kept /\ Stored(cluster) = cluster[Len(cluster)]
      /\ Len(cluster) \in 1..Len(cluster)
      /\ \A v \in Kept : WriteCluster(v) => Stored(cluster') = v
  BY <1>t, WindowEnds, PushedWindow DEF WriteCluster
\* The abstract steps, in terms of the stored meta and the resources before and after.
<1>1. ASSUME UNCHANGED <<group, vault>>,
             \/ n = m
             \/ m = "new" /\ n \in {"absent", "held"}
             \/ m = "held" /\ n = "deleting"
             \/ m = "deleting" /\ n = "absent" /\ ~vault /\ group # "CAPH"
      PROVE  [Finalized!Next]_(Finalized!vars)
  <2>1. Owned' = Owned /\ (~vault /\ group # "CAPH" => Owned = {})
    BY <1>1 DEF Owned
  <2> QED
    BY <1>1, <2>1 DEF Finalized!Next, Finalized!vars, Finalized!Discard, Finalized!Hold,
                      Finalized!RequestDeletion, Finalized!Release, Owned
<1>2. ASSUME n = m, m \in {"held", "deleting"}, Owned \subseteq Owned'
      PROVE  [Finalized!Next]_(Finalized!vars)
  <2>1. Owned' \in SUBSET {"group", "vault"} /\ Owned' = Owned \cup Owned'
    BY <1>2 DEF Owned
  <2> QED
    BY <1>2, <2>1 DEF Finalized!Next, Finalized!Acquire, Owned
<1>3. ASSUME n = m, m = "deleting", NEW r \in Owned, Owned' = Owned \ {r}
      PROVE  [Finalized!Next]_(Finalized!vars)
  BY <1>3 DEF Finalized!Next, Finalized!Free, Owned
<1>4. CASE ReconcileVnet \/ ReconcileGroup \/ ReconcileVault
  <2>1. /\ UNCHANGED cluster /\ pc \in NormalPCs
        /\ (group = "CAPH" => group' = "CAPH") /\ (vault => vault')
    BY <1>4, <1>t DEF ReconcileVnet, ReconcileGroup, ReconcileVault, Made, NormalPCs, TypeOK
  <2>2. m \in {"held", "deleting"}
    BY <2>1 DEF IInv, Path, Guarded
  <2>3. Owned \subseteq Owned'
    BY <2>1 DEF Owned
  <2> QED
    BY <1>2, <2>1, <2>2, <2>3
<1>5. CASE DeleteVault
  <2>1. UNCHANGED <<cluster, group>> /\ pc \in DeletePCs /\ vault' \in {vault, FALSE}
    BY <1>5 DEF DeleteVault, DeletePCs
  <2>2. CASE vault' = vault
    BY <1>1, <2>1, <2>2
  <2>3. CASE vault' # vault
    <3>1. vault /\ ~vault'
      BY <1>t, <2>1, <2>3 DEF TypeOK
    <3>2. "vault" \in Owned /\ Owned' = Owned \ {"vault"}
      BY <2>1, <3>1 DEF Owned
    <3>3. m = "deleting"
      BY <1>w, <2>1, <3>1 DEF IInv, Path, AllOver, ResourcesGuarded, Guarded
    <3> QED
      BY <1>3, <2>1, <3>2, <3>3
  <2> QED
    BY <2>2, <2>3
<1>6. CASE DeleteGroup
  <2>1. /\ UNCHANGED <<cluster, vault>> /\ pc \in DeletePCs
        /\ group' = group \/ (group = "CAPH" /\ group' = "absent")
    BY <1>6 DEF DeleteGroup, DeletePCs
  <2>2. CASE group' = group
    BY <1>1, <2>1, <2>2
  <2>3. CASE group = "CAPH" /\ group' = "absent"
    <3>1. "group" \in Owned /\ Owned' = Owned \ {"group"}
      BY <2>1, <2>3 DEF Owned
    <3>2. m = "deleting"
      BY <1>w, <2>1, <2>3 DEF IInv, Path, AllOver, ResourcesGuarded, Guarded
    <3> QED
      BY <1>3, <2>1, <3>1, <3>2
  <2> QED
    BY <2>1, <2>2, <2>3
<1>7. CASE \/ Others \/ LBNotReady \/ CreateMachine \/ Reconcile \/ ReconcileLB \/ ListMachines
           \/ DeleteOrphans \/ DeleteLB \/ GetLB \/ DeleteVnet
  <2>1. UNCHANGED <<cluster, group, vault>>
    BY <1>7 DEF Others, LBHolds, LBNotReady, LBReady, LBGone, LBStep, GarbageCollect,
                DeleteOwnedMachine, MachineGone, CreateMachine, Reconcile, ReconcileLB,
                ListMachines, DeleteOrphans, DeleteLB, GetLB, DeleteVnet, moc
  <2> QED
    BY <1>1, <2>1
<1>8. CASE Observe \/ Restart
  <2>1. /\ UNCHANGED <<group, vault>>
        /\ \/ cluster' = cluster
           \/ Len(cluster) > 1 /\ cluster' = Tail(cluster)
           \/ cluster' = Relisted(cluster)
    BY <1>8 DEF Observe, Restart, moc
  <2>2. Stored(cluster') = Stored(cluster)
    BY <1>t, <2>1, TailWindow, RelistedWindow
  <2> QED
    BY <1>1, <2>1, <2>2
<1>9. CASE SetOwner \/ EditSpec
  <2>1. /\ UNCHANGED <<group, vault>>
        /\ \/ WriteCluster([Stored(cluster) EXCEPT !.owner = TRUE])
           \/ \E s \in LbSpecs : WriteCluster([Stored(cluster) EXCEPT !.lbSpec = s])
    BY <1>9 DEF SetOwner, EditSpec, moc
  <2>2. /\ [Stored(cluster) EXCEPT !.owner = TRUE] \in Kept
        /\ [Stored(cluster) EXCEPT !.owner = TRUE].meta = m
        /\ \A s \in LbSpecs : /\ [Stored(cluster) EXCEPT !.lbSpec = s] \in Kept
                              /\ [Stored(cluster) EXCEPT !.lbSpec = s].meta = m
    BY <1>w DEF Kept, Clusters
  <2> QED
    BY <1>1, <1>w, <2>1, <2>2
<1>10. CASE DeleteCluster
  <2>1. /\ [Stored(cluster) EXCEPT !.meta = "deleting"] \in Kept
        /\ [Stored(cluster) EXCEPT !.meta = "deleting"].meta = "deleting"
    BY <1>w DEF Kept, Clusters
  <2> QED
    BY <1>1, <1>10, <1>w, <2>1, EmptyObjects DEF DeleteCluster, moc
<1>11. CASE PatchFinalizer
  <2>1. after.meta = "held" /\ UNCHANGED <<group, vault>>
    BY <1>11 DEF PatchFinalizer, IInv, Path, moc
  <2>2. CASE UNCHANGED cluster
    BY <1>1, <2>1, <2>2
  <2>3. CASE WriteCluster(Patched(after, ObjectFields))
    <3> DEFINE p == Patched(after, ObjectFields)
    <3>0. before \in Clusters /\ after \in Clusters
      BY <1>t DEF TypeOK
    <3>1. p \in Kept /\ (p.meta = m \/ p.meta = PatchedMeta("held", m))
      BY <1>w, <2>1, <3>0, PatchedCopy
    <3>2. Stored(cluster') = p
      BY <1>w, <2>3, <3>1
    <3> HIDE DEF p
    <3> QED
      BY <1>1, <2>1, <3>1, <3>2 DEF PatchedMeta
  <2> QED
    BY <1>11, <2>2, <2>3 DEF PatchFinalizer
<1>12. CASE Close
  <2>1. PICK p \in Kept :
          /\ WriteCluster(p) /\ LegalWrite(p)
          /\ p.meta \in {m, "held"} \/ (p.meta = "absent" /\ ~vault /\ group # "CAPH")
    BY <1>12, CloseWrites
  <2>2. Stored(cluster') = p /\ UNCHANGED <<group, vault>>
    BY <1>12, <1>w, <2>1 DEF Close, moc
  <2> QED
    BY <1>1, <2>1, <2>2 DEF LegalWrite
<1>13. CASE UNCHANGED vars
  BY <1>1, <1>13 DEF vars
<1> QED
  BY <1>4, <1>5, <1>6, <1>7, <1>8, <1>9, <1>10, <1>11, <1>12, <1>13 DEF Next, Controller

\* The controller implements the finalizer protocol for the key vault and the group with
\* its tag: they are made only while the stored cluster has the finalizer, deleted only
\* while the cluster is being deleted, and the finalizer goes only when both are gone.
THEOREM ImplementsFinalizerProtocol == Spec => FinalizerProtocol
PROOF
<1>1. Init => Finalized!Init
  <2> SUFFICES ASSUME Init PROVE Finalized!Init
    OBVIOUS
  <2>1. PICK s \in LbSpecs, name \in BOOLEAN :
          cluster = <<[NoCluster EXCEPT !.meta = "new", !.lbSpec = s, !.vnetName = name]>>
    BY DEF Init
  <2>2. Stored(cluster).meta = "new"
    BY <2>1 DEF Stored, NoCluster
  <2>3. group # "CAPH" /\ vault = FALSE
    BY DEF Init
  <2> QED
    BY <2>2, <2>3 DEF Finalized!Init
<1> QED
  BY <1>1, InvariantHolds, ProtocolStep, PTL DEF Spec, FinalizerProtocol, Finalized!Spec

-----------------------------------------------------------------------------
(* The order of the teardown, for caches of machines and load balancer that *)
(* are not behind.                                                          *)

\* With fresh caches the list that let the deletion go on was true, and stays so.
OrderKept ==
  /\ Len(lb) = 1 /\ Len(machines) = 1
  /\ pc \in {"deleteLB", "getLB", "deleteVault", "deleteVnet", "deleteGroup"} =>
       Present(Stored(machines)) = {}
  /\ pc \in {"deleteVault", "deleteVnet", "deleteGroup"} => Stored(lb).meta = "absent"

\* Only CreateMachine makes a machine.
LEMMA MachinesShrink ==
  ASSUME MachineLag = 0, TypeOK, Len(machines) = 1, Next
  PROVE  /\ Len(machines') = 1
         /\ Stored(cluster).meta # "held" =>
              Present(Stored(machines')) \subseteq Present(Stored(machines))
PROOF
<1> DEFINE ms == Stored(machines)
<1>t. ms \in [Names -> MachineStates]
  BY WindowEnds DEF TypeOK
<1>1. CASE UNCHANGED machines
  BY <1>1
<1>2. ASSUME NEW m \in Names, NEW state, WriteMachine(m, state),
             state \in {"owned", "orphan", "deleting"} => m \in Present(ms)
      PROVE  Len(machines') = 1 /\ Present(Stored(machines')) \subseteq Present(ms)
  <2>1. Len(machines') = 1 /\ Stored(machines') = [ms EXCEPT ![m] = state]
    BY <1>2, FreshWindow DEF WriteMachine
  <2>2. \A x \in Names : [ms EXCEPT ![m] = state][x] = IF x = m THEN state ELSE ms[x]
    BY <1>t
  <2> QED
    BY <1>2, <2>1, <2>2 DEF Present
<1>3. CASE CreateMachine
  <2>1. Len(machines') = 1
    BY <1>3, FreshWindow DEF CreateMachine, WriteMachine
  <2> QED
    BY <1>3, <2>1 DEF CreateMachine
<1>4. CASE DeleteOwnedMachine \/ MachineGone
  BY <1>2, <1>4 DEF DeleteOwnedMachine, MachineGone, Present
<1>5. CASE Observe
  BY <1>1, <1>5 DEF Observe
<1>6. CASE Restart
  <2>1. Len(machines') = 1 /\ Stored(machines') = ms
    BY <1>6, FreshWindow DEF Restart
  <2> QED
    BY <2>1
<1>7. CASE DeleteOrphans
  BY <1>1, <1>2, <1>7 DEF DeleteOrphans, Present
<1>8. CASE LBHolds \/ LBNotReady \/ LBReady \/ LBGone \/ GarbageCollect
  BY <1>1, <1>8 DEF LBHolds, LBNotReady, LBReady, LBGone, LBStep, GarbageCollect
<1>9. CASE SetOwner \/ EditSpec \/ DeleteCluster \/ Reconcile \/ Close
  BY <1>1, <1>9 DEF SetOwner, EditSpec, DeleteCluster, Reconcile, Close
<1>10. CASE \/ PatchFinalizer \/ ReconcileVnet \/ ReconcileGroup \/ ReconcileVault
            \/ ReconcileLB \/ ListMachines \/ DeleteLB \/ GetLB \/ DeleteVault
            \/ DeleteVnet \/ DeleteGroup
  BY <1>1, <1>10 DEF PatchFinalizer, ReconcileVnet, ReconcileGroup, ReconcileVault,
     ReconcileLB, ListMachines, DeleteLB, GetLB, DeleteVault, DeleteVnet, DeleteGroup, Goto
<1> QED
  BY <1>3, <1>4, <1>5, <1>6, <1>7, <1>8, <1>9, <1>10 DEF Next, Controller, Others

\* Only reconcileAzureStackHCILoadBalancer makes a load balancer.
LEMMA LoadBalancerStaysAbsent ==
  ASSUME LbLag = 0, TypeOK, Len(lb) = 1, Next
  PROVE  /\ Len(lb') = 1
         /\ Stored(lb).meta = "absent" /\ pc # "lb" => Stored(lb').meta = "absent"
PROOF
<1>1. CASE UNCHANGED lb
  BY <1>1
<1>2. ASSUME NEW l, WriteLB(l) PROVE Len(lb') = 1
  BY <1>2, FreshWindow DEF WriteLB
<1>3. CASE LBHolds \/ LBNotReady \/ LBReady \/ LBGone \/ GarbageCollect
  <2>1. Stored(lb).meta # "absent" /\ \E l : WriteLB(l)
    BY <1>3 DEF LBHolds, LBNotReady, LBReady, LBGone, LBStep, GarbageCollect
  <2> QED
    BY <1>2, <2>1
<1>4. CASE ReconcileLB
  <2>1. pc = "lb" /\ (UNCHANGED lb \/ \E l : WriteLB(l))
    BY <1>4 DEF ReconcileLB
  <2> QED
    BY <1>1, <1>2, <2>1
<1>5. CASE DeleteLB
  <2>1. \/ UNCHANGED lb
        \/ Cached(lb).meta \in {"new", "held"} /\ \E l : WriteLB(l)
    BY <1>5 DEF DeleteLB
  <2>2. Cached(lb) = Stored(lb)
    BY FreshWindow
  <2> QED
    BY <1>1, <1>2, <2>1, <2>2
<1>6. CASE Observe
  BY <1>1, <1>6 DEF Observe
<1>7. CASE Restart
  <2>1. Len(lb') = 1 /\ Stored(lb') = Stored(lb)
    BY <1>7, FreshWindow DEF Restart
  <2> QED
    BY <2>1
<1>8. CASE \/ SetOwner \/ EditSpec \/ DeleteCluster \/ Reconcile \/ Close \/ CreateMachine
           \/ DeleteOwnedMachine \/ MachineGone \/ DeleteOrphans
  BY <1>1, <1>8 DEF SetOwner, EditSpec, DeleteCluster, Reconcile, Close, CreateMachine,
     DeleteOwnedMachine, MachineGone, DeleteOrphans
<1>9. CASE \/ PatchFinalizer \/ ReconcileVnet \/ ReconcileGroup \/ ReconcileVault
           \/ ListMachines \/ GetLB \/ DeleteVault \/ DeleteVnet \/ DeleteGroup
  BY <1>1, <1>9 DEF PatchFinalizer, ReconcileVnet, ReconcileGroup, ReconcileVault,
     ListMachines, GetLB, DeleteVault, DeleteVnet, DeleteGroup
<1> QED
  BY <1>3, <1>4, <1>5, <1>6, <1>7, <1>8, <1>9 DEF Next, Controller, Others

\* The teardown enters its later steps only through the two reads.
LEMMA TeardownMoves ==
  ASSUME TypeOK, Next,
         pc' \in {"deleteLB", "getLB", "deleteVault", "deleteVnet", "deleteGroup"}
  PROVE  \/ pc' = pc
         \/ ListMachines /\ pc' = "deleteLB" /\ Present(MachinesInCluster) = {}
         \/ DeleteLB /\ pc = "deleteLB" /\ pc' = "getLB"
         \/ /\ GetLB /\ pc = "getLB" /\ pc' = "deleteVault"
            /\ UNCHANGED lb /\ Cached(lb).meta = "absent"
         \/ pc \in {"deleteVault", "deleteVnet"} /\ pc' \in {"deleteVnet", "deleteGroup"}
PROOF
<1>1. CASE UNCHANGED pc
  BY <1>1
<1>2. CASE Others \/ LBNotReady \/ Observe \/ SetOwner \/ EditSpec \/ DeleteCluster \/ CreateMachine
  BY <1>1, <1>2 DEF Others, LBHolds, LBNotReady, LBReady, LBGone, LBStep, GarbageCollect,
     Observe, SetOwner, EditSpec, DeleteCluster, CreateMachine, DeleteOwnedMachine,
     MachineGone, control
<1>3. CASE Reconcile \/ Close \/ Restart \/ DeleteOrphans \/ PatchFinalizer
  BY <1>1, <1>3 DEF Reconcile, Close, Restart, DeleteOrphans, PatchFinalizer, Goto
<1>4. CASE ReconcileVnet \/ ReconcileGroup \/ ReconcileVault \/ ReconcileLB
  <2>1. /\ Reconciles["vnet"] = "group" /\ Reconciles["group"] = "vault"
        /\ Reconciles["vault"] = "lb"
    BY DEF Reconciles
  <2>2. pc' \in {"group", "vault", "lb", "close"}
    <3>1. CASE ReconcileVnet
      BY <2>1, <3>1 DEF ReconcileVnet, Goto
    <3>2. CASE ReconcileGroup
      BY <2>1, <3>2 DEF ReconcileGroup, Goto
    <3>3. CASE ReconcileVault
      BY <2>1, <3>3 DEF ReconcileVault, Goto
    <3>4. CASE ReconcileLB
      BY <3>4 DEF ReconcileLB, Goto
    <3> QED
      BY <1>4, <3>1, <3>2, <3>3, <3>4
  <2> QED
    BY <2>2
<1>5. CASE ListMachines
  <2>1. listed' = MachinesInCluster
        /\ pc' = IF Present(listed') # {} THEN "orphans" ELSE "deleteLB"
    BY <1>5 DEF ListMachines, Goto
  <2> QED
    BY <1>5, <2>1
<1>6. CASE DeleteLB
  BY <1>6 DEF DeleteLB, Goto
<1>7. CASE GetLB
  BY <1>7 DEF GetLB, Goto
<1>8. CASE DeleteVault \/ DeleteVnet \/ DeleteGroup
  <2>1. /\ Deletes["deleteVault"] = "deleteVnet" /\ Deletes["deleteVnet"] = "deleteGroup"
        /\ Deletes["deleteGroup"] = "close"
    BY DEF Deletes
  <2>2. CASE DeleteVault
    <3>1. pc = "deleteVault" /\ pc' \in {"deleteVnet", "close"}
      BY <2>1, <2>2 DEF DeleteVault, Goto
    <3> QED
      BY <3>1
  <2>3. CASE DeleteVnet
    <3>1. pc = "deleteVnet" /\ pc' \in {"deleteGroup", "close"}
      BY <2>1, <2>3 DEF DeleteVnet, Goto
    <3> QED
      BY <3>1
  <2>4. CASE DeleteGroup
    <3>1. pc' = "close"
      BY <2>1, <2>4 DEF DeleteGroup, Goto
    <3> QED
      BY <3>1
  <2> QED
    BY <1>8, <2>2, <2>3, <2>4
<1> QED
  BY <1>2, <1>3, <1>4, <1>5, <1>6, <1>7, <1>8 DEF Next, Controller

\* Every step keeps the order of the teardown.
LEMMA OrderStep ==
  ASSUME SameName, LbLag = 0, MachineLag = 0
  PROVE  IInv /\ OrderKept /\ [Next]_vars => OrderKept'
PROOF
<1> SUFFICES ASSUME IInv, OrderKept, [Next]_vars PROVE OrderKept'
  OBVIOUS
<1>1. CASE UNCHANGED vars
  BY <1>1 DEF vars, OrderKept
<1>2. CASE Next
  <2> USE <1>2
  <2>t. TypeOK /\ Len(lb) = 1 /\ Len(machines) = 1
    BY DEF IInv, OrderKept
  <2>1. Len(lb') = 1 /\ Len(machines') = 1
    BY <2>t, MachinesShrink, LoadBalancerStaysAbsent
  <2>2. ASSUME pc' \in {"deleteLB", "getLB", "deleteVault", "deleteVnet", "deleteGroup"}
        PROVE  Present(Stored(machines')) = {}
    <3>1. \/ pc = "list" /\ Present(Stored(machines)) = {}
          \/ pc \in {"deleteLB", "getLB", "deleteVault", "deleteVnet", "deleteGroup"}
      <4>1. ListMachines => pc = "list"
        BY DEF ListMachines
      <4>2. MachinesInCluster = Stored(machines)
        BY <2>t, FreshWindow DEF MachinesInCluster
      <4> QED
        BY <2>t, <2>2, <4>1, <4>2, TeardownMoves
    <3>2. pc \in DeletePCs
      BY <3>1 DEF DeletePCs
    <3>3. Stored(cluster).meta # "held"
      <4>1. AllOver
        BY <3>2 DEF IInv, Path
      <4>2. Stored(cluster) = cluster[Len(cluster)] /\ Len(cluster) \in 1..Len(cluster)
        BY <2>t, WindowEnds DEF TypeOK
      <4> QED
        BY <4>1, <4>2 DEF AllOver
    <3>4. Present(Stored(machines)) = {}
      BY <3>1 DEF OrderKept
    <3>5. Present(Stored(machines')) \subseteq Present(Stored(machines))
      BY <2>t, <3>3, MachinesShrink
    <3> QED
      BY <3>4, <3>5
  <2>3. ASSUME pc' \in {"deleteVault", "deleteVnet", "deleteGroup"}
        PROVE  Stored(lb').meta = "absent"
    <3>1. \/ UNCHANGED lb /\ Cached(lb).meta = "absent"
          \/ pc \in {"deleteVault", "deleteVnet", "deleteGroup"}
      BY <2>t, <2>3, TeardownMoves
    <3>2. CASE UNCHANGED lb /\ Cached(lb).meta = "absent"
      BY <2>t, <3>2, FreshWindow
    <3>3. CASE pc \in {"deleteVault", "deleteVnet", "deleteGroup"}
      <4>1. Stored(lb).meta = "absent" /\ pc # "lb"
        BY <3>3 DEF OrderKept
      <4> QED
        BY <2>t, <4>1, LoadBalancerStaysAbsent
    <3> QED
      BY <3>1, <3>2, <3>3
  <2> QED
    BY <2>1, <2>2, <2>3 DEF OrderKept
<1> QED
  BY <1>1, <1>2

\* reconcileDelete: the vault and the group go only when no machine is left and the
\* load balancer is gone.  This needs what the code does not secure: that the
\* machines are found under the name of the cluster, and that the caches of the
\* machines and of the load balancer are not behind.  The cache of the cluster
\* itself may lag as far as it likes.
THEOREM TeardownInOrder ==
  ASSUME SameName, LbLag = 0, MachineLag = 0
  PROVE  Spec => []TeardownOrder
PROOF
<1>1. Init => OrderKept
  BY DEF Init, OrderKept
<1>2. IInv /\ OrderKept /\ [Next]_vars => OrderKept'
  BY OrderStep
<1>3. OrderKept => TeardownOrder
  BY DEF OrderKept, TeardownOrder
<1> QED
  BY <1>1, <1>2, <1>3, InvariantHolds, PTL DEF Spec
=============================================================================
