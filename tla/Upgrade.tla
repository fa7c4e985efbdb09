------------------------------- MODULE Upgrade -------------------------------
(***************************************************************************)
(* The provider after the upgrade from API version v1beta1 to v1beta2.     *)
(* Objects that the old release left are stored as v1beta1, every write    *)
(* stores v1beta2.  Clients of both versions go on writing: the API server *)
(* converts the whole object, status included, when it serves it and when  *)
(* it stores it.  The controllers work on v1beta2.  A machine template     *)
(* becomes a machine, a machine or a load balancer an                      *)
(* AzureStackHCIVirtualMachine, and that a virtual machine in MOC.         *)
(***************************************************************************)
EXTENDS Conversion, Naturals, TLC

CONSTANTS
  Authored,       \* what users wrote: [version, kind (template or cluster), spec]
  OldStatus,      \* statuses in which the old release may have left the cluster
  ZoneLocations,  \* locations with availability zones
  MaxWrites,      \* bound: writes by clients of either version
  MaxFaults,      \* bound: failed patches
  MaxVMFailures   \* bound: times the machine fails in MOC

ASSUME UpgradeBounds == {MaxWrites, MaxFaults, MaxVMFailures} \subseteq Nat

\* The strings that the provider writes itself.
ASSUME OwnStrings ==
  {"", "h", "Linux", "Linux_k8s", "Windows_k8s", "Windows2022_k8s", "_k8s", "latest",
   "MicrosoftSQLServer", "True", "False", "Unknown", "Ready", "VMRunning",
   "NetworkInfrastructureReady", "LoadBalancerInfrastructureReady", "NoReplicasReady",
   "InfrastructureReady", "Succeeded", "VMProvisionFailed"} \subseteq Strings

Versions == {"v1beta1", "v1beta2"}

\* What a conversion does not take for left out.
ImageKept(image) == image.osType # "" \/ image.id # Nil \/ image.publisher # Nil

OSDiskKept(disk) == disk.name # "" \/ disk.size # 0

\* The text of a machine template.  The schema of both versions requires the OS type
\* of an image and the size of a disk.
TemplateText(version, spec) ==
  \/ /\ version = "v1beta1" /\ spec \in v1beta1SpecType
     /\ spec.image = ZeroImage \/ ImageKept(spec.image)
     /\ spec.osDisk = ZeroOSDisk \/ OSDiskKept(spec.osDisk)
  \/ /\ version = "v1beta2" /\ spec \in v1beta2SpecType
     /\ \A image \in spec.image : ImageKept(image)
     /\ \A disk \in spec.osDisk : OSDiskKept(disk)

\* The text of a cluster with a load balancer.  Only v1beta1 requires its image; a
\* v1beta2 text that leaves it out is not covered, see LoadBalancerSpec_To_v1beta2.
ClusterText(version, spec) ==
  /\ spec.loadBalancer # Nil /\ Pointer(spec.loadBalancer)
  /\ \/ version = "v1beta1" /\ spec \in ClusterSpecType(ImageType)
     \/ /\ version = "v1beta2" /\ spec \in ClusterSpecType(SUBSET ImageType)
        /\ \A lb \in spec.loadBalancer : lb.image # Nil /\ Pointer(lb.image)

ASSUME AuthoredTexts ==
  \A a \in Authored :
    \/ a.kind = "template" /\ TemplateText(a.version, a.spec)
    \/ a.kind = "cluster" /\ ClusterText(a.version, a.spec)

\* The condition Ready of a cluster is only ever marked true.
ASSUME OldStatuses ==
  /\ OldStatus \subseteq
       [conditions : SUBSET [type : Strings, status : Strings, reason : Strings,
                             message : Strings, severity : Strings], ready : BOOLEAN]
  /\ \A old \in OldStatus : \A c \in old.conditions : c.type = "Ready" => c.status = "True"

VARIABLES
  store,      \* for every kind nil or the object and the version it is stored in
  asked,      \* history: what the user's text asks MOC for
  moc,        \* nil or what the virtual machine in MOC was made of
  pc, before, \* the cluster controller: the status as its patch helper read it
  writes, faults, failures

vars == <<store, asked, moc, pc, before, writes, faults, failures>>

Kinds == {"template", "cluster", "machine", "loadbalancer", "vm"}

-----------------------------------------------------------------------------
(* The API server.                                                          *)

ConvertTo(kind, in) ==
  CASE kind = "template" -> MachineTemplate_To_v1beta2(in)
    [] kind = "cluster" -> Cluster_To_v1beta2(in)
    [] kind = "machine" -> Machine_To_v1beta2(in)
    [] kind = "loadbalancer" -> LoadBalancer_To_v1beta2(in)
    [] kind = "vm" -> VirtualMachine_To_v1beta2(in)

ConvertFrom(kind, in) ==
  CASE kind = "template" -> MachineTemplate_To_v1beta1(in)
    [] kind = "cluster" -> Cluster_To_v1beta1(in)
    [] kind = "machine" -> Machine_To_v1beta1(in)
    [] kind = "loadbalancer" -> LoadBalancer_To_v1beta1(in)
    [] kind = "vm" -> VirtualMachine_To_v1beta1(in)

\* The object in the version that a request names.
Read(kind, version) ==
  LET s == Deref(store[kind])
  IN  IF s.version = version THEN s.object
      ELSE IF version = "v1beta2" THEN ConvertTo(kind, s.object)
      ELSE ConvertFrom(kind, s.object)

Hub(kind) == Read(kind, "v1beta2")

Status(kind) == Hub(kind).status

Exists(kind) == store[kind] # Nil

\* The v1beta2 schema: the reason of a condition is not empty.
Admitted(kind, object) ==
  kind # "template" =>
    \A c \in object.status.conditions : c.reason # ""

Store(kind, object) == [store EXCEPT ![kind] = {[version |-> "v1beta2", object |-> object]}]

\* CreateOrUpdate and the patch helper send nothing if there is no difference.
Update(s, kind, object) ==
  IF Exists(kind) /\ object = Hub(kind) THEN s
  ELSE [s EXCEPT ![kind] = {[version |-> "v1beta2", object |-> object]}]

-----------------------------------------------------------------------------
(* What MOC is asked for.                                                   *)

\* The default image is named after the OS type and the Kubernetes version.
getDefaultImageName(osType) ==
  CASE osType = "Linux" -> "Linux_k8s"
    [] osType = "Windows" -> "Windows_k8s"
    [] osType = "Windows2022" -> "Windows2022_k8s"
    [] OTHER -> "_k8s"

GetDefaultImage(osType) ==
  [id |-> Nil, publisher |-> {"MicrosoftSQLServer"}, name |-> {getDefaultImageName(osType)},
   gallery |-> Nil, version |-> {"latest"}, osType |-> osType]

\* A named image is used as it is, otherwise the default one of its OS type.
getVMImage(image) ==
  IF image # Nil /\ Deref(image).name \notin {Nil, {""}} THEN Deref(image)
  ELSE GetDefaultImage(IF image = Nil THEN "Linux" ELSE Deref(image).osType)

\* gallery stands for the subscription, the group and the gallery.  Nil: an error.
generateImageReference(image) ==
  CASE image.name = Nil -> Nil
    [] image.name # Nil /\ image.id # Nil -> {[name |-> image.name, by |-> image.id]}
    [] image.name # Nil /\ image.id = Nil /\ image.version # Nil ->
         {[name |-> image.name,
           by |-> IF image.gallery # Nil THEN image.gallery ELSE image.publisher]}
    [] OTHER -> Nil

\* The IP configurations of the first interface; one without a name gets the name
\* of its index.
IPConfigurations(nics) ==
  IF nics = <<>> THEN <<>>
  ELSE [i \in DOMAIN nics[1].ipConfigurations |->
          LET ip == nics[1].ipConfigurations[i]
          IN  [name |-> IF ip.name = "" THEN ToString(i) ELSE ip.name, primary |-> ip.primary]]

\* The letter in the computer name; w goes with the Windows profile.
generateComputerName(osType) ==
  CASE osType \in {"Windows", "Windows2022"} -> "w"
    [] osType = "Linux" -> "l"
    [] OTHER -> "u"

\* Nil if no reference can be made, or if the zone that is read is not there.
createVirtualMachine(spec) ==
  LET image == IF spec.image = Nil THEN ZeroImage ELSE Deref(spec.image)
      osType == IF spec.osDisk = Nil THEN "" ELSE Deref(spec.osDisk).osType
  IN  IF spec.location \in ZoneLocations /\ spec.zone = Nil THEN Nil
      ELSE {[image |-> ref, computerName |-> generateComputerName(image.osType),
             osType |-> osType, ips |-> IPConfigurations(spec.networkInterfaces)] :
              ref \in generateImageReference(image)}

\* The specification of a machine's virtual machine; a zone or a disk that the
\* machine does not have is left as it was.
MachineVMSpec(machine, old) ==
  [location |-> machine.location, networkInterfaces |-> machine.networkInterfaces,
   zone |-> IF machine.zone # Nil THEN machine.zone ELSE old.zone,
   image |-> {getVMImage(machine.image)},
   osDisk |-> IF machine.osDisk # Nil THEN machine.osDisk ELSE old.osDisk]

\* The specification of a load balancer's virtual machine.
LoadBalancerVMSpec(lb, location) ==
  [location |-> location, networkInterfaces |-> <<>>, zone |-> Nil,
   image |-> {getVMImage(lb.image)}, osDisk |-> Nil]

-----------------------------------------------------------------------------
(* Statuses of new objects.                                                 *)

NoClusterStatus == [conditions |-> {}, initialization |-> Nil]

NoMachineStatus ==
  [ready |-> FALSE, vmState |-> Nil, conditions |-> {}, initialization |-> Nil]

NoLoadBalancerStatus == [ready |-> FALSE, conditions |-> {}]

NoVM ==
  [spec |-> [location |-> "", networkInterfaces |-> <<>>, zone |-> Nil, image |-> Nil,
             osDisk |-> Nil],
   status |-> [ready |-> FALSE, vmState |-> Nil, failure |-> Nil, conditions |-> {}]]

Condition(type, status, reason) ==
  [type |-> type, status |-> status, reason |-> reason, message |-> "",
   observedGeneration |-> 0]

\* conditions.Set of each of a set of conditions: the ones of their types are replaced.
Set(conditions, new) ==
  {c \in conditions : \A d \in new : d.type # c.type} \cup new

-----------------------------------------------------------------------------
(* Clients.                                                                 *)

Unchanged == UNCHANGED <<asked, moc, pc, before, writes, faults, failures>>

\* A client reads the object in a version and writes it back with changes that
\* concern nothing modelled here (a label, an annotation).
ClientWrite(kind, version) ==
  /\ Exists(kind) /\ writes < MaxWrites
  /\ version = "v1beta2" => Admitted(kind, Hub(kind))
  /\ store' = Store(kind, IF version = "v1beta2" THEN Hub(kind)
                          ELSE ConvertTo(kind, Read(kind, version)))
  /\ writes' = writes + 1
  /\ UNCHANGED <<asked, moc, pc, before, faults, failures>>

\* Cluster API makes the machine from the template, in the version its references name.
Clone(version) ==
  /\ Exists("template") /\ ~Exists("machine")
  /\ LET spec == Read("template", version).template.spec
     IN  store' = Store("machine",
           [spec |-> IF version = "v1beta2" THEN spec ELSE MachineSpec_To_v1beta2(spec),
            status |-> NoMachineStatus])
  /\ Unchanged

-----------------------------------------------------------------------------
(* The cluster controller: the load balancer, then the conditions and the   *)
(* rest of the status in two requests.                                      *)

\* CreateOrUpdate of the load balancer; a nil image is left as it was.
LoadBalancerOf(lb) ==
  LET old == IF Exists("loadbalancer") THEN Hub("loadbalancer")
             ELSE [spec |-> [storageContainer |-> "", image |-> Nil],
                   status |-> NoLoadBalancerStatus]
  IN  IF lb.image = Nil THEN old ELSE [old EXCEPT !.spec.image = lb.image]

\* conditions.IsFalse: an absent condition is not false.
IsFalse(object, type) == \E c \in object.status.conditions : c.type = type /\ c.status = "False"

\* The cluster waits while the load balancer says that it is not ready.
ReconcileCluster ==
  /\ pc = "idle"
  /\ LET wanted == {LoadBalancerOf(lb) : lb \in Hub("cluster").spec.loadBalancer}
     IN  /\ \A lb \in wanted : Admitted("loadbalancer", lb)
         /\ store' = IF wanted = Nil THEN store
                     ELSE Update(store, "loadbalancer", Deref(wanted))
         /\ pc' = IF \E lb \in wanted : IsFalse(lb, "LoadBalancerInfrastructureReady")
                  THEN "waiting" ELSE "conditions"
  /\ before' = Status("cluster")
  /\ UNCHANGED <<asked, moc, writes, faults, failures>>

\* A request fails if the API server is away or if its schema refuses the object.
Patch(object) ==
  \/ /\ store' = IF Admitted("cluster", object) THEN Update(store, "cluster", object)
                 ELSE store
     /\ UNCHANGED faults
  \/ faults < MaxFaults /\ faults' = faults + 1 /\ UNCHANGED store

\* The reason is the load balancer's; the flag and the condition Ready stay as they are.
PatchWaiting ==
  /\ pc = "waiting"
  /\ LET set == {Condition("NetworkInfrastructureReady", "False", "NoReplicasReady")}
     IN  Patch([Hub("cluster") EXCEPT !.status.conditions = Set(@, set \ before.conditions)])
  /\ pc' = "idle" /\ before' = NoClusterStatus
  /\ UNCHANGED <<asked, moc, writes, failures>>

\* The conditions that the controller changed, on top of those the server has now.
PatchConditions ==
  /\ pc = "conditions"
  /\ LET set == {Condition("NetworkInfrastructureReady", "True", "InfrastructureReady"),
                 Condition("Ready", "True", "InfrastructureReady")}
     IN  Patch([Hub("cluster") EXCEPT !.status.conditions = Set(@, set \ before.conditions)])
  /\ pc' = "status"
  /\ UNCHANGED <<asked, moc, before, writes, failures>>

\* Mutant: initialization is sent only together with a change of the conditions.
PatchStatusWithConditions ==
  /\ pc = "status"
  /\ Patch(IF \/ before.initialization = Provisioned
              \/ \E c \in before.conditions : c.type = "Ready"
           THEN Hub("cluster")
           ELSE [Hub("cluster") EXCEPT !.status.initialization = Provisioned])
  /\ pc' = "idle" /\ before' = NoClusterStatus
  /\ UNCHANGED <<asked, moc, writes, failures>>

\* initialization is sent only if the controller had read another value.
PatchStatus ==
  /\ pc = "status"
  /\ Patch(IF before.initialization = Provisioned THEN Hub("cluster")
           ELSE [Hub("cluster") EXCEPT !.status.initialization = Provisioned])
  /\ pc' = "idle" /\ before' = NoClusterStatus
  /\ UNCHANGED <<asked, moc, writes, failures>>

-----------------------------------------------------------------------------
(* The other controllers.  Their own modules have their patches in several  *)
(* requests and their caches; here a reconcile is one step.                 *)

ClusterProvisioned == Status("cluster").initialization = Provisioned

\* The machine's status after the conditions and the state of the VM are taken over.
Merge(status, vm) ==
  LET conditions == Set(status.conditions, vm.conditions)
  IN  IF vm.vmState = Nil THEN [status EXCEPT !.conditions = conditions]
      ELSE [ready |-> TRUE, vmState |-> vm.vmState, initialization |-> Provisioned,
            conditions |-> Set(conditions, {Condition("VMRunning", "True", "VMRunning")})]

\* Nothing until the cluster is provisioned; then CreateOrUpdate of the virtual
\* machine and its status merged into the machine's.
ReconcileMachine ==
  /\ Exists("machine") /\ ClusterProvisioned
  /\ \E old \in {IF Exists("vm") THEN Hub("vm") ELSE NoVM}, machine \in {Hub("machine")} :
       LET vm == [old EXCEPT !.spec = MachineVMSpec(machine.spec, old.spec)]
           merged == [machine EXCEPT !.status = Merge(@, old.status)]
       IN  /\ Admitted("vm", vm) /\ Admitted("machine", merged)
           /\ store' = Update(Update(store, "vm", vm), "machine", merged)
  /\ Unchanged

\* The end of reconcileNormal, by the one replica there is.
LoadBalancerStatusOf(lb, serves) ==
  LET type == "LoadBalancerInfrastructureReady"
  IN  IF ~serves
      THEN [lb EXCEPT !.status.conditions = Set(@, {Condition(type, "False", "NoReplicasReady")})]
      ELSE [lb EXCEPT !.status.ready = TRUE,
                      !.status.conditions = IF ~IsFalse(lb, type) THEN @
                        ELSE Set(@, {Condition(type, "True", "InfrastructureReady")})]

\* The replica is created if there is none, and serves once its machine is ready.
ReconcileLoadBalancer ==
  /\ Exists("loadbalancer")
  /\ LET lb == Hub("loadbalancer")
         vm == [NoVM EXCEPT !.spec = LoadBalancerVMSpec(lb.spec, Hub("cluster").spec.location)]
         new == LoadBalancerStatusOf(lb, Exists("vm") /\ Status("vm").ready)
     IN  /\ Admitted("loadbalancer", new)
         /\ store' = Update(IF Exists("vm") THEN store ELSE Store("vm", vm), "loadbalancer", new)
  /\ Unchanged

\* The status with the condition VMRunning and the condition Ready.
WithCondition(vm, status, reason) ==
  [vm EXCEPT !.status.conditions =
     Set(@, {Condition("VMRunning", status, reason), Condition("Ready", status, reason)})]

\* The virtual machine is found in MOC or created there.
ReconcileVM ==
  /\ Exists("vm") /\ Status("vm").failure = Nil
  /\ LET found == IF moc # Nil THEN moc ELSE createVirtualMachine(Hub("vm").spec)
         vm == [WithCondition(Hub("vm"), "True", "Succeeded") EXCEPT
                  !.status.ready = TRUE, !.status.vmState = {"Succeeded"}]
     IN  /\ found # Nil /\ Admitted("vm", vm)
         /\ moc' = found
         /\ store' = Update(store, "vm", vm)
  /\ UNCHANGED <<asked, pc, before, writes, faults, failures>>

\* The new machine fails in MOC and is deleted, to be created again.
FailVM ==
  /\ failures < MaxVMFailures /\ failures' = failures + 1
  /\ Exists("vm") /\ Status("vm").failure = Nil /\ moc = Nil
  /\ createVirtualMachine(Hub("vm").spec) # Nil
  /\ LET vm == WithCondition(Hub("vm"), "False", "VMProvisionFailed")
     IN  Admitted("vm", vm) /\ store' = Update(store, "vm", vm)
  /\ UNCHANGED <<asked, moc, pc, before, writes, faults>>

\* The machine is removed from MOC behind the provider's back.
LoseVM ==
  /\ failures < MaxVMFailures /\ failures' = failures + 1
  /\ moc # Nil /\ moc' = Nil
  /\ UNCHANGED <<store, asked, pc, before, writes, faults>>

-----------------------------------------------------------------------------
(* The state in which the new release finds the cluster.                    *)

\* A v1beta1 machine specification with what it leaves out as nil.
Lifted(spec) ==
  [spec EXCEPT
     !.zone = IF @ = ZeroZone THEN Nil ELSE {@},
     !.image = IF @ = ZeroImage THEN Nil ELSE {@},
     !.osDisk = IF @ = ZeroOSDisk THEN Nil ELSE {OSDisk_To_v1beta2(@)}]

\* The virtual machine that a text asks for, whatever is done to the text later.
VMAskedFor(a) ==
  CASE a.kind = "template" ->
         MachineVMSpec(IF a.version = "v1beta1" THEN Lifted(a.spec) ELSE a.spec, NoVM.spec)
    [] a.kind = "cluster" ->
         LET lb == Deref(a.spec.loadBalancer)
         IN  LoadBalancerVMSpec(
               IF a.version = "v1beta1" THEN [lb EXCEPT !.image = {@}] ELSE lb, a.spec.location)

\* The old release marked conditions true without a reason.
OldTrue(type) ==
  [type |-> type, status |-> "True", reason |-> "", message |-> "", severity |-> ""]

OldVM(a) ==
  [spec |-> VirtualMachineSpec_To_v1beta1(VMAskedFor(a)),
   status |-> [ready |-> TRUE, vmState |-> {"Succeeded"}, failure |-> Nil,
               conditions |-> {OldTrue("VMRunning")}]]

OldMachine(a) ==
  [spec |-> a.spec,
   status |-> [ready |-> TRUE, vmState |-> {"Succeeded"}, failure |-> Nil,
               conditions |-> {OldTrue("VMRunning")}]]

OldLoadBalancer(a) ==
  [spec |-> Deref(a.spec.loadBalancer),
   status |-> [ready |-> TRUE, conditions |-> {}]]

\* The default port of the API server.
APIServerPort == 6443

ClusterOf(a) ==
  IF a.kind = "cluster" THEN a.spec
  ELSE [location |-> a.spec.location,
        controlPlaneEndpoint |-> [host |-> "h", port |-> APIServerPort],
        loadBalancer |-> Nil]

\* version is the version that the cluster is stored in, old the status that the old
\* release left in it.  running says that the machine was made by the old release; a
\* cluster with a load balancer was ready only when that was.
Init ==
  /\ \E a \in Authored, version \in Versions, old \in OldStatus, running \in BOOLEAN :
       /\ a.kind = "cluster" => version = a.version
       /\ a.kind = "cluster" /\ version = "v1beta1" /\ old.ready => running
       /\ running => a.version = "v1beta1" /\ version = "v1beta1" /\ old.ready
       /\ asked = createVirtualMachine(VMAskedFor(a))
       /\ moc = IF running THEN asked ELSE Nil
       /\ store = [k \in Kinds |->
            CASE k = "cluster" ->
                   {[version |-> version,
                     object |-> [spec |-> ClusterOf(a),
                                 status |-> IF version = "v1beta1" THEN old
                                            ELSE NoClusterStatus]]}
              [] k = "template" /\ a.kind = "template" ->
                   {[version |-> a.version, object |-> [template |-> [spec |-> a.spec]]]}
              [] k = "machine" /\ a.kind = "template" /\ running ->
                   {[version |-> "v1beta1", object |-> OldMachine(a)]}
              [] k = "loadbalancer" /\ a.kind = "cluster" /\ running ->
                   {[version |-> "v1beta1", object |-> OldLoadBalancer(a)]}
              [] k = "vm" /\ running -> {[version |-> "v1beta1", object |-> OldVM(a)]}
              [] OTHER -> Nil]
  /\ pc = "idle" /\ before = NoClusterStatus
  /\ writes = 0 /\ faults = 0 /\ failures = 0

Next ==
  \/ \E kind \in Kinds, version \in Versions : ClientWrite(kind, version)
  \/ \E version \in Versions : Clone(version)
  \/ ReconcileCluster
  \/ PatchWaiting
  \/ PatchConditions
  \/ PatchStatus
  \/ ReconcileMachine
  \/ ReconcileLoadBalancer
  \/ ReconcileVM
  \/ FailVM
  \/ LoseVM

Spec == Init /\ [][Next]_vars

\* Every controller goes on reconciling, and Cluster API makes the machine.
FairSpec ==
  /\ Spec
  /\ WF_vars(\E version \in Versions : Clone(version))
  /\ WF_vars(ReconcileCluster \/ PatchWaiting \/ PatchConditions \/ PatchStatus)
  /\ WF_vars(ReconcileMachine) /\ WF_vars(ReconcileLoadBalancer) /\ WF_vars(ReconcileVM)

-----------------------------------------------------------------------------
(* Properties.                                                              *)

Pointers(S) == {Nil} \cup {{x} : x \in S}

\* What the controllers read has the v1beta2 types, whatever version it is stored in:
\* an optional image, zone or disk is one pointer, and so is the disk's managedDisk.
TypeOK ==
  /\ DOMAIN store = Kinds
  /\ \A k \in Kinds : \A s, t \in store[k] : s = t /\ s.version \in Versions
  /\ \A k \in {"machine", "vm"} : Exists(k) =>
       LET spec == Hub(k).spec
       IN  /\ \A p, q \in spec.image : p = q /\ p.name \subseteq Strings
           /\ \A p, q \in spec.zone : p = q /\ p.enabled \subseteq BOOLEAN
           /\ \A p, q \in spec.osDisk : p = q /\ p.managedDisk \in SUBSET Strings
           /\ Status(k).vmState \in Pointers({"Succeeded"})
  /\ pc \in {"idle", "waiting", "conditions", "status"}
  /\ Status("cluster").initialization \in {Nil, Provisioned}
  /\ writes \in 0..MaxWrites /\ faults \in 0..MaxFaults /\ failures \in 0..MaxVMFailures

\* The machine in MOC has the image, the operating system and the IP configurations of
\* the text its author wrote, also when it is made anew, and whatever conversions the
\* template, the machine and the virtual machine went through.
BuiltAsAsked == moc # Nil => moc = asked

\* Every stored object passes the v1beta2 schema when it is read as v1beta2, so that no
\* conversion makes the API server refuse the controllers' next patch.
Admissible == \A k \in Kinds : Exists(k) => Admitted(k, Hub(k))

\* A machine is ready in the old sense (status.ready) exactly when it is provisioned in
\* the new one (status.initialization), so that clients of both versions agree.
ReadyAgrees ==
  Exists("machine") =>
    (Status("machine").ready <=> Status("machine").initialization = Provisioned)

\* A machine that is ready stays so, whoever writes it in whatever version.
ReadyKept == [][Exists("machine") /\ Status("machine").ready => Status("machine")'.ready]_vars

\* Provisioned is taken back only from a cluster that has no condition Ready, from
\* which the conversion to v1beta1 derives the flag.
ProvisionedFollowsReady ==
  [][ClusterProvisioned /\ ~ClusterProvisioned' =>
       \A c \in Status("cluster").conditions : c.type # "Ready"]_vars

\* Whatever the old release left and whatever clients of both versions write, in the end
\* the cluster is provisioned and the machine or the load balancer is ready on the
\* virtual machine that was asked for.
Converges ==
  <>[](/\ ClusterProvisioned /\ moc = asked /\ moc # Nil
       /\ \A k \in {"machine", "loadbalancer"} : Exists(k) => Status(k).ready
       /\ Exists("machine") \/ Exists("loadbalancer"))
=============================================================================
