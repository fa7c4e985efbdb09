----------------------------- MODULE Conversion -----------------------------
(***************************************************************************)
(* The conversions between the two served API versions.  v1beta2 is the    *)
(* hub and the storage version.  A pointer is a set with at most one       *)
(* element, nil the empty set.  A nil slice is the empty sequence, as it   *)
(* is once encoded.  Conditions are a set with one element of each type:   *)
(* nothing reads their order.  The metadata and the other fields that both *)
(* versions have, that are copied as they are and that nothing here tells  *)
(* apart, are left out.                                                    *)
(***************************************************************************)
EXTENDS Integers, Sequences

CONSTANT Strings   \* the strings of the API

Nil == {}

\* The value a pointer that is not nil points to.
Deref(p) == CHOOSE x \in p : TRUE

-----------------------------------------------------------------------------
(* Conditions: v1beta1 has a severity and may leave reason and message      *)
(* empty, v1beta2 has an observed generation.                               *)

Condition_To_v1beta1(in) ==
  [type |-> in.type, status |-> in.status, reason |-> in.reason,
   message |-> in.message, severity |-> ""]

\* Mutant: the reason is copied as it is.
Condition_To_v1beta2Verbatim(in) ==
  [type |-> in.type, status |-> in.status, reason |-> in.reason,
   message |-> in.message, observedGeneration |-> 0]

Condition_To_v1beta2(in) ==
  [type |-> in.type, status |-> in.status,
   reason |-> IF in.reason = "" THEN "Unknown" ELSE in.reason,
   message |-> IF in.message = "" THEN "Unknown" ELSE in.message,
   observedGeneration |-> 0]

Conditions_To_v1beta1(in) == {Condition_To_v1beta1(c) : c \in in}

Conditions_To_v1beta2(in) == {Condition_To_v1beta2(c) : c \in in}

-----------------------------------------------------------------------------
(* Images, disks, zones and network interfaces.                             *)

Image_To_v1beta1(in) ==
  [id |-> in.id, publisher |-> in.publisher, name |-> in.name,
   gallery |-> in.gallery, version |-> in.version, osType |-> in.osType]

Image_To_v1beta2(in) ==
  [id |-> in.id, publisher |-> in.publisher, name |-> in.name,
   gallery |-> in.gallery, version |-> in.version, osType |-> in.osType]

ZeroImage ==
  [id |-> Nil, publisher |-> Nil, name |-> Nil, gallery |-> Nil, version |-> Nil,
   osType |-> ""]

OSDisk_To_v1beta1(in) ==
  [name |-> in.name, size |-> in.size, osType |-> in.osType,
   managedDisk |-> IF in.managedDisk = Nil THEN "" ELSE Deref(in.managedDisk)]

\* The pointer is set also when the value is empty.
OSDisk_To_v1beta2(in) ==
  [name |-> in.name, size |-> in.size, osType |-> in.osType,
   managedDisk |-> {in.managedDisk}]

ZeroOSDisk == [name |-> "", size |-> 0, osType |-> "", managedDisk |-> ""]

ZeroZone == [id |-> Nil, enabled |-> Nil]

Zone_To_v1beta1(in) ==
  IF in = Nil THEN ZeroZone ELSE [id |-> Deref(in).id, enabled |-> Deref(in).enabled]

Zone_To_v1beta2(in) ==
  IF in.id # Nil \/ in.enabled # Nil THEN {[id |-> in.id, enabled |-> in.enabled]} ELSE Nil

OSDiskPointer(in) ==
  IF in.name # "" \/ in.size # 0 THEN {OSDisk_To_v1beta2(in)} ELSE Nil

\* Every interface and every IP configuration is copied to its place.  The schema
\* has no nil elements.
NetworkInterfaces(in) ==
  [i \in DOMAIN in |->
     [name |-> in[i].name,
      ipConfigurations |-> [j \in DOMAIN in[i].ipConfigurations |->
                              [name |-> in[i].ipConfigurations[j].name,
                               primary |-> in[i].ipConfigurations[j].primary]]]]

-----------------------------------------------------------------------------
(* The types of the parts; only OSDisk differs between the versions.        *)

Pointer(p) == \A x, y \in p : x = y

ImageType ==
  [id : SUBSET Strings, publisher : SUBSET Strings, name : SUBSET Strings,
   gallery : SUBSET Strings, version : SUBSET Strings, osType : Strings]

ZoneType == [id : SUBSET Strings, enabled : SUBSET BOOLEAN]

OSDiskType(managed) == [name : Strings, size : Int, osType : Strings, managedDisk : managed]

IPConfigurationType == [name : Strings, primary : BOOLEAN]

NetworkInterfaceType == [name : Strings, ipConfigurations : Seq(IPConfigurationType)]

\* AzureStackHCIMachineSpec and AzureStackHCIVirtualMachineSpec, with values for zone,
\* image and disk in v1beta1 and pointers in v1beta2
SpecType(zone, image, disk) ==
  [location : Strings, networkInterfaces : Seq(NetworkInterfaceType), zone : zone,
   image : image, osDisk : disk]

v1beta1SpecType == SpecType(ZoneType, ImageType, OSDiskType(Strings))

v1beta2SpecType ==
  {s \in SpecType(SUBSET ZoneType, SUBSET ImageType, SUBSET OSDiskType(SUBSET Strings)) :
     Pointer(s.zone) /\ Pointer(s.image) /\ Pointer(s.osDisk)}

\* AzureStackHCIClusterSpec
ClusterSpecType(image) ==
  [location : Strings, controlPlaneEndpoint : [host : Strings, port : Int],
   loadBalancer : SUBSET [storageContainer : Strings, image : image]]

-----------------------------------------------------------------------------
(* Specifications.                                                          *)

ImageValue(p) == IF p = Nil THEN ZeroImage ELSE Image_To_v1beta1(Deref(p))

OSDiskValue(p) == IF p = Nil THEN ZeroOSDisk ELSE OSDisk_To_v1beta1(Deref(p))

MachineSpec_To_v1beta1(in) ==
  [location |-> in.location, networkInterfaces |-> NetworkInterfaces(in.networkInterfaces),
   zone |-> Zone_To_v1beta1(in.zone), image |-> ImageValue(in.image),
   osDisk |-> OSDiskValue(in.osDisk)]

\* Mutant: only an image identifier counts as content.
MachineSpec_To_v1beta2OnlyID(in) ==
  [location |-> in.location, networkInterfaces |-> NetworkInterfaces(in.networkInterfaces),
   zone |-> Zone_To_v1beta2(in.zone),
   image |-> IF in.image.id # Nil THEN {Image_To_v1beta2(in.image)} ELSE Nil,
   osDisk |-> OSDiskPointer(in.osDisk)]

\* The image is set only if it has an OS type, an identifier or a publisher.
MachineSpec_To_v1beta2(in) ==
  [location |-> in.location, networkInterfaces |-> NetworkInterfaces(in.networkInterfaces),
   zone |-> Zone_To_v1beta2(in.zone),
   image |-> IF \/ in.image.osType # "" \/ in.image.id # Nil \/ in.image.publisher # Nil
             THEN {Image_To_v1beta2(in.image)} ELSE Nil,
   osDisk |-> OSDiskPointer(in.osDisk)]

VirtualMachineSpec_To_v1beta1(in) ==
  [location |-> in.location, networkInterfaces |-> NetworkInterfaces(in.networkInterfaces),
   zone |-> Zone_To_v1beta1(in.zone), image |-> ImageValue(in.image),
   osDisk |-> OSDiskValue(in.osDisk)]

\* The image is always set.
VirtualMachineSpec_To_v1beta2(in) ==
  [location |-> in.location, networkInterfaces |-> NetworkInterfaces(in.networkInterfaces),
   zone |-> Zone_To_v1beta2(in.zone), image |-> {Image_To_v1beta2(in.image)},
   osDisk |-> OSDiskPointer(in.osDisk)]

LoadBalancerSpec_To_v1beta1(in) ==
  [storageContainer |-> in.storageContainer, image |-> ImageValue(in.image)]

\* The image is always set, also when v1beta1 has an empty one.
LoadBalancerSpec_To_v1beta2(in) ==
  [storageContainer |-> in.storageContainer, image |-> {Image_To_v1beta2(in.image)}]

ClusterSpec_To_v1beta1(in) ==
  [location |-> in.location,
   controlPlaneEndpoint |-> [host |-> in.controlPlaneEndpoint.host,
                             port |-> in.controlPlaneEndpoint.port],
   loadBalancer |-> {LoadBalancerSpec_To_v1beta1(l) : l \in in.loadBalancer}]

ClusterSpec_To_v1beta2(in) ==
  [location |-> in.location,
   controlPlaneEndpoint |-> [host |-> in.controlPlaneEndpoint.host,
                             port |-> in.controlPlaneEndpoint.port],
   loadBalancer |-> {LoadBalancerSpec_To_v1beta2(l) : l \in in.loadBalancer}]
-----------------------------------------------------------------------------
(* Statuses.  v1beta1 clusters have a flag Ready, v1beta2 clusters have a   *)
(* condition Ready and initialization.provisioned.                          *)

Provisioned == {[provisioned |-> {TRUE}]}

autoClusterStatus_To_v1beta1(in) ==
  [conditions |-> Conditions_To_v1beta1(in.conditions), ready |-> FALSE]

autoClusterStatus_To_v1beta2(in) ==
  [conditions |-> Conditions_To_v1beta2(in.conditions),
   initialization |-> Nil]

\* Mutant: the flag is not derived from the condition.
ClusterStatus_To_v1beta1NoCondition(in) == autoClusterStatus_To_v1beta1(in)

ClusterStatus_To_v1beta1(in) ==
  [autoClusterStatus_To_v1beta1(in) EXCEPT !.ready =
     \E c \in in.conditions : c.type = "Ready" /\ c.status = "True"]

\* Mutant: provisioned takes the value of the flag, also FALSE.
ClusterStatus_To_v1beta2Flag(in) ==
  [autoClusterStatus_To_v1beta2(in) EXCEPT !.initialization = {[provisioned |-> {in.ready}]}]

ClusterStatus_To_v1beta2(in) ==
  [autoClusterStatus_To_v1beta2(in) EXCEPT !.initialization =
     IF in.ready THEN Provisioned ELSE Nil]

autoMachineStatus_To_v1beta1(in) ==
  [ready |-> in.ready, vmState |-> in.vmState,
   conditions |-> Conditions_To_v1beta1(in.conditions), failure |-> Nil]

autoMachineStatus_To_v1beta2(in) ==
  [ready |-> in.ready, vmState |-> in.vmState,
   conditions |-> Conditions_To_v1beta2(in.conditions), initialization |-> Nil]

\* Mutant: the flag is derived from the condition Ready, as it is for clusters.
MachineStatus_To_v1beta1FromCondition(in) ==
  [autoMachineStatus_To_v1beta1(in) EXCEPT !.ready =
     \E c \in in.conditions : c.type = "Ready" /\ c.status = "True"]

\* failure stands for FailureReason and FailureMessage, which v1beta2 does not have.
MachineStatus_To_v1beta1(in) == autoMachineStatus_To_v1beta1(in)

\* Mutant: the new field is left to the controller.
MachineStatus_To_v1beta2NoInitialization(in) == autoMachineStatus_To_v1beta2(in)

MachineStatus_To_v1beta2(in) ==
  [autoMachineStatus_To_v1beta2(in) EXCEPT !.initialization =
     IF in.ready THEN Provisioned ELSE Nil]

VirtualMachineStatus_To_v1beta1(in) ==
  [ready |-> in.ready, vmState |-> in.vmState, failure |-> in.failure,
   conditions |-> Conditions_To_v1beta1(in.conditions)]

VirtualMachineStatus_To_v1beta2(in) ==
  [ready |-> in.ready, vmState |-> in.vmState, failure |-> in.failure,
   conditions |-> Conditions_To_v1beta2(in.conditions)]

LoadBalancerStatus_To_v1beta1(in) ==
  [ready |-> in.ready, conditions |-> Conditions_To_v1beta1(in.conditions)]

LoadBalancerStatus_To_v1beta2(in) ==
  [ready |-> in.ready, conditions |-> Conditions_To_v1beta2(in.conditions)]

-----------------------------------------------------------------------------
(* Objects.                                                                 *)

Cluster_To_v1beta1(in) == [spec |-> ClusterSpec_To_v1beta1(in.spec),
                           status |-> ClusterStatus_To_v1beta1(in.status)]

Cluster_To_v1beta2(in) == [spec |-> ClusterSpec_To_v1beta2(in.spec),
                           status |-> ClusterStatus_To_v1beta2(in.status)]

LoadBalancer_To_v1beta1(in) == [spec |-> LoadBalancerSpec_To_v1beta1(in.spec),
                                status |-> LoadBalancerStatus_To_v1beta1(in.status)]

LoadBalancer_To_v1beta2(in) == [spec |-> LoadBalancerSpec_To_v1beta2(in.spec),
                                status |-> LoadBalancerStatus_To_v1beta2(in.status)]

Machine_To_v1beta1(in) == [spec |-> MachineSpec_To_v1beta1(in.spec),
                           status |-> MachineStatus_To_v1beta1(in.status)]

Machine_To_v1beta2(in) == [spec |-> MachineSpec_To_v1beta2(in.spec),
                           status |-> MachineStatus_To_v1beta2(in.status)]

VirtualMachine_To_v1beta1(in) == [spec |-> VirtualMachineSpec_To_v1beta1(in.spec),
                                  status |-> VirtualMachineStatus_To_v1beta1(in.status)]

VirtualMachine_To_v1beta2(in) == [spec |-> VirtualMachineSpec_To_v1beta2(in.spec),
                                  status |-> VirtualMachineStatus_To_v1beta2(in.status)]

MachineTemplateResource_To_v1beta1(in) == [spec |-> MachineSpec_To_v1beta1(in.spec)]

MachineTemplateResource_To_v1beta2(in) == [spec |-> MachineSpec_To_v1beta2(in.spec)]

MachineTemplate_To_v1beta1(in) ==
  [template |-> MachineTemplateResource_To_v1beta1(in.template)]

MachineTemplate_To_v1beta2(in) ==
  [template |-> MachineTemplateResource_To_v1beta2(in.template)]
=============================================================================
