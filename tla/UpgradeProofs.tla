--------------------------- MODULE UpgradeProofs ---------------------------
(***************************************************************************)
(* Proofs about Upgrade, for every set of texts that the conversions do    *)
(* not take for left out (AuthoredTexts), every status the old release may *)
(* have left (OldStatuses), all zones and every bound.                     *)
(***************************************************************************)
EXTENDS Upgrade, TLAPS

-----------------------------------------------------------------------------
(* The inductive invariant.                                                 *)

\* Conditions that the v1beta2 schema admits.
ConditionType ==
  {c \in [type : Strings, status : Strings, reason : Strings, message : Strings,
          observedGeneration : Int] : c.reason # ""}

\* Specifications that come back from v1beta1 with all they had.
MachineSpecs ==
  {s \in v1beta2SpecType : /\ \A image \in s.image : ImageKept(image)
                           /\ \A disk \in s.osDisk : OSDiskKept(disk)}

VMSpecs ==
  {s \in v1beta2SpecType : s.image # Nil /\ \A disk \in s.osDisk : OSDiskKept(disk)}

LoadBalancerSpecs ==
  {l \in [storageContainer : Strings, image : SUBSET ImageType] :
     l.image # Nil /\ Pointer(l.image)}

ClusterSpecs ==
  {s \in ClusterSpecType(SUBSET ImageType) :
     Pointer(s.loadBalancer) /\ s.loadBalancer \subseteq LoadBalancerSpecs}

\* The states of a virtual machine that a status may have.
VMStates == {Nil, {"Succeeded"}}

ClusterStatuses == [conditions : SUBSET ConditionType, initialization : {Nil, Provisioned}]

\* A machine says that it is ready to clients of both versions or to none.
MachineStatuses ==
  {m \in [ready : BOOLEAN, vmState : VMStates, conditions : SUBSET ConditionType,
          initialization : {Nil, Provisioned}] :
     m.ready <=> m.initialization = Provisioned}

LoadBalancerStatuses == [ready : BOOLEAN, conditions : SUBSET ConditionType]

VMStatuses ==
  [ready : BOOLEAN, vmState : VMStates, failure : {Nil},
   conditions : SUBSET ConditionType]

Templates == [template : [spec : MachineSpecs]]
Clusters == [spec : ClusterSpecs, status : ClusterStatuses]
Machines == [spec : MachineSpecs, status : MachineStatuses]
LoadBalancers == [spec : LoadBalancerSpecs, status : LoadBalancerStatuses]
VMs == [spec : VMSpecs, status : VMStatuses]

\* Two specifications make the same virtual machine, or the first makes none because
\* its zone got lost.  managedDisk, which nothing in MOC depends on, may differ.
Same(s, t) ==
  /\ s.location = t.location /\ s.networkInterfaces = t.networkInterfaces
  /\ s.image = t.image
  /\ t.zone = Nil => s.zone = Nil
  /\ s.osDisk = Nil <=> t.osDisk = Nil
  /\ s.osDisk # Nil => Deref(s.osDisk).osType = Deref(t.osDisk).osType

\* The machine specification of a template's text and the image of a load balancer's.
AskedSpec(a) == IF a.version = "v1beta1" THEN Lifted(a.spec) ELSE a.spec

AskedImage(a) ==
  IF a.version = "v1beta1" THEN {Deref(a.spec.loadBalancer).image}
  ELSE Deref(a.spec.loadBalancer).image

\* An object of a kind is legal and says what the text a says.  The condition Ready of a
\* cluster is true if there is one.
Good(kind, o, a) ==
  /\ kind = "template" =>
       /\ o \in Templates
       /\ a.kind = "template" /\ Same(o.template.spec, AskedSpec(a))
  /\ kind = "cluster" =>
       /\ o \in Clusters
       /\ o.spec.location = VMAskedFor(a).location
       /\ \A lb \in o.spec.loadBalancer : a.kind = "cluster" /\ lb.image = AskedImage(a)
       /\ \A c \in o.status.conditions : c.type = "Ready" => c.status = "True"
  /\ kind = "machine" =>
       /\ o \in Machines
       /\ a.kind = "template" /\ Same(o.spec, AskedSpec(a))
  /\ kind = "loadbalancer" =>
       /\ o \in LoadBalancers
       /\ a.kind = "cluster" /\ o.spec.image = AskedImage(a)
  /\ kind = "vm" =>
       /\ o \in VMs
       /\ Same(o.spec, VMAskedFor(a))

\* Everything that is stored does, once it is read as v1beta2, and so does MOC.
Follows(a) ==
  /\ asked = createVirtualMachine(VMAskedFor(a))
  /\ moc # Nil => moc = asked
  /\ \A k \in Kinds : Exists(k) => Good(k, Hub(k), a)

Shape ==
  /\ DOMAIN store = Kinds
  /\ \A k \in Kinds : \A s, t \in store[k] : s = t /\ s.version \in Versions
  /\ Exists("cluster")
  /\ pc \in {"idle", "waiting", "conditions", "status"}
  /\ writes \in 0..MaxWrites /\ faults \in 0..MaxFaults /\ failures \in 0..MaxVMFailures

IInv == Shape /\ \E a \in Authored : Follows(a)

-----------------------------------------------------------------------------
(* Pointers and the parts of a specification.                               *)

\* A pointer is nil or points to one value.
LEMMA PointerValue ==
  /\ \A x : Deref({x}) = x /\ Pointer({x}) /\ {x} # Nil
  /\ \A p : Pointer(p) => p = Nil \/ (p = {Deref(p)} /\ Deref(p) \in p)
  /\ Pointer(Nil)
PROOF
<1>1. \A x : Deref({x}) = x /\ Pointer({x}) /\ {x} # Nil
  BY DEF Deref, Pointer, Nil
<1>2. ASSUME NEW p, Pointer(p), p # Nil PROVE p = {Deref(p)} /\ Deref(p) \in p
  <2>1. PICK x : x \in p
    BY <1>2 DEF Nil
  <2>2. p = {x}
    BY <1>2, <2>1 DEF Pointer
  <2> QED
    BY <1>1, <2>1, <2>2
<1>3. Pointer(Nil)
  BY DEF Pointer, Nil
<1> QED
  BY <1>1, <1>2, <1>3

\* A conversion copies every interface and every IP configuration to its place.
LEMMA InterfacesCopied ==
  \A n \in Seq(NetworkInterfaceType) : NetworkInterfaces(n) = n
PROOF
<1> TAKE n \in Seq(NetworkInterfaceType)
<1>1. ASSUME NEW i \in DOMAIN n
      PROVE  n[i] = [name |-> n[i].name,
                     ipConfigurations |-> [j \in DOMAIN n[i].ipConfigurations |->
                                             [name |-> n[i].ipConfigurations[j].name,
                                              primary |-> n[i].ipConfigurations[j].primary]]]
  <2> DEFINE p == n[i].ipConfigurations
  <2>1. n[i] \in NetworkInterfaceType
    OBVIOUS
  <2>2. p \in Seq(IPConfigurationType)
    BY <2>1 DEF NetworkInterfaceType
  <2>3. \A j \in DOMAIN p : p[j] = [name |-> p[j].name, primary |-> p[j].primary]
    <3>1. \A j \in DOMAIN p : p[j] \in IPConfigurationType
      BY <2>2
    <3> QED
      BY <3>1 DEF IPConfigurationType
  <2>4. p = [j \in DOMAIN p |-> [name |-> p[j].name, primary |-> p[j].primary]]
    <3> HIDE DEF p
    <3> QED
      BY <2>2, <2>3
  <2>5. n[i] = [name |-> n[i].name, ipConfigurations |-> p]
    BY <2>1 DEF NetworkInterfaceType
  <2> QED
    BY <2>4, <2>5
<1>2. n = [i \in DOMAIN n |-> n[i]]
  OBVIOUS
<1> QED
  BY <1>1, <1>2 DEF NetworkInterfaces

\* The versions agree on what an image is, and nothing of one gets lost.
LEMMA ImageCopied ==
  /\ \A i \in ImageType : Image_To_v1beta1(i) = i /\ Image_To_v1beta2(i) = i
  /\ ZeroImage \in ImageType /\ ~ImageKept(ZeroImage)
PROOF
<1>1. \A i \in ImageType : Image_To_v1beta1(i) = i /\ Image_To_v1beta2(i) = i
  BY DEF ImageType, Image_To_v1beta1, Image_To_v1beta2
<1>2. ZeroImage \in ImageType /\ ~ImageKept(ZeroImage)
  BY OwnStrings DEF ZeroImage, ImageType, Nil, ImageKept
<1> QED
  BY <1>1, <1>2

\* A zone comes back from v1beta1, unless it says nothing: then it gets lost.
LEMMA ZoneReturns ==
  /\ \A z \in ZoneType : /\ Zone_To_v1beta2(z) = IF z = ZeroZone THEN Nil ELSE {z}
                         /\ Zone_To_v1beta2(z) \in SUBSET ZoneType
                         /\ Pointer(Zone_To_v1beta2(z))
  /\ \A z \in SUBSET ZoneType : Pointer(z) =>
       /\ Zone_To_v1beta1(z) \in ZoneType
       /\ z = Nil => Zone_To_v1beta2(Zone_To_v1beta1(z)) = Nil
PROOF
<1>1. ZeroZone \in ZoneType
  BY DEF ZeroZone, ZoneType, Nil
<1>2. ASSUME NEW z \in ZoneType
      PROVE  /\ Zone_To_v1beta2(z) = IF z = ZeroZone THEN Nil ELSE {z}
             /\ Zone_To_v1beta2(z) \in SUBSET ZoneType
             /\ Pointer(Zone_To_v1beta2(z))
  <2>1. z = [id |-> z.id, enabled |-> z.enabled]
    BY DEF ZoneType
  <2>2. z = ZeroZone <=> z.id = Nil /\ z.enabled = Nil
    BY <2>1 DEF ZeroZone
  <2>3. Zone_To_v1beta2(z) = IF z = ZeroZone THEN Nil ELSE {z}
    BY <2>1, <2>2 DEF Zone_To_v1beta2
  <2> QED
    BY <2>3, PointerValue DEF Nil
<1>3. ASSUME NEW z \in SUBSET ZoneType, Pointer(z)
      PROVE  /\ Zone_To_v1beta1(z) \in ZoneType
             /\ z = Nil => Zone_To_v1beta2(Zone_To_v1beta1(z)) = Nil
  <2>1. CASE z = Nil
    <3>1. Zone_To_v1beta1(z) = ZeroZone
      BY <2>1 DEF Zone_To_v1beta1
    <3> QED
      BY <1>1, <1>2, <2>1, <3>1
  <2>2. CASE z # Nil
    <3>1. Deref(z) \in ZoneType
      BY <1>3, <2>2, PointerValue
    <3>2. Zone_To_v1beta1(z) = [id |-> Deref(z).id, enabled |-> Deref(z).enabled]
      BY <2>2 DEF Zone_To_v1beta1
    <3> QED
      BY <2>2, <3>1, <3>2 DEF ZoneType
  <2> QED
    BY <2>1, <2>2
<1> QED
  BY <1>2, <1>3

\* A pointer to a disk that a conversion does not take for left out.
KeptDisk(p) ==
  /\ p \in SUBSET OSDiskType(SUBSET Strings) /\ Pointer(p)
  /\ \A d \in p : OSDiskKept(d)

\* A disk with a name or a size comes back from v1beta1 with its OS type.
LEMMA OSDiskReturns ==
  /\ \A d \in OSDiskType(Strings) :
       /\ OSDiskPointer(d) = IF OSDiskKept(d) THEN {OSDisk_To_v1beta2(d)} ELSE Nil
       /\ OSDisk_To_v1beta2(d) \in OSDiskType(SUBSET Strings)
       /\ OSDisk_To_v1beta2(d).osType = d.osType
       /\ OSDiskKept(d) => OSDiskKept(OSDisk_To_v1beta2(d))
  /\ \A p : KeptDisk(p) =>
       LET q == OSDiskPointer(OSDiskValue(p))
       IN  /\ OSDiskValue(p) \in OSDiskType(Strings) /\ KeptDisk(q)
           /\ p = Nil <=> q = Nil
           /\ p # Nil => Deref(q).osType = Deref(p).osType
  /\ ZeroOSDisk \in OSDiskType(Strings) /\ ~OSDiskKept(ZeroOSDisk)
PROOF
<1>1. ASSUME NEW d \in OSDiskType(Strings)
      PROVE  /\ OSDiskPointer(d) = IF OSDiskKept(d) THEN {OSDisk_To_v1beta2(d)} ELSE Nil
             /\ OSDisk_To_v1beta2(d) \in OSDiskType(SUBSET Strings)
             /\ OSDisk_To_v1beta2(d).osType = d.osType
             /\ OSDiskKept(d) => OSDiskKept(OSDisk_To_v1beta2(d))
  BY DEF OSDiskPointer, OSDiskKept, OSDisk_To_v1beta2, OSDiskType
<1>2. ZeroOSDisk \in OSDiskType(Strings) /\ ~OSDiskKept(ZeroOSDisk)
  <2>1. \A x \in Strings :
          LET d == [name |-> x, size |-> 0, osType |-> x, managedDisk |-> x]
          IN  d \in OSDiskType(Strings) /\ d.name = x /\ d.size = 0
    BY DEF OSDiskType
  <2>2. "" \in Strings
    BY OwnStrings
  <2>3. /\ ZeroOSDisk \in OSDiskType(Strings)
        /\ ZeroOSDisk.name = "" /\ ZeroOSDisk.size = 0
    BY <2>1, <2>2, Zenon DEF ZeroOSDisk
  <2> QED
    BY <2>3, Zenon DEF OSDiskKept
<1>3. ASSUME NEW p, KeptDisk(p)
      PROVE  LET q == OSDiskPointer(OSDiskValue(p))
             IN  /\ OSDiskValue(p) \in OSDiskType(Strings) /\ KeptDisk(q)
                 /\ p = Nil <=> q = Nil
                 /\ p # Nil => Deref(q).osType = Deref(p).osType
  <2> DEFINE v == OSDiskValue(p)
             q == OSDiskPointer(v)
  <2>1. CASE p = Nil
    <3>1. v = ZeroOSDisk
      BY <2>1 DEF OSDiskValue
    <3>2. q = Nil
      BY <1>1, <1>2, <3>1
    <3> HIDE DEF v, q
    <3>3. v \in OSDiskType(Strings) /\ q = Nil
      BY <1>2, <3>1, <3>2
    <3> QED
      BY <2>1, <3>3, PointerValue DEF v, q, Nil, KeptDisk
  <2>2. CASE p # Nil
    <3> DEFINE e == Deref(p)
    <3>1. e \in OSDiskType(SUBSET Strings) /\ OSDiskKept(e)
      BY <1>3, <2>2, PointerValue DEF KeptDisk
    <3>2. v = OSDisk_To_v1beta1(e)
      BY <2>2 DEF OSDiskValue
    <3> HIDE DEF e
    <3>3. e.managedDisk # Nil => Deref(e.managedDisk) \in Strings
      BY <3>1 DEF OSDiskType, Deref, Nil
    <3>4. /\ OSDisk_To_v1beta1(e) \in OSDiskType(Strings)
          /\ OSDisk_To_v1beta1(e).osType = e.osType /\ OSDiskKept(OSDisk_To_v1beta1(e))
      BY <3>1, <3>3, OwnStrings DEF OSDisk_To_v1beta1, OSDiskType, OSDiskKept
    <3> DEFINE f == OSDisk_To_v1beta2(v)
    <3>5. /\ v \in OSDiskType(Strings) /\ q = {f} /\ f \in OSDiskType(SUBSET Strings)
          /\ OSDiskKept(f) /\ f.osType = e.osType
      BY <1>1, <3>2, <3>4
    <3> HIDE DEF v, q, f
    <3>6. KeptDisk(q) /\ q # Nil /\ Deref(q) = f
      BY <3>5, PointerValue DEF KeptDisk
    <3> QED
      BY <2>2, <3>5, <3>6 DEF v, q, e
  <2> QED
    BY <2>1, <2>2
<1> QED
  BY <1>1, <1>2, <1>3

-----------------------------------------------------------------------------
(* Specifications.                                                          *)

\* Same is what it takes to get the same virtual machine, or none.
LEMMA SameBuilds ==
  /\ \A s : Same(s, s)
  /\ \A s, t, u : Same(s, t) /\ Same(t, u) => Same(s, u)
  /\ \A s, t : Same(s, t) /\ createVirtualMachine(s) # Nil =>
                 createVirtualMachine(s) = createVirtualMachine(t)
PROOF
<1>1. \A s : Same(s, s)
  BY DEF Same
<1>2. \A s, t, u : Same(s, t) /\ Same(t, u) => Same(s, u)
  BY DEF Same
<1>3. ASSUME NEW s, NEW t, Same(s, t), createVirtualMachine(s) # Nil
      PROVE  createVirtualMachine(s) = createVirtualMachine(t)
  <2>1. ~(s.location \in ZoneLocations /\ s.zone = Nil)
    BY <1>3 DEF createVirtualMachine
  <2>2. ~(t.location \in ZoneLocations /\ t.zone = Nil)
    BY <1>3, <2>1 DEF Same
  <2>3. /\ s.image = t.image /\ s.networkInterfaces = t.networkInterfaces
        /\ (IF s.osDisk = Nil THEN "" ELSE Deref(s.osDisk).osType)
             = (IF t.osDisk = Nil THEN "" ELSE Deref(t.osDisk).osType)
    BY <1>3 DEF Same
  <2> QED
    BY <2>1, <2>2, <2>3 DEF createVirtualMachine
<1> QED
  BY <1>1, <1>2, <1>3

\* What membership of a v1beta2 specification says, field by field.
LEMMA SpecFields ==
  \A s : s \in v1beta2SpecType <=>
    /\ s = [location |-> s.location, networkInterfaces |-> s.networkInterfaces,
            zone |-> s.zone, image |-> s.image, osDisk |-> s.osDisk]
    /\ s.location \in Strings /\ s.networkInterfaces \in Seq(NetworkInterfaceType)
    /\ s.zone \in SUBSET ZoneType /\ Pointer(s.zone)
    /\ s.image \in SUBSET ImageType /\ Pointer(s.image)
    /\ s.osDisk \in SUBSET OSDiskType(SUBSET Strings) /\ Pointer(s.osDisk)
PROOF
<1> DEFINE Disks == SUBSET OSDiskType(SUBSET Strings)
           Images == SUBSET ImageType
           Zones == SUBSET ZoneType
           Nics == Seq(NetworkInterfaceType)
<1>1. \A s : s \in v1beta2SpecType <=>
               /\ s \in SpecType(Zones, Images, Disks)
               /\ Pointer(s.zone) /\ Pointer(s.image) /\ Pointer(s.osDisk)
  BY Zenon DEF v1beta2SpecType
<1>2. SpecType(Zones, Images, Disks) =
        [location : Strings, networkInterfaces : Nics, zone : Zones, image : Images,
         osDisk : Disks]
  BY Zenon DEF SpecType
<1> HIDE DEF Disks, Images, Zones, Nics
<1>3. \A s : s \in SpecType(Zones, Images, Disks) <=>
               /\ s = [location |-> s.location, networkInterfaces |-> s.networkInterfaces,
                       zone |-> s.zone, image |-> s.image, osDisk |-> s.osDisk]
               /\ s.location \in Strings /\ s.networkInterfaces \in Nics
               /\ s.zone \in Zones /\ s.image \in Images /\ s.osDisk \in Disks
  BY <1>2
<1> QED
  BY <1>1, <1>3, Zenon DEF Disks, Images, Zones, Nics

\* An image pointer comes back from v1beta1 if the image is kept.
LEMMA ImageReturns ==
  \A p \in SUBSET ImageType : Pointer(p) =>
    /\ ImageValue(p) \in ImageType
    /\ p = Nil => ImageValue(p) = ZeroImage
    /\ p # Nil => /\ {Image_To_v1beta2(ImageValue(p))} = p
                  /\ (\A i \in p : ImageKept(i)) => ImageKept(ImageValue(p))
PROOF
<1> SUFFICES ASSUME NEW p \in SUBSET ImageType, Pointer(p)
             PROVE  /\ ImageValue(p) \in ImageType
                    /\ p = Nil => ImageValue(p) = ZeroImage
                    /\ p # Nil =>
                         /\ {Image_To_v1beta2(ImageValue(p))} = p
                         /\ (\A i \in p : ImageKept(i)) => ImageKept(ImageValue(p))
  OBVIOUS
<1>1. CASE p = Nil
  BY <1>1, ImageCopied DEF ImageValue
<1>2. CASE p # Nil
  <2>1. p = {Deref(p)} /\ Deref(p) \in ImageType
    BY <1>2, PointerValue
  <2>2. ImageValue(p) = Deref(p)
    BY <1>2, <2>1, ImageCopied DEF ImageValue
  <2> QED
    BY <1>2, <2>1, <2>2, ImageCopied
<1> QED
  BY <1>1, <1>2

\* A machine's specification comes back from v1beta1 as one of the same machine.
LEMMA MachineSpecReturns ==
  \A s \in MachineSpecs :
    LET t == MachineSpec_To_v1beta2(MachineSpec_To_v1beta1(s))
    IN  t \in MachineSpecs /\ Same(t, s)
PROOF
<1> SUFFICES ASSUME NEW s \in MachineSpecs
             PROVE  LET t == MachineSpec_To_v1beta2(MachineSpec_To_v1beta1(s))
                    IN  t \in MachineSpecs /\ Same(t, s)
  OBVIOUS
<1> DEFINE r == MachineSpec_To_v1beta1(s)
           t == MachineSpec_To_v1beta2(r)
<1>1. /\ s \in v1beta2SpecType /\ \A i \in s.image : ImageKept(i)
      /\ \A d \in s.osDisk : OSDiskKept(d)
  BY DEF MachineSpecs
<1>2. /\ s.location \in Strings /\ s.networkInterfaces \in Seq(NetworkInterfaceType)
      /\ s.zone \in SUBSET ZoneType /\ Pointer(s.zone)
      /\ s.image \in SUBSET ImageType /\ Pointer(s.image)
      /\ s.osDisk \in SUBSET OSDiskType(SUBSET Strings) /\ Pointer(s.osDisk)
  BY <1>1, SpecFields
<1>3. /\ r.location = s.location /\ r.networkInterfaces = s.networkInterfaces
      /\ r.zone = Zone_To_v1beta1(s.zone) /\ r.image = ImageValue(s.image)
      /\ r.osDisk = OSDiskValue(s.osDisk)
  BY <1>2, InterfacesCopied DEF MachineSpec_To_v1beta1
<1> HIDE DEF r
<1>4. /\ t = [location |-> t.location, networkInterfaces |-> t.networkInterfaces,
              zone |-> t.zone, image |-> t.image, osDisk |-> t.osDisk]
      /\ t.location = s.location /\ t.networkInterfaces = s.networkInterfaces
      /\ t.zone = Zone_To_v1beta2(r.zone) /\ t.osDisk = OSDiskPointer(r.osDisk)
      /\ t.image = IF ImageKept(r.image) THEN {Image_To_v1beta2(r.image)} ELSE Nil
  BY <1>2, <1>3, InterfacesCopied DEF MachineSpec_To_v1beta2, ImageKept
<1> HIDE DEF t
<1>5. t.image = s.image
  BY <1>1, <1>2, <1>3, <1>4, ImageReturns, ImageCopied
<1>6. /\ t.zone \in SUBSET ZoneType /\ Pointer(t.zone) /\ (s.zone = Nil => t.zone = Nil)
  BY <1>2, <1>3, <1>4, ZoneReturns
<1>7. /\ KeptDisk(t.osDisk)
      /\ s.osDisk = Nil <=> t.osDisk = Nil
      /\ s.osDisk # Nil => Deref(t.osDisk).osType = Deref(s.osDisk).osType
  <2>1. t.osDisk = OSDiskPointer(OSDiskValue(s.osDisk))
    BY <1>3, <1>4
  <2>2. KeptDisk(s.osDisk)
    BY <1>1, <1>2 DEF KeptDisk
  <2> QED
    BY <2>1, <2>2, OSDiskReturns
<1>8. t \in MachineSpecs
  <2>1. t \in v1beta2SpecType
    BY <1>2, <1>4, <1>5, <1>6, <1>7, SpecFields DEF KeptDisk
  <2> QED
    BY <1>1, <1>5, <1>7, <2>1 DEF MachineSpecs, KeptDisk
<1>9. Same(t, s)
  BY <1>4, <1>5, <1>6, <1>7 DEF Same
<1> QED
  BY <1>8, <1>9 DEF r, t

\* So does the specification of a virtual machine.
LEMMA VMSpecReturns ==
  \A s \in VMSpecs :
    LET t == VirtualMachineSpec_To_v1beta2(VirtualMachineSpec_To_v1beta1(s))
    IN  t \in VMSpecs /\ Same(t, s)
PROOF
<1> SUFFICES ASSUME NEW s \in VMSpecs
             PROVE  LET t == VirtualMachineSpec_To_v1beta2(VirtualMachineSpec_To_v1beta1(s))
                    IN  t \in VMSpecs /\ Same(t, s)
  OBVIOUS
<1> DEFINE r == VirtualMachineSpec_To_v1beta1(s)
           t == VirtualMachineSpec_To_v1beta2(r)
<1>1. s \in v1beta2SpecType /\ s.image # Nil /\ \A d \in s.osDisk : OSDiskKept(d)
  BY DEF VMSpecs
<1>2. /\ s.location \in Strings /\ s.networkInterfaces \in Seq(NetworkInterfaceType)
      /\ s.zone \in SUBSET ZoneType /\ Pointer(s.zone)
      /\ s.image \in SUBSET ImageType /\ Pointer(s.image)
      /\ s.osDisk \in SUBSET OSDiskType(SUBSET Strings) /\ Pointer(s.osDisk)
  BY <1>1, SpecFields
<1>3. /\ r.location = s.location /\ r.networkInterfaces = s.networkInterfaces
      /\ r.zone = Zone_To_v1beta1(s.zone) /\ r.image = ImageValue(s.image)
      /\ r.osDisk = OSDiskValue(s.osDisk)
  BY <1>2, InterfacesCopied DEF VirtualMachineSpec_To_v1beta1
<1> HIDE DEF r
<1>4. /\ t = [location |-> t.location, networkInterfaces |-> t.networkInterfaces,
              zone |-> t.zone, image |-> t.image, osDisk |-> t.osDisk]
      /\ t.location = s.location /\ t.networkInterfaces = s.networkInterfaces
      /\ t.zone = Zone_To_v1beta2(r.zone) /\ t.osDisk = OSDiskPointer(r.osDisk)
      /\ t.image = {Image_To_v1beta2(r.image)}
  BY <1>2, <1>3, InterfacesCopied DEF VirtualMachineSpec_To_v1beta2
<1> HIDE DEF t
<1>5. t.image = s.image
  BY <1>1, <1>2, <1>3, <1>4, ImageReturns
<1>6. /\ t.zone \in SUBSET ZoneType /\ Pointer(t.zone) /\ (s.zone = Nil => t.zone = Nil)
  BY <1>2, <1>3, <1>4, ZoneReturns
<1>7. /\ KeptDisk(t.osDisk)
      /\ s.osDisk = Nil <=> t.osDisk = Nil
      /\ s.osDisk # Nil => Deref(t.osDisk).osType = Deref(s.osDisk).osType
  <2>1. t.osDisk = OSDiskPointer(OSDiskValue(s.osDisk))
    BY <1>3, <1>4
  <2>2. KeptDisk(s.osDisk)
    BY <1>1, <1>2 DEF KeptDisk
  <2> QED
    BY <2>1, <2>2, OSDiskReturns
<1>8. t \in VMSpecs
  <2>1. t \in v1beta2SpecType
    BY <1>2, <1>4, <1>5, <1>6, <1>7, SpecFields DEF KeptDisk
  <2> QED
    BY <1>1, <1>5, <1>7, <2>1 DEF VMSpecs, KeptDisk
<1>9. Same(t, s)
  BY <1>4, <1>5, <1>6, <1>7 DEF Same
<1> QED
  BY <1>8, <1>9 DEF r, t

\* The conversion of a v1beta1 text takes nothing that its author wrote for left out.
LEMMA TextLifted ==
  \A s : TemplateText("v1beta1", s) =>
    MachineSpec_To_v1beta2(s) = Lifted(s) /\ Lifted(s) \in MachineSpecs
PROOF
<1> SUFFICES ASSUME NEW s, TemplateText("v1beta1", s)
             PROVE  MachineSpec_To_v1beta2(s) = Lifted(s) /\ Lifted(s) \in MachineSpecs
  OBVIOUS
<1>1. /\ s \in v1beta1SpecType
      /\ s.image = ZeroImage \/ ImageKept(s.image)
      /\ s.osDisk = ZeroOSDisk \/ OSDiskKept(s.osDisk)
  BY DEF TemplateText
<1> DEFINE Disks == OSDiskType(Strings)
           Nics == Seq(NetworkInterfaceType)
<1>2. v1beta1SpecType = [location : Strings, networkInterfaces : Nics, zone : ZoneType,
                         image : ImageType, osDisk : Disks]
  BY Zenon DEF v1beta1SpecType, SpecType
<1> HIDE DEF Disks, Nics
<1>3. /\ s.location \in Strings /\ s.networkInterfaces \in Nics /\ s.zone \in ZoneType
      /\ s.image \in ImageType /\ s.osDisk \in Disks
  BY <1>1, <1>2
<1> DEFINE zone == IF s.zone = ZeroZone THEN Nil ELSE {s.zone}
           image == IF s.image = ZeroImage THEN Nil ELSE {s.image}
           osDisk == IF s.osDisk = ZeroOSDisk THEN Nil ELSE {OSDisk_To_v1beta2(s.osDisk)}
           t == [location |-> s.location, networkInterfaces |-> s.networkInterfaces,
                 zone |-> zone, image |-> image, osDisk |-> osDisk]
<1>4. Lifted(s) = t
  <2>1. [s EXCEPT !.zone = zone, !.image = image, !.osDisk = osDisk] = t
    <3> HIDE DEF zone, image, osDisk
    <3> DEFINE e == [s EXCEPT !.zone = zone, !.image = image, !.osDisk = osDisk]
    <3>1. e \in [location : Strings, networkInterfaces : Nics, zone : {zone},
                 image : {image}, osDisk : {osDisk}]
      BY <1>1, <1>2
    <3>2. e.location = s.location /\ e.networkInterfaces = s.networkInterfaces
      BY <1>1, <1>2
    <3> HIDE DEF e
    <3>3. e = t
      BY <3>1, <3>2
    <3> QED
      BY <3>3 DEF e
  <2>2. Lifted(s) = [s EXCEPT !.zone = zone, !.image = image, !.osDisk = osDisk]
    BY <1>1, <1>2 DEF Lifted
  <2> QED
    BY <2>1, <2>2
<1>5. zone = Zone_To_v1beta2(s.zone) /\ zone \in SUBSET ZoneType /\ Pointer(zone)
  BY <1>3, ZoneReturns
<1>6. /\ image = IF ImageKept(s.image) THEN {Image_To_v1beta2(s.image)} ELSE Nil
      /\ image \in SUBSET ImageType /\ Pointer(image) /\ \A i \in image : ImageKept(i)
  BY <1>1, <1>3, ImageCopied, PointerValue DEF Nil
<1>7. osDisk = OSDiskPointer(s.osDisk) /\ KeptDisk(osDisk)
  <2>1. s.osDisk \in OSDiskType(Strings)
    BY <1>3 DEF Disks
  <2>2. CASE s.osDisk = ZeroOSDisk
    <3>1. osDisk = Nil /\ OSDiskPointer(s.osDisk) = Nil
      BY <2>1, <2>2, OSDiskReturns
    <3> QED
      BY <3>1, PointerValue DEF Nil, KeptDisk
  <2>3. CASE s.osDisk # ZeroOSDisk
    <3> DEFINE d == OSDisk_To_v1beta2(s.osDisk)
    <3>1. /\ osDisk = {d} /\ OSDiskPointer(s.osDisk) = {d}
          /\ d \in OSDiskType(SUBSET Strings) /\ OSDiskKept(d)
      BY <1>1, <2>1, <2>3, OSDiskReturns
    <3> HIDE DEF osDisk, d
    <3> QED
      BY <3>1, PointerValue DEF KeptDisk
  <2> QED
    BY <2>2, <2>3
<1>8. MachineSpec_To_v1beta2(s) = t
  <2>1. NetworkInterfaces(s.networkInterfaces) = s.networkInterfaces
    BY <1>3, InterfacesCopied DEF Nics
  <2>2. MachineSpec_To_v1beta2(s) =
          [location |-> s.location, networkInterfaces |-> s.networkInterfaces,
           zone |-> Zone_To_v1beta2(s.zone),
           image |-> IF ImageKept(s.image) THEN {Image_To_v1beta2(s.image)} ELSE Nil,
           osDisk |-> OSDiskPointer(s.osDisk)]
    BY <2>1, Zenon DEF MachineSpec_To_v1beta2, ImageKept
  <2> QED
    BY <1>5, <1>6, <1>7, <2>2, Zenon
<1>9. t \in MachineSpecs
  <2> HIDE DEF zone, image, osDisk
  <2>1. /\ t.location = s.location /\ t.networkInterfaces = s.networkInterfaces
        /\ t.zone = zone /\ t.image = image /\ t.osDisk = osDisk
    OBVIOUS
  <2>2. t \in v1beta2SpecType
    BY <1>3, <1>5, <1>6, <1>7, <2>1, SpecFields DEF KeptDisk, Nics
  <2> HIDE DEF t
  <2> QED
    BY <1>6, <1>7, <2>1, <2>2 DEF MachineSpecs, KeptDisk
<1> QED
  BY <1>4, <1>8, <1>9

\* The image that a virtual machine gets, the machine's own or the default one.
LEMMA VMImage ==
  \A i \in SUBSET ImageType : Pointer(i) => getVMImage(i) \in ImageType
PROOF
<1> SUFFICES ASSUME NEW i \in SUBSET ImageType, Pointer(i)
             PROVE  getVMImage(i) \in ImageType
  OBVIOUS
<1>1. \A osType \in Strings : GetDefaultImage(osType) \in ImageType
  <2>1. /\ "Linux_k8s" \in Strings /\ "Windows_k8s" \in Strings /\ "_k8s" \in Strings
        /\ "Windows2022_k8s" \in Strings /\ "MicrosoftSQLServer" \in Strings
        /\ "latest" \in Strings
    BY OwnStrings
  <2>2. \A osType : getDefaultImageName(osType) \in Strings
    BY <2>1 DEF getDefaultImageName
  <2> QED
    BY <2>1, <2>2 DEF GetDefaultImage, ImageType, Nil
<1>2. i # Nil => Deref(i) \in ImageType
  BY PointerValue
<1>3. i # Nil => Deref(i).osType \in Strings
  BY <1>2 DEF ImageType
<1>4. "Linux" \in Strings
  BY OwnStrings
<1> QED
  BY <1>1, <1>2, <1>3, <1>4 DEF getVMImage

\* What a machine controller writes makes the machine that was asked for, or none.
LEMMA MachineVM ==
  ASSUME NEW m \in MachineSpecs, NEW n \in MachineSpecs, Same(m, n), NEW v,
         \/ v = NoVM.spec
         \/ v \in VMSpecs /\ Same(v, MachineVMSpec(n, NoVM.spec))
  PROVE  /\ MachineVMSpec(m, v) \in VMSpecs
         /\ Same(MachineVMSpec(m, v), MachineVMSpec(n, NoVM.spec))
PROOF
<1> DEFINE r == MachineVMSpec(m, v)
           q == MachineVMSpec(n, NoVM.spec)
<1>1. /\ NoVM.spec.zone = Nil /\ NoVM.spec.osDisk = Nil
  BY DEF NoVM
<1>2. /\ m \in v1beta2SpecType /\ KeptDisk(m.osDisk)
      /\ m.location \in Strings /\ m.networkInterfaces \in Seq(NetworkInterfaceType)
      /\ m.zone \in SUBSET ZoneType /\ Pointer(m.zone)
      /\ m.image \in SUBSET ImageType /\ Pointer(m.image)
  BY SpecFields DEF MachineSpecs, KeptDisk
<1>3. v = NoVM.spec \/ (v.zone \in SUBSET ZoneType /\ Pointer(v.zone) /\ KeptDisk(v.osDisk))
  BY SpecFields DEF VMSpecs, KeptDisk
<1>4. /\ r = [location |-> r.location, networkInterfaces |-> r.networkInterfaces,
              zone |-> r.zone, image |-> r.image, osDisk |-> r.osDisk]
      /\ r.location = m.location /\ r.networkInterfaces = m.networkInterfaces
      /\ r.zone = (IF m.zone # Nil THEN m.zone ELSE v.zone)
      /\ r.image = {getVMImage(m.image)}
      /\ r.osDisk = (IF m.osDisk # Nil THEN m.osDisk ELSE v.osDisk)
  BY DEF MachineVMSpec
<1>5. /\ q.location = n.location /\ q.networkInterfaces = n.networkInterfaces
      /\ q.zone = n.zone /\ q.image = {getVMImage(n.image)} /\ q.osDisk = n.osDisk
  BY <1>1 DEF MachineVMSpec
<1>6. v = NoVM.spec \/ Same(v, q)
  OBVIOUS
<1> HIDE DEF r, q
<1>7. r.zone \in SUBSET ZoneType /\ Pointer(r.zone)
  BY <1>1, <1>2, <1>3, <1>4, PointerValue DEF Nil
<1>8. KeptDisk(Nil)
  BY PointerValue DEF KeptDisk, Nil
<1>9. KeptDisk(r.osDisk)
  BY <1>1, <1>2, <1>3, <1>4, <1>8
<1>10. r.image \in SUBSET ImageType /\ Pointer(r.image) /\ r.image # Nil
  BY <1>2, <1>4, VMImage, PointerValue
<1>11. r \in VMSpecs
  <2>1. r \in v1beta2SpecType
    BY <1>2, <1>4, <1>7, <1>9, <1>10, SpecFields DEF KeptDisk
  <2> QED
    BY <1>9, <1>10, <2>1 DEF VMSpecs, KeptDisk
<1>12. Same(r, q)
  <2>1. /\ r.location = q.location /\ r.networkInterfaces = q.networkInterfaces
        /\ r.image = q.image
    BY <1>4, <1>5 DEF Same
  <2>2. q.zone = Nil => r.zone = Nil
    BY <1>1, <1>4, <1>5, <1>6 DEF Same
  <2>3. /\ r.osDisk = Nil <=> q.osDisk = Nil
        /\ r.osDisk # Nil => Deref(r.osDisk).osType = Deref(q.osDisk).osType
    BY <1>1, <1>4, <1>5, <1>6 DEF Same
  <2> QED
    BY <2>1, <2>2, <2>3 DEF Same
<1> QED
  BY <1>11, <1>12 DEF r, q

\* And so does what the load balancer controller writes.
LEMMA LoadBalancerVM ==
  \A l \in LoadBalancerSpecs, location \in Strings :
    LoadBalancerVMSpec(l, location) \in VMSpecs
PROOF
<1> SUFFICES ASSUME NEW l \in LoadBalancerSpecs, NEW location \in Strings
             PROVE  LoadBalancerVMSpec(l, location) \in VMSpecs
  OBVIOUS
<1> DEFINE r == LoadBalancerVMSpec(l, location)
<1>1. l.image \in SUBSET ImageType /\ Pointer(l.image)
  BY DEF LoadBalancerSpecs
<1>2. /\ r = [location |-> r.location, networkInterfaces |-> r.networkInterfaces,
              zone |-> r.zone, image |-> r.image, osDisk |-> r.osDisk]
      /\ r.location = location /\ r.networkInterfaces = <<>> /\ r.zone = Nil
      /\ r.image = {getVMImage(l.image)} /\ r.osDisk = Nil
  BY DEF LoadBalancerVMSpec
<1> HIDE DEF r
<1>3. r.image \in SUBSET ImageType /\ Pointer(r.image) /\ r.image # Nil
  <2>1. getVMImage(l.image) \in ImageType
    BY <1>1, VMImage
  <2>2. r.image = {getVMImage(l.image)}
    BY <1>2
  <2> QED
    BY <2>1, <2>2, PointerValue
<1>4. <<>> \in Seq(NetworkInterfaceType)
  OBVIOUS
<1>5. /\ r.zone \in SUBSET ZoneType /\ r.osDisk \in SUBSET OSDiskType(SUBSET Strings)
      /\ Pointer(r.zone) /\ Pointer(r.osDisk)
  BY <1>2, PointerValue DEF Nil
<1>6. r \in v1beta2SpecType
  BY <1>2, <1>3, <1>4, <1>5, SpecFields
<1>7. r \in VMSpecs
  BY <1>2, <1>3, <1>6 DEF VMSpecs, Nil
<1> QED
  BY <1>7 DEF r

\* The specification of a load balancer comes back as it was.
LEMMA LoadBalancerSpecReturns ==
  \A l \in LoadBalancerSpecs :
    LoadBalancerSpec_To_v1beta2(LoadBalancerSpec_To_v1beta1(l)) = l
PROOF
<1> SUFFICES ASSUME NEW l \in LoadBalancerSpecs
             PROVE  LoadBalancerSpec_To_v1beta2(LoadBalancerSpec_To_v1beta1(l)) = l
  OBVIOUS
<1>1. /\ l.image \in SUBSET ImageType /\ Pointer(l.image) /\ l.image # Nil
      /\ l = [storageContainer |-> l.storageContainer, image |-> l.image]
  BY DEF LoadBalancerSpecs
<1>2. {Image_To_v1beta2(ImageValue(l.image))} = l.image
  BY <1>1, ImageReturns
<1>3. /\ LoadBalancerSpec_To_v1beta1(l).storageContainer = l.storageContainer
      /\ LoadBalancerSpec_To_v1beta1(l).image = ImageValue(l.image)
  BY DEF LoadBalancerSpec_To_v1beta1
<1> QED
  BY <1>1, <1>2, <1>3, Zenon DEF LoadBalancerSpec_To_v1beta2

\* And so does that of a cluster.
LEMMA ClusterSpecReturns ==
  \A s \in ClusterSpecs : ClusterSpec_To_v1beta2(ClusterSpec_To_v1beta1(s)) = s
PROOF
<1> SUFFICES ASSUME NEW s \in ClusterSpecs
             PROVE  ClusterSpec_To_v1beta2(ClusterSpec_To_v1beta1(s)) = s
  OBVIOUS
<1> DEFINE r == ClusterSpec_To_v1beta1(s)
<1>1. /\ s.controlPlaneEndpoint = [host |-> s.controlPlaneEndpoint.host,
                                   port |-> s.controlPlaneEndpoint.port]
      /\ s = [location |-> s.location, controlPlaneEndpoint |-> s.controlPlaneEndpoint,
              loadBalancer |-> s.loadBalancer]
      /\ s.loadBalancer \subseteq LoadBalancerSpecs
  BY DEF ClusterSpecs, ClusterSpecType
<1>2. /\ r.location = s.location
      /\ r.controlPlaneEndpoint.host = s.controlPlaneEndpoint.host
      /\ r.controlPlaneEndpoint.port = s.controlPlaneEndpoint.port
      /\ r.loadBalancer = {LoadBalancerSpec_To_v1beta1(l) : l \in s.loadBalancer}
  BY DEF ClusterSpec_To_v1beta1
<1> HIDE DEF r
<1>3. {LoadBalancerSpec_To_v1beta2(l) : l \in r.loadBalancer} = s.loadBalancer
  BY <1>1, <1>2, LoadBalancerSpecReturns
<1> QED
  BY <1>1, <1>2, <1>3, Zenon DEF ClusterSpec_To_v1beta2, r

-----------------------------------------------------------------------------
(* Conditions and statuses.                                                 *)

\* Conditions of v1beta1, whose reason may be empty.
v1beta1ConditionType ==
  [type : Strings, status : Strings, reason : Strings, message : Strings, severity : Strings]

\* The fields of a condition that is made here.
LEMMA ConditionFields ==
  \A t, s, r, m \in Strings :
    LET c == [type |-> t, status |-> s, reason |-> r, message |-> m, observedGeneration |-> 0]
    IN  /\ c \in [type : Strings, status : Strings, reason : Strings, message : Strings,
                  observedGeneration : Int]
        /\ c.reason = r /\ c.type = t /\ c.status = s
PROOF
  BY SMT

\* It is legal if it has a reason.
LEMMA ConditionTyped ==
  ASSUME NEW t \in Strings, NEW s \in Strings, NEW r \in Strings, NEW m \in Strings,
         r # ""
  PROVE  LET c == [type |-> t, status |-> s, reason |-> r, message |-> m,
                   observedGeneration |-> 0]
         IN  c \in ConditionType /\ c.type = t /\ c.status = s
PROOF
  BY ConditionFields, Zenon DEF ConditionType

\* A condition that gets to v1beta2 has a reason, and its type and status.
LEMMA ConditionReturns ==
  /\ \A c \in v1beta1ConditionType :
       /\ Condition_To_v1beta2(c) \in ConditionType
       /\ Condition_To_v1beta2(c).type = c.type
       /\ Condition_To_v1beta2(c).status = c.status
  /\ \A c \in ConditionType :
       /\ Condition_To_v1beta1(c) \in v1beta1ConditionType
       /\ Condition_To_v1beta1(c).type = c.type
       /\ Condition_To_v1beta1(c).status = c.status
PROOF
<1>1. "" \in Strings /\ "Unknown" \in Strings
  BY OwnStrings
<1>2. ASSUME NEW c \in v1beta1ConditionType
      PROVE  /\ Condition_To_v1beta2(c) \in ConditionType
             /\ Condition_To_v1beta2(c).type = c.type
             /\ Condition_To_v1beta2(c).status = c.status
  <2> DEFINE reason == IF c.reason = "" THEN "Unknown" ELSE c.reason
             message == IF c.message = "" THEN "Unknown" ELSE c.message
  <2>1. reason \in Strings /\ reason # "" /\ message \in Strings
    BY <1>1 DEF v1beta1ConditionType
  <2>2. Condition_To_v1beta2(c) = [type |-> c.type, status |-> c.status, reason |-> reason,
                                   message |-> message, observedGeneration |-> 0]
    BY Zenon DEF Condition_To_v1beta2
  <2>3. c.type \in Strings /\ c.status \in Strings
    BY DEF v1beta1ConditionType
  <2> DEFINE d == [type |-> c.type, status |-> c.status, reason |-> reason,
                   message |-> message, observedGeneration |-> 0]
  <2> HIDE DEF reason, message
  <2>4. d \in ConditionType /\ d.type = c.type /\ d.status = c.status
    BY <2>1, <2>3, ConditionTyped, Zenon
  <2> HIDE DEF d
  <2> QED
    BY <2>2, <2>4 DEF d
<1>3. ASSUME NEW c \in ConditionType
      PROVE  /\ Condition_To_v1beta1(c) \in v1beta1ConditionType
             /\ Condition_To_v1beta1(c).type = c.type
             /\ Condition_To_v1beta1(c).status = c.status
  BY <1>1 DEF Condition_To_v1beta1, v1beta1ConditionType, ConditionType
<1> QED
  BY <1>2, <1>3

\* The types and statuses of two sets of conditions are the same.
SameConditions(C, D) ==
  /\ \A c \in C : \E d \in D : d.type = c.type /\ d.status = c.status
  /\ \A d \in D : \E c \in C : d.type = c.type /\ d.status = c.status

\* What the conversions do to the conditions of a status.
LEMMA ConditionsReturn ==
  /\ \A C \in SUBSET v1beta1ConditionType :
       /\ Conditions_To_v1beta2(C) \in SUBSET ConditionType
       /\ SameConditions(C, Conditions_To_v1beta2(C))
  /\ \A C \in SUBSET ConditionType :
       LET D == Conditions_To_v1beta2(Conditions_To_v1beta1(C))
       IN  D \in SUBSET ConditionType /\ SameConditions(C, D)
PROOF
<1>1. ASSUME NEW C \in SUBSET v1beta1ConditionType
      PROVE  /\ Conditions_To_v1beta2(C) \in SUBSET ConditionType
             /\ SameConditions(C, Conditions_To_v1beta2(C))
  BY ConditionReturns DEF Conditions_To_v1beta2, SameConditions
<1>2. ASSUME NEW C \in SUBSET ConditionType
      PROVE  LET D == Conditions_To_v1beta2(Conditions_To_v1beta1(C))
             IN  D \in SUBSET ConditionType /\ SameConditions(C, D)
  <2> DEFINE B == Conditions_To_v1beta1(C)
             D == Conditions_To_v1beta2(B)
  <2>1. B \in SUBSET v1beta1ConditionType /\ SameConditions(C, B)
    BY ConditionReturns DEF Conditions_To_v1beta1, SameConditions
  <2> HIDE DEF B
  <2>2. D \in SUBSET ConditionType /\ SameConditions(B, D)
    BY <1>1, <2>1
  <2> HIDE DEF D
  <2>3. SameConditions(C, D)
    BY <2>1, <2>2 DEF SameConditions
  <2> QED
    BY <2>2, <2>3 DEF B, D
<1> QED
  BY <1>1, <1>2

\* Setting legal conditions leaves a legal set of conditions.
LEMMA SetTyped ==
  \A C, D \in SUBSET ConditionType : Set(C, D) \in SUBSET ConditionType
PROOF
  BY DEF Set

\* A condition that a controller sets with a reason is legal.
LEMMA ConditionMade ==
  /\ \A type, status, reason \in Strings :
       reason # "" => Condition(type, status, reason) \in ConditionType
  /\ \A type, status, reason : /\ Condition(type, status, reason).type = type
                               /\ Condition(type, status, reason).status = status
PROOF
<1>1. "" \in Strings
  BY OwnStrings
<1>2. \A type, status, reason \in Strings :
        reason # "" => Condition(type, status, reason) \in ConditionType
  BY <1>1, ConditionTyped, Zenon DEF Condition
<1>3. \A type, status, reason : /\ Condition(type, status, reason).type = type
                               /\ Condition(type, status, reason).status = status
  BY DEF Condition
<1> QED
  BY <1>2, <1>3, Zenon

\* The conditions that the controllers set.
LEMMA OwnConditions ==
  /\ \A type \in {"Ready", "NetworkInfrastructureReady", "LoadBalancerInfrastructureReady"} :
       LET c == Condition(type, "True", "InfrastructureReady")
       IN  c \in ConditionType /\ c.type = type /\ c.status = "True"
  /\ \A type \in {"NetworkInfrastructureReady", "LoadBalancerInfrastructureReady"} :
       LET c == Condition(type, "False", "NoReplicasReady")
       IN  c \in ConditionType /\ c.type = type
  /\ Condition("VMRunning", "True", "VMRunning") \in ConditionType
  /\ \A type \in {"VMRunning", "Ready"} :
       /\ Condition(type, "True", "Succeeded") \in ConditionType
       /\ Condition(type, "False", "VMProvisionFailed") \in ConditionType
PROOF
<1>1. /\ "True" \in Strings /\ "False" \in Strings /\ "Ready" \in Strings
      /\ "NetworkInfrastructureReady" \in Strings /\ "NoReplicasReady" \in Strings
      /\ "LoadBalancerInfrastructureReady" \in Strings /\ "InfrastructureReady" \in Strings
      /\ "VMRunning" \in Strings /\ "Succeeded" \in Strings
      /\ "VMProvisionFailed" \in Strings
  BY OwnStrings
<1>2. /\ "InfrastructureReady" # "" /\ "NoReplicasReady" # "" /\ "VMRunning" # ""
      /\ "Succeeded" # "" /\ "VMProvisionFailed" # ""
  OBVIOUS
<1>3. ASSUME NEW type \in Strings
      PROVE  LET c == Condition(type, "True", "InfrastructureReady")
             IN  c \in ConditionType /\ c.type = type /\ c.status = "True"
  <2>1. "True" \in Strings /\ "InfrastructureReady" \in Strings /\ "InfrastructureReady" # ""
    BY <1>1, <1>2
  <2>2. Condition(type, "True", "InfrastructureReady") \in ConditionType
    BY <2>1, ConditionMade, Zenon
  <2> QED
    BY <2>2, ConditionMade
<1>4. ASSUME NEW type \in Strings
      PROVE  LET c == Condition(type, "False", "NoReplicasReady")
             IN  c \in ConditionType /\ c.type = type
  <2>1. "False" \in Strings /\ "NoReplicasReady" \in Strings /\ "NoReplicasReady" # ""
    BY <1>1, <1>2
  <2>2. Condition(type, "False", "NoReplicasReady") \in ConditionType
    BY <2>1, ConditionMade, Zenon
  <2> QED
    BY <2>2, ConditionMade
<1>5. Condition("VMRunning", "True", "VMRunning") \in ConditionType
  <2>1. "True" \in Strings /\ "VMRunning" \in Strings /\ "VMRunning" # ""
    BY <1>1, <1>2
  <2> QED
    BY <2>1, ConditionMade, Zenon
<1>6. ASSUME NEW type \in Strings
      PROVE  /\ Condition(type, "True", "Succeeded") \in ConditionType
             /\ Condition(type, "False", "VMProvisionFailed") \in ConditionType
  <2>1. "True" \in Strings /\ "Succeeded" \in Strings /\ "Succeeded" # ""
    BY <1>1, <1>2
  <2>2. "False" \in Strings /\ "VMProvisionFailed" \in Strings /\ "VMProvisionFailed" # ""
    BY <1>1, <1>2
  <2>3. Condition(type, "True", "Succeeded") \in ConditionType
    BY <2>1, ConditionMade, Zenon
  <2>4. Condition(type, "False", "VMProvisionFailed") \in ConditionType
    BY <2>2, ConditionMade, Zenon
  <2> QED
    BY <2>3, <2>4
<1>7. /\ {"Ready", "NetworkInfrastructureReady", "LoadBalancerInfrastructureReady"}
           \subseteq Strings
      /\ {"NetworkInfrastructureReady", "LoadBalancerInfrastructureReady"} \subseteq Strings
      /\ {"VMRunning", "Ready"} \subseteq Strings
  BY <1>1
<1> QED
  BY <1>3, <1>4, <1>5, <1>6, <1>7, Zenon

\* A machine's status of v1beta1 gets to v1beta2 with both ways of saying that it is ready.
LEMMA MachineStatusReturns ==
  /\ \A st : st.ready \in BOOLEAN /\ st.vmState \in VMStates
              /\ st.conditions \in SUBSET v1beta1ConditionType =>
       /\ MachineStatus_To_v1beta2(st) \in MachineStatuses
       /\ MachineStatus_To_v1beta2(st).ready = st.ready
  /\ \A st \in MachineStatuses :
       LET t == MachineStatus_To_v1beta2(MachineStatus_To_v1beta1(st))
       IN  t \in MachineStatuses /\ t.ready = st.ready
PROOF
<1>1. Provisioned # Nil
  BY DEF Provisioned, Nil
<1>2. ASSUME NEW st, st.ready \in BOOLEAN, st.vmState \in VMStates,
             Conditions_To_v1beta2(st.conditions) \in SUBSET ConditionType
      PROVE  /\ MachineStatus_To_v1beta2(st) \in MachineStatuses
             /\ MachineStatus_To_v1beta2(st).ready = st.ready
  <2> DEFINE conditions == Conditions_To_v1beta2(st.conditions)
             i == IF st.ready THEN Provisioned ELSE Nil
             t == [ready |-> st.ready, vmState |-> st.vmState, conditions |-> conditions,
                   initialization |-> i]
  <2>1. i \in {Nil, Provisioned} /\ (st.ready <=> i = Provisioned)
    BY <1>1
  <2>2. MachineStatus_To_v1beta2(st) = t
    <3> HIDE DEF i, conditions
    <3>1. [[ready |-> st.ready, vmState |-> st.vmState, conditions |-> conditions,
            initialization |-> Nil] EXCEPT !.initialization = i] = t
      OBVIOUS
    <3> QED
      BY <3>1, Zenon DEF MachineStatus_To_v1beta2, autoMachineStatus_To_v1beta2, i, conditions
  <2>3. conditions \in SUBSET ConditionType
    BY <1>2
  <2> HIDE DEF i, conditions
  <2>4. t \in [ready : BOOLEAN, vmState : VMStates, conditions : SUBSET ConditionType,
               initialization : {Nil, Provisioned}]
    BY <1>2, <2>1, <2>3
  <2>5. t.ready = st.ready /\ t.initialization = i
    OBVIOUS
  <2> HIDE DEF t
  <2>6. t \in MachineStatuses
    BY <2>1, <2>4, <2>5, Zenon DEF MachineStatuses
  <2> QED
    BY <2>2, <2>5, <2>6
<1>3. ASSUME NEW st \in MachineStatuses
      PROVE  LET t == MachineStatus_To_v1beta2(MachineStatus_To_v1beta1(st))
             IN  t \in MachineStatuses /\ t.ready = st.ready
  <2> DEFINE r == MachineStatus_To_v1beta1(st)
  <2>1. /\ st.ready \in BOOLEAN /\ st.vmState \in VMStates
        /\ st.conditions \in SUBSET ConditionType
    BY DEF MachineStatuses
  <2>2. /\ r.ready = st.ready /\ r.vmState = st.vmState
        /\ r.conditions = Conditions_To_v1beta1(st.conditions)
    BY DEF MachineStatus_To_v1beta1, autoMachineStatus_To_v1beta1
  <2> HIDE DEF r
  <2>3. Conditions_To_v1beta2(r.conditions) \in SUBSET ConditionType
    BY <2>1, <2>2, ConditionsReturn
  <2> QED
    BY <1>2, <2>1, <2>2, <2>3 DEF r
<1> QED
  BY <1>2, <1>3, ConditionsReturn

\* The flag Ready of a v1beta1 cluster becomes initialization.provisioned; on the way to
\* v1beta1 it is derived from the condition Ready.
LEMMA ClusterStatusReturns ==
  /\ \A st : st.ready \in BOOLEAN /\ st.conditions \in SUBSET v1beta1ConditionType =>
       LET t == ClusterStatus_To_v1beta2(st)
       IN  t \in ClusterStatuses /\ SameConditions(st.conditions, t.conditions)
  /\ \A st \in ClusterStatuses :
       LET t == ClusterStatus_To_v1beta2(ClusterStatus_To_v1beta1(st))
       IN  /\ t \in ClusterStatuses /\ SameConditions(st.conditions, t.conditions)
           /\ (\E c \in st.conditions : c.type = "Ready" /\ c.status = "True") =>
                t.initialization = Provisioned
PROOF
<1>1. ASSUME NEW st
      PROVE  LET t == ClusterStatus_To_v1beta2(st)
             IN  /\ t.conditions = Conditions_To_v1beta2(st.conditions)
                 /\ st.ready => t.initialization = Provisioned
                 /\ t.conditions \in SUBSET ConditionType => t \in ClusterStatuses
  <2> DEFINE conditions == Conditions_To_v1beta2(st.conditions)
             i == IF st.ready THEN Provisioned ELSE Nil
             t == [conditions |-> conditions, initialization |-> i]
  <2>1. ClusterStatus_To_v1beta2(st) = t
    <3> HIDE DEF i, conditions
    <3>1. [[conditions |-> conditions, initialization |-> Nil] EXCEPT !.initialization = i] = t
      OBVIOUS
    <3> QED
      BY <3>1, Zenon DEF ClusterStatus_To_v1beta2, autoClusterStatus_To_v1beta2, i, conditions
  <2>2. i \in {Nil, Provisioned} /\ (st.ready => i = Provisioned)
    OBVIOUS
  <2> HIDE DEF i, conditions
  <2>3. t.conditions = conditions /\ t.initialization = i
    OBVIOUS
  <2>4. t.conditions \in SUBSET ConditionType => t \in ClusterStatuses
    BY <2>2 DEF ClusterStatuses
  <2> HIDE DEF t
  <2> QED
    BY <2>1, <2>2, <2>3, <2>4 DEF conditions
<1>2. ASSUME NEW st \in ClusterStatuses
      PROVE  LET t == ClusterStatus_To_v1beta2(ClusterStatus_To_v1beta1(st))
             IN  /\ t \in ClusterStatuses /\ SameConditions(st.conditions, t.conditions)
                 /\ (\E c \in st.conditions : c.type = "Ready" /\ c.status = "True") =>
                      t.initialization = Provisioned
  <2> DEFINE ready == \E c \in st.conditions : c.type = "Ready" /\ c.status = "True"
             r == ClusterStatus_To_v1beta1(st)
             t == ClusterStatus_To_v1beta2(r)
  <2>1. st.conditions \in SUBSET ConditionType
    BY DEF ClusterStatuses
  <2>2. r.conditions = Conditions_To_v1beta1(st.conditions) /\ r.ready = ready
    BY DEF ClusterStatus_To_v1beta1, autoClusterStatus_To_v1beta1
  <2> HIDE DEF r, ready
  <2>3. /\ t.conditions = Conditions_To_v1beta2(Conditions_To_v1beta1(st.conditions))
        /\ ready => t.initialization = Provisioned
        /\ t.conditions \in SUBSET ConditionType => t \in ClusterStatuses
    BY <1>1, <2>2
  <2> HIDE DEF t
  <2>4. t.conditions \in SUBSET ConditionType /\ SameConditions(st.conditions, t.conditions)
    BY <2>1, <2>3, ConditionsReturn
  <2> QED
    BY <2>3, <2>4 DEF t, r, ready
<1> QED
  BY <1>1, <1>2, ConditionsReturn

\* The statuses of virtual machines and load balancers get legal conditions.
LEMMA OtherStatusesReturn ==
  /\ \A st : st.ready \in BOOLEAN /\ st.vmState \in VMStates /\ st.failure = Nil
              /\ st.conditions \in SUBSET v1beta1ConditionType =>
       VirtualMachineStatus_To_v1beta2(st) \in VMStatuses
  /\ \A st : st.ready \in BOOLEAN /\ st.conditions \in SUBSET v1beta1ConditionType =>
       LoadBalancerStatus_To_v1beta2(st) \in LoadBalancerStatuses
  /\ \A st \in VMStatuses :
       VirtualMachineStatus_To_v1beta2(VirtualMachineStatus_To_v1beta1(st)) \in VMStatuses
  /\ \A st \in LoadBalancerStatuses :
       LoadBalancerStatus_To_v1beta2(LoadBalancerStatus_To_v1beta1(st)) \in LoadBalancerStatuses
PROOF
<1>1. ASSUME NEW st, st.ready \in BOOLEAN, st.vmState \in VMStates, st.failure = Nil,
             Conditions_To_v1beta2(st.conditions) \in SUBSET ConditionType
      PROVE  VirtualMachineStatus_To_v1beta2(st) \in VMStatuses
  BY <1>1 DEF VirtualMachineStatus_To_v1beta2, VMStatuses
<1>2. ASSUME NEW st, st.ready \in BOOLEAN,
             Conditions_To_v1beta2(st.conditions) \in SUBSET ConditionType
      PROVE  LoadBalancerStatus_To_v1beta2(st) \in LoadBalancerStatuses
  BY <1>2 DEF LoadBalancerStatus_To_v1beta2, LoadBalancerStatuses
<1>3. ASSUME NEW st \in VMStatuses
      PROVE  VirtualMachineStatus_To_v1beta2(VirtualMachineStatus_To_v1beta1(st)) \in VMStatuses
  <2> DEFINE r == VirtualMachineStatus_To_v1beta1(st)
  <2>1. /\ st.ready \in BOOLEAN /\ st.vmState \in VMStates /\ st.failure = Nil
        /\ st.conditions \in SUBSET ConditionType
    BY DEF VMStatuses
  <2>2. /\ r.ready = st.ready /\ r.vmState = st.vmState /\ r.failure = st.failure
        /\ r.conditions = Conditions_To_v1beta1(st.conditions)
    BY DEF VirtualMachineStatus_To_v1beta1
  <2> HIDE DEF r
  <2>3. Conditions_To_v1beta2(r.conditions) \in SUBSET ConditionType
    BY <2>1, <2>2, ConditionsReturn
  <2> QED
    BY <1>1, <2>1, <2>2, <2>3 DEF r
<1>4. ASSUME NEW st \in LoadBalancerStatuses
      PROVE  LoadBalancerStatus_To_v1beta2(LoadBalancerStatus_To_v1beta1(st))
               \in LoadBalancerStatuses
  <2> DEFINE r == LoadBalancerStatus_To_v1beta1(st)
  <2>1. st.ready \in BOOLEAN /\ st.conditions \in SUBSET ConditionType
    BY DEF LoadBalancerStatuses
  <2>2. r.ready = st.ready /\ r.conditions = Conditions_To_v1beta1(st.conditions)
    BY DEF LoadBalancerStatus_To_v1beta1
  <2> HIDE DEF r
  <2>3. Conditions_To_v1beta2(r.conditions) \in SUBSET ConditionType
    BY <2>1, <2>2, ConditionsReturn
  <2> QED
    BY <1>2, <2>1, <2>2, <2>3 DEF r
<1> QED
  BY <1>1, <1>2, <1>3, <1>4, ConditionsReturn

-----------------------------------------------------------------------------
(* Objects.                                                                 *)

\* The conversion of each kind.
LEMMA Conversions ==
  \A o : /\ ConvertTo("template", o) = MachineTemplate_To_v1beta2(o)
         /\ ConvertTo("cluster", o) = Cluster_To_v1beta2(o)
         /\ ConvertTo("machine", o) = Machine_To_v1beta2(o)
         /\ ConvertTo("loadbalancer", o) = LoadBalancer_To_v1beta2(o)
         /\ ConvertTo("vm", o) = VirtualMachine_To_v1beta2(o)
         /\ ConvertFrom("template", o) = MachineTemplate_To_v1beta1(o)
         /\ ConvertFrom("cluster", o) = Cluster_To_v1beta1(o)
         /\ ConvertFrom("machine", o) = Machine_To_v1beta1(o)
         /\ ConvertFrom("loadbalancer", o) = LoadBalancer_To_v1beta1(o)
         /\ ConvertFrom("vm", o) = VirtualMachine_To_v1beta1(o)
PROOF
  BY DEF ConvertTo, ConvertFrom

\* An object that a client reads and writes as v1beta1 stays a legal object that asks for
\* the same virtual machine; a machine is ready if it was, and a cluster with a true
\* condition Ready is provisioned.
LEMMA ObjectsReturn ==
  /\ \A o \in Templates :
       LET r == ConvertTo("template", ConvertFrom("template", o))
       IN  r \in Templates /\ Same(r.template.spec, o.template.spec)
  /\ \A o \in Clusters :
       LET r == ConvertTo("cluster", ConvertFrom("cluster", o))
       IN  /\ r \in Clusters /\ r.spec = o.spec
           /\ SameConditions(o.status.conditions, r.status.conditions)
           /\ (\E c \in o.status.conditions : c.type = "Ready" /\ c.status = "True") =>
                r.status.initialization = Provisioned
  /\ \A o \in Machines :
       LET r == ConvertTo("machine", ConvertFrom("machine", o))
       IN  /\ r \in Machines /\ Same(r.spec, o.spec)
           /\ r.status.ready = o.status.ready
  /\ \A o \in LoadBalancers :
       LET r == ConvertTo("loadbalancer", ConvertFrom("loadbalancer", o))
       IN  r \in LoadBalancers /\ r.spec = o.spec
  /\ \A o \in VMs :
       LET r == ConvertTo("vm", ConvertFrom("vm", o))
       IN  r \in VMs /\ Same(r.spec, o.spec)
PROOF
<1>1. ASSUME NEW o \in Templates
      PROVE  LET r == ConvertTo("template", ConvertFrom("template", o))
             IN  r \in Templates /\ Same(r.template.spec, o.template.spec)
  <2> DEFINE t == MachineSpec_To_v1beta2(MachineSpec_To_v1beta1(o.template.spec))
  <2>1. o.template.spec \in MachineSpecs
    BY DEF Templates
  <2>2. t \in MachineSpecs /\ Same(t, o.template.spec)
    BY <2>1, MachineSpecReturns
  <2>3. ConvertTo("template", ConvertFrom("template", o)) = [template |-> [spec |-> t]]
    <3> DEFINE i == ConvertFrom("template", o)
    <3>1. i.template.spec = MachineSpec_To_v1beta1(o.template.spec)
      BY Conversions DEF MachineTemplate_To_v1beta1, MachineTemplateResource_To_v1beta1
    <3>2. ConvertTo("template", i) = [template |-> [spec |-> MachineSpec_To_v1beta2(i.template.spec)]]
      BY Conversions, Zenon DEF MachineTemplate_To_v1beta2, MachineTemplateResource_To_v1beta2
    <3> HIDE DEF i
    <3> QED
      BY <3>1, <3>2 DEF i
  <2> HIDE DEF t
  <2> QED
    BY <2>2, <2>3 DEF Templates
<1>2. ASSUME NEW o \in Clusters
      PROVE  LET r == ConvertTo("cluster", ConvertFrom("cluster", o))
             IN  /\ r \in Clusters /\ r.spec = o.spec
                 /\ SameConditions(o.status.conditions, r.status.conditions)
                 /\ (\E c \in o.status.conditions : c.type = "Ready" /\ c.status = "True") =>
                      r.status.initialization = Provisioned
  <2> DEFINE t == ClusterStatus_To_v1beta2(ClusterStatus_To_v1beta1(o.status))
  <2>1. o.spec \in ClusterSpecs /\ o.status \in ClusterStatuses
    BY DEF Clusters
  <2>2. /\ t \in ClusterStatuses /\ SameConditions(o.status.conditions, t.conditions)
        /\ (\E c \in o.status.conditions : c.type = "Ready" /\ c.status = "True") =>
             t.initialization = Provisioned
    BY <2>1, ClusterStatusReturns
  <2>3. ClusterSpec_To_v1beta2(ClusterSpec_To_v1beta1(o.spec)) = o.spec
    BY <2>1, ClusterSpecReturns
  <2>4. ConvertTo("cluster", ConvertFrom("cluster", o)) = [spec |-> o.spec, status |-> t]
    <3> DEFINE i == ConvertFrom("cluster", o)
    <3>1. /\ i.spec = ClusterSpec_To_v1beta1(o.spec)
          /\ i.status = ClusterStatus_To_v1beta1(o.status)
      BY Conversions DEF Cluster_To_v1beta1
    <3>2. ConvertTo("cluster", i) = [spec |-> ClusterSpec_To_v1beta2(i.spec),
                                     status |-> ClusterStatus_To_v1beta2(i.status)]
      BY Conversions, Zenon DEF Cluster_To_v1beta2
    <3> HIDE DEF i
    <3> QED
      BY <2>3, <3>1, <3>2 DEF i
  <2> HIDE DEF t
  <2> QED
    BY <2>1, <2>2, <2>4 DEF Clusters
<1>3. ASSUME NEW o \in Machines
      PROVE  LET r == ConvertTo("machine", ConvertFrom("machine", o))
             IN  /\ r \in Machines /\ Same(r.spec, o.spec)
                 /\ r.status.ready = o.status.ready
  <2> DEFINE t == MachineSpec_To_v1beta2(MachineSpec_To_v1beta1(o.spec))
             u == MachineStatus_To_v1beta2(MachineStatus_To_v1beta1(o.status))
  <2>1. o.spec \in MachineSpecs /\ o.status \in MachineStatuses
    BY DEF Machines
  <2>2. t \in MachineSpecs /\ Same(t, o.spec)
    BY <2>1, MachineSpecReturns
  <2>3. u \in MachineStatuses /\ u.ready = o.status.ready
    BY <2>1, MachineStatusReturns
  <2>4. ConvertTo("machine", ConvertFrom("machine", o)) = [spec |-> t, status |-> u]
    <3> DEFINE i == ConvertFrom("machine", o)
    <3>1. /\ i.spec = MachineSpec_To_v1beta1(o.spec)
          /\ i.status = MachineStatus_To_v1beta1(o.status)
      BY Conversions DEF Machine_To_v1beta1
    <3>2. ConvertTo("machine", i) = [spec |-> MachineSpec_To_v1beta2(i.spec),
                                     status |-> MachineStatus_To_v1beta2(i.status)]
      BY Conversions, Zenon DEF Machine_To_v1beta2
    <3> HIDE DEF i
    <3> QED
      BY <3>1, <3>2 DEF i
  <2> HIDE DEF t, u
  <2> QED
    BY <2>2, <2>3, <2>4 DEF Machines
<1>4. ASSUME NEW o \in LoadBalancers
      PROVE  LET r == ConvertTo("loadbalancer", ConvertFrom("loadbalancer", o))
             IN  r \in LoadBalancers /\ r.spec = o.spec
  <2> DEFINE u == LoadBalancerStatus_To_v1beta2(LoadBalancerStatus_To_v1beta1(o.status))
  <2>1. o.spec \in LoadBalancerSpecs /\ o.status \in LoadBalancerStatuses
    BY DEF LoadBalancers
  <2>2. u \in LoadBalancerStatuses
    BY <2>1, OtherStatusesReturn
  <2>3. LoadBalancerSpec_To_v1beta2(LoadBalancerSpec_To_v1beta1(o.spec)) = o.spec
    BY <2>1, LoadBalancerSpecReturns
  <2>4. ConvertTo("loadbalancer", ConvertFrom("loadbalancer", o)) =
          [spec |-> o.spec, status |-> u]
    <3> DEFINE i == ConvertFrom("loadbalancer", o)
    <3>1. /\ i.spec = LoadBalancerSpec_To_v1beta1(o.spec)
          /\ i.status = LoadBalancerStatus_To_v1beta1(o.status)
      BY Conversions DEF LoadBalancer_To_v1beta1
    <3>2. ConvertTo("loadbalancer", i) = [spec |-> LoadBalancerSpec_To_v1beta2(i.spec),
                                          status |-> LoadBalancerStatus_To_v1beta2(i.status)]
      BY Conversions, Zenon DEF LoadBalancer_To_v1beta2
    <3> HIDE DEF i
    <3> QED
      BY <2>3, <3>1, <3>2 DEF i
  <2> HIDE DEF u
  <2> QED
    BY <2>1, <2>2, <2>4 DEF LoadBalancers
<1>5. ASSUME NEW o \in VMs
      PROVE  LET r == ConvertTo("vm", ConvertFrom("vm", o))
             IN  r \in VMs /\ Same(r.spec, o.spec)
  <2> DEFINE t == VirtualMachineSpec_To_v1beta2(VirtualMachineSpec_To_v1beta1(o.spec))
             u == VirtualMachineStatus_To_v1beta2(VirtualMachineStatus_To_v1beta1(o.status))
  <2>1. o.spec \in VMSpecs /\ o.status \in VMStatuses
    BY DEF VMs
  <2>2. t \in VMSpecs /\ Same(t, o.spec)
    BY <2>1, VMSpecReturns
  <2>3. u \in VMStatuses
    BY <2>1, OtherStatusesReturn
  <2>4. ConvertTo("vm", ConvertFrom("vm", o)) = [spec |-> t, status |-> u]
    <3> DEFINE i == ConvertFrom("vm", o)
    <3>1. /\ i.spec = VirtualMachineSpec_To_v1beta1(o.spec)
          /\ i.status = VirtualMachineStatus_To_v1beta1(o.status)
      BY Conversions DEF VirtualMachine_To_v1beta1
    <3>2. ConvertTo("vm", i) = [spec |-> VirtualMachineSpec_To_v1beta2(i.spec),
                                status |-> VirtualMachineStatus_To_v1beta2(i.status)]
      BY Conversions, Zenon DEF VirtualMachine_To_v1beta2
    <3> HIDE DEF i
    <3> QED
      BY <3>1, <3>2 DEF i
  <2> HIDE DEF t, u
  <2> QED
    BY <2>2, <2>3, <2>4 DEF VMs
<1> QED
  BY <1>1, <1>2, <1>3, <1>4, <1>5, Zenon

\* An object says what a says also after a client has written it as v1beta1.
LEMMA GoodReturns ==
  ASSUME NEW a, NEW kind \in Kinds, NEW o, Good(kind, o, a)
  PROVE  Good(kind, ConvertTo(kind, ConvertFrom(kind, o)), a)
PROOF
<1> DEFINE r == ConvertTo(kind, ConvertFrom(kind, o))
<1>1. CASE kind = "template"
  <2>1. o \in Templates /\ a.kind = "template" /\ Same(o.template.spec, AskedSpec(a))
    BY <1>1 DEF Good
  <2>2. r \in Templates /\ Same(r.template.spec, o.template.spec)
    BY <1>1, <2>1, ObjectsReturn
  <2> HIDE DEF r
  <2>3. Same(r.template.spec, AskedSpec(a))
    BY <2>1, <2>2, SameBuilds
  <2>4. Good(kind, r, a)
    BY <1>1, <2>1, <2>2, <2>3 DEF Good
  <2> QED
    BY <2>4 DEF r
<1>2. CASE kind = "cluster"
  <2>1. /\ o \in Clusters /\ o.spec.location = VMAskedFor(a).location
        /\ \A lb \in o.spec.loadBalancer : a.kind = "cluster" /\ lb.image = AskedImage(a)
        /\ \A c \in o.status.conditions : c.type = "Ready" => c.status = "True"
    BY <1>2 DEF Good
  <2>2. /\ r \in Clusters /\ r.spec = o.spec
        /\ SameConditions(o.status.conditions, r.status.conditions)
    BY <1>2, <2>1, ObjectsReturn
  <2> HIDE DEF r
  <2>3. \A c \in r.status.conditions : c.type = "Ready" => c.status = "True"
    BY <2>1, <2>2 DEF SameConditions
  <2>4. Good(kind, r, a)
    BY <1>2, <2>1, <2>2, <2>3 DEF Good
  <2> QED
    BY <2>4 DEF r
<1>3. CASE kind = "machine"
  <2>1. o \in Machines /\ a.kind = "template" /\ Same(o.spec, AskedSpec(a))
    BY <1>3 DEF Good
  <2>2. r \in Machines /\ Same(r.spec, o.spec)
    BY <1>3, <2>1, ObjectsReturn
  <2> HIDE DEF r
  <2>3. Same(r.spec, AskedSpec(a))
    BY <2>1, <2>2, SameBuilds
  <2>4. Good(kind, r, a)
    BY <1>3, <2>1, <2>2, <2>3 DEF Good
  <2> QED
    BY <2>4 DEF r
<1>4. CASE kind = "loadbalancer"
  <2>1. o \in LoadBalancers /\ a.kind = "cluster" /\ o.spec.image = AskedImage(a)
    BY <1>4 DEF Good
  <2>2. r \in LoadBalancers /\ r.spec = o.spec
    BY <1>4, <2>1, ObjectsReturn
  <2> HIDE DEF r
  <2>3. Good(kind, r, a)
    BY <1>4, <2>1, <2>2 DEF Good
  <2> QED
    BY <2>3 DEF r
<1>5. CASE kind = "vm"
  <2>1. o \in VMs /\ Same(o.spec, VMAskedFor(a))
    BY <1>5 DEF Good
  <2>2. r \in VMs /\ Same(r.spec, o.spec)
    BY <1>5, <2>1, ObjectsReturn
  <2> HIDE DEF r
  <2>3. Same(r.spec, VMAskedFor(a))
    BY <2>1, <2>2, SameBuilds
  <2>4. Good(kind, r, a)
    BY <1>5, <2>1, <2>2, <2>3 DEF Good
  <2> QED
    BY <2>4 DEF r
<1> QED
  BY <1>1, <1>2, <1>3, <1>4, <1>5 DEF Kinds

-----------------------------------------------------------------------------
(* The store.                                                               *)

\* The object of a kind in the store S, as v1beta2.
HubOf(S, kind) ==
  IF Deref(S[kind]).version = "v1beta2" THEN Deref(S[kind]).object
  ELSE ConvertTo(kind, Deref(S[kind]).object)

\* Every object in S is as it was, or is new and says what a says.
Written(S, a) ==
  /\ DOMAIN S = Kinds
  /\ \A k \in Kinds : \/ S[k] = store[k]
                      \/ \E o : /\ Good(k, o, a)
                               /\ S[k] = {[version |-> "v1beta2", object |-> o]}

\* What is read as v1beta2 depends on what is stored only.
LEMMA HubView ==
  /\ \A k : Hub(k) = HubOf(store, k)
  /\ \A k : Hub(k)' = HubOf(store', k)
PROOF
  BY DEF Hub, Read, HubOf

\* An object that is stored as v1beta2 is read as it is.
LEMMA HubWritten ==
  \A S, k, o : S[k] = {[version |-> "v1beta2", object |-> o]} => HubOf(S, k) = o
PROOF
<1> SUFFICES ASSUME NEW S, NEW k, NEW o, S[k] = {[version |-> "v1beta2", object |-> o]}
             PROVE  HubOf(S, k) = o
  OBVIOUS
<1>1. Deref(S[k]) = [version |-> "v1beta2", object |-> o]
  BY PointerValue
<1> QED
  BY <1>1 DEF HubOf

\* Whatever writes good objects only ...
LEMMA WritesGood ==
  ASSUME NEW a, DOMAIN store = Kinds
  PROVE  /\ Written(store, a)
         /\ \A kind \in Kinds : \A o : Good(kind, o, a) => Written(Store(kind, o), a)
         /\ \A S : \A kind \in Kinds : \A o :
              Written(S, a) /\ Good(kind, o, a) => Written(Update(S, kind, o), a)
PROOF
<1>1. Written(store, a)
  BY DEF Written
<1>2. ASSUME NEW S, Written(S, a), NEW kind \in Kinds, NEW o, Good(kind, o, a)
      PROVE  Written([S EXCEPT ![kind] = {[version |-> "v1beta2", object |-> o]}], a)
  <2> DEFINE new == {[version |-> "v1beta2", object |-> o]}
             T == [S EXCEPT ![kind] = new]
  <2>1. DOMAIN T = Kinds /\ T[kind] = new /\ \A k \in Kinds : k # kind => T[k] = S[k]
    BY <1>2 DEF Written
  <2> HIDE DEF T
  <2>2. ASSUME NEW k \in Kinds
        PROVE  \/ T[k] = store[k]
               \/ \E x : /\ Good(k, x, a)
                        /\ T[k] = {[version |-> "v1beta2", object |-> x]}
    <3>1. CASE k = kind
      BY <1>2, <2>1, <3>1
    <3>2. CASE k # kind
      BY <1>2, <2>1, <3>2 DEF Written
    <3> QED
      BY <3>1, <3>2
  <2>3. Written(T, a)
    BY <2>1, <2>2 DEF Written
  <2> QED
    BY <2>3 DEF T
<1>3. \A kind \in Kinds : \A o : Good(kind, o, a) => Written(Store(kind, o), a)
  BY <1>1, <1>2 DEF Store
<1>4. \A S : \A kind \in Kinds : \A o :
        Written(S, a) /\ Good(kind, o, a) => Written(Update(S, kind, o), a)
  BY <1>2 DEF Update
<1> QED
  BY <1>1, <1>3, <1>4

\* ... keeps everything that is stored good.
LEMMA StoreStep ==
  ASSUME NEW a, Shape, Follows(a), Written(store', a)
  PROVE  /\ \A k \in Kinds : store'[k] # Nil => Good(k, HubOf(store', k), a)
         /\ \A k \in Kinds : \A s, t \in store'[k] : s = t /\ s.version \in Versions
         /\ store'["cluster"] # Nil
PROOF
<1>1. ASSUME NEW k \in Kinds
      PROVE  /\ store'[k] # Nil => Good(k, HubOf(store', k), a)
             /\ \A s, t \in store'[k] : s = t /\ s.version \in Versions
             /\ store[k] # Nil => store'[k] # Nil
  <2>1. CASE store'[k] = store[k]
    <3>1. HubOf(store', k) = HubOf(store, k)
      BY <2>1 DEF HubOf
    <3>2. store[k] # Nil => Good(k, HubOf(store, k), a)
      BY HubView DEF Follows, Exists
    <3> QED
      BY <2>1, <3>1, <3>2 DEF Shape
  <2>2. ASSUME NEW o, Good(k, o, a), store'[k] = {[version |-> "v1beta2", object |-> o]}
        PROVE  /\ store'[k] # Nil => Good(k, HubOf(store', k), a)
               /\ \A s, t \in store'[k] : s = t /\ s.version \in Versions
               /\ store[k] # Nil => store'[k] # Nil
    <3>1. HubOf(store', k) = o
      BY <2>2, HubWritten
    <3>2. \A s, t \in store'[k] : s = t /\ s.version \in Versions
      BY <2>2 DEF Versions
    <3> QED
      BY <2>2, <3>1, <3>2, PointerValue
  <2> QED
    BY <2>1, <2>2 DEF Written
<1>2. "cluster" \in Kinds /\ store["cluster"] # Nil
  BY DEF Kinds, Shape, Exists
<1> QED
  BY <1>1, <1>2

\* The object in v1beta1 is the one that is stored, or is converted from v1beta2.
LEMMA ReadOld ==
  ASSUME Shape, NEW k \in Kinds, Exists(k), NEW version \in Versions, version # "v1beta2"
  PROVE  \/ ConvertTo(k, Read(k, version)) = Hub(k)
         \/ Read(k, version) = ConvertFrom(k, Hub(k))
PROOF
<1> DEFINE s == Deref(store[k])
<1>1. s \in store[k]
  <2>1. Pointer(store[k])
    BY DEF Shape, Pointer
  <2> QED
    BY <2>1, PointerValue DEF Exists
<1>2. s.version \in Versions
  BY <1>1 DEF Shape
<1>3. CASE s.version = "v1beta2"
  BY <1>3 DEF Read, Hub
<1>4. CASE s.version # "v1beta2"
  BY <1>2, <1>4 DEF Read, Hub, Versions
<1> QED
  BY <1>3, <1>4

-----------------------------------------------------------------------------
(* The texts.                                                               *)

\* What the author of a text asks for.
LEMMA AskedFor ==
  ASSUME NEW a \in Authored
  PROVE  /\ a.kind = "template" =>
              /\ AskedSpec(a) \in MachineSpecs
              /\ VMAskedFor(a) = MachineVMSpec(AskedSpec(a), NoVM.spec)
         /\ a.kind = "cluster" =>
              \A l : l.image = AskedImage(a) =>
                VMAskedFor(a) = LoadBalancerVMSpec(l, VMAskedFor(a).location)
PROOF
<1>1. ASSUME a.kind = "template"
      PROVE  /\ AskedSpec(a) \in MachineSpecs
             /\ VMAskedFor(a) = MachineVMSpec(AskedSpec(a), NoVM.spec)
  <2>1. TemplateText(a.version, a.spec)
    BY <1>1, AuthoredTexts
  <2>2. VMAskedFor(a) = MachineVMSpec(AskedSpec(a), NoVM.spec)
    BY <1>1 DEF VMAskedFor, AskedSpec
  <2>3. CASE a.version = "v1beta1"
    BY <2>1, <2>2, <2>3, TextLifted DEF AskedSpec
  <2>4. CASE a.version # "v1beta1"
    BY <2>1, <2>2, <2>4 DEF AskedSpec, TemplateText, MachineSpecs
  <2> QED
    BY <2>3, <2>4
<1>2. ASSUME a.kind = "cluster", NEW l, l.image = AskedImage(a)
      PROVE  VMAskedFor(a) = LoadBalancerVMSpec(l, VMAskedFor(a).location)
  <2> DEFINE lb == Deref(a.spec.loadBalancer)
             m == IF a.version = "v1beta1" THEN [lb EXCEPT !.image = {@}] ELSE lb
  <2>1. VMAskedFor(a) = LoadBalancerVMSpec(m, a.spec.location)
    BY <1>2, Zenon DEF VMAskedFor
  <2>2. m.image = AskedImage(a)
    <3>1. CASE a.version = "v1beta1"
      <4>1. ClusterText(a.version, a.spec)
        BY <1>2, AuthoredTexts
      <4>2. /\ a.spec \in ClusterSpecType(ImageType)
            /\ a.spec.loadBalancer # Nil /\ Pointer(a.spec.loadBalancer)
        BY <3>1, <4>1 DEF ClusterText
      <4>3. lb \in [storageContainer : Strings, image : ImageType]
        BY <4>2, PointerValue DEF ClusterSpecType
      <4> HIDE DEF lb
      <4>4. [lb EXCEPT !.image = {lb.image}].image = {lb.image}
        BY <4>3
      <4> QED
        BY <3>1, <4>4 DEF AskedImage, lb
    <3>2. CASE a.version # "v1beta1"
      BY <3>2 DEF AskedImage
    <3> QED
      BY <3>1, <3>2
  <2> HIDE DEF m
  <2>3. \A x, y, loc : x.image = y.image => LoadBalancerVMSpec(x, loc) = LoadBalancerVMSpec(y, loc)
    BY DEF LoadBalancerVMSpec
  <2>4. \A x, loc : LoadBalancerVMSpec(x, loc).location = loc
    BY DEF LoadBalancerVMSpec
  <2> QED
    BY <1>2, <2>1, <2>2, <2>3, <2>4
<1> QED
  BY <1>1, <1>2

-----------------------------------------------------------------------------
(* The steps write good objects only.                                       *)

\* Clients of both versions.
LEMMA ClientWriteStep ==
  ASSUME NEW a \in Authored, Shape, Follows(a),
         NEW kind \in Kinds, NEW version \in Versions, ClientWrite(kind, version)
  PROVE  Written(store', a)
PROOF
<1> DEFINE o == IF version = "v1beta2" THEN Hub(kind) ELSE ConvertTo(kind, Read(kind, version))
<1>1. Exists(kind) /\ store' = Store(kind, o)
  BY DEF ClientWrite
<1>2. Good(kind, Hub(kind), a)
  BY <1>1 DEF Follows
<1>3. Good(kind, o, a)
  <2>1. CASE version = "v1beta2"
    BY <1>2, <2>1
  <2>2. CASE version # "v1beta2"
    <3>1. o = ConvertTo(kind, Read(kind, version))
      BY <2>2
    <3>2. CASE o = Hub(kind)
      BY <1>2, <3>2
    <3>3. CASE Read(kind, version) = ConvertFrom(kind, Hub(kind))
      <4>1. Good(kind, ConvertTo(kind, ConvertFrom(kind, Hub(kind))), a)
        BY <1>2, GoodReturns
      <4> QED
        BY <3>1, <3>3, <4>1
    <3> QED
      BY <1>1, <2>2, <3>1, <3>2, <3>3, ReadOld
  <2> QED
    BY <2>1, <2>2
<1>4. DOMAIN store = Kinds
  BY DEF Shape
<1> HIDE DEF o
<1> QED
  BY <1>1, <1>3, <1>4, WritesGood

\* Cluster API.
LEMMA CloneStep ==
  ASSUME NEW a \in Authored, Shape, Follows(a), NEW version \in Versions, Clone(version)
  PROVE  Written(store', a)
PROOF
<1> DEFINE r == Read("template", version)
           s == IF version = "v1beta2" THEN r.template.spec
                ELSE MachineSpec_To_v1beta2(r.template.spec)
           o == [spec |-> s, status |-> NoMachineStatus]
<1>1. Exists("template") /\ store' = Store("machine", o)
  BY DEF Clone
<1>2. "template" \in Kinds /\ "machine" \in Kinds
  BY DEF Kinds
<1>3. PICK t : Good("template", t, a) /\ s = t.template.spec
  <2>1. Good("template", Hub("template"), a)
    BY <1>1, <1>2 DEF Follows
  <2>2. CASE version = "v1beta2"
    BY <2>1, <2>2 DEF Hub
  <2>3. CASE version # "v1beta2"
    <3> DEFINE t == ConvertTo("template", r)
    <3>1. Good("template", t, a)
      <4>1. CASE t = Hub("template")
        BY <2>1, <4>1
      <4>2. CASE r = ConvertFrom("template", Hub("template"))
        <5>1. Good("template", ConvertTo("template", ConvertFrom("template", Hub("template"))), a)
          BY <1>2, <2>1, GoodReturns
        <5> QED
          BY <4>2, <5>1
      <4> QED
        BY <1>1, <1>2, <2>3, <4>1, <4>2, ReadOld
    <3>2. t.template.spec = MachineSpec_To_v1beta2(r.template.spec)
      BY Conversions DEF MachineTemplate_To_v1beta2, MachineTemplateResource_To_v1beta2
    <3> HIDE DEF t
    <3> QED
      BY <2>3, <3>1, <3>2
  <2> QED
    BY <2>2, <2>3
<1> HIDE DEF s
<1>4. s \in MachineSpecs /\ a.kind = "template" /\ Same(s, AskedSpec(a))
  BY <1>3 DEF Good, Templates
<1>5. NoMachineStatus \in MachineStatuses
  <2>1. Provisioned # Nil
    BY DEF Provisioned, Nil
  <2> QED
    BY <2>1 DEF NoMachineStatus, MachineStatuses, VMStates, Nil
<1>6. Good("machine", o, a)
  BY <1>4, <1>5 DEF Good, Machines
<1>7. DOMAIN store = Kinds
  BY DEF Shape
<1> HIDE DEF o
<1> QED
  BY <1>1, <1>2, <1>6, <1>7, WritesGood

\* The cluster controller writes the load balancer with the image of the text.
LEMMA ReconcileClusterStep ==
  ASSUME NEW a \in Authored, Shape, Follows(a), ReconcileCluster
  PROVE  Written(store', a)
PROOF
<1> DEFINE lbs == Hub("cluster").spec.loadBalancer
           wanted == {LoadBalancerOf(lb) : lb \in lbs}
<1>1. store' = IF wanted = Nil THEN store ELSE Update(store, "loadbalancer", Deref(wanted))
  BY DEF ReconcileCluster
<1>2. DOMAIN store = Kinds /\ "cluster" \in Kinds /\ "loadbalancer" \in Kinds
  BY DEF Shape, Kinds
<1>3. Good("cluster", Hub("cluster"), a)
  BY <1>2 DEF Shape, Follows
<1>4. /\ lbs \subseteq LoadBalancerSpecs
      /\ \A lb \in lbs : a.kind = "cluster" /\ lb.image = AskedImage(a)
  BY <1>3 DEF Good, Clusters, ClusterSpecs
<1>5. ASSUME NEW lb \in lbs
      PROVE  Good("loadbalancer", LoadBalancerOf(lb), a)
  <2> DEFINE new == [spec |-> [storageContainer |-> "", image |-> Nil],
                     status |-> NoLoadBalancerStatus]
             old == IF Exists("loadbalancer") THEN Hub("loadbalancer") ELSE new
             o == [old EXCEPT !.spec.image = lb.image]
  <2> HIDE DEF lbs
  <2>1. /\ lb.image \in SUBSET ImageType /\ lb.image # Nil /\ Pointer(lb.image)
        /\ a.kind = "cluster" /\ lb.image = AskedImage(a)
    BY <1>4 DEF LoadBalancerSpecs
  <2>2. /\ old \in [spec : [storageContainer : Strings, image : SUBSET ImageType],
                   status : LoadBalancerStatuses]
    <3>1. CASE Exists("loadbalancer")
      <4>1. Hub("loadbalancer") \in LoadBalancers
        BY <1>2, <3>1 DEF Follows, Good
      <4> QED
        BY <3>1, <4>1 DEF LoadBalancers, LoadBalancerSpecs
    <3>2. CASE ~Exists("loadbalancer")
      <4>1. NoLoadBalancerStatus \in LoadBalancerStatuses
        BY DEF NoLoadBalancerStatus, LoadBalancerStatuses
      <4>2. "" \in Strings
        BY OwnStrings
      <4>3. new \in [spec : [storageContainer : Strings, image : SUBSET ImageType],
                     status : LoadBalancerStatuses]
        BY <4>1, <4>2 DEF Nil
      <4> QED
        BY <3>2, <4>3
    <3> QED
      BY <3>1, <3>2
  <2>3. LoadBalancerOf(lb) = o
    BY <2>1, Zenon DEF LoadBalancerOf
  <2> HIDE DEF old
  <2>4. o.spec.image = lb.image /\ o \in LoadBalancers
    <3>1. o \in [spec : [storageContainer : Strings, image : SUBSET ImageType],
                 status : LoadBalancerStatuses]
      BY <2>1, <2>2
    <3>2. o.spec.image = lb.image
      BY <2>2
    <3> HIDE DEF o
    <3> QED
      BY <2>1, <3>1, <3>2 DEF LoadBalancers, LoadBalancerSpecs
  <2> HIDE DEF o
  <2>5. Good("loadbalancer", o, a)
    BY <2>1, <2>4 DEF Good
  <2> QED
    BY <2>3, <2>5
<1> HIDE DEF lbs
<1>6. CASE wanted = Nil
  BY <1>1, <1>2, <1>6, WritesGood
<1>7. CASE wanted # Nil
  <2>1. Deref(wanted) \in wanted
    BY <1>7 DEF Deref, Nil
  <2>2. Good("loadbalancer", Deref(wanted), a)
    BY <1>5, <2>1
  <2> HIDE DEF wanted
  <2> QED
    BY <1>1, <1>2, <1>7, <2>2, WritesGood
<1> QED
  BY <1>6, <1>7

\* A cluster whose status gets legal conditions, with Ready true, stays good.
LEMMA ClusterPatched ==
  ASSUME NEW a \in Authored, NEW o, Good("cluster", o, a)
  PROVE  /\ \A C \in SUBSET ConditionType :
              (\A c \in C : c.type = "Ready" => c.status = "True") =>
                Good("cluster", [o EXCEPT !.status.conditions = Set(@, C)], a)
         /\ Good("cluster", [o EXCEPT !.status.initialization = Provisioned], a)
PROOF
<1>1. /\ o \in Clusters
      /\ o.spec.location = VMAskedFor(a).location
      /\ \A lb \in o.spec.loadBalancer : a.kind = "cluster" /\ lb.image = AskedImage(a)
      /\ \A c \in o.status.conditions : c.type = "Ready" => c.status = "True"
  BY DEF Good
<1>2. ASSUME NEW C \in SUBSET ConditionType,
             \A c \in C : c.type = "Ready" => c.status = "True"
      PROVE  Good("cluster", [o EXCEPT !.status.conditions = Set(@, C)], a)
  <2> DEFINE D == Set(o.status.conditions, C)
             r == [o EXCEPT !.status.conditions = D]
  <2>1. D \in SUBSET ConditionType
    BY <1>1, SetTyped DEF Clusters, ClusterStatuses
  <2>2. \A c \in D : c.type = "Ready" => c.status = "True"
    BY <1>1, <1>2 DEF Set
  <2> HIDE DEF D
  <2>3. r \in Clusters /\ r.spec = o.spec /\ r.status.conditions = D
    BY <1>1, <2>1 DEF Clusters, ClusterStatuses
  <2> HIDE DEF r
  <2>4. Good("cluster", r, a)
    BY <1>1, <2>2, <2>3 DEF Good
  <2> QED
    BY <2>4 DEF r, D
<1>3. Good("cluster", [o EXCEPT !.status.initialization = Provisioned], a)
  <2> DEFINE r == [o EXCEPT !.status.initialization = Provisioned]
  <2>1. r \in Clusters /\ r.spec = o.spec /\ r.status.conditions = o.status.conditions
    BY <1>1 DEF Clusters, ClusterStatuses
  <2> HIDE DEF r
  <2>2. Good("cluster", r, a)
    BY <1>1, <2>1 DEF Good
  <2> QED
    BY <2>2 DEF r
<1> QED
  BY <1>2, <1>3

\* A patch of the cluster writes what it is given, or nothing.
LEMMA PatchStep ==
  ASSUME NEW a \in Authored, Shape, NEW o, Good("cluster", o, a), Patch(o)
  PROVE  Written(store', a) /\ faults' \in 0..MaxFaults
PROOF
<1>1. DOMAIN store = Kinds /\ "cluster" \in Kinds /\ faults \in 0..MaxFaults
  BY DEF Shape, Kinds
<1>2. Written(store, a) /\ Written(Update(store, "cluster", o), a)
  BY <1>1, WritesGood
<1>3. CASE /\ store' = IF Admitted("cluster", o) THEN Update(store, "cluster", o) ELSE store
           /\ UNCHANGED faults
  BY <1>1, <1>2, <1>3
<1>4. CASE faults < MaxFaults /\ faults' = faults + 1 /\ UNCHANGED store
  BY <1>1, <1>2, <1>4, UpgradeBounds
<1> QED
  BY <1>3, <1>4 DEF Patch

\* The patches of the cluster controller.
LEMMA PatchesStep ==
  ASSUME NEW a \in Authored, Shape, Follows(a), PatchWaiting \/ PatchConditions \/ PatchStatus
  PROVE  Written(store', a) /\ faults' \in 0..MaxFaults
PROOF
<1>1. "cluster" \in Kinds
  BY DEF Kinds
<1>2. Good("cluster", Hub("cluster"), a)
  BY <1>1 DEF Shape, Follows
<1>3. CASE PatchWaiting
  <2> DEFINE c == Condition("NetworkInfrastructureReady", "False", "NoReplicasReady")
             C == {c} \ before.conditions
             o == [Hub("cluster") EXCEPT !.status.conditions = Set(@, C)]
  <2>1. c \in ConditionType /\ c.type # "Ready"
    BY OwnConditions
  <2> HIDE DEF c
  <2>2. C \in SUBSET ConditionType /\ \A d \in C : d.type = "Ready" => d.status = "True"
    BY <2>1
  <2>3. Patch(o)
    BY <1>3 DEF PatchWaiting, c
  <2> HIDE DEF C
  <2>4. Good("cluster", o, a)
    BY <1>2, <2>2, ClusterPatched
  <2> HIDE DEF o
  <2> QED
    BY <2>3, <2>4, PatchStep
<1>4. CASE PatchConditions
  <2> DEFINE c == Condition("NetworkInfrastructureReady", "True", "InfrastructureReady")
             d == Condition("Ready", "True", "InfrastructureReady")
             C == {c, d} \ before.conditions
             o == [Hub("cluster") EXCEPT !.status.conditions = Set(@, C)]
  <2>1. /\ c \in ConditionType /\ c.status = "True"
        /\ d \in ConditionType /\ d.status = "True"
    BY OwnConditions, Zenon
  <2> HIDE DEF c, d
  <2>2. C \in SUBSET ConditionType /\ \A e \in C : e.type = "Ready" => e.status = "True"
    BY <2>1
  <2>3. Patch(o)
    BY <1>4 DEF PatchConditions, c, d
  <2> HIDE DEF C
  <2>4. Good("cluster", o, a)
    BY <1>2, <2>2, ClusterPatched
  <2> HIDE DEF o
  <2> QED
    BY <2>3, <2>4, PatchStep
<1>5. CASE PatchStatus
  <2> DEFINE o == IF before.initialization = Provisioned THEN Hub("cluster")
                  ELSE [Hub("cluster") EXCEPT !.status.initialization = Provisioned]
  <2>1. Patch(o)
    BY <1>5 DEF PatchStatus
  <2>2. Good("cluster", o, a)
    BY <1>2, ClusterPatched
  <2> HIDE DEF o
  <2> QED
    BY <2>1, <2>2, PatchStep
<1> QED
  BY <1>3, <1>4, <1>5

\* Taking over the state of a virtual machine keeps a machine's status legal, and the
\* machine ready if it was.
LEMMA MergeTyped ==
  ASSUME NEW st \in MachineStatuses, NEW vm \in VMStatuses
  PROVE  Merge(st, vm) \in MachineStatuses /\ (st.ready => Merge(st, vm).ready)
PROOF
<1> DEFINE C == Set(st.conditions, vm.conditions)
           c == Condition("VMRunning", "True", "VMRunning")
           D == Set(C, {c})
<1>1. /\ st \in [ready : BOOLEAN, vmState : VMStates, conditions : SUBSET ConditionType,
                 initialization : {Nil, Provisioned}]
      /\ st.ready <=> st.initialization = Provisioned
      /\ vm.vmState \in VMStates /\ vm.conditions \in SUBSET ConditionType
  BY DEF MachineStatuses, VMStatuses
<1>2. C \in SUBSET ConditionType
  BY <1>1, SetTyped
<1>3. c \in ConditionType
  BY OwnConditions, Zenon
<1> HIDE DEF C, c
<1>4. D \in SUBSET ConditionType
  BY <1>2, <1>3, SetTyped
<1> HIDE DEF D
<1>5. CASE vm.vmState = Nil
  <2> DEFINE r == [st EXCEPT !.conditions = C]
  <2>1. Merge(st, vm) = r
    BY <1>5 DEF Merge, C
  <2>2. /\ r \in [ready : BOOLEAN, vmState : VMStates, conditions : SUBSET ConditionType,
                  initialization : {Nil, Provisioned}]
        /\ r.ready = st.ready /\ r.initialization = st.initialization
    BY <1>1, <1>2
  <2> HIDE DEF r
  <2>3. r \in MachineStatuses /\ (st.ready => r.ready)
    BY <1>1, <2>2, Zenon DEF MachineStatuses
  <2> QED
    BY <2>1, <2>3
<1>6. CASE vm.vmState # Nil
  <2> DEFINE r == [ready |-> TRUE, vmState |-> vm.vmState, initialization |-> Provisioned,
                   conditions |-> D]
  <2>1. Merge(st, vm) = r
    BY <1>6 DEF Merge, C, D, c
  <2>2. /\ r \in [ready : BOOLEAN, vmState : VMStates, conditions : SUBSET ConditionType,
                  initialization : {Nil, Provisioned}]
        /\ r.ready = TRUE /\ r.initialization = Provisioned
    BY <1>1, <1>4
  <2> HIDE DEF r
  <2>3. r \in MachineStatuses /\ (st.ready => r.ready)
    BY <2>2, Zenon DEF MachineStatuses
  <2> QED
    BY <2>1, <2>3
<1> QED
  BY <1>5, <1>6

\* The object that stands for a virtual machine that is yet to be created.
LEMMA NoVMTyped ==
  /\ NoVM.status \in VMStatuses
  /\ NoVM = [spec |-> NoVM.spec, status |-> NoVM.status]
PROOF
<1>1. NoVM.status = [ready |-> FALSE, vmState |-> Nil, failure |-> Nil, conditions |-> {}]
  BY DEF NoVM
<1>2. NoVM = [spec |-> NoVM.spec, status |-> NoVM.status]
  BY Zenon DEF NoVM
<1> QED
  BY <1>1, <1>2 DEF VMStatuses, VMStates, Nil

\* The machine controller: the machine and its virtual machine.
LEMMA ReconcileMachineStep ==
  ASSUME NEW a \in Authored, Shape, Follows(a), ReconcileMachine
  PROVE  Written(store', a)
PROOF
<1> DEFINE old == IF Exists("vm") THEN Hub("vm") ELSE NoVM
           machine == Hub("machine")
           vm == [old EXCEPT !.spec = MachineVMSpec(machine.spec, old.spec)]
           merged == [machine EXCEPT !.status = Merge(@, old.status)]
<1>1. Exists("machine") /\ store' = Update(Update(store, "vm", vm), "machine", merged)
  BY DEF ReconcileMachine
<1>2. DOMAIN store = Kinds /\ "vm" \in Kinds /\ "machine" \in Kinds
  BY DEF Shape, Kinds
<1>3. /\ machine.spec \in MachineSpecs /\ machine.status \in MachineStatuses
      /\ machine = [spec |-> machine.spec, status |-> machine.status]
      /\ a.kind = "template" /\ Same(machine.spec, AskedSpec(a))
  BY <1>1, <1>2 DEF Follows, Good, Machines
<1>4. /\ AskedSpec(a) \in MachineSpecs
      /\ VMAskedFor(a) = MachineVMSpec(AskedSpec(a), NoVM.spec)
  BY <1>3, AskedFor
<1>5. /\ old.status \in VMStatuses
      /\ old = [spec |-> old.spec, status |-> old.status]
      /\ \/ old.spec = NoVM.spec
         \/ old.spec \in VMSpecs /\ Same(old.spec, VMAskedFor(a))
  <2>1. CASE Exists("vm")
    <3>1. Hub("vm") \in VMs /\ Same(Hub("vm").spec, VMAskedFor(a))
      BY <1>2, <2>1 DEF Follows, Good
    <3>2. old = Hub("vm")
      BY <2>1
    <3> HIDE DEF old
    <3> QED
      BY <3>1, <3>2 DEF VMs
  <2>2. CASE ~Exists("vm")
    BY <2>2, NoVMTyped
  <2> QED
    BY <2>1, <2>2
<1> HIDE DEF old, machine
<1>6. Good("vm", vm, a)
  <2> DEFINE s == MachineVMSpec(machine.spec, old.spec)
  <2>1. s \in VMSpecs /\ Same(s, VMAskedFor(a))
    BY <1>3, <1>4, <1>5, MachineVM
  <2> HIDE DEF s
  <2>2. vm = [spec |-> s, status |-> old.status]
    BY <1>5 DEF s
  <2> HIDE DEF vm
  <2>3. vm \in VMs /\ vm.spec = s
    BY <1>5, <2>1, <2>2 DEF VMs
  <2> QED
    BY <2>1, <2>3 DEF Good
<1>7. Good("machine", merged, a)
  <2> DEFINE st == Merge(machine.status, old.status)
  <2>1. st \in MachineStatuses
    BY <1>3, <1>5, MergeTyped
  <2> HIDE DEF st
  <2>2. merged = [spec |-> machine.spec, status |-> st]
    BY <1>3 DEF st
  <2> HIDE DEF merged
  <2>3. merged \in Machines /\ merged.spec = machine.spec
    BY <1>3, <2>1, <2>2 DEF Machines
  <2> QED
    BY <1>3, <2>3 DEF Good
<1> HIDE DEF vm, merged
<1>8. Written(Update(store, "vm", vm), a)
  BY <1>2, <1>6, WritesGood
<1> QED
  BY <1>1, <1>2, <1>7, <1>8, WritesGood

\* The load balancer controller keeps the status legal and leaves the specification alone.
LEMMA LoadBalancerStatusTyped ==
  ASSUME NEW lb \in LoadBalancers, NEW serves
  PROVE  /\ LoadBalancerStatusOf(lb, serves) \in LoadBalancers
         /\ LoadBalancerStatusOf(lb, serves).spec = lb.spec
PROOF
<1> DEFINE type == "LoadBalancerInfrastructureReady"
           C == Set(lb.status.conditions, {Condition(type, "False", "NoReplicasReady")})
           D == IF ~IsFalse(lb, type) THEN lb.status.conditions
                ELSE Set(lb.status.conditions, {Condition(type, "True", "InfrastructureReady")})
<1>1. /\ lb.status \in [ready : BOOLEAN, conditions : SUBSET ConditionType]
      /\ lb = [spec |-> lb.spec, status |-> lb.status] /\ lb.spec \in LoadBalancerSpecs
  BY DEF LoadBalancers, LoadBalancerStatuses
<1>2. /\ Condition(type, "False", "NoReplicasReady") \in ConditionType
      /\ Condition(type, "True", "InfrastructureReady") \in ConditionType
  BY OwnConditions, Zenon
<1>3. C \in SUBSET ConditionType /\ D \in SUBSET ConditionType
  BY <1>1, <1>2, SetTyped
<1>4. CASE ~serves
  <2> DEFINE r == [lb EXCEPT !.status.conditions = C]
  <2>1. LoadBalancerStatusOf(lb, serves) = r
    BY <1>4 DEF LoadBalancerStatusOf
  <2> HIDE DEF C
  <2>2. r \in LoadBalancers /\ r.spec = lb.spec
    BY <1>3 DEF LoadBalancers, LoadBalancerStatuses
  <2> QED
    BY <2>1, <2>2
<1>5. CASE serves
  <2> DEFINE r == [lb EXCEPT !.status.ready = TRUE, !.status.conditions = D]
  <2>1. LoadBalancerStatusOf(lb, serves) = r
    BY <1>1, <1>5 DEF LoadBalancerStatusOf
  <2> HIDE DEF D
  <2>2. r \in LoadBalancers /\ r.spec = lb.spec
    BY <1>3 DEF LoadBalancers, LoadBalancerStatuses
  <2> QED
    BY <2>1, <2>2
<1> QED
  BY <1>4, <1>5

\* The load balancer controller: the load balancer and its replica.
LEMMA ReconcileLoadBalancerStep ==
  ASSUME NEW a \in Authored, Shape, Follows(a), ReconcileLoadBalancer
  PROVE  Written(store', a)
PROOF
<1> DEFINE lb == Hub("loadbalancer")
           s == LoadBalancerVMSpec(lb.spec, Hub("cluster").spec.location)
           vm == [NoVM EXCEPT !.spec = s]
           new == LoadBalancerStatusOf(lb, Exists("vm") /\ Status("vm").ready)
<1>1. /\ Exists("loadbalancer")
      /\ store' = Update(IF Exists("vm") THEN store ELSE Store("vm", vm), "loadbalancer", new)
  BY DEF ReconcileLoadBalancer
<1>2. /\ DOMAIN store = Kinds /\ "vm" \in Kinds /\ "loadbalancer" \in Kinds
      /\ "cluster" \in Kinds /\ Exists("cluster")
  BY DEF Shape, Kinds
<1>3. lb \in LoadBalancers /\ a.kind = "cluster" /\ lb.spec.image = AskedImage(a)
  BY <1>1, <1>2 DEF Follows, Good
<1>4. /\ Hub("cluster").spec.location = VMAskedFor(a).location
      /\ Hub("cluster").spec.location \in Strings
  BY <1>2 DEF Follows, Good, Clusters, ClusterSpecs, ClusterSpecType
<1>5. s \in VMSpecs /\ s = VMAskedFor(a)
  <2>1. lb.spec \in LoadBalancerSpecs
    BY <1>3 DEF LoadBalancers
  <2> HIDE DEF lb
  <2> QED
    BY <1>3, <1>4, <2>1, AskedFor, LoadBalancerVM
<1>6. new \in LoadBalancers /\ new.spec = lb.spec
  BY <1>3, LoadBalancerStatusTyped
<1> HIDE DEF new, s, lb
<1>7. Good("loadbalancer", new, a)
  BY <1>3, <1>6 DEF Good
<1>8. Good("vm", vm, a)
  <2>1. vm = [spec |-> s, status |-> NoVM.status]
    BY NoVMTyped
  <2> HIDE DEF vm
  <2>2. vm \in VMs /\ vm.spec = s
    BY <1>5, <2>1, NoVMTyped DEF VMs
  <2>3. Same(vm.spec, VMAskedFor(a))
    BY <1>5, <2>2, SameBuilds
  <2> QED
    BY <2>2, <2>3 DEF Good
<1> HIDE DEF vm
<1>9. Written(IF Exists("vm") THEN store ELSE Store("vm", vm), a)
  BY <1>2, <1>8, WritesGood
<1> QED
  BY <1>1, <1>2, <1>7, <1>9, WritesGood

\* The virtual machine controller sets conditions and leaves the specification alone.
LEMMA VMStatusTyped ==
  ASSUME NEW vm \in VMs
  PROVE  /\ LET r == [WithCondition(vm, "True", "Succeeded") EXCEPT
                        !.status.ready = TRUE, !.status.vmState = {"Succeeded"}]
            IN  r \in VMs /\ r.spec = vm.spec
         /\ LET r == WithCondition(vm, "False", "VMProvisionFailed")
            IN  r \in VMs /\ r.spec = vm.spec
PROOF
<1> DEFINE C == Set(vm.status.conditions, {Condition("VMRunning", "True", "Succeeded"),
                                           Condition("Ready", "True", "Succeeded")})
           D == Set(vm.status.conditions, {Condition("VMRunning", "False", "VMProvisionFailed"),
                                           Condition("Ready", "False", "VMProvisionFailed")})
           v == {"Succeeded"}
<1>1. vm \in [spec : VMSpecs, status : [ready : BOOLEAN, vmState : VMStates, failure : {Nil},
                                       conditions : SUBSET ConditionType]]
  BY DEF VMs, VMStatuses
<1>2. /\ {Condition("VMRunning", "True", "Succeeded"), Condition("Ready", "True", "Succeeded")}
           \subseteq ConditionType
      /\ {Condition("VMRunning", "False", "VMProvisionFailed"),
          Condition("Ready", "False", "VMProvisionFailed")} \subseteq ConditionType
  BY OwnConditions
<1>3. C \in SUBSET ConditionType /\ D \in SUBSET ConditionType
  BY <1>1, <1>2, SetTyped
<1>4. v \in VMStates
  BY DEF VMStates
<1>5. /\ WithCondition(vm, "True", "Succeeded") = [vm EXCEPT !.status.conditions = C]
      /\ WithCondition(vm, "False", "VMProvisionFailed") = [vm EXCEPT !.status.conditions = D]
  BY DEF WithCondition
<1> HIDE DEF C, D, v
<1>6. ASSUME NEW E \in SUBSET ConditionType
      PROVE  [vm EXCEPT !.status.conditions = E] \in VMs
             /\ [vm EXCEPT !.status.conditions = E].spec = vm.spec
  BY <1>1 DEF VMs, VMStatuses
<1>7. ASSUME NEW w \in VMs
      PROVE  LET r == [w EXCEPT !.status.ready = TRUE, !.status.vmState = v]
             IN  r \in VMs /\ r.spec = w.spec
  <2>1. [w EXCEPT !.status.ready = TRUE] \in VMs
    BY DEF VMs, VMStatuses
  <2>2. \A u \in VMs : [u EXCEPT !.status.vmState = v] \in VMs
    BY <1>4 DEF VMs, VMStatuses
  <2>3. \A u \in VMs : [u EXCEPT !.status.vmState = v].spec = u.spec
    BY DEF VMs
  <2>4. [w EXCEPT !.status.ready = TRUE].spec = w.spec
    BY DEF VMs
  <2> QED
    BY <2>1, <2>2, <2>3, <2>4
<1> QED
  BY <1>3, <1>5, <1>6, <1>7 DEF v

\* The virtual machine controller makes in MOC what was asked for.
LEMMA ReconcileVMStep ==
  ASSUME NEW a \in Authored, Shape, Follows(a), ReconcileVM \/ FailVM
  PROVE  Written(store', a) /\ (moc' # Nil => moc' = asked)
PROOF
<1>1. Exists("vm")
  BY DEF ReconcileVM, FailVM
<1>2. DOMAIN store = Kinds /\ "vm" \in Kinds
  BY DEF Shape, Kinds
<1>3. Hub("vm") \in VMs /\ Same(Hub("vm").spec, VMAskedFor(a))
  BY <1>1, <1>2 DEF Follows, Good
<1>4. CASE ReconcileVM
  <2> DEFINE vm == [WithCondition(Hub("vm"), "True", "Succeeded") EXCEPT
                      !.status.ready = TRUE, !.status.vmState = {"Succeeded"}]
             found == IF moc # Nil THEN moc ELSE createVirtualMachine(Hub("vm").spec)
  <2>1. store' = Update(store, "vm", vm) /\ moc' = found /\ found # Nil
    BY <1>4 DEF ReconcileVM
  <2>2. vm \in VMs /\ vm.spec = Hub("vm").spec
    BY <1>3, VMStatusTyped
  <2> HIDE DEF vm
  <2>3. Good("vm", vm, a)
    BY <1>3, <2>2 DEF Good
  <2>4. moc' = asked
    BY <1>3, <2>1, SameBuilds DEF Follows
  <2> QED
    BY <1>2, <2>1, <2>3, <2>4, WritesGood
<1>5. CASE FailVM
  <2> DEFINE vm == WithCondition(Hub("vm"), "False", "VMProvisionFailed")
  <2>1. store' = Update(store, "vm", vm) /\ moc' = moc
    BY <1>5 DEF FailVM
  <2>2. vm \in VMs /\ vm.spec = Hub("vm").spec
    BY <1>3, VMStatusTyped
  <2> HIDE DEF vm
  <2>3. Good("vm", vm, a)
    BY <1>3, <2>2 DEF Good
  <2> QED
    BY <1>2, <2>1, <2>3, WritesGood DEF Follows
<1> QED
  BY <1>4, <1>5

-----------------------------------------------------------------------------
(* What the old release left is good.                                       *)

\* The load balancer of a text, as v1beta2.
LEMMA TextLoadBalancer ==
  ASSUME NEW a \in Authored, a.kind = "cluster"
  PROVE  /\ a.version \in Versions /\ a.spec.location \in Strings
         /\ a.spec.loadBalancer = {Deref(a.spec.loadBalancer)}
         /\ LET lb == Deref(a.spec.loadBalancer)
                l == IF a.version = "v1beta1" THEN LoadBalancerSpec_To_v1beta2(lb) ELSE lb
            IN  l \in LoadBalancerSpecs /\ l.image = AskedImage(a)
PROOF
<1> DEFINE lb == Deref(a.spec.loadBalancer)
<1>1. ClusterText(a.version, a.spec)
  BY AuthoredTexts
<1>2. a.version \in Versions /\ a.spec.location \in Strings
  BY <1>1 DEF ClusterText, ClusterSpecType, Versions
<1>3. a.spec.loadBalancer = {lb} /\ lb \in a.spec.loadBalancer
  BY <1>1, PointerValue DEF ClusterText
<1> HIDE DEF lb
<1>4. CASE a.version = "v1beta1"
  <2>1. lb.storageContainer \in Strings /\ lb.image \in ImageType
    BY <1>1, <1>3, <1>4 DEF ClusterText, ClusterSpecType
  <2>2. LoadBalancerSpec_To_v1beta2(lb) =
          [storageContainer |-> lb.storageContainer, image |-> {lb.image}]
    BY <2>1, ImageCopied DEF LoadBalancerSpec_To_v1beta2
  <2>3. /\ LoadBalancerSpec_To_v1beta2(lb) \in LoadBalancerSpecs
        /\ LoadBalancerSpec_To_v1beta2(lb).image = {lb.image}
    <3>1. {lb.image} \in SUBSET ImageType /\ {lb.image} # Nil /\ Pointer({lb.image})
      BY <2>1, PointerValue
    <3> QED
      BY <2>1, <2>2, <3>1 DEF LoadBalancerSpecs
  <2> QED
    BY <1>2, <1>3, <1>4, <2>3 DEF AskedImage, lb
<1>5. CASE a.version # "v1beta1"
  <2>1. lb \in LoadBalancerSpecs
    BY <1>1, <1>3, <1>5 DEF ClusterText, ClusterSpecType, LoadBalancerSpecs
  <2> QED
    BY <1>2, <1>3, <1>5, <2>1 DEF AskedImage, lb
<1> QED
  BY <1>4, <1>5

\* The virtual machine that a text asks for has a legal specification.
LEMMA AskedTyped ==
  ASSUME NEW a \in Authored
  PROVE  /\ a.kind \in {"template", "cluster"} /\ a.version \in Versions
         /\ VMAskedFor(a) \in VMSpecs
         /\ VMAskedFor(a).location = a.spec.location /\ a.spec.location \in Strings
PROOF
<1>1. a.kind \in {"template", "cluster"}
  BY AuthoredTexts
<1>2. CASE a.kind = "template"
  <2>1. /\ AskedSpec(a) \in MachineSpecs
        /\ VMAskedFor(a) = MachineVMSpec(AskedSpec(a), NoVM.spec)
    BY <1>2, AskedFor
  <2>2. VMAskedFor(a) \in VMSpecs
    BY <2>1, MachineVM, SameBuilds
  <2>3. TemplateText(a.version, a.spec)
    BY <1>2, AuthoredTexts
  <2>4. AskedSpec(a).location = a.spec.location
    <3>1. CASE a.version = "v1beta1"
      <4>1. AskedSpec(a) = MachineSpec_To_v1beta2(a.spec)
        BY <2>3, <3>1, TextLifted DEF AskedSpec
      <4>2. \A x : MachineSpec_To_v1beta2(x).location = x.location
        BY DEF MachineSpec_To_v1beta2
      <4> QED
        BY <4>1, <4>2
    <3>2. CASE a.version # "v1beta1"
      BY <3>2 DEF AskedSpec
    <3> QED
      BY <3>1, <3>2
  <2>5. AskedSpec(a).location \in Strings
    BY <2>1, SpecFields DEF MachineSpecs
  <2>6. VMAskedFor(a).location = AskedSpec(a).location
    BY <2>1 DEF MachineVMSpec
  <2> QED
    BY <1>1, <2>2, <2>3, <2>4, <2>5, <2>6 DEF TemplateText, Versions
<1>3. CASE a.kind = "cluster"
  <2> DEFINE lb == Deref(a.spec.loadBalancer)
             l == IF a.version = "v1beta1" THEN LoadBalancerSpec_To_v1beta2(lb) ELSE lb
  <2>1. /\ a.version \in Versions /\ a.spec.location \in Strings
        /\ l \in LoadBalancerSpecs /\ l.image = AskedImage(a)
    BY <1>3, TextLoadBalancer
  <2> HIDE DEF l
  <2>2. VMAskedFor(a).location = a.spec.location
    BY <1>3 DEF VMAskedFor, LoadBalancerVMSpec
  <2>3. VMAskedFor(a) = LoadBalancerVMSpec(l, a.spec.location)
    BY <1>3, <2>1, <2>2, AskedFor
  <2> QED
    BY <1>1, <2>1, <2>2, <2>3, LoadBalancerVM
<1> QED
  BY <1>1, <1>2, <1>3

\* The cluster that goes with a machine template.
LEMMA ClusterOfTemplate ==
  ASSUME NEW a, a.kind # "cluster"
  PROVE  \E e \in [host : Strings, port : Int] :
           ClusterOf(a) = [location |-> a.spec.location, controlPlaneEndpoint |-> e,
                           loadBalancer |-> Nil]
PROOF
<1>1. APIServerPort \in Int
  BY DEF APIServerPort
<1>2. "h" \in Strings
  BY OwnStrings
<1>3. [host |-> "h", port |-> APIServerPort] \in [host : Strings, port : Int]
  BY <1>1, <1>2
<1>4. ClusterOf(a) = [location |-> a.spec.location,
                      controlPlaneEndpoint |-> [host |-> "h", port |-> APIServerPort],
                      loadBalancer |-> Nil]
  BY Zenon DEF ClusterOf
<1> QED
  BY <1>3, <1>4, Zenon

\* The cluster that goes with a text, in the version that it is stored in.
LEMMA OldClusterGood ==
  ASSUME NEW a \in Authored, NEW old \in OldStatus, NEW version \in Versions,
         a.kind = "cluster" => version = a.version,
         NEW o, o = [spec |-> ClusterOf(a),
                     status |-> IF version = "v1beta1" THEN old ELSE NoClusterStatus]
  PROVE  Good("cluster", IF version = "v1beta2" THEN o ELSE ConvertTo("cluster", o), a)
PROOF
<1> DEFINE s == IF version = "v1beta2" THEN ClusterOf(a) ELSE ClusterSpec_To_v1beta2(ClusterOf(a))
           st == IF version = "v1beta2" THEN NoClusterStatus ELSE ClusterStatus_To_v1beta2(old)
           r == IF version = "v1beta2" THEN o ELSE ConvertTo("cluster", o)
<1>1. VMAskedFor(a).location = a.spec.location /\ a.spec.location \in Strings
  BY AskedTyped
<1>2. r = [spec |-> s, status |-> st]
  <2>1. CASE version = "v1beta2"
    BY <2>1
  <2>2. CASE version # "v1beta2"
    <3>1. version = "v1beta1"
      BY <2>2 DEF Versions
    <3>2. o.spec = ClusterOf(a) /\ o.status = old
      BY <3>1
    <3>3. r = Cluster_To_v1beta2(o)
      BY <2>2, Conversions
    <3>4. s = ClusterSpec_To_v1beta2(ClusterOf(a)) /\ st = ClusterStatus_To_v1beta2(old)
      BY <2>2
    <3> QED
      BY <3>2, <3>3, <3>4, Zenon DEF Cluster_To_v1beta2
  <2> QED
    BY <2>1, <2>2
<1>3. /\ s \in ClusterSpecs /\ s.location = a.spec.location
      /\ \A lb \in s.loadBalancer : a.kind = "cluster" /\ lb.image = AskedImage(a)
  <2>1. CASE a.kind = "cluster"
    <3> DEFINE lb == Deref(a.spec.loadBalancer)
               l == IF a.version = "v1beta1" THEN LoadBalancerSpec_To_v1beta2(lb) ELSE lb
    <3>1. a.spec.loadBalancer = {lb} /\ l \in LoadBalancerSpecs /\ l.image = AskedImage(a)
      BY <2>1, TextLoadBalancer
    <3>2. ClusterOf(a) = a.spec /\ version = a.version
      BY <2>1 DEF ClusterOf
    <3>3. ClusterText(a.version, a.spec)
      BY <2>1, AuthoredTexts
    <3>4. /\ a.spec.controlPlaneEndpoint \in [host : Strings, port : Int]
          /\ a.spec = [location |-> a.spec.location,
                       controlPlaneEndpoint |-> a.spec.controlPlaneEndpoint,
                       loadBalancer |-> a.spec.loadBalancer]
      BY <3>3 DEF ClusterText, ClusterSpecType
    <3>5. s = [location |-> a.spec.location,
               controlPlaneEndpoint |-> a.spec.controlPlaneEndpoint, loadBalancer |-> {l}]
      <4>1. CASE version = "v1beta2"
        BY <3>1, <3>2, <3>4, <4>1
      <4>2. CASE version = "v1beta1"
        <5>1. {LoadBalancerSpec_To_v1beta2(x) : x \in a.spec.loadBalancer} = {l}
          BY <3>1, <3>2, <4>2
        <5>2. [host |-> a.spec.controlPlaneEndpoint.host, port |-> a.spec.controlPlaneEndpoint.port]
                = a.spec.controlPlaneEndpoint
          BY <3>4
        <5> QED
          BY <3>2, <4>2, <5>1, <5>2 DEF ClusterSpec_To_v1beta2
      <4> QED
        BY <4>1, <4>2 DEF Versions
    <3> HIDE DEF l, s
    <3>6. s \in ClusterSpecs
      <4>1. {l} \subseteq LoadBalancerSpecs /\ Pointer({l})
        BY <3>1, PointerValue
      <4>2. {l} \subseteq [storageContainer : Strings, image : SUBSET ImageType]
        BY <3>1 DEF LoadBalancerSpecs
      <4> QED
        BY <1>1, <3>4, <3>5, <4>1, <4>2 DEF ClusterSpecs, ClusterSpecType
    <3> QED
      BY <2>1, <3>1, <3>5, <3>6
  <2>2. CASE a.kind # "cluster"
    <3>1. PICK e \in [host : Strings, port : Int] :
            ClusterOf(a) = [location |-> a.spec.location, controlPlaneEndpoint |-> e,
                            loadBalancer |-> Nil]
      BY <2>2, ClusterOfTemplate
    <3>2. [host |-> e.host, port |-> e.port] = e
      OBVIOUS
    <3>3. s = [location |-> a.spec.location, controlPlaneEndpoint |-> e, loadBalancer |-> Nil]
      <4> DEFINE c == ClusterOf(a)
      <4>1. c.location = a.spec.location /\ c.controlPlaneEndpoint = e /\ c.loadBalancer = Nil
        BY <3>1
      <4>2. {LoadBalancerSpec_To_v1beta2(x) : x \in Nil} = Nil
        BY DEF Nil
      <4>3. ClusterSpec_To_v1beta2(c) =
              [location |-> c.location,
               controlPlaneEndpoint |-> [host |-> c.controlPlaneEndpoint.host,
                                         port |-> c.controlPlaneEndpoint.port],
               loadBalancer |-> {LoadBalancerSpec_To_v1beta2(x) : x \in c.loadBalancer}]
        BY Zenon DEF ClusterSpec_To_v1beta2
      <4> HIDE DEF c
      <4>4. ClusterSpec_To_v1beta2(c) = [location |-> a.spec.location,
                                         controlPlaneEndpoint |-> e, loadBalancer |-> Nil]
        BY <3>2, <4>1, <4>2, <4>3
      <4> QED
        BY <3>1, <4>4 DEF c
    <3> HIDE DEF s
    <3>4. Pointer(Nil) /\ Nil \subseteq LoadBalancerSpecs
          /\ Nil \in SUBSET [storageContainer : Strings, image : SUBSET ImageType]
      BY PointerValue DEF Nil
    <3>5. s.location = a.spec.location /\ s.controlPlaneEndpoint = e /\ s.loadBalancer = Nil
      BY <3>3
    <3>6. s \in ClusterSpecs
      <4>1. s \in ClusterSpecType(SUBSET ImageType)
        BY <1>1, <3>3, <3>4 DEF ClusterSpecType
      <4> QED
        BY <3>4, <3>5, <4>1 DEF ClusterSpecs
    <3> QED
      BY <3>5, <3>6 DEF Nil
  <2> QED
    BY <2>1, <2>2
<1>4. /\ st \in ClusterStatuses
      /\ \A c \in st.conditions : c.type = "Ready" => c.status = "True"
  <2>1. CASE version = "v1beta2"
    BY <2>1 DEF NoClusterStatus, ClusterStatuses
  <2>2. CASE version # "v1beta2"
    <3>1. /\ old.ready \in BOOLEAN /\ old.conditions \in SUBSET v1beta1ConditionType
          /\ \A c \in old.conditions : c.type = "Ready" => c.status = "True"
      BY OldStatuses DEF v1beta1ConditionType
    <3>2. st = ClusterStatus_To_v1beta2(old)
      BY <2>2
    <3> HIDE DEF st
    <3>3. st \in ClusterStatuses /\ SameConditions(old.conditions, st.conditions)
      BY <3>1, <3>2, ClusterStatusReturns
    <3> QED
      BY <3>1, <3>3 DEF SameConditions
  <2> QED
    BY <2>1, <2>2
<1> HIDE DEF s, st, r
<1>5. r \in Clusters /\ r.spec = s /\ r.status = st
  BY <1>2, <1>3, <1>4 DEF Clusters
<1>6. Good("cluster", r, a)
  BY <1>1, <1>3, <1>4, <1>5 DEF Good
<1> QED
  BY <1>6 DEF r

\* The template as its author wrote it.
LEMMA TextGood ==
  ASSUME NEW a \in Authored, a.kind = "template", NEW o, o = [template |-> [spec |-> a.spec]]
  PROVE  Good("template", IF a.version = "v1beta2" THEN o ELSE ConvertTo("template", o), a)
PROOF
<1> DEFINE r == IF a.version = "v1beta2" THEN o ELSE ConvertTo("template", o)
<1>1. TemplateText(a.version, a.spec) /\ a.version \in Versions
  BY AuthoredTexts, AskedTyped
<1>2. o.template.spec = a.spec
  OBVIOUS
<1>3. AskedSpec(a) \in MachineSpecs
  BY AskedFor
<1>4. r = [template |-> [spec |-> AskedSpec(a)]]
  <2>1. CASE a.version = "v1beta2"
    BY <2>1 DEF AskedSpec
  <2>2. CASE a.version = "v1beta1"
    <3>1. ConvertTo("template", o) = [template |-> [spec |-> MachineSpec_To_v1beta2(o.template.spec)]]
      BY Conversions, Zenon DEF MachineTemplate_To_v1beta2, MachineTemplateResource_To_v1beta2
    <3>2. MachineSpec_To_v1beta2(a.spec) = AskedSpec(a)
      BY <1>1, <2>2, TextLifted DEF AskedSpec
    <3> QED
      BY <1>2, <2>2, <3>1, <3>2
  <2> QED
    BY <1>1, <2>1, <2>2 DEF Versions
<1> HIDE DEF r
<1>5. r \in Templates /\ r.template.spec = AskedSpec(a)
  BY <1>3, <1>4 DEF Templates
<1>6. Same(r.template.spec, AskedSpec(a))
  BY <1>5, SameBuilds
<1>7. Good("template", r, a)
  BY <1>5, <1>6 DEF Good
<1> QED
  BY <1>7 DEF r

\* What the old release made from a text is stored as v1beta1.
LEMMA OldObjectsGood ==
  ASSUME NEW a \in Authored, a.version = "v1beta1"
  PROVE  /\ a.kind = "template" => Good("machine", ConvertTo("machine", OldMachine(a)), a)
         /\ a.kind = "cluster" =>
              Good("loadbalancer", ConvertTo("loadbalancer", OldLoadBalancer(a)), a)
         /\ Good("vm", ConvertTo("vm", OldVM(a)), a)
PROOF
<1> DEFINE C == {OldTrue("VMRunning")}
           v == {"Succeeded"}
<1>1. C \in SUBSET v1beta1ConditionType
  <2>1. "VMRunning" \in Strings /\ "True" \in Strings /\ "" \in Strings
    BY OwnStrings
  <2>2. \A t, st, e \in Strings :
          [type |-> t, status |-> st, reason |-> e, message |-> e, severity |-> e]
            \in v1beta1ConditionType
    BY DEF v1beta1ConditionType
  <2>3. OldTrue("VMRunning") \in v1beta1ConditionType
    BY <2>1, <2>2, Zenon DEF OldTrue
  <2> QED
    BY <2>3
<1>2. v \in VMStates
  BY DEF VMStates
<1> HIDE DEF C, v
<1>3. ASSUME a.kind = "template"
      PROVE  Good("machine", ConvertTo("machine", OldMachine(a)), a)
  <2> DEFINE st == [ready |-> TRUE, vmState |-> v, failure |-> Nil, conditions |-> C]
             t == MachineStatus_To_v1beta2(st)
             r == ConvertTo("machine", OldMachine(a))
  <2>1. OldMachine(a) = [spec |-> a.spec, status |-> st]
    BY Zenon DEF OldMachine, C, v
  <2>2. t \in MachineStatuses
    <3>1. st.ready \in BOOLEAN /\ st.vmState = v /\ st.conditions = C
      OBVIOUS
    <3> HIDE DEF st
    <3> QED
      BY <1>1, <1>2, <3>1, MachineStatusReturns
  <2> HIDE DEF st
  <2>3. AskedSpec(a) \in MachineSpecs /\ TemplateText("v1beta1", a.spec)
    BY <1>3, AskedFor, AuthoredTexts
  <2>4. MachineSpec_To_v1beta2(a.spec) = AskedSpec(a)
    BY <2>3, TextLifted DEF AskedSpec
  <2>5. r = [spec |-> AskedSpec(a), status |-> t]
    <3> DEFINE o == OldMachine(a)
    <3>1. o.spec = a.spec /\ o.status = st
      BY <2>1
    <3>2. ConvertTo("machine", o) = [spec |-> MachineSpec_To_v1beta2(o.spec),
                                     status |-> MachineStatus_To_v1beta2(o.status)]
      BY Conversions, Zenon DEF Machine_To_v1beta2
    <3> HIDE DEF o
    <3> QED
      BY <2>4, <3>1, <3>2 DEF o
  <2> HIDE DEF r, t
  <2>6. r \in Machines /\ r.spec = AskedSpec(a)
    BY <2>2, <2>3, <2>5 DEF Machines
  <2>7. Same(r.spec, AskedSpec(a))
    BY <2>6, SameBuilds
  <2>8. Good("machine", r, a)
    BY <1>3, <2>6, <2>7 DEF Good
  <2> QED
    BY <2>8 DEF r
<1>4. ASSUME a.kind = "cluster"
      PROVE  Good("loadbalancer", ConvertTo("loadbalancer", OldLoadBalancer(a)), a)
  <2> DEFINE lb == Deref(a.spec.loadBalancer)
             l == LoadBalancerSpec_To_v1beta2(lb)
             st == [ready |-> TRUE, conditions |-> {}]
             t == LoadBalancerStatus_To_v1beta2(st)
             r == ConvertTo("loadbalancer", OldLoadBalancer(a))
  <2>1. OldLoadBalancer(a) = [spec |-> lb, status |-> st]
    BY DEF OldLoadBalancer
  <2>2. t \in LoadBalancerStatuses
    <3>1. st.ready \in BOOLEAN /\ st.conditions \in SUBSET v1beta1ConditionType
      OBVIOUS
    <3> HIDE DEF st
    <3> QED
      BY <3>1, OtherStatusesReturn
  <2> HIDE DEF st
  <2>3. l \in LoadBalancerSpecs /\ l.image = AskedImage(a)
    BY <1>4, TextLoadBalancer
  <2>4. r = [spec |-> l, status |-> t]
    <3> DEFINE o == OldLoadBalancer(a)
    <3>1. o.spec = lb /\ o.status = st
      BY <2>1
    <3>2. ConvertTo("loadbalancer", o) = [spec |-> LoadBalancerSpec_To_v1beta2(o.spec),
                                          status |-> LoadBalancerStatus_To_v1beta2(o.status)]
      BY Conversions, Zenon DEF LoadBalancer_To_v1beta2
    <3> HIDE DEF o
    <3> QED
      BY <3>1, <3>2 DEF o
  <2> HIDE DEF r, t, l
  <2>5. r \in LoadBalancers /\ r.spec = l
    BY <2>2, <2>3, <2>4 DEF LoadBalancers
  <2>6. Good("loadbalancer", r, a)
    BY <1>4, <2>3, <2>5 DEF Good
  <2> QED
    BY <2>6 DEF r
<1>5. Good("vm", ConvertTo("vm", OldVM(a)), a)
  <2> DEFINE s == VMAskedFor(a)
             u == VirtualMachineSpec_To_v1beta2(VirtualMachineSpec_To_v1beta1(s))
             st == [ready |-> TRUE, vmState |-> v, failure |-> Nil, conditions |-> C]
             t == VirtualMachineStatus_To_v1beta2(st)
             r == ConvertTo("vm", OldVM(a))
  <2>1. OldVM(a) = [spec |-> VirtualMachineSpec_To_v1beta1(s), status |-> st]
    BY Zenon DEF OldVM, C, v
  <2>2. t \in VMStatuses
    <3>1. /\ st.ready \in BOOLEAN /\ st.vmState = v /\ st.failure = Nil
          /\ st.conditions = C
      OBVIOUS
    <3> HIDE DEF st
    <3> QED
      BY <1>1, <1>2, <3>1, OtherStatusesReturn
  <2> HIDE DEF st
  <2>3. u \in VMSpecs /\ Same(u, s)
    BY AskedTyped, VMSpecReturns
  <2>4. r = [spec |-> u, status |-> t]
    <3> DEFINE o == OldVM(a)
    <3>1. o.spec = VirtualMachineSpec_To_v1beta1(s) /\ o.status = st
      BY <2>1
    <3>2. ConvertTo("vm", o) = [spec |-> VirtualMachineSpec_To_v1beta2(o.spec),
                                status |-> VirtualMachineStatus_To_v1beta2(o.status)]
      BY Conversions, Zenon DEF VirtualMachine_To_v1beta2
    <3> HIDE DEF o
    <3> QED
      BY <3>1, <3>2 DEF o
  <2> HIDE DEF r, t, u
  <2>5. r \in VMs /\ r.spec = u
    BY <2>2, <2>3, <2>4 DEF VMs
  <2>6. Good("vm", r, a)
    BY <2>3, <2>5 DEF Good
  <2> QED
    BY <2>6 DEF r
<1> QED
  BY <1>3, <1>4, <1>5

-----------------------------------------------------------------------------
(* The invariant.                                                           *)

\* The state in which the new release finds the cluster.
LEMMA InvariantInit == Init => IInv
PROOF
<1> SUFFICES ASSUME Init PROVE IInv
  OBVIOUS
<1> DEFINE St(a, version, old, running) ==
      [k \in Kinds |->
         CASE k = "cluster" ->
                {[version |-> version,
                  object |-> [spec |-> ClusterOf(a),
                              status |-> IF version = "v1beta1" THEN old ELSE NoClusterStatus]]}
           [] k = "template" /\ a.kind = "template" ->
                {[version |-> a.version, object |-> [template |-> [spec |-> a.spec]]]}
           [] k = "machine" /\ a.kind = "template" /\ running ->
                {[version |-> "v1beta1", object |-> OldMachine(a)]}
           [] k = "loadbalancer" /\ a.kind = "cluster" /\ running ->
                {[version |-> "v1beta1", object |-> OldLoadBalancer(a)]}
           [] k = "vm" /\ running -> {[version |-> "v1beta1", object |-> OldVM(a)]}
           [] OTHER -> Nil]
<1>1. PICK a \in Authored, version \in Versions, old \in OldStatus, running \in BOOLEAN :
        /\ a.kind = "cluster" => version = a.version
        /\ a.kind = "cluster" /\ version = "v1beta1" /\ old.ready => running
        /\ running => a.version = "v1beta1" /\ version = "v1beta1" /\ old.ready
        /\ asked = createVirtualMachine(VMAskedFor(a))
        /\ moc = IF running THEN asked ELSE Nil
        /\ store = St(a, version, old, running)
  BY Zenon DEF Init
<1> DEFINE o == [spec |-> ClusterOf(a),
                 status |-> IF version = "v1beta1" THEN old ELSE NoClusterStatus]
           t == [template |-> [spec |-> a.spec]]
<1>2. /\ DOMAIN store = Kinds
      /\ store["cluster"] = {[version |-> version, object |-> o]}
      /\ store["template"] = IF a.kind = "template" THEN {[version |-> a.version, object |-> t]}
                             ELSE Nil
      /\ store["machine"] = IF a.kind = "template" /\ running
                            THEN {[version |-> "v1beta1", object |-> OldMachine(a)]} ELSE Nil
      /\ store["loadbalancer"] =
           IF a.kind = "cluster" /\ running
           THEN {[version |-> "v1beta1", object |-> OldLoadBalancer(a)]} ELSE Nil
      /\ store["vm"] = IF running THEN {[version |-> "v1beta1", object |-> OldVM(a)]} ELSE Nil
  <2> HIDE DEF o, t
  <2>1. store = [k \in Kinds |->
         CASE k = "cluster" -> {[version |-> version, object |-> o]}
           [] k = "template" /\ a.kind = "template" ->
                {[version |-> a.version, object |-> t]}
           [] k = "machine" /\ a.kind = "template" /\ running ->
                {[version |-> "v1beta1", object |-> OldMachine(a)]}
           [] k = "loadbalancer" /\ a.kind = "cluster" /\ running ->
                {[version |-> "v1beta1", object |-> OldLoadBalancer(a)]}
           [] k = "vm" /\ running -> {[version |-> "v1beta1", object |-> OldVM(a)]}
           [] OTHER -> Nil]
    BY <1>1, Zenon DEF o, t
  <2> QED
    BY <2>1 DEF Kinds
<1> HIDE DEF St, o, t
<1>3. \A k, ver, x : store[k] = {[version |-> ver, object |-> x]} =>
        Hub(k) = IF ver = "v1beta2" THEN x ELSE ConvertTo(k, x)
  <2> SUFFICES ASSUME NEW k, NEW ver, NEW x, store[k] = {[version |-> ver, object |-> x]}
               PROVE  Hub(k) = IF ver = "v1beta2" THEN x ELSE ConvertTo(k, x)
    OBVIOUS
  <2>1. Deref(store[k]) = [version |-> ver, object |-> x]
    BY PointerValue
  <2>2. Deref(store[k]).version = ver /\ Deref(store[k]).object = x
    BY <2>1
  <2>3. Hub(k) = HubOf(store, k)
    BY HubView
  <2> QED
    BY <2>2, <2>3, Zenon DEF HubOf
<1>4. Good("cluster", Hub("cluster"), a)
  <2>1. Good("cluster", IF version = "v1beta2" THEN o ELSE ConvertTo("cluster", o), a)
    BY <1>1, OldClusterGood DEF o
  <2>2. Hub("cluster") = IF version = "v1beta2" THEN o ELSE ConvertTo("cluster", o)
    BY <1>2, <1>3
  <2> QED
    BY <2>1, <2>2
<1>5. ASSUME Exists("template") PROVE Good("template", Hub("template"), a)
  <2>1. a.kind = "template" /\ store["template"] = {[version |-> a.version, object |-> t]}
    BY <1>2, <1>5 DEF Exists
  <2>2. Good("template", IF a.version = "v1beta2" THEN t ELSE ConvertTo("template", t), a)
    BY <2>1, TextGood DEF t
  <2>3. Hub("template") = IF a.version = "v1beta2" THEN t ELSE ConvertTo("template", t)
    BY <1>3, <2>1
  <2> QED
    BY <2>2, <2>3
<1>6. ASSUME Exists("machine") PROVE Good("machine", Hub("machine"), a)
  <2>1. /\ a.kind = "template" /\ running
        /\ store["machine"] = {[version |-> "v1beta1", object |-> OldMachine(a)]}
    BY <1>2, <1>6 DEF Exists
  <2>2. Hub("machine") = ConvertTo("machine", OldMachine(a))
    BY <1>3, <2>1
  <2> QED
    BY <1>1, <2>1, <2>2, OldObjectsGood
<1>7. ASSUME Exists("loadbalancer") PROVE Good("loadbalancer", Hub("loadbalancer"), a)
  <2>1. /\ a.kind = "cluster" /\ running
        /\ store["loadbalancer"] = {[version |-> "v1beta1", object |-> OldLoadBalancer(a)]}
    BY <1>2, <1>7 DEF Exists
  <2>2. Hub("loadbalancer") = ConvertTo("loadbalancer", OldLoadBalancer(a))
    BY <1>3, <2>1
  <2> QED
    BY <1>1, <2>1, <2>2, OldObjectsGood
<1>8. ASSUME Exists("vm") PROVE Good("vm", Hub("vm"), a)
  <2>1. /\ running
        /\ store["vm"] = {[version |-> "v1beta1", object |-> OldVM(a)]}
    BY <1>2, <1>8 DEF Exists
  <2>2. Hub("vm") = ConvertTo("vm", OldVM(a))
    BY <1>3, <2>1
  <2> QED
    BY <1>1, <2>1, <2>2, OldObjectsGood
<1>9. Follows(a)
  <2>1. \A k \in Kinds : Exists(k) => Good(k, Hub(k), a)
    BY <1>4, <1>5, <1>6, <1>7, <1>8 DEF Kinds
  <2> QED
    BY <1>1, <2>1 DEF Follows
<1>10. Shape
  <2>1. a.version \in Versions /\ "v1beta1" \in Versions
    BY AskedTyped DEF Versions
  <2>2. \A k \in Kinds : \A s, u \in store[k] : s = u /\ s.version \in Versions
    <3>1. \A k \in Kinds : store[k] = Nil \/ \E ver \in Versions : \E x :
                              store[k] = {[version |-> ver, object |-> x]}
      BY <1>2, <2>1 DEF Kinds
    <3> QED
      BY <3>1 DEF Nil
  <2>3. Exists("cluster")
    BY <1>2, PointerValue DEF Exists
  <2>4. writes = 0 /\ faults = 0 /\ failures = 0 /\ pc = "idle"
    BY DEF Init
  <2>5. writes \in 0..MaxWrites /\ faults \in 0..MaxFaults /\ failures \in 0..MaxVMFailures
    BY <2>4, UpgradeBounds
  <2> QED
    BY <1>2, <2>2, <2>3, <2>4, <2>5, Zenon DEF Shape
<1> QED
  BY <1>9, <1>10 DEF IInv

\* Every step keeps to the text.
LEMMA FollowsStep ==
  ASSUME NEW a \in Authored, Shape, Follows(a), [Next]_vars
  PROVE  Shape' /\ Follows(a)'
PROOF
<1>1. ASSUME Written(store', a), asked' = asked, moc' # Nil => moc' = asked,
             pc' \in {"idle", "waiting", "conditions", "status"}, writes' \in 0..MaxWrites,
             faults' \in 0..MaxFaults, failures' \in 0..MaxVMFailures
      PROVE  Shape' /\ Follows(a)'
  <2>1. /\ \A k \in Kinds : store'[k] # Nil => Good(k, HubOf(store', k), a)
        /\ \A k \in Kinds : \A s, t \in store'[k] : s = t /\ s.version \in Versions
        /\ store'["cluster"] # Nil
    BY <1>1, StoreStep
  <2>2. DOMAIN store' = Kinds
    BY <1>1 DEF Written
  <2>3. Shape'
    BY <1>1, <2>1, <2>2 DEF Shape, Exists
  <2>4. \A k \in Kinds : Exists(k)' => Good(k, Hub(k)', a)
    BY <2>1, HubView DEF Exists
  <2>5. Follows(a)'
    BY <1>1, <2>4 DEF Follows
  <2> QED
    BY <2>3, <2>5
<1>2. /\ pc \in {"idle", "waiting", "conditions", "status"}
      /\ writes \in 0..MaxWrites /\ faults \in 0..MaxFaults /\ failures \in 0..MaxVMFailures
      /\ {MaxWrites, MaxFaults, MaxVMFailures} \subseteq Nat
      /\ moc # Nil => moc = asked
  BY UpgradeBounds DEF Shape, Follows
<1>3. Written(store, a)
  BY WritesGood DEF Shape
<1>4. ASSUME NEW kind \in Kinds, NEW version \in Versions, ClientWrite(kind, version)
      PROVE  Shape' /\ Follows(a)'
  <2>1. Written(store', a)
    BY <1>4, ClientWriteStep
  <2>2. writes' \in 0..MaxWrites
    BY <1>2, <1>4 DEF ClientWrite
  <2> QED
    BY <1>1, <1>2, <1>4, <2>1, <2>2 DEF ClientWrite
<1>5. ASSUME NEW version \in Versions, Clone(version)
      PROVE  Shape' /\ Follows(a)'
  <2>1. Written(store', a)
    BY <1>5, CloneStep
  <2> QED
    BY <1>1, <1>2, <1>5, <2>1 DEF Clone, Unchanged
<1>6. CASE ReconcileCluster
  <2>1. Written(store', a)
    BY <1>6, ReconcileClusterStep
  <2>2. /\ pc' \in {"idle", "waiting", "conditions", "status"} /\ asked' = asked /\ moc' = moc
        /\ writes' = writes /\ faults' = faults /\ failures' = failures
    BY <1>6 DEF ReconcileCluster
  <2> QED
    BY <1>1, <1>2, <2>1, <2>2
<1>7. CASE PatchWaiting \/ PatchConditions \/ PatchStatus
  <2>1. Written(store', a) /\ faults' \in 0..MaxFaults
    BY <1>7, PatchesStep
  <2>2. /\ pc' \in {"idle", "waiting", "conditions", "status"} /\ asked' = asked /\ moc' = moc
        /\ writes' = writes /\ failures' = failures
    BY <1>7 DEF PatchWaiting, PatchConditions, PatchStatus
  <2> QED
    BY <1>1, <1>2, <2>1, <2>2
<1>8. CASE ReconcileMachine
  <2>1. Written(store', a)
    BY <1>8, ReconcileMachineStep
  <2> QED
    BY <1>1, <1>2, <1>8, <2>1 DEF ReconcileMachine, Unchanged
<1>9. CASE ReconcileLoadBalancer
  <2>1. Written(store', a)
    BY <1>9, ReconcileLoadBalancerStep
  <2> QED
    BY <1>1, <1>2, <1>9, <2>1 DEF ReconcileLoadBalancer, Unchanged
<1>10. CASE ReconcileVM \/ FailVM
  <2>1. Written(store', a) /\ (moc' # Nil => moc' = asked)
    BY <1>10, ReconcileVMStep
  <2>2. failures' \in 0..MaxVMFailures
    BY <1>2, <1>10 DEF ReconcileVM, FailVM
  <2>3. pc' = pc /\ asked' = asked /\ writes' = writes /\ faults' = faults
    BY <1>10 DEF ReconcileVM, FailVM
  <2> QED
    BY <1>1, <1>2, <2>1, <2>2, <2>3
<1>11. CASE LoseVM
  <2>1. failures' \in 0..MaxVMFailures
    BY <1>2, <1>11 DEF LoseVM
  <2> QED
    BY <1>1, <1>2, <1>3, <1>11, <2>1 DEF LoseVM
<1>12. CASE UNCHANGED vars
  BY <1>1, <1>2, <1>3, <1>12 DEF vars
<1> QED
  BY <1>4, <1>5, <1>6, <1>7, <1>8, <1>9, <1>10, <1>11, <1>12 DEF Next

\* The inductive invariant holds.
LEMMA InvariantHolds == Spec => []IInv
PROOF
<1>1. IInv /\ [Next]_vars => IInv'
  BY FollowsStep DEF IInv
<1> QED
  BY InvariantInit, <1>1, PTL DEF Spec

-----------------------------------------------------------------------------
(* Theorems.                                                                *)

\* What the controllers read has the v1beta2 types, whatever version it is stored in.
THEOREM TypeCorrect == Spec => []TypeOK
PROOF
<1>1. IInv => TypeOK
  <2> SUFFICES ASSUME IInv PROVE TypeOK
    OBVIOUS
  <2>1. Shape
    BY DEF IInv
  <2>2. PICK a \in Authored : Follows(a)
    BY DEF IInv
  <2>3. Good("cluster", Hub("cluster"), a)
    BY <2>1, <2>2 DEF Shape, Follows, Kinds
  <2>4. Status("cluster").initialization \in {Nil, Provisioned}
    BY <2>3 DEF Good, Clusters, ClusterStatuses, Status
  <2>5. VMStates = Pointers({"Succeeded"})
    BY DEF VMStates, Pointers
  <2>6. ASSUME NEW s \in v1beta2SpecType
        PROVE  /\ \A p, q \in s.image : p = q /\ p.name \subseteq Strings
               /\ \A p, q \in s.zone : p = q /\ p.enabled \subseteq BOOLEAN
               /\ \A p, q \in s.osDisk : p = q /\ p.managedDisk \in SUBSET Strings
    <3>1. /\ s.zone \in SUBSET ZoneType /\ Pointer(s.zone)
          /\ s.image \in SUBSET ImageType /\ Pointer(s.image)
          /\ s.osDisk \in SUBSET OSDiskType(SUBSET Strings) /\ Pointer(s.osDisk)
      BY SpecFields
    <3>2. \A p, q \in s.image : p = q /\ p.name \subseteq Strings
      BY <3>1 DEF Pointer, ImageType
    <3>3. \A p, q \in s.zone : p = q /\ p.enabled \subseteq BOOLEAN
      BY <3>1 DEF Pointer, ZoneType
    <3>4. \A p, q \in s.osDisk : p = q /\ p.managedDisk \in SUBSET Strings
      BY <3>1 DEF Pointer, OSDiskType
    <3> QED
      BY <3>2, <3>3, <3>4
  <2>7. ASSUME NEW k \in {"machine", "vm"}, Exists(k)
        PROVE  Hub(k).spec \in v1beta2SpecType /\ Status(k).vmState \in VMStates
    <3>1. Good(k, Hub(k), a)
      BY <2>2, <2>7 DEF Follows, Kinds
    <3>2. CASE k = "machine"
      BY <3>1, <3>2 DEF Good, Machines, MachineSpecs, MachineStatuses, Status
    <3>3. CASE k = "vm"
      BY <3>1, <3>3 DEF Good, VMs, VMSpecs, VMStatuses, Status
    <3> QED
      BY <3>2, <3>3
  <2>8. \A k \in {"machine", "vm"} : Exists(k) =>
          LET spec == Hub(k).spec
          IN  /\ \A p, q \in spec.image : p = q /\ p.name \subseteq Strings
              /\ \A p, q \in spec.zone : p = q /\ p.enabled \subseteq BOOLEAN
              /\ \A p, q \in spec.osDisk : p = q /\ p.managedDisk \in SUBSET Strings
              /\ Status(k).vmState \in Pointers({"Succeeded"})
    BY <2>5, <2>6, <2>7, Zenon
  <2> QED
    BY <2>1, <2>4, <2>8, Zenon DEF TypeOK, Shape
<1> QED
  BY InvariantHolds, <1>1, PTL

\* Whatever conversions the texts, the machine and the virtual machine go through, MOC has
\* the machine that the author of the text asked for.
THEOREM BuiltFromText == Spec => []BuiltAsAsked
PROOF
<1>1. IInv => BuiltAsAsked
  BY DEF IInv, Follows, BuiltAsAsked
<1> QED
  BY InvariantHolds, <1>1, PTL

\* No conversion makes an object that the v1beta2 schema refuses.
THEOREM AlwaysAdmissible == Spec => []Admissible
PROOF
<1>1. IInv => Admissible
  <2> SUFFICES ASSUME IInv, NEW k \in Kinds, Exists(k) PROVE Admitted(k, Hub(k))
    BY DEF Admissible
  <2>1. PICK a \in Authored : Good(k, Hub(k), a)
    BY DEF IInv, Follows
  <2>2. \A c \in ConditionType : c.reason # ""
    BY DEF ConditionType
  <2>3. k # "template" => Hub(k).status.conditions \subseteq ConditionType
    <3>1. CASE k = "cluster"
      BY <2>1, <3>1 DEF Good, Clusters, ClusterStatuses
    <3>2. CASE k = "machine"
      BY <2>1, <3>2 DEF Good, Machines, MachineStatuses
    <3>3. CASE k = "loadbalancer"
      BY <2>1, <3>3 DEF Good, LoadBalancers, LoadBalancerStatuses
    <3>4. CASE k = "vm"
      BY <2>1, <3>4 DEF Good, VMs, VMStatuses
    <3> QED
      BY <3>1, <3>2, <3>3, <3>4 DEF Kinds
  <2> QED
    BY <2>2, <2>3 DEF Admitted
<1> QED
  BY InvariantHolds, <1>1, PTL

\* Clients of both versions agree on whether a machine is ready.
THEOREM ReadyAlwaysAgrees == Spec => []ReadyAgrees
PROOF
<1>1. IInv => ReadyAgrees
  <2> SUFFICES ASSUME IInv, Exists("machine")
               PROVE  Status("machine").ready <=> Status("machine").initialization = Provisioned
    BY DEF ReadyAgrees
  <2>1. PICK a \in Authored : Good("machine", Hub("machine"), a)
    BY DEF IInv, Follows, Kinds
  <2>2. Status("machine") \in MachineStatuses
    BY <2>1 DEF Good, Machines, Status
  <2> QED
    BY <2>2, Zenon DEF MachineStatuses
<1> QED
  BY InvariantHolds, <1>1, PTL

-----------------------------------------------------------------------------
(* What a step does to the status of one object.                            *)

\* A write is what is read next, and touches no other object.
LEMMA StoreView ==
  ASSUME NEW k \in Kinds, NEW o, DOMAIN store = Kinds
  PROVE  /\ HubOf(Store(k, o), k) = o
         /\ \A j \in Kinds : j # k => Store(k, o)[j] = store[j]
         /\ DOMAIN Store(k, o) = Kinds
PROOF
<1>1. Store(k, o)[k] = {[version |-> "v1beta2", object |-> o]}
  BY DEF Store
<1>2. HubOf(Store(k, o), k) = o
  BY <1>1, HubWritten
<1>3. /\ \A j \in Kinds : j # k => Store(k, o)[j] = store[j]
      /\ DOMAIN Store(k, o) = Kinds
  BY DEF Store
<1> QED
  BY <1>2, <1>3

\* The same for a write that is left out if it changes nothing.
LEMMA UpdateView ==
  ASSUME NEW S, NEW k \in Kinds, NEW o, DOMAIN S = Kinds
  PROVE  /\ S[k] = store[k] => HubOf(Update(S, k, o), k) = o
         /\ \A j \in Kinds : j # k => Update(S, k, o)[j] = S[j]
         /\ DOMAIN Update(S, k, o) = Kinds
PROOF
<1>1. \/ Update(S, k, o)[k] = {[version |-> "v1beta2", object |-> o]}
      \/ Update(S, k, o) = S /\ o = Hub(k)
  BY DEF Update
<1>2. ASSUME S[k] = store[k], Update(S, k, o) = S, o = Hub(k)
      PROVE  HubOf(Update(S, k, o), k) = o
  <2>1. HubOf(S, k) = HubOf(store, k)
    BY <1>2 DEF HubOf
  <2> QED
    BY <1>2, <2>1, HubView
<1>3. S[k] = store[k] => HubOf(Update(S, k, o), k) = o
  BY <1>1, <1>2, HubWritten, Zenon
<1>4. /\ \A j \in Kinds : j # k => Update(S, k, o)[j] = S[j]
      /\ DOMAIN Update(S, k, o) = Kinds
  BY DEF Update
<1> QED
  BY <1>3, <1>4

\* An object that is not written reads as before.
LEMMA Untouched ==
  ASSUME NEW k, store'[k] = store[k]
  PROVE  Hub(k)' = Hub(k)
PROOF
<1>1. HubOf(store', k) = HubOf(store, k)
  BY DEF HubOf
<1> QED
  BY <1>1, HubView

\* A client writes back what it read, after the conversions to its version and back.
LEMMA ClientWriteReturns ==
  ASSUME Shape, NEW kind \in Kinds, NEW version \in Versions, ClientWrite(kind, version)
  PROVE  /\ Exists(kind)
         /\ \A j \in Kinds : j # kind => store'[j] = store[j]
         /\ \/ Hub(kind)' = Hub(kind)
            \/ Hub(kind)' = ConvertTo(kind, ConvertFrom(kind, Hub(kind)))
PROOF
<1> DEFINE o == IF version = "v1beta2" THEN Hub(kind) ELSE ConvertTo(kind, Read(kind, version))
<1>1. Exists(kind) /\ store' = Store(kind, o)
  BY DEF ClientWrite
<1>2. o = Hub(kind) \/ o = ConvertTo(kind, ConvertFrom(kind, Hub(kind)))
  <2>1. CASE version = "v1beta2"
    BY <2>1
  <2>2. CASE version # "v1beta2"
    <3>1. o = ConvertTo(kind, Read(kind, version))
      BY <2>2
    <3> HIDE DEF o
    <3> QED
      BY <1>1, <2>2, <3>1, ReadOld
  <2> QED
    BY <2>1, <2>2
<1> HIDE DEF o
<1>3. DOMAIN store = Kinds
  BY DEF Shape
<1>4. HubOf(store', kind) = o /\ \A j \in Kinds : j # kind => store'[j] = store[j]
  BY <1>1, <1>3, StoreView, Zenon
<1>5. Hub(kind)' = o
  BY <1>4, HubView, Zenon
<1> QED
  BY <1>1, <1>2, <1>4, <1>5

\* The machine controller's write of the machine.
LEMMA MachineMerged ==
  ASSUME NEW a \in Authored, Shape, Follows(a), ReconcileMachine
  PROVE  /\ Status("machine").ready => Hub("machine")'.status.ready
         /\ store'["cluster"] = store["cluster"]
PROOF
<1> DEFINE old == IF Exists("vm") THEN Hub("vm") ELSE NoVM
           machine == Hub("machine")
           vm == [old EXCEPT !.spec = MachineVMSpec(machine.spec, old.spec)]
           merged == [machine EXCEPT !.status = Merge(@, old.status)]
<1>1. Exists("machine") /\ store' = Update(Update(store, "vm", vm), "machine", merged)
  BY DEF ReconcileMachine
<1>2. /\ DOMAIN store = Kinds /\ "vm" \in Kinds /\ "machine" \in Kinds /\ "cluster" \in Kinds
      /\ "vm" # "machine" /\ "vm" # "cluster" /\ "machine" # "cluster"
  BY DEF Shape, Kinds
<1>3. machine.status \in MachineStatuses
      /\ machine = [spec |-> machine.spec, status |-> machine.status]
  BY <1>1, <1>2 DEF Follows, Good, Machines
<1>4. old.status \in VMStatuses
  <2>1. CASE Exists("vm")
    <3>1. Hub("vm") \in VMs
      BY <1>2, <2>1 DEF Follows, Good
    <3> QED
      BY <2>1, <3>1 DEF VMs
  <2>2. CASE ~Exists("vm")
    BY <2>2, NoVMTyped
  <2> QED
    BY <2>1, <2>2
<1>5. Status("machine") = machine.status
  BY DEF Status
<1> HIDE DEF old, machine
<1>6. machine.status.ready => Merge(machine.status, old.status).ready
  BY <1>3, <1>4, MergeTyped
<1>7. merged.status = Merge(machine.status, old.status)
  BY <1>3
<1> HIDE DEF vm, merged
<1> DEFINE S == Update(store, "vm", vm)
<1>8. DOMAIN S = Kinds /\ S["machine"] = store["machine"] /\ S["cluster"] = store["cluster"]
  BY <1>2, UpdateView
<1>9. store' = Update(S, "machine", merged)
  BY <1>1
<1> HIDE DEF S
<1>10. HubOf(store', "machine") = merged /\ store'["cluster"] = S["cluster"]
  <2>1. /\ HubOf(Update(S, "machine", merged), "machine") = merged
        /\ Update(S, "machine", merged)["cluster"] = S["cluster"]
    BY <1>2, <1>8, UpdateView
  <2> QED
    BY <1>9, <2>1
<1> QED
  BY <1>5, <1>6, <1>7, <1>8, <1>10, HubView

\* The other controllers write neither the machine nor, but for the cluster controller's
\* patches, the cluster.
LEMMA OthersKeep ==
  ASSUME Shape
  PROVE  /\ ReconcileCluster \/ ReconcileLoadBalancer \/ ReconcileVM \/ FailVM \/ LoseVM =>
              store'["machine"] = store["machine"] /\ store'["cluster"] = store["cluster"]
         /\ PatchWaiting \/ PatchConditions \/ PatchStatus => store'["machine"] = store["machine"]
PROOF
<1>1. /\ DOMAIN store = Kinds
      /\ {"machine", "cluster", "loadbalancer", "vm"} \subseteq Kinds
      /\ "loadbalancer" # "machine" /\ "loadbalancer" # "cluster"
      /\ "vm" # "machine" /\ "vm" # "cluster" /\ "cluster" # "machine"
  BY DEF Shape, Kinds
<1>2. ASSUME NEW S, DOMAIN S = Kinds, NEW k \in {"loadbalancer", "vm"}, NEW o
      PROVE  /\ DOMAIN Update(S, k, o) = Kinds
             /\ Update(S, k, o)["machine"] = S["machine"]
             /\ Update(S, k, o)["cluster"] = S["cluster"]
             /\ DOMAIN Store(k, o) = Kinds
             /\ Store(k, o)["machine"] = store["machine"]
             /\ Store(k, o)["cluster"] = store["cluster"]
  <2>1. k \in Kinds /\ "machine" # k /\ "cluster" # k
    BY <1>1, <1>2
  <2>2. DOMAIN Update(S, k, o) = Kinds /\ \A j \in Kinds : j # k => Update(S, k, o)[j] = S[j]
    BY <1>2 DEF Update
  <2>3. DOMAIN Store(k, o) = Kinds /\ \A j \in Kinds : j # k => Store(k, o)[j] = store[j]
    BY <1>1 DEF Store
  <2> QED
    BY <1>1, <2>1, <2>2, <2>3
<1>3. CASE ReconcileCluster
  <2>1. store' = store \/ \E o : store' = Update(store, "loadbalancer", o)
    BY <1>3 DEF ReconcileCluster
  <2>2. ASSUME NEW o
        PROVE  /\ Update(store, "loadbalancer", o)["machine"] = store["machine"]
               /\ Update(store, "loadbalancer", o)["cluster"] = store["cluster"]
    BY <1>1, <1>2
  <2> QED
    BY <2>1, <2>2
<1>4. CASE ReconcileLoadBalancer
  <2>1. PICK v, o : store' = Update(IF Exists("vm") THEN store ELSE Store("vm", v),
                                    "loadbalancer", o)
    BY <1>4 DEF ReconcileLoadBalancer
  <2> DEFINE S == IF Exists("vm") THEN store ELSE Store("vm", v)
  <2>2. DOMAIN S = Kinds /\ S["machine"] = store["machine"] /\ S["cluster"] = store["cluster"]
    BY <1>1, <1>2
  <2>3. store' = Update(S, "loadbalancer", o)
    BY <2>1
  <2> HIDE DEF S
  <2> QED
    BY <1>2, <2>2, <2>3
<1>5. CASE ReconcileVM \/ FailVM \/ LoseVM
  <2>1. store' = store \/ \E o : store' = Update(store, "vm", o)
    BY <1>5 DEF ReconcileVM, FailVM, LoseVM
  <2> QED
    <3>1. ASSUME NEW o
          PROVE  /\ Update(store, "vm", o)["machine"] = store["machine"]
                 /\ Update(store, "vm", o)["cluster"] = store["cluster"]
      BY <1>1, <1>2
    <3> QED
      BY <2>1, <3>1
<1>6. ASSUME PatchWaiting \/ PatchConditions \/ PatchStatus
      PROVE  store'["machine"] = store["machine"]
  <2>1. ASSUME NEW o, Patch(o)
        PROVE  store' = store \/ store' = Update(store, "cluster", o)
    BY <2>1 DEF Patch
  <2>2. \E o : Patch(o)
    BY <1>6, Zenon DEF PatchWaiting, PatchConditions, PatchStatus
  <2>3. ASSUME NEW o
        PROVE  Update(store, "cluster", o)["machine"] = store["machine"]
    BY <1>1 DEF Update
  <2> QED
    BY <2>1, <2>2, <2>3
<1>7. ReconcileCluster \/ ReconcileLoadBalancer \/ ReconcileVM \/ FailVM \/ LoseVM =>
        store'["machine"] = store["machine"] /\ store'["cluster"] = store["cluster"]
  BY <1>3, <1>4, <1>5
<1> QED
  BY <1>6, <1>7

\* A patch of the cluster keeps the flag that says it is provisioned.
LEMMA PatchesKeepProvisioned ==
  ASSUME NEW a \in Authored, Shape, Follows(a), PatchWaiting \/ PatchConditions \/ PatchStatus,
         ClusterProvisioned
  PROVE  Hub("cluster")'.status.initialization = Provisioned
PROOF
<1> DEFINE h == Hub("cluster")
<1>1. "cluster" \in Kinds /\ DOMAIN store = Kinds
  BY DEF Kinds, Shape
<1>2. h \in Clusters
  BY <1>1 DEF Shape, Follows, Good
<1>3. h.status.initialization = Provisioned
  BY DEF ClusterProvisioned, Status
<1> HIDE DEF h
<1>4. \/ store' = store
      \/ \E C : store' = Update(store, "cluster", [h EXCEPT !.status.conditions = C])
      \/ store' = Update(store, "cluster", h)
      \/ store' = Update(store, "cluster", [h EXCEPT !.status.initialization = Provisioned])
  BY DEF PatchWaiting, PatchConditions, PatchStatus, Patch, h
<1>5. \A o : store' = Update(store, "cluster", o) => Hub("cluster")' = o
  <2>1. ASSUME NEW o
        PROVE  HubOf(Update(store, "cluster", o), "cluster") = o
    <3> DEFINE S == store
    <3>1. DOMAIN S = Kinds /\ S["cluster"] = store["cluster"]
      BY <1>1
    <3> HIDE DEF S
    <3>2. HubOf(Update(S, "cluster", o), "cluster") = o
      BY <1>1, <3>1, UpdateView
    <3> QED
      BY <3>2 DEF S
  <2> QED
    BY <2>1, HubView
<1>6. CASE store' = store
  BY <1>3, <1>6, Untouched DEF h
<1>7. ASSUME NEW C, store' = Update(store, "cluster", [h EXCEPT !.status.conditions = C])
      PROVE  Hub("cluster")'.status.initialization = Provisioned
  <2>1. [h EXCEPT !.status.conditions = C].status.initialization = h.status.initialization
    BY <1>2 DEF Clusters, ClusterStatuses
  <2> QED
    BY <1>3, <1>5, <1>7, <2>1
<1>8. CASE store' = Update(store, "cluster", h)
  BY <1>3, <1>5, <1>8
<1>9. CASE store' = Update(store, "cluster", [h EXCEPT !.status.initialization = Provisioned])
  <2>1. [h EXCEPT !.status.initialization = Provisioned].status.initialization = Provisioned
    BY <1>2 DEF Clusters, ClusterStatuses
  <2> QED
    BY <1>5, <1>9, <2>1
<1> QED
  BY <1>4, <1>6, <1>7, <1>8, <1>9

-----------------------------------------------------------------------------
(* Theorems on what a step may do.                                          *)

\* No writer in either version, and no controller, takes back that the machine is ready.
THEOREM ReadyNeverLost == Spec => ReadyKept
PROOF
<1>1. IInv /\ [Next]_vars =>
        [Exists("machine") /\ Status("machine").ready => Status("machine")'.ready]_vars
  <2> SUFFICES ASSUME IInv, Next, Exists("machine"), Status("machine").ready
               PROVE  Hub("machine")'.status.ready
    BY DEF Status
  <2>1. Shape /\ "machine" \in Kinds /\ Hub("machine").status.ready
    BY DEF IInv, Kinds, Status
  <2>2. PICK a \in Authored : Follows(a)
    BY DEF IInv
  <2>3. store'["machine"] = store["machine"] => Hub("machine")'.status.ready
    BY <2>1, Untouched
  <2>4. ASSUME NEW kind \in Kinds, NEW version \in Versions, ClientWrite(kind, version)
        PROVE  Hub("machine")'.status.ready
    <3>1. CASE kind = "machine"
      <4>1. Hub("machine") \in Machines
        BY <2>1, <2>2 DEF Follows, Good
      <4>2. ConvertTo("machine", ConvertFrom("machine", Hub("machine"))).status.ready
              = Hub("machine").status.ready
        BY <4>1, ObjectsReturn
      <4>3. \/ Hub("machine")' = Hub("machine")
            \/ Hub("machine")' = ConvertTo("machine", ConvertFrom("machine", Hub("machine")))
        BY <2>1, <2>4, <3>1, ClientWriteReturns
      <4> QED
        BY <2>1, <4>2, <4>3
    <3>2. CASE kind # "machine"
      BY <2>1, <2>3, <2>4, <3>2, ClientWriteReturns
    <3> QED
      BY <3>1, <3>2
  <2>5. \A version \in Versions : ~Clone(version)
    BY DEF Clone
  <2>6. ReconcileMachine => Hub("machine")'.status.ready
    BY <2>1, <2>2, MachineMerged
  <2> QED
    BY <2>1, <2>3, <2>4, <2>5, <2>6, OthersKeep DEF Next
<1> QED
  BY InvariantHolds, <1>1, PTL DEF Spec, ReadyKept

\* A cluster that has the condition Ready stays provisioned, although v1beta1 has no field
\* for it: the conversion back derives it from the condition, which is never false.
THEOREM ProvisionedWhileReady == Spec => ProvisionedFollowsReady
PROOF
<1>1. IInv /\ [Next]_vars =>
        [ClusterProvisioned /\ ~ClusterProvisioned' =>
           \A c \in Status("cluster").conditions : c.type # "Ready"]_vars
  <2> SUFFICES ASSUME IInv, Next, ClusterProvisioned,
                      NEW c \in Status("cluster").conditions, c.type = "Ready"
               PROVE  ClusterProvisioned'
    OBVIOUS
  <2>1. /\ Shape /\ "cluster" \in Kinds /\ Exists("cluster")
        /\ Hub("cluster").status.initialization = Provisioned
        /\ c \in Hub("cluster").status.conditions
    BY DEF IInv, Shape, Kinds, ClusterProvisioned, Status
  <2>2. PICK a \in Authored : Follows(a)
    BY DEF IInv
  <2>3. Hub("cluster")'.status.initialization = Provisioned => ClusterProvisioned'
    BY DEF ClusterProvisioned, Status
  <2>4. store'["cluster"] = store["cluster"] => ClusterProvisioned'
    BY <2>1, <2>3, Untouched
  <2>5. ASSUME NEW kind \in Kinds, NEW version \in Versions, ClientWrite(kind, version)
        PROVE  ClusterProvisioned'
    <3>1. CASE kind = "cluster"
      <4>1. Hub("cluster") \in Clusters /\ c.status = "True"
        BY <2>1, <2>2 DEF Follows, Good
      <4>2. ConvertTo("cluster", ConvertFrom("cluster", Hub("cluster"))).status.initialization
              = Provisioned
        BY <2>1, <4>1, ObjectsReturn
      <4>3. \/ Hub("cluster")' = Hub("cluster")
            \/ Hub("cluster")' = ConvertTo("cluster", ConvertFrom("cluster", Hub("cluster")))
        BY <2>1, <2>5, <3>1, ClientWriteReturns
      <4> QED
        BY <2>1, <2>3, <4>2, <4>3
    <3>2. CASE kind # "cluster"
      BY <2>1, <2>4, <2>5, <3>2, ClientWriteReturns
    <3> QED
      BY <3>1, <3>2
  <2>6. ASSUME NEW version \in Versions, Clone(version)
        PROVE  ClusterProvisioned'
    <3>1. PICK o : store' = Store("machine", o)
      BY <2>6 DEF Clone
    <3>2. DOMAIN store = Kinds /\ "machine" \in Kinds /\ "cluster" # "machine"
      BY <2>1 DEF Shape, Kinds
    <3> QED
      BY <2>1, <2>4, <3>1, <3>2, StoreView, Zenon
  <2>7. ReconcileMachine => ClusterProvisioned'
    BY <2>1, <2>2, <2>4, MachineMerged
  <2>8. PatchWaiting \/ PatchConditions \/ PatchStatus => ClusterProvisioned'
    BY <2>1, <2>2, <2>3, PatchesKeepProvisioned
  <2> QED
    BY <2>1, <2>4, <2>5, <2>6, <2>7, <2>8, OthersKeep DEF Next
<1> QED
  BY InvariantHolds, <1>1, PTL DEF Spec, ProvisionedFollowsReady
=============================================================================
