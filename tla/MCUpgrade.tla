----------------------------- MODULE MCUpgrade ------------------------------
(***************************************************************************)
(* Upgrade for TLC: what users wrote and what the old release left.        *)
(***************************************************************************)
EXTENDS Upgrade

MCStrings == STRING

\* By publisher, by identifier, from a gallery, and no more than an OS type.  The schema
\* of both versions requires the OS type.
Published ==
  [id |-> Nil, publisher |-> {"p"}, name |-> {"i"}, gallery |-> Nil, version |-> {"1"},
   osType |-> "Linux"]

ByID ==
  [id |-> {"id"}, publisher |-> Nil, name |-> {"i"}, gallery |-> Nil, version |-> Nil,
   osType |-> "Windows"]

FromGallery ==
  [id |-> Nil, publisher |-> Nil, name |-> {"i"}, gallery |-> {"g"}, version |-> {"1"},
   osType |-> "Windows2022"]

OnlyOS == [ZeroImage EXCEPT !.osType = "Windows"]

Images == {Published, ByID, FromGallery, OnlyOS}

IP(name, primary) == [name |-> name, primary |-> primary]

NICs == <<[name |-> "n", ipConfigurations |-> <<IP("", FALSE), IP("a", TRUE)>>]>>

Disk == [name |-> "", size |-> 30, osType |-> "Linux", managedDisk |-> ""]

\* A machine in a location without zones with no more than an image, and one in a
\* location with zones that names its zone, a disk and interfaces.
Machines1 ==
  {[location |-> "", networkInterfaces |-> <<>>, zone |-> ZeroZone, image |-> i,
    osDisk |-> ZeroOSDisk] : i \in Images \cup {ZeroImage}} \cup
  {[location |-> "zoned", networkInterfaces |-> NICs,
    zone |-> [id |-> {"z"}, enabled |-> Nil], image |-> ByID, osDisk |-> Disk]}

Machines2 ==
  {[location |-> "", networkInterfaces |-> <<>>, zone |-> Nil, image |-> i,
    osDisk |-> Nil] : i \in {{j} : j \in Images} \cup {Nil}} \cup
  {[location |-> "zoned", networkInterfaces |-> NICs,
    zone |-> {[id |-> Nil, enabled |-> {FALSE}]}, image |-> {Published},
    osDisk |-> {[Disk EXCEPT !.managedDisk = Nil]}]}

ClusterWith(image) ==
  [location |-> "", controlPlaneEndpoint |-> [host |-> "h", port |-> 6443],
   loadBalancer |-> {[storageContainer |-> "s", image |-> image]}]

MCAuthored ==
  {[version |-> "v1beta1", kind |-> "template", spec |-> m] : m \in Machines1} \cup
  {[version |-> "v1beta2", kind |-> "template", spec |-> m] : m \in Machines2} \cup
  {[version |-> "v1beta1", kind |-> "cluster", spec |-> ClusterWith(Published)]} \cup
  {[version |-> "v1beta2", kind |-> "cluster", spec |-> ClusterWith({OnlyOS})]}

\* Not ready yet, or ready with or without a condition Ready.
MCOldStatus ==
  {[conditions |-> {}, ready |-> FALSE],
   [conditions |-> {OldTrue("NetworkInfrastructureReady")}, ready |-> TRUE],
   [conditions |-> {OldTrue("Ready")}, ready |-> TRUE]}
=============================================================================
