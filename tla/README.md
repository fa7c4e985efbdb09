# A TLA+ model of cluster-api-provider-azurestackhci

This directory models the controllers of the Cluster API provider for Azure
Stack HCI, the conversion of their objects between two API versions, and their
login to MOC. It says what they promise about the resources they make and about
the status they publish. TLC checks the modules on small instances. TLAPS proves
every safety property of the passing runs, of the controllers, the login and the
conversions, for all values of the constants that meet the conditions named below.

## The system

The manager (`cmd/manager/main.go`) runs four controllers. Each reconciles one
kind of API object and writes to the Kubernetes API server, to MOC (the cloud
agent of Azure Stack HCI), or to both.

| Controller | Makes | Waits for |
|---|---|---|
| AzureStackHCICluster | network, group and key vault in MOC; one AzureStackHCILoadBalancer | the load balancer's condition; on deletion the machines, then the load balancer |
| AzureStackHCILoadBalancer | replica AzureStackHCIVirtualMachines; the service in MOC | ready replicas, as MOC counts them, and an address |
| AzureStackHCIMachine | one AzureStackHCIVirtualMachine of the same name | the cluster, the bootstrap secret, the VM's state |
| AzureStackHCIVirtualMachine | NIC, OS disk and machine in MOC | MOC |

Two more parts serve all of them. The conversion webhooks (`api/v1beta1`)
translate whole objects, status included, between v1beta1 and v1beta2, whenever a
client names the version in which an object is not stored. `pkg/auth` gives
every reconcile an authorizer for MOC; reconciles run concurrently and share one
session file.

Five facts about this environment make the code hard to get right.

* **Reads are stale.** `mgr.GetClient()` reads from an informer cache per kind.
  A cache lags, never skips a version and never goes back. Two caches lag
  independently.
* **Writes are differences.** Every scope uses `patch.Helper`. It copies the
  object once and sends what changed since then, as up to three requests
  (conditions, object, status). Each request can fail on its own. Only the
  request for the conditions carries a version.
* **A call may fail after it took effect.** This holds for MOC and for the API
  server.
* **The manager may stop anywhere.** It lists everything again when it starts.
* **Two versions are in use.** What one version cannot say is derived from
  something else when the object comes back from it.

Reconciles of one key never overlap, so each controller is one sequential
process. Its program counter (`pc`) is the next call that leaves the process.
Code between two calls touches only memory and belongs to the action of one of
them.

## Modules

| Module | Models | Source |
|---|---|---|
| `Informer` | a kind of object as a window of versions, cached (first) to stored (last) | external: controller-runtime's cache |
| `PatchHelper` | what a patch sends and does to finalizers | external: `patch.Helper` |
| `FinalizedResource` | the abstract promise of a finalizer | the pattern all four controllers follow |
| `VirtualMachine` | the virtual machine controller with its MOC services | `controllers/azurestackhcivirtualmachine_*.go`, `cloud/services/{virtualmachines,networkinterfaces,disks}` |
| `LoadBalancer` | scaling, rolling upgrade, service, deletion, phase | `controllers/azurestackhciloadbalancer_*.go`, `cloud/services/loadbalancers` |
| `Machine` | the machine controller with its workqueue | `controllers/azurestackhcimachine_controller.go` |
| `Cluster` | infrastructure, endpoint and teardown | `controllers/azurestackhcicluster_*.go`, `cloud/services/{groups,keyvaults,virtualnetworks}`, `pkg/util` |
| `Conversion` | the conversions of the five deployed kinds in both directions, as operators | `api/v1beta1/*conversion*.go`, `api/v1beta1/zz_generated.conversion.go` |
| `Upgrade` | the provider after the upgrade to v1beta2: stored objects of both versions, clients of both, the four controllers, and what a machine in MOC is made of | the controllers, `cloud/defaults.go`, `cloud/services/virtualmachines` |
| `MCUpgrade` | the texts and statuses from which `Upgrade` starts under TLC | |
| `Login` | `pkg/auth` with concurrent reconciles | `pkg/auth/auth.go` |
| `InformerProofs` | lemmas about windows | |
| `VirtualMachineProofs`, `LoadBalancerProofs`, `MachineProofs`, `ClusterProofs`, `UpgradeProofs`, `LoginProofs` | theorems about the module they are named after | |
| `ScalingProofs` | theorems about the number of machines and the rolling upgrade of `LoadBalancer` | |

`PROJECT.json` maps every definition to its lines.

### How state and actions correspond to the code

* `before` is the copy in the patch helper. `after` is the object that the
  running reconcile changes. `PatchFinalizer` is the early
  `scope.PatchObject()`, `Close` the deferred one.
* `meta` folds existence, finalizer and deletion timestamp into absent, new
  (no finalizer), held (finalizer) and deleting. A local copy from which
  the controller took the finalizer is released.
* A condition is `none` (absent), `True`, or the reason for which it is False.
  Absent and False are kept apart because `conditions.IsFalse` does so.
* What MOC holds is a set (`VirtualMachine`), a state of the service
  (`LoadBalancer`), or a tag per resource (`Cluster`).
* A controller that another module models in full is reduced, in the module of
  its neighbour, to the steps the neighbour can see. `Machine` has the steps of
  the VM controller (`VMHolds`, `VMRuns`, `VMFails`, `VMGone`), `LoadBalancer`
  those of its machines, `Cluster` those of its load balancer and machines.
* `Machine` has an explicit workqueue (`queued`), because one of its properties
  is about which events reach it. The other modules let a reconcile start at
  any time, which includes every event, retry and resync.
* Specifications, names and versions are members of small sets. Replica
  machines are numbered in the order of their creation timestamps.
* `converters.SDKToVM` reports every machine as Succeeded, so the branches for
  failed, updating and pending machines cannot be reached. `VirtualMachine`
  keeps the switch of `reconcileNormal` and notes the dead branches.
* A read from a cache has no failure but NotFound, which staleness gives as well as
  absence.
* `Conversion` and `Upgrade` have objects as records with the fields that a
  conversion changes or that reach MOC. A pointer is a set of at most one value
  (`Nil` is empty), so that a nil pointer and a pointer to an empty value differ.
  `store` holds each object with the version it is stored in; `Read` converts.
  `ConvertTo` and `ConvertFrom` are the webhook. `asked` is a history variable:
  what the author's text asks MOC for, computed once from the text. `moc` is what
  the machine in MOC was made of.
* In `Upgrade` a reconcile of the machine, load balancer and VM controllers is one
  step; their own modules have the calls. The cluster controller keeps its requests
  apart there, because a client may write between the conditions and the flag.
* In `Login` each worker is a reconcile inside `ReconcileAzureStackHCIAccess`. `pc`
  is its next call and `mutex` is `mut`. The session file is absent, partial (being
  written), torn (its writer was stopped), valid or expired. It is in an emptyDir
  volume: a restarted container finds it, a new pod does not. `updates` are the
  goroutines that run `UpdateLoginConfig` without the lock.

## Runs

Every property is stated with a comment at its definition. Each property of a
passing run has at least one mutant, an operator marked `Mutant:` that stands for
a plausible bug in the code it replaces; with it TLC finds the property violated.

### Runs that pass

| Run | Question | Bounds | Distinct states |
|---|---|---|---|
| `VirtualMachine` | Is anything orphaned, is a machine ever without NIC or disk, does the status run ahead of MOC, is the condition of a past failure taken back, is the finalizer protocol implemented, and does the object end gone or provisioned? | cache 3 versions behind, 3 faults, 2 incarnations of the object, two classes of errors | 161,836 |
| `LoadBalancer` | Do edits of count and version in any order respect the surge, the readiness of replacements and the floor? | counts 1 and 2, two versions, 2 edits, 4 machines, fresh caches | 777,736 |
| `LoadBalancerFaults` | Do the surge, Ready and the finalizer protocol survive failures, and does the load balancer settle in what was asked for? | counts 0 and 1, two versions, 1 fault, 1 machine failure, 1 edit, 4 machines | 297,838 |
| `LoadBalancerStale` | Do Ready and the finalizer protocol survive stale caches, and does the load balancer settle, with the machines that its deletion did not see? | both caches 1 behind, count 1, 1 edit, 2 machines | 494,980 |
| `Machine` | Is Ready backed by the VM object, and does the machine converge? | machines 2 behind, VM objects 1 behind, 2 specifications, 1 edit, 1 fault, 1 failure, 1 foreign delete | 1,145,140 |
| `Cluster` | Does the teardown keep its order, does the finalizer protocol hold, and does the cluster converge? | fresh caches, 2 specifications, 1 machine, 1 edit, 1 fault, 1 report of not ready | 320,632 |
| `ClusterStale` | Is the endpoint backed, and does the protocol hold? | cluster 2 behind, load balancer and machines 1 behind, with and without a load balancer | 4,036,082 |
| `Upgrade` | Does MOC get what the author of a text asked for, do conversions keep objects writable and ready, and does everything the old release left end provisioned? | 14 texts of both versions, 3 old statuses, 2 client writes, 1 fault, 1 machine failure | 87,162 |
| `Login` | Is there one login for all that find the session missing or expired, is the mutex always given back, and does everybody recover? | 2 workers, 2 configurations, 1 fault or restart, 1 expiry, 1 rotation | 88,189 |

Why the bounds are enough. Two incarnations with a cache three versions behind
let a reconcile act on an object that was deleted, released and created again
under the same name. One fault reaches every error path; two and three let the
error path of a retry fail too. Two edits let a second upgrade or scaling
interrupt the first. Four machines are the two replicas, the surge and one
replacement more; when the names are used up a create is refused by the server,
so the bound is an error path and not a dead end. The machine of `Cluster` may be
owned or an orphan, and may come and go at any step of a teardown. In `Upgrade`
two writes are a conversion there and back, or one on each side of a reconcile;
the texts have an image by publisher, by identifier, from a gallery, by OS type
alone and none, with and without zone, disk and interfaces. In `Login` the second
worker is the one that waits for the lock, and one expiry with one rotation lets
a login use a configuration that was replaced.

### Runs that show a disagreement

Each checks one sentence of a comment against what the code does. `PROJECT.json`
quotes the lines.

| Run | What TLC finds |
|---|---|
| `LoadBalancerFailedMachine` | A machine that fails during an upgrade overwrites the reason Upgrading. The surge machine is then one too many, and a machine is deleted before its replacement serves. |
| `ClusterVnet` | The network tagged CAPH is skipped by the deletion, and outlives the cluster. |
| `ClusterProvisioned` | A new load balancer has no condition, which counts as not False, and the cluster is provisioned without an endpoint. |

### Limits of the passing runs

Some promises hold only under a condition. Most are a constant of a run, so
the limit can be seen by changing one value:

| Property | Change | What happens |
|---|---|---|
| `ReadyReset` | ask that Ready is never False while VMRunning is true, with `MaxLag = 1`, `MaxFaults = 6` in `VirtualMachine` | a patch from an outdated copy changes one of the two conditions and not the other; a later reconcile repairs it |
| `ReplacesOnlyWhenReady` | `LbLag = 1` in `LoadBalancer` | a copy that has not yet seen the reason Upgrading takes the surge machine for a scale-down |
| `ReplacesOnlyWhenReady` | `MaxFaults = 1` in `LoadBalancer` | the manager stops after it made the surge machine and before the final patch with the reason Upgrading; the next reconcile takes the machine for a scale-down |
| `ReplacesOnlyWhenReady` | `MaxVMFailures = 1` in `LoadBalancer` | a failed machine overwrites the reason (the run `LoadBalancerFailedMachine`) |
| `SurgeBound` | `VmLag = 1` in `LoadBalancer` | a machine that the list does not show yet is created again under another random name |
| `ReplicaFloor` | `VmLag = 1` in `LoadBalancer` | a scale-down decided on an old list; the machine is created again |
| `TeardownOrder` | `LbLag = 1` or `MachineLag = 1` in `Cluster` | what was created a moment ago is not waited for |
| `TeardownOrder` | `SameName = FALSE` in `Cluster` | machines are listed by the name of the AzureStackHCICluster, but labelled with that of the Cluster |
| `Converges` | `LbSpecs = {"none", "s1"}` in `Cluster` | the load balancer's specification is removed; its deletion is then skipped but waited for, and the cluster is never gone |
| `Recovers` | drop `<>[](file # "torn")` in `Login` | a session file that was half written when the container stopped gives an error that is not an expiry; nobody logs in before the pod is replaced |
| `ProvisionedFollowsReady` | ask that Provisioned is never taken back | a cluster that the old release left ready without a condition Ready loses the flag in a v1beta1 write, and gets it again |
| `BuiltAsAsked` | texts with an image that has a name and no OS type | the conversion takes the image for empty, and the default one is used; both schemas require the OS type |

Three more observations have no property of their own. `VMIfExists` turns every
error into nil, so Create runs for a machine that exists but could not be read;
the Get in `createVirtualMachine` and the order of the deletion keep this
harmless (`NoOrphan`, `VMBacked`). The owner reference of a VM object names the
Machine while the watch looks for an AzureStackHCIMachine, so no VM event queues
the machine (`VMEventQueues`); it converges through requeue and resync. An image
that has an identifier but no name is replaced by the default image (`getVMImage`).

## Fairness

Safety runs assume none. The liveness runs assume weak fairness of

* the controller under study, in `Upgrade` of each controller. A reconcile that ends
  in an error or asks for it is queued again, and every object is resynchronised every
  SyncPeriod (`cmd/manager/main.go`, ten minutes);
* the watches, which deliver what they have;
* garbage collection, and the steps by which neighbouring controllers and MOC
  finish what they began: a machine that is tried again comes up or goes, and
  an address is assigned. In `Upgrade` also of Cluster API, which makes a machine
  from its template;
* in `Login`, each call and each update.

`Login` assumes strong fairness of `Lock`: the mutex is taken and given back again
and again by others, and Go's `sync.Mutex` hands it to a waiter that has waited for
more than a millisecond (its starvation mode).

Faults, edits, failures of machines, foreign deletions, writes of clients, expiries
and rotations are never fair and are bounded, so the properties say what happens
once these stop.

## Proofs

The theorems hold for every value of the constants: every lag of every cache and
every number of edits, faults, failures, machines and workers. Four of them name a
condition, because the code does not secure it; the limits above show that each
condition is needed.

| Module | Theorem | Statement |
|---|---|---|
| `VirtualMachineProofs` | `TypeCorrect` | `Spec => []TypeOK` |
| | `InvariantHolds` | `Spec => []InductiveInvariant` |
| | `NoOrphanHolds` | `Spec => []NoOrphan` |
| | `VMBackedHolds` | `Spec => []VMBacked` |
| | `ReadyHolds` | `Spec => []ReadyMeansProvisioned` |
| | `ReadyResetHolds` | `Spec => ReadyReset` |
| | `ImplementsFinalizerProtocol` | `Spec => FinalizerProtocol`, the refinement of `FinalizedResource` |
| `LoadBalancerProofs` | `InvariantHolds`, `TypeCorrect` | `Spec => []IInv`, `Spec => []TypeOK` |
| | `ReadyBacked` | `Spec => []ReadyHasService` |
| | `ImplementsFinalizerProtocol` | `Spec => FinalizerProtocol` |
| `ScalingProofs` | `SurgeBounded` | `Spec => []SurgeBound`, if `VmLag = 0` |
| | `FloorKept` | `Spec => ReplicaFloor`, if `VmLag = 0` |
| | `ReplacesWhenReady` | `Spec => []ReplacesOnlyWhenReady`, if `LbLag = 0`, `VmLag = 0`, `MaxFaults = 0` and `MaxVMFailures = 0` |
| `ClusterProofs` | `InvariantHolds`, `TypeCorrect` | `Spec => []IInv`, `Spec => []TypeOK` |
| | `EndpointHasLoadBalancer` | `Spec => []EndpointBacked` |
| | `TeardownInOrder` | `Spec => []TeardownOrder`, if `SameName`, `LbLag = 0` and `MachineLag = 0` |
| | `ImplementsFinalizerProtocol` | `Spec => FinalizerProtocol` |
| `MachineProofs` | `TypeCorrect` | `Spec => []TypeOK` |
| | `ReadyBacked` | `Spec => []ReadyMeansVMReady` |
| `UpgradeProofs` | `TypeCorrect` | `Spec => []TypeOK` |
| | `BuiltFromText` | `Spec => []BuiltAsAsked` |
| | `AlwaysAdmissible` | `Spec => []Admissible` |
| | `ReadyAlwaysAgrees` | `Spec => []ReadyAgrees` |
| | `ReadyNeverLost` | `Spec => ReadyKept` |
| | `ProvisionedWhileReady` | `Spec => ProvisionedFollowsReady` |
| `LoginProofs` | `TypeCorrect` | `Spec => []TypeOK` |
| | `LoginExclusive` | `Spec => []OneWriter` |
| | `LoginOnce` | `Spec => OneLogin` |

The assumptions say that the bounds are naturals (`BoundsAssumption`,
`LoadBalancerBounds`, `MachineBounds`, `ClusterBounds`, `UpgradeBounds`,
`LoginAssumption`), that the errors of MOC are classes which the code distinguishes
(`ErrorsAssumption`), that replica counts are naturals and `None` is neither a worker
nor a configuration. Those of `Upgrade` say what its inputs are:

* `Strings` is the set of strings; the theorems need only that it has the ones the
  provider writes itself (`OwnStrings`). TLC has the built-in `STRING`;
* `AuthoredTexts`: the texts have the types of their version, with an image and a disk
  that are either left out or not taken for left out by the conversion (`ImageKept`,
  `OSDiskKept`). The schemas require the OS type and the size, which is more. A cluster
  has a load balancer with an image;
* `OldStatuses`: the statuses that the old release left have the types of v1beta1, and
  its condition Ready was only ever marked true.

**The argument for a controller.** No property is inductive as it stands: a
reconcile works on a cached version that may be many versions old, and its patches
name neither uid nor version. Its safety comes from the cache never going back, and
each invariant states this for the versions in the window.

* In `VirtualMachine`, `WindowOrder` says what may follow what. If a held version
  is still to be seen, the stored object has its finalizer. After a deleting version
  comes no held one, since only this controller sets the finalizer and it has not
  yet seen the new incarnation. `DeletePath`: a reconcile that found a deletion
  timestamp has only such versions ahead, so what it deletes in MOC and the finalizer
  it takes off belong to the object it saw, or to nothing. `NormalPath`: a reconcile
  that found none is not overtaken by a release, and once it passed the finalizer
  step the stored object has the finalizer.
* In `LoadBalancer` and `Cluster`, `LifeOrder` and `Path` say the same of objects
  with one life. `ServiceGuarded` and `ResourcesGuarded` tie MOC to the finalizer.
  `AddressStays` and `EndpointStays` carry the properties about the status: before
  the deletion an address, once there, stays, so every copy that a patch is made
  from agrees with what it was derived from, however old it is. `Cluster` also needs
  `AddressHeld`: a load balancer with an address has its finalizer, so it is
  neither gone nor released. `LoadBalancer` also needs
  `SelectionExists`: there is a machine to choose when one is to be taken away.
* In `Machine`, `DeletionKnown` says that a copy of a deleted machine is no newer
  than the stored one, and `ReadyStays` that before the deletion, and unless somebody
  else deletes it, the VM object stays and stays ready.

`ReadyReset` needs one fact more, `CopyAgrees`: the code between two calls never turns
conditions that agree into ones that do not, so only the distance between copy and
store can.

**The argument for the order of the teardown.** `OrderKept` carries the answer of each
query on: from the list of the machines on there is none, from the query of the load
balancer on it is gone. A fresh cache makes the answer true when it is given. It
stays true because machines are made only for a cluster that is not being deleted, and
the load balancer only by this controller, which is in the middle of the deletion.

**The argument for the replicas.** `CountInv` is `SurgeBound` with what a reconcile
knows between its count and its write. `Counted`: nobody else makes machines, so there
are at most as many as were counted; those that go only help, except in a scale-down,
where one is taken only while there are more than asked for. `Asked`: every copy and
every cached version of the load balancer has a count that somebody asked for, which
is why its own cache may lag. `UpgradeInv` is for `ReplacesOnlyWhenReady`. The one
record of an upgrade is the reason Upgrading in a condition. `Marked`: whenever there
is a machine more than any count, that reason is in the API server, or in the copy of
the running reconcile; `SurgeMarked`: it is in the copy before that machine is made;
`ConditionsOwn`: the final patch sends it. A reconcile that finds a machine too many
then finds the reason too and waits for the machines to be ready. A restart before
the final patch, a failed machine or a stale copy breaks `Marked`, and with it the property.

**The argument for the upgrade.** `IInv` says that one text is behind everything:
`Follows(a)` holds of some authored `a` when every stored object, read as v1beta2, has
the types of its kind, conditions that the schema admits, a `ready` that agrees with
`initialization`, and a specification from which MOC is asked for the same machine as
from the text, or for none (`Good`). That is weaker than being equal to the text: a
conversion there and back turns a zone with no fields into no zone, without which no
machine is made in a location with zones, and may change the managed disk, which does
not reach MOC (`Same`). The lemmas show that each conversion, in each direction, takes a good object
to a good one, and that what is read after a write is what was written or its round
trip; a step is then a case per writer. `ReadyKept` and `ProvisionedFollowsReady` compare
the two ends of a step with the same lemmas.

**The argument for the login.** `Rechecked`: from the recheck to the login the file
is not valid, since only the holder of the mutex makes it so. With `OneWriter` this
is inductive, and `OneLogin` follows for each step.

There is one lemma per group of actions. Lemmas on windows (`WrittenWindow`,
`TailWindow`, `RelistedWindow`, `PushedWindow`, in `InformerProofs`) and on patches
(`PatchedObject`, `PatchedMachine`, `PatchedCopy`) are shared by them. A refinement
then needs the invariant and a case per action. The invariants were checked by TLC on
the constants of the runs before they were proved.

Only model-checked is liveness (`Converges`, `Settles`, `Returns`, `Recovers`), which
needs fairness and ENABLED and is beyond the prover. The three disagreements are
counterexamples that TLC finds.

## Not modelled

* Conversions of cluster templates (no such kind is deployed) and of lists, which
  the webhook converts item by item; `Convert_Slice_*_Condition` and the generated
  functions that no conversion of a deployed kind calls.
* Volume attachments: only that the wait ends in every case.
* Names: functions that build strings; generated names are assumed unique.
* Disk sizes, keys and custom data of a machine, and the storage container of the
  load balancer: copied without a decision. `disks.Reconcile` is never called.
* Equal creation timestamps of replica machines: the order of the choice is then
  that of the names.
* `vippools`, `versions`, `health`: read-only queries on which no state depends.
* Telemetry, events, flags, metrics, webhook registration and deep copies.
* What MOC does with a create request for a group or network that exists but could
  not be read: the source calls groups immutable, and the model leaves them as they
  are.

## Plan

1. **Composition.** `Teardown`: cluster, load balancer and machine together, where
   a machine or load balancer whose AzureStackHCICluster is gone returns without
   doing anything and so may keep its finalizer. `Replicas`: `LoadBalancer` with
   the real VM controller in place of its abstraction, shown to implement it.
2. **Proofs.** How far `SurgeBound` and `ReplicaFloor` are missed with a list that is
   `VmLag` versions behind, as a bound in terms of `VmLag`.
3. **Sharper questions.** Whether `Settles` holds with both caches behind and two
   edits.
