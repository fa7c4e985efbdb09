------------------------- MODULE LoadBalancerProofs -------------------------
(***************************************************************************)
(* Proofs about LoadBalancer, for every set of replica counts and versions *)
(* and every bound on the lag of the two caches, machines, edits, faults   *)
(* and failures.                                                           *)
(***************************************************************************)
EXTENDS LoadBalancer, InformerProofs, FiniteSetTheorems, WellFoundedInduction

-----------------------------------------------------------------------------
(* The inductive invariant.                                                 *)

\* The stored load balancer is being deleted, or it is gone.
Over == Stored(lb).meta \in {"deleting", "absent"}

\* The stored load balancer carries the finalizer.
Guarded == Stored(lb).meta \in {"held", "deleting"}

DeletePCs == {"deleteService", "deleteList", "deleteVMs"}
NormalPCs == {"list", "scaleUp", "surge", "scaleDown", "service", "status"}

\* The versions in the cache come in the order of a life: the finalizer is not taken off
\* before the deletion, and nothing comes back after it.
LifeOrder ==
  /\ \A i \in 1..Len(lb) : lb[i].meta \in {"deleting", "absent"} => Over
  /\ \A i \in 1..Len(lb) : lb[i].meta = "held" => Guarded
  /\ \A i, j \in 1..Len(lb) :
       i <= j /\ lb[i].meta = "deleting" => lb[j].meta \in {"deleting", "absent"}

\* Where the reconcile is tells what it copied and what is stored by now.
Path ==
  /\ before.meta = "deleting" \/ pc \in DeletePCs \/ after.meta \in {"deleting", "released"} =>
       /\ before.meta = "deleting"
       /\ \A i \in 1..Len(lb) : lb[i].meta \in {"deleting", "absent"}
  /\ pc \in DeletePCs => after.meta = "deleting"
  /\ pc \in NormalPCs \cup {"finalizer"} => after.meta = "held"
  /\ pc = "finalizer" /\ before.meta # "new" => before = after
  /\ pc \in NormalPCs => Guarded
  /\ before.meta = "held" => Guarded
  /\ pc \in {"deleteList", "deleteVMs"} \/ after.meta = "released" => service = "absent"
  /\ pc = "close" => after.meta \in {"held", "deleting", "released"}

\* There is a machine to take away when one is to be taken away.
SelectionExists == pc = "scaleDown" => after.replicas > 0 /\ Live(listed) # {}

\* Without the finalizer there is no service.
ServiceGuarded == service # "absent" => Guarded

\* Before the deletion an address, once published, is that of the service, and Ready
\* comes with it, in the stored object and in every copy that a patch is made from.
AddressStays ==
  ~Over =>
    /\ Stored(lb).address \/ after.address => service = "up"
    /\ Stored(lb).ready => Stored(lb).address
    /\ after.ready => after.address
    /\ before.address => Stored(lb).address /\ after.address
    /\ before.ready => before.address
    /\ \A i \in 1..Len(lb) : /\ lb[i].address => Stored(lb).address
                             /\ lb[i].ready => lb[i].address

IInv == TypeOK /\ SelectionExists /\ LifeOrder /\ Path /\ ServiceGuarded /\ AddressStays

-----------------------------------------------------------------------------
(* Copies of the load balancer.                                             *)

\* What the API server stores.
Kept == {o \in LoadBalancers : o.meta # "released"}

\* A copy keeps what the invariant is about.
SameCopy(o, p) ==
  /\ p \in LoadBalancers
  /\ p.meta = o.meta /\ p.address = o.address /\ p.ready = o.ready
  /\ p.replicas = o.replicas /\ p.desired = o.desired

\* The empty object is legal and claims nothing.
LEMMA EmptyObject ==
  /\ Absent \in Kept /\ Absent \in LoadBalancers /\ Kept \subseteq LoadBalancers
  /\ Absent.meta = "absent" /\ ~Absent.address /\ ~Absent.ready
PROOF
  BY DEF Absent, Kept, LoadBalancers, Phases

\* Setting a condition or the phase leaves the rest of a copy alone.
LEMMA ConditionCopies ==
  ASSUME NEW o \in LoadBalancers
  PROVE  /\ \A c \in {"none", "True"} \cup Reasons : SameCopy(o, [o EXCEPT !.replicasReady = c])
         /\ \A c \in {"none", "True", "False"} : SameCopy(o, [o EXCEPT !.infraReady = c])
         /\ \A c \in Phases : SameCopy(o, [o EXCEPT !.phase = c])
         /\ SameCopy(o, o)
PROOF
<1>1. \A c \in {"none", "True"} \cup Reasons : SameCopy(o, [o EXCEPT !.replicasReady = c])
  BY DEF SameCopy, LoadBalancers
<1>2. \A c \in {"none", "True", "False"} : SameCopy(o, [o EXCEPT !.infraReady = c])
  BY DEF SameCopy, LoadBalancers
<1>3. \A c \in Phases : SameCopy(o, [o EXCEPT !.phase = c])
  BY DEF SameCopy, LoadBalancers
<1>4. SameCopy(o, o)
  BY DEF SameCopy
<1> QED
  BY <1>1, <1>2, <1>3, <1>4

\* The decision about the replicas changes only a condition, and it asks for fewer
\* machines only if there are more than desired.
LEMMA ScaleCopies ==
  ASSUME NEW o \in LoadBalancers, NEW machines
  PROVE  /\ Scale(o, machines)[1] \in {"service", "scaleUp", "surge", "scaleDown"}
         /\ SameCopy(o, Scale(o, machines)[2])
         /\ Scale(o, machines)[1] = "scaleDown" => o.replicas > o.desired
PROOF
<1> DEFINE unready == o.readyReplicas < o.replicas
<1>r. {"Upgrading", "ScalingUp", "ScalingDown", "Waiting"} \subseteq Reasons
  BY DEF Reasons
<1>b. \A reason \in Reasons : SameCopy(o, Because(o, reason))
  BY ConditionCopies DEF Because
<1>1. CASE unready /\ (replicasAreUpgrading(o) \/ replicasAreScalingUp(o))
  BY <1>1, ConditionCopies DEF Scale
<1>2. CASE ~(unready /\ (replicasAreUpgrading(o) \/ replicasAreScalingUp(o)))
           /\ unready /\ ~isScaleDownRequired(o)
  BY <1>2, <1>r, ConditionCopies DEF Scale
<1>3. CASE /\ ~(unready /\ (replicasAreUpgrading(o) \/ replicasAreScalingUp(o)))
           /\ ~(unready /\ ~isScaleDownRequired(o))
  <2>1. CASE isScaleUpRequired(o)
    BY <1>3, <1>b, <1>r, <2>1 DEF Scale
  <2>2. CASE ~isScaleUpRequired(o) /\ isScaleDownRequired(o)
    BY <1>3, <1>b, <1>r, <2>2 DEF Scale, isScaleDownRequired
  <2>3. CASE ~isScaleUpRequired(o) /\ ~isScaleDownRequired(o) /\ isUpgradeRequired(o, machines)
    BY <1>3, <1>r, <2>3, ConditionCopies DEF Scale
  <2>4. CASE ~isScaleUpRequired(o) /\ ~isScaleDownRequired(o) /\ ~isUpgradeRequired(o, machines)
    <3> DEFINE c == IF IsFalse(o.replicasReady) THEN "True" ELSE o.replicasReady
    <3>1. c \in {"none", "True"} \cup Reasons
      BY DEF LoadBalancers
    <3>2. Scale(o, machines) = <<"service", [o EXCEPT !.replicasReady = c]>>
      BY <1>3, <2>4 DEF Scale
    <3> HIDE DEF c
    <3>3. SameCopy(o, [o EXCEPT !.replicasReady = c])
      BY <3>1, ConditionCopies
    <3> QED
      BY <3>2, <3>3
  <2> QED
    BY <2>1, <2>2, <2>3, <2>4
<1> QED
  BY <1>1, <1>2, <1>3

\* Ready is set only on a copy that has an address.
LEMMA SetReadyCopies ==
  ASSUME NEW o \in LoadBalancers
  PROVE  LET p == SetReady(o)
         IN  /\ p \in LoadBalancers /\ p.meta = o.meta /\ p.address = o.address
             /\ p.ready => o.ready \/ o.address
PROOF
<1>1. CASE ~o.address \/ (o.replicas # 0 /\ o.readyReplicas < 1)
  BY <1>1, ConditionCopies DEF SetReady, SameCopy
<1>2. CASE ~(~o.address \/ (o.replicas # 0 /\ o.readyReplicas < 1))
  <2> DEFINE c == IF IsFalse(o.infraReady) THEN "True" ELSE o.infraReady
  <2>1. c \in {"none", "True", "False"}
    BY DEF LoadBalancers
  <2>2. SetReady(o) = [o EXCEPT !.infraReady = c, !.ready = TRUE]
    BY <1>2 DEF SetReady
  <2> HIDE DEF c
  <2>3. /\ [o EXCEPT !.infraReady = c, !.ready = TRUE] \in LoadBalancers
        /\ [o EXCEPT !.infraReady = c, !.ready = TRUE].meta = o.meta
        /\ [o EXCEPT !.infraReady = c, !.ready = TRUE].address = o.address
    BY <2>1 DEF LoadBalancers
  <2> QED
    BY <1>2, <2>2, <2>3
<1> QED
  BY <1>1, <1>2

\* What a patch does to the stored load balancer: fields that the copy did not change
\* keep their stored value.
LEMMA PatchedCopy ==
  ASSUME NEW o \in Kept, Stored(lb) = o, before \in LoadBalancers, NEW copy \in LoadBalancers,
         NEW fields
  PROVE  LET p == Patched(copy, fields)
         IN  /\ p \in Kept
             /\ p.meta = IF "meta" \in fields /\ before.meta # copy.meta
                           THEN PatchedMeta(copy.meta, o.meta) ELSE o.meta
             /\ p.meta # "absent" =>
                  /\ p.address = IF "address" \in fields /\ before.address # copy.address
                                   THEN copy.address ELSE o.address
                  /\ p.ready = IF "ready" \in fields /\ before.ready # copy.ready
                                 THEN copy.ready ELSE o.ready
PROOF
<1> DEFINE m == Merged(o, before, copy, fields)
<1>1. DOMAIN o = {"meta", "desired", "version", "ready", "address", "replicas", "readyReplicas",
                  "replicasReady", "infraReady", "phase"}
  BY DEF Kept, LoadBalancers
<1>2. /\ m = [meta |-> m.meta, desired |-> m.desired, version |-> m.version, ready |-> m.ready,
              address |-> m.address, replicas |-> m.replicas, readyReplicas |-> m.readyReplicas,
              replicasReady |-> m.replicasReady, infraReady |-> m.infraReady, phase |-> m.phase]
      /\ m.meta = IF "meta" \in fields /\ before.meta # copy.meta
                    THEN PatchedMeta(copy.meta, o.meta) ELSE o.meta
      /\ m.address = IF "address" \in fields /\ before.address # copy.address
                       THEN copy.address ELSE o.address
      /\ m.ready = IF "ready" \in fields /\ before.ready # copy.ready THEN copy.ready ELSE o.ready
      /\ m.desired \in {o.desired, copy.desired} /\ m.version \in {o.version, copy.version}
      /\ m.replicas \in {o.replicas, copy.replicas}
      /\ m.readyReplicas \in {o.readyReplicas, copy.readyReplicas}
      /\ m.replicasReady \in {o.replicasReady, copy.replicasReady}
      /\ m.infraReady \in {o.infraReady, copy.infraReady} /\ m.phase \in {o.phase, copy.phase}
  BY <1>1 DEF Merged
<1>3. m.meta \in {"absent", "new", "held", "deleting"}
  BY <1>2 DEF PatchedMeta, Kept, LoadBalancers
<1>4. m \in Kept
  <2>1. /\ m.desired \in Desires \cup {0} /\ m.version \in Versions \cup {"none"}
        /\ m.ready \in BOOLEAN /\ m.address \in BOOLEAN /\ m.replicas \in Nat
        /\ m.readyReplicas \in Nat /\ m.replicasReady \in {"none", "True"} \cup Reasons
        /\ m.infraReady \in {"none", "True", "False"} /\ m.phase \in Phases
    <3>1. \A q \in {o, copy} :
            /\ q.desired \in Desires \cup {0} /\ q.version \in Versions \cup {"none"}
            /\ q.ready \in BOOLEAN /\ q.address \in BOOLEAN /\ q.replicas \in Nat
            /\ q.readyReplicas \in Nat /\ q.replicasReady \in {"none", "True"} \cup Reasons
            /\ q.infraReady \in {"none", "True", "False"} /\ q.phase \in Phases
      BY DEF Kept, LoadBalancers
    <3> QED
      BY <1>2, <3>1
  <2> QED
    BY <1>2, <1>3, <2>1 DEF Kept, LoadBalancers
<1>5. CASE m.meta = "absent"
  BY <1>2, <1>5, EmptyObject DEF Patched
<1>6. CASE m.meta # "absent"
  BY <1>2, <1>4, <1>6 DEF Patched
<1> QED
  BY <1>5, <1>6

\* reconcileStatus sets a phase of a load balancer that the controller holds.
LEMMA PhaseCopies ==
  ASSUME NEW o \in LoadBalancers, o.meta \in {"held", "deleting", "released"}
  PROVE  SameCopy(o, [o EXCEPT !.phase = Phase(o)])
PROOF
<1>1. Phase(o) \in Phases
  BY DEF Phase, Phases, LoadBalancers
<1> QED
  BY <1>1, ConditionCopies

-----------------------------------------------------------------------------
(* Machines.                                                                *)

\* The machines are finitely many.
LEMMA CountMachines ==
  ASSUME NEW S, S \subseteq Names
  PROVE  Cardinality(S) \in Nat /\ (Cardinality(S) > 0 => S # {})
PROOF
<1>1. IsFiniteSet(Names)
  BY FS_Interval, LoadBalancerBounds DEF Names
<1>2. IsFiniteSet(S)
  BY <1>1, FS_Subset
<1> QED
  BY <1>2, FS_CardinalityType, FS_EmptySet

\* selectVirtualMachineForScaleDown finds one of the machines that it was given.
LEMMA SelectsListed ==
  ASSUME Live(listed) # {}
  PROVE  Selected \in Live(listed)
PROOF
<1> DEFINE Oldest(S) == CHOOSE v \in S : \A u \in S : v <= u
           live == Live(listed)
           old == {v \in live : listed[v].version # after.version}
<1>1. live \subseteq Names /\ Names \subseteq Nat
  BY DEF Live, Names
<1>2. ASSUME NEW S, S \subseteq Nat, S # {}
      PROVE  \E v \in S : \A u \in S : v <= u
  <2>1. \E v \in S : \A u \in S : <<u, v>> \notin OpToRel(<, Nat)
    BY <1>2, WFMin, NatLessThanWellFounded
  <2>2. \A u, v \in Nat : <<u, v>> \notin OpToRel(<, Nat) => v <= u
    BY DEF OpToRel
  <2> QED
    BY <1>2, <2>1, <2>2
<1>3. CASE old # {}
  <2>1. Oldest(old) \in old
    BY <1>1, <1>2, <1>3
  <2> QED
    BY <1>3, <2>1 DEF Selected
<1>4. CASE old = {}
  <2>1. Oldest(live) \in live
    BY <1>1, <1>2
  <2> QED
    BY <1>4, <2>1 DEF Selected
<1> QED
  BY <1>3, <1>4

\* A write of one machine leaves the others as they are.
LEMMA MachineWritten ==
  ASSUME TypeOK, NEW v \in Names, NEW m \in Machines, WriteVM(v, m)
  PROVE  /\ vms' \in Windows([Names -> Machines])
         /\ Stored(vms') = [Stored(vms) EXCEPT ![v] = m]
PROOF
<1> DEFINE S == [Names -> Machines]
           x == [Stored(vms) EXCEPT ![v] = m]
<1>1. vms \in Windows(S) /\ Stored(vms) \in S
  BY WindowEnds DEF TypeOK
<1>2. x \in S
  BY <1>1
<1>3. vms' = Pushed(vms, x, VmLag)
  BY DEF WriteVM
<1> HIDE DEF S, x
<1>4. vms' \in Windows(S) /\ Stored(vms') = x
  BY <1>1, <1>2, <1>3, PushedWindow
<1> QED
  BY <1>4 DEF S, x

\* Deleting a machine that was listed alive makes a legal window and disconnects none.
LEMMA MachineDeleted ==
  ASSUME TypeOK, NEW v \in Live(listed), DeleteMachine(v) \/ UNCHANGED vms
  PROVE  /\ vms' \in Windows([Names -> Machines])
         /\ serving \subseteq {u \in Names : Stored(vms')[u].meta \in {"live", "deleting"}}
PROOF
<1>1. CASE UNCHANGED vms
  BY <1>1 DEF TypeOK
<1>2. CASE ~UNCHANGED vms
  <2> DEFINE m == [listed[v] EXCEPT !.meta = "deleting"]
  <2>1. v \in Names /\ WriteVM(v, m)
    BY <1>2 DEF DeleteMachine, Live
  <2>2. m \in Machines /\ m.meta = "deleting"
    BY <2>1 DEF TypeOK, Machines
  <2> HIDE DEF m
  <2>3. /\ vms' \in Windows([Names -> Machines])
        /\ Stored(vms') = [Stored(vms) EXCEPT ![v] = m]
        /\ Stored(vms) \in [Names -> Machines]
    BY <2>1, <2>2, MachineWritten, WindowEnds DEF TypeOK
  <2> QED
    BY <2>1, <2>2, <2>3 DEF TypeOK
<1> QED
  BY <1>1, <1>2

\* So does making one.
LEMMA MachineCreated ==
  ASSUME TypeOK, CreateMachine \/ UNCHANGED vms
  PROVE  /\ vms' \in Windows([Names -> Machines])
         /\ serving \subseteq {u \in Names : Stored(vms')[u].meta \in {"live", "deleting"}}
PROOF
<1>1. CASE UNCHANGED vms
  BY <1>1 DEF TypeOK
<1>2. CASE ~UNCHANGED vms
  <2> DEFINE m == [meta |-> "live", version |-> after.version, running |-> "none"]
  <2>1. PICK v \in Names : WriteVM(v, m)
    BY <1>2 DEF CreateMachine
  <2>2. m \in Machines /\ m.meta = "live"
    BY DEF TypeOK, LoadBalancers, Machines
  <2> HIDE DEF m
  <2>3. /\ vms' \in Windows([Names -> Machines])
        /\ Stored(vms') = [Stored(vms) EXCEPT ![v] = m]
        /\ Stored(vms) \in [Names -> Machines]
    BY <2>1, <2>2, MachineWritten, WindowEnds DEF TypeOK
  <2> QED
    BY <2>2, <2>3 DEF TypeOK
<1> QED
  BY <1>1, <1>2

-----------------------------------------------------------------------------
(* What the calls of a reconcile do, from the finalizer to the close.       *)

\* The copy goes on: an address comes from a service that is up and Ready comes with it.
CopyMoves ==
  /\ before' = before /\ after' \in LoadBalancers
  /\ after.address => after'.address
  /\ after'.address => after.address \/ service = "up"
  /\ after'.ready => after.ready \/ after'.address

\* The machines and the connections stay legal.
MachinesTyped ==
  /\ vms' \in Windows([Names -> Machines])
  /\ serving' \subseteq {v \in Names : Stored(vms')[v].meta \in {"live", "deleting"}}
  /\ listed' \in [Names -> Machines]

\* A call that fails keeps the copy but for a condition.
LEMMA FailedMoves == ASSUME TypeOK, Failed PROVE CopyMoves /\ pc' = "close" /\ after'.meta = after.meta
PROOF
<1>1. SameCopy(after, [after EXCEPT !.infraReady = "False"])
  BY ConditionCopies DEF TypeOK
<1> QED
  BY <1>1 DEF Failed, Goto, CopyMoves, SameCopy

\* Going on with a copy that was not changed, or only in what does not matter here.
LEMMA GotoMoves ==
  ASSUME TypeOK, NEW label, NEW copy, SameCopy(after, copy) \/ copy = after, Goto(label, copy)
  PROVE  CopyMoves /\ pc' = label /\ after'.meta = after.meta
PROOF
  BY DEF TypeOK, Goto, CopyMoves, SameCopy

\* The list of the machines, with the counts and the decision made from it.
LEMMA ListMoves ==
  ASSUME TypeOK, ListVMs
  PROVE  /\ CopyMoves /\ MachinesTyped /\ UNCHANGED <<lb, service>>
         /\ after'.meta = after.meta /\ pc = "list"
         /\ pc' \in {"service", "scaleUp", "surge", "scaleDown"}
         /\ SelectionExists'
PROOF
<1> DEFINE live == Live(Cached(vms))
           n == Cardinality(live)
           one == [after EXCEPT !.replicas = n]
           two == [ServiceStatus(after) EXCEPT !.replicas = n]
<1>1. Cached(vms) \in [Names -> Machines] /\ UNCHANGED <<lb, vms, service, serving>>
  BY WindowEnds DEF ListVMs, TypeOK, world
<1>2. MachinesTyped /\ listed' = Cached(vms)
  BY <1>1 DEF ListVMs, TypeOK, MachinesTyped
<1>3. n \in Nat /\ (n > 0 => live # {}) /\ Cardinality(serving) \in Nat
  BY CountMachines DEF Live, TypeOK
<1>4. CASE Goto("service", [after EXCEPT !.replicasReady = "VMFailed"])
  <2>1. SameCopy(after, [after EXCEPT !.replicasReady = "VMFailed"])
    BY ConditionCopies DEF TypeOK, Reasons
  <2> QED
    BY <1>1, <1>2, <1>4, <2>1, GotoMoves DEF ListVMs, SelectionExists
<1>5. /\ one \in LoadBalancers /\ one.meta = after.meta /\ one.address = after.address
      /\ one.ready = after.ready /\ one.replicas = n
  BY <1>3 DEF TypeOK, LoadBalancers
<1>6. /\ two \in LoadBalancers /\ two.meta = after.meta /\ two.replicas = n
      /\ two.address = (after.address \/ service = "up") /\ two.ready = after.ready
  <2> DEFINE a == after.address \/ service = "up"
             r == Cardinality(serving)
  <2>1. a \in BOOLEAN /\ r \in Nat
    BY <1>3 DEF TypeOK, LoadBalancers
  <2>2. two = [after EXCEPT !.address = a, !.readyReplicas = r, !.replicas = n]
    BY DEF ServiceStatus
  <2> HIDE DEF a, r, n
  <2>3. /\ two \in LoadBalancers /\ two.meta = after.meta /\ two.replicas = n
        /\ two.address = a /\ two.ready = after.ready
    BY <1>3, <2>1, <2>2 DEF TypeOK, LoadBalancers
  <2> QED
    BY <2>3 DEF a
<1>7. ASSUME NEW o \in LoadBalancers, o.meta = after.meta, o.replicas = n, o.ready = after.ready,
             after.address => o.address, o.address => after.address \/ service = "up",
             Goto(Scale(o, Cached(vms))[1], Scale(o, Cached(vms))[2])
      PROVE  /\ CopyMoves /\ after'.meta = after.meta
             /\ pc' \in {"service", "scaleUp", "surge", "scaleDown"}
             /\ SelectionExists'
  <2>1. /\ Scale(o, Cached(vms))[1] \in {"service", "scaleUp", "surge", "scaleDown"}
        /\ SameCopy(o, Scale(o, Cached(vms))[2])
        /\ Scale(o, Cached(vms))[1] = "scaleDown" => o.replicas > o.desired
    BY ScaleCopies
  <2>2. o.desired \in Nat /\ o.replicas \in Nat
    <3>1. o.desired \in Desires \cup {0} /\ o.replicas \in Nat
      BY DEF LoadBalancers
    <3>2. Desires \cup {0} \subseteq Nat
      BY LoadBalancerBounds
    <3> QED
      BY <3>1, <3>2, Zenon
  <2>3. after' \in LoadBalancers /\ pc' = Scale(o, Cached(vms))[1] /\ SameCopy(o, after')
        /\ before' = before
    BY <1>7, <2>1 DEF Goto, SameCopy
  <2>4. CopyMoves /\ after'.meta = after.meta
    BY <1>7, <2>3 DEF CopyMoves, SameCopy
  <2>5. SelectionExists'
    BY <1>2, <1>3, <1>7, <2>1, <2>2, <2>3 DEF SelectionExists, SameCopy
  <2> QED
    BY <2>1, <2>3, <2>4, <2>5
<1>8. \/ Goto("service", [after EXCEPT !.replicasReady = "VMFailed"])
      \/ \E o \in {one, two} : Goto(Scale(o, Cached(vms))[1], Scale(o, Cached(vms))[2])
  BY DEF ListVMs
<1> HIDE DEF one, two, n, live
<1>9. pc = "list"
  BY DEF ListVMs
<1> QED
  BY <1>1, <1>2, <1>4, <1>5, <1>6, <1>7, <1>8, <1>9

\* Making and taking away machines.
LEMMA ScaleMoves ==
  ASSUME TypeOK, SelectionExists, ScaleUp \/ ScaleDown
  PROVE  /\ CopyMoves /\ MachinesTyped /\ UNCHANGED <<lb, service>>
         /\ after'.meta = after.meta /\ pc \in {"scaleUp", "surge", "scaleDown"}
         /\ pc' \in {"surge", "service", "close"}
PROOF
<1>1. CASE ScaleUp
  <2> DEFINE o == [after EXCEPT !.replicas = @ + 1]
  <2>1. /\ o \in LoadBalancers
        /\ o.meta = after.meta /\ o.address = after.address /\ o.ready = after.ready
    <3>1. after.replicas + 1 \in Nat
      BY DEF TypeOK, LoadBalancers
    <3> QED
      BY <3>1 DEF TypeOK, LoadBalancers
  <2>2. /\ CreateMachine \/ UNCHANGED vms
        /\ UNCHANGED <<lb, service, serving, listed>> /\ pc \in {"scaleUp", "surge"}
        /\ Failed \/ \E label \in {"surge", "service"} : Goto(label, o)
    BY <1>1 DEF ScaleUp
  <2>3. MachinesTyped
    BY <2>2, MachineCreated DEF MachinesTyped, TypeOK
  <2> HIDE DEF o
  <2>4. CASE Failed
    BY <2>2, <2>3, <2>4, FailedMoves
  <2>5. CASE \E label \in {"surge", "service"} : Goto(label, o)
    BY <2>1, <2>2, <2>3, <2>5 DEF Goto, CopyMoves
  <2> QED
    BY <2>2, <2>4, <2>5
<1>2. CASE ScaleDown
  <2> DEFINE o == [after EXCEPT !.replicas = @ - 1]
  <2>1. o \in LoadBalancers
        /\ o.meta = after.meta /\ o.address = after.address /\ o.ready = after.ready
    <3>1. pc = "scaleDown" /\ after.replicas > 0 /\ after.replicas \in Nat
      BY <1>2 DEF ScaleDown, SelectionExists, TypeOK, LoadBalancers
    <3>2. after.replicas - 1 \in Nat
      BY <3>1
    <3> QED
      BY <3>2 DEF TypeOK, LoadBalancers
  <2>2. /\ DeleteMachine(Selected) \/ UNCHANGED vms
        /\ UNCHANGED <<lb, service, serving, listed>> /\ pc = "scaleDown"
        /\ Failed \/ Goto("service", o)
    BY <1>2 DEF ScaleDown
  <2>3. MachinesTyped
    <3>1. Selected \in Live(listed)
      BY <2>2, SelectsListed DEF SelectionExists
    <3> QED
      BY <2>2, <3>1, MachineDeleted DEF MachinesTyped, TypeOK
  <2> HIDE DEF o
  <2>4. CASE Failed
    BY <2>2, <2>3, <2>4, FailedMoves
  <2>5. CASE Goto("service", o)
    BY <2>1, <2>2, <2>3, <2>5 DEF Goto, CopyMoves
  <2> QED
    BY <2>2, <2>4, <2>5
<1> QED
  BY <1>1, <1>2

\* The service and its status.
LEMMA ServiceMoves ==
  ASSUME TypeOK, ReconcileService \/ ReconcileServiceStatus
  PROVE  /\ CopyMoves /\ MachinesTyped /\ UNCHANGED lb
         /\ after'.meta = after.meta /\ pc \in {"service", "status"} /\ pc' \in {"status", "close"}
         /\ service' = service \/ (service = "absent" /\ service' = "pending")
PROOF
<1>1. CASE ReconcileService
  <2>1. /\ UNCHANGED <<lb, vms, serving, listed>> /\ pc = "service"
        /\ Failed \/ Goto("status", after)
        /\ service' = service \/ (service = "absent" /\ service' = "pending")
    BY <1>1 DEF ReconcileService
  <2>2. MachinesTyped
    BY <2>1 DEF MachinesTyped, TypeOK
  <2> QED
    BY <2>1, <2>2, FailedMoves, GotoMoves
<1>2. CASE ReconcileServiceStatus
  <2> DEFINE o == IF after.address THEN after ELSE ServiceStatus(after)
             p == SetReady(o)
  <2>1. /\ UNCHANGED <<lb, vms, serving, listed, service>> /\ pc = "status"
        /\ Failed \/ Goto("close", p)
    BY <1>2 DEF ReconcileServiceStatus, world
  <2>2. MachinesTyped
    BY <2>1 DEF MachinesTyped, TypeOK
  <2>3. /\ o \in LoadBalancers /\ o.meta = after.meta /\ o.ready = after.ready
        /\ o.address = (after.address \/ service = "up")
    <3> DEFINE a == after.address \/ service = "up"
               r == Cardinality(serving)
    <3>1. a \in BOOLEAN /\ r \in Nat
      BY CountMachines DEF TypeOK, LoadBalancers
    <3>2. ServiceStatus(after) = [after EXCEPT !.address = a, !.readyReplicas = r]
      BY DEF ServiceStatus
    <3>3. after.address => o = after
      OBVIOUS
    <3>4. ~after.address => o = [after EXCEPT !.address = a, !.readyReplicas = r]
      BY <3>2
    <3> HIDE DEF o, a, r
    <3>5. o \in LoadBalancers /\ o.meta = after.meta /\ o.ready = after.ready
      BY <3>1, <3>3, <3>4 DEF TypeOK, LoadBalancers
    <3>6. ~after.address => o.address = a
      BY <3>4 DEF TypeOK, LoadBalancers
    <3> QED
      BY <3>1, <3>3, <3>5, <3>6 DEF a, TypeOK, LoadBalancers
  <2> HIDE DEF o
  <2>4. /\ p \in LoadBalancers /\ p.meta = o.meta /\ p.address = o.address
        /\ p.ready => o.ready \/ o.address
    BY <2>3, SetReadyCopies
  <2>5. CASE Failed
    BY <2>1, <2>2, <2>5, FailedMoves
  <2>6. CASE Goto("close", p)
    <3> HIDE DEF p
    <3>1. CopyMoves
      BY <2>3, <2>4, <2>6 DEF Goto, CopyMoves
    <3> QED
      BY <2>1, <2>2, <2>3, <2>4, <2>6, <3>1 DEF Goto
  <2> QED
    BY <2>1, <2>5, <2>6
<1> QED
  BY <1>1, <1>2

\* The deletion: the service first, then the machines, then the finalizer.
LEMMA DeleteMoves ==
  ASSUME TypeOK, DeleteService \/ ListDeletedVMs \/ DeleteVMs
  PROVE  /\ CopyMoves /\ MachinesTyped /\ UNCHANGED lb
         /\ pc \in DeletePCs /\ pc' \in {"deleteList", "deleteVMs", "close"}
         /\ \/ after'.meta = after.meta
            \/ pc = "deleteVMs" /\ pc' = "close" /\ after'.meta = "released"
         /\ service' \in {service, "absent"}
         /\ pc # "deleteService" => service' = service
         /\ pc' \in {"deleteList", "deleteVMs"} =>
              after'.meta = after.meta /\ (pc = "deleteService" => service' = "absent")
PROOF
<1> USE DEF DeletePCs
<1>1. CASE DeleteService
  <2>1. /\ UNCHANGED <<lb, vms, listed>> /\ pc = "deleteService" /\ service' \in {service, "absent"}
        /\ serving' \subseteq serving
        /\ Failed \/ (Goto("deleteList", after) /\ service' = "absent")
    BY <1>1 DEF DeleteService
  <2>2. MachinesTyped
    BY <2>1 DEF MachinesTyped, TypeOK
  <2> QED
    BY <2>1, <2>2, FailedMoves, GotoMoves
<1>2. CASE ListDeletedVMs
  <2>1. /\ UNCHANGED <<lb, vms, service, serving>> /\ pc = "deleteList" /\ listed' = Cached(vms)
        /\ Goto("deleteVMs", after)
    BY <1>2 DEF ListDeletedVMs, world
  <2>2. MachinesTyped
    BY <2>1, WindowEnds DEF MachinesTyped, TypeOK
  <2> QED
    BY <2>1, <2>2, GotoMoves
<1>3. CASE DeleteVMs
  <2> DEFINE o == [after EXCEPT !.meta = "released", !.infraReady = "False"]
  <2>1. UNCHANGED <<lb, service, serving>> /\ pc = "deleteVMs"
    BY <1>3 DEF DeleteVMs
  <2>2. CASE Goto("close", o) /\ UNCHANGED <<vms, listed>>
    <3>1. MachinesTyped
      BY <2>1, <2>2 DEF MachinesTyped, TypeOK
    <3>2. /\ o \in LoadBalancers /\ o.meta = "released" /\ o.address = after.address
          /\ o.ready = after.ready
      <4>1. after \in LoadBalancers
        BY DEF TypeOK
      <4> QED
        BY <4>1 DEF LoadBalancers
    <3> HIDE DEF o
    <3> QED
      BY <2>1, <2>2, <3>1, <3>2 DEF Goto, CopyMoves
  <2>3. ASSUME NEW v \in Live(listed), DeleteMachine(v) \/ UNCHANGED vms,
               \/ Failed /\ UNCHANGED listed
               \/ Goto("deleteVMs", after) /\ listed' = [listed EXCEPT ![v].meta = "deleting"]
        PROVE  /\ CopyMoves /\ MachinesTyped /\ after'.meta = after.meta
               /\ pc' \in {"deleteVMs", "close"}
    <3>1. listed' \in [Names -> Machines]
      BY <2>3 DEF TypeOK, Machines, Live
    <3>2. MachinesTyped
      BY <2>1, <2>3, <3>1, MachineDeleted DEF MachinesTyped
    <3> QED
      BY <2>3, <3>2, FailedMoves, GotoMoves
  <2>4. \/ Goto("close", o) /\ UNCHANGED <<vms, listed>>
        \/ \E v \in Live(listed) :
             /\ DeleteMachine(v) \/ UNCHANGED vms
             /\ \/ Failed /\ UNCHANGED listed
                \/ Goto("deleteVMs", after) /\ listed' = [listed EXCEPT ![v].meta = "deleting"]
    BY <1>3 DEF DeleteVMs
  <2> QED
    BY <2>1, <2>2, <2>3, <2>4
<1> QED
  BY <1>1, <1>2, <1>3

-----------------------------------------------------------------------------
(* The invariant, one lemma per kind of step.                               *)

\* The bounded counters stay in their bounds.
LEMMA CounterStep ==
  ASSUME TypeOK, Next
  PROVE  edits' \in 0..MaxEdits /\ faults' \in 0..MaxFaults /\ failures' \in 0..MaxVMFailures
PROOF
<1> USE DEF Next, Controller, MachineSteps, EditSpec, DeleteLB, GarbageCollect, ObserveLB, ObserveVMs,
            Restart, MachineRuns, MachineFails, MachineGone, Connect, Disconnect, AssignAddress,
            Reconcile, PatchFinalizer, ListVMs, ScaleUp, ScaleDown, ReconcileService,
            ReconcileServiceStatus, DeleteService, ListDeletedVMs, DeleteVMs, Close
<1>1. Fault \/ UNCHANGED faults
  OBVIOUS
<1>2. Failure \/ UNCHANGED failures
  OBVIOUS
<1>3. edits' = edits \/ (edits < MaxEdits /\ edits' = edits + 1)
  BY DEF Goto, Failed
<1> HIDE DEF Next
<1>4. edits \in 0..MaxEdits /\ faults \in 0..MaxFaults /\ failures \in 0..MaxVMFailures
      /\ MaxEdits \in Nat /\ MaxFaults \in Nat /\ MaxVMFailures \in Nat
  BY LoadBalancerBounds DEF TypeOK
<1>5. edits' \in 0..MaxEdits
  BY <1>3, <1>4
<1>6. faults' \in 0..MaxFaults
  BY <1>1, <1>4 DEF Fault
<1>7. failures' \in 0..MaxVMFailures
  BY <1>2, <1>4 DEF Failure
<1> QED
  BY <1>5, <1>6, <1>7

\* The calls between the finalizer and the close.
LEMMA MoveStep ==
  ASSUME IInv, Next,
         \/ ListVMs \/ ScaleUp \/ ScaleDown \/ ReconcileService \/ ReconcileServiceStatus
         \/ DeleteService \/ ListDeletedVMs \/ DeleteVMs
  PROVE  IInv'
PROOF
<1>t. TypeOK /\ SelectionExists
  BY DEF IInv
<1>o. Over <=> Stored(lb).meta \in {"deleting", "absent"}
  BY DEF Over
<1>s. Stored(lb) = lb[Len(lb)] /\ Len(lb) \in 1..Len(lb)
  BY <1>t, WindowEnds DEF TypeOK
<1>1. CASE ListVMs \/ ScaleUp \/ ScaleDown \/ ReconcileService \/ ReconcileServiceStatus
  <2>1. /\ CopyMoves /\ MachinesTyped /\ UNCHANGED lb /\ after'.meta = after.meta
        /\ pc \in NormalPCs /\ pc' \in (NormalPCs \ {"list"}) \cup {"close"}
        /\ service' = service \/ (service = "absent" /\ service' = "pending")
        /\ SelectionExists'
    <3>1. CASE ListVMs
      BY <1>t, <3>1, ListMoves DEF NormalPCs
    <3>2. CASE ScaleUp \/ ScaleDown
      BY <1>t, <3>2, ScaleMoves DEF NormalPCs, SelectionExists
    <3>3. CASE ReconcileService \/ ReconcileServiceStatus
      BY <1>t, <3>3, ServiceMoves DEF NormalPCs, SelectionExists
    <3> QED
      BY <1>1, <3>1, <3>2, <3>3
  <2>2. TypeOK'
    BY <1>t, <2>1, CounterStep DEF TypeOK, CopyMoves, MachinesTyped, NormalPCs
  <2>3. LifeOrder' /\ ServiceGuarded'
    BY <2>1 DEF IInv, LifeOrder, ServiceGuarded, Path, Guarded, Over
  <2>4. Path'
    BY <2>1 DEF IInv, Path, CopyMoves, NormalPCs, DeletePCs, Guarded
  <2>5. AddressStays'
    BY <2>1 DEF IInv, AddressStays, CopyMoves, Over
  <2> QED
    BY <2>1, <2>2, <2>3, <2>4, <2>5 DEF IInv
<1>2. CASE DeleteService \/ ListDeletedVMs \/ DeleteVMs
  <2>1. /\ CopyMoves /\ MachinesTyped /\ UNCHANGED lb
        /\ pc \in DeletePCs /\ pc' \in {"deleteList", "deleteVMs", "close"}
        /\ \/ after'.meta = after.meta
           \/ pc = "deleteVMs" /\ pc' = "close" /\ after'.meta = "released"
        /\ service' \in {service, "absent"}
        /\ pc # "deleteService" => service' = service
        /\ pc' \in {"deleteList", "deleteVMs"} =>
             after'.meta = after.meta /\ (pc = "deleteService" => service' = "absent")
    BY <1>t, <1>2, DeleteMoves
  <2>2. TypeOK'
    BY <1>t, <2>1, CounterStep DEF TypeOK, CopyMoves, MachinesTyped
  <2>3. LifeOrder' /\ ServiceGuarded' /\ SelectionExists'
    BY <2>1 DEF IInv, LifeOrder, ServiceGuarded, SelectionExists, Guarded, Over
  <2>4. Path'
    BY <2>1 DEF IInv, Path, CopyMoves, NormalPCs, DeletePCs, Guarded
  <2>5. Over'
    BY <1>s, <2>1 DEF IInv, Path, Over
  <2> QED
    BY <2>2, <2>3, <2>4, <2>5 DEF IInv, AddressStays
<1> QED
  BY <1>1, <1>2

\* The machines, MOC and the cache of the machines.
LEMMA MachineStep ==
  ASSUME IInv, Next,
         \/ GarbageCollect \/ MachineRuns \/ MachineFails \/ MachineGone
         \/ Connect \/ Disconnect \/ AssignAddress \/ ObserveVMs
  PROVE  IInv'
PROOF
<1>t. TypeOK /\ Stored(vms) \in [Names -> Machines]
  BY WindowEnds DEF IInv, TypeOK
<1>1. ASSUME UNCHANGED <<lb, pc, before, after, listed>>,
             service' = service \/ (service = "pending" /\ service' = "up"),
             vms' \in Windows([Names -> Machines]),
             serving' \subseteq {v \in Names : Stored(vms')[v].meta \in {"live", "deleting"}}
      PROVE  IInv'
  <2>1. TypeOK'
    BY <1>t, <1>1, CounterStep DEF TypeOK
  <2>2. LifeOrder' /\ ServiceGuarded' /\ SelectionExists'
    BY <1>1 DEF IInv, LifeOrder, ServiceGuarded, SelectionExists, Guarded, Over
  <2>3. Path' /\ AddressStays'
    BY <1>1 DEF IInv, Path, AddressStays, Guarded, Over
  <2> QED
    BY <2>1, <2>2, <2>3 DEF IInv
<1>2. ASSUME NEW v \in Names, NEW m \in Machines, WriteVM(v, m),
             m.meta \in {"live", "deleting"} \/ v \notin serving', serving' \subseteq serving,
             UNCHANGED <<lb, pc, before, after, listed, service>>
      PROVE  IInv'
  <2>1. /\ vms' \in Windows([Names -> Machines])
        /\ Stored(vms') = [Stored(vms) EXCEPT ![v] = m]
    BY <1>t, <1>2, MachineWritten
  <2>2. serving' \subseteq {u \in Names : Stored(vms')[u].meta \in {"live", "deleting"}}
    BY <1>t, <1>2, <2>1 DEF TypeOK
  <2> QED
    BY <1>1, <1>2, <2>1, <2>2
<1>3. \A v \in Names, c \in {"live", "deleting", "gone"} :
        /\ [Stored(vms)[v] EXCEPT !.meta = c] \in Machines
        /\ [Stored(vms)[v] EXCEPT !.meta = c].meta = c
  BY <1>t DEF Machines
<1>4. \A v \in Names, c \in {"True", "failed"} :
        /\ [Stored(vms)[v] EXCEPT !.running = c] \in Machines
        /\ [Stored(vms)[v] EXCEPT !.running = c].meta = Stored(vms)[v].meta
  BY <1>t DEF Machines
<1>5. CASE GarbageCollect
  BY <1>2, <1>3, <1>5 DEF GarbageCollect, Live, control
<1>6. CASE MachineRuns \/ MachineFails
  BY <1>2, <1>4, <1>6 DEF MachineRuns, MachineFails, Live, control
<1>7. CASE MachineGone
  BY <1>2, <1>3, <1>7 DEF MachineGone, control
<1>8. CASE Connect \/ Disconnect \/ AssignAddress
  <2>1. /\ UNCHANGED <<lb, vms, pc, before, after, listed>>
        /\ service' = service \/ (service = "pending" /\ service' = "up")
    BY <1>8 DEF Connect, Disconnect, AssignAddress, control
  <2>2. serving' \subseteq {v \in Names : Stored(vms)[v].meta \in {"live", "deleting"}}
    BY <1>t, <1>8 DEF Connect, Disconnect, AssignAddress, Live, TypeOK
  <2> QED
    BY <1>1, <1>t, <2>1, <2>2 DEF TypeOK
<1>9. CASE ObserveVMs
  <2>1. vms' \in Windows([Names -> Machines]) /\ Stored(vms') = Stored(vms)
    BY <1>t, <1>9, TailWindow DEF ObserveVMs, TypeOK
  <2> QED
    BY <1>1, <1>t, <1>9, <2>1 DEF ObserveVMs, control, TypeOK
<1> QED
  BY <1>5, <1>6, <1>7, <1>8, <1>9

\* How one write may change the life of the load balancer.
LegalWrite(v) ==
  \/ v.meta = Stored(lb).meta
  \/ Stored(lb).meta = "new" /\ v.meta \in {"held", "absent"}
  \/ Stored(lb).meta = "held" /\ v.meta = "deleting"
  \/ /\ Stored(lb).meta = "deleting" /\ v.meta = "absent"
     /\ \A i \in 1..Len(lb) : lb[i].meta \in {"deleting", "absent"}

\* What a legal write that takes no address back leaves behind.
LEMMA LBWritten ==
  ASSUME IInv, NEW v \in Kept, WriteLB(v), LegalWrite(v), service' = service,
         v.meta \notin {"deleting", "absent"} =>
           /\ v.ready => v.address
           /\ v.address => service = "up"
           /\ Stored(lb).address => v.address
  PROVE  /\ lb' \in Windows(Kept) /\ Stored(lb') = v /\ (Over => Over')
         /\ (v.meta # "absent" /\ Guarded => Guarded')
         /\ LifeOrder'
         /\ (\A i \in 1..Len(lb) : lb[i].meta \in {"deleting", "absent"}) =>
              \A i \in 1..Len(lb') : lb'[i].meta \in {"deleting", "absent"}
         /\ ~Over' =>
              /\ Stored(lb').address => service' = "up"
              /\ Stored(lb').ready => Stored(lb').address
              /\ Stored(lb).address => Stored(lb').address
              /\ \A i \in 1..Len(lb') : /\ lb'[i].address => Stored(lb').address
                                        /\ lb'[i].ready => lb'[i].address
PROOF
<1>w. lb \in Windows(Kept)
  BY DEF IInv, TypeOK, Kept
<1>l. Stored(lb) = lb[Len(lb)] /\ Len(lb) \in 1..Len(lb) /\ Len(lb) \in Nat
  BY <1>w, WindowEnds
<1>1. /\ lb' \in Windows(Kept) /\ Stored(lb') = v /\ Len(lb') \in Nat
      /\ \A i \in 1..Len(lb') :
           \/ i \in 1..Len(lb) /\ lb'[i] = lb[i]
           \/ i = Len(lb') /\ lb'[i] = v
  BY <1>w, PushedWindow, WindowEnds DEF WriteLB
<1>2. Over => Over'
  BY <1>1 DEF LegalWrite, Over
<1>3. v.meta # "absent" /\ Guarded => Guarded'
  BY <1>1 DEF LegalWrite, Guarded
<1>4. LifeOrder'
  <2>1. \A i \in 1..Len(lb') : lb'[i].meta \in {"deleting", "absent"} => Over'
    BY <1>1, <1>2 DEF IInv, LifeOrder, Over
  <2>2. \A i \in 1..Len(lb') : lb'[i].meta = "held" => Guarded'
    BY <1>1 DEF IInv, LifeOrder, Guarded, LegalWrite
  <2>3. \A i, j \in 1..Len(lb') :
          i <= j /\ lb'[i].meta = "deleting" => lb'[j].meta \in {"deleting", "absent"}
    <3> TAKE i, j \in 1..Len(lb')
    <3> SUFFICES ASSUME i <= j, lb'[i].meta = "deleting" PROVE lb'[j].meta \in {"deleting", "absent"}
      OBVIOUS
    <3>1. CASE lb'[j] = v
      <4>1. Over'
        BY <2>1
      <4> QED
        BY <1>1, <3>1, <4>1 DEF Over
    <3>2. CASE lb'[j] # v
      <4>1. j \in 1..Len(lb) /\ lb'[j] = lb[j] /\ j \in 1..Len(lb')
        BY <1>1, <3>2
      <4>2. lb'[i] = lb[i] /\ i \in 1..Len(lb)
        BY <1>1, <3>2, <4>1
      <4> QED
        BY <4>1, <4>2 DEF IInv, LifeOrder
    <3> QED
      BY <3>1, <3>2
  <2> QED
    BY <2>1, <2>2, <2>3 DEF LifeOrder
<1>5. (\A i \in 1..Len(lb) : lb[i].meta \in {"deleting", "absent"}) =>
        \A i \in 1..Len(lb') : lb'[i].meta \in {"deleting", "absent"}
  BY <1>1, <1>l DEF LegalWrite
<1>6. ASSUME ~Over'
      PROVE  /\ Stored(lb').address => service' = "up"
             /\ Stored(lb').ready => Stored(lb').address
             /\ Stored(lb).address => Stored(lb').address
             /\ \A i \in 1..Len(lb') : /\ lb'[i].address => Stored(lb').address
                                       /\ lb'[i].ready => lb'[i].address
  <2>1. ~Over /\ v.meta \notin {"deleting", "absent"}
    BY <1>1, <1>2, <1>6 DEF Over
  <2> QED
    BY <1>1, <2>1 DEF IInv, AddressStays
<1> QED
  BY <1>1, <1>2, <1>3, <1>4, <1>5, <1>6

\* The user's writes.
LEMMA UserStep ==
  ASSUME IInv, Next, EditSpec \/ DeleteLB
  PROVE  IInv'
PROOF
<1> USE EmptyObject
<1>s. Stored(lb) \in Kept /\ Stored(lb) = lb[Len(lb)] /\ Len(lb) \in 1..Len(lb)
  <2>1. lb \in Windows(Kept)
    BY DEF IInv, TypeOK, Kept
  <2> QED
    BY <2>1, WindowEnds
<1>u. UNCHANGED <<vms, service, serving, pc, before, after, listed>> /\ Stored(lb).meta \in {"new", "held"}
  BY DEF EditSpec, DeleteLB, control
<1>1. PICK v \in Kept :
        /\ WriteLB(v) /\ LegalWrite(v)
        /\ v.meta = Stored(lb).meta \/ v.meta \in {"deleting", "absent"}
        /\ v.meta = "absent" => ~Guarded
        /\ v.meta = Stored(lb).meta => v.address = Stored(lb).address /\ v.ready = Stored(lb).ready
  <2>1. CASE EditSpec
    <3>1. PICK n \in Desires, os \in Versions :
            WriteLB([Stored(lb) EXCEPT !.desired = n, !.version = os])
      BY <2>1 DEF EditSpec
    <3> DEFINE v == [Stored(lb) EXCEPT !.desired = n, !.version = os]
    <3>2. /\ v \in Kept /\ v.meta = Stored(lb).meta /\ v.address = Stored(lb).address
          /\ v.ready = Stored(lb).ready
      BY <1>s DEF Kept, LoadBalancers
    <3> HIDE DEF v
    <3>3. WriteLB(v) /\ LegalWrite(v) /\ v.meta # "absent"
      BY <1>u, <3>1, <3>2 DEF LegalWrite, v
    <3> QED
      BY <3>2, <3>3
  <2>2. CASE DeleteLB /\ Stored(lb).meta = "new"
    BY <2>2 DEF DeleteLB, LegalWrite, Guarded
  <2>3. CASE DeleteLB /\ Stored(lb).meta = "held"
    <3> DEFINE v == [Stored(lb) EXCEPT !.meta = "deleting"]
    <3>1. v \in Kept /\ v.meta = "deleting"
      BY <1>s DEF Kept, LoadBalancers
    <3>2. WriteLB(v)
      BY <2>3 DEF DeleteLB
    <3> HIDE DEF v
    <3> QED
      BY <2>3, <3>1, <3>2 DEF LegalWrite
  <2> QED
    BY <1>u, <2>1, <2>2, <2>3
<1>2. ~Over /\ (Stored(lb).ready => Stored(lb).address) /\ (Stored(lb).address => service = "up")
  BY <1>u DEF IInv, AddressStays, Over
<1>3. /\ lb' \in Windows(Kept) /\ Stored(lb') = v
      /\ (v.meta # "absent" /\ Guarded => Guarded')
      /\ LifeOrder'
      /\ ~Over' =>
           /\ Stored(lb').address => service' = "up"
           /\ Stored(lb').ready => Stored(lb').address
           /\ Stored(lb).address => Stored(lb').address
           /\ \A i \in 1..Len(lb') : /\ lb'[i].address => Stored(lb').address
                                     /\ lb'[i].ready => lb'[i].address
  BY <1>1, <1>2, <1>u, LBWritten
<1>4. TypeOK'
  BY <1>3, <1>u, CounterStep DEF IInv, TypeOK, Kept
<1>5. Guarded => Guarded'
  BY <1>1, <1>3
<1>6. ServiceGuarded' /\ SelectionExists'
  BY <1>5, <1>u DEF IInv, ServiceGuarded, SelectionExists
<1>7. Path'
  <2>1. ~\A i \in 1..Len(lb) : lb[i].meta \in {"deleting", "absent"}
    BY <1>s, <1>u
  <2> QED
    BY <1>5, <1>u, <2>1 DEF IInv, Path
<1>8. AddressStays'
  BY <1>2, <1>3, <1>u DEF IInv, AddressStays
<1> QED
  BY <1>3, <1>4, <1>6, <1>7, <1>8 DEF IInv

\* The cache of the load balancer, a restart and the beginning of a reconcile.
LEMMA ReadStep ==
  ASSUME IInv, Next, ObserveLB \/ Restart \/ Reconcile
  PROVE  IInv'
PROOF
<1> USE EmptyObject
<1>w. lb \in Windows(Kept) /\ vms \in Windows([Names -> Machines])
  BY DEF IInv, TypeOK, Kept
<1>l. /\ Stored(lb) = lb[Len(lb)] /\ Len(lb) \in 1..Len(lb) /\ Len(lb) \in Nat
      /\ Cached(lb) = lb[1] /\ 1 \in 1..Len(lb) /\ Cached(lb) \in Kept /\ Stored(lb) \in Kept
  BY <1>w, WindowEnds
<1>1. CASE ObserveLB
  <2>1. /\ UNCHANGED <<vms, service, serving, pc, before, after, listed>>
        /\ Len(lb) > 1 /\ lb' = Tail(lb)
    BY <1>1 DEF ObserveLB, control
  <2>2. /\ lb' \in Windows(Kept) /\ Stored(lb') = Stored(lb) /\ Len(lb') = Len(lb) - 1
        /\ \A i \in 1..Len(lb') : i + 1 \in 1..Len(lb) /\ lb'[i] = lb[i + 1]
    BY <1>w, <2>1, TailWindow
  <2>3. TypeOK'
    BY <2>1, <2>2, CounterStep DEF IInv, TypeOK, Kept
  <2>4. LifeOrder'
    <3>1. \A i, j \in 1..Len(lb') :
            i <= j /\ lb'[i].meta = "deleting" => lb'[j].meta \in {"deleting", "absent"}
      <4> TAKE i, j \in 1..Len(lb')
      <4>1. /\ i + 1 \in 1..Len(lb) /\ j + 1 \in 1..Len(lb) /\ (i <= j => i + 1 <= j + 1)
            /\ lb'[i] = lb[i + 1] /\ lb'[j] = lb[j + 1]
        BY <1>l, <2>2
      <4> QED
        BY <4>1 DEF IInv, LifeOrder
    <3> QED
      BY <2>2, <3>1 DEF IInv, LifeOrder, Over, Guarded
  <2>5. Path'
    BY <2>1, <2>2 DEF IInv, Path, Guarded
  <2>6. AddressStays' /\ ServiceGuarded' /\ SelectionExists'
    BY <2>1, <2>2 DEF IInv, AddressStays, ServiceGuarded, SelectionExists, Over, Guarded
  <2> QED
    BY <2>3, <2>4, <2>5, <2>6 DEF IInv
<1>2. CASE Restart
  <2>1. /\ UNCHANGED <<service, serving>> /\ pc' = "idle" /\ before' = Absent /\ after' = Absent
        /\ listed' = NoMachines /\ lb' = Relisted(lb) /\ vms' = Relisted(vms)
    BY <1>2 DEF Restart
  <2>2. /\ lb' \in Windows(Kept) /\ Stored(lb') = Stored(lb)
        /\ \A i \in 1..Len(lb') : lb'[i] = Stored(lb)
        /\ vms' \in Windows([Names -> Machines]) /\ Stored(vms') = Stored(vms)
    BY <1>w, <2>1, RelistedWindow
  <2>3. NoMachines \in [Names -> Machines]
    BY DEF NoMachines, Unborn, Machines
  <2>4. TypeOK'
    BY <2>1, <2>2, <2>3, CounterStep DEF IInv, TypeOK, Kept
  <2>5. LifeOrder' /\ ServiceGuarded' /\ SelectionExists'
    BY <1>l, <2>1, <2>2 DEF IInv, LifeOrder, ServiceGuarded, SelectionExists, Over, Guarded
  <2>6. Path' /\ AddressStays'
    BY <2>1, <2>2 DEF IInv, Path, AddressStays, Over, Guarded, NormalPCs, DeletePCs
  <2> QED
    BY <2>4, <2>5, <2>6 DEF IInv
<1>3. CASE Reconcile
  <2>1. /\ UNCHANGED <<lb, vms, service, serving, listed>> /\ before' = Cached(lb)
        /\ \/ Cached(lb).meta = "absent" /\ pc' = "idle" /\ after' = Absent
           \/ Cached(lb).meta = "deleting" /\ pc' = "deleteService" /\ after' = Cached(lb)
           \/ /\ Cached(lb).meta \in {"new", "held"} /\ pc' = "finalizer"
              /\ after' = [Cached(lb) EXCEPT !.meta = "held"]
    BY <1>3, <1>l DEF Reconcile, world, Kept, LoadBalancers
  <2>2. /\ after' \in LoadBalancers /\ before' \in LoadBalancers
        /\ after' # Absent =>
             /\ after'.address = Cached(lb).address /\ after'.ready = Cached(lb).ready
             /\ after'.meta = IF Cached(lb).meta = "deleting" THEN "deleting" ELSE "held"
             /\ Cached(lb).meta = "held" => after' = before'
        /\ Cached(lb).meta # "absent" => after' # Absent
    <3>1. CASE Cached(lb).meta \in {"new", "held"}
      <4>1. /\ [Cached(lb) EXCEPT !.meta = "held"] \in LoadBalancers
            /\ [Cached(lb) EXCEPT !.meta = "held"].meta = "held"
            /\ [Cached(lb) EXCEPT !.meta = "held"].address = Cached(lb).address
            /\ [Cached(lb) EXCEPT !.meta = "held"].ready = Cached(lb).ready
            /\ Cached(lb).meta = "held" => [Cached(lb) EXCEPT !.meta = "held"] = Cached(lb)
        BY <1>l DEF Kept, LoadBalancers
      <4> QED
        BY <1>l, <2>1, <3>1, <4>1
    <3>2. CASE Cached(lb).meta \notin {"new", "held"}
      BY <1>l, <2>1, <3>2
    <3> QED
      BY <3>1, <3>2
  <2>3. TypeOK'
    BY <2>1, <2>2, CounterStep DEF IInv, TypeOK
  <2>4. LifeOrder' /\ ServiceGuarded' /\ SelectionExists'
    BY <2>1 DEF IInv, LifeOrder, ServiceGuarded, SelectionExists, Over, Guarded
  <2>5. Path'
    <3>1. Cached(lb).meta = "deleting" => \A i \in 1..Len(lb) : lb[i].meta \in {"deleting", "absent"}
      BY <1>l DEF IInv, LifeOrder
    <3>2. Cached(lb).meta = "held" => Guarded
      BY <1>l DEF IInv, LifeOrder
    <3> QED
      BY <2>1, <2>2, <3>1, <3>2 DEF Path, NormalPCs, DeletePCs, Guarded
  <2>6. AddressStays'
    <3>1. Cached(lb).meta = "absent" => Over
      BY <1>l DEF IInv, LifeOrder
    <3> QED
      BY <1>l, <2>1, <2>2, <3>1 DEF IInv, AddressStays, Over
  <2> QED
    BY <2>3, <2>4, <2>5, <2>6 DEF IInv
<1> QED
  BY <1>1, <1>2, <1>3

\* The finalizer is on the object, or its deletion is under way, before any call to MOC.
LEMMA FinalizerStep ==
  ASSUME IInv, Next, PatchFinalizer
  PROVE  IInv'
PROOF
<1>w. lb \in Windows(Kept) /\ Stored(lb) \in Kept
  <2>1. lb \in Windows(Kept)
    BY DEF IInv, TypeOK, Kept
  <2> QED
    BY <2>1, WindowEnds
<1>1. /\ pc = "finalizer" /\ UNCHANGED <<vms, service, serving, listed, before, after>>
      /\ after.meta = "held" /\ (before.meta # "new" => before = after)
  BY DEF PatchFinalizer, Goto, IInv, Path
<1>2. CASE UNCHANGED lb /\ pc' = "close"
  <2>1. TypeOK'
    BY <1>1, <1>2, CounterStep DEF IInv, TypeOK
  <2>2. LifeOrder' /\ ServiceGuarded' /\ SelectionExists'
    BY <1>1, <1>2 DEF IInv, LifeOrder, ServiceGuarded, SelectionExists, Over, Guarded
  <2>3. Path' /\ AddressStays'
    BY <1>1, <1>2 DEF IInv, Path, AddressStays, Over, Guarded, NormalPCs, DeletePCs
  <2> QED
    BY <2>1, <2>2, <2>3 DEF IInv
<1>3. CASE /\ before = after \/ Stored(lb).meta # "absent"
           /\ WriteLB(Patched(after, {"meta"})) /\ pc' = "list"
  <2> DEFINE p == Patched(after, {"meta"})
  <2>1. /\ p \in Kept
        /\ p.meta = IF before.meta # after.meta THEN PatchedMeta(after.meta, Stored(lb).meta)
                    ELSE Stored(lb).meta
        /\ p.meta # "absent" => p.address = Stored(lb).address /\ p.ready = Stored(lb).ready
    <3>1. before \in LoadBalancers /\ after \in LoadBalancers
      BY DEF IInv, TypeOK
    <3> QED
      BY <1>w, <3>1, PatchedCopy
  <2> HIDE DEF p
  <2>2. p.meta = Stored(lb).meta \/ (Stored(lb).meta = "new" /\ p.meta = "held")
    BY <1>1, <2>1 DEF PatchedMeta
  <2>3. LegalWrite(p) /\ WriteLB(p)
    BY <1>3, <2>2 DEF LegalWrite, p
  <2>4. p.meta \notin {"deleting", "absent"} =>
          /\ p.ready => p.address
          /\ p.address => service = "up"
          /\ Stored(lb).address => p.address
    BY <2>1, <2>2 DEF IInv, AddressStays, Over
  <2>5. /\ lb' \in Windows(Kept) /\ Stored(lb') = p /\ (Over => Over')
        /\ (p.meta # "absent" /\ Guarded => Guarded')
        /\ LifeOrder'
        /\ (\A i \in 1..Len(lb) : lb[i].meta \in {"deleting", "absent"}) =>
             \A i \in 1..Len(lb') : lb'[i].meta \in {"deleting", "absent"}
        /\ ~Over' =>
             /\ Stored(lb').address => service' = "up"
             /\ Stored(lb').ready => Stored(lb').address
             /\ Stored(lb).address => Stored(lb').address
             /\ \A i \in 1..Len(lb') : /\ lb'[i].address => Stored(lb').address
                                       /\ lb'[i].ready => lb'[i].address
    BY <1>1, <2>1, <2>3, <2>4, LBWritten
  <2>6. Guarded'
    <3>1. CASE before.meta = "new"
      <4>1. Stored(lb).meta \in {"new", "held", "deleting"}
        BY <1>1, <1>3, <1>w, <3>1 DEF Kept, LoadBalancers
      <4>2. before.meta # after.meta
        BY <1>1, <3>1
      <4>3. p.meta = PatchedMeta("held", Stored(lb).meta)
        BY <1>1, <2>1, <4>2
      <4>4. p.meta \in {"held", "deleting"}
        BY <4>1, <4>3 DEF PatchedMeta
      <4> QED
        BY <2>5, <4>4 DEF Guarded
    <3>2. CASE before.meta # "new"
      <4>1. Guarded /\ before = after
        BY <1>1, <3>2 DEF IInv, Path
      <4> QED
        BY <2>1, <2>5, <4>1 DEF Guarded
    <3> QED
      BY <3>1, <3>2
  <2>7. TypeOK'
    BY <1>1, <1>3, <2>5, CounterStep DEF IInv, TypeOK, Kept
  <2>8. ServiceGuarded' /\ SelectionExists'
    BY <1>1, <1>3, <2>6 DEF ServiceGuarded, SelectionExists
  <2>9. Path'
    BY <1>1, <1>3, <2>5, <2>6 DEF IInv, Path, NormalPCs, DeletePCs
  <2>10. AddressStays'
    BY <1>1, <2>5 DEF IInv, AddressStays
  <2> QED
    BY <2>5, <2>7, <2>8, <2>9, <2>10 DEF IInv
<1> QED
  BY <1>2, <1>3 DEF PatchFinalizer, Goto

\* What the deferred Close writes, complete or in part, is legal: the finalizer goes only
\* when the service is gone, and the status is patched as a whole.
LEMMA CloseWrites ==
  ASSUME IInv, Close
  PROVE  \E p \in Kept :
           /\ WriteLB(p) /\ LegalWrite(p)
           /\ p.meta \in {Stored(lb).meta, "held"} \/ (p.meta = "absent" /\ service = "absent")
           /\ p.meta \notin {"deleting", "absent"} =>
                /\ p.ready => p.address
                /\ p.address => service = "up"
                /\ Stored(lb).address => p.address
PROOF
<1> DEFINE copy == [after EXCEPT !.phase = Phase(after)]
           requests == {r \in {ConditionFields, {"meta"}, StatusFields} : Changes(before, copy, r)}
           o == Stored(lb)
<1>w. o \in Kept /\ o = lb[Len(lb)] /\ Len(lb) \in 1..Len(lb)
  <2>1. lb \in Windows(Kept)
    BY DEF IInv, TypeOK, Kept
  <2> QED
    BY <2>1, WindowEnds
<1>1. SameCopy(after, copy)
  BY PhaseCopies DEF IInv, TypeOK, Path, Close
<1>2. PICK sent \in SUBSET requests : WriteLB(Patched(copy, UNION sent))
  BY DEF Close
<1> DEFINE fields == UNION sent
           p == Patched(copy, fields)
<1>3. "address" \in fields <=> "ready" \in fields
  BY DEF ConditionFields, StatusFields
<1>t. copy \in LoadBalancers /\ before \in LoadBalancers
  BY <1>1 DEF SameCopy, IInv, TypeOK
<1> HIDE DEF requests, copy, fields
<1>4. /\ p \in Kept
      /\ p.meta = IF "meta" \in fields /\ before.meta # copy.meta
                    THEN PatchedMeta(copy.meta, o.meta) ELSE o.meta
      /\ p.meta # "absent" =>
           /\ p.address = IF "address" \in fields /\ before.address # copy.address
                            THEN copy.address ELSE o.address
           /\ p.ready = IF "ready" \in fields /\ before.ready # copy.ready
                          THEN copy.ready ELSE o.ready
  BY <1>t, <1>w, PatchedCopy
<1>5. /\ copy.meta = after.meta /\ copy.address = after.address /\ copy.ready = after.ready
      /\ {copy.address, before.address, o.address, copy.ready, before.ready, o.ready} \subseteq BOOLEAN
  BY <1>1, <1>w DEF SameCopy, IInv, TypeOK, LoadBalancers, Kept
<1>6. WriteLB(p)
  BY <1>2 DEF copy, fields
<1> HIDE DEF p
<1>7. /\ after.meta \in {"held", "deleting", "released"}
      /\ after.meta = "deleting" => before.meta = "deleting"
      /\ after.meta = "released" =>
           service = "absent" /\ \A i \in 1..Len(lb) : lb[i].meta \in {"deleting", "absent"}
  BY DEF Close, IInv, Path
<1>8. \/ p.meta = o.meta
      \/ o.meta = "new" /\ p.meta = "held"
      \/ /\ o.meta = "deleting" /\ p.meta = "absent" /\ service = "absent"
         /\ \A i \in 1..Len(lb) : lb[i].meta \in {"deleting", "absent"}
  <2>1. CASE after.meta = "held"
    BY <1>4, <1>5, <2>1 DEF PatchedMeta
  <2>2. CASE after.meta = "deleting"
    BY <1>4, <1>5, <1>7, <2>2
  <2>3. CASE after.meta = "released"
    BY <1>4, <1>5, <1>7, <1>w, <2>3 DEF PatchedMeta
  <2> QED
    BY <1>7, <2>1, <2>2, <2>3
<1>9. ASSUME p.meta \notin {"deleting", "absent"}
      PROVE  /\ p.ready => p.address
             /\ p.address => service = "up"
             /\ o.address => p.address
  <2>1. ~Over
    BY <1>8, <1>9 DEF Over
  <2>2. /\ (o.address \/ after.address => service = "up") /\ (o.ready => o.address)
        /\ (after.ready => after.address) /\ (before.address => o.address /\ after.address)
    BY <2>1 DEF IInv, AddressStays
  <2> QED
    BY <1>3, <1>4, <1>5, <1>9, <2>2
<1> QED
  BY <1>4, <1>6, <1>8, <1>9 DEF LegalWrite

\* The deferred Close keeps the invariant.
LEMMA CloseStep ==
  ASSUME IInv, Next, Close
  PROVE  IInv'
PROOF
<1> USE EmptyObject
<1>1. PICK p \in Kept :
        /\ WriteLB(p) /\ LegalWrite(p)
        /\ p.meta \in {Stored(lb).meta, "held"} \/ (p.meta = "absent" /\ service = "absent")
        /\ p.meta \notin {"deleting", "absent"} =>
             /\ p.ready => p.address
             /\ p.address => service = "up"
             /\ Stored(lb).address => p.address
  BY CloseWrites
<1>2. /\ UNCHANGED <<vms, service, serving>> /\ pc' = "idle" /\ before' = Absent /\ after' = Absent
      /\ listed' = NoMachines
  BY DEF Close
<1>3. /\ lb' \in Windows(Kept) /\ Stored(lb') = p /\ LifeOrder'
      /\ (p.meta # "absent" /\ Guarded => Guarded')
      /\ ~Over' =>
           /\ Stored(lb').address => service' = "up"
           /\ Stored(lb').ready => Stored(lb').address
           /\ \A i \in 1..Len(lb') : /\ lb'[i].address => Stored(lb').address
                                     /\ lb'[i].ready => lb'[i].address
  BY <1>1, <1>2, LBWritten
<1>4. NoMachines \in [Names -> Machines]
  BY DEF NoMachines, Unborn, Machines
<1>5. TypeOK'
  BY <1>2, <1>3, <1>4, CounterStep DEF IInv, TypeOK, Kept
<1>6. ServiceGuarded' /\ SelectionExists'
  BY <1>1, <1>2, <1>3 DEF IInv, ServiceGuarded, SelectionExists, Guarded
<1>7. Path' /\ AddressStays'
  BY <1>2, <1>3 DEF Path, AddressStays, NormalPCs, DeletePCs
<1> QED
  BY <1>3, <1>5, <1>6, <1>7 DEF IInv

-----------------------------------------------------------------------------
(* The theorems.                                                            *)

\* A new load balancer, without machines and service, satisfies the invariant.
LEMMA InvariantInit == Init => IInv
PROOF
<1> SUFFICES ASSUME Init PROVE IInv
  OBVIOUS
<1> USE EmptyObject
<1>1. PICK n \in Desires, os \in Versions :
        lb = <<[Absent EXCEPT !.meta = "new", !.desired = n, !.version = os]>>
  BY DEF Init
<1> DEFINE o == [Absent EXCEPT !.meta = "new", !.desired = n, !.version = os]
<1>2. o \in Kept /\ o.meta = "new" /\ ~o.address /\ ~o.ready
  BY DEF Kept, LoadBalancers, Absent, Phases
<1>3. NoMachines \in [Names -> Machines]
  BY DEF NoMachines, Unborn, Machines
<1>4. lb = <<o>> /\ vms = <<NoMachines>>
  BY <1>1 DEF Init
<1> HIDE DEF o
<1>5. /\ lb \in Windows(Kept) /\ Len(lb) = 1 /\ Stored(lb) = o
      /\ \A i \in 1..Len(lb) : lb[i] = o
  BY <1>2, <1>4 DEF Windows, Stored
<1>6. vms \in Windows([Names -> Machines])
  BY <1>3, <1>4 DEF Windows
<1>7. 0 \in 0..MaxEdits /\ 0 \in 0..MaxFaults /\ 0 \in 0..MaxVMFailures
  BY LoadBalancerBounds
<1>8. TypeOK
  BY <1>3, <1>5, <1>6, <1>7 DEF Init, TypeOK, Kept
<1>9. LifeOrder /\ Path /\ ServiceGuarded /\ SelectionExists /\ AddressStays
  BY <1>2, <1>5 DEF Init, LifeOrder, Path, ServiceGuarded, SelectionExists, AddressStays, Over,
                    Guarded, NormalPCs, DeletePCs
<1> QED
  BY <1>8, <1>9 DEF IInv

\* Every step keeps the invariant.
LEMMA InvariantStep == IInv /\ [Next]_vars => IInv'
PROOF
<1> SUFFICES ASSUME IInv, [Next]_vars PROVE IInv'
  OBVIOUS
<1>1. CASE UNCHANGED vars
  <2> USE <1>1 DEF vars, IInv
  <2>1. TypeOK' /\ SelectionExists'
    BY DEF TypeOK, SelectionExists
  <2>2. LifeOrder' /\ ServiceGuarded'
    BY DEF LifeOrder, ServiceGuarded, Guarded, Over
  <2>3. Path'
    BY DEF Path, Guarded
  <2>4. AddressStays'
    BY DEF AddressStays, Over
  <2> QED
    BY <2>1, <2>2, <2>3, <2>4
<1>2. CASE Next
  BY <1>2, MoveStep, MachineStep, UserStep, ReadStep, FinalizerStep, CloseStep
     DEF Next, Controller, MachineSteps
<1> QED
  BY <1>1, <1>2

\* The invariant holds throughout.
THEOREM InvariantHolds == Spec => []IInv
PROOF
  BY InvariantInit, InvariantStep, PTL DEF Spec

\* Replica counts never go below zero and only machines that exist serve, for every
\* bound on machines, edits and faults.
THEOREM TypeCorrect == Spec => []TypeOK
PROOF
<1>1. IInv => TypeOK
  BY DEF IInv
<1> QED
  BY InvariantHolds, <1>1, PTL

\* A load balancer that is not being deleted and says that it is ready has a service with
\* the address it published, for every lag of the two caches.
THEOREM ReadyBacked == Spec => []ReadyHasService
PROOF
<1>1. IInv => ReadyHasService
  BY DEF IInv, AddressStays, ReadyHasService, Over
<1> QED
  BY InvariantHolds, <1>1, PTL

-----------------------------------------------------------------------------
(* Refinement.                                                              *)

\* Every step of the controller and its environment is a step of the finalizer protocol
\* of the service or leaves the stored finalizer and the service alone.
LEMMA ProtocolStep == IInv /\ [Next]_vars => [Finalized!Next]_(Finalized!vars)
PROOF
<1> SUFFICES ASSUME IInv, [Next]_vars PROVE [Finalized!Next]_(Finalized!vars)
  OBVIOUS
<1> DEFINE m == Stored(lb).meta
           n == Stored(lb').meta
<1> USE EmptyObject
<1>t. TypeOK /\ lb \in Windows(Kept)
  BY DEF IInv, TypeOK, Kept
<1>w. /\ Stored(lb) \in Kept /\ Stored(lb) = lb[Len(lb)] /\ Len(lb) \in 1..Len(lb)
      /\ \A v \in Kept : WriteLB(v) => Stored(lb') = v
  <2>1. Stored(lb) \in Kept /\ Stored(lb) = lb[Len(lb)] /\ Len(lb) \in 1..Len(lb)
    BY <1>t, WindowEnds
  <2>2. \A v \in Kept : WriteLB(v) => Stored(lb') = v
    BY <1>t, PushedWindow DEF WriteLB
  <2> QED
    BY <2>1, <2>2
<1>s. service \in {"absent", "pending", "up"}
  BY <1>t DEF TypeOK
\* The abstract steps, in terms of the stored meta and the service before and after.
<1>1. ASSUME service' = service,
             \/ n = m
             \/ m = "new" /\ n \in {"absent", "held"}
             \/ m = "held" /\ n = "deleting"
             \/ m = "deleting" /\ n = "absent" /\ service = "absent"
      PROVE  [Finalized!Next]_(Finalized!vars)
  BY <1>1 DEF Finalized!Next, Finalized!vars, Finalized!Discard, Finalized!Hold,
              Finalized!RequestDeletion, Finalized!Release
<1>2. ASSUME n = m, m \in {"held", "deleting"}, service = "absent", service' # "absent"
      PROVE  [Finalized!Next]_(Finalized!vars)
  BY <1>2 DEF Finalized!Next, Finalized!Acquire
<1>3. ASSUME n = m, m = "deleting", service # "absent", service' = "absent"
      PROVE  [Finalized!Next]_(Finalized!vars)
  BY <1>3 DEF Finalized!Next, Finalized!Free
<1>4. CASE ListVMs \/ ScaleUp \/ ScaleDown \/ ReconcileService \/ ReconcileServiceStatus
  <2>1. /\ UNCHANGED lb
        /\ service' = service \/ (pc \in NormalPCs /\ service = "absent" /\ service' = "pending")
    BY <1>4 DEF ListVMs, ScaleUp, ScaleDown, ReconcileService, ReconcileServiceStatus, world, NormalPCs
  <2>2. pc \in NormalPCs => m \in {"held", "deleting"}
    BY DEF IInv, Path, Guarded
  <2> QED
    BY <1>1, <1>2, <2>1, <2>2
<1>5. CASE DeleteService \/ ListDeletedVMs \/ DeleteVMs
  <2>1. /\ UNCHANGED lb
        /\ service' = service \/ (pc \in DeletePCs /\ service' = "absent")
    BY <1>5 DEF DeleteService, ListDeletedVMs, DeleteVMs, world, DeletePCs
  <2>2. pc \in DeletePCs /\ service # "absent" => m = "deleting"
    BY <1>w DEF IInv, Path, ServiceGuarded, Guarded
  <2> QED
    BY <1>1, <1>3, <2>1, <2>2
<1>6. CASE MachineSteps \/ MachineFails \/ Disconnect \/ ObserveVMs
  <2>1. UNCHANGED lb /\ (service' = service \/ (service = "pending" /\ service' = "up"))
    BY <1>6 DEF MachineSteps, MachineRuns, MachineGone, Connect, AssignAddress, GarbageCollect,
                MachineFails, Disconnect, ObserveVMs
  <2> QED
    BY <2>1 DEF Finalized!vars
<1>7. CASE ObserveLB
  BY <1>1, <1>7, <1>t, TailWindow DEF ObserveLB
<1>8. CASE Restart
  BY <1>1, <1>8, <1>t, RelistedWindow DEF Restart
<1>9. CASE Reconcile
  BY <1>1, <1>9 DEF Reconcile, world
<1>10. CASE EditSpec
  <2>1. PICK k \in Desires, os \in Versions : WriteLB([Stored(lb) EXCEPT !.desired = k, !.version = os])
    BY <1>10 DEF EditSpec
  <2>2. /\ [Stored(lb) EXCEPT !.desired = k, !.version = os] \in Kept
        /\ [Stored(lb) EXCEPT !.desired = k, !.version = os].meta = m
    BY <1>w DEF Kept, LoadBalancers
  <2> QED
    BY <1>1, <1>10, <1>w, <2>1, <2>2 DEF EditSpec
<1>11. CASE DeleteLB
  <2>1. /\ [Stored(lb) EXCEPT !.meta = "deleting"] \in Kept
        /\ [Stored(lb) EXCEPT !.meta = "deleting"].meta = "deleting"
    BY <1>w DEF Kept, LoadBalancers
  <2> QED
    BY <1>1, <1>11, <1>w, <2>1 DEF DeleteLB
<1>12. CASE PatchFinalizer
  <2>1. after.meta = "held" /\ service' = service
    BY <1>12 DEF PatchFinalizer, IInv, Path
  <2>2. CASE UNCHANGED lb
    BY <1>1, <2>1, <2>2
  <2>3. CASE WriteLB(Patched(after, {"meta"}))
    <3> DEFINE p == Patched(after, {"meta"})
    <3>0. before \in LoadBalancers /\ after \in LoadBalancers
      BY <1>t DEF TypeOK
    <3>1. p \in Kept /\ (p.meta = m \/ p.meta = PatchedMeta("held", m))
      BY <1>w, <2>1, <3>0, PatchedCopy
    <3>2. Stored(lb') = p
      BY <1>w, <2>3, <3>1
    <3> HIDE DEF p
    <3> QED
      BY <1>1, <2>1, <3>1, <3>2 DEF PatchedMeta
  <2> QED
    BY <1>12, <2>2, <2>3 DEF PatchFinalizer
<1>13. CASE Close
  <2>1. PICK p \in Kept :
          /\ WriteLB(p) /\ LegalWrite(p)
          /\ p.meta \in {m, "held"} \/ (p.meta = "absent" /\ service = "absent")
    BY <1>13, CloseWrites
  <2>2. Stored(lb') = p /\ service' = service
    BY <1>13, <1>w, <2>1 DEF Close
  <2> QED
    BY <1>1, <2>1, <2>2 DEF LegalWrite
<1>14. CASE UNCHANGED vars
  BY <1>14 DEF vars, Finalized!vars
<1> QED
  BY <1>4, <1>5, <1>6, <1>7, <1>8, <1>9, <1>10, <1>11, <1>12, <1>13, <1>14 DEF Next, Controller

\* The controller implements the finalizer protocol for the MOC service: it is made only
\* while the stored load balancer has the finalizer, deleted only while the load balancer
\* is being deleted, and the finalizer goes only when it is gone.
THEOREM ImplementsFinalizerProtocol == Spec => FinalizerProtocol
PROOF
<1>1. Init => Finalized!Init
  <2> SUFFICES ASSUME Init PROVE Finalized!Init
    OBVIOUS
  <2>1. PICK k \in Desires, os \in Versions :
          lb = <<[Absent EXCEPT !.meta = "new", !.desired = k, !.version = os]>>
    BY DEF Init
  <2>2. Stored(lb).meta = "new"
    BY <2>1 DEF Stored, Absent
  <2> QED
    BY <2>2 DEF Init, Finalized!Init
<1> QED
  BY <1>1, InvariantHolds, ProtocolStep, PTL DEF Spec, FinalizerProtocol, Finalized!Spec
=============================================================================
