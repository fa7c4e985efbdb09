--------------------------- MODULE ScalingProofs ---------------------------
(***************************************************************************)
(* Proofs about the replicas of LoadBalancer: how many machines there are, *)
(* and when one may be taken away.  They hold for every set of replica     *)
(* counts and versions and every bound on machines and edits.  The list of *)
(* the machines has to be fresh (VmLag = 0): with VmLag = 1 a reconcile    *)
(* counts too few or too many, and TLC finds SurgeBound and ReplicaFloor   *)
(* violated.                                                               *)
(***************************************************************************)
EXTENDS LoadBalancerProofs

-----------------------------------------------------------------------------
(* The inductive invariants.                                                *)

Alive == Cardinality(Live(Stored(vms)))

\* The replica count of every copy and of every cached version is one the user asked for.
Asked ==
  /\ \A i \in 1..Len(lb) : lb[i].meta # "absent" => lb[i].desired \in Desires
  /\ after.meta # "absent" => after.desired \in Desires

\* What the reconcile counted before it makes or takes away a machine is still so.
Counted ==
  /\ pc \in {"scaleUp", "surge"} =>
       Alive <= after.replicas /\ after.replicas < after.desired + MaxSurge
  /\ pc = "scaleUp" => after.replicas < after.desired
  /\ pc = "scaleDown" => Alive > after.desired

CountInv == Len(vms) = 1 /\ Asked /\ Counted /\ SurgeBound

\* More machines than any count that may be asked for.
Crowded == \A n \in Desires : n < Alive

NoneFailed == \A v \in Names : Stored(vms)[v].running # "failed"

\* The conditions in the API server are those that the reconcile read.
ConditionsOwn ==
  pc # "idle" /\ Stored(lb).meta # "absent" =>
    /\ before.replicasReady = Stored(lb).replicasReady
    /\ before.infraReady = Stored(lb).infraReady

\* The machine above every count is there for an upgrade, and the load balancer says so.
Marked ==
  Crowded =>
    /\ pc = "idle" => Over \/ Stored(lb).replicasReady = "Upgrading"
    /\ pc # "idle" /\ after.meta = "held" => after.replicasReady = "Upgrading"

SurgeMarked == pc = "surge" => after.replicasReady = "Upgrading"

UpgradeInv ==
  /\ Len(lb) = 1 /\ NoneFailed /\ ConditionsOwn /\ Marked /\ SurgeMarked
  /\ ReplacesOnlyWhenReady

-----------------------------------------------------------------------------
(* The machines that are alive.                                             *)

LiveSame == Live(Stored(vms')) = Live(Stored(vms))

LiveShrinks ==
  \E v \in Live(Stored(vms)) : Live(Stored(vms')) = Live(Stored(vms)) \ {v}

LiveGrows ==
  \E v \in Names \ Live(Stored(vms)) : Live(Stored(vms')) = Live(Stored(vms)) \cup {v}

\* The count follows the set.
LEMMA AliveCounts ==
  /\ Alive \in Nat
  /\ LiveSame => Alive' = Alive
  /\ LiveShrinks => Alive' = Alive - 1
  /\ LiveGrows => Alive' = Alive + 1
PROOF
<1>1. IsFiniteSet(Names)
  BY FS_Interval, LoadBalancerBounds DEF Names
<1> DEFINE L == Live(Stored(vms))
           M == Live(Stored(vms'))
<1>2. L \subseteq Names
  BY DEF Live
<1>3. Alive = Cardinality(L) /\ Alive' = Cardinality(M)
  BY DEF Alive
<1>4. /\ LiveSame => M = L
      /\ LiveShrinks => \E v \in L : M = L \ {v}
      /\ LiveGrows => \E v \in Names \ L : M = L \cup {v}
  BY DEF LiveSame, LiveShrinks, LiveGrows
<1> HIDE DEF L, M
<1>5. IsFiniteSet(L)
  BY <1>1, <1>2, FS_Subset
<1>6. Cardinality(L) \in Nat
  BY <1>5, FS_CardinalityType
<1>7. \A v \in L : Cardinality(L \ {v}) = Cardinality(L) - 1
  BY <1>5, FS_RemoveElement
<1>8. \A v \in Names \ L : Cardinality(L \cup {v}) = Cardinality(L) + 1
  BY <1>5, FS_AddElement
<1> QED
  BY <1>3, <1>4, <1>6, <1>7, <1>8

\* One machine is written.
LEMMA LiveWritten ==
  ASSUME TypeOK, NEW v \in Names, NEW m \in Machines, WriteVM(v, m)
  PROVE  /\ Live(Stored(vms')) =
              IF m.meta = "live" THEN Live(Stored(vms)) \cup {v} ELSE Live(Stored(vms)) \ {v}
         /\ \A u \in Names : Stored(vms')[u] = IF u = v THEN m ELSE Stored(vms)[u]
PROOF
<1>1. /\ Stored(vms') = [Stored(vms) EXCEPT ![v] = m]
      /\ Stored(vms) \in [Names -> Machines]
  BY MachineWritten, WindowEnds DEF TypeOK
<1>2. \A u \in Names : Stored(vms')[u] = IF u = v THEN m ELSE Stored(vms)[u]
  BY <1>1
<1> QED
  BY <1>2 DEF Live

\* createOrUpdateVirtualMachine makes one machine.
LEMMA CreateGrows ==
  ASSUME TypeOK, CreateMachine
  PROVE  LiveGrows /\ \E v, m : WriteVM(v, m)
PROOF
<1> DEFINE m == [meta |-> "live", version |-> after.version, running |-> "none"]
<1>1. PICK v \in Names : Stored(vms)[v].meta = "unborn" /\ WriteVM(v, m)
  BY DEF CreateMachine
<1>2. m \in Machines /\ m.meta = "live"
  BY DEF TypeOK, LoadBalancers, Machines
<1> HIDE DEF m
<1>3. Live(Stored(vms')) = Live(Stored(vms)) \cup {v}
  BY <1>1, <1>2, LiveWritten
<1>4. v \in Names \ Live(Stored(vms))
  BY <1>1 DEF Live
<1> QED
  BY <1>1, <1>3, <1>4 DEF LiveGrows

\* deleteVirtualMachine takes away the listed machine, unless it is gone.
LEMMA DeleteShrinks ==
  ASSUME TypeOK, NEW v \in Live(listed), DeleteMachine(v)
  PROVE  \/ UNCHANGED vms
         \/ LiveShrinks /\ \E u, m : WriteVM(u, m)
PROOF
<1> DEFINE m == [listed[v] EXCEPT !.meta = "deleting"]
<1>1. CASE Stored(vms)[v].meta = "gone"
  BY <1>1 DEF DeleteMachine
<1>2. CASE Stored(vms)[v].meta # "gone"
  <2>1. v \in Names /\ listed[v].meta = "live" /\ Stored(vms)[v] = listed[v] /\ WriteVM(v, m)
    BY <1>2 DEF DeleteMachine, Deletable, Live
  <2>2. m \in Machines /\ m.meta = "deleting"
    BY <2>1 DEF TypeOK, Machines
  <2> HIDE DEF m
  <2>3. Live(Stored(vms')) = Live(Stored(vms)) \ {v}
    BY <2>1, <2>2, LiveWritten
  <2>4. v \in Live(Stored(vms))
    BY <2>1 DEF Live
  <2> QED
    BY <2>1, <2>3, <2>4 DEF LiveShrinks
<1> QED
  BY <1>1, <1>2

\* Which step makes or takes away machines, and how the cache of the machines moves.
LEMMA MachinesMove ==
  ASSUME IInv, Next
  PROVE  /\ \/ LiveSame
            \/ LiveShrinks /\ (ScaleDown \/ GarbageCollect \/ DeleteVMs)
            \/ LiveGrows /\ ScaleUp
         /\ \/ UNCHANGED vms
            \/ \E v, m : WriteVM(v, m)
            \/ ObserveVMs
            \/ vms' = Relisted(vms)
PROOF
<1> DEFINE Goal == /\ \/ LiveSame
                      \/ LiveShrinks /\ (ScaleDown \/ GarbageCollect \/ DeleteVMs)
                      \/ LiveGrows /\ ScaleUp
                   /\ \/ UNCHANGED vms
                      \/ \E v, m : WriteVM(v, m)
                      \/ ObserveVMs
                      \/ vms' = Relisted(vms)
<1> SUFFICES Goal
  OBVIOUS
<1>t. /\ TypeOK /\ SelectionExists /\ vms \in Windows([Names -> Machines])
      /\ Stored(vms) \in [Names -> Machines]
  BY WindowEnds DEF IInv, TypeOK
<1>1. ASSUME UNCHANGED vms PROVE Goal
  BY <1>1 DEF LiveSame
<1>2. ASSUME NEW v \in Live(listed), DeleteMachine(v), ScaleDown \/ DeleteVMs PROVE Goal
  BY <1>t, <1>1, <1>2, DeleteShrinks
<1>3. ASSUME CreateMachine, ScaleUp PROVE Goal
  BY <1>t, <1>3, CreateGrows
<1> HIDE DEF Goal
<1>4. CASE ScaleUp
  <2>1. CreateMachine \/ UNCHANGED vms
    BY <1>4 DEF ScaleUp
  <2> QED
    BY <1>1, <1>3, <1>4, <2>1
<1>5. CASE ScaleDown
  <2>1. pc = "scaleDown" /\ (DeleteMachine(Selected) \/ UNCHANGED vms)
    BY <1>5 DEF ScaleDown
  <2>2. Selected \in Live(listed)
    BY <1>t, <2>1, SelectsListed DEF SelectionExists
  <2> QED
    BY <1>1, <1>2, <1>5, <2>1, <2>2
<1>6. CASE DeleteVMs
  <2>1. UNCHANGED vms \/ \E v \in Live(listed) : DeleteMachine(v)
    BY <1>6 DEF DeleteVMs
  <2> QED
    BY <1>1, <1>2, <1>6, <2>1
<1>7. CASE GarbageCollect
  <2>1. PICK v \in Live(Stored(vms)) : WriteVM(v, [Stored(vms)[v] EXCEPT !.meta = "deleting"])
    BY <1>7 DEF GarbageCollect
  <2> DEFINE m == [Stored(vms)[v] EXCEPT !.meta = "deleting"]
  <2>2. v \in Names /\ m \in Machines /\ m.meta = "deleting"
    BY <1>t DEF Live, Machines
  <2>3. WriteVM(v, m)
    BY <2>1
  <2> HIDE DEF m
  <2>4. Live(Stored(vms')) = Live(Stored(vms)) \ {v}
    BY <1>t, <2>2, <2>3, LiveWritten
  <2> QED
    BY <1>7, <2>3, <2>4 DEF Goal, LiveShrinks
<1>8. CASE MachineRuns \/ MachineFails
  <2>1. PICK v \in Live(Stored(vms)), c \in {"True", "failed"} :
          WriteVM(v, [Stored(vms)[v] EXCEPT !.running = c])
    BY <1>8 DEF MachineRuns, MachineFails
  <2> DEFINE m == [Stored(vms)[v] EXCEPT !.running = c]
  <2>2. v \in Names /\ m \in Machines /\ m.meta = "live"
    BY <1>t DEF Live, Machines
  <2>3. WriteVM(v, m)
    BY <2>1
  <2> HIDE DEF m
  <2>4. Live(Stored(vms')) = Live(Stored(vms)) \cup {v}
    BY <1>t, <2>2, <2>3, LiveWritten
  <2> QED
    BY <2>3, <2>4 DEF Goal, LiveSame
<1>9. CASE MachineGone
  <2>1. PICK v \in Names : /\ Stored(vms)[v].meta = "deleting"
                           /\ WriteVM(v, [Stored(vms)[v] EXCEPT !.meta = "gone"])
    BY <1>9 DEF MachineGone
  <2> DEFINE m == [Stored(vms)[v] EXCEPT !.meta = "gone"]
  <2>2. m \in Machines /\ m.meta = "gone" /\ v \notin Live(Stored(vms))
    BY <1>t, <2>1 DEF Live, Machines
  <2>3. WriteVM(v, m)
    BY <2>1
  <2> HIDE DEF m
  <2>4. Live(Stored(vms')) = Live(Stored(vms)) \ {v}
    BY <1>t, <2>2, <2>3, LiveWritten
  <2> QED
    BY <2>2, <2>3, <2>4 DEF Goal, LiveSame
<1>10. CASE ObserveVMs
  <2>1. Stored(vms') = Stored(vms)
    BY <1>t, <1>10, TailWindow DEF ObserveVMs
  <2> QED
    BY <1>10, <2>1 DEF Goal, LiveSame
<1>11. CASE Restart
  <2>1. vms' = Relisted(vms) /\ Stored(vms') = Stored(vms)
    BY <1>t, <1>11, RelistedWindow DEF Restart
  <2> QED
    BY <2>1 DEF Goal, LiveSame
<1>12. CASE \/ Reconcile \/ PatchFinalizer \/ ListVMs \/ ReconcileService
            \/ ReconcileServiceStatus \/ DeleteService \/ ListDeletedVMs \/ Close
            \/ Connect \/ AssignAddress \/ ObserveLB \/ EditSpec \/ DeleteLB \/ Disconnect
  BY <1>1, <1>12 DEF Reconcile, PatchFinalizer, ListVMs, ReconcileService, ReconcileServiceStatus,
                     DeleteService, ListDeletedVMs, Close, Connect, AssignAddress, ObserveLB,
                     EditSpec, DeleteLB, Disconnect, world
<1> QED
  BY <1>4, <1>5, <1>6, <1>7, <1>8, <1>9, <1>10, <1>11, <1>12 DEF Next, Controller, MachineSteps

\* With VmLag = 0 the cache of the machines is never behind.
LEMMA ListFresh ==
  ASSUME IInv, Next, VmLag = 0, Len(vms) = 1
  PROVE  Len(vms') = 1
PROOF
<1>1. CASE \E v, m : WriteVM(v, m)
  BY <1>1, FreshWindow DEF WriteVM
<1>2. CASE ObserveVMs
  BY <1>2 DEF ObserveVMs
<1>3. CASE vms' = Relisted(vms)
  BY <1>3, FreshWindow
<1> QED
  BY <1>1, <1>2, <1>3, MachinesMove

-----------------------------------------------------------------------------
(* The copies of the load balancer.                                         *)

\* The counts from which the replicas are decided are those of the list.
LEMMA ListDecides ==
  ASSUME TypeOK, ListVMs
  PROVE  /\ pc = "list" /\ UNCHANGED <<lb, vms>>
         /\ \/ /\ Goto("service", [after EXCEPT !.replicasReady = "VMFailed"])
               /\ \E v \in Live(Cached(vms)) : Cached(vms)[v].running = "failed"
            \/ \E o \in LoadBalancers :
                 /\ o.desired = after.desired /\ o.meta = after.meta
                 /\ o.replicas = Cardinality(Live(Cached(vms)))
                 /\ o.replicasReady = after.replicasReady
                 /\ Goto(Scale(o, Cached(vms))[1], Scale(o, Cached(vms))[2])
PROOF
<1> DEFINE live == Live(Cached(vms))
           n == Cardinality(live)
           one == [after EXCEPT !.replicas = n]
           two == [ServiceStatus(after) EXCEPT !.replicas = n]
<1>1. n \in Nat /\ Cardinality(serving) \in Nat
  BY CountMachines DEF Live, TypeOK
<1>2. /\ one \in LoadBalancers /\ one.meta = after.meta /\ one.desired = after.desired
      /\ one.replicas = n /\ one.replicasReady = after.replicasReady
  BY <1>1 DEF TypeOK, LoadBalancers
<1>3. /\ two \in LoadBalancers /\ two.meta = after.meta /\ two.desired = after.desired
      /\ two.replicas = n /\ two.replicasReady = after.replicasReady
  <2> DEFINE a == after.address \/ service = "up"
             r == Cardinality(serving)
  <2>1. a \in BOOLEAN /\ r \in Nat
    BY <1>1 DEF TypeOK, LoadBalancers
  <2>2. two = [after EXCEPT !.address = a, !.readyReplicas = r, !.replicas = n]
    BY DEF ServiceStatus
  <2> HIDE DEF a, r, n
  <2> QED
    BY <1>1, <2>1, <2>2 DEF TypeOK, LoadBalancers
<1>4. \/ /\ Goto("service", [after EXCEPT !.replicasReady = "VMFailed"])
         /\ \E v \in live : Cached(vms)[v].running = "failed"
      \/ \E o \in {one, two} : Goto(Scale(o, Cached(vms))[1], Scale(o, Cached(vms))[2])
  BY DEF ListVMs
<1>5. pc = "list" /\ UNCHANGED <<lb, vms>>
  BY DEF ListVMs, world
<1> HIDE DEF one, two, n
<1> QED
  BY <1>2, <1>3, <1>4, <1>5 DEF n

\* The decision itself: a machine is made only below the count that goes with it and
\* taken away only above it, and an upgrade that waits or that is going on says so.
LEMMA ScaleDecides ==
  ASSUME NEW o \in LoadBalancers, NEW machines
  PROVE  LET label == Scale(o, machines)[1]
             copy == Scale(o, machines)[2]
         IN  /\ label = "scaleUp" => o.replicas < o.desired
             /\ label = "surge" => /\ ~(o.replicas < o.desired) /\ ~(o.replicas > o.desired)
                                   /\ copy.replicasReady = "Upgrading"
             /\ label = "scaleDown" =>
                  /\ o.replicas > o.desired
                  /\ o.replicasReady = "Upgrading" => ~(o.readyReplicas < o.replicas)
             /\ o.replicasReady = "Upgrading" /\ o.replicas > o.desired =>
                  copy.replicasReady = "Upgrading"
             /\ copy.readyReplicas = o.readyReplicas /\ copy.desired = o.desired
             /\ copy.replicas = o.replicas /\ copy.meta = o.meta
PROOF
<1> DEFINE r == Scale(o, machines)
           unready == o.readyReplicas < o.replicas
<1>n. /\ o.replicas \in Nat /\ o.desired \in Nat /\ o.readyReplicas \in Nat
      /\ ~(isScaleUpRequired(o) /\ isScaleDownRequired(o))
  <2>1. o.desired \in Desires \cup {0} /\ o.replicas \in Nat /\ o.readyReplicas \in Nat
    BY DEF LoadBalancers
  <2>2. Desires \cup {0} \subseteq Nat
    BY LoadBalancerBounds
  <2>3. o.desired \in Nat
    BY <2>1, <2>2, Zenon
  <2> QED
    BY <2>1, <2>3 DEF isScaleUpRequired, isScaleDownRequired
<1>c. \A c : LET p == [o EXCEPT !.replicasReady = c]
             IN  /\ p.replicasReady = c /\ p.readyReplicas = o.readyReplicas
                 /\ p.desired = o.desired /\ p.replicas = o.replicas /\ p.meta = o.meta
  BY DEF LoadBalancers
<1> USE DEF isScaleUpRequired, isScaleDownRequired
<1>1. CASE unready /\ (replicasAreUpgrading(o) \/ replicasAreScalingUp(o))
  <2>1. r = <<"service", o>>
    BY <1>1 DEF Scale
  <2> QED
    BY <2>1
<1>2. CASE ~(unready /\ (replicasAreUpgrading(o) \/ replicasAreScalingUp(o)))
           /\ unready /\ ~isScaleDownRequired(o)
  <2> DEFINE p == [o EXCEPT !.replicasReady = "Waiting"]
  <2>1. r = <<"service", p>>
    BY <1>2 DEF Scale
  <2>2. /\ p.readyReplicas = o.readyReplicas
        /\ p.desired = o.desired /\ p.replicas = o.replicas /\ p.meta = o.meta
    BY <1>c
  <2> HIDE DEF p
  <2> QED
    BY <1>2, <2>1, <2>2
<1>3. CASE /\ ~(unready /\ (replicasAreUpgrading(o) \/ replicasAreScalingUp(o)))
           /\ ~(unready /\ ~isScaleDownRequired(o))
  <2>b. \A reason : LET p == Because(o, reason)
                    IN  /\ o.replicasReady = "Upgrading" => p.replicasReady = "Upgrading"
                        /\ p.readyReplicas = o.readyReplicas
                        /\ p.desired = o.desired /\ p.replicas = o.replicas /\ p.meta = o.meta
    BY <1>c DEF Because, replicasAreUpgrading
  <2>1. CASE isScaleUpRequired(o)
    <3>1. r = <<"scaleUp", Because(o, "ScalingUp")>>
      BY <1>3, <2>1 DEF Scale
    <3> QED
      BY <1>n, <2>1, <2>b, <3>1
  <2>2. CASE ~isScaleUpRequired(o) /\ isScaleDownRequired(o)
    <3>1. r = <<"scaleDown", Because(o, "ScalingDown")>>
      BY <1>3, <2>2 DEF Scale
    <3> QED
      BY <1>3, <1>n, <2>2, <2>b, <3>1 DEF replicasAreUpgrading
  <2>3. CASE ~isScaleUpRequired(o) /\ ~isScaleDownRequired(o) /\ isUpgradeRequired(o, machines)
    <3> DEFINE p == [o EXCEPT !.replicasReady = "Upgrading"]
    <3>1. r = <<"surge", p>>
      BY <1>3, <2>3 DEF Scale
    <3>2. /\ p.replicasReady = "Upgrading" /\ p.readyReplicas = o.readyReplicas
          /\ p.desired = o.desired /\ p.replicas = o.replicas /\ p.meta = o.meta
      BY <1>c
    <3> HIDE DEF p
    <3> QED
      BY <2>3, <3>1, <3>2
  <2>4. CASE ~isScaleUpRequired(o) /\ ~isScaleDownRequired(o) /\ ~isUpgradeRequired(o, machines)
    <3> DEFINE c == IF IsFalse(o.replicasReady) THEN "True" ELSE o.replicasReady
               p == [o EXCEPT !.replicasReady = c]
    <3>1. r = <<"service", p>>
      BY <1>3, <2>4 DEF Scale
    <3>2. /\ p.readyReplicas = o.readyReplicas
          /\ p.desired = o.desired /\ p.replicas = o.replicas /\ p.meta = o.meta
      BY <1>c
    <3> HIDE DEF p
    <3> QED
      BY <2>4, <3>1, <3>2
  <2> QED
    BY <2>1, <2>2, <2>3, <2>4
<1> QED
  BY <1>1, <1>2, <1>3

\* The patches of the scope never write the specification, and a condition only if the
\* reconcile changed it.
LEMMA PatchedFields ==
  ASSUME Stored(lb) \in Kept, NEW copy, NEW fields, "desired" \notin fields
  PROVE  LET o == Stored(lb)
             p == Patched(copy, fields)
         IN  p.meta # "absent" =>
               /\ o.meta # "absent" /\ p.desired = o.desired
               /\ p.replicasReady =
                    IF "replicasReady" \in fields /\ before.replicasReady # copy.replicasReady
                      THEN copy.replicasReady ELSE o.replicasReady
               /\ "infraReady" \notin fields => p.infraReady = o.infraReady
               /\ o.meta = "deleting" => p.meta = "deleting"
PROOF
<1> DEFINE o == Stored(lb)
           m == Merged(o, before, copy, fields)
<1>1. DOMAIN o = {"meta", "desired", "version", "ready", "address", "replicas", "readyReplicas",
                  "replicasReady", "infraReady", "phase"}
  BY DEF Kept, LoadBalancers
<1>2. /\ m.meta = IF "meta" \in fields /\ before.meta # copy.meta
                    THEN PatchedMeta(copy.meta, o.meta) ELSE o.meta
      /\ m.desired = o.desired
      /\ m.replicasReady =
           IF "replicasReady" \in fields /\ before.replicasReady # copy.replicasReady
             THEN copy.replicasReady ELSE o.replicasReady
      /\ "infraReady" \notin fields => m.infraReady = o.infraReady
  BY <1>1 DEF Merged
<1>3. /\ o.meta = "absent" => m.meta = "absent"
      /\ o.meta = "deleting" => m.meta \in {"deleting", "absent"}
  BY <1>2 DEF PatchedMeta
<1>4. Patched(copy, fields) = IF m.meta = "absent" THEN Absent ELSE m
  BY DEF Patched
<1>5. Absent.meta = "absent"
  BY EmptyObject
<1> HIDE DEF m, o
<1>6. CASE m.meta = "absent"
  BY <1>4, <1>5, <1>6
<1>7. CASE m.meta # "absent"
  BY <1>2, <1>3, <1>4, <1>7 DEF o
<1> QED
  BY <1>6, <1>7

\* What Close sends.
LEMMA CloseSends ==
  ASSUME IInv, Close
  PROVE  \E copy \in LoadBalancers : \E fields :
           /\ SameCopy(after, copy) /\ copy.replicasReady = after.replicasReady
           /\ copy.infraReady = after.infraReady
           /\ "desired" \notin fields /\ WriteLB(Patched(copy, fields))
           /\ \/ Fault
              \/ Len(lb) > 1
              \/ \E f \in ConditionFields : Stored(lb)[f] # before[f]
              \/ before.replicasReady # copy.replicasReady => "replicasReady" \in fields
PROOF
<1> DEFINE copy == [after EXCEPT !.phase = Phase(after)]
           requests == {r \in {ConditionFields, {"meta"}, StatusFields} : Changes(before, copy, r)}
<1>1. SameCopy(after, copy)
  BY PhaseCopies DEF IInv, TypeOK, Path, Close
<1>2. copy.replicasReady = after.replicasReady /\ copy.infraReady = after.infraReady
  BY DEF IInv, TypeOK, LoadBalancers
<1>3. PICK sent \in SUBSET requests :
        /\ WriteLB(Patched(copy, UNION sent))
        /\ IF \/ sent = requests
              \/ (Refused(copy) \/ Len(lb) > 1) /\ requests \ sent = {ConditionFields}
             THEN UNCHANGED faults ELSE Fault
  BY DEF Close
<1> DEFINE fields == UNION sent
<1>4. "desired" \notin fields
  BY DEF ConditionFields, StatusFields
<1>5. Refused(copy) => \E f \in ConditionFields : Stored(lb)[f] # before[f]
  BY DEF Refused
<1>6. before.replicasReady # copy.replicasReady => ConditionFields \in requests
  BY DEF Changes, ConditionFields
<1>7. sent = requests =>
        (before.replicasReady # copy.replicasReady => "replicasReady" \in fields)
  <2>1. "replicasReady" \in ConditionFields
    BY DEF ConditionFields
  <2> HIDE DEF copy, requests
  <2> QED
    BY <1>6, <2>1
<1> HIDE DEF copy, requests, fields
<1>8. WriteLB(Patched(copy, fields))
  BY <1>3 DEF fields
<1>9. copy \in LoadBalancers
  BY <1>1 DEF SameCopy
<1> QED
  BY <1>1, <1>2, <1>3, <1>4, <1>5, <1>7, <1>8, <1>9

\* Only the read of the object changes the replica count that a reconcile works with.
LEMMA CopyKeepsAsked ==
  ASSUME IInv,
         \/ PatchFinalizer \/ ListVMs \/ ScaleUp \/ ScaleDown \/ ReconcileService
         \/ ReconcileServiceStatus \/ DeleteService \/ ListDeletedVMs \/ DeleteVMs
  PROVE  after.meta # "absent" /\ after'.desired = after.desired
PROOF
<1>t. TypeOK /\ after \in LoadBalancers
  BY DEF IInv, TypeOK
<1>1. after.meta # "absent"
  BY DEF IInv, Path, NormalPCs, DeletePCs, PatchFinalizer, ListVMs, ScaleUp, ScaleDown,
         ReconcileService, ReconcileServiceStatus, DeleteService, ListDeletedVMs, DeleteVMs
<1>2. Failed => after'.desired = after.desired
  BY <1>t DEF Failed, Goto, LoadBalancers
<1>3. \A label : Goto(label, after) => after'.desired = after.desired
  BY DEF Goto
<1>4. CASE PatchFinalizer \/ ReconcileService \/ DeleteService \/ ListDeletedVMs
  BY <1>1, <1>2, <1>3, <1>4 DEF PatchFinalizer, ReconcileService, DeleteService, ListDeletedVMs
<1>5. CASE ListVMs
  <2>1. CASE Goto("service", [after EXCEPT !.replicasReady = "VMFailed"])
    BY <1>1, <1>t, <2>1 DEF Goto, LoadBalancers
  <2>2. ASSUME NEW o \in LoadBalancers, o.desired = after.desired,
               Goto(Scale(o, Cached(vms))[1], Scale(o, Cached(vms))[2])
        PROVE  after'.desired = after.desired
    BY <2>2, ScaleDecides DEF Goto
  <2> QED
    BY <1>1, <1>5, <1>t, <2>1, <2>2, ListDecides
<1>6. CASE ScaleUp
  <2>1. \A label, r : Goto(label, [after EXCEPT !.replicas = r]) => after'.desired = after.desired
    BY <1>t DEF Goto, LoadBalancers
  <2> QED
    BY <1>1, <1>2, <1>6, <2>1 DEF ScaleUp
<1>7. CASE ScaleDown
  <2>1. \A label, r : Goto(label, [after EXCEPT !.replicas = r]) => after'.desired = after.desired
    BY <1>t DEF Goto, LoadBalancers
  <2> QED
    BY <1>1, <1>2, <1>7, <2>1 DEF ScaleDown
<1>8. CASE ReconcileServiceStatus
  <2> DEFINE q == IF after.address THEN after ELSE ServiceStatus(after)
  <2>1. Failed \/ Goto("close", SetReady(q))
    BY <1>8 DEF ReconcileServiceStatus
  <2>2. q.desired = after.desired /\ \E a, r : q = [after EXCEPT !.address = a, !.readyReplicas = r]
    <3>1. CASE after.address
      <4>1. after = [after EXCEPT !.address = after.address, !.readyReplicas = after.readyReplicas]
        BY <1>t DEF LoadBalancers
      <4> QED
        BY <3>1, <4>1
    <3>2. CASE ~after.address
      BY <1>t, <3>2 DEF ServiceStatus, LoadBalancers
    <3> QED
      BY <3>1, <3>2
  <2> HIDE DEF q
  <2>3. SetReady(q).desired = q.desired
    BY <1>t, <2>2 DEF SetReady, LoadBalancers
  <2> QED
    BY <1>1, <1>2, <2>1, <2>2, <2>3 DEF Goto
<1>9. CASE DeleteVMs
  <2> DEFINE o == [after EXCEPT !.meta = "released", !.infraReady = "False"]
  <2>1. Failed \/ Goto("deleteVMs", after) \/ Goto("close", o)
    BY <1>9 DEF DeleteVMs
  <2>2. o.desired = after.desired
    BY <1>t DEF LoadBalancers
  <2> HIDE DEF o
  <2> QED
    BY <1>1, <1>2, <1>3, <2>1, <2>2 DEF Goto
<1> QED
  BY <1>4, <1>5, <1>6, <1>7, <1>8, <1>9

-----------------------------------------------------------------------------
(* The replica counts.                                                      *)

\* Every version of the load balancer that comes into the cache asks for a legal count.
LEMMA AskedStep ==
  ASSUME IInv, Asked, Next
  PROVE  Asked'
PROOF
<1>w. /\ lb \in Windows(Kept) /\ Stored(lb) \in Kept /\ Stored(lb) = lb[Len(lb)]
      /\ Len(lb) \in 1..Len(lb) /\ 1 \in 1..Len(lb) /\ Cached(lb) = lb[1]
  <2>1. lb \in Windows(Kept)
    BY DEF IInv, TypeOK, Kept
  <2> QED
    BY <2>1, WindowEnds
<1>s. Stored(lb).meta # "absent" => Stored(lb).desired \in Desires
  BY <1>w DEF Asked
<1> DEFINE Window == \A i \in 1..Len(lb) : lb[i].meta # "absent" => lb[i].desired \in Desires
<1>1. ASSUME NEW v \in Kept, WriteLB(v), v.meta # "absent" => v.desired \in Desires
      PROVE  Window'
  <2>1. \A i \in 1..Len(lb') :
          \/ i \in 1..Len(lb) /\ lb'[i] = lb[i]
          \/ i = Len(lb') /\ lb'[i] = v
    BY <1>1, <1>w, PushedWindow DEF WriteLB
  <2> QED
    BY <1>1, <2>1 DEF Asked
<1>2. UNCHANGED lb => Window'
  BY DEF Asked
<1>3. after.meta # "absent" => after.desired \in Desires
  BY DEF Asked
<1>a. Absent.meta = "absent" /\ Absent \in Kept
  BY EmptyObject
<1>4. ASSUME NEW copy \in LoadBalancers, NEW fields, "desired" \notin fields,
             WriteLB(Patched(copy, fields))
      PROVE  Window'
  <2> DEFINE p == Patched(copy, fields)
  <2>1. p \in Kept
    BY <1>w, PatchedCopy DEF IInv, TypeOK
  <2>2. p.meta # "absent" => Stored(lb).meta # "absent" /\ p.desired = Stored(lb).desired
    BY <1>4, <1>w, PatchedFields
  <2>3. WriteLB(p)
    BY <1>4
  <2> HIDE DEF p
  <2> QED
    BY <1>1, <1>s, <2>1, <2>2, <2>3
<1> SUFFICES Window' /\ (after'.meta # "absent" => after'.desired \in Desires)
  BY DEF Asked
<1> HIDE DEF Window
<1>5. CASE \/ ListVMs \/ ScaleUp \/ ScaleDown \/ ReconcileService
           \/ ReconcileServiceStatus \/ DeleteService \/ ListDeletedVMs \/ DeleteVMs
  <2>1. UNCHANGED lb
    BY <1>5 DEF ListVMs, ScaleUp, ScaleDown, ReconcileService, ReconcileServiceStatus,
                DeleteService, ListDeletedVMs, DeleteVMs, world
  <2> QED
    BY <1>2, <1>3, <1>5, <2>1, CopyKeepsAsked
<1>6. CASE PatchFinalizer
  <2>1. UNCHANGED lb \/ WriteLB(Patched(after, {"meta"}))
    BY <1>6 DEF PatchFinalizer
  <2>2. after \in LoadBalancers /\ "desired" \notin {"meta"}
    BY DEF IInv, TypeOK
  <2> QED
    BY <1>2, <1>3, <1>4, <1>6, <2>1, <2>2, CopyKeepsAsked
<1>7. CASE Close
  <2>1. after' = Absent
    BY <1>7 DEF Close
  <2> QED
    BY <1>4, <1>7, <1>a, <2>1, CloseSends
<1>8. CASE Reconcile
  <2>1. UNCHANGED lb /\ Cached(lb) \in LoadBalancers
    BY <1>8, <1>w, WindowEnds, EmptyObject DEF Reconcile, world
  <2>2. \/ after' = Absent
        \/ /\ Cached(lb).meta # "absent"
           /\ after' = Cached(lb) \/ after' = [Cached(lb) EXCEPT !.meta = "held"]
    BY <1>8 DEF Reconcile
  <2>3. [Cached(lb) EXCEPT !.meta = "held"].desired = Cached(lb).desired
    BY <2>1 DEF LoadBalancers
  <2>4. Cached(lb).meta # "absent" => Cached(lb).desired \in Desires
    BY <1>w DEF Asked
  <2> QED
    BY <1>2, <1>a, <2>1, <2>2, <2>3, <2>4
<1>9. CASE EditSpec
  <2>1. PICK n \in Desires, os \in Versions :
          WriteLB([Stored(lb) EXCEPT !.desired = n, !.version = os])
    BY <1>9 DEF EditSpec
  <2> DEFINE v == [Stored(lb) EXCEPT !.desired = n, !.version = os]
  <2>2. v \in Kept /\ v.desired = n
    BY <1>w DEF Kept, LoadBalancers
  <2>3. WriteLB(v)
    BY <2>1
  <2> HIDE DEF v
  <2> QED
    BY <1>1, <1>3, <1>9, <2>2, <2>3 DEF EditSpec, control
<1>10. CASE DeleteLB
  <2> DEFINE v == [Stored(lb) EXCEPT !.meta = "deleting"]
  <2>1. WriteLB(Absent) \/ WriteLB(v)
    BY <1>10 DEF DeleteLB
  <2>2. v \in Kept /\ v.desired = Stored(lb).desired /\ Stored(lb).meta # "absent"
    BY <1>10, <1>w DEF Kept, LoadBalancers, DeleteLB
  <2> HIDE DEF v
  <2> QED
    BY <1>1, <1>3, <1>10, <1>a, <1>s, <2>1, <2>2 DEF DeleteLB, control
<1>11. CASE ObserveLB
  <2>1. \A i \in 1..Len(lb') : i + 1 \in 1..Len(lb) /\ lb'[i] = lb[i + 1]
    BY <1>11, <1>w, TailWindow DEF ObserveLB
  <2>2. Window'
    BY <2>1 DEF Window, Asked
  <2> QED
    BY <1>3, <1>11, <2>2 DEF ObserveLB, control
<1>12. CASE Restart
  <2>1. (\A i \in 1..Len(lb') : lb'[i] = Stored(lb)) /\ after' = Absent
    BY <1>12, <1>w, RelistedWindow DEF Restart
  <2>2. Window'
    BY <1>s, <2>1 DEF Window
  <2> QED
    BY <1>a, <2>1, <2>2
<1>13. CASE MachineSteps \/ ObserveVMs \/ MachineFails \/ Disconnect
  <2>1. UNCHANGED <<lb, after>>
    BY <1>13 DEF MachineSteps, MachineRuns, MachineGone, Connect, AssignAddress, GarbageCollect,
                 ObserveVMs, MachineFails, Disconnect, control
  <2> QED
    BY <1>2, <1>3, <2>1
<1> QED
  BY <1>5, <1>6, <1>7, <1>8, <1>9, <1>10, <1>11, <1>12, <1>13 DEF Next, Controller

\* The counts of a copy are natural numbers.
LEMMA CountsTyped ==
  ASSUME TypeOK
  PROVE  after.replicas \in Nat /\ after.desired \in Nat /\ after.readyReplicas \in Nat
PROOF
<1>1. /\ after.desired \in Desires \cup {0} /\ after.replicas \in Nat
      /\ after.readyReplicas \in Nat
  BY DEF TypeOK, LoadBalancers
<1>2. Desires \cup {0} \subseteq Nat
  BY LoadBalancerBounds
<1> QED
  BY <1>1, <1>2, Zenon

\* Making a machine: the count in the copy goes up with it, and the loop of an upgrade
\* ends at MaxSurge above the desired count.
LEMMA ScaleUpCounts ==
  ASSUME IInv, ScaleUp
  PROVE  /\ pc \in {"scaleUp", "surge"} /\ after.meta = "held"
         /\ \/ pc' \in {"service", "close"}
            \/ /\ pc' = "surge" /\ CreateMachine /\ pc = "surge"
               /\ after'.replicas = after.replicas + 1 /\ after'.desired = after.desired
               /\ after'.replicas < after'.desired + MaxSurge
PROOF
<1> DEFINE o == [after EXCEPT !.replicas = @ + 1]
<1>1. pc \in {"scaleUp", "surge"} /\ after.meta = "held"
  BY DEF ScaleUp, IInv, Path, NormalPCs
<1>2. o.replicas = after.replicas + 1 /\ o.desired = after.desired
  BY DEF IInv, TypeOK, LoadBalancers
<1>3. \/ /\ CreateMachine
         /\ Goto(IF pc = "surge" /\ o.replicas < o.desired + MaxSurge THEN "surge" ELSE "service", o)
      \/ Failed
  BY DEF ScaleUp
<1> HIDE DEF o
<1> QED
  BY <1>1, <1>2, <1>3 DEF Goto, Failed

\* The counts from which machines are made or taken away are still right when it happens.
LEMMA CountedStep ==
  ASSUME IInv, Counted, Len(vms) = 1, Next
  PROVE  Counted'
PROOF
<1>t. /\ TypeOK /\ Alive \in Nat /\ after.replicas \in Nat /\ after.desired \in Nat
      /\ (LiveSame => Alive' = Alive) /\ (LiveShrinks => Alive' = Alive - 1)
      /\ (LiveGrows => Alive' = Alive + 1)
  BY AliveCounts, CountsTyped DEF IInv
<1>1. CASE ListVMs
  <2>1. Cached(vms) = Stored(vms) /\ Alive' = Alive
    BY <1>1, <1>t, FreshWindow, ListDecides DEF LiveSame
  <2>2. CASE Goto("service", [after EXCEPT !.replicasReady = "VMFailed"])
    BY <2>2 DEF Goto, Counted
  <2>3. ASSUME NEW o \in LoadBalancers, o.desired = after.desired,
               o.replicas = Cardinality(Live(Cached(vms))),
               Goto(Scale(o, Cached(vms))[1], Scale(o, Cached(vms))[2])
        PROVE  Counted'
    <3>1. /\ pc' = "scaleUp" => o.replicas < o.desired
          /\ pc' = "surge" => ~(o.replicas > o.desired)
          /\ pc' = "scaleDown" => o.replicas > o.desired
          /\ after'.desired = o.desired /\ after'.replicas = o.replicas
      BY <2>3, ScaleDecides DEF Goto
    <3>2. o.replicas = Alive
      BY <2>1, <2>3 DEF Alive
    <3> QED
      BY <1>t, <2>1, <2>3, <3>1, <3>2 DEF Counted, MaxSurge
  <2> QED
    BY <1>1, <1>t, <2>2, <2>3, ListDecides
<1>2. CASE ScaleUp
  <2>1. CASE pc' \in {"service", "close"}
    BY <2>1 DEF Counted
  <2>2. CASE /\ pc' = "surge" /\ CreateMachine /\ pc = "surge"
             /\ after'.replicas = after.replicas + 1 /\ after'.desired = after.desired
             /\ after'.replicas < after'.desired + MaxSurge
    <3>1. Alive' = Alive + 1 /\ Alive <= after.replicas
      BY <1>t, <2>2, CreateGrows DEF Counted
    <3>2. Alive' <= after'.replicas
      BY <1>t, <2>2, <3>1
    <3> QED
      BY <2>2, <3>2 DEF Counted
  <2> QED
    BY <1>2, <2>1, <2>2, ScaleUpCounts
<1>3. CASE \/ Reconcile \/ PatchFinalizer \/ ScaleDown \/ ReconcileService \/ Restart
           \/ ReconcileServiceStatus \/ DeleteService \/ ListDeletedVMs \/ DeleteVMs \/ Close
  <2>1. pc' \notin {"scaleUp", "surge", "scaleDown"}
    BY <1>3 DEF Reconcile, PatchFinalizer, ScaleDown, ReconcileService, Restart,
                ReconcileServiceStatus, DeleteService, ListDeletedVMs, DeleteVMs, Close,
                Goto, Failed
  <2> QED
    BY <2>1 DEF Counted
<1>4. CASE /\ MachineSteps \/ ObserveLB \/ ObserveVMs \/ EditSpec \/ DeleteLB
              \/ MachineFails \/ Disconnect
           /\ ~ScaleUp /\ ~ScaleDown /\ ~DeleteVMs
  <2>1. UNCHANGED <<pc, after>>
    BY <1>4 DEF MachineSteps, MachineRuns, MachineGone, Connect, AssignAddress, GarbageCollect,
                ObserveLB, ObserveVMs, EditSpec, DeleteLB, MachineFails, Disconnect, control
  <2>2. pc \in {"scaleUp", "surge", "scaleDown"} => ~GarbageCollect
    BY DEF GarbageCollect, IInv, Path, NormalPCs, Guarded
  <2>3. pc \in {"scaleUp", "surge", "scaleDown"} => Alive' = Alive
    BY <1>4, <1>t, <2>2, MachinesMove
  <2> QED
    BY <2>1, <2>3 DEF Counted
<1> QED
  BY <1>1, <1>2, <1>3, <1>4 DEF Next, Controller

\* No step makes more machines than a count that may be asked for and MaxSurge.
LEMMA SurgeStep ==
  ASSUME IInv, Asked, Counted, SurgeBound, Next
  PROVE  SurgeBound'
PROOF
<1>t. /\ Alive \in Nat /\ after.replicas \in Nat /\ after.desired \in Nat /\ Desires \subseteq Nat
      /\ (LiveSame => Alive' = Alive) /\ (LiveShrinks => Alive' = Alive - 1)
      /\ (LiveGrows => Alive' = Alive + 1)
  BY AliveCounts, CountsTyped, LoadBalancerBounds DEF IInv
<1>b. SurgeBound <=> \E n \in Desires : Alive <= n + MaxSurge
  BY DEF SurgeBound, Alive
<1>c. SurgeBound' <=> \E n \in Desires : Alive' <= n + MaxSurge
  BY DEF SurgeBound, Alive
<1>1. PICK n \in Desires : Alive <= n + MaxSurge
  BY <1>b
<1>2. CASE Alive' = Alive \/ Alive' = Alive - 1
  <2>1. Alive' <= n + MaxSurge
    BY <1>1, <1>2, <1>t DEF MaxSurge
  <2> QED
    BY <1>c, <2>1
<1>3. CASE LiveGrows /\ ScaleUp
  <2>1. after.desired \in Desires /\ Alive <= after.replicas /\ after.replicas < after.desired + MaxSurge
    BY <1>3, ScaleUpCounts DEF Asked, Counted
  <2>2. Alive' <= after.desired + MaxSurge
    BY <1>3, <1>t, <2>1 DEF MaxSurge
  <2> QED
    BY <1>c, <2>1, <2>2
<1> QED
  BY <1>2, <1>3, <1>t, MachinesMove

\* A new load balancer asks for a legal count and has no machine.
LEMMA CountInit == Init => CountInv
PROOF
<1> SUFFICES ASSUME Init PROVE CountInv
  OBVIOUS
<1>1. PICK n \in Desires, os \in Versions :
        lb = <<[Absent EXCEPT !.meta = "new", !.desired = n, !.version = os]>>
  BY DEF Init
<1> DEFINE o == [Absent EXCEPT !.meta = "new", !.desired = n, !.version = os]
<1>2. o.desired = n
  BY EmptyObject DEF LoadBalancers
<1>3. lb = <<o>> /\ vms = <<NoMachines>> /\ after = Absent /\ pc = "idle"
  BY <1>1 DEF Init
<1> HIDE DEF o
<1>4. (\A i \in 1..Len(lb) : lb[i] = o) /\ Len(vms) = 1 /\ Stored(vms) = NoMachines
  BY <1>3 DEF Stored
<1>5. Asked /\ Counted
  BY <1>2, <1>3, <1>4, EmptyObject DEF Asked, Counted
<1>6. SurgeBound
  <2>1. Live(NoMachines) = {}
    BY DEF Live, NoMachines, Unborn
  <2>2. Cardinality(Live(Stored(vms))) = 0
    BY <1>4, <2>1, FS_EmptySet
  <2>3. n \in Nat
    BY LoadBalancerBounds
  <2> QED
    BY <2>2, <2>3 DEF SurgeBound, MaxSurge
<1> QED
  BY <1>4, <1>5, <1>6 DEF CountInv

\* With a fresh list every step keeps the counts right.
LEMMA CountStep ==
  ASSUME VmLag = 0
  PROVE  IInv /\ CountInv /\ [Next]_vars => CountInv'
PROOF
<1> SUFFICES ASSUME IInv, CountInv, [Next]_vars PROVE CountInv'
  OBVIOUS
<1>1. CASE UNCHANGED vars
  BY <1>1 DEF vars, CountInv, Asked, Counted, SurgeBound, Alive
<1>2. CASE Next
  BY <1>2, ListFresh, AskedStep, CountedStep, SurgeStep DEF CountInv
<1> QED
  BY <1>1, <1>2

\* The counts are right throughout.
LEMMA CountHolds ==
  ASSUME VmLag = 0
  PROVE  Spec => [](IInv /\ CountInv)
PROOF
<1>1. IInv /\ CountInv /\ [Next]_vars => CountInv'
  BY CountStep
<1> QED
  BY <1>1, CountInit, InvariantHolds, PTL DEF Spec

-----------------------------------------------------------------------------
(* Theorems on the replica counts.                                          *)

\* If the list of the machines is never stale, there are never more machines than the
\* largest count that may be asked for and MaxSurge, whatever calls fail (also after they
\* took effect), however stale the load balancer was read, and wherever the process
\* restarts.
THEOREM SurgeBounded ==
  ASSUME VmLag = 0
  PROVE  Spec => []SurgeBound
PROOF
<1>1. CountInv => SurgeBound
  BY DEF CountInv
<1> QED
  BY <1>1, CountHolds, PTL

\* If the list of the machines is never stale, scaleDownVirtualMachines leaves at least as
\* many machines as the reconcile was asked for; the garbage collector does not interfere,
\* for the finalizer keeps the load balancer there.
THEOREM FloorKept ==
  ASSUME VmLag = 0
  PROVE  Spec => ReplicaFloor
PROOF
<1>1. IInv /\ CountInv /\ [Next]_vars =>
        [pc = "scaleDown" /\ Live(Stored(vms')) # Live(Stored(vms))
           => Cardinality(Live(Stored(vms'))) >= after.desired]_vars
  <2> SUFFICES ASSUME IInv, CountInv, Next, pc = "scaleDown", ~LiveSame
               PROVE  Alive' >= after.desired
    BY DEF Alive, LiveSame
  <2>1. /\ Alive \in Nat /\ after.desired \in Nat /\ Alive > after.desired
        /\ (LiveShrinks => Alive' = Alive - 1)
    BY AliveCounts, CountsTyped DEF IInv, CountInv, Counted
  <2>2. ~ScaleUp
    BY DEF ScaleUp
  <2> QED
    BY <2>1, <2>2, MachinesMove
<1> QED
  BY <1>1, CountHolds, PTL DEF Spec, ReplicaFloor

-----------------------------------------------------------------------------
(* Upgrades.                                                                *)

\* No call or machine fails, no process restarts and both caches are fresh.
Undisturbed == LbLag = 0 /\ VmLag = 0 /\ MaxFaults = 0 /\ MaxVMFailures = 0

\* Then the counters of the faults have nothing to count.
LEMMA NoFaults ==
  ASSUME TypeOK, Undisturbed
  PROVE  ~Fault /\ ~Failure
PROOF
  BY DEF TypeOK, Undisturbed, Fault, Failure

\* A machine fails only by MachineFails.
LEMMA NoneFailedStep ==
  ASSUME IInv, Undisturbed, NoneFailed, Next
  PROVE  NoneFailed'
PROOF
<1>t. /\ TypeOK /\ SelectionExists /\ vms \in Windows([Names -> Machines])
      /\ Stored(vms) \in [Names -> Machines] /\ listed \in [Names -> Machines]
  BY WindowEnds DEF IInv, TypeOK
<1>1. ASSUME NEW v \in Names, NEW m \in Machines, WriteVM(v, m), m.running # "failed"
      PROVE  NoneFailed'
  <2>1. \A u \in Names : Stored(vms')[u] = IF u = v THEN m ELSE Stored(vms)[u]
    BY <1>1, <1>t, LiveWritten
  <2> QED
    BY <1>1, <2>1 DEF NoneFailed
<1>2. Stored(vms') = Stored(vms) => NoneFailed'
  BY DEF NoneFailed
<1>3. ASSUME NEW v \in Names, NEW c \in {"deleting", "gone"},
             WriteVM(v, [Stored(vms)[v] EXCEPT !.meta = c])
      PROVE  NoneFailed'
  <2> DEFINE m == [Stored(vms)[v] EXCEPT !.meta = c]
  <2>1. m \in Machines /\ m.running = Stored(vms)[v].running
    BY <1>t DEF Machines
  <2>2. WriteVM(v, m)
    BY <1>3
  <2> HIDE DEF m
  <2> QED
    BY <1>1, <2>1, <2>2 DEF NoneFailed
<1>4. ASSUME NEW v \in Live(listed), DeleteMachine(v)
      PROVE  NoneFailed'
  <2>1. v \in Names
    BY DEF Live
  <2>2. UNCHANGED vms \/ WriteVM(v, [Stored(vms)[v] EXCEPT !.meta = "deleting"])
    BY <1>4 DEF DeleteMachine, Deletable
  <2> QED
    BY <1>2, <1>3, <2>1, <2>2
<1>5. CASE ScaleUp
  <2> DEFINE m == [meta |-> "live", version |-> after.version, running |-> "none"]
  <2>1. UNCHANGED vms \/ \E v \in Names : WriteVM(v, m)
    BY <1>5 DEF ScaleUp, CreateMachine
  <2>2. m \in Machines /\ m.running # "failed"
    BY <1>t DEF TypeOK, LoadBalancers, Machines
  <2> HIDE DEF m
  <2> QED
    BY <1>1, <1>2, <2>1, <2>2
<1>6. CASE ScaleDown
  <2>1. pc = "scaleDown" /\ (DeleteMachine(Selected) \/ UNCHANGED vms)
    BY <1>6 DEF ScaleDown
  <2>2. Selected \in Live(listed)
    BY <1>t, <2>1, SelectsListed DEF SelectionExists
  <2> QED
    BY <1>2, <1>4, <2>1, <2>2
<1>7. CASE DeleteVMs
  <2>1. UNCHANGED vms \/ \E v \in Live(listed) : DeleteMachine(v)
    BY <1>7 DEF DeleteVMs
  <2> QED
    BY <1>2, <1>4, <2>1
<1>8. CASE GarbageCollect \/ MachineGone
  BY <1>3, <1>8 DEF GarbageCollect, MachineGone, Live
<1>9. CASE MachineRuns
  <2>1. PICK v \in Live(Stored(vms)) : WriteVM(v, [Stored(vms)[v] EXCEPT !.running = "True"])
    BY <1>9 DEF MachineRuns
  <2> DEFINE m == [Stored(vms)[v] EXCEPT !.running = "True"]
  <2>2. v \in Names /\ m \in Machines /\ m.running # "failed"
    BY <1>t DEF Live, Machines
  <2>3. WriteVM(v, m)
    BY <2>1
  <2> HIDE DEF m
  <2> QED
    BY <1>1, <2>2, <2>3
<1>10. CASE ObserveVMs
  BY <1>2, <1>10, <1>t, TailWindow DEF ObserveVMs
<1>11. ~Restart /\ ~MachineFails
  BY <1>t, NoFaults DEF Restart, MachineFails
<1>12. CASE \/ Reconcile \/ PatchFinalizer \/ ListVMs \/ ReconcileService
            \/ ReconcileServiceStatus \/ DeleteService \/ ListDeletedVMs \/ Close
            \/ Connect \/ AssignAddress \/ ObserveLB \/ EditSpec \/ DeleteLB \/ Disconnect
  <2>1. UNCHANGED vms
    BY <1>12 DEF Reconcile, PatchFinalizer, ListVMs, ReconcileService, ReconcileServiceStatus,
                 DeleteService, ListDeletedVMs, Close, Connect, AssignAddress, ObserveLB,
                 EditSpec, DeleteLB, Disconnect, world
  <2> QED
    BY <1>2, <2>1
<1> QED
  BY <1>5, <1>6, <1>7, <1>8, <1>9, <1>10, <1>11, <1>12 DEF Next, Controller, MachineSteps

\* With LbLag = 0 the cache of the load balancer is never behind.
LEMMA ReadFresh ==
  ASSUME IInv, Undisturbed, Len(lb) = 1, Next
  PROVE  Len(lb') = 1
PROOF
<1>1. \A v : WriteLB(v) => Len(lb') = 1
  BY FreshWindow DEF WriteLB, Undisturbed
<1>2. CASE PatchFinalizer \/ EditSpec \/ DeleteLB
  BY <1>1, <1>2 DEF PatchFinalizer, EditSpec, DeleteLB
<1>3. CASE Close
  BY <1>1, <1>3, CloseSends
<1>4. ~Restart /\ ~ObserveLB
  BY NoFaults DEF IInv, Restart, ObserveLB
<1>5. CASE \/ Reconcile \/ ListVMs \/ ScaleUp \/ ScaleDown \/ ReconcileService
           \/ ReconcileServiceStatus \/ DeleteService \/ ListDeletedVMs \/ DeleteVMs
           \/ MachineSteps \/ ObserveVMs \/ MachineFails \/ Disconnect
  BY <1>5 DEF Reconcile, ListVMs, ScaleUp, ScaleDown, ReconcileService, ReconcileServiceStatus,
              DeleteService, ListDeletedVMs, DeleteVMs, MachineSteps, MachineRuns, MachineGone,
              Connect, AssignAddress, GarbageCollect, ObserveVMs, MachineFails, Disconnect, world
<1> QED
  BY <1>2, <1>3, <1>4, <1>5 DEF Next, Controller

\* Only the list of the machines decides about the condition on the replicas.
LEMMA CopyKeepsCondition ==
  ASSUME IInv,
         \/ PatchFinalizer \/ ScaleUp \/ ScaleDown \/ ReconcileService
         \/ ReconcileServiceStatus \/ DeleteService \/ ListDeletedVMs \/ DeleteVMs
  PROVE  /\ after'.replicasReady = after.replicasReady /\ before' = before
         /\ pc # "idle" /\ pc' # "idle" /\ pc' # "scaleDown" /\ (pc' = "surge" => pc = "surge")
         /\ after'.meta = "held" => after.meta = "held"
PROOF
<1>t. TypeOK /\ after \in LoadBalancers
  BY DEF IInv, TypeOK
<1> DEFINE Goal == /\ after'.replicasReady = after.replicasReady /\ before' = before
                   /\ pc' # "idle" /\ pc' # "scaleDown" /\ (pc' = "surge" => pc = "surge")
                   /\ after'.meta = "held" => after.meta = "held"
<1>1. pc # "idle"
  BY DEF PatchFinalizer, ScaleUp, ScaleDown, ReconcileService, ReconcileServiceStatus,
         DeleteService, ListDeletedVMs, DeleteVMs
<1>2. ASSUME NEW label, NEW copy, Goto(label, copy), label \notin {"idle", "scaleDown"},
             label = "surge" => pc = "surge", copy.replicasReady = after.replicasReady,
             copy.meta = "held" => after.meta = "held"
      PROVE  Goal
  BY <1>2 DEF Goto
<1> HIDE DEF Goal
<1>3. ASSUME Failed PROVE Goal
  <2> DEFINE o == [after EXCEPT !.infraReady = "False"]
  <2>1. o.replicasReady = after.replicasReady /\ o.meta = after.meta
    BY <1>t DEF LoadBalancers
  <2>2. Goto("close", o)
    BY <1>3 DEF Failed
  <2> HIDE DEF o
  <2> QED
    BY <1>2, <2>1, <2>2
<1>4. CASE PatchFinalizer \/ ReconcileService \/ DeleteService \/ ListDeletedVMs
  <2>1. Failed \/ \E label \in {"list", "close", "status", "deleteList", "deleteVMs"} :
                    Goto(label, after)
    BY <1>4 DEF PatchFinalizer, ReconcileService, DeleteService, ListDeletedVMs
  <2>2. Goal
    BY <1>2, <1>3, <2>1
  <2> QED
    BY <1>1, <2>2 DEF Goal
<1>5. \A r : LET o == [after EXCEPT !.replicas = r]
             IN  o.replicasReady = after.replicasReady /\ o.meta = after.meta
  BY <1>t DEF LoadBalancers
<1>6. CASE ScaleUp
  <2> DEFINE o == [after EXCEPT !.replicas = @ + 1]
  <2>1. \/ Failed
        \/ \E label \in {"surge", "service"} : Goto(label, o) /\ (label = "surge" => pc = "surge")
    BY <1>6 DEF ScaleUp
  <2>2. o.replicasReady = after.replicasReady /\ o.meta = after.meta
    BY <1>5
  <2> HIDE DEF o
  <2>3. Goal
    BY <1>2, <1>3, <2>1, <2>2
  <2> QED
    BY <1>1, <2>3 DEF Goal
<1>7. CASE ScaleDown
  <2> DEFINE o == [after EXCEPT !.replicas = @ - 1]
  <2>1. Failed \/ Goto("service", o)
    BY <1>7 DEF ScaleDown
  <2>2. o.replicasReady = after.replicasReady /\ o.meta = after.meta
    BY <1>5
  <2> HIDE DEF o
  <2>3. Goal
    BY <1>2, <1>3, <2>1, <2>2
  <2> QED
    BY <1>1, <2>3 DEF Goal
<1>8. CASE ReconcileServiceStatus
  <2> DEFINE q == IF after.address THEN after ELSE ServiceStatus(after)
  <2>1. Failed \/ Goto("close", SetReady(q))
    BY <1>8 DEF ReconcileServiceStatus
  <2>2. \E a, r : q = [after EXCEPT !.address = a, !.readyReplicas = r]
    <3>1. after = [after EXCEPT !.address = after.address, !.readyReplicas = after.readyReplicas]
      BY <1>t DEF LoadBalancers
    <3> QED
      BY <3>1 DEF ServiceStatus
  <2> HIDE DEF q
  <2>3. SetReady(q).replicasReady = after.replicasReady /\ SetReady(q).meta = after.meta
    BY <1>t, <2>2 DEF SetReady, LoadBalancers
  <2>4. Goal
    BY <1>2, <1>3, <2>1, <2>3
  <2> QED
    BY <1>1, <2>4 DEF Goal
<1>9. CASE DeleteVMs
  <2> DEFINE o == [after EXCEPT !.meta = "released", !.infraReady = "False"]
  <2>1. Failed \/ Goto("deleteVMs", after) \/ Goto("close", o)
    BY <1>9 DEF DeleteVMs
  <2>2. o.replicasReady = after.replicasReady /\ o.meta = "released"
    BY <1>t DEF LoadBalancers
  <2> HIDE DEF o
  <2>3. Goal
    BY <1>2, <1>3, <2>1, <2>2
  <2> QED
    BY <1>1, <2>3 DEF Goal
<1> QED
  BY <1>4, <1>6, <1>7, <1>8, <1>9

\* Only Close writes the conditions, at the end of the reconcile that read them.
LEMMA ConditionsStep ==
  ASSUME IInv, Undisturbed, Len(lb) = 1, ConditionsOwn, Next
  PROVE  ConditionsOwn'
PROOF
<1>w. lb \in Windows(Kept) /\ Stored(lb) \in Kept /\ Cached(lb) = Stored(lb)
  <2>1. lb \in Windows(Kept)
    BY DEF IInv, TypeOK, Kept
  <2> QED
    BY <2>1, WindowEnds, FreshWindow
<1>1. ASSUME NEW v, WriteLB(v), v.meta # "absent" =>
               /\ Stored(lb).meta # "absent" /\ v.replicasReady = Stored(lb).replicasReady
               /\ v.infraReady = Stored(lb).infraReady,
             before' = before, pc' # "idle" => pc # "idle"
      PROVE  ConditionsOwn'
  <2>1. Stored(lb') = v
    BY <1>1, FreshWindow DEF WriteLB, Undisturbed
  <2> QED
    BY <1>1, <2>1 DEF ConditionsOwn
<1>2. ASSUME UNCHANGED lb, before' = before, pc' # "idle" => pc # "idle"
      PROVE  ConditionsOwn'
  BY <1>2 DEF ConditionsOwn
<1>3. CASE Reconcile
  BY <1>3, <1>w DEF Reconcile, ConditionsOwn, world
<1>4. CASE PatchFinalizer
  <2> DEFINE p == Patched(after, {"meta"})
  <2>1. before' = before /\ pc # "idle" /\ (UNCHANGED lb \/ WriteLB(p))
    BY <1>4, CopyKeepsCondition DEF PatchFinalizer
  <2>2. p.meta # "absent" =>
          /\ Stored(lb).meta # "absent" /\ p.replicasReady = Stored(lb).replicasReady
          /\ p.infraReady = Stored(lb).infraReady
    BY <1>w, PatchedFields
  <2> HIDE DEF p
  <2> QED
    BY <1>1, <1>2, <2>1, <2>2
<1>5. CASE ListVMs
  BY <1>2, <1>5, ListDecides DEF IInv, Goto
<1>6. CASE \/ ScaleUp \/ ScaleDown \/ ReconcileService
           \/ ReconcileServiceStatus \/ DeleteService \/ ListDeletedVMs \/ DeleteVMs
  <2>1. UNCHANGED lb
    BY <1>6 DEF ScaleUp, ScaleDown, ReconcileService, ReconcileServiceStatus,
                DeleteService, ListDeletedVMs, DeleteVMs, world
  <2> QED
    BY <1>2, <1>6, <2>1, CopyKeepsCondition
<1>7. CASE Close
  BY <1>7 DEF Close, ConditionsOwn
<1>8. CASE EditSpec
  <2>1. PICK n \in Desires, os \in Versions :
          WriteLB([Stored(lb) EXCEPT !.desired = n, !.version = os])
    BY <1>8 DEF EditSpec
  <2> DEFINE v == [Stored(lb) EXCEPT !.desired = n, !.version = os]
  <2>2. /\ v.meta = Stored(lb).meta /\ v.replicasReady = Stored(lb).replicasReady
        /\ v.infraReady = Stored(lb).infraReady
    BY <1>w DEF Kept, LoadBalancers
  <2>3. WriteLB(v)
    BY <2>1
  <2> HIDE DEF v
  <2> QED
    BY <1>1, <1>8, <2>2, <2>3 DEF EditSpec, control
<1>9. CASE DeleteLB
  <2> DEFINE v == [Stored(lb) EXCEPT !.meta = "deleting"]
  <2>1. WriteLB(Absent) \/ WriteLB(v)
    BY <1>9 DEF DeleteLB
  <2>2. /\ v.replicasReady = Stored(lb).replicasReady /\ v.infraReady = Stored(lb).infraReady
        /\ Stored(lb).meta # "absent" /\ Absent.meta = "absent"
    BY <1>9, <1>w, EmptyObject DEF Kept, LoadBalancers, DeleteLB
  <2> HIDE DEF v
  <2> QED
    BY <1>1, <1>9, <2>1, <2>2 DEF DeleteLB, control
<1>10. CASE MachineSteps \/ ObserveVMs \/ MachineFails \/ Disconnect
  <2>1. UNCHANGED <<lb, before, pc>>
    BY <1>10 DEF MachineSteps, MachineRuns, MachineGone, Connect, AssignAddress, GarbageCollect,
                 ObserveVMs, MachineFails, Disconnect, control
  <2> QED
    BY <1>2, <2>1
<1>11. ~Restart /\ ~ObserveLB
  BY NoFaults DEF IInv, Restart, ObserveLB
<1> QED
  BY <1>3, <1>4, <1>5, <1>6, <1>7, <1>8, <1>9, <1>10, <1>11 DEF Next, Controller

\* The list of the machines: an upgrade in which there is one machine more stays one, and
\* that machine's predecessor goes only when all of them are ready.
LEMMA ListMarks ==
  ASSUME IInv, CountInv, NoneFailed, Marked, ListVMs
  PROVE  Marked' /\ SurgeMarked' /\ ReplacesOnlyWhenReady'
PROOF
<1>t. /\ TypeOK /\ Alive \in Nat /\ Desires \subseteq Nat /\ Cached(vms) = Stored(vms)
      /\ after.meta = "held" /\ after.desired \in Desires /\ pc = "list"
  BY AliveCounts, FreshWindow, LoadBalancerBounds
     DEF IInv, CountInv, Asked, Path, NormalPCs, ListVMs
<1>1. UNCHANGED <<lb, vms>>
  BY <1>t, ListDecides
<1>2. Alive' = Alive /\ (Crowded' <=> Crowded)
  BY <1>1 DEF Alive, Crowded
<1>3. ~\E v \in Live(Cached(vms)) : Cached(vms)[v].running = "failed"
  BY <1>t DEF NoneFailed, Live
<1>4. PICK o \in LoadBalancers :
        /\ o.desired = after.desired /\ o.meta = after.meta
        /\ o.replicas = Cardinality(Live(Cached(vms)))
        /\ o.replicasReady = after.replicasReady
        /\ Goto(Scale(o, Cached(vms))[1], Scale(o, Cached(vms))[2])
  BY <1>3, <1>t, ListDecides
<1>5. o.replicas = Alive /\ o.readyReplicas \in Nat
  BY <1>4, <1>t DEF Alive, LoadBalancers
<1>6. /\ pc' = "surge" => after'.replicasReady = "Upgrading"
      /\ pc' = "scaleDown" =>
           /\ o.replicas > o.desired
           /\ o.replicasReady = "Upgrading" => ~(o.readyReplicas < o.replicas)
      /\ o.replicasReady = "Upgrading" /\ o.replicas > o.desired =>
           after'.replicasReady = "Upgrading"
      /\ after'.readyReplicas = o.readyReplicas /\ after'.desired = o.desired
      /\ after'.replicas = o.replicas
  BY <1>4, ScaleDecides DEF Goto
<1>7. pc' # "idle"
  BY <1>4, ScaleCopies DEF Goto
<1>8. Crowded => o.replicasReady = "Upgrading" /\ o.replicas > o.desired
  BY <1>4, <1>5, <1>t DEF Crowded, Marked
<1>9. Marked'
  BY <1>2, <1>6, <1>7, <1>8 DEF Marked
<1>10. ASSUME pc' = "scaleDown", OnlyUpgrades' PROVE after'.readyReplicas >= after'.replicas
  <2>1. \A n \in Desires : n <= o.desired
    BY <1>6, <1>10 DEF OnlyUpgrades
  <2>d. o.desired \in Nat /\ Alive > o.desired
    <3>1. o.desired \in Desires
      BY <1>4, <1>t
    <3>2. o.replicas > o.desired
      BY <1>6, <1>10
    <3> QED
      BY <1>5, <1>t, <3>1, <3>2
  <2>2. \A n \in Desires : n < Alive
    BY <1>t, <2>1, <2>d
  <2>3. o.replicasReady = "Upgrading"
    BY <1>8, <2>2 DEF Crowded
  <2> QED
    BY <1>5, <1>6, <1>10, <1>t, <2>3
<1> QED
  BY <1>6, <1>9, <1>10 DEF SurgeMarked, ReplacesOnlyWhenReady

\* Close tells the API server what the reconcile decided.
LEMMA CloseMarks ==
  ASSUME IInv, Undisturbed, Len(lb) = 1, ConditionsOwn, Marked, Close
  PROVE  Marked'
PROOF
<1>t. /\ TypeOK /\ Stored(lb) \in Kept /\ Stored(lb) = lb[Len(lb)] /\ Len(lb) \in 1..Len(lb)
      /\ ~Fault
  <2>1. lb \in Windows(Kept) /\ TypeOK
    BY DEF IInv, TypeOK, Kept
  <2> QED
    BY <2>1, WindowEnds, NoFaults
<1>1. UNCHANGED vms /\ pc' = "idle" /\ pc = "close"
  BY DEF Close
<1>2. Crowded' => Crowded
  BY <1>1 DEF Crowded, Alive
<1>3. after.meta # "held" => Stored(lb).meta \in {"deleting", "absent"}
  BY <1>1, <1>t DEF IInv, Path
<1>4. ASSUME NEW copy \in LoadBalancers, NEW fields,
             copy.replicasReady = after.replicasReady, "desired" \notin fields,
             WriteLB(Patched(copy, fields)),
             \/ \E f \in ConditionFields : Stored(lb)[f] # before[f]
             \/ before.replicasReady # copy.replicasReady => "replicasReady" \in fields
      PROVE  Marked'
  <2> DEFINE p == Patched(copy, fields)
  <2>1. Stored(lb') = p
    BY <1>4, FreshWindow DEF WriteLB, Undisturbed
  <2>2. p.meta # "absent" =>
          /\ Stored(lb).meta # "absent"
          /\ p.replicasReady =
               IF "replicasReady" \in fields /\ before.replicasReady # copy.replicasReady
                 THEN copy.replicasReady ELSE Stored(lb).replicasReady
          /\ Stored(lb).meta = "deleting" => p.meta = "deleting"
    BY <1>4, <1>t, PatchedFields
  <2> HIDE DEF p
  <2>3. CASE p.meta = "absent"
    BY <1>1, <2>1, <2>3 DEF Marked, Over
  <2>4. CASE p.meta # "absent" /\ Stored(lb).meta = "deleting"
    BY <1>1, <2>1, <2>2, <2>4 DEF Marked, Over
  <2>5. CASE p.meta # "absent" /\ Stored(lb).meta # "deleting"
    <3>1. before.replicasReady = Stored(lb).replicasReady
          /\ before.infraReady = Stored(lb).infraReady /\ after.meta = "held"
      BY <1>1, <1>3, <2>2, <2>5 DEF ConditionsOwn
    <3>2. \A f \in ConditionFields : Stored(lb)[f] = before[f]
      BY <3>1 DEF ConditionFields
    <3>3. p.replicasReady = after.replicasReady
      BY <1>4, <2>2, <2>5, <3>1, <3>2
    <3>4. Crowded' => after.replicasReady = "Upgrading"
      BY <1>1, <1>2, <3>1 DEF Marked
    <3> QED
      BY <1>1, <2>1, <3>3, <3>4 DEF Marked
  <2> QED
    BY <2>3, <2>4, <2>5
<1> QED
  BY <1>4, <1>t, CloseSends

\* Making a machine: one above every count is made only in an upgrade.
LEMMA SurgeMarks ==
  ASSUME IInv, CountInv, Marked, SurgeMarked, ScaleUp, Next
  PROVE  Marked'
PROOF
<1>t. /\ Alive \in Nat /\ after.replicas \in Nat /\ after.desired \in Nat /\ Desires \subseteq Nat
      /\ (LiveSame => Alive' = Alive) /\ (LiveGrows => Alive' = Alive + 1)
      /\ (LiveShrinks => Alive' = Alive - 1)
  BY AliveCounts, CountsTyped, LoadBalancerBounds DEF IInv
<1>1. /\ after'.replicasReady = after.replicasReady /\ pc # "idle" /\ pc' # "idle"
      /\ pc \in {"scaleUp", "surge"} /\ after.meta = "held"
  BY CopyKeepsCondition, ScaleUpCounts
<1>2. after.desired \in Desires
  BY <1>1 DEF CountInv, Asked
<1>3. CASE pc = "surge"
  BY <1>1, <1>3 DEF Marked, SurgeMarked
<1>4. CASE pc = "scaleUp"
  <2>1. Alive <= after.replicas /\ after.replicas < after.desired
    BY <1>4 DEF CountInv, Counted
  <2>2. Alive' \in {Alive, Alive - 1, Alive + 1}
    BY <1>t, MachinesMove
  <2>3. ~(after.desired < Alive')
    BY <1>t, <2>1, <2>2
  <2>4. ~Crowded'
    BY <1>2, <2>3 DEF Crowded
  <2> QED
    BY <2>4 DEF Marked
<1> QED
  BY <1>1, <1>3, <1>4

\* A step that makes no machine leaves no more machines than there were.
LEMMA CrowdedBefore ==
  ASSUME IInv, Next, ~ScaleUp, Crowded'
  PROVE  Crowded
PROOF
<1>1. /\ Alive \in Nat /\ Desires \subseteq Nat
      /\ (LiveSame => Alive' = Alive) /\ (LiveShrinks => Alive' = Alive - 1)
  BY AliveCounts, LoadBalancerBounds
<1>2. Alive' \in {Alive, Alive - 1}
  BY <1>1, MachinesMove
<1>3. \A n \in Desires : n < Alive'
  BY DEF Crowded
<1>4. \A n \in Desires : n < Alive
  BY <1>1, <1>2, <1>3
<1> QED
  BY <1>4 DEF Crowded

\* The mark of an upgrade is kept as long as there is a machine too many, and no machine
\* goes before all are ready.
LEMMA MarkedStep ==
  ASSUME IInv, CountInv, Undisturbed, UpgradeInv, Next
  PROVE  Marked' /\ SurgeMarked' /\ ReplacesOnlyWhenReady'
PROOF
<1>t. /\ Len(lb) = 1 /\ NoneFailed /\ ConditionsOwn /\ Marked /\ SurgeMarked
      /\ ReplacesOnlyWhenReady
  BY DEF UpgradeInv
<1>w. Stored(lb) \in Kept /\ Cached(lb) = Stored(lb)
  <2>1. lb \in Windows(Kept)
    BY DEF IInv, TypeOK, Kept
  <2> QED
    BY <1>t, <2>1, WindowEnds, FreshWindow
<1>1. CASE ListVMs
  BY <1>1, <1>t, ListMarks
<1>2. CASE Close
  <2>1. pc' = "idle"
    BY <1>2 DEF Close
  <2> QED
    BY <1>2, <1>t, <2>1, CloseMarks DEF SurgeMarked, ReplacesOnlyWhenReady
<1>3. CASE \/ PatchFinalizer \/ ScaleUp \/ ScaleDown \/ ReconcileService
           \/ ReconcileServiceStatus \/ DeleteService \/ ListDeletedVMs \/ DeleteVMs
  <2>1. /\ after'.replicasReady = after.replicasReady
        /\ pc # "idle" /\ pc' # "idle" /\ pc' # "scaleDown" /\ (pc' = "surge" => pc = "surge")
        /\ after'.meta = "held" => after.meta = "held"
    BY <1>3, CopyKeepsCondition
  <2>2. SurgeMarked' /\ ReplacesOnlyWhenReady'
    BY <1>t, <2>1 DEF SurgeMarked, ReplacesOnlyWhenReady
  <2>3. CASE ScaleUp
    BY <1>t, <2>2, <2>3, SurgeMarks
  <2>4. CASE ~ScaleUp
    BY <1>t, <2>1, <2>2, <2>4, CrowdedBefore DEF Marked
  <2> QED
    BY <2>3, <2>4
<1>4. CASE Reconcile
  <2>1. UNCHANGED <<lb, vms>> /\ pc = "idle"
    BY <1>4 DEF Reconcile, world
  <2>2. pc' \notin {"surge", "scaleDown"}
    BY <1>4 DEF Reconcile
  <2>3. Crowded' => Over \/ Stored(lb).replicasReady = "Upgrading"
    BY <1>t, <2>1 DEF Marked, Crowded, Alive
  <2>4. CASE pc' = "idle"
    <3>1. Cached(lb).meta = "absent"
      BY <1>4, <2>4 DEF Reconcile
    <3>2. Over'
      BY <1>w, <2>1, <3>1 DEF Over
    <3> QED
      BY <2>2, <2>4, <3>2 DEF Marked, SurgeMarked, ReplacesOnlyWhenReady
  <2>5. CASE pc' = "deleteService"
    <3>1. after'.meta = "deleting"
      BY <1>4, <2>5 DEF Reconcile
    <3> QED
      BY <2>2, <2>5, <3>1 DEF Marked, SurgeMarked, ReplacesOnlyWhenReady
  <2>6. CASE pc' = "finalizer"
    <3> DEFINE o == [Cached(lb) EXCEPT !.meta = "held"]
    <3>1. Cached(lb).meta \notin {"absent", "deleting"} /\ after' = o
      BY <1>4, <2>6 DEF Reconcile
    <3>2. o.replicasReady = Stored(lb).replicasReady
      BY <1>w DEF Kept, LoadBalancers
    <3> HIDE DEF o
    <3>3. Crowded' => after'.replicasReady = "Upgrading"
      BY <1>w, <2>3, <3>1, <3>2 DEF Over
    <3> QED
      BY <2>2, <2>6, <3>3 DEF Marked, SurgeMarked, ReplacesOnlyWhenReady
  <2>7. pc' \in {"idle", "deleteService", "finalizer"}
    BY <1>4 DEF Reconcile
  <2> QED
    BY <2>4, <2>5, <2>6, <2>7
<1>5. CASE /\ MachineSteps \/ ObserveVMs \/ MachineFails \/ Disconnect \/ EditSpec \/ DeleteLB
           /\ ~ScaleUp
  <2>1. UNCHANGED <<pc, after>>
    BY <1>5 DEF MachineSteps, MachineRuns, MachineGone, Connect, AssignAddress, GarbageCollect,
                ObserveVMs, MachineFails, Disconnect, EditSpec, DeleteLB, control
  <2>2. Crowded' => Crowded
    BY <1>5, CrowdedBefore
  <2>3. Over' \/ (~Over /\ Stored(lb').replicasReady = Stored(lb).replicasReady)
    <3>1. \A v : WriteLB(v) => Stored(lb') = v
      BY FreshWindow DEF WriteLB, Undisturbed
    <3>2. CASE UNCHANGED lb
      BY <3>2 DEF Over
    <3>3. CASE EditSpec
      <4>1. PICK n \in Desires, os \in Versions :
              WriteLB([Stored(lb) EXCEPT !.desired = n, !.version = os])
        BY <3>3 DEF EditSpec
      <4> DEFINE v == [Stored(lb) EXCEPT !.desired = n, !.version = os]
      <4>2. v.replicasReady = Stored(lb).replicasReady
        BY <1>w DEF Kept, LoadBalancers
      <4>3. Stored(lb') = v
        BY <3>1, <4>1
      <4> HIDE DEF v
      <4> QED
        BY <3>3, <4>2, <4>3 DEF EditSpec, Over
    <3>4. CASE DeleteLB
      <4> DEFINE v == [Stored(lb) EXCEPT !.meta = "deleting"]
      <4>1. Stored(lb') = Absent \/ Stored(lb') = v
        BY <3>1, <3>4 DEF DeleteLB
      <4>2. v.meta = "deleting" /\ Absent.meta = "absent"
        BY <1>w, EmptyObject DEF Kept, LoadBalancers
      <4> HIDE DEF v
      <4> QED
        BY <4>1, <4>2 DEF Over
    <3> QED
      BY <1>5, <3>2, <3>3, <3>4
         DEF MachineSteps, MachineRuns, MachineGone, Connect, AssignAddress, GarbageCollect,
             ObserveVMs, MachineFails, Disconnect
  <2>4. Marked'
    BY <1>t, <2>1, <2>2, <2>3 DEF Marked
  <2> QED
    BY <1>t, <2>1, <2>4 DEF SurgeMarked, ReplacesOnlyWhenReady, OnlyUpgrades
<1>6. ~Restart /\ ~ObserveLB
  BY <1>t, NoFaults DEF IInv, Restart, ObserveLB
<1> QED
  BY <1>1, <1>2, <1>3, <1>4, <1>5, <1>6 DEF Next, Controller

\* While nothing fails and both caches are fresh, a machine is replaced only when all
\* the machines there are are ready: the machine above the desired count is made for an
\* upgrade, and the condition that says so is in the API server before it is counted again.
THEOREM ReplacesWhenReady ==
  ASSUME Undisturbed
  PROVE  Spec => []ReplacesOnlyWhenReady
PROOF
<1>1. Init => UpgradeInv
  <2> SUFFICES ASSUME Init PROVE UpgradeInv
    OBVIOUS
  <2>1. Len(lb) = 1 /\ Stored(vms) = NoMachines /\ pc = "idle" /\ CountInv
    BY CountInit DEF Init, Stored
  <2>2. \A v \in Names : NoMachines[v].running # "failed"
    BY DEF NoMachines, Unborn
  <2>3. ~Crowded
    <3>1. Live(NoMachines) = {}
      BY DEF Live, NoMachines, Unborn
    <3>2. Alive = 0
      BY <2>1, <3>1, FS_EmptySet DEF Alive
    <3>3. PICK n \in Desires : n \in Nat
      BY LoadBalancerBounds DEF Init
    <3> QED
      BY <3>2, <3>3 DEF Crowded
  <2> QED
    BY <2>1, <2>2, <2>3
       DEF UpgradeInv, NoneFailed, ConditionsOwn, Marked, SurgeMarked, ReplacesOnlyWhenReady
<1>2. IInv /\ CountInv /\ UpgradeInv /\ [Next]_vars => UpgradeInv'
  <2> SUFFICES ASSUME IInv, CountInv, UpgradeInv, [Next]_vars PROVE UpgradeInv'
    OBVIOUS
  <2>1. CASE UNCHANGED vars
    BY <2>1 DEF vars, UpgradeInv, NoneFailed, ConditionsOwn, Marked, Crowded, Alive, Over,
                SurgeMarked, ReplacesOnlyWhenReady, OnlyUpgrades
  <2>2. CASE Next
    <3>1. Len(lb) = 1 /\ NoneFailed /\ ConditionsOwn
      BY DEF UpgradeInv
    <3>2. Len(lb') = 1 /\ NoneFailed' /\ ConditionsOwn'
      BY <2>2, <3>1, ReadFresh, NoneFailedStep, ConditionsStep
    <3> QED
      BY <2>2, <3>2, MarkedStep DEF UpgradeInv
  <2> QED
    BY <2>1, <2>2
<1>3. UpgradeInv => ReplacesOnlyWhenReady
  BY DEF UpgradeInv
<1>4. VmLag = 0
  BY DEF Undisturbed
<1>5. Spec => [](IInv /\ CountInv)
  BY <1>4, CountHolds
<1> QED
  BY <1>1, <1>2, <1>3, <1>5, PTL DEF Spec
=============================================================================
