--------------------------- MODULE Proxier_proofs ---------------------------
(***************************************************************************)
(* Proofs about the agent's event path, for every set of frontends and     *)
(* every bound: the types, and that no change is lost between the          *)
(* trackers and the kernel.                                                *)
(***************************************************************************)
EXTENDS Proxier, FiniteSetTheorems, SequenceTheorems, TLAPS

\* A function on 1..n is a sequence.
LEMMA SeqIntro ==
    ASSUME NEW S, NEW n \in Nat, NEW f \in [1..n -> S]
    PROVE  f \in Seq(S)
BY SeqDef

\* The initial lists are sequences of adds of the informer they come from.
LEMMA InitialFeedsType ==
    ASSUME \A i \in Informers : api[i] \in Objects(i),
           NEW f \in initialFeeds
    PROVE  /\ DOMAIN f = Informers
           /\ \A i \in Informers : f[i] \in Seq([key : Frontends, obj : StatesOf(i)])
<1>1. DOMAIN f = Informers
  BY DEF initialFeeds
<1>2. ASSUME NEW i \in Informers
      PROVE  f[i] \in Seq([key : Frontends, obj : StatesOf(i)])
  <2> DEFINE present == {k \in Frontends : api[i][k] # None}
             N == Cardinality(present)
  <2>1. N \in Nat
    BY FrontendsAssumption, FS_Subset, FS_CardinalityType
  <2>2. PICK order \in SetToSeqs(present) :
           f[i] = [n \in 1..N |-> [key |-> order[n], obj |-> api[i][order[n]]]]
    BY <1>2 DEF initialFeeds, initialLists
  <2>3. order \in [1..N -> present]
    BY DEF SetToSeqs
  <2>4. ASSUME NEW n \in 1..N
        PROVE  [key |-> order[n], obj |-> api[i][order[n]]]
                 \in [key : Frontends, obj : StatesOf(i)]
    <3>1. order[n] \in Frontends
      BY <2>3
    <3>2. api[i][order[n]] \in StatesOf(i)
      BY <3>1 DEF Objects
    <3> QED BY <3>1, <3>2
  <2>5. f[i] \in [1..N -> [key : Frontends, obj : StatesOf(i)]]
    BY <2>2, <2>4
  <2> HIDE DEF N, present
  <2> QED BY <2>1, <2>5, SeqIntro
<1> QED BY <1>1, <1>2

\* Rendering well-typed snapshots gives a ruleset.
LEMMA RulesetType ==
    ASSUME NEW s, s["gateways"] \in Objects("gateways"), s["slices"] \in Objects("slices")
    PROVE  desiredRuleset(s) \in Rulesets
BY DEF desiredRuleset, Rulesets, Objects, StatesOf

\* The types hold initially.
LEMMA InitType == Init => TypeOK
<1> SUFFICES ASSUME Init PROVE TypeOK
  OBVIOUS
<1>1. /\ DOMAIN feed = Informers
      /\ \A i \in Informers : feed[i] \in Seq([key : Frontends, obj : StatesOf(i)])
  BY InitialFeedsType DEF Init
<1>2. listed \in [Informers -> Nat]
  BY <1>1 DEF Init
<1>3. Nothing \in Objects("gateways") /\ Nothing \in Objects("slices")
  BY DEF Nothing, Objects, StatesOf
<1>4. \A i \in Informers : tracker[i] \in Objects(i) /\ snapshot[i] \in Objects(i)
  BY <1>3 DEF Init, Informers
<1>5. DOMAIN api = Informers /\ DOMAIN tracker = Informers /\ DOMAIN snapshot = Informers
  BY DEF Init
<1>6. handler \in [Informers -> {"idle", "updated", "pended"}]
  BY DEF Init
<1>7. IntakeOK
  BY <1>1, <1>2, <1>4, <1>5, <1>6 DEF Init, IntakeOK
<1>8. ControlOK /\ KernelOK
  BY DEF Init, ControlOK, KernelOK
<1>9. BoundsOK
  BY BoundAssumption DEF Init, BoundsOK
<1> QED BY <1>7, <1>8, <1>9 DEF TypeOK

\* What a step does not touch keeps its type.
LEMMA IntakeKept ==
    ASSUME IntakeOK, UNCHANGED <<api, feed, listed, tracker, handler, snapshot>>
    PROVE  IntakeOK'
BY DEF IntakeOK

LEMMA OutputKept ==
    ASSUME KernelOK, BoundsOK, UNCHANGED <<table, faulty, edits, faults, restarts>>
    PROVE  KernelOK' /\ BoundsOK'
BY DEF KernelOK, BoundsOK

\* Every step keeps the types.
LEMMA StepType == TypeOK /\ [Next]_vars => TypeOK'
<1> SUFFICES ASSUME TypeOK, [Next]_vars PROVE TypeOK'
  OBVIOUS
<1> USE DEF TypeOK, intake, startup, wakeups, control, kernel, bounds
<1>1. ASSUME NEW i \in Informers, trackerUpdate(i) PROVE TypeOK'
  <2>1. /\ Head(feed[i]) \in [key : Frontends, obj : StatesOf(i)]
        /\ Tail(feed[i]) \in Seq([key : Frontends, obj : StatesOf(i)])
    BY <1>1, HeadTailProperties DEF trackerUpdate, IntakeOK
  <2>2. tracker'[i] \in Objects(i) /\ feed'[i] \in Seq([key : Frontends, obj : StatesOf(i)])
    BY <1>1, <2>1 DEF trackerUpdate, IntakeOK, Objects
  <2>3. \A j \in Informers \ {i} : tracker'[j] = tracker[j] /\ feed'[j] = feed[j]
    BY <1>1 DEF trackerUpdate, IntakeOK
  <2>4. DOMAIN tracker' = Informers /\ DOMAIN feed' = Informers
    BY <1>1 DEF trackerUpdate, IntakeOK
  <2>5. listed' \in [Informers -> Nat]
    BY <1>1 DEF trackerUpdate, IntakeOK
  <2>6. handler' \in [Informers -> {"idle", "updated", "pended"}]
    BY <1>1 DEF trackerUpdate, IntakeOK
  <2>7. IntakeOK'
    BY <1>1, <2>2, <2>3, <2>4, <2>5, <2>6 DEF trackerUpdate, IntakeOK
  <2> QED BY <1>1, <2>7 DEF trackerUpdate, ControlOK, KernelOK, BoundsOK
<1>2. ASSUME NEW i \in Informers, setPending(i) PROVE TypeOK'
  <2>1. IntakeOK'
    BY <1>2 DEF setPending, IntakeOK
  <2> QED BY <1>2, <2>1 DEF setPending, ControlOK, KernelOK, BoundsOK
<1>3. ASSUME NEW i \in Informers, sendResync(i) PROVE TypeOK'
  <2>1. IntakeOK'
    BY <1>3 DEF sendResync, IntakeOK
  <2> QED BY <1>3, <2>1 DEF sendResync, ControlOK, KernelOK, BoundsOK
<1>4. CASE run
  <2>1. CASE OnGatewaySynced
    <3>1. IntakeOK'
      BY <2>1, IntakeKept DEF OnGatewaySynced
    <3>2. KernelOK' /\ BoundsOK'
      BY <2>1, OutputKept DEF OnGatewaySynced
    <3>3. ControlOK'
      BY <2>1 DEF OnGatewaySynced, ControlOK
    <3> QED BY <3>1, <3>2, <3>3
  <2>2. CASE OnEndpointSlicesSynced
    <3>1. IntakeOK'
      BY <2>2, IntakeKept DEF OnEndpointSlicesSynced
    <3>2. KernelOK' /\ BoundsOK'
      BY <2>2, OutputKept DEF OnEndpointSlicesSynced
    <3>3. ControlOK'
      BY <2>2 DEF OnEndpointSlicesSynced, ControlOK
    <3> QED BY <3>1, <3>2, <3>3
  <2>3. CASE startSyncLoop
    <3>1. IntakeOK'
      BY <2>3, IntakeKept DEF startSyncLoop
    <3>2. KernelOK' /\ BoundsOK'
      BY <2>3, OutputKept DEF startSyncLoop
    <3>3. ControlOK'
      BY <2>3 DEF startSyncLoop, ControlOK
    <3> QED BY <3>1, <3>2, <3>3
  <2> QED BY <1>4, <2>1, <2>2, <2>3 DEF run
<1>5. CASE wakeOnTick \/ wakeOnResync \/ wakeOnRetry
  <2>1. CASE wakeOnTick
    <3>1. IntakeOK'
      BY <2>1, IntakeKept DEF wakeOnTick
    <3>2. KernelOK' /\ BoundsOK'
      BY <2>1, OutputKept DEF wakeOnTick
    <3>3. ControlOK'
      BY <2>1 DEF wakeOnTick, ControlOK
    <3> QED BY <3>1, <3>2, <3>3
  <2>2. CASE wakeOnResync
    <3>1. IntakeOK'
      BY <2>2, IntakeKept DEF wakeOnResync
    <3>2. KernelOK' /\ BoundsOK'
      BY <2>2, OutputKept DEF wakeOnResync
    <3>3. ControlOK'
      BY <2>2 DEF wakeOnResync, ControlOK
    <3> QED BY <3>1, <3>2, <3>3
  <2>3. CASE wakeOnRetry
    <3>1. IntakeOK'
      BY <2>3, IntakeKept DEF wakeOnRetry
    <3>2. KernelOK' /\ BoundsOK'
      BY <2>3, OutputKept DEF wakeOnRetry
    <3>3. ControlOK'
      BY <2>3 DEF wakeOnRetry, ControlOK
    <3> QED BY <3>1, <3>2, <3>3
  <2> QED BY <1>5, <2>1, <2>2, <2>3
<1>6. CASE syncTooEarly \/ applyFindsNoTable
  <2>1. CASE syncTooEarly
    <3>1. IntakeOK'
      BY <2>1, IntakeKept DEF syncTooEarly
    <3>2. KernelOK' /\ BoundsOK'
      BY <2>1, OutputKept DEF syncTooEarly
    <3>3. ControlOK'
      BY <2>1 DEF syncTooEarly, ControlOK
    <3> QED BY <3>1, <3>2, <3>3
  <2>2. CASE applyFindsNoTable
    <3>1. IntakeOK'
      BY <2>2, IntakeKept DEF applyFindsNoTable
    <3>2. KernelOK' /\ BoundsOK'
      BY <2>2, OutputKept DEF applyFindsNoTable
    <3>3. ControlOK'
      BY <2>2 DEF applyFindsNoTable, ControlOK
    <3> QED BY <3>1, <3>2, <3>3
  <2> QED BY <1>6, <2>1, <2>2
<1>7. CASE snapshotGateways
  <2>1. IntakeOK'
    BY <1>7 DEF snapshotGateways, IntakeOK, Informers
  <2> QED BY <1>7, <2>1 DEF snapshotGateways, ControlOK, KernelOK, BoundsOK
<1>8. CASE snapshotSlices
  <2>1. IntakeOK'
    BY <1>8 DEF snapshotSlices, IntakeOK, Informers
  <2> QED BY <1>8, <2>1 DEF snapshotSlices, ControlOK, KernelOK, BoundsOK
<1>9. CASE applySucceeds
  <2>1. table' \in Rulesets
    BY <1>9, RulesetType DEF applySucceeds, IntakeOK, Informers
  <2>2. IntakeOK'
    BY <1>9, IntakeKept DEF applySucceeds
  <2>3. KernelOK' /\ BoundsOK'
    BY <1>9, <2>1 DEF applySucceeds, KernelOK, BoundsOK
  <2>4. ControlOK'
    BY <1>9 DEF applySucceeds, ControlOK
  <2> QED BY <2>2, <2>3, <2>4
<1>10. CASE applyFails \/ tableRemoved
  <2>1. BoundsOK'
    BY <1>10, BoundAssumption DEF applyFails, tableRemoved, BoundsOK
  <2>2. IntakeOK'
    BY <1>10, IntakeKept DEF applyFails, tableRemoved
  <2>3. KernelOK'
    BY <1>10 DEF applyFails, tableRemoved, KernelOK
  <2>4. ControlOK'
    BY <1>10 DEF applyFails, tableRemoved, ControlOK
  <2> QED BY <2>1, <2>2, <2>3, <2>4
<1>11. CASE clock
  <2>1. CASE minSyncPeriodElapses
    <3>1. IntakeOK'
      BY <2>1, IntakeKept DEF minSyncPeriodElapses
    <3>2. KernelOK' /\ BoundsOK'
      BY <2>1, OutputKept DEF minSyncPeriodElapses
    <3>3. ControlOK'
      BY <2>1 DEF minSyncPeriodElapses, ControlOK
    <3> QED BY <3>1, <3>2, <3>3
  <2>2. CASE retryTimerFires
    <3>1. IntakeOK'
      BY <2>2, IntakeKept DEF retryTimerFires
    <3>2. KernelOK' /\ BoundsOK'
      BY <2>2, OutputKept DEF retryTimerFires
    <3>3. ControlOK'
      BY <2>2 DEF retryTimerFires, ControlOK
    <3> QED BY <3>1, <3>2, <3>3
  <2> QED BY <1>11, <2>1, <2>2 DEF clock
<1>12. ASSUME NEW i \in Informers, NEW k \in Frontends, NEW v, publish(i, k, v)
       PROVE  TypeOK'
  <2>1. [key |-> k, obj |-> v] \in [key : Frontends, obj : StatesOf(i)]
    BY <1>12 DEF publish
  <2>2. feed'[i] \in Seq([key : Frontends, obj : StatesOf(i)]) /\ api'[i] \in Objects(i)
    BY <1>12, <2>1, AppendProperties DEF publish, IntakeOK, Objects
  <2>3. IntakeOK'
    BY <1>12, <2>2 DEF publish, IntakeOK
  <2> QED BY <1>12, <2>3, BoundAssumption DEF publish, ControlOK, KernelOK, BoundsOK
<1>13. CASE restart
  <2>1. \A i \in Informers : api[i] \in Objects(i)
    BY DEF IntakeOK
  <2>2. feed' \in initialFeeds
    BY <1>13 DEF restart
  <2>3. /\ DOMAIN feed' = Informers
        /\ \A i \in Informers : feed'[i] \in Seq([key : Frontends, obj : StatesOf(i)])
    BY <2>1, <2>2, InitialFeedsType
  <2>4. listed' \in [Informers -> Nat]
    BY <1>13, <2>3 DEF restart
  <2>5. Nothing \in Objects("gateways") /\ Nothing \in Objects("slices")
    BY DEF Nothing, Objects, StatesOf
  <2>6. \A i \in Informers : tracker'[i] \in Objects(i) /\ snapshot'[i] \in Objects(i)
    BY <1>13, <2>5 DEF restart, Informers
  <2>7. IntakeOK'
    BY <1>13, <2>3, <2>4, <2>6 DEF restart, IntakeOK
  <2>8. BoundsOK'
    BY <1>13, BoundAssumption DEF restart, BoundsOK
  <2> QED BY <1>13, <2>7, <2>8 DEF restart, ControlOK, KernelOK
<1>14. CASE UNCHANGED vars
  <2>1. IntakeOK' /\ KernelOK' /\ BoundsOK'
    BY <1>14, IntakeKept, OutputKept DEF vars
  <2>2. ControlOK'
    BY <1>14 DEF vars, ControlOK
  <2> QED BY <2>1, <2>2
<1> QED BY <1>1, <1>2, <1>3, <1>4, <1>5, <1>6, <1>7, <1>8, <1>9, <1>10, <1>11,
           <1>12, <1>13, <1>14 DEF Next, handle, step

\* The agent's variables keep their types in every behaviour, for every set of
\* frontends, backends and addresses.
THEOREM TypeCorrect == Spec => []TypeOK
BY InitType, StepType, PTL DEF Spec

-----------------------------------------------------------------------------

\* The sync invariant holds initially: SyncLoop does not run.
LEMMA InitSync == Init => SyncInv
BY DEF Init, SyncInv, Started, SnapshotCovered, LagCovered

\* Every step keeps the sync invariant.
LEMMA StepSync == TypeOK /\ SyncInv /\ [Next]_vars => SyncInv'
<1> SUFFICES ASSUME TypeOK, SyncInv, [Next]_vars PROVE SyncInv'
  OBVIOUS
<1> USE DEF SyncInv, TypeOK, IntakeOK, ControlOK, intake, startup, wakeups, control,
            kernel, bounds
<1>1. ASSUME NEW i \in Informers, trackerUpdate(i) PROVE SyncInv'
  <2>1. handler'[i] = "updated"
    BY <1>1 DEF trackerUpdate
  <2>2. \A j \in Informers \ {i} : handler'[j] = handler[j] /\ tracker'[j] = tracker[j]
    BY <1>1 DEF trackerUpdate
  <2>3. Started'
    BY <1>1 DEF trackerUpdate, Started, Ready
  <2>4. SnapshotCovered'
    BY <1>1, <2>1, <2>2 DEF trackerUpdate, SnapshotCovered, Informers
  <2>5. LagCovered'
    BY <2>1 DEF LagCovered
  <2> QED BY <2>3, <2>4, <2>5
<1>2. ASSUME NEW i \in Informers, setPending(i) PROVE SyncInv'
  <2>1. handler'[i] = "pended" /\ syncPending'
    BY <1>2 DEF setPending
  <2>2. Started'
    BY <1>2 DEF setPending, Started, Ready
  <2>3. SnapshotCovered'
    BY <1>2 DEF setPending, SnapshotCovered, lockFree
  <2>4. LagCovered'
    BY <2>1 DEF LagCovered
  <2> QED BY <2>2, <2>3, <2>4
<1>3. ASSUME NEW i \in Informers, sendResync(i) PROVE SyncInv'
  <2>1. token' /\ syncPending' = syncPending
    BY <1>3 DEF sendResync
  <2>2. \A j \in Informers : handler[j] = "updated" => handler'[j] = "updated"
    BY <1>3 DEF sendResync
  <2>3. Started'
    BY <1>3 DEF sendResync, Started, Ready
  <2>4. SnapshotCovered'
    BY <1>3, <2>2 DEF sendResync, SnapshotCovered, Informers
  <2>5. LagCovered'
    BY <1>3, <2>1, <2>2 DEF sendResync, LagCovered
  <2> QED BY <2>3, <2>4, <2>5
<1>4. CASE run
  <2>1. CASE OnGatewaySynced
    BY <2>1 DEF OnGatewaySynced, Started, SnapshotCovered, LagCovered, Ready
  <2>2. CASE OnEndpointSlicesSynced
    BY <2>2 DEF OnEndpointSlicesSynced, Started, SnapshotCovered, LagCovered, Ready
  <2>3. CASE startSyncLoop
    BY <2>3 DEF startSyncLoop, Started, SnapshotCovered, LagCovered, Ready
  <2> QED BY <1>4, <2>1, <2>2, <2>3 DEF run
<1>5. CASE wakeOnTick \/ wakeOnResync \/ wakeOnRetry
  <2>1. loop' = "locking" /\ loop = "select"
    BY <1>5 DEF wakeOnTick, wakeOnResync, wakeOnRetry
  <2>2. UNCHANGED <<main, gatewaysSynced, endpointSlicesSynced, syncPending,
                    handler, tracker, table, faulty>>
    BY <1>5 DEF wakeOnTick, wakeOnResync, wakeOnRetry
  <2>3. Started'
    BY <2>1, <2>2 DEF Started, Ready
  <2> QED BY <2>1, <2>2, <2>3 DEF SnapshotCovered, LagCovered
<1>6. CASE syncTooEarly
  BY <1>6 DEF syncTooEarly, Started, SnapshotCovered, LagCovered, Ready
<1>7. CASE snapshotGateways
  BY <1>7 DEF snapshotGateways, Started, SnapshotCovered, LagCovered, Ready, Informers
<1>8. CASE snapshotSlices
  BY <1>8 DEF snapshotSlices, Started, SnapshotCovered, LagCovered, Ready, Informers
<1>9. CASE applyFindsNoTable
  BY <1>9 DEF applyFindsNoTable, Started, SnapshotCovered, LagCovered, Ready
<1>10. CASE applySucceeds
  <2>1. Started' /\ SnapshotCovered'
    BY <1>10 DEF applySucceeds, Started, SnapshotCovered, Ready
  <2>2. \/ snapshot["gateways"] = tracker["gateways"] /\ snapshot["slices"] = tracker["slices"]
        \/ \E i \in Informers : handler[i] = "updated"
    BY <1>10 DEF applySucceeds, SnapshotCovered, Informers
  <2>3. CASE \E i \in Informers : handler[i] = "updated"
    BY <1>10, <2>1, <2>3 DEF applySucceeds, LagCovered
  <2>4. CASE snapshot["gateways"] = tracker["gateways"] /\ snapshot["slices"] = tracker["slices"]
    <3>1. table' = desiredRuleset(tracker)'
      BY <1>10, <2>4 DEF applySucceeds, desiredRuleset
    <3> QED BY <2>1, <3>1 DEF LagCovered
  <2> QED BY <2>2, <2>3, <2>4
<1>11. CASE applyFails \/ tableRemoved
  <2>1. faulty'
    BY <1>11 DEF applyFails, tableRemoved
  <2>2. Started' /\ SnapshotCovered'
    BY <1>11 DEF applyFails, tableRemoved, Started, SnapshotCovered, Ready
  <2> QED BY <2>1, <2>2 DEF LagCovered
<1>12. CASE clock
  <2>1. CASE minSyncPeriodElapses
    BY <2>1 DEF minSyncPeriodElapses, Started, SnapshotCovered, LagCovered, Ready, desiredRuleset
  <2>2. CASE retryTimerFires
    BY <2>2 DEF retryTimerFires, Started, SnapshotCovered, LagCovered, Ready, desiredRuleset
  <2> QED BY <1>12, <2>1, <2>2 DEF clock
<1>13. ASSUME NEW i \in Informers, NEW k \in Frontends, NEW v, publish(i, k, v)
       PROVE  SyncInv'
  BY <1>13 DEF publish, Started, SnapshotCovered, LagCovered, Ready, desiredRuleset
<1>14. CASE restart
  BY <1>14 DEF restart, Started, SnapshotCovered, LagCovered
<1>15. CASE UNCHANGED vars
  BY <1>15 DEF vars, Started, SnapshotCovered, LagCovered, Ready, desiredRuleset
<1> QED BY <1>1, <1>2, <1>3, <1>4, <1>5, <1>6, <1>7, <1>8, <1>9, <1>10, <1>11,
           <1>12, <1>13, <1>14, <1>15 DEF Next, handle, step

\* No change is lost on its way from a tracker to the kernel: when SyncLoop
\* sleeps with nothing but the ticker to wake it, the table is up to date.
THEOREM NoUpdateIsLost == Spec => []NoLostUpdate
<1>1. TypeOK /\ SyncInv => NoLostUpdate
  BY DEF TypeOK, SyncInv, LagCovered, NoLostUpdate
<1> QED BY InitType, StepType, InitSync, StepSync, <1>1, PTL DEF Spec

-----------------------------------------------------------------------------

\* An initial list shows every object once: as many adds as there are objects,
\* no two of the same key, so no key is left out.
LEMMA InitialFeedsComplete ==
    ASSUME \A i \in Informers : api[i] \in Objects(i),
           NEW f \in initialFeeds, NEW i \in Informers
    PROVE  /\ \A k \in Frontends : (\A n \in 1..Len(f[i]) : f[i][n].key # k) => api[i][k] = None
           /\ \A n \in 1..Len(f[i]) : f[i][n].obj = api[i][f[i][n].key]
<1> DEFINE present == {k \in Frontends : api[i][k] # None}
           N == Cardinality(present)
<1>1. N \in Nat /\ IsFiniteSet(present)
  BY FrontendsAssumption, FS_Subset, FS_CardinalityType
<1>2. PICK order \in SetToSeqs(present) :
         f[i] = [n \in 1..N |-> [key |-> order[n], obj |-> api[i][order[n]]]]
  BY DEF initialFeeds, initialLists
<1>3. order \in [1..N -> present] /\ \A m, n \in 1..N : m # n => order[m] # order[n]
  BY DEF SetToSeqs
<1> HIDE DEF N
<1>4. Len(f[i]) = N
  BY <1>1, <1>2
<1>5. \A n \in 1..N : f[i][n].key = order[n] /\ f[i][n].obj = api[i][order[n]]
  BY <1>2
<1>6. \A k \in present : \E n \in 1..N : order[n] = k
  <2> HIDE DEF present
  <2>1. order \in Injection(1..N, present)
    BY <1>3 DEF Injection, IsInjective
  <2>2. IsFiniteSet(1..N) /\ Cardinality(1..N) = N
    BY <1>1, FS_Interval
  <2>3. order \in Surjection(1..N, present)
    BY <1>1, <2>1, <2>2, FS_Injection DEF N
  <2> QED BY <2>3 DEF Surjection
<1>7. ASSUME NEW k \in Frontends, \A n \in 1..Len(f[i]) : f[i][n].key # k
      PROVE  api[i][k] = None
  BY <1>4, <1>5, <1>6, <1>7
<1>8. \A n \in 1..Len(f[i]) : f[i][n].obj = api[i][f[i][n].key]
  BY <1>4, <1>5
<1> QED BY <1>7, <1>8

\* A process starts with empty trackers and complete lists.
LEMMA StartFeed ==
    ASSUME \A i \in Informers : api[i] \in Objects(i), NEW f \in initialFeeds,
           NEW i \in Informers
    PROVE  /\ \A k \in Frontends :
                (\A n \in 1..Len(f[i]) : f[i][n].key # k) => Nothing[k] = api[i][k]
           /\ \A n \in 1..Len(f[i]) : f[i][n].obj = api[i][f[i][n].key]
BY InitialFeedsComplete DEF Nothing

LEMMA InitFeed == Init => FeedCurrent
<1> SUFFICES ASSUME Init PROVE FeedCurrent
  OBVIOUS
<1>1. \A i \in Informers : tracker[i] = Nothing
  BY DEF Init
<1>2. feed \in initialFeeds /\ \A i \in Informers : api[i] \in Objects(i)
  BY DEF Init
<1> QED BY <1>1, <1>2, StartFeed DEF FeedCurrent, feedCurrent

\* Every step keeps the feeds current.
LEMMA StepFeed == TypeOK /\ FeedCurrent /\ [Next]_vars => FeedCurrent'
<1> SUFFICES ASSUME TypeOK, FeedCurrent, [Next]_vars PROVE FeedCurrent'
  OBVIOUS
<1>1. /\ \A i \in Informers : /\ api[i] \in Objects(i) /\ tracker[i] \in Objects(i)
                              /\ feed[i] \in Seq([key : Frontends, obj : StatesOf(i)])
      /\ DOMAIN api = Informers /\ DOMAIN tracker = Informers /\ DOMAIN feed = Informers
  BY DEF TypeOK, IntakeOK
<1>2. ASSUME UNCHANGED <<api, feed, tracker>> PROVE FeedCurrent'
  BY <1>2 DEF FeedCurrent, feedCurrent
<1>3. ASSUME NEW i \in Informers, trackerUpdate(i) PROVE FeedCurrent'
  <2> DEFINE e == feed[i][1]
             N == Len(feed[i])
  <2>1. feed[i] # <<>> /\ feed[i] \in Seq([key : Frontends, obj : StatesOf(i)])
    BY <1>1, <1>3 DEF trackerUpdate
  <2>2. /\ N \in Nat /\ N > 0 /\ Head(feed[i]) = e
        /\ e \in [key : Frontends, obj : StatesOf(i)]
        /\ Len(Tail(feed[i])) = N - 1
        /\ \A n \in 1..(N - 1) : Tail(feed[i])[n] = feed[i][n + 1]
    <3>1. N \in Nat \ {0}
      BY <2>1, EmptySeq
    <3>2. 1 \in 1..N
      BY <3>1
    <3>3. e \in [key : Frontends, obj : StatesOf(i)]
      BY <2>1, <3>2, ElementOfSeq
    <3>4. /\ Head(feed[i]) = e /\ Len(Tail(feed[i])) = N - 1
          /\ \A n \in 1..Len(Tail(feed[i])) : Tail(feed[i])[n] = feed[i][n + 1]
      BY <2>1, HeadTailProperties
    <3> QED BY <3>1, <3>3, <3>4
  <2>3. /\ feed'[i] = Tail(feed[i]) /\ tracker'[i] = [tracker[i] EXCEPT ![e.key] = e.obj]
        /\ \A j \in Informers \ {i} : feed'[j] = feed[j] /\ tracker'[j] = tracker[j]
        /\ api' = api
    BY <1>1, <1>3, <2>2 DEF trackerUpdate
  <2>4. /\ \A k \in Frontends : (\A n \in 1..N : feed[i][n].key # k) => tracker[i][k] = api[i][k]
        /\ \A n \in 1..N : (\A m \in (n + 1)..N : feed[i][m].key # feed[i][n].key)
             => feed[i][n].obj = api[i][feed[i][n].key]
    BY DEF FeedCurrent, feedCurrent
  <2>5. /\ Len(feed'[i]) = N - 1
        /\ \A n \in 1..(N - 1) : feed'[i][n] = feed[i][n + 1]
    BY <2>2, <2>3
  <2>6. ASSUME NEW k \in Frontends, \A n \in 1..(N - 1) : feed'[i][n].key # k
        PROVE  tracker'[i][k] = api[i][k]
    <3>1. \A m \in 2..N : feed[i][m].key # k
      <4> SUFFICES ASSUME NEW m \in 2..N PROVE feed[i][m].key # k
        OBVIOUS
      <4>1. m - 1 \in 1..(N - 1) /\ (m - 1) + 1 = m
        BY <2>2
      <4> QED BY <2>5, <2>6, <4>1
    <3>2. CASE k = e.key
      <4>1. e.obj = api[i][e.key]
        BY <2>2, <2>4, <3>1, <3>2
      <4> QED BY <1>1, <2>2, <2>3, <3>2, <4>1 DEF Objects
    <3>3. CASE k # e.key
      <4>1. \A n \in 1..N : n = 1 \/ n \in 2..N
        BY <2>2
      <4>2. tracker[i][k] = api[i][k]
        BY <2>4, <3>1, <3>3, <4>1
      <4> QED BY <1>1, <2>3, <3>3, <4>2 DEF Objects
    <3> QED BY <3>2, <3>3
  <2>7. ASSUME NEW n \in 1..(N - 1),
               \A m \in (n + 1)..(N - 1) : feed'[i][m].key # feed'[i][n].key
        PROVE  feed'[i][n].obj = api[i][feed'[i][n].key]
    <3>1. n + 1 \in 1..N /\ feed'[i][n] = feed[i][n + 1]
      BY <2>2, <2>5
    <3>2. ASSUME NEW m \in ((n + 1) + 1)..N PROVE feed[i][m].key # feed[i][n + 1].key
      <4>1. m - 1 \in (n + 1)..(N - 1) /\ m - 1 \in 1..(N - 1) /\ (m - 1) + 1 = m
        BY <2>2
      <4> QED BY <2>5, <2>7, <3>1, <4>1
    <3> QED BY <2>4, <3>1, <3>2
  <2> HIDE DEF e, N
  <2>8. feedCurrent(i)'
    BY <2>3, <2>5, <2>6, <2>7 DEF feedCurrent
  <2>9. \A j \in Informers \ {i} : feedCurrent(j)'
    BY <2>3 DEF FeedCurrent, feedCurrent
  <2> QED BY <2>8, <2>9 DEF FeedCurrent
<1>4. ASSUME NEW i \in Informers, NEW k \in Frontends, NEW v, publish(i, k, v)
      PROVE  FeedCurrent'
  <2> DEFINE e == [key |-> k, obj |-> v]
             N == Len(feed[i])
  <2>1. /\ N \in Nat /\ feed[i] \in Seq([key : Frontends, obj : StatesOf(i)])
        /\ e \in [key : Frontends, obj : StatesOf(i)]
    BY <1>1, <1>4, LenProperties DEF publish
  <2>2. /\ feed'[i] = Append(feed[i], e) /\ api'[i] = [api[i] EXCEPT ![k] = v]
        /\ \A j \in Informers \ {i} : feed'[j] = feed[j] /\ api'[j] = api[j]
        /\ tracker' = tracker
    BY <1>1, <1>4 DEF publish
  <2>3. /\ Len(feed'[i]) = N + 1 /\ feed'[i][N + 1] = e
        /\ \A n \in 1..N : feed'[i][n] = feed[i][n]
    BY <2>1, <2>2, AppendProperties
  <2>4. api'[i][k] = v /\ \A h \in Frontends \ {k} : api'[i][h] = api[i][h]
    BY <1>1, <2>2 DEF Objects
  <2>5. /\ \A h \in Frontends : (\A n \in 1..N : feed[i][n].key # h) => tracker[i][h] = api[i][h]
        /\ \A n \in 1..N : (\A m \in (n + 1)..N : feed[i][m].key # feed[i][n].key)
             => feed[i][n].obj = api[i][feed[i][n].key]
    BY DEF FeedCurrent, feedCurrent
  <2>6. ASSUME NEW h \in Frontends, \A n \in 1..(N + 1) : feed'[i][n].key # h
        PROVE  tracker[i][h] = api'[i][h]
    <3>1. h # k
      BY <2>1, <2>3, <2>6
    <3>2. \A n \in 1..N : n \in 1..(N + 1)
      BY <2>1
    <3>3. tracker[i][h] = api[i][h]
      BY <2>3, <2>5, <2>6, <3>2
    <3> QED BY <2>4, <3>1, <3>3
  <2>7. ASSUME NEW n \in 1..(N + 1),
               \A m \in (n + 1)..(N + 1) : feed'[i][m].key # feed'[i][n].key
        PROVE  feed'[i][n].obj = api'[i][feed'[i][n].key]
    <3>1. CASE n = N + 1
      BY <2>3, <2>4, <3>1
    <3>2. CASE n # N + 1
      <4>1. n \in 1..N /\ N + 1 \in (n + 1)..(N + 1) /\ feed'[i][n] = feed[i][n]
        BY <2>1, <2>3, <3>2
      <4>2. feed[i][n].key # k
        BY <2>3, <2>7, <4>1
      <4>3. ASSUME NEW m \in (n + 1)..N PROVE feed[i][m].key # feed[i][n].key
        <5>1. m \in (n + 1)..(N + 1) /\ m \in 1..N
          BY <2>1
        <5> QED BY <2>3, <2>7, <4>1, <5>1
      <4>4. feed[i][n].obj = api[i][feed[i][n].key]
        BY <2>5, <4>1, <4>3
      <4>5. feed[i][n].key \in Frontends
        <5>1. feed[i][n] \in [key : Frontends, obj : StatesOf(i)]
          BY <2>1, <4>1, ElementOfSeq
        <5> QED BY <5>1
      <4> QED BY <2>4, <4>1, <4>2, <4>4, <4>5
    <3> QED BY <3>1, <3>2
  <2> HIDE DEF e, N
  <2>8. feedCurrent(i)'
    BY <2>2, <2>3, <2>6, <2>7 DEF feedCurrent
  <2>9. \A j \in Informers \ {i} : feedCurrent(j)'
    BY <2>2 DEF FeedCurrent, feedCurrent
  <2> QED BY <2>8, <2>9 DEF FeedCurrent
<1>5. CASE restart
  <2>1. feed' \in initialFeeds /\ api' = api /\ \A i \in Informers : tracker'[i] = Nothing
    BY <1>5 DEF restart
  <2>2. ASSUME NEW i \in Informers PROVE feedCurrent(i)'
    <3> DEFINE f == feed'
    <3>1. /\ \A k \in Frontends :
               (\A n \in 1..Len(f[i]) : f[i][n].key # k) => Nothing[k] = api[i][k]
          /\ \A n \in 1..Len(f[i]) : f[i][n].obj = api[i][f[i][n].key]
      <4>1. f \in initialFeeds
        BY <2>1
      <4> HIDE DEF f
      <4> QED BY <1>1, <4>1, StartFeed
    <3> QED BY <2>1, <3>1 DEF feedCurrent
  <2> QED BY <2>2 DEF FeedCurrent
<1>6. ASSUME NEW i \in Informers, setPending(i) \/ sendResync(i) PROVE UNCHANGED <<api, feed, tracker>>
  BY <1>6 DEF setPending, sendResync
<1>7. CASE run \/ step \/ wakeOnTick \/ applyFails \/ clock \/ tableRemoved \/ UNCHANGED vars
  BY <1>2, <1>7 DEF run, OnGatewaySynced, OnEndpointSlicesSynced, startSyncLoop, step,
       wakeOnResync, wakeOnRetry, syncTooEarly, snapshotGateways, snapshotSlices,
       applyFindsNoTable, applySucceeds, wakeOnTick, applyFails, clock, minSyncPeriodElapses,
       retryTimerFires, tableRemoved, intake, vars
<1> QED BY <1>2, <1>3, <1>4, <1>5, <1>6, <1>7 DEF Next, handle

\* End to end, from the API server to the kernel: when no notification is
\* outstanding and SyncLoop sleeps with nothing but the ticker to wake it, the
\* table is what the API server publishes, for any number of frontends, edits
\* and restarts, unless an apply failed or the table was removed since.
THEOREM QuietAgentIsProgrammed == Spec => []QuietIsProgrammed
<1>1. TypeOK /\ NoLostUpdate /\ FeedCurrent => QuietIsProgrammed
  <2> SUFFICES ASSUME TypeOK, NoLostUpdate, FeedCurrent,
                      loop = "select", ~token, retry = "off", ~faulty,
                      \A i \in Informers : handler[i] = "idle" /\ feed[i] = <<>>
               PROVE  table = desiredRuleset(api)
    BY DEF QuietIsProgrammed
  <2>1. table = desiredRuleset(tracker)
    BY DEF NoLostUpdate
  <2>2. \A i \in Informers : Len(feed[i]) = 0
    OBVIOUS
  <2>3. \A i \in Informers, k \in Frontends : tracker[i][k] = api[i][k]
    BY <2>2 DEF FeedCurrent, feedCurrent
  <2>4. desiredRuleset(tracker) = desiredRuleset(api)
    BY <2>3 DEF desiredRuleset, Informers
  <2> QED BY <2>1, <2>4
<1> QED BY <1>1, TypeCorrect, NoUpdateIsLost, InitFeed, StepFeed, PTL DEF Spec

=============================================================================
