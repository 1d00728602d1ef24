----------------------- MODULE GatewayController_proofs -----------------------
(***************************************************************************)
(* Proofs about the Gateway controller, for every set of Gateways, workers *)
(* and addresses and for every bound: the types, and the three safety      *)
(* invariants of what the controller publishes.                            *)
(***************************************************************************)
EXTENDS GatewayController, SequenceTheorems, TLAPS

-----------------------------------------------------------------------------
(* Types *)

\* The constant objects have their types.
LEMMA ConstantTypes ==
    /\ NoStatus \in Status
    /\ NoGateway \in GatewayObject
    /\ Idle \in Task
    /\ \A k \in Kind : NewGateway(k) \in GatewayObject
<1>1. NoStatus \in Status
  BY DEF NoStatus, Status, Cond
<1>2. NoGateway \in GatewayObject
  BY <1>1 DEF NoGateway, GatewayObject, Kind
<1>3. Idle \in Task
  BY <1>1, <1>2 DEF Idle, Task, PC
<1>4. \A k \in Kind : NewGateway(k) \in GatewayObject
  BY <1>2 DEF NewGateway, GatewayObject
<1> QED BY <1>1, <1>2, <1>3, <1>4

\* A write of a Gateway object keeps the types of everything it touches.
LEMMA WriteGatewayType ==
    ASSUME TypeOK, NEW g \in Gateways, NEW o \in GatewayObject,
           NEW w, NEW t \in Task, writeGateway(g, o, w, t)
    PROVE  /\ gw' \in [Gateways -> GatewayObject]
           /\ gwEvents' \in Seq([key : Gateways, obj : GatewayObject])
           /\ worker' \in [Workers -> Task]
<1>1. gw' \in [Gateways -> GatewayObject]
  BY DEF TypeOK, writeGateway
<1>2. [key |-> g, obj |-> o] \in [key : Gateways, obj : GatewayObject]
  OBVIOUS
<1>3. gwEvents' \in Seq([key : Gateways, obj : GatewayObject])
  BY <1>2, AppendProperties DEF TypeOK, writeGateway
<1>4. ASSUME NEW v \in Workers
      PROVE  [worker[v] EXCEPT !.fresh = @ /\ worker[v].key # g] \in Task
  <2>1. worker[v] \in Task
    BY DEF TypeOK
  <2>2. (worker[v].fresh /\ worker[v].key # g) \in BOOLEAN
    OBVIOUS
  <2> QED BY <2>1, <2>2 DEF Task
<1>5. worker' \in [Workers -> Task]
  BY <1>4 DEF writeGateway
<1> QED BY <1>1, <1>3, <1>5

\* Creating or deleting an IPAddress keeps the types.
LEMMA WriteIPType ==
    ASSUME TypeOK, NEW a \in Pool, NEW o \in Owner, writeIP(a, o)
    PROVE  ip' \in [Pool -> Owner] /\ ipEvents' \in Seq([addr : Pool, owner : Owner])
<1>1. ip' \in [Pool -> Owner]
  BY DEF TypeOK, writeIP
<1>2. [addr |-> a, owner |-> o] \in [addr : Pool, owner : Owner]
  OBVIOUS
<1>3. ipEvents' \in Seq([addr : Pool, owner : Owner])
  BY <1>2, AppendProperties DEF TypeOK, writeIP
<1> QED BY <1>1, <1>3

\* The ends and the progress of a reconcile keep the type of the workers.
LEMMA WorkerType ==
    ASSUME TypeOK, NEW w \in Workers
    PROVE  /\ done(w) => worker' \in [Workers -> Task]
           /\ retry(w) => worker' \in [Workers -> Task]
           /\ \A pc \in PC, todo \in SUBSET Pool, want \in Status :
                advance(w, pc, todo, want) => worker' \in [Workers -> Task]
           /\ \A g \in Gateways, pc \in PC, todo \in SUBSET Pool :
                begin(w, g, pc, todo) => worker' \in [Workers -> Task]
<1>1. done(w) => worker' \in [Workers -> Task]
  BY ConstantTypes DEF TypeOK, done
<1>2. retry(w) => worker' \in [Workers -> Task]
  BY ConstantTypes DEF TypeOK, retry
<1>3. ASSUME NEW pc \in PC, NEW todo \in SUBSET Pool, NEW want \in Status,
             advance(w, pc, todo, want)
      PROVE  worker' \in [Workers -> Task]
  <2>1. [worker[w] EXCEPT !.pc = pc, !.todo = todo, !.want = want] \in Task
    BY DEF TypeOK, Task
  <2> QED BY <1>3, <2>1 DEF TypeOK, advance
<1>4. ASSUME NEW g \in Gateways, NEW pc \in PC, NEW todo \in SUBSET Pool,
             begin(w, g, pc, todo)
      PROVE  worker' \in [Workers -> Task]
  <2>1. cacheCurrent(g) \in BOOLEAN
    BY DEF cacheCurrent
  <2>2. [pc |-> pc, key |-> g, copy |-> gwCache[g],
         fresh |-> cacheCurrent(g), todo |-> todo, want |-> NoStatus] \in Task
    BY <2>1, ConstantTypes DEF TypeOK, Task
  <2> QED BY <1>4, <2>2 DEF TypeOK, begin
<1> QED BY <1>1, <1>2, <1>3, <1>4

\* What evaluateGateway, the cleanup and the prune read from the caches.
LEMMA ReadTypes ==
    ASSUME TypeOK, NEW g \in Gateways
    PROVE  /\ listOwnedGatewayIPAddresses(g) \in SUBSET Pool
           /\ candidates \in SUBSET Pool
BY DEF TypeOK, listOwnedGatewayIPAddresses, candidates

\* The types hold initially.
LEMMA InitType == Init => TypeOK /\ Busy
<1> SUFFICES ASSUME Init PROVE TypeOK /\ Busy
  OBVIOUS
<1>1. gw \in [Gateways -> GatewayObject] /\ worker \in [Workers -> Task]
  BY ConstantTypes DEF Init, Kind
<1>2. ip \in [Pool -> Owner]
  BY DEF Init, Owner
<1>3. /\ edits \in 0..MaxEdits
      /\ failures \in 0..MaxFailures
      /\ restarts \in 0..MaxRestarts
  BY BoundAssumption DEF Init
<1>4. Busy
  BY DEF Init, Busy, Idle
<1> QED BY <1>1, <1>2, <1>3, <1>4 DEF Init, TypeOK

\* Taking a key keeps the types.
LEMMA ProcessType ==
    ASSUME TypeOK, NEW w \in Workers, NEW g \in Gateways, processNextGateway(w, g)
    PROVE  TypeOK'
<1>1. worker' \in [Workers -> Task]
  <2>1. CASE reconcileMissing(w, g)
    BY <2>1 DEF reconcileMissing, TypeOK
  <2>2. CASE reconcileForeign(w, g)
    BY <2>2, WorkerType, ReadTypes DEF reconcileForeign, PC
  <2>3. CASE reconcileDeleting(w, g)
    BY <2>3, WorkerType, ReadTypes DEF reconcileDeleting, PC
  <2>4. CASE reconcileManaged(w, g)
    BY <2>4, WorkerType DEF reconcileManaged, PC
  <2> QED BY <2>1, <2>2, <2>3, <2>4 DEF processNextGateway
<1>2. queue' \in SUBSET Gateways
  BY DEF TypeOK, processNextGateway, reconcileMissing, reconcileForeign,
         reconcileDeleting, reconcileManaged, getKey
<1>3. readOnly
  BY DEF processNextGateway, reconcileMissing, reconcileForeign,
         reconcileDeleting, reconcileManaged
<1> QED BY <1>1, <1>2, <1>3 DEF TypeOK, readOnly

\* Every call of a reconcile keeps the types.
LEMMA ReconcileType ==
    ASSUME TypeOK, Busy, NEW w \in Workers, reconcile(w)
    PROVE  TypeOK'
<1> DEFINE t == worker[w]
<1>1. t \in Task
  BY DEF TypeOK
<1>2. t.pc # "idle" => t.key \in Gateways
  BY <1>1 DEF Busy, Task
<1>3. t.pc # "idle"
  BY DEF reconcile, clearManagedGatewayStatus, deleteIPAddress, createIPAddress,
         removeGatewayFinalizer, ensureGatewayFinalizer, evaluateGateway, updateGatewayStatus
<1>4. gw[t.key] \in GatewayObject
  BY <1>2, <1>3 DEF TypeOK
<1>5. t.todo \in SUBSET Pool /\ t.want \in Status /\ t.pc \in PC
  BY <1>1 DEF Task
<1>6. t.key \in Gateways
  BY <1>2, <1>3
<1>7. retry(w) => queue' \in SUBSET Gateways
  BY <1>6 DEF retry, TypeOK
<1> HIDE DEF t
<1>8. CASE clearManagedGatewayStatus(w)
  <2> DEFINE next == [t EXCEPT !.pc = "cleanup", !.todo = listOwnedGatewayIPAddresses(t.key)]
             o == [gw[t.key] EXCEPT !.status = NoStatus]
  <2>1. next \in Task /\ [next EXCEPT !.fresh = FALSE] \in Task
    BY <1>1, <1>6, ReadTypes DEF Task, PC
  <2>2. o \in GatewayObject
    BY <1>4, ConstantTypes DEF GatewayObject
  <2> HIDE DEF next, o
  <2>3. CASE writeGateway(t.key, o, w, [next EXCEPT !.fresh = FALSE])
    BY <1>6, <1>8, <2>1, <2>2, <2>3, WriteGatewayType
       DEF clearManagedGatewayStatus, noWriteIP, quietly, TypeOK, retry, t
  <2>4. CASE worker' = [worker EXCEPT ![w] = next] /\ noWriteGateway /\ UNCHANGED queue
    BY <1>8, <2>1, <2>4 DEF clearManagedGatewayStatus, noWriteGateway, noWriteIP, quietly, TypeOK
  <2>5. CASE retry(w) /\ noWriteGateway
    BY <1>7, <1>8, <2>5, WorkerType
       DEF clearManagedGatewayStatus, noWriteGateway, noWriteIP, quietly, TypeOK
  <2> QED BY <1>8, <2>3, <2>4, <2>5 DEF clearManagedGatewayStatus, next, o, t
<1>9. ASSUME NEW a \in Pool, deleteIPAddress(w, a) PROVE TypeOK'
  <2>1. advance(w, t.pc, t.todo \ {a}, t.want)
    BY <1>9 DEF deleteIPAddress, t
  <2>2. worker' \in [Workers -> Task]
    BY <2>1, <1>5, WorkerType
  <2>3. ip' \in [Pool -> Owner] /\ ipEvents' \in Seq([addr : Pool, owner : Owner])
    BY <1>9, WriteIPType DEF deleteIPAddress, noWriteIP, Owner, TypeOK
  <2> QED BY <1>9, <2>2, <2>3 DEF deleteIPAddress, noWriteGateway, quietly, TypeOK
<1>10. ASSUME NEW a \in Pool, createIPAddress(w, a) PROVE TypeOK'
  <2>1. worker' \in [Workers -> Task]
    <3>1. [addr |-> a, cond |-> "pending"] \in Status
      BY DEF Status, Cond
    <3>2. \/ advance(w, "status", {}, [addr |-> a, cond |-> "pending"])
          \/ advance(w, "allocate", t.todo \ {a}, t.want)
      BY <1>10 DEF createIPAddress, t
    <3> QED BY <3>1, <3>2, <1>5, WorkerType DEF PC
  <2>2. ip' \in [Pool -> Owner] /\ ipEvents' \in Seq([addr : Pool, owner : Owner])
    BY <1>10, <1>6, WriteIPType DEF createIPAddress, noWriteIP, Owner, TypeOK, t
  <2>3. granted' \in SUBSET (Gateways \X Pool)
    BY <1>10, <1>6 DEF createIPAddress, TypeOK, t
  <2> QED BY <1>10, <2>1, <2>2, <2>3 DEF createIPAddress, noWriteGateway, quietly, TypeOK
<1>11. CASE removeGatewayFinalizer(w)
  <2> DEFINE o == IF gw[t.key].deleting THEN NoGateway ELSE [gw[t.key] EXCEPT !.fin = FALSE]
  <2>1. o \in GatewayObject
    BY <1>4, ConstantTypes DEF GatewayObject
  <2> HIDE DEF o
  <2>2. CASE writeGateway(t.key, o, w, Idle)
    BY <1>6, <1>11, <2>1, <2>2, WriteGatewayType, ConstantTypes
       DEF removeGatewayFinalizer, noWriteIP, quietly, TypeOK
  <2>3. CASE done(w) /\ noWriteGateway
    BY <1>11, <2>3, WorkerType
       DEF removeGatewayFinalizer, noWriteGateway, noWriteIP, quietly, TypeOK
  <2> QED BY <1>11, <2>2, <2>3 DEF removeGatewayFinalizer, o, t
<1>12. CASE ensureGatewayFinalizer(w)
  <2> DEFINE o == [gw[t.key] EXCEPT !.fin = TRUE]
  <2>1. o \in GatewayObject
    BY <1>4 DEF GatewayObject
  <2> HIDE DEF o
  <2>2. CASE writeGateway(t.key, o, w, Idle) /\ UNCHANGED queue
    BY <1>6, <1>12, <2>1, <2>2, WriteGatewayType, ConstantTypes
       DEF ensureGatewayFinalizer, noWriteIP, quietly, TypeOK
  <2>3. CASE retry(w) /\ noWriteGateway
    BY <1>7, <1>12, <2>3, WorkerType
       DEF ensureGatewayFinalizer, noWriteGateway, noWriteIP, quietly, TypeOK
  <2>4. CASE advance(w, "evaluate", {}, NoStatus) /\ noWriteGateway /\ UNCHANGED queue
    BY <1>12, <2>4, WorkerType, ConstantTypes
       DEF ensureGatewayFinalizer, noWriteGateway, noWriteIP, quietly, TypeOK, PC
  <2> QED BY <1>12, <2>2, <2>3, <2>4 DEF ensureGatewayFinalizer, o, t
<1>13. CASE evaluateGateway(w)
  <2>1. listOwnedGatewayIPAddresses(t.key) \in SUBSET Pool
    BY <1>6, ReadTypes
  <2>2. \A a \in Pool \cup {NoAddr}, c \in Cond : [addr |-> a, cond |-> c] \in Status
    BY DEF Status
  <2>3. \E pc \in PC, todo \in SUBSET Pool, want \in Status : advance(w, pc, todo, want)
    BY <1>6, <1>13, <2>1, <2>2, ReadTypes DEF evaluateGateway, PC, Cond, t
  <2>4. worker' \in [Workers -> Task]
    BY <2>3, WorkerType
  <2> QED BY <1>13, <2>4 DEF evaluateGateway, noWriteGateway, noWriteIP, quietly, TypeOK
<1>14. CASE updateGatewayStatus(w)
  <2> DEFINE o == [gw[t.key] EXCEPT !.status = t.want, !.observed = TRUE]
  <2>1. o \in GatewayObject
    BY <1>4, <1>5 DEF GatewayObject
  <2> HIDE DEF o
  <2>2. CASE writeGateway(t.key, o, w, Idle) /\ UNCHANGED queue
    BY <1>6, <1>14, <2>1, <2>2, WriteGatewayType, ConstantTypes
       DEF updateGatewayStatus, noWriteIP, quietly, TypeOK
  <2>3. CASE ((done(w) /\ UNCHANGED queue) \/ retry(w)) /\ noWriteGateway
    BY <1>7, <1>14, <2>3, WorkerType
       DEF updateGatewayStatus, noWriteGateway, noWriteIP, quietly, TypeOK
  <2> QED BY <1>14, <2>2, <2>3 DEF updateGatewayStatus, o, t
<1> QED BY <1>8, <1>9, <1>10, <1>11, <1>12, <1>13, <1>14 DEF reconcile

\* A failed API call keeps the types.
LEMMA FailureType ==
    ASSUME TypeOK, Busy, NEW w \in Workers, apiCallFails(w)
    PROVE  TypeOK'
<1>1. worker[w] \in Task
  BY DEF TypeOK
<1>2. failures' \in 0..MaxFailures
  BY BoundAssumption DEF apiCallFails, TypeOK
<1>3. CASE advance(w, "status", {}, [addr |-> NoAddr, cond |-> "apiError"]) /\ UNCHANGED queue
  <2>1. [addr |-> NoAddr, cond |-> "apiError"] \in Status
    BY DEF Status, Cond
  <2>2. worker' \in [Workers -> Task]
    BY <1>3, <2>1, WorkerType DEF PC
  <2> QED BY <1>2, <1>3, <2>2
       DEF apiCallFails, noWriteGateway, noWriteIP, quietly, TypeOK
<1>4. CASE retry(w) /\ worker[w].pc # "idle"
  <2>1. worker[w].key \in Gateways
    BY <1>1, <1>4 DEF Busy, Task
  <2>2. queue' \in SUBSET Gateways
    BY <1>4, <2>1 DEF retry, TypeOK
  <2>3. worker' \in [Workers -> Task]
    BY <1>4, WorkerType
  <2> QED BY <1>2, <2>2, <2>3
       DEF apiCallFails, noWriteGateway, noWriteIP, quietly, TypeOK
<1> QED BY <1>3, <1>4 DEF apiCallFails

\* Events, resyncs and restarts keep the types.
LEMMA InformerType ==
    ASSUME TypeOK, deliverGateway \/ deliverIPAddress \/ resync \/ restart
    PROVE  TypeOK'
<1>1. CASE deliverGateway
  <2>1. /\ Head(gwEvents) \in [key : Gateways, obj : GatewayObject]
        /\ gwEvents' \in Seq([key : Gateways, obj : GatewayObject])
    BY <1>1, HeadTailProperties DEF deliverGateway, TypeOK
  <2>2. gwCache' \in [Gateways -> GatewayObject] /\ queue' \in SUBSET Gateways
    BY <1>1, <2>1 DEF deliverGateway, TypeOK
  <2> QED BY <1>1, <2>1, <2>2 DEF deliverGateway, TypeOK, boundVars
<1>2. CASE deliverIPAddress
  <2>1. /\ Head(ipEvents) \in [addr : Pool, owner : Owner]
        /\ ipEvents' \in Seq([addr : Pool, owner : Owner])
    BY <1>2, HeadTailProperties DEF deliverIPAddress, TypeOK
  <2>2. ipCache' \in [Pool -> Owner]
    BY <1>2, <2>1 DEF deliverIPAddress, TypeOK
  <2>3. queue' \in SUBSET Gateways
    BY <1>2 DEF deliverIPAddress, TypeOK, keysForIPEvent
  <2> QED BY <1>2, <2>1, <2>2, <2>3 DEF deliverIPAddress, TypeOK, boundVars
<1>3. CASE resync
  BY <1>3 DEF resync, TypeOK, boundVars
<1>4. CASE restart
  <2>1. worker' \in [Workers -> Task]
    BY <1>4, ConstantTypes DEF restart
  <2>2. restarts' \in 0..MaxRestarts
    BY <1>4, BoundAssumption DEF restart, TypeOK
  <2>3. /\ gwEvents' \in Seq([key : Gateways, obj : GatewayObject])
        /\ ipEvents' \in Seq([addr : Pool, owner : Owner])
    BY <1>4, EmptySeq DEF restart
  <2> QED BY <1>4, <2>1, <2>2, <2>3 DEF restart, TypeOK
<1> QED BY <1>1, <1>2, <1>3, <1>4

\* Whatever users and the cluster do keeps the types.
LEMMA EnvironmentType ==
    ASSUME TypeOK, Environment
    PROVE  TypeOK'
<1>1. edit => edits' \in 0..MaxEdits /\ failures' \in 0..MaxFailures /\ restarts' \in 0..MaxRestarts
  BY BoundAssumption DEF edit, TypeOK
<1>2. ASSUME NEW g \in Gateways, NEW o \in GatewayObject, userWritesGateway(g, o)
      PROVE  TypeOK'
  <2>1. writeGateway(g, o, None, Idle)
    BY <1>2 DEF userWritesGateway
  <2>2. /\ gw' \in [Gateways -> GatewayObject]
        /\ gwEvents' \in Seq([key : Gateways, obj : GatewayObject])
        /\ worker' \in [Workers -> Task]
    BY <2>1, WriteGatewayType, ConstantTypes
  <2> QED BY <1>1, <1>2, <2>2 DEF userWritesGateway, TypeOK
<1>3. ASSUME NEW g \in Gateways, NEW k \in Kind, createGateway(g, k) \/ editGateway(g, k)
      PROVE  TypeOK'
  <2>1. NewGateway(k) \in GatewayObject
    BY ConstantTypes
  <2>2. [gw[g] EXCEPT !.kind = k, !.observed = FALSE] \in GatewayObject
    <3>1. gw[g] \in GatewayObject
      BY DEF TypeOK
    <3> QED BY <3>1 DEF GatewayObject
  <2> QED BY <1>2, <1>3, <2>1, <2>2 DEF createGateway, editGateway
<1>4. ASSUME NEW g \in Gateways, deleteGateway(g) PROVE TypeOK'
  <2>1. [gw[g] EXCEPT !.deleting = TRUE] \in GatewayObject
    <3>1. gw[g] \in GatewayObject
      BY DEF TypeOK
    <3> QED BY <3>1 DEF GatewayObject
  <2>2. NoGateway \in GatewayObject
    BY ConstantTypes
  <2> QED BY <1>2, <1>4, <2>1, <2>2 DEF deleteGateway
<1>5. ASSUME NEW g \in Gateways, changeRoutes(g) PROVE TypeOK'
  <2>1. routed' \in [Gateways -> BOOLEAN]
    BY <1>5 DEF changeRoutes, TypeOK
  <2> QED BY <1>1, <1>5, <2>1 DEF changeRoutes, TypeOK
<1>6. ASSUME NEW S \in SUBSET Pool, changeServiceCIDRs(S) PROVE TypeOK'
  BY <1>1, <1>6 DEF changeServiceCIDRs, TypeOK
<1>7. ASSUME NEW a \in Pool, serviceTakes(a) \/ serviceFrees(a) PROVE TypeOK'
  <2>1. ip' \in [Pool -> Owner] /\ ipEvents' \in Seq([addr : Pool, owner : Owner])
    BY <1>7, WriteIPType DEF serviceTakes, serviceFrees, Owner
  <2> QED BY <1>1, <1>7, <2>1 DEF serviceTakes, serviceFrees, TypeOK
<1> QED BY <1>3, <1>4, <1>5, <1>6, <1>7 DEF Environment

\* Every step keeps the types.
LEMMA StepType == TypeOK /\ Busy /\ [Next]_vars => TypeOK'
<1>1. TypeOK /\ Busy /\ Next => TypeOK'
  BY ProcessType, ReconcileType, FailureType, InformerType, EnvironmentType DEF Next
<1>2. TypeOK /\ UNCHANGED vars => TypeOK'
  BY DEF TypeOK, vars
<1> QED BY <1>1, <1>2

-----------------------------------------------------------------------------
(* Keys *)

\* Only the worker that a write belongs to changes more than its freshness.
LEMMA WriteKeepsOthers ==
    ASSUME TypeOK, NEW g, NEW o, NEW w, NEW t, writeGateway(g, o, w, t)
    PROVE  \A v \in Workers :
             /\ v = w => worker'[v] = t
             /\ v # w => /\ worker'[v].pc = worker[v].pc
                         /\ worker'[v].key = worker[v].key
                         /\ worker'[v].copy = worker[v].copy
                         /\ worker'[v].todo = worker[v].todo
                         /\ worker'[v].want = worker[v].want
                         /\ worker'[v].fresh => worker[v].fresh /\ worker[v].key # g
<1> SUFFICES ASSUME NEW v \in Workers
             PROVE  /\ v = w => worker'[v] = t
                    /\ v # w => /\ worker'[v].pc = worker[v].pc
                                /\ worker'[v].key = worker[v].key
                                /\ worker'[v].copy = worker[v].copy
                                /\ worker'[v].todo = worker[v].todo
                                /\ worker'[v].want = worker[v].want
                                /\ worker'[v].fresh => worker[v].fresh /\ worker[v].key # g
  OBVIOUS
<1>1. v = w => worker'[v] = t
  BY DEF writeGateway
<1>2. worker[v] \in Task
  BY DEF TypeOK
<1>3. v # w => worker'[v] = [worker[v] EXCEPT !.fresh = @ /\ worker[v].key # g]
  BY DEF writeGateway
<1>4. v # w => worker'[v].fresh = (worker[v].fresh /\ worker[v].key # g)
  BY <1>2, <1>3 DEF Task
<1>5. v # w => (worker'[v].fresh => worker[v].fresh /\ worker[v].key # g)
  BY <1>4
<1> QED BY <1>1, <1>2, <1>3, <1>5 DEF Task
\* A reconcile keeps its key until it ends.
LEMMA ReconcileKeys ==
    ASSUME TypeOK, Busy, NEW w \in Workers, reconcile(w) \/ apiCallFails(w)
    PROVE  \A v \in Workers :
             \/ worker'[v].key = worker[v].key /\ (worker'[v].pc = "idle" <=> worker[v].pc = "idle")
             \/ worker'[v] = Idle
<1>1. \A v \in Workers : worker[v] \in Task
  BY DEF TypeOK
<1>2. ASSUME NEW pc, NEW todo, NEW want, advance(w, pc, todo, want), pc # "idle", worker[w].pc # "idle"
      PROVE  \A v \in Workers :
               worker'[v].key = worker[v].key /\ (worker'[v].pc = "idle" <=> worker[v].pc = "idle")
  <2>1. worker \in [Workers -> Task]
    BY DEF TypeOK
  <2> QED BY <1>2, <2>1 DEF advance, Task
<1>3. ASSUME done(w) \/ retry(w)
      PROVE  \A v \in Workers : worker'[v] = worker[v] \/ worker'[v] = Idle
  BY <1>3 DEF done, retry, TypeOK
<1>4. CASE clearManagedGatewayStatus(w)
  <2> DEFINE next == [worker[w] EXCEPT !.pc = "cleanup",
                        !.todo = listOwnedGatewayIPAddresses(worker[w].key)]
             last == [next EXCEPT !.fresh = FALSE]
             o == [gw[worker[w].key] EXCEPT !.status = NoStatus]
  <2>1. next.key = worker[w].key /\ next.pc = "cleanup" /\ last.key = worker[w].key /\ last.pc = "cleanup"
    BY <1>1 DEF Task
  <2>2. \/ worker' = [worker EXCEPT ![w] = next]
        \/ writeGateway(worker[w].key, o, w, last)
        \/ retry(w)
    BY <1>4 DEF clearManagedGatewayStatus
  <2>3. worker[w].pc = "clear"
    BY <1>4 DEF clearManagedGatewayStatus
  <2> HIDE DEF next, last, o
  <2>4. CASE writeGateway(worker[w].key, o, w, last)
    BY <2>1, <2>3, <2>4, WriteKeepsOthers
  <2>5. CASE worker' = [worker EXCEPT ![w] = next]
    BY <2>1, <2>3, <2>5 DEF TypeOK
  <2> QED BY <1>3, <2>2, <2>4, <2>5
<1>5. ASSUME NEW g, NEW o, writeGateway(g, o, w, Idle)
      PROVE  \A v \in Workers :
             \/ worker'[v].key = worker[v].key /\ worker'[v].pc = worker[v].pc
             \/ worker'[v] = Idle
  BY <1>5, WriteKeepsOthers
<1>6. CASE removeGatewayFinalizer(w)
  BY <1>3, <1>5, <1>6 DEF removeGatewayFinalizer
<1>7. CASE ensureGatewayFinalizer(w)
  BY <1>2, <1>3, <1>5, <1>7 DEF ensureGatewayFinalizer
<1>8. CASE updateGatewayStatus(w)
  BY <1>3, <1>5, <1>8 DEF updateGatewayStatus
<1>9. CASE evaluateGateway(w)
  BY <1>2, <1>9 DEF evaluateGateway
<1>10. ASSUME NEW a \in Pool, deleteIPAddress(w, a) \/ createIPAddress(w, a)
       PROVE  \A v \in Workers :
                worker'[v].key = worker[v].key /\ (worker'[v].pc = "idle" <=> worker[v].pc = "idle")
  BY <1>2, <1>10 DEF deleteIPAddress, createIPAddress
<1>11. CASE apiCallFails(w)
  BY <1>2, <1>3, <1>11 DEF apiCallFails
<1> QED BY <1>4, <1>6, <1>7, <1>8, <1>9, <1>10, <1>11 DEF reconcile

\* A worker is idle exactly when it has no key, and no key is shared: the
\* workqueue's guarantee, which every end of a reconcile respects.
LEMMA StepKeys == TypeOK /\ Busy /\ ExclusiveKeys /\ [Next]_vars => Busy' /\ ExclusiveKeys'
<1> SUFFICES ASSUME TypeOK, Busy, ExclusiveKeys, [Next]_vars
             PROVE  Busy' /\ ExclusiveKeys'
  OBVIOUS
<1>1. Idle.key = None /\ Idle.pc = "idle"
  BY DEF Idle
<1>2. CASE \A v \in Workers :
             \/ worker'[v].key = worker[v].key /\ (worker'[v].pc = "idle" <=> worker[v].pc = "idle")
             \/ worker'[v] = Idle
  BY <1>1, <1>2 DEF Busy, ExclusiveKeys
<1>3. ASSUME NEW w \in Workers, NEW g \in Gateways, processNextGateway(w, g)
      PROVE  Busy' /\ ExclusiveKeys'
  <2>1. CASE reconcileMissing(w, g)
    BY <1>2, <2>1 DEF reconcileMissing
  <2>2. CASE ~reconcileMissing(w, g)
    <3>1. \E pc \in PC \ {"idle"} : \E todo : begin(w, g, pc, todo)
      BY <1>3, <2>2 DEF processNextGateway, reconcileForeign, reconcileDeleting,
                        reconcileManaged, PC
    <3>2. \A v \in Workers : worker[v].key # g
      BY <1>3, <2>2 DEF processNextGateway, reconcileForeign, reconcileDeleting,
                        reconcileManaged, getKey
    <3>3. worker'[w].key = g /\ worker'[w].pc # "idle"
      BY <3>1 DEF begin, TypeOK
    <3>4. \A v \in Workers : v # w => worker'[v] = worker[v]
      BY <3>1 DEF begin, TypeOK
    <3> QED BY <3>2, <3>3, <3>4, OwnerAssumption DEF Busy, ExclusiveKeys
  <2> QED BY <2>1, <2>2
<1>4. ASSUME NEW w \in Workers, reconcile(w) \/ apiCallFails(w)
      PROVE  Busy' /\ ExclusiveKeys'
  BY <1>2, <1>4, ReconcileKeys
<1>5. CASE deliverGateway \/ deliverIPAddress \/ resync \/ UNCHANGED vars
  BY <1>2, <1>5 DEF deliverGateway, deliverIPAddress, resync, vars
<1>6. CASE restart
  BY <1>2, <1>6 DEF restart
<1>7. CASE Environment
  <2>1. ASSUME NEW g, NEW o, userWritesGateway(g, o)
        PROVE  \A v \in Workers : worker'[v].key = worker[v].key /\ worker'[v].pc = worker[v].pc
    <3>1. writeGateway(g, o, None, Idle)
      BY <2>1 DEF userWritesGateway
    <3> QED BY <3>1, WriteKeepsOthers, OwnerAssumption
  <2>2. \/ UNCHANGED worker
        \/ \A v \in Workers : worker'[v].key = worker[v].key /\ worker'[v].pc = worker[v].pc
    BY <1>7, <2>1 DEF Environment, createGateway, editGateway, deleteGateway,
                      changeRoutes, changeServiceCIDRs, serviceTakes, serviceFrees
  <2> QED BY <1>2, <2>2
<1> QED BY <1>3, <1>4, <1>5, <1>6, <1>7 DEF Next

\* The types and the keys hold in every behaviour.
LEMMA TypesAndKeys == Spec => [](TypeOK /\ Busy /\ ExclusiveKeys)
<1>1. Init => TypeOK /\ Busy /\ ExclusiveKeys
  BY InitType DEF Init, ExclusiveKeys, Idle
<1>2. TypeOK /\ Busy /\ ExclusiveKeys /\ [Next]_vars => (TypeOK /\ Busy /\ ExclusiveKeys)'
  BY StepType, StepKeys
<1> QED BY <1>1, <1>2, PTL DEF Spec

\* Every variable keeps its type in every behaviour, whatever the events, the
\* failures and the restarts: in particular gatewayQueue holds Gateway keys
\* only, although IPAddress events of Services arrive at its handlers too.
THEOREM TypeCorrect == Spec => []TypeOK
BY TypesAndKeys, PTL

-----------------------------------------------------------------------------
(* Grants *)

\* A new event for an address that is granted, or of an owner that is no
\* Gateway, keeps what is known of the API server's addresses and the events.
LEMMA WriteIPGrants ==
    ASSUME TypeOK, LiveGrants, EventGrants, NEW a \in Pool, NEW o \in Owner,
           writeIP(a, o), granted \subseteq granted',
           o \in Gateways => <<o, a>> \in granted'
    PROVE  LiveGrants' /\ EventGrants'
<1>1. LiveGrants'
  BY DEF writeIP, LiveGrants, TypeOK
<1>2. [addr |-> a, owner |-> o] \in [addr : Pool, owner : Owner]
  OBVIOUS
<1>3. /\ Len(ipEvents') = Len(ipEvents) + 1
      /\ \A i \in 1..Len(ipEvents) : ipEvents'[i] = ipEvents[i]
      /\ ipEvents'[Len(ipEvents) + 1] = [addr |-> a, owner |-> o]
  BY <1>2, AppendProperties DEF writeIP, TypeOK
<1>4. Len(ipEvents) \in Nat
  BY LenProperties DEF TypeOK
<1>5. \A i \in 1..Len(ipEvents') : i \in 1..Len(ipEvents) \/ i = Len(ipEvents) + 1
  BY <1>3, <1>4
<1>6. EventGrants'
  BY <1>3, <1>5 DEF EventGrants
<1> QED BY <1>1, <1>6

\* A step that leaves the API server's IPAddresses alone keeps that too.
LEMMA NoWriteIPGrants ==
    LiveGrants /\ EventGrants /\ noWriteIP /\ granted \subseteq granted' => LiveGrants' /\ EventGrants'
BY DEF LiveGrants, EventGrants, noWriteIP

\* The addresses wanted by the workers stay granted when one of them advances
\* to an address granted to its key, and when it stops or starts.
LEMMA WorkerGrants ==
    ASSUME TypeOK, WantedGrants, NEW w \in Workers, granted \subseteq granted'
    PROVE  /\ done(w) \/ retry(w) => WantedGrants'
           /\ \A pc, todo : \A want \in Status :
                /\ advance(w, pc, todo, want)
                /\ want.addr # NoAddr => <<worker[w].key, want.addr>> \in granted'
                => WantedGrants'
           /\ \A g, pc, todo : begin(w, g, pc, todo) => WantedGrants'
<1>1. worker \in [Workers -> Task]
  BY DEF TypeOK
<1>2. Idle.want.addr = NoAddr /\ NoStatus.addr = NoAddr
  BY DEF Idle, NoStatus
<1>3. done(w) \/ retry(w) => WantedGrants'
  BY <1>1, <1>2 DEF done, retry, WantedGrants
<1>4. ASSUME NEW pc, NEW todo, NEW want \in Status, advance(w, pc, todo, want),
             want.addr # NoAddr => <<worker[w].key, want.addr>> \in granted'
      PROVE  WantedGrants'
  BY <1>1, <1>4 DEF advance, WantedGrants, Task
<1>5. ASSUME NEW g, NEW pc, NEW todo, begin(w, g, pc, todo) PROVE WantedGrants'
  BY <1>1, <1>2, <1>5 DEF begin, WantedGrants
<1> QED BY <1>3, <1>4, <1>5

\* A write of a Gateway object keeps what the workers want, and keeps what is
\* published granted if what it publishes is.
LEMMA WriteGatewayGrants ==
    ASSUME TypeOK, WantedGrants, PublishedWasGranted, UNCHANGED granted,
           NEW g \in Gateways, NEW o \in GatewayObject, NEW w, NEW t,
           writeGateway(g, o, w, t),
           o.status.addr # NoAddr => <<g, o.status.addr>> \in granted,
           w \in Workers => (t.key = worker[w].key /\ t.want = worker[w].want) \/ t = Idle
    PROVE  WantedGrants' /\ PublishedWasGranted'
<1>1. PublishedWasGranted'
  BY DEF writeGateway, PublishedWasGranted, TypeOK
<1>2. Idle.want.addr = NoAddr
  BY DEF Idle, NoStatus
<1>3. WantedGrants'
  BY <1>2, WriteKeepsOthers DEF WantedGrants
<1> QED BY <1>1, <1>3
\* Every step of a reconcile, failed or not, wants and publishes only
\* addresses granted to its Gateway.
LEMMA ReconcileGrants ==
    ASSUME TypeOK, Busy, GrantsKnown, PublishedWasGranted,
           NEW w \in Workers, reconcile(w) \/ apiCallFails(w)
    PROVE  GrantsKnown' /\ PublishedWasGranted'
<1> DEFINE t == worker[w]
<1>1. t \in Task /\ NoStatus \in Status
  BY ConstantTypes DEF TypeOK
<1>2. t.pc # "idle"
  BY DEF reconcile, clearManagedGatewayStatus, deleteIPAddress, createIPAddress,
         removeGatewayFinalizer, ensureGatewayFinalizer, evaluateGateway,
         updateGatewayStatus, apiCallFails
<1>3. t.key \in Gateways /\ t.want \in Status
  BY <1>1, <1>2 DEF Busy, Task
<1>4. gw[t.key] \in GatewayObject
  BY <1>3 DEF TypeOK
<1>5. NoStatus.addr = NoAddr /\ NoGateway.status = NoStatus
  BY DEF NoStatus, NoGateway
<1>6. ASSUME UNCHANGED gw, granted \subseteq granted' PROVE PublishedWasGranted'
  BY <1>6 DEF PublishedWasGranted
<1>7. ASSUME UNCHANGED ipCache, granted \subseteq granted' PROVE CachedGrants'
  BY <1>7 DEF CachedGrants, GrantsKnown
<1>8. LiveGrants /\ CachedGrants /\ EventGrants /\ WantedGrants
  BY DEF GrantsKnown
<1>9. gw[t.key].status.addr # NoAddr => <<t.key, gw[t.key].status.addr>> \in granted
  BY <1>3 DEF PublishedWasGranted
<1>10. t.want.addr # NoAddr => <<t.key, t.want.addr>> \in granted
  BY <1>8 DEF WantedGrants
<1> USE DEF GrantsKnown
<1> HIDE DEF t
<1>11. CASE clearManagedGatewayStatus(w)
  <2> DEFINE next == [t EXCEPT !.pc = "cleanup", !.todo = listOwnedGatewayIPAddresses(t.key)]
             last == [next EXCEPT !.fresh = FALSE]
             o == [gw[t.key] EXCEPT !.status = NoStatus]
  <2>1. /\ next.key = t.key /\ next.want = t.want
        /\ last.key = t.key /\ last.want = t.want
    BY <1>1 DEF Task
  <2>2. o \in GatewayObject /\ o.status.addr = NoAddr
    BY <1>1, <1>4, <1>5 DEF GatewayObject
  <2>3. /\ noWriteIP /\ UNCHANGED <<ipCache, granted>>
        /\ \/ worker' = [worker EXCEPT ![w] = next] /\ noWriteGateway
           \/ writeGateway(t.key, o, w, last)
           \/ retry(w) /\ noWriteGateway
    BY <1>11 DEF clearManagedGatewayStatus, quietly, t
  <2> HIDE DEF next, last, o
  <2>4. LiveGrants' /\ EventGrants' /\ CachedGrants'
    BY <1>7, <1>8, <2>3, NoWriteIPGrants
  <2>5. CASE writeGateway(t.key, o, w, last)
    BY <1>3, <1>8, <2>1, <2>2, <2>3, <2>4, <2>5, WriteGatewayGrants DEF t
  <2>6. CASE worker' = [worker EXCEPT ![w] = next] /\ noWriteGateway
    <3>1. WantedGrants'
      BY <1>8, <1>10, <2>1, <2>3, <2>6 DEF WantedGrants, TypeOK
    <3> QED BY <1>6, <2>3, <2>4, <2>6, <3>1 DEF noWriteGateway
  <2>7. CASE retry(w) /\ noWriteGateway
    BY <1>6, <1>8, <2>3, <2>4, <2>7, WorkerGrants DEF noWriteGateway
  <2> QED BY <2>3, <2>5, <2>6, <2>7
<1>12. ASSUME NEW a \in Pool, deleteIPAddress(w, a) PROVE GrantsKnown' /\ PublishedWasGranted'
  <2>1. LiveGrants' /\ EventGrants'
    BY <1>8, <1>12, WriteIPGrants, NoWriteIPGrants, OwnerAssumption DEF deleteIPAddress, Owner
  <2>2. WantedGrants'
    BY <1>3, <1>8, <1>10, <1>12, WorkerGrants DEF deleteIPAddress, t
  <2> QED BY <1>6, <1>7, <1>12, <2>1, <2>2 DEF deleteIPAddress, noWriteGateway, quietly
<1>13. ASSUME NEW a \in Pool, createIPAddress(w, a) PROVE GrantsKnown' /\ PublishedWasGranted'
  <2>1. CASE ip[a] = None
    <3>1. /\ writeIP(a, t.key) /\ granted' = granted \cup {<<t.key, a>>}
          /\ advance(w, "status", {}, [addr |-> a, cond |-> "pending"])
      BY <1>13, <2>1 DEF createIPAddress, t
    <3>2. LiveGrants' /\ EventGrants'
      BY <1>3, <1>8, <3>1, WriteIPGrants DEF Owner
    <3>3. [addr |-> a, cond |-> "pending"] \in Status
      BY DEF Status, Cond
    <3>4. WantedGrants'
      BY <1>8, <3>1, <3>3, WorkerGrants DEF t
    <3> QED BY <1>6, <1>7, <1>13, <3>1, <3>2, <3>4 DEF createIPAddress, noWriteGateway, quietly
  <2>2. CASE ip[a] # None
    <3>1. noWriteIP /\ UNCHANGED granted /\ advance(w, "allocate", t.todo \ {a}, t.want)
      BY <1>13, <2>2 DEF createIPAddress, t
    <3>2. LiveGrants' /\ EventGrants' /\ WantedGrants'
      BY <1>3, <1>8, <1>10, <3>1, NoWriteIPGrants, WorkerGrants DEF t
    <3> QED BY <1>6, <1>7, <1>13, <3>1, <3>2 DEF createIPAddress, noWriteGateway, quietly
  <2> QED BY <2>1, <2>2
<1>14. CASE removeGatewayFinalizer(w)
  <2> DEFINE o == IF gw[t.key].deleting THEN NoGateway ELSE [gw[t.key] EXCEPT !.fin = FALSE]
  <2>1. /\ o \in GatewayObject
        /\ o.status.addr # NoAddr => <<t.key, o.status.addr>> \in granted
    BY <1>4, <1>5, <1>9, ConstantTypes DEF GatewayObject
  <2>2. /\ noWriteIP /\ UNCHANGED <<ipCache, granted>>
        /\ \/ writeGateway(t.key, o, w, Idle)
           \/ done(w) /\ noWriteGateway
    BY <1>14 DEF removeGatewayFinalizer, quietly, t
  <2> HIDE DEF o
  <2>3. LiveGrants' /\ EventGrants' /\ CachedGrants'
    BY <1>7, <1>8, <2>2, NoWriteIPGrants
  <2>4. CASE writeGateway(t.key, o, w, Idle)
    BY <1>3, <1>8, <2>1, <2>2, <2>3, <2>4, WriteGatewayGrants
  <2>5. CASE done(w) /\ noWriteGateway
    BY <1>6, <1>8, <2>2, <2>3, <2>5, WorkerGrants DEF noWriteGateway
  <2> QED BY <2>2, <2>4, <2>5
<1>15. CASE ensureGatewayFinalizer(w)
  <2> DEFINE o == [gw[t.key] EXCEPT !.fin = TRUE]
  <2>1. /\ o \in GatewayObject
        /\ o.status.addr # NoAddr => <<t.key, o.status.addr>> \in granted
    BY <1>4, <1>9 DEF GatewayObject
  <2>2. /\ noWriteIP /\ UNCHANGED <<ipCache, granted>>
        /\ \/ writeGateway(t.key, o, w, Idle)
           \/ (retry(w) \/ advance(w, "evaluate", {}, NoStatus)) /\ noWriteGateway
    BY <1>15 DEF ensureGatewayFinalizer, quietly, t
  <2> HIDE DEF o
  <2>3. LiveGrants' /\ EventGrants' /\ CachedGrants'
    BY <1>7, <1>8, <2>2, NoWriteIPGrants
  <2>4. CASE writeGateway(t.key, o, w, Idle)
    BY <1>3, <1>8, <2>1, <2>2, <2>3, <2>4, WriteGatewayGrants
  <2>5. CASE (retry(w) \/ advance(w, "evaluate", {}, NoStatus)) /\ noWriteGateway
    BY <1>1, <1>5, <1>6, <1>8, <2>2, <2>3, <2>5, WorkerGrants DEF noWriteGateway
  <2> QED BY <2>2, <2>4, <2>5
<1>16. CASE evaluateGateway(w)
  <2>1. /\ noWriteIP /\ noWriteGateway /\ UNCHANGED <<ipCache, granted>>
    BY <1>16 DEF evaluateGateway, quietly
  <2>2. \A a \in Pool \cup {NoAddr}, c \in Cond :
          /\ [addr |-> a, cond |-> c] \in Status
          /\ [addr |-> a, cond |-> c].addr = a
    BY DEF Status
  <2>3. \A a \in listOwnedGatewayIPAddresses(t.key) : a \in Pool /\ <<t.key, a>> \in granted
    BY <1>3, <1>8 DEF listOwnedGatewayIPAddresses, CachedGrants
  <2>4. \E pc, todo : \E want \in Status :
          /\ advance(w, pc, todo, want)
          /\ want.addr # NoAddr => <<t.key, want.addr>> \in granted
    BY <1>16, <2>2, <2>3 DEF evaluateGateway, Cond, t
  <2>5. WantedGrants'
    BY <1>8, <2>1, <2>4, WorkerGrants DEF t
  <2> QED BY <1>6, <1>7, <1>8, <2>1, <2>5, NoWriteIPGrants DEF noWriteGateway
<1>17. CASE updateGatewayStatus(w)
  <2> DEFINE o == [gw[t.key] EXCEPT !.status = t.want, !.observed = TRUE]
  <2>1. o \in GatewayObject /\ o.status = t.want
    BY <1>3, <1>4 DEF GatewayObject
  <2>2. /\ noWriteIP /\ UNCHANGED <<ipCache, granted>>
        /\ \/ writeGateway(t.key, o, w, Idle)
           \/ (done(w) \/ retry(w)) /\ noWriteGateway
    BY <1>17 DEF updateGatewayStatus, quietly, t
  <2> HIDE DEF o
  <2>3. LiveGrants' /\ EventGrants' /\ CachedGrants'
    BY <1>7, <1>8, <2>2, NoWriteIPGrants
  <2>4. CASE writeGateway(t.key, o, w, Idle)
    BY <1>3, <1>8, <1>10, <2>1, <2>2, <2>3, <2>4, WriteGatewayGrants
  <2>5. CASE (done(w) \/ retry(w)) /\ noWriteGateway
    BY <1>6, <1>8, <2>2, <2>3, <2>5, WorkerGrants DEF noWriteGateway
  <2> QED BY <2>2, <2>4, <2>5
<1>18. CASE apiCallFails(w)
  <2>1. /\ noWriteIP /\ noWriteGateway /\ UNCHANGED <<ipCache, granted>>
        /\ \/ advance(w, "status", {}, [addr |-> NoAddr, cond |-> "apiError"])
           \/ retry(w)
    BY <1>18 DEF apiCallFails, quietly
  <2>2. [addr |-> NoAddr, cond |-> "apiError"] \in Status
    BY DEF Status, Cond
  <2>3. WantedGrants'
    BY <1>8, <2>1, <2>2, WorkerGrants
  <2> QED BY <1>6, <1>7, <1>8, <2>1, <2>3, NoWriteIPGrants DEF noWriteGateway
<1> QED BY <1>11, <1>12, <1>13, <1>14, <1>15, <1>16, <1>17, <1>18 DEF reconcile
\* Grants are known initially and kept by every step.
LEMMA StepGrants ==
    TypeOK /\ Busy /\ GrantsKnown /\ PublishedWasGranted /\ [Next]_vars
      => GrantsKnown' /\ PublishedWasGranted'
<1> SUFFICES ASSUME TypeOK, Busy, GrantsKnown, PublishedWasGranted, [Next]_vars
             PROVE  GrantsKnown' /\ PublishedWasGranted'
  OBVIOUS
<1>1. LiveGrants /\ CachedGrants /\ EventGrants /\ WantedGrants
  BY DEF GrantsKnown
<1>2. ASSUME NEW w \in Workers, NEW g \in Gateways, processNextGateway(w, g)
      PROVE  GrantsKnown' /\ PublishedWasGranted'
  <2>1. readOnly
    BY <1>2 DEF processNextGateway, reconcileMissing, reconcileForeign,
                reconcileDeleting, reconcileManaged
  <2>2. UNCHANGED worker \/ \E pc, todo : begin(w, g, pc, todo)
    BY <1>2 DEF processNextGateway, reconcileMissing, reconcileForeign,
                reconcileDeleting, reconcileManaged
  <2>3. CASE UNCHANGED worker
    BY <1>1, <2>1, <2>3 DEF readOnly, GrantsKnown, LiveGrants, CachedGrants,
                            EventGrants, WantedGrants, PublishedWasGranted
  <2>4. CASE \E pc, todo : begin(w, g, pc, todo)
    <3>1. WantedGrants'
      BY <1>1, <2>1, <2>4, WorkerGrants DEF readOnly
    <3> QED BY <1>1, <2>1, <3>1 DEF readOnly, GrantsKnown, LiveGrants, CachedGrants,
                                    EventGrants, PublishedWasGranted
  <2> QED BY <2>2, <2>3, <2>4
<1>3. ASSUME NEW w \in Workers, reconcile(w) \/ apiCallFails(w)
      PROVE  GrantsKnown' /\ PublishedWasGranted'
  BY <1>3, ReconcileGrants
<1>4. CASE deliverGateway \/ resync \/ UNCHANGED vars
  BY <1>1, <1>4 DEF deliverGateway, resync, vars, GrantsKnown, LiveGrants, CachedGrants,
                    EventGrants, WantedGrants, PublishedWasGranted
<1>5. CASE deliverIPAddress
  <2>1. /\ Head(ipEvents) = ipEvents[1] /\ 1 \in 1..Len(ipEvents)
        /\ Len(ipEvents') = Len(ipEvents) - 1 /\ Len(ipEvents) \in Nat
        /\ \A i \in 1..Len(ipEvents') : i + 1 \in 1..Len(ipEvents) /\ ipEvents'[i] = ipEvents[i + 1]
    BY <1>5, HeadTailProperties, LenProperties, EmptySeq DEF deliverIPAddress, TypeOK
  <2>2. CachedGrants'
    BY <1>1, <1>5, <2>1 DEF deliverIPAddress, CachedGrants, EventGrants, TypeOK
  <2>3. EventGrants'
    BY <1>1, <1>5, <2>1 DEF deliverIPAddress, EventGrants
  <2> QED BY <1>1, <1>5, <2>2, <2>3 DEF deliverIPAddress, GrantsKnown, LiveGrants,
                                        WantedGrants, PublishedWasGranted
<1>6. CASE restart
  <2>1. WantedGrants'
    BY <1>6 DEF restart, WantedGrants, Idle, NoStatus
  <2>2. EventGrants'
    BY <1>6 DEF restart, EventGrants
  <2> QED BY <1>1, <1>6, <2>1, <2>2 DEF restart, GrantsKnown, LiveGrants, CachedGrants,
                                        PublishedWasGranted
<1>7. CASE Environment
  <2>1. ASSUME NEW g \in Gateways, NEW o \in GatewayObject, userWritesGateway(g, o),
               o.status.addr # NoAddr => <<g, o.status.addr>> \in granted
        PROVE  GrantsKnown' /\ PublishedWasGranted'
    <3>1. writeGateway(g, o, None, Idle) /\ UNCHANGED <<granted, ip, ipCache, ipEvents>>
      BY <2>1 DEF userWritesGateway
    <3>2. WantedGrants' /\ PublishedWasGranted'
      BY <1>1, <2>1, <3>1, WriteGatewayGrants
    <3> QED BY <1>1, <3>1, <3>2 DEF GrantsKnown, LiveGrants, CachedGrants, EventGrants
  <2>2. ASSUME NEW g \in Gateways, NEW k \in Kind, createGateway(g, k) \/ editGateway(g, k)
        PROVE  GrantsKnown' /\ PublishedWasGranted'
    <3>1. gw[g] \in GatewayObject
      BY DEF TypeOK
    <3>2. /\ [gw[g] EXCEPT !.kind = k, !.observed = FALSE] \in GatewayObject
          /\ [gw[g] EXCEPT !.kind = k, !.observed = FALSE].status = gw[g].status
      BY <3>1 DEF GatewayObject
    <3>3. NewGateway(k) \in GatewayObject /\ NewGateway(k).status.addr = NoAddr
      BY ConstantTypes DEF NewGateway, NoGateway, NoStatus
    <3> QED BY <2>1, <2>2, <3>2, <3>3 DEF createGateway, editGateway, PublishedWasGranted
  <2>3. ASSUME NEW g \in Gateways, deleteGateway(g)
        PROVE  GrantsKnown' /\ PublishedWasGranted'
    <3>1. gw[g] \in GatewayObject
      BY DEF TypeOK
    <3>2. /\ [gw[g] EXCEPT !.deleting = TRUE] \in GatewayObject
          /\ [gw[g] EXCEPT !.deleting = TRUE].status = gw[g].status
      BY <3>1 DEF GatewayObject
    <3>3. NoGateway \in GatewayObject /\ NoGateway.status.addr = NoAddr
      BY ConstantTypes DEF NoGateway, NoStatus
    <3> QED BY <2>1, <2>3, <3>2, <3>3 DEF deleteGateway, PublishedWasGranted
  <2>4. ASSUME NEW a \in Pool, serviceTakes(a) \/ serviceFrees(a)
        PROVE  GrantsKnown' /\ PublishedWasGranted'
    <3>1. LiveGrants' /\ EventGrants'
      BY <1>1, <2>4, WriteIPGrants, OwnerAssumption DEF serviceTakes, serviceFrees, Owner
    <3> QED BY <1>1, <2>4, <3>1 DEF serviceTakes, serviceFrees, GrantsKnown,
                                    CachedGrants, WantedGrants, PublishedWasGranted
  <2>5. CASE \/ \E g \in Gateways : changeRoutes(g)
             \/ \E S \in SUBSET Pool : changeServiceCIDRs(S)
    BY <1>1, <2>5 DEF changeRoutes, changeServiceCIDRs, GrantsKnown, LiveGrants,
                      CachedGrants, EventGrants, WantedGrants, PublishedWasGranted
  <2> QED BY <1>7, <2>2, <2>3, <2>4, <2>5 DEF Environment
<1> QED BY <1>2, <1>3, <1>4, <1>5, <1>6, <1>7 DEF Next

LEMMA GrantsInvariance == Spec => [](GrantsKnown /\ PublishedWasGranted)
<1>1. Init => GrantsKnown /\ PublishedWasGranted
  <2> SUFFICES ASSUME Init PROVE GrantsKnown /\ PublishedWasGranted
    OBVIOUS
  <2>1. LiveGrants /\ CachedGrants
    BY OwnerAssumption DEF Init, LiveGrants, CachedGrants
  <2>2. EventGrants
    BY DEF Init, EventGrants
  <2>3. WantedGrants
    BY DEF Init, WantedGrants, Idle, NoStatus
  <2>4. NoGateway.status = NoStatus /\ NewGateway("valid").status = NoStatus
    BY DEF NoGateway, NewGateway
  <2>5. PublishedWasGranted
    BY <2>4 DEF Init, PublishedWasGranted, NoStatus
  <2> QED BY <2>1, <2>2, <2>3, <2>5 DEF GrantsKnown
<1>2. TypeOK /\ Busy /\ GrantsKnown /\ PublishedWasGranted /\ [Next]_vars
        => (GrantsKnown /\ PublishedWasGranted)'
  BY StepGrants
<1> QED BY <1>1, <1>2, TypesAndKeys, PTL DEF Spec

\* An address a Gateway publishes was created for that very Gateway by
\* ensureGatewayVIP, however many Gateways, workers and addresses compete, and
\* whatever stale caches the reconciles ran on.
THEOREM PublishedAddressesWereGranted == Spec => []PublishedWasGranted
BY GrantsInvariance, PTL

-----------------------------------------------------------------------------
(* Releases *)

\* One worker takes up addresses that were created for its key, or none.
LEMMA TakesUpGranted ==
    ASSUME ReleaseGrants, granted \subseteq granted', NEW w \in Workers,
           \A v \in Workers \ {w} : /\ worker'[v].pc = worker[v].pc
                                     /\ worker'[v].key = worker[v].key
                                     /\ worker'[v].todo = worker[v].todo,
           worker'[w].pc \in {"cleanup", "retract", "prune"} =>
             \A a \in worker'[w].todo : <<worker'[w].key, a>> \in granted'
    PROVE  ReleaseGrants'
BY DEF ReleaseGrants

\* What a worker is about to delete was created for its Gateway: the list it
\* works on came from the cache.
LEMMA StepReleases ==
    ASSUME TypeOK, Busy, CachedGrants, ReleaseGrants, [Next]_vars PROVE ReleaseGrants'
<1> DEFINE release == {"cleanup", "retract", "prune"}
<1>1. worker \in [Workers -> Task]
  BY DEF TypeOK
<1>2. \A g \in Gateways : \A a \in listOwnedGatewayIPAddresses(g) : <<g, a>> \in granted
  BY DEF CachedGrants, listOwnedGatewayIPAddresses
<1>3. Idle.pc \notin release
  BY DEF Idle
<1>4. ASSUME NEW w \in Workers, NEW t, worker' = [worker EXCEPT ![w] = t],
             granted \subseteq granted',
             t.pc \in release => \A a \in t.todo : <<t.key, a>> \in granted'
      PROVE  ReleaseGrants'
  <2>1. worker'[w] = t /\ \A v \in Workers \ {w} : worker'[v] = worker[v]
    BY <1>1, <1>4
  <2> QED BY <1>4, <2>1, TakesUpGranted
<1>5. ASSUME NEW w \in Workers, done(w) \/ retry(w), granted \subseteq granted'
      PROVE  ReleaseGrants'
  BY <1>3, <1>4, <1>5 DEF done, retry
<1>6. ASSUME NEW w \in Workers, NEW pc, NEW todo, NEW want, advance(w, pc, todo, want),
             granted \subseteq granted',
             pc \in release => \A a \in todo : <<worker[w].key, a>> \in granted'
      PROVE  ReleaseGrants'
  <2> DEFINE t == [worker[w] EXCEPT !.pc = pc, !.todo = todo, !.want = want]
  <2>1. t.pc = pc /\ t.todo = todo /\ t.key = worker[w].key
    BY <1>1 DEF Task
  <2>2. worker' = [worker EXCEPT ![w] = t]
    BY <1>6 DEF advance
  <2> HIDE DEF t
  <2> QED BY <1>4, <1>6, <2>1, <2>2
<1>7. ASSUME NEW g, NEW o, NEW w, NEW t, writeGateway(g, o, w, t), granted \subseteq granted',
             w \in Workers => (t.pc \in release => \A a \in t.todo : <<t.key, a>> \in granted')
      PROVE  ReleaseGrants'
  <2>1. CASE w \in Workers
    BY <1>7, <2>1, WriteKeepsOthers, TakesUpGranted
  <2>2. CASE w \notin Workers
    BY <1>7, <2>2, WriteKeepsOthers DEF ReleaseGrants
  <2> QED BY <2>1, <2>2
<1>8. ASSUME NEW w \in Workers, NEW g \in Gateways, processNextGateway(w, g)
      PROVE  ReleaseGrants'
  <2>1. UNCHANGED granted
    BY <1>8 DEF processNextGateway, reconcileMissing, reconcileForeign,
                reconcileDeleting, reconcileManaged, readOnly
  <2>2. \/ UNCHANGED worker
        \/ \E pc : \E todo \in {{}, listOwnedGatewayIPAddresses(g)} : begin(w, g, pc, todo)
    BY <1>8 DEF processNextGateway, reconcileMissing, reconcileForeign,
                reconcileDeleting, reconcileManaged
  <2>3. CASE UNCHANGED worker
    BY <2>1, <2>3 DEF ReleaseGrants
  <2>4. ASSUME NEW pc, NEW todo \in {{}, listOwnedGatewayIPAddresses(g)}, begin(w, g, pc, todo)
        PROVE  ReleaseGrants'
    <3> DEFINE t == [pc |-> pc, key |-> g, copy |-> gwCache[g],
                     fresh |-> cacheCurrent(g), todo |-> todo, want |-> NoStatus]
    <3>1. worker' = [worker EXCEPT ![w] = t] /\ t.todo = todo /\ t.key = g
      BY <2>4 DEF begin
    <3> HIDE DEF t
    <3>2. \A a \in t.todo : <<t.key, a>> \in granted'
      BY <1>2, <2>1, <2>4, <3>1
    <3> QED BY <1>4, <2>1, <3>1, <3>2
  <2> QED BY <2>2, <2>3, <2>4
<1>9. ASSUME NEW w \in Workers, reconcile(w) \/ apiCallFails(w) PROVE ReleaseGrants'
  <2> DEFINE t == worker[w]
  <2>1. t \in Task /\ t.key \in Gateways
    BY <1>1, <1>9 DEF Busy, Task, reconcile, clearManagedGatewayStatus, deleteIPAddress,
         createIPAddress, removeGatewayFinalizer, ensureGatewayFinalizer, evaluateGateway,
         updateGatewayStatus, apiCallFails
  <2>2. CASE clearManagedGatewayStatus(w)
    <3> DEFINE next == [t EXCEPT !.pc = "cleanup", !.todo = listOwnedGatewayIPAddresses(t.key)]
               last == [next EXCEPT !.fresh = FALSE]
               o == [gw[t.key] EXCEPT !.status = NoStatus]
    <3>1. \A u \in {next, last} : \A a \in u.todo : <<u.key, a>> \in granted
      BY <1>2, <2>1 DEF Task
    <3>2. /\ UNCHANGED granted
          /\ \/ worker' = [worker EXCEPT ![w] = next]
             \/ writeGateway(t.key, o, w, last)
             \/ retry(w)
      BY <2>2 DEF clearManagedGatewayStatus
    <3> HIDE DEF next, last, o
    <3> QED BY <1>4, <1>5, <1>7, <3>1, <3>2
  <2>3. ASSUME NEW a \in Pool, deleteIPAddress(w, a) PROVE ReleaseGrants'
    <3>1. /\ t.pc \in release /\ UNCHANGED granted
          /\ advance(w, t.pc, t.todo \ {a}, t.want)
      BY <2>3 DEF deleteIPAddress
    <3>2. \A b \in t.todo : <<t.key, b>> \in granted
      BY <3>1 DEF ReleaseGrants
    <3> QED BY <1>6, <3>1, <3>2
  <2>4. ASSUME NEW a \in Pool, createIPAddress(w, a) PROVE ReleaseGrants'
    <3>1. /\ granted \subseteq granted'
          /\ \E pc \in {"status", "allocate"} : \E todo, want : advance(w, pc, todo, want)
      BY <2>4 DEF createIPAddress
    <3> QED BY <1>6, <3>1
  <2>5. CASE removeGatewayFinalizer(w) \/ updateGatewayStatus(w)
    <3>1. /\ UNCHANGED granted
          /\ done(w) \/ retry(w) \/ \E g, o : writeGateway(g, o, w, Idle)
      BY <2>5 DEF removeGatewayFinalizer, updateGatewayStatus
    <3> QED BY <1>3, <1>5, <1>7, <3>1
  <2>6. CASE ensureGatewayFinalizer(w)
    <3>1. /\ UNCHANGED granted
          /\ \/ retry(w) \/ advance(w, "evaluate", {}, NoStatus)
             \/ \E g, o : writeGateway(g, o, w, Idle)
      BY <2>6 DEF ensureGatewayFinalizer
    <3> QED BY <1>3, <1>5, <1>6, <1>7, <3>1
  <2>7. CASE evaluateGateway(w)
    <3> DEFINE owned == listOwnedGatewayIPAddresses(t.key)
    <3>1. /\ UNCHANGED granted
          /\ \/ \E want : advance(w, "retract", owned, want)
             \/ \E vip, want : advance(w, "prune", owned \ {vip}, want)
             \/ \E want : advance(w, "status", {}, want)
             \/ \E todo, want : advance(w, "allocate", todo, want)
      BY <2>7, Zenon DEF evaluateGateway
    <3>2. \A a \in owned : <<t.key, a>> \in granted'
      BY <1>2, <2>1, <3>1
    <3> HIDE DEF owned
    <3> QED BY <1>6, <3>1, <3>2
  <2>8. CASE apiCallFails(w)
    <3>1. /\ UNCHANGED granted
          /\ retry(w) \/ \E want : advance(w, "status", {}, want)
      BY <2>8 DEF apiCallFails
    <3> QED BY <1>5, <1>6, <3>1
  <2> QED BY <1>9, <2>2, <2>3, <2>4, <2>5, <2>6, <2>7, <2>8 DEF reconcile
<1>10. CASE restart
  BY <1>3, <1>10 DEF restart, ReleaseGrants
<1>11. CASE deliverGateway \/ deliverIPAddress \/ resync \/ UNCHANGED vars
  BY <1>11 DEF deliverGateway, deliverIPAddress, resync, vars, ReleaseGrants
<1>12. CASE Environment
  <2>1. UNCHANGED granted
    BY <1>12 DEF Environment, createGateway, editGateway, deleteGateway, userWritesGateway,
                 changeRoutes, changeServiceCIDRs, serviceTakes, serviceFrees
  <2>2. UNCHANGED worker \/ \E g, o : writeGateway(g, o, None, Idle)
    BY <1>12 DEF Environment, createGateway, editGateway, deleteGateway, userWritesGateway,
                 changeRoutes, changeServiceCIDRs, serviceTakes, serviceFrees
  <2>3. CASE UNCHANGED worker
    BY <2>1, <2>3 DEF ReleaseGrants
  <2>4. CASE \E g, o : writeGateway(g, o, None, Idle)
    BY <1>7, <2>1, <2>4, OwnerAssumption
  <2> QED BY <2>2, <2>3, <2>4
<1> QED BY <1>8, <1>9, <1>10, <1>11, <1>12 DEF Next

\* The worst a delete by name can do: the address it removes, whoever holds it
\* by now, was created for the Gateway the deleting worker reconciles, for any
\* number of Gateways, workers, edits, failures and restarts.
THEOREM DeletedAddressesWereGranted == Spec => DeletesWereGranted
<1> DEFINE A == \A a \in Pool : ip[a] # None /\ ip'[a] = None /\ edits' = edits =>
                  \E w \in Workers : worker'[w] # worker[w] /\ <<worker[w].key, a>> \in granted
<1>1. Init => ReleaseGrants
  BY DEF Init, ReleaseGrants, Idle
<1>2. GrantsKnown => CachedGrants
  BY DEF GrantsKnown
<1>3. Spec => []ReleaseGrants
  BY <1>1, <1>2, StepReleases, TypesAndKeys, GrantsInvariance, PTL DEF Spec
<1>4. ASSUME TypeOK, ReleaseGrants, [Next]_vars, NEW a \in Pool,
             ip[a] # None, ip'[a] = None, edits' = edits
      PROVE  \E w \in Workers : worker'[w] # worker[w] /\ <<worker[w].key, a>> \in granted
  <2>1. ip \in [Pool -> Owner] /\ edits \in Nat /\ worker \in [Workers -> Task]
    BY <1>4, BoundAssumption DEF TypeOK
  <2>2. ~(edits > 0 /\ edits' = edits - 1)
    BY <1>4, <2>1
  <2>3. ~Environment
    BY <2>2 DEF Environment, createGateway, editGateway, deleteGateway, userWritesGateway,
                changeRoutes, changeServiceCIDRs, serviceTakes, serviceFrees, edit
  <2>4. ASSUME NEW w \in Workers, NEW b \in Pool, createIPAddress(w, b) PROVE FALSE
    <3>1. CASE ip[b] # None
      BY <1>4, <2>4, <3>1 DEF createIPAddress, noWriteIP
    <3>2. CASE ip[b] = None
      <4>1. b # a /\ ip' = [ip EXCEPT ![b] = worker[w].key]
        BY <1>4, <2>4, <3>2 DEF createIPAddress, writeIP
      <4> QED BY <1>4, <2>1, <4>1
    <3> QED BY <3>1, <3>2
  <2>5. PICK w \in Workers, b \in Pool : deleteIPAddress(w, b)
    <3>1. ASSUME UNCHANGED ip PROVE FALSE
      BY <1>4, <3>1
    <3>2. ASSUME NEW w \in Workers, NEW g \in Gateways, processNextGateway(w, g) PROVE UNCHANGED ip
      BY <3>2 DEF processNextGateway, reconcileMissing, reconcileForeign,
                  reconcileDeleting, reconcileManaged, readOnly
    <3>3. ASSUME NEW w \in Workers, apiCallFails(w) PROVE UNCHANGED ip
      BY <3>3 DEF apiCallFails, noWriteIP
    <3>4. ASSUME deliverGateway \/ deliverIPAddress \/ resync \/ restart \/ UNCHANGED vars
          PROVE  UNCHANGED ip
      BY <3>4 DEF deliverGateway, deliverIPAddress, resync, restart, vars
    <3>5. ASSUME NEW w \in Workers,
                 \/ clearManagedGatewayStatus(w) \/ removeGatewayFinalizer(w)
                 \/ ensureGatewayFinalizer(w) \/ evaluateGateway(w) \/ updateGatewayStatus(w)
          PROVE  UNCHANGED ip
      BY <3>5 DEF clearManagedGatewayStatus, removeGatewayFinalizer, ensureGatewayFinalizer,
                  evaluateGateway, updateGatewayStatus, noWriteIP
    <3> QED BY <1>4, <2>3, <2>4, <3>1, <3>2, <3>3, <3>4, <3>5 DEF Next, reconcile
  <2>6. /\ worker[w].pc \in {"cleanup", "retract", "prune"} /\ b \in worker[w].todo
        /\ ip' = [ip EXCEPT ![b] = None] \/ ip' = ip
        /\ worker' = [worker EXCEPT ![w] = [worker[w] EXCEPT !.pc = worker[w].pc,
                        !.todo = worker[w].todo \ {b}, !.want = worker[w].want]]
    BY <2>5 DEF deleteIPAddress, noWriteIP, writeIP, advance
  <2>7. b = a
    BY <1>4, <2>1, <2>6
  <2>8. worker'[w].todo = worker[w].todo \ {b}
    BY <2>1, <2>6 DEF Task
  <2>9. worker'[w] # worker[w]
    BY <2>6, <2>8
  <2> QED BY <1>4, <2>6, <2>7, <2>9 DEF ReleaseGrants
<1>5. TypeOK /\ ReleaseGrants /\ [Next]_vars => [A]_vars
  BY <1>4
<1> QED BY <1>3, <1>5, TypesAndKeys, PTL DEF Spec, DeletesWereGranted

-----------------------------------------------------------------------------
(* Freshness *)

\* The events after a write: the old ones, then the new one.
LEMMA WriteEvents ==
    ASSUME TypeOK, NEW g \in Gateways, NEW o \in GatewayObject, NEW w, NEW t,
           writeGateway(g, o, w, t)
    PROVE  /\ Len(gwEvents) \in Nat
           /\ Len(gwEvents') = Len(gwEvents) + 1
           /\ \A i \in 1..Len(gwEvents) : gwEvents'[i] = gwEvents[i]
           /\ gwEvents'[Len(gwEvents) + 1].key = g
           /\ gwEvents'[Len(gwEvents) + 1].obj = o
           /\ \A h \in Gateways : h # g => gw'[h] = gw[h]
           /\ gw'[g] = o
<1>1. [key |-> g, obj |-> o] \in [key : Gateways, obj : GatewayObject]
  OBVIOUS
<1>2. /\ Len(gwEvents') = Len(gwEvents) + 1
      /\ \A i \in 1..Len(gwEvents) : gwEvents'[i] = gwEvents[i]
      /\ gwEvents'[Len(gwEvents) + 1] = [key |-> g, obj |-> o]
  BY <1>1, AppendProperties DEF writeGateway, TypeOK
<1>3. Len(gwEvents) \in Nat
  BY LenProperties DEF TypeOK
<1>4. gw' = [gw EXCEPT ![g] = o] /\ gw \in [Gateways -> GatewayObject]
  BY DEF writeGateway, TypeOK
<1> QED BY <1>2, <1>3, <1>4

\* The events after the delivery of one.
LEMMA DeliverEvents ==
    ASSUME TypeOK, deliverGateway
    PROVE  /\ Len(gwEvents) \in Nat /\ Len(gwEvents) > 0
           /\ Head(gwEvents) = gwEvents[1]
           /\ Len(gwEvents') = Len(gwEvents) - 1
           /\ \A i \in 1..Len(gwEvents') : gwEvents'[i] = gwEvents[i + 1]
           /\ \A i \in 1..Len(gwEvents) : gwEvents[i] \in [key : Gateways, obj : GatewayObject]
<1>1. gwEvents \in Seq([key : Gateways, obj : GatewayObject]) /\ gwEvents # <<>>
  BY DEF deliverGateway, TypeOK
<1>2. gwEvents' = Tail(gwEvents)
  BY DEF deliverGateway
<1>3. \A i \in 1..Len(gwEvents) : gwEvents[i] \in [key : Gateways, obj : GatewayObject]
  BY <1>1, ElementOfSeq
<1> QED BY <1>1, <1>2, <1>3, HeadTailProperties, LenProperties, EmptySeq

\* A write keeps the timelines in order, and makes every copy of the object
\* stale, the writer's too.
LEMMA WriteFresh ==
    ASSUME TypeOK, LastEventIsLive, FreshIsLive, UNCHANGED gwCache,
           NEW g \in Gateways, NEW o \in GatewayObject, NEW w, NEW t,
           writeGateway(g, o, w, t), w \in Workers => ~t.fresh
    PROVE  LastEventIsLive' /\ FreshIsLive'
<1> DEFINE n == Len(gwEvents)
<1>1. /\ n \in Nat /\ Len(gwEvents') = n + 1
      /\ \A i \in 1..n : gwEvents'[i] = gwEvents[i]
      /\ gwEvents'[n + 1].key = g /\ gwEvents'[n + 1].obj = o
      /\ \A h \in Gateways : h # g => gw'[h] = gw[h]
      /\ gw'[g] = o
  BY WriteEvents
<1>2. ~cacheCurrent(g)'
  BY <1>1 DEF cacheCurrent
<1>3. ASSUME NEW h \in Gateways, h # g PROVE cacheCurrent(h)' <=> cacheCurrent(h)
  BY <1>1, <1>3 DEF cacheCurrent
<1>4. \A h \in Gateways : cacheCurrent(h)' => gwCache'[h] = gw'[h]
  BY <1>1, <1>2, <1>3 DEF LastEventIsLive
<1>5. ASSUME NEW i \in 1..Len(gwEvents'),
             \A j \in (i + 1)..Len(gwEvents') : gwEvents'[j].key # gwEvents'[i].key
      PROVE  gwEvents'[i].obj = gw'[gwEvents'[i].key]
  <2>1. CASE i = n + 1
    BY <1>1, <2>1
  <2>2. CASE i # n + 1
    <3>1. i \in 1..n /\ n + 1 \in (i + 1)..Len(gwEvents')
      BY <1>1, <2>2
    <3>2. gwEvents[i].key # g
      BY <1>1, <1>5, <3>1
    <3>3. gwEvents[i].key \in Gateways
      <4>1. gwEvents[i] \in [key : Gateways, obj : GatewayObject]
        BY <3>1, ElementOfSeq DEF TypeOK
      <4> QED BY <4>1
    <3>4. \A j \in (i + 1)..n : gwEvents[j].key # gwEvents[i].key
      BY <1>1, <1>5, <3>1
    <3>5. gwEvents[i].obj = gw[gwEvents[i].key]
      BY <3>1, <3>4 DEF LastEventIsLive
    <3> QED BY <1>1, <3>1, <3>2, <3>3, <3>5
  <2> QED BY <2>1, <2>2
<1>6. LastEventIsLive'
  BY <1>4, <1>5 DEF LastEventIsLive
<1>7. ASSUME NEW v \in Workers, worker'[v].fresh
      PROVE  /\ worker'[v].key \in Gateways
             /\ worker'[v].copy = gw'[worker'[v].key]
             /\ worker'[v].copy = gwCache'[worker'[v].key]
             /\ \A i \in 1..Len(gwEvents') : gwEvents'[i].key # worker'[v].key
  <2>1. v # w
    <3>1. v = w => worker'[v] = t
      BY WriteKeepsOthers
    <3> QED BY <1>7, <3>1, Zenon
  <2>2. /\ worker'[v].key = worker[v].key /\ worker'[v].copy = worker[v].copy
        /\ worker[v].fresh /\ worker[v].key # g
    BY <1>7, <2>1, WriteKeepsOthers
  <2>3. /\ worker[v].key \in Gateways
        /\ worker[v].copy = gw[worker[v].key]
        /\ worker[v].copy = gwCache[worker[v].key]
        /\ cacheCurrent(worker[v].key)
    BY <2>2 DEF FreshIsLive
  <2>4. \A i \in 1..Len(gwEvents') : gwEvents'[i].key # worker[v].key
    BY <1>1, <2>2, <2>3 DEF cacheCurrent
  <2> QED BY <1>1, <2>2, <2>3, <2>4
<1>8. FreshIsLive'
  BY <1>7 DEF FreshIsLive, cacheCurrent
<1> QED BY <1>6, <1>8
\* What the reconciles of one Gateway rely on: how its copies, its events and
\* its status relate.
ReconcileInv ==
    /\ LastEventIsLive /\ FreshIsLive /\ BranchFacts
    /\ PublishedHasFinalizer /\ NoStaleCleanup

\* The reconcile of w goes on with task t, or ends, without writing a Gateway.
LEMMA LocalStep ==
    ASSUME TypeOK, ReconcileInv, UNCHANGED <<gw, gwEvents, gwCache>>,
           NEW w \in Workers, NEW t, worker' = [worker EXCEPT ![w] = t],
           \/ t = Idle
           \/ /\ t.key = worker[w].key /\ t.copy = worker[w].copy /\ t.fresh = worker[w].fresh
              /\ branchFact(t)
              /\ t.pc = "cleanup" => worker[w].pc = "cleanup" \/ ~published(gw[t.key])
    PROVE  ReconcileInv'
<1>1. /\ worker'[w] = t
      /\ \A v \in Workers : v # w => worker'[v] = worker[v]
  BY DEF TypeOK
<1>2. branchFact(Idle) /\ ~Idle.fresh /\ Idle.key = None
  BY DEF Idle, branchFact
<1>3. BranchFacts'
  BY <1>1, <1>2 DEF ReconcileInv, BranchFacts
<1>4. FreshIsLive'
  BY <1>1, <1>2 DEF ReconcileInv, FreshIsLive, cacheCurrent
<1>5. WorkersKeepAddress'
  BY <1>1, <1>2 DEF ReconcileInv, NoStaleCleanup, WorkersKeepAddress, published
<1>6. LastEventIsLive' /\ PublishedHasFinalizer'
  BY DEF ReconcileInv, LastEventIsLive, PublishedHasFinalizer, cacheCurrent
<1>7. HistoryHasFinalizer' /\ HistoryKeepsAddress'
  BY DEF ReconcileInv, NoStaleCleanup, HistoryHasFinalizer, HistoryKeepsAddress,
         timeline, published
<1> QED BY <1>3, <1>4, <1>5, <1>6, <1>7 DEF ReconcileInv, NoStaleCleanup

\* A step that leaves the Gateways and the workers alone.
LEMMA OtherStep ==
    ReconcileInv /\ UNCHANGED <<gw, gwEvents, gwCache, worker>> => ReconcileInv'
<1> SUFFICES ASSUME ReconcileInv, UNCHANGED <<gw, gwEvents, gwCache, worker>>
             PROVE  ReconcileInv'
  OBVIOUS
<1>1. BranchFacts' /\ FreshIsLive' /\ LastEventIsLive' /\ PublishedHasFinalizer'
  BY DEF ReconcileInv, BranchFacts, FreshIsLive, LastEventIsLive, PublishedHasFinalizer,
         cacheCurrent
<1>2. HistoryHasFinalizer' /\ HistoryKeepsAddress' /\ WorkersKeepAddress'
  BY DEF ReconcileInv, NoStaleCleanup, HistoryHasFinalizer, HistoryKeepsAddress,
         WorkersKeepAddress, timeline, published
<1> QED BY <1>1, <1>2 DEF ReconcileInv, NoStaleCleanup

\* Object o is written for Gateway g, by worker w or by a user (w is None): what
\* publishes an address must be finalized, and an address may newly appear only
\* from a fresh copy that keeps it.
LEMMA WriteStep ==
    ASSUME TypeOK, ExclusiveKeys, ReconcileInv, UNCHANGED gwCache,
           NEW g \in Gateways, NEW o \in GatewayObject, NEW w, NEW t,
           writeGateway(g, o, w, t),
           w \in Workers => worker[w].key = g,
           w \in Workers => ~t.fresh /\ branchFact(t),
           w \in Workers => t.key = None \/ (t.key = g /\ o.status.addr = NoAddr),
           o.status.addr # NoAddr => o.fin,
           o.status.addr # NoAddr /\ ~o.deleting =>
             \/ published(gw[g])
             \/ w \in Workers /\ worker[w].fresh /\ keepsAddress(worker[w].copy)
    PROVE  ReconcileInv'
<1>1. LastEventIsLive' /\ FreshIsLive'
  BY WriteFresh DEF ReconcileInv
<1>2. /\ \A h \in Gateways : h # g => gw'[h] = gw[h]
      /\ gw'[g] = o
  BY WriteEvents
<1>3. PublishedHasFinalizer'
  BY <1>2 DEF ReconcileInv, PublishedHasFinalizer
<1>4. ASSUME NEW v \in Workers PROVE branchFact(worker'[v])
  <2>1. CASE v = w
    BY <2>1, WriteKeepsOthers
  <2>2. CASE v # w
    <3>1. branchFact(worker[v])
      BY DEF ReconcileInv, BranchFacts
    <3>2. /\ worker'[v].pc = worker[v].pc /\ worker'[v].copy = worker[v].copy
          /\ worker'[v].want = worker[v].want
          /\ worker'[v].fresh => worker[v].fresh
      BY <2>2, WriteKeepsOthers
    <3> QED BY <3>1, <3>2 DEF branchFact
  <2> QED BY <2>1, <2>2
<1>5. BranchFacts'
  BY <1>4 DEF BranchFacts
<1>6. /\ timeline(g)' \subseteq timeline(g) \cup {o}
      /\ \A h \in Gateways : h # g => timeline(h)' \subseteq timeline(h)
  <2>1. /\ Len(gwEvents) \in Nat /\ Len(gwEvents') = Len(gwEvents) + 1
        /\ \A i \in 1..Len(gwEvents) : gwEvents'[i] = gwEvents[i]
        /\ gwEvents'[Len(gwEvents) + 1].key = g
        /\ gwEvents'[Len(gwEvents) + 1].obj = o
    BY WriteEvents
  <2>2. \A i \in 1..Len(gwEvents') : i \in 1..Len(gwEvents) \/ i = Len(gwEvents) + 1
    BY <2>1
  <2> QED BY <2>1, <2>2 DEF timeline
<1>7. HistoryHasFinalizer'
  BY <1>6 DEF ReconcileInv, NoStaleCleanup, HistoryHasFinalizer
<1>8. ASSUME NEW h \in Gateways, published(gw[h])', NEW x \in timeline(h)'
      PROVE  keepsAddress(x)
  <2>1. CASE h # g
    BY <1>2, <1>6, <1>8, <2>1 DEF ReconcileInv, NoStaleCleanup, HistoryKeepsAddress, published
  <2>2. CASE h = g
    <3>1. o.status.addr # NoAddr /\ ~o.deleting
      BY <1>2, <1>8, <2>2 DEF published
    <3>2. keepsAddress(o)
      BY <3>1 DEF keepsAddress
    <3>3. CASE published(gw[g])
      BY <1>6, <1>8, <2>2, <3>2, <3>3 DEF ReconcileInv, NoStaleCleanup, HistoryKeepsAddress
    <3>4. CASE w \in Workers /\ worker[w].fresh /\ keepsAddress(worker[w].copy)
      <4>1. worker[w].copy = gwCache[g] /\ cacheCurrent(g)
        BY <3>4 DEF ReconcileInv, FreshIsLive
      <4>2. timeline(g) = {worker[w].copy}
        BY <4>1 DEF timeline, cacheCurrent
      <4> QED BY <1>6, <1>8, <2>2, <3>2, <3>4, <4>2
    <3> QED BY <3>1, <3>3, <3>4
  <2> QED BY <2>1, <2>2
<1>9. HistoryKeepsAddress'
  BY <1>8 DEF HistoryKeepsAddress, keepsAddress
<1>10. ASSUME NEW v \in Workers, worker'[v].key # None, published(gw'[worker'[v].key])
       PROVE  worker'[v].pc # "cleanup" /\ keepsAddress(worker'[v].copy)
  <2>1. CASE v = w
    BY <1>2, <1>10, <2>1, WriteKeepsOthers DEF published
  <2>2. CASE v # w
    <3>1. /\ worker'[v].pc = worker[v].pc /\ worker'[v].copy = worker[v].copy
          /\ worker'[v].key = worker[v].key
      BY <2>2, WriteKeepsOthers
    <3>2. worker[v].key \in Gateways
      BY <1>10, <3>1 DEF TypeOK, Task
    <3>3. published(gw[worker[v].key])
      <4>1. CASE worker[v].key # g
        BY <1>2, <1>10, <3>1, <3>2, <4>1
      <4>2. CASE worker[v].key = g
        <5>1. w \notin Workers
          BY <2>2, <4>2, OwnerAssumption DEF ExclusiveKeys
        <5> QED BY <1>2, <1>10, <3>1, <4>2, <5>1 DEF published
      <4> QED BY <4>1, <4>2
    <3> QED BY <1>10, <3>1, <3>3 DEF ReconcileInv, NoStaleCleanup, WorkersKeepAddress
  <2> QED BY <2>1, <2>2
<1>11. WorkersKeepAddress'
  BY <1>10 DEF WorkersKeepAddress
<1> QED BY <1>1, <1>3, <1>5, <1>7, <1>9, <1>11 DEF ReconcileInv, NoStaleCleanup
\* The branch a reconcile takes is the one its cached copy calls for.
LEMMA BeginStep ==
    ASSUME TypeOK, ExclusiveKeys, ReconcileInv, NEW w \in Workers, NEW g \in Gateways,
           processNextGateway(w, g)
    PROVE  ReconcileInv'
<1>1. readOnly
  BY DEF processNextGateway, reconcileMissing, reconcileForeign, reconcileDeleting,
         reconcileManaged
<1>2. CASE reconcileMissing(w, g)
  BY <1>1, <1>2, OtherStep DEF readOnly, reconcileMissing
<1>3. CASE ~reconcileMissing(w, g)
  <2> DEFINE c == gwCache[g]
             t == worker'[w]
  <2>1. c \in GatewayObject /\ c \in timeline(g)
    BY DEF TypeOK, timeline
  <2>2. c.status.addr # NoAddr => c.fin
    BY <2>1 DEF ReconcileInv, NoStaleCleanup, HistoryHasFinalizer
  <2>3. published(gw[g]) => keepsAddress(c)
    BY <2>1 DEF ReconcileInv, NoStaleCleanup, HistoryKeepsAddress
  <2>4. PICK pc \in PC : \E todo :
          /\ begin(w, g, pc, todo)
          /\ pc = "clear" => c.kind = "other"
          /\ pc = "cleanup" => c.deleting \/ (c.kind = "other" /\ ~c.fin)
          /\ pc \in {"finalize", "evaluate"} => c.kind # "other" /\ ~c.deleting
          /\ pc = "finalize" => ~c.fin
          /\ pc = "evaluate" => c.fin
          /\ pc \in {"clear", "cleanup", "finalize", "evaluate"}
    BY <1>3 DEF processNextGateway, reconcileForeign, reconcileDeleting, reconcileManaged,
                gatewayPreviouslyManaged, PC
  <2>5. /\ t.pc = pc /\ t.key = g /\ t.copy = c /\ t.fresh = cacheCurrent(g)
        /\ \A v \in Workers : v # w => worker'[v] = worker[v]
    BY <2>4 DEF begin, TypeOK
  <2> HIDE DEF t, c
  <2>6. branchFact(t)
    BY <2>4, <2>5 DEF branchFact
  <2>7. BranchFacts'
    BY <2>5, <2>6 DEF ReconcileInv, BranchFacts, t
  <2>8. FreshIsLive'
    <3>1. ASSUME NEW v \in Workers, worker'[v].fresh
          PROVE  /\ worker'[v].key \in Gateways
                 /\ worker'[v].copy = gw'[worker'[v].key]
                 /\ worker'[v].copy = gwCache'[worker'[v].key]
                 /\ \A i \in 1..Len(gwEvents') : gwEvents'[i].key # worker'[v].key
      <4>1. CASE v = w
        <5>1. cacheCurrent(g)
          BY <2>5, <3>1, <4>1 DEF t
        <5>2. gwCache[g] = gw[g]
          BY <5>1 DEF ReconcileInv, LastEventIsLive
        <5> QED BY <1>1, <2>5, <4>1, <5>1, <5>2 DEF t, c, cacheCurrent, readOnly
      <4>2. CASE v # w
        BY <1>1, <2>5, <3>1, <4>2 DEF ReconcileInv, FreshIsLive, cacheCurrent, readOnly
      <4> QED BY <4>1, <4>2
    <3> QED BY <3>1 DEF FreshIsLive, cacheCurrent
  <2>9. published(gw[g]) => t.pc # "cleanup" /\ keepsAddress(t.copy)
    BY <2>2, <2>3, <2>4, <2>5 DEF keepsAddress
  <2>10. WorkersKeepAddress'
    BY <1>1, <2>5, <2>9 DEF ReconcileInv, NoStaleCleanup, WorkersKeepAddress, readOnly, t
  <2>11. LastEventIsLive' /\ PublishedHasFinalizer'
    BY <1>1 DEF ReconcileInv, LastEventIsLive, PublishedHasFinalizer, cacheCurrent, readOnly
  <2>12. HistoryHasFinalizer' /\ HistoryKeepsAddress'
    BY <1>1 DEF ReconcileInv, NoStaleCleanup, HistoryHasFinalizer, HistoryKeepsAddress,
                timeline, published, readOnly
  <2> QED BY <2>7, <2>8, <2>10, <2>11, <2>12 DEF ReconcileInv, NoStaleCleanup
<1> QED BY <1>2, <1>3

\* An event moves the head of the timeline into the cache.
LEMMA DeliverStep ==
    ASSUME TypeOK, ReconcileInv, deliverGateway
    PROVE  ReconcileInv'
<1> DEFINE n == Len(gwEvents)
           k == Head(gwEvents).key
<1>1. /\ n \in Nat /\ n > 0 /\ Head(gwEvents) = gwEvents[1]
      /\ Len(gwEvents') = n - 1
      /\ \A i \in 1..Len(gwEvents') : gwEvents'[i] = gwEvents[i + 1]
      /\ \A i \in 1..n : gwEvents[i] \in [key : Gateways, obj : GatewayObject]
  BY DeliverEvents
<1>2. /\ k \in Gateways /\ gwCache'[k] = gwEvents[1].obj
      /\ \A h \in Gateways : h # k => gwCache'[h] = gwCache[h]
      /\ UNCHANGED <<gw, worker>>
  BY <1>1 DEF deliverGateway, TypeOK
<1>3. ASSUME NEW g \in Gateways, cacheCurrent(g)' PROVE gwCache'[g] = gw'[g]
  <2>1. \A j \in 2..n : gwEvents[j].key # g
    <3>1. \A j \in 2..n : j - 1 \in 1..Len(gwEvents') /\ gwEvents[j] = gwEvents'[j - 1]
      BY <1>1
    <3> QED BY <1>3, <3>1 DEF cacheCurrent
  <2>2. CASE g = k
    <3>1. gwEvents[1].obj = gw[gwEvents[1].key]
      BY <1>1, <2>1, <2>2 DEF ReconcileInv, LastEventIsLive
    <3> QED BY <1>1, <1>2, <2>2, <3>1
  <2>3. CASE g # k
    <3>1. cacheCurrent(g)
      BY <1>1, <2>1, <2>3 DEF cacheCurrent
    <3> QED BY <1>2, <2>3, <3>1 DEF ReconcileInv, LastEventIsLive
  <2> QED BY <2>2, <2>3
<1>4. ASSUME NEW i \in 1..Len(gwEvents'),
             \A j \in (i + 1)..Len(gwEvents') : gwEvents'[j].key # gwEvents'[i].key
      PROVE  gwEvents'[i].obj = gw'[gwEvents'[i].key]
  <2>1. i + 1 \in 1..n /\ gwEvents'[i] = gwEvents[i + 1]
    BY <1>1
  <2>2. \A j \in (i + 2)..n : j - 1 \in (i + 1)..Len(gwEvents') /\ gwEvents'[j - 1] = gwEvents[j]
    BY <1>1
  <2>3. \A j \in ((i + 1) + 1)..n : gwEvents[j].key # gwEvents[i + 1].key
    BY <1>1, <1>4, <2>1, <2>2
  <2> QED BY <1>2, <2>1, <2>3 DEF ReconcileInv, LastEventIsLive
<1>5. LastEventIsLive'
  BY <1>3, <1>4 DEF LastEventIsLive
<1>6. FreshIsLive'
  <2>1. ASSUME NEW v \in Workers, worker[v].fresh
        PROVE  /\ worker[v].copy = gwCache'[worker[v].key]
               /\ \A i \in 1..Len(gwEvents') : gwEvents'[i].key # worker[v].key
    <3>1. /\ worker[v].key \in Gateways /\ worker[v].copy = gwCache[worker[v].key]
          /\ \A i \in 1..n : gwEvents[i].key # worker[v].key
      BY <2>1 DEF ReconcileInv, FreshIsLive, cacheCurrent
    <3>2. worker[v].key # k
      BY <1>1, <3>1
    <3>3. \A i \in 1..Len(gwEvents') : i + 1 \in 1..n
      BY <1>1
    <3> QED BY <1>1, <1>2, <3>1, <3>2, <3>3
  <2> QED BY <1>2, <2>1 DEF ReconcileInv, FreshIsLive, cacheCurrent
<1>7. \A g \in Gateways : timeline(g)' \subseteq timeline(g)
  <2>1. ASSUME NEW g \in Gateways, NEW x \in timeline(g)' PROVE x \in timeline(g)
    <3>1. CASE x = gwCache'[g]
      BY <1>1, <1>2, <3>1 DEF timeline
    <3>2. CASE \E i \in 1..Len(gwEvents') : gwEvents'[i].key = g /\ x = gwEvents'[i].obj
      <4>1. \A i \in 1..Len(gwEvents') : i + 1 \in 1..n
        BY <1>1
      <4> QED BY <1>1, <3>2, <4>1 DEF timeline
    <3> QED BY <2>1, <3>1, <3>2 DEF timeline
  <2> QED BY <2>1
<1>8. HistoryHasFinalizer' /\ HistoryKeepsAddress'
  BY <1>2, <1>7 DEF ReconcileInv, NoStaleCleanup, HistoryHasFinalizer, HistoryKeepsAddress,
                    published
<1>9. BranchFacts' /\ PublishedHasFinalizer' /\ WorkersKeepAddress'
  BY <1>2 DEF ReconcileInv, BranchFacts, PublishedHasFinalizer, NoStaleCleanup,
              WorkersKeepAddress, published
<1> QED BY <1>5, <1>6, <1>8, <1>9 DEF ReconcileInv, NoStaleCleanup

\* A restart lists the live objects and forgets the reconciles.
LEMMA RestartStep ==
    ASSUME TypeOK, ReconcileInv, restart
    PROVE  ReconcileInv'
<1>1. /\ gwCache' = gw /\ gw' = gw /\ gwEvents' = <<>>
      /\ \A w \in Workers : worker'[w] = Idle
  BY DEF restart
<1>2. Len(gwEvents') = 0
  BY <1>1
<1>3. \A i : i \notin 1..Len(gwEvents')
  BY <1>2
<1>4. \A g \in Gateways : timeline(g)' = {gw[g]}
  BY <1>1, <1>3 DEF timeline
<1>5. LastEventIsLive'
  BY <1>1, <1>3 DEF LastEventIsLive
<1>6. branchFact(Idle) /\ ~Idle.fresh /\ Idle.key = None
  BY DEF Idle, branchFact
<1>7. FreshIsLive' /\ BranchFacts' /\ WorkersKeepAddress'
  BY <1>1, <1>6 DEF FreshIsLive, BranchFacts, WorkersKeepAddress
<1>8. HistoryHasFinalizer'
  BY <1>4 DEF ReconcileInv, PublishedHasFinalizer, HistoryHasFinalizer
<1>9. HistoryKeepsAddress'
  BY <1>1, <1>4 DEF HistoryKeepsAddress, published, keepsAddress
<1>10. PublishedHasFinalizer'
  BY <1>1 DEF ReconcileInv, PublishedHasFinalizer
<1> QED BY <1>5, <1>7, <1>8, <1>9, <1>10 DEF ReconcileInv, NoStaleCleanup
\* Every call of a reconcile keeps the invariant: the reads decide on the copy,
\* and the writes that could publish an address need a fresh one.
LEMMA ReconcileStep ==
    ASSUME TypeOK, Busy, ExclusiveKeys, ReconcileInv, NEW w \in Workers,
           reconcile(w) \/ apiCallFails(w)
    PROVE  ReconcileInv'
<1> DEFINE t == worker[w]
<1>1. t \in Task
  BY DEF TypeOK
<1>2. t.pc # "idle"
  BY DEF reconcile, clearManagedGatewayStatus, deleteIPAddress, createIPAddress,
         removeGatewayFinalizer, ensureGatewayFinalizer, evaluateGateway,
         updateGatewayStatus, apiCallFails
<1>3. t.key \in Gateways /\ t.want \in Status
  BY <1>1, <1>2 DEF Busy, Task
<1>4. gw[t.key] \in GatewayObject /\ t.copy \in GatewayObject
  BY <1>1, <1>3 DEF TypeOK, Task
<1>5. branchFact(t)
  BY DEF ReconcileInv, BranchFacts
<1>6. t.fresh => t.copy = gw[t.key]
  BY DEF ReconcileInv, FreshIsLive
<1>7. published(gw[t.key]) => t.pc # "cleanup" /\ keepsAddress(t.copy)
  BY <1>3, OwnerAssumption DEF ReconcileInv, NoStaleCleanup, WorkersKeepAddress
<1>8. gw[t.key].status.addr # NoAddr => gw[t.key].fin
  BY <1>3 DEF ReconcileInv, PublishedHasFinalizer
<1>9. ~Idle.fresh /\ branchFact(Idle) /\ Idle.key = None
  BY DEF Idle, branchFact
<1>10. NoStatus.addr = NoAddr /\ NoGateway.status = NoStatus
       /\ NoStatus \in Status /\ NoGateway \in GatewayObject
  BY ConstantTypes DEF NoStatus, NoGateway
<1>11. ASSUME noWriteGateway, UNCHANGED gwCache, done(w) \/ retry(w)
       PROVE  ReconcileInv'
  BY <1>11, LocalStep DEF done, retry, noWriteGateway
<1>12. ASSUME noWriteGateway, UNCHANGED gwCache,
              NEW pc, NEW todo, NEW want, advance(w, pc, todo, want),
              branchFact([t EXCEPT !.pc = pc, !.todo = todo, !.want = want]),
              pc = "cleanup" => t.pc = "cleanup"
       PROVE  ReconcileInv'
  <2> DEFINE x == [t EXCEPT !.pc = pc, !.todo = todo, !.want = want]
  <2>1. /\ x.key = t.key /\ x.copy = t.copy /\ x.fresh = t.fresh /\ x.pc = pc
    BY <1>1 DEF Task
  <2>2. worker' = [worker EXCEPT ![w] = x]
    BY <1>12 DEF advance
  <2> HIDE DEF x
  <2> QED BY <1>12, <2>1, <2>2, LocalStep DEF noWriteGateway, x
<1> HIDE DEF t
<1>13. CASE clearManagedGatewayStatus(w)
  <2> DEFINE next == [t EXCEPT !.pc = "cleanup", !.todo = listOwnedGatewayIPAddresses(t.key)]
             last == [next EXCEPT !.fresh = FALSE]
             o == [gw[t.key] EXCEPT !.status = NoStatus]
  <2>1. /\ next.pc = "cleanup" /\ next.key = t.key /\ next.copy = t.copy /\ next.fresh = t.fresh
        /\ last.pc = "cleanup" /\ last.key = t.key /\ last.fresh = FALSE
    BY <1>1 DEF Task
  <2>2. branchFact(next) /\ branchFact(last)
    BY <2>1 DEF branchFact
  <2>3. UNCHANGED gwCache /\ t.copy.kind = "other"
    BY <1>5, <1>13 DEF clearManagedGatewayStatus, quietly, branchFact, t
  <2>4. \/ /\ gatewayStatusEqual(t.copy, NoStatus)
           /\ worker' = [worker EXCEPT ![w] = next] /\ noWriteGateway
        \/ t.fresh /\ writeGateway(t.key, o, w, last)
        \/ retry(w) /\ noWriteGateway
    BY <1>13 DEF clearManagedGatewayStatus, t
  <2>5. CASE /\ gatewayStatusEqual(t.copy, NoStatus)
             /\ worker' = [worker EXCEPT ![w] = next] /\ noWriteGateway
    <3>1. ~published(gw[t.key])
      BY <1>7, <1>10, <2>3, <2>5 DEF keepsAddress, gatewayStatusEqual
    <3> HIDE DEF next
    <3> QED BY <2>1, <2>2, <2>3, <2>5, <3>1, LocalStep DEF noWriteGateway, t
  <2>6. CASE t.fresh /\ writeGateway(t.key, o, w, last)
    <3>1. o \in GatewayObject /\ o.status = NoStatus
      BY <1>4, <1>10 DEF GatewayObject
    <3> HIDE DEF last, o, next
    <3> QED BY <1>3, <1>10, <2>1, <2>2, <2>3, <2>6, <3>1, WriteStep DEF t
  <2> QED BY <1>11, <2>3, <2>4, <2>5, <2>6
<1>14. ASSUME NEW a \in Pool, deleteIPAddress(w, a) PROVE ReconcileInv'
  <2>1. branchFact([t EXCEPT !.pc = t.pc, !.todo = t.todo \ {a}, !.want = t.want])
    BY <1>1, <1>5 DEF branchFact, Task
  <2> QED BY <1>12, <1>14, <2>1 DEF deleteIPAddress, quietly, t
<1>15. ASSUME NEW a \in Pool, createIPAddress(w, a) PROVE ReconcileInv'
  <2> DEFINE s == [addr |-> a, cond |-> "pending"]
  <2>1. t.pc = "allocate"
    BY <1>15 DEF createIPAddress, t
  <2>2. branchFact([t EXCEPT !.pc = "allocate", !.todo = t.todo \ {a}, !.want = t.want])
    BY <1>1, <1>5, <2>1 DEF branchFact, Task
  <2>3. branchFact([t EXCEPT !.pc = "status", !.todo = {}, !.want = s])
    BY <1>1, <1>5, <2>1 DEF branchFact, Task
  <2>4. /\ noWriteGateway /\ UNCHANGED gwCache
        /\ \/ advance(w, "status", {}, s)
           \/ advance(w, "allocate", t.todo \ {a}, t.want)
    BY <1>15 DEF createIPAddress, quietly, t
  <2> HIDE DEF s
  <2> QED BY <1>12, <2>2, <2>3, <2>4
<1>16. CASE removeGatewayFinalizer(w)
  <2> DEFINE o == IF gw[t.key].deleting THEN NoGateway ELSE [gw[t.key] EXCEPT !.fin = FALSE]
  <2>1. ~published(gw[t.key]) /\ UNCHANGED gwCache
    BY <1>7, <1>16 DEF removeGatewayFinalizer, quietly, t
  <2>2. o \in GatewayObject /\ o.status.addr = NoAddr
    <3>1. CASE gw[t.key].deleting
      BY <1>10, <3>1
    <3>2. CASE ~gw[t.key].deleting
      <4>1. o \in GatewayObject /\ o.status = gw[t.key].status
        BY <1>4, <3>2 DEF GatewayObject
      <4> HIDE DEF o
      <4> QED BY <2>1, <3>2, <4>1 DEF published
    <3> QED BY <3>1, <3>2
  <2>3. \/ writeGateway(t.key, o, w, Idle)
        \/ done(w) /\ noWriteGateway
    BY <1>16 DEF removeGatewayFinalizer, t
  <2> HIDE DEF o
  <2>4. CASE writeGateway(t.key, o, w, Idle)
    BY <1>3, <1>9, <2>1, <2>2, <2>4, WriteStep DEF t
  <2> QED BY <1>11, <2>1, <2>3, <2>4
<1>17. CASE ensureGatewayFinalizer(w)
  <2> DEFINE o == [gw[t.key] EXCEPT !.fin = TRUE]
  <2>1. /\ o \in GatewayObject /\ o.fin /\ o.status = gw[t.key].status
        /\ o.deleting = gw[t.key].deleting
    BY <1>4 DEF GatewayObject
  <2>3. /\ UNCHANGED gwCache
        /\ \/ writeGateway(t.key, o, w, Idle)
           \/ retry(w) /\ noWriteGateway
           \/ gw[t.key].fin /\ advance(w, "evaluate", {}, NoStatus) /\ noWriteGateway
    BY <1>17 DEF ensureGatewayFinalizer, quietly, t
  <2> HIDE DEF o
  <2>4. CASE writeGateway(t.key, o, w, Idle)
    <3>1. o.status.addr # NoAddr /\ ~o.deleting => published(gw[t.key])
      BY <2>1 DEF published
    <3> QED BY <1>3, <1>9, <2>1, <2>3, <2>4, <3>1, WriteStep DEF t
  <2>5. CASE gw[t.key].fin /\ advance(w, "evaluate", {}, NoStatus) /\ noWriteGateway
    <3>1. t.pc = "finalize" /\ ~t.copy.fin
      BY <1>5, <1>17 DEF ensureGatewayFinalizer, branchFact, t
    <3>2. ~t.fresh
      BY <1>6, <2>5, <3>1
    <3>3. branchFact([t EXCEPT !.pc = "evaluate", !.todo = {}, !.want = NoStatus])
      BY <1>1, <1>5, <3>1, <3>2 DEF branchFact, Task
    <3> QED BY <1>12, <2>3, <2>5, <3>3
  <2> QED BY <1>11, <2>3, <2>4, <2>5
<1>18. CASE evaluateGateway(w)
  <2>1. noWriteGateway /\ UNCHANGED gwCache /\ t.pc = "evaluate"
    BY <1>18 DEF evaluateGateway, quietly, t
  <2>2. \E pc \in {"retract", "prune", "allocate", "status"}, todo \in SUBSET Pool, want \in Status :
          /\ advance(w, pc, todo, want)
          /\ want.cond # "none"
          /\ t.copy.kind = "invalid" => want.cond = "invalid" /\ want.addr = NoAddr
          /\ pc \in {"prune", "allocate"} => t.copy.kind = "valid"
    <3>1. \A a \in Pool \cup {NoAddr}, c \in Cond :
            /\ [addr |-> a, cond |-> c] \in Status
            /\ [addr |-> a, cond |-> c].cond = c /\ [addr |-> a, cond |-> c].addr = a
      BY DEF Status
    <3>2. listOwnedGatewayIPAddresses(t.key) \in SUBSET Pool /\ candidates \in SUBSET Pool
      BY <1>3, ReadTypes
    <3> DEFINE s(a, c) == [addr |-> a, cond |-> c]
               owned == listOwnedGatewayIPAddresses(t.key)
    <3>3. \/ advance(w, "retract", owned, s(NoAddr, "invalid"))
          \/ t.copy.kind = "valid" /\ \E vip \in owned :
               advance(w, "prune", owned \ {vip}, s(vip, "pending"))
          \/ t.copy.kind = "valid" /\ advance(w, "status", {}, s(NoAddr, "noCIDR"))
          \/ t.copy.kind = "valid" /\ advance(w, "allocate", candidates, s(NoAddr, "exhausted"))
      BY <1>18 DEF evaluateGateway, evaluationValid, t
    <3>4. \A a \in Pool \cup {NoAddr}, c \in Cond :
            s(a, c) \in Status /\ s(a, c).cond = c /\ s(a, c).addr = a
      BY <3>1
    <3>5. {"invalid", "pending", "noCIDR", "exhausted"} \subseteq Cond
      BY DEF Cond
    <3> HIDE DEF s, owned
    <3>6. owned \in SUBSET Pool
      BY <3>2 DEF owned
    <3>7. CASE advance(w, "retract", owned, s(NoAddr, "invalid"))
      BY <3>4, <3>5, <3>6, <3>7
    <3>8. ASSUME NEW vip \in owned, t.copy.kind = "valid",
                 advance(w, "prune", owned \ {vip}, s(vip, "pending"))
          PROVE  \E pc \in {"retract", "prune", "allocate", "status"},
                    todo \in SUBSET Pool, want \in Status :
                   /\ advance(w, pc, todo, want)
                   /\ want.cond # "none"
                   /\ t.copy.kind = "invalid" => want.cond = "invalid" /\ want.addr = NoAddr
                   /\ pc \in {"prune", "allocate"} => t.copy.kind = "valid"
      <4>1. owned \ {vip} \in SUBSET Pool /\ vip \in Pool
        BY <3>6
      <4>2. s(vip, "pending") \in Status /\ s(vip, "pending").cond = "pending"
        BY <3>4, <3>5, <4>1
      <4> QED BY <3>8, <4>1, <4>2
    <3>9. CASE t.copy.kind = "valid" /\ advance(w, "status", {}, s(NoAddr, "noCIDR"))
      BY <3>4, <3>5, <3>9
    <3>10. CASE t.copy.kind = "valid" /\ advance(w, "allocate", candidates, s(NoAddr, "exhausted"))
      BY <3>2, <3>4, <3>5, <3>10
    <3> QED BY <3>3, <3>7, <3>8, <3>9, <3>10
  <2>3. ASSUME NEW pc \in {"retract", "prune", "allocate", "status"},
               NEW todo \in SUBSET Pool, NEW want \in Status,
               want.cond # "none",
               t.copy.kind = "invalid" => want.cond = "invalid" /\ want.addr = NoAddr,
               pc \in {"prune", "allocate"} => t.copy.kind = "valid"
        PROVE  branchFact([t EXCEPT !.pc = pc, !.todo = todo, !.want = want])
    BY <1>1, <1>5, <2>1, <2>3 DEF branchFact, Task
  <2> QED BY <1>12, <2>1, <2>2, <2>3
<1>19. CASE updateGatewayStatus(w)
  <2> DEFINE o == [gw[t.key] EXCEPT !.status = t.want, !.observed = TRUE]
  <2>1. o \in GatewayObject /\ o.status = t.want /\ o.fin = gw[t.key].fin
    BY <1>3, <1>4 DEF GatewayObject
  <2>2. /\ UNCHANGED gwCache
        /\ t.pc \in {"retract", "prune", "allocate", "status"}
        /\ \/ t.fresh /\ writeGateway(t.key, o, w, Idle)
           \/ (done(w) \/ retry(w)) /\ noWriteGateway
    BY <1>19 DEF updateGatewayStatus, quietly, t
  <2> HIDE DEF o
  <2>3. CASE t.fresh /\ writeGateway(t.key, o, w, Idle)
    <3>1. t.copy = gw[t.key] /\ t.copy.fin /\ t.copy.kind # "other" /\ ~t.copy.deleting
      BY <1>5, <1>6, <2>2, <2>3 DEF branchFact
    <3>2. o.fin /\ keepsAddress(t.copy)
      BY <2>1, <3>1 DEF keepsAddress
    <3> QED BY <1>3, <1>9, <2>1, <2>2, <2>3, <3>2, WriteStep DEF t
  <2> QED BY <1>11, <2>2, <2>3
<1>20. CASE apiCallFails(w)
  <2> DEFINE s == [addr |-> NoAddr, cond |-> "apiError"]
  <2>1. /\ noWriteGateway /\ UNCHANGED gwCache
        /\ \/ /\ t.pc \in {"prune", "allocate"}
              /\ advance(w, "status", {}, s)
           \/ retry(w)
    BY <1>20 DEF apiCallFails, quietly, t
  <2>2. t.pc \in {"prune", "allocate"} =>
          branchFact([t EXCEPT !.pc = "status", !.todo = {}, !.want = s])
    BY <1>1, <1>5 DEF branchFact, Task
  <2> HIDE DEF s
  <2> QED BY <1>11, <1>12, <2>1, <2>2
<1> QED BY <1>13, <1>14, <1>15, <1>16, <1>17, <1>18, <1>19, <1>20 DEF reconcile
\* Users and the cluster keep the invariant: they do not write the status.
LEMMA EnvironmentStep ==
    ASSUME TypeOK, ExclusiveKeys, ReconcileInv, Environment
    PROVE  ReconcileInv'
<1>1. ASSUME NEW g \in Gateways, NEW o \in GatewayObject, userWritesGateway(g, o),
             o.status.addr # NoAddr => o.status = gw[g].status /\ o.fin = gw[g].fin,
             o.status.addr # NoAddr /\ ~o.deleting => ~gw[g].deleting
      PROVE  ReconcileInv'
  <2>1. writeGateway(g, o, None, Idle) /\ UNCHANGED gwCache
    BY <1>1 DEF userWritesGateway
  <2>2. gw[g].status.addr # NoAddr => gw[g].fin
    BY DEF ReconcileInv, PublishedHasFinalizer
  <2>3. o.status.addr # NoAddr => o.fin
    BY <1>1, <2>2
  <2>4. o.status.addr # NoAddr /\ ~o.deleting => published(gw[g])
    BY <1>1 DEF published
  <2>5. None \notin Workers
    BY OwnerAssumption
  <2> QED BY <1>1, <2>1, <2>3, <2>4, <2>5, WriteStep
<1>2. \A g \in Gateways : gw[g] \in GatewayObject
  BY DEF TypeOK
<1>3. /\ NoGateway \in GatewayObject /\ NoGateway.status.addr = NoAddr
      /\ \A k \in Kind : NewGateway(k) \in GatewayObject /\ NewGateway(k).status.addr = NoAddr
  BY ConstantTypes DEF NoGateway, NewGateway, NoStatus
<1>4. ASSUME NEW g \in Gateways, NEW k \in Kind, createGateway(g, k) PROVE ReconcileInv'
  BY <1>1, <1>3, <1>4 DEF createGateway
<1>5. ASSUME NEW g \in Gateways, NEW k \in Kind, editGateway(g, k) PROVE ReconcileInv'
  <2> DEFINE o == [gw[g] EXCEPT !.kind = k, !.observed = FALSE]
  <2>1. /\ o \in GatewayObject /\ o.status = gw[g].status /\ o.fin = gw[g].fin
        /\ o.deleting = gw[g].deleting
    BY <1>2 DEF GatewayObject
  <2>2. userWritesGateway(g, o)
    BY <1>5 DEF editGateway
  <2> HIDE DEF o
  <2> QED BY <1>1, <2>1, <2>2
<1>6. ASSUME NEW g \in Gateways, deleteGateway(g) PROVE ReconcileInv'
  <2> DEFINE o == [gw[g] EXCEPT !.deleting = TRUE]
  <2>1. /\ o \in GatewayObject /\ o.status = gw[g].status /\ o.fin = gw[g].fin
        /\ o.deleting = TRUE
    BY <1>2 DEF GatewayObject
  <2>2. userWritesGateway(g, o) \/ userWritesGateway(g, NoGateway)
    BY <1>6 DEF deleteGateway
  <2> HIDE DEF o
  <2> QED BY <1>1, <1>3, <2>1, <2>2
<1>7. CASE \/ \E g \in Gateways : changeRoutes(g)
           \/ \E S \in SUBSET Pool : changeServiceCIDRs(S)
           \/ \E a \in Pool : serviceTakes(a) \/ serviceFrees(a)
  BY <1>7, OtherStep DEF changeRoutes, changeServiceCIDRs, serviceTakes, serviceFrees
<1> QED BY <1>4, <1>5, <1>6, <1>7 DEF Environment

\* ReconcileInv holds initially.
LEMMA InitReconcile == Init => ReconcileInv
<1> SUFFICES ASSUME Init PROVE ReconcileInv
  OBVIOUS
<1>1. Len(gwEvents) = 0
  BY DEF Init
<1>2. \A i : i \notin 1..Len(gwEvents)
  BY <1>1
<1>3. LastEventIsLive
  BY <1>2 DEF Init, LastEventIsLive
<1>4. branchFact(Idle) /\ ~Idle.fresh /\ Idle.key = None
  BY DEF Idle, branchFact
<1>5. FreshIsLive /\ BranchFacts /\ WorkersKeepAddress
  BY <1>4 DEF Init, FreshIsLive, BranchFacts, WorkersKeepAddress
<1>6. \A o \in {NoGateway, NewGateway("valid")} : o.status.addr = NoAddr
  <2>1. NoGateway.status.addr = NoAddr
    BY DEF NoGateway, NoStatus
  <2>2. NewGateway("valid").status.addr = NoAddr
    BY DEF NoGateway, NewGateway, NoStatus
  <2> QED BY <2>1, <2>2
<1>7. \A g \in Gateways : gw[g].status.addr = NoAddr
  BY <1>6 DEF Init
<1>8. \A g \in Gateways : timeline(g) = {gw[g]}
  BY <1>2 DEF Init, timeline
<1>9. HistoryHasFinalizer /\ HistoryKeepsAddress
  BY <1>7, <1>8 DEF HistoryHasFinalizer, HistoryKeepsAddress, published
<1>10. PublishedHasFinalizer
  BY <1>7 DEF PublishedHasFinalizer
<1> QED BY <1>3, <1>5, <1>9, <1>10 DEF ReconcileInv, NoStaleCleanup

\* Every step keeps ReconcileInv.
LEMMA StepReconcile ==
    TypeOK /\ Busy /\ ExclusiveKeys /\ ReconcileInv /\ [Next]_vars => ReconcileInv'
<1> SUFFICES ASSUME TypeOK, Busy, ExclusiveKeys, ReconcileInv, [Next]_vars
             PROVE  ReconcileInv'
  OBVIOUS
<1>1. CASE deliverIPAddress \/ resync \/ UNCHANGED vars
  BY <1>1, OtherStep DEF deliverIPAddress, resync, vars
<1> QED BY <1>1, BeginStep, ReconcileStep, DeliverStep, RestartStep, EnvironmentStep DEF Next

\* The invariant holds in every behaviour.
LEMMA ReconcileInvariant == Spec => []ReconcileInv
BY InitReconcile, StepReconcile, TypesAndKeys, PTL DEF Spec

\* A Gateway that publishes an address carries the finalizer: its deletion
\* always passes through cleanupGatewayResources.
THEOREM PublishedGatewaysAreFinalized == Spec => []PublishedHasFinalizer
BY ReconcileInvariant, PTL DEF ReconcileInv

\* VerdictsFitSpec for one step.  A status is written from a copy nothing has
\* superseded, so the facts of the branch about the copy are facts about the
\* live Gateway; no other write touches the status of a Gateway that stays.
LEMMA VerdictStep ==
    ASSUME TypeOK, Busy, ReconcileInv, Next,
           NEW g \in Gateways, gw[g].exists, gw'[g].exists, gw'[g].status # gw[g].status
    PROVE  /\ gw[g].kind = "other" => gw'[g].status = NoStatus
           /\ gw[g].kind # "other" => ~gw[g].deleting /\ gw'[g].status.cond # "none"
           /\ gw[g].kind = "invalid" =>
                gw'[g].status = [addr |-> NoAddr, cond |-> "invalid"]
<1>1. gw \in [Gateways -> GatewayObject] /\ ~NoGateway.exists
  BY DEF TypeOK, NoGateway
<1>2. ASSUME NEW h \in Gateways, NEW o, NEW w, NEW t, writeGateway(h, o, w, t)
      PROVE  g = h /\ gw'[g] = o
  BY <1>1, <1>2 DEF writeGateway
<1>3. ASSUME NEW w \in Workers, reconcile(w) \/ apiCallFails(w)
      PROVE  worker[w].key \in Gateways
  <2>1. worker[w].pc # "idle"
    BY <1>3 DEF reconcile, clearManagedGatewayStatus, deleteIPAddress, createIPAddress,
           removeGatewayFinalizer, ensureGatewayFinalizer, evaluateGateway,
           updateGatewayStatus, apiCallFails
  <2> QED BY <2>1 DEF TypeOK, Task, Busy
<1>4. ASSUME NEW w \in Workers, clearManagedGatewayStatus(w)
      PROVE  gw[g].kind = "other" /\ gw'[g].status = NoStatus
  <2> DEFINE k == worker[w].key
             o == [gw[k] EXCEPT !.status = NoStatus]
  <2>1. k \in Gateways
    BY <1>3, <1>4 DEF reconcile
  <2>2. /\ worker[w].fresh /\ worker[w].pc = "clear"
        /\ \E t : writeGateway(k, o, w, t)
    BY <1>1, <1>4 DEF clearManagedGatewayStatus, noWriteGateway
  <2>3. g = k /\ gw'[g] = o
    BY <1>2, <2>1, <2>2
  <2>4. gw[g].kind = "other"
    BY <2>2, <2>3 DEF ReconcileInv, FreshIsLive, BranchFacts, branchFact
  <2> QED BY <1>1, <2>1, <2>3, <2>4 DEF GatewayObject
<1>5. ASSUME NEW w \in Workers, updateGatewayStatus(w)
      PROVE  /\ gw[g].kind # "other" /\ ~gw[g].deleting /\ gw'[g].status.cond # "none"
             /\ gw[g].kind = "invalid" =>
                  gw'[g].status = [addr |-> NoAddr, cond |-> "invalid"]
  <2> DEFINE k == worker[w].key
             o == [gw[k] EXCEPT !.status = worker[w].want, !.observed = TRUE]
  <2>1. k \in Gateways
    BY <1>3, <1>5 DEF reconcile
  <2>2. /\ worker[w].fresh /\ worker[w].pc \in {"retract", "prune", "allocate", "status"}
        /\ writeGateway(k, o, w, Idle)
    BY <1>1, <1>5 DEF updateGatewayStatus, noWriteGateway
  <2>3. g = k /\ gw'[g] = o
    BY <1>2, <2>1, <2>2
  <2>4. worker[w].want \in Status /\ gw'[g].status = worker[w].want
    BY <1>1, <2>1, <2>3 DEF GatewayObject, TypeOK, Task
  <2>5. /\ worker[w].copy = gw[g]
        /\ branchFact(worker[w])
    BY <2>2, <2>3 DEF ReconcileInv, FreshIsLive, BranchFacts
  <2>6. gw[g].kind = "invalid" => worker[w].want.cond = "invalid" /\ worker[w].want.addr = NoAddr
    BY <2>2, <2>5 DEF branchFact
  <2>7. gw[g].kind = "invalid" => worker[w].want = [addr |-> NoAddr, cond |-> "invalid"]
    BY <2>4, <2>6 DEF Status
  <2> QED BY <2>2, <2>4, <2>5, <2>7 DEF branchFact
<1>6. ASSUME NEW w \in Workers, removeGatewayFinalizer(w) \/ ensureGatewayFinalizer(w)
      PROVE  FALSE
  <2> DEFINE k == worker[w].key
  <2>1. k \in Gateways
    BY <1>3, <1>6 DEF reconcile
  <2>2. \E o, t : /\ writeGateway(k, o, w, t)
                 /\ o \in {NoGateway, [gw[k] EXCEPT !.fin = FALSE], [gw[k] EXCEPT !.fin = TRUE]}
    BY <1>1, <1>6 DEF removeGatewayFinalizer, ensureGatewayFinalizer, noWriteGateway
  <2>3. g = k /\ gw'[g] \in {NoGateway, [gw[g] EXCEPT !.fin = FALSE], [gw[g] EXCEPT !.fin = TRUE]}
    BY <1>2, <2>1, <2>2
  <2>4. gw'[g].status = gw[g].status
    BY <1>1, <2>3 DEF GatewayObject
  <2> QED BY <2>4
<1>7. ASSUME Environment PROVE FALSE
  <2>1. \E h \in Gateways : \E o :
          /\ userWritesGateway(h, o)
          /\ gw[h].exists /\ o.exists => o.status = gw[h].status
    <3>1. ASSUME NEW h \in Gateways, NEW kind \in Kind
          PROVE  [gw[h] EXCEPT !.kind = kind, !.observed = FALSE].status = gw[h].status
      BY <1>1 DEF GatewayObject
    <3>2. ASSUME NEW h \in Gateways
          PROVE  [gw[h] EXCEPT !.deleting = TRUE].status = gw[h].status
      BY <1>1 DEF GatewayObject
    <3>3. gw' # gw
      OBVIOUS
    <3> QED BY <1>1, <1>7, <3>1, <3>2, <3>3 DEF Environment, createGateway, editGateway,
               deleteGateway, changeRoutes, changeServiceCIDRs, serviceTakes, serviceFrees
  <2> QED BY <1>2, <2>1 DEF userWritesGateway
<1>8. ASSUME UNCHANGED gw PROVE FALSE
  BY <1>8
<1>9. ASSUME NEW w \in Workers, reconcile(w) \/ apiCallFails(w)
      PROVE  clearManagedGatewayStatus(w) \/ updateGatewayStatus(w)
  BY <1>6, <1>8, <1>9 DEF reconcile, deleteIPAddress, createIPAddress, evaluateGateway,
                          apiCallFails, noWriteGateway
<1>10. \E w \in Workers : reconcile(w) \/ apiCallFails(w)
  <2>1. ASSUME NEW w \in Workers, NEW h \in Gateways, processNextGateway(w, h) PROVE FALSE
    BY <1>8, <2>1 DEF processNextGateway, reconcileMissing, reconcileForeign,
                      reconcileDeleting, reconcileManaged, readOnly
  <2>2. ASSUME deliverGateway \/ deliverIPAddress \/ resync \/ restart PROVE FALSE
    BY <1>8, <2>2 DEF deliverGateway, deliverIPAddress, resync, restart
  <2> QED BY <1>7, <2>1, <2>2 DEF Next
<1> QED BY <1>4, <1>5, <1>9, <1>10

\* A reconcile that an edit, a change of class or a deletion has overtaken never
\* gets its verdict through: optimistic concurrency on the cached copy is enough,
\* for any number of Gateways, workers, edits and failures.
THEOREM VerdictsFit == Spec => VerdictsFitSpec
<1>1. TypeOK /\ Busy /\ ReconcileInv /\ [Next]_vars =>
        [\A g \in Gateways :
          gw[g].exists /\ gw'[g].exists /\ gw'[g].status # gw[g].status =>
            /\ gw[g].kind = "other" => gw'[g].status = NoStatus
            /\ gw[g].kind # "other" => ~gw[g].deleting /\ gw'[g].status.cond # "none"
            /\ gw[g].kind = "invalid" =>
                 gw'[g].status = [addr |-> NoAddr, cond |-> "invalid"]]_vars
  BY VerdictStep
<1> QED BY <1>1, TypesAndKeys, ReconcileInvariant, PTL DEF Spec, VerdictsFitSpec

=============================================================================
