--------------------------- MODULE VIPLease_proofs ---------------------------
(***************************************************************************)
(* GatewayController implements VIPLease.                                  *)
(***************************************************************************)
EXTENDS GatewayController_proofs

\* What the three invariants of GatewayController say at both ends of a step.
LeaseInv == TypeOK /\ PublishedHasFinalizer /\ PublishedWasGranted

\* One write to one Gateway object changes its lease in one of four ways.  Only
\* ensureGatewayFinalizer adds the finalizer, and it leaves the status alone.
LEMMA GatewayWriteLease ==
    ASSUME LeaseInv, LeaseInv', NEW g \in Gateways, NEW o \in GatewayObject,
           gw' = [gw EXCEPT ![g] = o], UNCHANGED <<ip, granted>>,
           o.fin => gw[g].fin \/ o.status.addr = gw[g].status.addr
    PROVE  [Lease!Next]_(Lease!leaseVars)
<1> DEFINE pub == [h \in Gateways |-> gw[h].status.addr]
           fin == [h \in Gateways |-> gw[h].fin]
<1>1. /\ gw \in [Gateways -> GatewayObject] /\ gw'[g] = o
      /\ pub' = [pub EXCEPT ![g] = o.status.addr]
      /\ fin' = [fin EXCEPT ![g] = o.fin]
      /\ pub[g] = gw[g].status.addr /\ fin[g] = gw[g].fin
      /\ o.status.addr \in Pool \cup {NoAddr} /\ o.fin \in BOOLEAN /\ gw[g].fin \in BOOLEAN
  BY DEF LeaseInv, TypeOK, GatewayObject, Status
<1>2. CASE ~o.fin
  <2>1. o.status.addr = NoAddr BY <1>1, <1>2 DEF LeaseInv, PublishedHasFinalizer
  <2>2. Lease!Unprotect(g) BY <1>1, <1>2, <2>1 DEF Lease!Unprotect
  <2> QED BY <2>2 DEF Lease!Next
<1>3. CASE o.fin /\ ~gw[g].fin
  <2>1. gw[g].status.addr = NoAddr /\ o.status.addr = NoAddr
    BY <1>3 DEF LeaseInv, PublishedHasFinalizer
  <2>2. pub' = pub BY <1>1, <2>1
  <2>3. fin' = [fin EXCEPT ![g] = TRUE] BY <1>1, <1>3
  <2>4. Lease!Protect(g) BY <1>1, <1>3, <2>1, <2>2, <2>3 DEF Lease!Protect
  <2> QED BY <2>4 DEF Lease!Next
<1>4. CASE o.fin /\ gw[g].fin
  <2>1. fin' = fin BY <1>1, <1>4
  <2>2. CASE o.status.addr = NoAddr
    <3>1. Lease!Withdraw(g) BY <1>1, <2>1, <2>2 DEF Lease!Withdraw
    <3> QED BY <3>1 DEF Lease!Next
  <2>3. CASE o.status.addr # NoAddr
    <3>1. o.status.addr \in Pool /\ <<g, o.status.addr>> \in granted
      BY <1>1, <2>3 DEF LeaseInv, PublishedWasGranted
    <3>2. Lease!Publish(g, o.status.addr)
      BY <1>1, <1>4, <2>1, <3>1 DEF Lease!Publish
    <3> QED BY <3>1, <3>2 DEF Lease!Next
  <2> QED BY <2>2, <2>3
<1> QED BY <1>1, <1>2, <1>3, <1>4

\* A step that leaves the API server's objects alone changes no lease.
LEMMA QuietLease ==
    ASSUME UNCHANGED <<gw, ip, granted>>
    PROVE  [Lease!Next]_(Lease!leaseVars)
  BY DEF Lease!leaseVars

\* Deleting an IPAddress, if it is there, frees its lease.
LEMMA DeleteLease ==
    ASSUME TypeOK, NEW a \in Pool, UNCHANGED <<gw, granted>>,
           IF ip[a] = None THEN noWriteIP ELSE writeIP(a, None)
    PROVE  [Lease!Next]_(Lease!leaseVars)
<1>1. CASE ip[a] = None BY <1>1, QuietLease DEF noWriteIP
<1>2. CASE ip[a] # None
  <2>1. Lease!Free(a) BY <1>2 DEF Lease!Free, writeIP
  <2> QED BY <2>1 DEF Lease!Next
<1> QED BY <1>1, <1>2

\* A step of a worker.
LEMMA ReconcileLease ==
    ASSUME LeaseInv, LeaseInv', NEW w \in Workers, worker[w].pc # "idle" => worker[w].key \in Gateways,
           reconcile(w)
    PROVE  [Lease!Next]_(Lease!leaseVars)
<1> DEFINE t == worker[w]
<1>0. gw \in [Gateways -> GatewayObject] /\ worker \in [Workers -> Task] /\ t \in Task
  BY DEF LeaseInv, TypeOK
<1>1. CASE clearManagedGatewayStatus(w)
  <2>1. CASE UNCHANGED gw BY <1>1, <2>1, QuietLease DEF clearManagedGatewayStatus, noWriteIP
  <2>2. CASE gw' = [gw EXCEPT ![t.key] = [gw[t.key] EXCEPT !.status = NoStatus]]
    <3>1. t.key \in Gateways BY <1>1 DEF clearManagedGatewayStatus
    <3>2. [gw[t.key] EXCEPT !.status = NoStatus] \in GatewayObject
      BY <1>0, <3>1 DEF GatewayObject, Status, NoStatus, Cond
    <3>3. [gw[t.key] EXCEPT !.status = NoStatus].fin = gw[t.key].fin
      BY <1>0, <3>1 DEF GatewayObject
    <3> QED BY <1>1, <2>2, <3>1, <3>2, <3>3, GatewayWriteLease
          DEF clearManagedGatewayStatus, noWriteIP
  <2> QED BY <1>1, <2>1, <2>2 DEF clearManagedGatewayStatus, noWriteGateway, writeGateway
<1>2. CASE \E a \in Pool : deleteIPAddress(w, a)
  BY <1>2, DeleteLease DEF deleteIPAddress, noWriteGateway, LeaseInv
<1>3. CASE \E a \in Pool : createIPAddress(w, a)
  <2>1. PICK a \in Pool : createIPAddress(w, a) BY <1>3
  <2>2. CASE ip[a] = None
    <3>1. Lease!Reserve(t.key, a)
      BY <2>1, <2>2 DEF createIPAddress, writeIP, noWriteGateway, Lease!Reserve
    <3>2. t.key \in Gateways BY <2>1 DEF createIPAddress
    <3> QED BY <3>1, <3>2 DEF Lease!Next
  <2>3. CASE ip[a] # None
    BY <2>1, <2>3, QuietLease DEF createIPAddress, noWriteIP, noWriteGateway
  <2> QED BY <2>2, <2>3
<1>4. CASE removeGatewayFinalizer(w)
  <2> DEFINE o == IF gw[t.key].deleting THEN NoGateway ELSE [gw[t.key] EXCEPT !.fin = FALSE]
  <2>1. t.key \in Gateways BY <1>4 DEF removeGatewayFinalizer
  <2>2. CASE UNCHANGED gw BY <1>4, <2>2, QuietLease DEF removeGatewayFinalizer, noWriteIP
  <2>3. CASE gw' = [gw EXCEPT ![t.key] = o]
    <3>1. o \in GatewayObject /\ ~o.fin
      BY <1>0, <2>1 DEF GatewayObject, NoGateway, Status, NoStatus, Cond, Kind
    <3> HIDE DEF o
    <3> QED BY <1>4, <2>1, <2>3, <3>1, GatewayWriteLease DEF removeGatewayFinalizer, noWriteIP
  <2> QED BY <1>4, <2>2, <2>3 DEF removeGatewayFinalizer, noWriteGateway, writeGateway
<1>5. CASE ensureGatewayFinalizer(w)
  <2> DEFINE o == [gw[t.key] EXCEPT !.fin = TRUE]
  <2>1. t.key \in Gateways BY <1>5 DEF ensureGatewayFinalizer
  <2>2. CASE UNCHANGED gw BY <1>5, <2>2, QuietLease DEF ensureGatewayFinalizer, noWriteIP
  <2>3. CASE gw' = [gw EXCEPT ![t.key] = o]
    <3>1. o \in GatewayObject /\ o.status.addr = gw[t.key].status.addr
      BY <1>0, <2>1 DEF GatewayObject
    <3> HIDE DEF o
    <3> QED BY <1>5, <2>1, <2>3, <3>1, GatewayWriteLease DEF ensureGatewayFinalizer, noWriteIP
  <2> QED BY <1>5, <2>2, <2>3 DEF ensureGatewayFinalizer, noWriteGateway, writeGateway
<1>6. CASE evaluateGateway(w)
  BY <1>6, QuietLease DEF evaluateGateway, noWriteGateway, noWriteIP
<1>7. CASE updateGatewayStatus(w)
  <2> DEFINE o == [gw[t.key] EXCEPT !.status = t.want, !.observed = TRUE]
  <2>1. t.key \in Gateways BY <1>7 DEF updateGatewayStatus
  <2>2. CASE UNCHANGED gw BY <1>7, <2>2, QuietLease DEF updateGatewayStatus, noWriteIP
  <2>3. CASE gw' = [gw EXCEPT ![t.key] = o]
    <3>1. o \in GatewayObject /\ o.fin = gw[t.key].fin
      BY <1>0, <2>1 DEF GatewayObject, Task
    <3> HIDE DEF o
    <3> QED BY <1>7, <2>1, <2>3, <3>1, GatewayWriteLease DEF updateGatewayStatus, noWriteIP
  <2> QED BY <1>7, <2>2, <2>3 DEF updateGatewayStatus, noWriteGateway, writeGateway
<1> QED BY <1>1, <1>2, <1>3, <1>4, <1>5, <1>6, <1>7 DEF reconcile

\* A step of a user or of another client.
LEMMA EnvironmentLease ==
    ASSUME LeaseInv, LeaseInv', Environment
    PROVE  [Lease!Next]_(Lease!leaseVars)
<1>0. gw \in [Gateways -> GatewayObject] BY DEF LeaseInv, TypeOK
<1>1. ASSUME NEW g \in Gateways, NEW o \in GatewayObject, userWritesGateway(g, o),
             o.fin => gw[g].fin
      PROVE  [Lease!Next]_(Lease!leaseVars)
  BY <1>1, GatewayWriteLease DEF userWritesGateway, writeGateway
<1>2. CASE \E g \in Gateways, k \in Kind : createGateway(g, k)
  <2>1. PICK g \in Gateways, k \in Kind : createGateway(g, k) BY <1>2
  <2>2. NewGateway(k) \in GatewayObject /\ ~NewGateway(k).fin
    BY DEF NewGateway, NoGateway, GatewayObject, Status, NoStatus, Cond, Kind
  <2> QED BY <1>1, <2>1, <2>2 DEF createGateway
<1>3. CASE \E g \in Gateways, k \in Kind : editGateway(g, k)
  <2>1. PICK g \in Gateways, k \in Kind : editGateway(g, k) BY <1>3
  <2> DEFINE o == [gw[g] EXCEPT !.kind = k, !.observed = FALSE]
  <2>2. o \in GatewayObject /\ o.fin = gw[g].fin BY <1>0 DEF GatewayObject
  <2>3. userWritesGateway(g, o) BY <2>1 DEF editGateway
  <2> HIDE DEF o
  <2> QED BY <1>1, <2>2, <2>3
<1>4. CASE \E g \in Gateways : deleteGateway(g)
  <2>1. PICK g \in Gateways : deleteGateway(g) BY <1>4
  <2> DEFINE o == IF gw[g].fin THEN [gw[g] EXCEPT !.deleting = TRUE] ELSE NoGateway
  <2>2. o \in GatewayObject /\ (o.fin => gw[g].fin)
    BY <1>0 DEF GatewayObject, NoGateway, Status, NoStatus, Cond, Kind
  <2>3. userWritesGateway(g, o) BY <2>1 DEF deleteGateway
  <2> HIDE DEF o
  <2> QED BY <1>1, <2>2, <2>3
<1>5. CASE \E g \in Gateways : changeRoutes(g) BY <1>5, QuietLease DEF changeRoutes
<1>6. CASE \E S \in SUBSET Pool : changeServiceCIDRs(S)
  BY <1>6, QuietLease DEF changeServiceCIDRs
<1>7. CASE \E a \in Pool : serviceTakes(a)
  <2>1. PICK a \in Pool : serviceTakes(a) BY <1>7
  <2>2. Lease!ServiceTakes(a) BY <2>1 DEF serviceTakes, writeIP, Lease!ServiceTakes
  <2> QED BY <2>2 DEF Lease!Next
<1>8. CASE \E a \in Pool : serviceFrees(a)
  <2>1. PICK a \in Pool : serviceFrees(a) BY <1>8
  <2>2. Lease!Free(a) BY <2>1, OwnerAssumption DEF serviceFrees, writeIP, Lease!Free
  <2> QED BY <2>2 DEF Lease!Next
<1> QED BY <1>2, <1>3, <1>4, <1>5, <1>6, <1>7, <1>8 DEF Environment

\* Every step of the controller and its environment is a step of VIPLease.
LEMMA StepLease ==
    ASSUME LeaseInv, LeaseInv', Busy, [Next]_vars
    PROVE  [Lease!Next]_(Lease!leaseVars)
<1>1. CASE \E w \in Workers, g \in Gateways : processNextGateway(w, g)
  BY <1>1, QuietLease DEF processNextGateway, reconcileMissing, reconcileForeign,
     reconcileDeleting, reconcileManaged, readOnly
<1>2. CASE \E w \in Workers : reconcile(w)
  <2>1. PICK w \in Workers : reconcile(w) BY <1>2
  <2>2. worker[w].pc # "idle" => worker[w].key \in Gateways
    BY DEF Busy, LeaseInv, TypeOK, Task
  <2> QED BY <2>1, <2>2, ReconcileLease
<1>3. CASE \E w \in Workers : apiCallFails(w)
  BY <1>3, QuietLease DEF apiCallFails, noWriteGateway, noWriteIP
<1>4. CASE deliverGateway \/ deliverIPAddress \/ resync \/ restart
  BY <1>4, QuietLease DEF deliverGateway, deliverIPAddress, resync, restart
<1>5. CASE Environment BY <1>5, EnvironmentLease
<1>6. CASE UNCHANGED vars BY <1>6, QuietLease DEF vars
<1> QED BY <1>1, <1>2, <1>3, <1>4, <1>5, <1>6 DEF Next

\* The API server starts without reservations and without published addresses.
LEMMA InitLease == Init => Lease!Init
<1> SUFFICES ASSUME Init PROVE Lease!Init OBVIOUS
<1>1. \A g \in Gateways : gw[g] \in {NoGateway, NewGateway("valid")} BY DEF Init
<1>2. NoGateway.status.addr = NoAddr /\ NoGateway.fin = FALSE BY DEF NoGateway, NoStatus
<1>3. /\ NewGateway("valid").status = NoGateway.status
      /\ NewGateway("valid").fin = NoGateway.fin
  BY DEF NewGateway, NoGateway
<1>4. \A g \in Gateways : gw[g].status.addr = NoAddr /\ gw[g].fin = FALSE
  BY <1>1, <1>2, <1>3
<1> QED BY <1>4 DEF Init, Lease!Init

\* The Gateway reconciler with its caches, workers, retries and restarts
\* implements the allocator's promise, for every number of Gateways, workers
\* and addresses.
THEOREM ControllerImplementsLease == Spec => ImplementsLease
<1>1. Spec => [](LeaseInv /\ Busy)
  BY TypesAndKeys, PublishedGatewaysAreFinalized, PublishedAddressesWereGranted, PTL DEF LeaseInv
<1>2. LeaseInv /\ Busy /\ LeaseInv' /\ [Next]_vars => [Lease!Next]_(Lease!leaseVars)
  BY StepLease
<1> QED BY InitLease, <1>1, <1>2, PTL DEF Spec, ImplementsLease, Lease!Spec

=============================================================================
