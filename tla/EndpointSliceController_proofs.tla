-------------------- MODULE EndpointSliceController_proofs --------------------
(***************************************************************************)
(* Proofs about the XEndpointSelector reconciler, for every set of         *)
(* selectors and bindings, for slice names that collide or do not, and for *)
(* every bound: the types, and that a slice changes hands only by being    *)
(* deleted.                                                                *)
(***************************************************************************)
EXTENDS EndpointSliceController, FiniteSetTheorems, SequenceTheorems,
        WellFoundedInduction, TLAPS

-----------------------------------------------------------------------------
(* The inductive invariant *)

\* A worker without a key has nothing to do.
Busy == worker.key = None => worker.left = {} /\ \A n \in Names : worker.desired[n] = None

\* Every version of a selector's endpoints is somebody's edit.
PodsBounded == \A s \in Selectors : pods[s] + edits <= MaxEdits

\* A cache without outstanding events, and the last event of a slice, show the
\* slice as it is.
LastEventIsLive ==
    \A n \in Names :
      /\ cacheCurrent(n) => cache[n] = slices[n]
      /\ \A i \in 1..Len(events) :
           /\ events[i].name = n
           /\ \A j \in (i+1)..Len(events) : events[j].name # n
           => events[i].obj = slices[n]

\* The worker writes slices of its own selector, and a listed slice that
\* nobody has written since is one of them.
OwnCopy ==
    /\ \A n \in Names : worker.desired[n] # None => worker.desired[n].selector = worker.key
    /\ \A n \in worker.left \cap worker.fresh :
         slices[n] # None /\ slices[n].selector = worker.key

SliceInv == TypeOK /\ Busy /\ PodsBounded /\ LastEventIsLive /\ OwnCopy

-----------------------------------------------------------------------------
(* Types *)

\* Some binding is the last of several in the order of sort.Slice.
LEMMA LastBinding ==
    ASSUME NEW named \in SUBSET Bindings, named # {}
    PROVE  \E b \in named : \A c \in named : Rank[c] <= Rank[b]
<1> DEFINE K == Cardinality(Bindings)
           T == {K - Rank[b] : b \in named}
<1>1. K \in Nat
  BY FS_CardinalityType, BindingAssumption
<1>2. \A b \in Bindings : Rank[b] \in 1..K
  BY BindingAssumption
<1>3. T \subseteq Nat /\ T # {}
  BY <1>1, <1>2
<1> HIDE DEF T
<1>4. PICK x \in T : \A y \in T : ~(<<y, x>> \in OpToRel(<, Nat))
  BY <1>3, WFMin, NatLessThanWellFounded
<1>5. \A y \in T : ~(y < x)
  BY <1>3, <1>4 DEF OpToRel
<1>6. PICK b \in named : x = K - Rank[b]
  BY DEF T
<1>7. ASSUME NEW c \in named PROVE Rank[c] <= Rank[b]
  <2>1. K - Rank[c] \in T
    BY DEF T
  <2> QED BY <1>1, <1>2, <1>5, <1>6, <2>1
<1> QED BY <1>7

\* What a reconcile reads from the caches.
LEMMA ReadTypes ==
    ASSUME TypeOK, NEW s \in Selectors
    PROVE  /\ desiredMap(s) \in [Names -> SliceOrNone]
           /\ \A n \in Names : desiredMap(s)[n] # None => desiredMap(s)[n].selector = s
           /\ listManagedEndpointSlices(s) \in SUBSET Names
<1>1. ASSUME NEW n \in Names
      PROVE  /\ desiredMap(s)[n] \in SliceOrNone
             /\ desiredMap(s)[n] # None => desiredMap(s)[n].selector = s
  <2> DEFINE named == {b \in bindingsOf(s) : endpointSliceName(b) = n}
             last == CHOOSE b \in named : \A c \in named : Rank[c] <= Rank[b]
  <2>1. desiredMap(s)[n] = IF named = {} THEN None ELSE desiredEndpointSlice(s, last)
    BY DEF desiredMap
  <2>2. CASE named = {}
    BY <2>1, <2>2 DEF SliceOrNone
  <2>3. CASE named # {}
    <3>1. named \in SUBSET Bindings
      BY DEF bindingsOf
    <3>2. last \in Bindings
      <4> HIDE DEF named
      <4> QED BY <2>3, <3>1, LastBinding
    <3>3. last[1] \in Gateways
      BY <3>2 DEF Gateways
    <3> HIDE DEF last
    <3>4. desiredEndpointSlice(s, last) \in Slice /\ desiredEndpointSlice(s, last).selector = s
      BY <3>2, <3>3 DEF desiredEndpointSlice, buildEndpointSliceEndpoints, Slice, TypeOK
    <3> QED BY <2>1, <2>3, <3>4 DEF SliceOrNone
  <2> QED BY <2>2, <2>3
<1>2. desiredMap(s) \in [Names -> SliceOrNone]
  <2>1. desiredMap(s) = [n \in Names |-> desiredMap(s)[n]]
    BY DEF desiredMap
  <2> QED BY <1>1, <2>1
<1>3. listManagedEndpointSlices(s) \in SUBSET Names
  BY DEF listManagedEndpointSlices
<1> QED BY <1>1, <1>2, <1>3

\* Handlers enqueue selector keys.
LEMMA KeyTypes ==
    ASSUME TypeOK
    PROVE  /\ \A o \in SliceOrNone : selectorKey(o) \in SUBSET Selectors
           /\ \A o, p \in SliceOrNone : handlerKeys(o, p) \in SUBSET Selectors
           /\ \A g : selectorsForGateway(g) \in SUBSET Selectors
           /\ \A f \in [Names -> SliceOrNone] : enqueueAll(f) \in SUBSET Selectors
<1>1. \A o \in SliceOrNone : selectorKey(o) \in SUBSET Selectors
  BY DEF selectorKey, SliceOrNone, Slice
<1>2. \A o, p \in SliceOrNone : handlerKeys(o, p) \in SUBSET Selectors
  BY <1>1 DEF handlerKeys
<1>3. \A b \in Bindings : claim[b] \in Selectors \cup {None}
  BY DEF TypeOK
<1>4. \A g : selectorsForGateway(g) \in SUBSET Selectors
  BY <1>3 DEF selectorsForGateway
<1>5. \A f \in [Names -> SliceOrNone] : enqueueAll(f) \in SUBSET Selectors
  BY <1>1, <1>3 DEF enqueueAll
<1> QED BY <1>1, <1>2, <1>4, <1>5

LEMMA IdleType == Idle \in Task /\ Idle.key = None /\ Idle.left = {} /\ Idle.fresh = {}
                  /\ \A n \in Names : Idle.desired[n] = None
BY DEF Idle, Task, SliceOrNone

\* A write of a slice keeps the types of the slices and of the events.
LEMMA WriteType ==
    ASSUME TypeOK, NEW n \in Names, NEW o \in SliceOrNone, writeSlice(n, o)
    PROVE  /\ slices' \in [Names -> SliceOrNone]
           /\ events' \in Seq([name : Names, obj : SliceOrNone])
<1>1. [name |-> n, obj |-> o] \in [name : Names, obj : SliceOrNone]
  OBVIOUS
<1> QED BY <1>1, AppendProperties DEF TypeOK, writeSlice

\* Taking a key keeps the types.
LEMMA StartType ==
    ASSUME TypeOK, NEW s \in Selectors, startReconcile(s)
    PROVE  TypeOK' /\ Busy'
<1> DEFINE managed == listManagedEndpointSlices(s)
           equal == {n \in managed : endpointSliceEqual(cache[n], desiredMap(s)[n])}
           t == [key |-> s, left |-> managed \ equal,
                 desired |-> [n \in Names |-> IF n \in equal THEN None ELSE desiredMap(s)[n]],
                 fresh |-> {n \in Names : cacheCurrent(n)}]
<1>1. worker' = t /\ queue' = queue \ {s} /\ untold' = untold \ {s}
  BY DEF startReconcile
<1>2. managed \ equal \in SUBSET Names /\ {n \in Names : cacheCurrent(n)} \in SUBSET Names
  BY ReadTypes
<1>3. [n \in Names |-> IF n \in equal THEN None ELSE desiredMap(s)[n]] \in [Names -> SliceOrNone]
  <2>1. \A n \in Names : desiredMap(s)[n] \in SliceOrNone
    BY ReadTypes
  <2> HIDE DEF equal
  <2> QED BY <2>1 DEF SliceOrNone
<1>4. t \in Task /\ t.key # None
  <2> HIDE DEF managed, equal
  <2> QED BY <1>2, <1>3, NoneAssumption DEF Task
<1> HIDE DEF t
<1>5. TypeOK'
  BY <1>1, <1>4 DEF TypeOK, startReconcile, noWrite, inputs, boundVars
<1> QED BY <1>1, <1>4, <1>5 DEF Busy

\* retry gives the key back.
LEMMA RetryType ==
    ASSUME TypeOK, worker.key # None, retry
    PROVE  queue' \in SUBSET Selectors /\ worker' \in Task /\ Busy'
<1>1. worker.key \in Selectors
  BY DEF TypeOK, Task
<1> QED BY <1>1, IdleType DEF TypeOK, retry, Busy

\* The calls of a reconcile keep the types.
LEMMA ReconcileType ==
    ASSUME TypeOK, Busy, reconcile
    PROVE  TypeOK' /\ Busy'
<1>1. /\ worker \in Task /\ worker.left \in SUBSET Names /\ worker.fresh \in SUBSET Names
      /\ \A n \in Names : worker.desired[n] \in SliceOrNone
  BY DEF TypeOK, Task
<1>2. ASSUME NEW n \in Names, deleteSlice(n) PROVE TypeOK' /\ Busy'
  <2>1. worker.key # None
    BY <1>2 DEF deleteSlice, Busy
  <2>2. [worker EXCEPT !.left = @ \ {n}, !.fresh = @ \ {n}] \in Task
    BY <1>1 DEF Task
  <2>3. worker' \in Task /\ Busy'
    BY <1>1, <1>2, <2>1, <2>2 DEF deleteSlice, Busy, Task
  <2>4. slices' \in [Names -> SliceOrNone] /\ events' \in Seq([name : Names, obj : SliceOrNone])
    <3>1. None \in SliceOrNone
      BY DEF SliceOrNone
    <3>2. CASE slices[n] = None
      BY <1>2, <3>2 DEF deleteSlice, noWrite, TypeOK
    <3>3. CASE slices[n] # None
      BY <1>2, <3>1, <3>3, WriteType DEF deleteSlice
    <3> QED BY <3>2, <3>3
  <2> QED BY <1>2, <2>3, <2>4 DEF TypeOK, deleteSlice, inputs, boundVars
<1>3. ASSUME NEW n \in Names, updateSlice(n) PROVE TypeOK' /\ Busy'
  <2>1. worker.key # None
    BY <1>3 DEF updateSlice, Busy
  <2>2. CASE n \in worker.fresh
    <3>1. writeSlice(n, worker.desired[n])
      BY <1>3, <2>2 DEF updateSlice
    <3>2. [worker EXCEPT !.left = @ \ {n}, !.desired[n] = None, !.fresh = @ \ {n}] \in Task
      BY <1>1 DEF Task, SliceOrNone
    <3>3. worker' \in Task /\ Busy' /\ queue' = queue
      BY <1>1, <1>3, <2>1, <2>2, <3>2 DEF updateSlice, Busy, Task
    <3>4. slices' \in [Names -> SliceOrNone] /\ events' \in Seq([name : Names, obj : SliceOrNone])
      BY <1>1, <3>1, WriteType
    <3> QED BY <1>3, <3>3, <3>4 DEF TypeOK, updateSlice, inputs, boundVars
  <2>3. CASE n \notin worker.fresh
    <3>1. retry /\ noWrite
      BY <1>3, <2>3 DEF updateSlice
    <3> QED BY <1>3, <2>1, <3>1, RetryType DEF TypeOK, updateSlice, noWrite, inputs, boundVars
  <2> QED BY <2>2, <2>3
<1>4. ASSUME NEW n \in Names, createSlice(n) PROVE TypeOK' /\ Busy'
  <2>1. worker.key # None
    BY <1>4 DEF createSlice, Busy
  <2>2. CASE slices[n] = None
    <3>1. writeSlice(n, worker.desired[n])
      BY <1>4, <2>2 DEF createSlice
    <3>2. [worker EXCEPT !.desired[n] = None, !.fresh = @ \ {n}] \in Task
      BY <1>1 DEF Task, SliceOrNone
    <3>3. worker' \in Task /\ Busy' /\ queue' = queue
      BY <1>1, <1>4, <2>1, <2>2, <3>2 DEF createSlice, Busy, Task
    <3>4. slices' \in [Names -> SliceOrNone] /\ events' \in Seq([name : Names, obj : SliceOrNone])
      BY <1>1, <3>1, WriteType
    <3> QED BY <1>4, <3>3, <3>4 DEF TypeOK, createSlice, inputs, boundVars
  <2>3. CASE slices[n] # None
    <3>1. retry /\ noWrite
      BY <1>4, <2>3 DEF createSlice
    <3> QED BY <1>4, <2>1, <3>1, RetryType DEF TypeOK, createSlice, noWrite, inputs, boundVars
  <2> QED BY <2>2, <2>3
<1>5. ASSUME finishReconcile PROVE TypeOK' /\ Busy'
  BY <1>5, IdleType DEF TypeOK, Busy, finishReconcile, noWrite, inputs, boundVars
<1> QED BY <1>2, <1>3, <1>4, <1>5 DEF reconcile

\* Informers and restarts keep the types.
LEMMA InformerType ==
    ASSUME TypeOK, Busy,
           \/ deliverSlice \/ relist \/ resync \/ restart
           \/ \E g \in Gateways : deliverGateway(g)
           \/ \E s \in Selectors : deliverGatewayStatus(s)
    PROVE  TypeOK' /\ Busy'
<1>1. ASSUME deliverSlice PROVE TypeOK' /\ Busy'
  <2>1. events \in Seq([name : Names, obj : SliceOrNone]) /\ events # <<>>
    BY <1>1 DEF TypeOK, deliverSlice
  <2>2. /\ Head(events) \in [name : Names, obj : SliceOrNone]
        /\ Tail(events) \in Seq([name : Names, obj : SliceOrNone])
    BY <2>1, HeadTailProperties
  <2>3. cache[Head(events).name] \in SliceOrNone
    BY <2>2 DEF TypeOK
  <2>4. handlerKeys(cache[Head(events).name], Head(events).obj) \in SUBSET Selectors
    BY <2>2, <2>3, KeyTypes
  <2> QED BY <1>1, <2>2, <2>4 DEF TypeOK, Busy, deliverSlice, inputs, boundVars
<1>2. ASSUME relist PROVE TypeOK' /\ Busy'
  <2>1. \A n \in Names : handlerKeys(cache[n], slices[n]) \in SUBSET Selectors
    BY KeyTypes DEF TypeOK
  <2>2. queue' \in SUBSET Selectors
    BY <1>2, <2>1 DEF TypeOK, relist
  <2>3. relists' \in 0..MaxRelists
    BY <1>2, SliceBoundAssumption DEF TypeOK, relist
  <2>4. events' \in Seq([name : Names, obj : SliceOrNone])
    BY <1>2, EmptySeq DEF relist
  <2> QED BY <1>2, <2>2, <2>3, <2>4 DEF TypeOK, Busy, relist, inputs
<1>3. ASSUME resync PROVE TypeOK' /\ Busy'
  <2>1. enqueueAll(cache) \in SUBSET Selectors
    BY KeyTypes DEF TypeOK
  <2> QED BY <1>3, <2>1 DEF TypeOK, Busy, resync, inputs, boundVars
<1>4. ASSUME restart PROVE TypeOK' /\ Busy'
  <2>1. queue' \in SUBSET Selectors
    BY <1>4, KeyTypes DEF TypeOK, restart
  <2>2. restarts' \in 0..MaxRestarts
    BY <1>4, SliceBoundAssumption DEF TypeOK, restart
  <2>3. events' \in Seq([name : Names, obj : SliceOrNone])
    BY <1>4, EmptySeq DEF restart
  <2> QED BY <1>4, <2>1, <2>2, <2>3, IdleType DEF TypeOK, Busy, restart
<1>5. ASSUME NEW g \in Gateways, deliverGateway(g) PROVE TypeOK' /\ Busy'
  <2>1. selectorsForGateway(g) \in SUBSET Selectors
    BY KeyTypes
  <2> QED BY <1>5, <2>1 DEF TypeOK, Busy, deliverGateway, boundVars
<1>6. ASSUME NEW s \in Selectors, deliverGatewayStatus(s) PROVE TypeOK' /\ Busy'
  BY <1>6 DEF TypeOK, Busy, deliverGatewayStatus, inputs, boundVars
<1> QED BY <1>1, <1>2, <1>3, <1>4, <1>5, <1>6

\* So do users, failed calls and the garbage collector.
LEMMA EnvironmentType ==
    ASSUME TypeOK, Busy, PodsBounded,
           Environment \/ apiCallFails \/ \E n \in Names : collectGarbage(n)
    PROVE  TypeOK' /\ Busy'
<1>1. edits \in Nat /\ MaxEdits \in Nat /\ \A b \in Bindings : claim[b] \in Selectors \cup {None}
  BY SliceBoundAssumption DEF TypeOK
<1>2. edit => edits' \in 0..MaxEdits /\ edits > 0 /\ edits' = edits - 1
  BY <1>1 DEF edit, TypeOK
<1>3. ASSUME NEW b \in Bindings, NEW s \in Selectors \cup {None}, NEW told \in SUBSET Selectors,
             changeClaim(b, s, told)
      PROVE  TypeOK' /\ Busy'
  <2>1. queue' \in SUBSET Selectors /\ untold' \in SUBSET Selectors
    BY <1>1, <1>3 DEF TypeOK, changeClaim
  <2> QED BY <1>2, <1>3, <2>1 DEF TypeOK, Busy, changeClaim, edit
<1>4. ASSUME NEW s \in Selectors, changePods(s) PROVE TypeOK' /\ Busy'
  <2>1. queue' \in SUBSET Selectors
    BY <1>1, <1>4 DEF TypeOK, changePods
  <2>2. pods[s] \in Nat /\ pods[s] + edits <= MaxEdits
    BY DEF TypeOK, PodsBounded
  <2>3. pods[s] + 1 \in 0..MaxEdits
    BY <1>1, <1>2, <1>4, <2>2 DEF changePods
  <2> QED BY <1>2, <1>4, <2>1, <2>3 DEF TypeOK, Busy, changePods, edit
<1>5. ASSUME NEW g \in Gateways, deleteGateway(g) PROVE TypeOK' /\ Busy'
  <2>1. 0 \in Uid
    BY <1>1 DEF Uid
  <2> QED BY <1>2, <1>5, <2>1 DEF TypeOK, Busy, deleteGateway, edit
<1>6. ASSUME NEW g \in Gateways, createGateway(g) PROVE TypeOK' /\ Busy'
  <2>1. MaxEdits + 1 - edits' \in Uid
    BY <1>1, <1>2, <1>6 DEF Uid, createGateway
  <2> QED BY <1>2, <1>6, <2>1 DEF TypeOK, Busy, createGateway, edit
<1>7. ASSUME apiCallFails PROVE TypeOK' /\ Busy'
  <2>1. failures' \in 0..MaxFailures
    BY <1>7, SliceBoundAssumption DEF TypeOK, apiCallFails
  <2> QED BY <1>7, <2>1, RetryType DEF TypeOK, apiCallFails, noWrite, inputs
<1>8. ASSUME NEW n \in Names, collectGarbage(n) PROVE TypeOK' /\ Busy'
  <2>1. None \in SliceOrNone
    BY DEF SliceOrNone
  <2>2. slices' \in [Names -> SliceOrNone] /\ events' \in Seq([name : Names, obj : SliceOrNone])
    BY <1>8, <2>1, WriteType DEF collectGarbage
  <2>3. worker \in Task /\ [worker EXCEPT !.fresh = @ \ {n}] \in Task
    BY DEF TypeOK, Task
  <2>4. worker' \in Task /\ Busy'
    BY <1>8, <2>3 DEF collectGarbage, Busy, Task
  <2> QED BY <1>8, <2>2, <2>4 DEF TypeOK, collectGarbage, inputs, boundVars
<1> QED BY <1>3, <1>4, <1>5, <1>6, <1>7, <1>8 DEF Environment

\* The versions of the endpoints are bounded by the edits.
LEMMA PodsStep ==
    ASSUME TypeOK, PodsBounded, [Next]_vars
    PROVE  PodsBounded'
<1>1. edits \in Nat /\ MaxEdits \in Nat /\ \A s \in Selectors : pods[s] \in Nat
  BY SliceBoundAssumption DEF TypeOK
<1>2. ASSUME UNCHANGED <<pods, edits>> PROVE PodsBounded'
  BY <1>2 DEF PodsBounded
<1>3. ASSUME edit, UNCHANGED pods PROVE PodsBounded'
  BY <1>1, <1>3 DEF edit, PodsBounded
<1>4. ASSUME NEW s \in Selectors, changePods(s) PROVE PodsBounded'
  BY <1>1, <1>4 DEF changePods, edit, PodsBounded, TypeOK
<1>5. ASSUME NEW s \in Selectors, startReconcile(s) PROVE PodsBounded'
  BY <1>2, <1>5 DEF startReconcile, inputs, boundVars
<1>6. ASSUME reconcile PROVE PodsBounded'
  BY <1>2, <1>6 DEF reconcile, deleteSlice, updateSlice, createSlice, finishReconcile,
                    inputs, boundVars
<1>7. ASSUME Environment PROVE PodsBounded'
  BY <1>3, <1>4, <1>7 DEF Environment, changeClaim, deleteGateway, createGateway
<1>8. ASSUME apiCallFails \/ deliverSlice \/ relist \/ resync \/ restart
             \/ (\E g \in Gateways : deliverGateway(g)) \/ (\E n \in Names : collectGarbage(n))
             \/ (\E s \in Selectors : deliverGatewayStatus(s))
      PROVE  PodsBounded'
  BY <1>2, <1>8 DEF apiCallFails, deliverSlice, relist, resync, restart, deliverGateway,
                    deliverGatewayStatus, collectGarbage, inputs, boundVars
<1>9. CASE UNCHANGED vars
  BY <1>2, <1>9 DEF vars
<1> QED BY <1>4, <1>5, <1>6, <1>7, <1>8, <1>9 DEF Next

\* The types hold initially.
LEMMA InitType == Init => TypeOK /\ Busy /\ PodsBounded
<1> SUFFICES ASSUME Init PROVE TypeOK /\ Busy /\ PodsBounded
  OBVIOUS
<1>1. /\ edits \in 0..MaxEdits /\ failures \in 0..MaxFailures /\ relists \in 0..MaxRelists
      /\ restarts \in 0..MaxRestarts /\ 0 \in 0..MaxEdits /\ 1 \in Uid
      /\ MaxEdits \in Nat
  BY SliceBoundAssumption DEF Init, Uid
<1>2. queue \in SUBSET Selectors
  BY DEF Init
<1>3. slices \in [Names -> SliceOrNone]
  BY DEF Init, SliceOrNone
<1>4. TypeOK
  BY <1>1, <1>2, <1>3, IdleType, EmptySeq DEF Init, TypeOK
<1>5. Busy /\ PodsBounded
  BY <1>1, IdleType DEF Init, Busy, PodsBounded
<1> QED BY <1>4, <1>5

\* Every step keeps the types.
LEMMA TypeStep ==
    ASSUME TypeOK, Busy, PodsBounded, [Next]_vars
    PROVE  TypeOK' /\ Busy' /\ PodsBounded'
<1>1. PodsBounded'
  BY PodsStep
<1>2. CASE UNCHANGED vars
  BY <1>1, <1>2 DEF TypeOK, Busy, vars
<1>3. CASE Next
  BY <1>1, <1>3, StartType, ReconcileType, InformerType, EnvironmentType DEF Next
<1> QED BY <1>2, <1>3

\* Every variable of the selector reconciler keeps its type; in particular the
\* queue only ever holds selector keys (processNextEndpointSelector splits
\* them without further checks).
THEOREM TypeCorrect == Spec => []TypeOK
<1>1. Init => TypeOK /\ Busy /\ PodsBounded
  BY InitType
<1>2. TypeOK /\ Busy /\ PodsBounded /\ [Next]_vars => (TypeOK /\ Busy /\ PodsBounded)'
  BY TypeStep
<1> QED BY <1>1, <1>2, PTL DEF Spec

-----------------------------------------------------------------------------
(* Handover of a slice *)

\* A step that writes no slice, hears no event and leaves the worker alone.
LEMMA IdleStep ==
    ASSUME LastEventIsLive, OwnCopy, UNCHANGED <<slices, cache, events, worker>>
    PROVE  LastEventIsLive' /\ OwnCopy'
BY DEF LastEventIsLive, OwnCopy, cacheCurrent

\* A write is the last event of its slice.
LEMMA WriteLive ==
    ASSUME TypeOK, LastEventIsLive, UNCHANGED cache,
           NEW n \in Names, NEW o \in SliceOrNone, writeSlice(n, o)
    PROVE  LastEventIsLive'
<1> DEFINE k == Len(events)
<1>1. /\ k \in Nat /\ Len(events') = k + 1
      /\ \A i \in 1..k : events'[i] = events[i]
      /\ events'[k + 1] = [name |-> n, obj |-> o]
  <2>1. events' = Append(events, [name |-> n, obj |-> o])
    BY DEF writeSlice
  <2> QED BY <2>1, AppendProperties, LenProperties DEF TypeOK
<1>2. slices'[n] = o /\ \A m \in Names : m # n => slices'[m] = slices[m]
  BY DEF writeSlice, TypeOK
<1>3. ASSUME NEW m \in Names, cacheCurrent(m)' PROVE cache'[m] = slices'[m]
  <2>1. m # n
    BY <1>1, <1>3 DEF cacheCurrent
  <2>2. cacheCurrent(m)
    BY <1>1, <1>3 DEF cacheCurrent
  <2> QED BY <1>2, <2>1, <2>2 DEF LastEventIsLive
<1>4. ASSUME NEW m \in Names, NEW i \in 1..Len(events'), events'[i].name = m,
             \A j \in (i + 1)..Len(events') : events'[j].name # m
      PROVE  events'[i].obj = slices'[m]
  <2>1. CASE i = k + 1
    BY <1>1, <1>2, <1>4, <2>1
  <2>2. CASE i # k + 1
    <3>1. i \in 1..k /\ k + 1 \in (i + 1)..Len(events')
      BY <1>1, <2>2
    <3>2. m # n
      BY <1>1, <1>4, <3>1
    <3>3. events[i].name = m /\ \A j \in (i + 1)..k : events[j].name # m
      BY <1>1, <1>4, <3>1
    <3>4. events[i].obj = slices[m]
      BY <3>1, <3>3 DEF LastEventIsLive
    <3> QED BY <1>1, <1>2, <3>1, <3>2, <3>4
  <2> QED BY <2>1, <2>2
<1> QED BY <1>3, <1>4 DEF LastEventIsLive

\* An event moves into the cache.
LEMMA DeliverLive ==
    ASSUME TypeOK, LastEventIsLive, deliverSlice
    PROVE  LastEventIsLive'
<1> DEFINE k == Len(events)
<1>1. /\ k \in Nat /\ k > 0 /\ Head(events) = events[1] /\ Len(events') = k - 1
      /\ \A i \in 1..Len(events') : events'[i] = events[i + 1]
  <2>1. /\ events \in Seq([name : Names, obj : SliceOrNone]) /\ events # <<>>
        /\ events' = Tail(events)
    BY DEF deliverSlice, TypeOK
  <2> QED BY <2>1, HeadTailProperties, LenProperties, EmptySeq
<1>2. events[1].name \in Names
  <2>1. events \in Seq([name : Names, obj : SliceOrNone]) /\ 1 \in 1..Len(events)
    BY <1>1 DEF TypeOK
  <2>2. events[1] \in [name : Names, obj : SliceOrNone]
    BY <2>1, ElementOfSeq
  <2> QED BY <2>2
<1>3. /\ cache'[events[1].name] = events[1].obj
      /\ \A m \in Names : m # events[1].name => cache'[m] = cache[m]
      /\ slices' = slices
  BY <1>1, <1>2 DEF deliverSlice, TypeOK
<1>4. ASSUME NEW m \in Names, cacheCurrent(m)' PROVE cache'[m] = slices'[m]
  <2>1. \A j \in 2..k : events[j].name # m
    <3>1. \A j \in 2..k : j - 1 \in 1..Len(events') /\ events[j] = events'[j - 1]
      BY <1>1
    <3> QED BY <1>4, <3>1 DEF cacheCurrent
  <2>2. CASE m = events[1].name
    <3>1. events[1].obj = slices[m]
      BY <1>1, <2>1, <2>2 DEF LastEventIsLive
    <3> QED BY <1>3, <2>2, <3>1
  <2>3. CASE m # events[1].name
    <3>1. cacheCurrent(m)
      BY <1>1, <2>1, <2>3 DEF cacheCurrent
    <3> QED BY <1>3, <2>3, <3>1 DEF LastEventIsLive
  <2> QED BY <2>2, <2>3
<1>5. ASSUME NEW m \in Names, NEW i \in 1..Len(events'), events'[i].name = m,
             \A j \in (i + 1)..Len(events') : events'[j].name # m
      PROVE  events'[i].obj = slices'[m]
  <2>1. i + 1 \in 1..k /\ events'[i] = events[i + 1]
    BY <1>1
  <2>2. \A j \in (i + 2)..k : j - 1 \in (i + 1)..Len(events') /\ events'[j - 1] = events[j]
    BY <1>1
  <2>3. \A j \in ((i + 1) + 1)..k : events[j].name # m
    BY <1>1, <1>5, <2>1, <2>2
  <2> QED BY <1>3, <1>5, <2>1, <2>3 DEF LastEventIsLive
<1> QED BY <1>4, <1>5 DEF LastEventIsLive

\* A list of the live slices leaves nothing outstanding.
LEMMA ListLive ==
    ASSUME cache' = slices, slices' = slices, events' = <<>>
    PROVE  LastEventIsLive'
<1>1. Len(events') = 0
  OBVIOUS
<1>2. \A i : i \notin 1..Len(events')
  BY <1>1
<1> QED BY <1>2 DEF LastEventIsLive, cacheCurrent

\* A reconcile starts with copies of its own slices.
LEMMA StartOwn ==
    ASSUME TypeOK, LastEventIsLive, NEW s \in Selectors, startReconcile(s)
    PROVE  OwnCopy'
<1> DEFINE managed == listManagedEndpointSlices(s)
           equal == {n \in managed : endpointSliceEqual(cache[n], desiredMap(s)[n])}
<1>1. /\ worker'.key = s /\ worker'.left = managed \ equal
      /\ worker'.desired = [n \in Names |-> IF n \in equal THEN None ELSE desiredMap(s)[n]]
      /\ worker'.fresh = {n \in Names : cacheCurrent(n)}
      /\ slices' = slices
  BY DEF startReconcile, noWrite
<1>2. \A n \in Names : worker'.desired[n] # None => worker'.desired[n].selector = s
  <2>1. \A n \in Names : desiredMap(s)[n] # None => desiredMap(s)[n].selector = s
    BY ReadTypes
  <2> HIDE DEF equal
  <2> QED BY <1>1, <2>1
<1>3. ASSUME NEW n \in worker'.left \cap worker'.fresh
      PROVE  slices'[n] # None /\ slices'[n].selector = s
  <2>1. n \in Names /\ cacheCurrent(n) /\ s \in selectorKey(cache[n])
    BY <1>1, <1>3 DEF listManagedEndpointSlices
  <2>2. cache[n] # None /\ cache[n].selector = s
    BY <2>1 DEF selectorKey
  <2>3. cache[n] = slices[n]
    BY <2>1 DEF LastEventIsLive
  <2> QED BY <1>1, <2>2, <2>3
<1> QED BY <1>1, <1>2, <1>3 DEF OwnCopy

\* The invariant holds initially.
LEMMA InitInv == Init => SliceInv
<1> SUFFICES ASSUME Init PROVE SliceInv
  OBVIOUS
<1>1. LastEventIsLive
  <2>1. Len(events) = 0 /\ cache = slices
    BY DEF Init
  <2>2. \A i : i \notin 1..Len(events)
    BY <2>1
  <2> QED BY <2>1, <2>2 DEF LastEventIsLive
<1>2. OwnCopy
  BY IdleType DEF Init, OwnCopy
<1> QED BY <1>1, <1>2, InitType DEF SliceInv

\* The calls of a reconcile: a write supersedes the worker's own copy, and
\* puts a slice of the same selector in the place of a slice of that selector.
LEMMA ReconcileHandover ==
    ASSUME SliceInv, reconcile
    PROVE  /\ LastEventIsLive' /\ OwnCopy'
           /\ \A n \in Names : slices[n] # None /\ slices'[n] # None =>
                slices'[n].selector = slices[n].selector
<1> USE DEF SliceInv
<1>1. /\ worker \in Task /\ worker.left \in SUBSET Names /\ worker.fresh \in SUBSET Names
      /\ worker.desired \in [Names -> SliceOrNone] /\ slices \in [Names -> SliceOrNone]
  BY DEF TypeOK, Task
<1> DEFINE Goal == /\ LastEventIsLive' /\ OwnCopy'
                   /\ \A n \in Names : slices[n] # None /\ slices'[n] # None =>
                        slices'[n].selector = slices[n].selector
<1>2. ASSUME NEW n \in Names, deleteSlice(n) PROVE Goal
  <2>1. /\ worker'.key = worker.key /\ worker'.desired = worker.desired
        /\ worker'.left = worker.left \ {n} /\ worker'.fresh = worker.fresh \ {n}
    BY <1>1, <1>2 DEF deleteSlice, Task
  <2>2. CASE slices[n] = None
    <3>1. UNCHANGED <<slices, cache, events>>
      BY <1>2, <2>2 DEF deleteSlice, noWrite
    <3>2. LastEventIsLive'
      BY <3>1 DEF LastEventIsLive, cacheCurrent
    <3> QED BY <2>1, <3>1, <3>2 DEF OwnCopy
  <2>3. CASE slices[n] # None
    <3>1. writeSlice(n, None) /\ UNCHANGED cache /\ None \in SliceOrNone
      BY <1>2, <2>3 DEF deleteSlice, SliceOrNone
    <3>2. slices'[n] = None /\ \A m \in Names : m # n => slices'[m] = slices[m]
      BY <1>1, <3>1 DEF writeSlice
    <3>3. LastEventIsLive'
      BY <3>1, WriteLive
    <3> QED BY <1>1, <2>1, <3>2, <3>3 DEF OwnCopy
  <2> QED BY <2>2, <2>3
<1>3. ASSUME retry, noWrite, UNCHANGED cache PROVE Goal
  <2>1. LastEventIsLive'
    BY <1>3 DEF noWrite, LastEventIsLive, cacheCurrent
  <2>2. OwnCopy'
    BY <1>3, IdleType DEF retry, OwnCopy
  <2> QED BY <1>3, <2>1, <2>2 DEF noWrite
<1>4. ASSUME NEW n \in Names, updateSlice(n) PROVE Goal
  <2>1. CASE n \in worker.fresh
    <3>1. /\ writeSlice(n, worker.desired[n]) /\ UNCHANGED cache
          /\ n \in worker.left /\ worker.desired[n] # None /\ worker.desired[n] \in SliceOrNone
      BY <1>1, <1>4, <2>1 DEF updateSlice
    <3>2. /\ worker'.key = worker.key
          /\ \A m \in Names : m # n => worker'.desired[m] = worker.desired[m]
          /\ worker'.desired[n] = None
          /\ worker'.left = worker.left \ {n} /\ worker'.fresh = worker.fresh \ {n}
      BY <1>1, <1>4, <2>1 DEF updateSlice, Task
    <3>3. slices'[n] = worker.desired[n] /\ \A m \in Names : m # n => slices'[m] = slices[m]
      BY <1>1, <3>1 DEF writeSlice
    <3>4. slices[n].selector = worker.key /\ worker.desired[n].selector = worker.key
      BY <2>1, <3>1 DEF OwnCopy
    <3>5. LastEventIsLive'
      BY <3>1, WriteLive
    <3>6. OwnCopy'
      BY <1>1, <3>2, <3>3 DEF OwnCopy
    <3> QED BY <3>3, <3>4, <3>5, <3>6
  <2>2. CASE n \notin worker.fresh
    BY <1>3, <1>4, <2>2 DEF updateSlice
  <2> QED BY <2>1, <2>2
<1>5. ASSUME NEW n \in Names, createSlice(n) PROVE Goal
  <2>1. CASE slices[n] = None
    <3>1. /\ writeSlice(n, worker.desired[n]) /\ UNCHANGED cache
          /\ worker.left = {} /\ worker.desired[n] \in SliceOrNone
      BY <1>1, <1>5, <2>1 DEF createSlice
    <3>2. /\ worker'.key = worker.key /\ worker'.left = {}
          /\ \A m \in Names : m # n => worker'.desired[m] = worker.desired[m]
          /\ worker'.desired[n] = None
      BY <1>1, <1>5, <2>1, <3>1 DEF createSlice, Task
    <3>3. \A m \in Names : m # n => slices'[m] = slices[m]
      BY <1>1, <3>1 DEF writeSlice
    <3>4. LastEventIsLive'
      BY <3>1, WriteLive
    <3>5. OwnCopy'
      BY <3>2 DEF OwnCopy
    <3> QED BY <2>1, <3>3, <3>4, <3>5
  <2>2. CASE slices[n] # None
    BY <1>3, <1>5, <2>2 DEF createSlice
  <2> QED BY <2>1, <2>2
<1>6. ASSUME finishReconcile PROVE Goal
  <2>1. LastEventIsLive'
    BY <1>6 DEF finishReconcile, noWrite, LastEventIsLive, cacheCurrent
  <2>2. OwnCopy'
    BY <1>6, IdleType DEF finishReconcile, OwnCopy
  <2> QED BY <1>6, <2>1, <2>2 DEF finishReconcile, noWrite
<1> QED BY <1>2, <1>4, <1>5, <1>6 DEF reconcile

\* Every step keeps the invariant, and hands no slice over by an update.
LEMMA HandoverStep ==
    ASSUME SliceInv, [Next]_vars
    PROVE  /\ SliceInv'
           /\ \A n \in Names : slices[n] # None /\ slices'[n] # None =>
                slices'[n].selector = slices[n].selector
<1> DEFINE Kept == \A n \in Names : slices[n] # None /\ slices'[n] # None =>
                      slices'[n].selector = slices[n].selector
<1>1. TypeOK /\ Busy /\ PodsBounded /\ LastEventIsLive /\ OwnCopy
  BY DEF SliceInv
<1>2. TypeOK' /\ Busy' /\ PodsBounded'
  BY <1>1, TypeStep
<1>3. ASSUME UNCHANGED <<slices, cache, events, worker>>
      PROVE  LastEventIsLive' /\ OwnCopy' /\ Kept
  BY <1>1, <1>3, IdleStep
<1>4. ASSUME NEW s \in Selectors, startReconcile(s)
      PROVE  LastEventIsLive' /\ OwnCopy' /\ Kept
  <2>1. UNCHANGED <<slices, cache, events>>
    BY <1>4 DEF startReconcile, noWrite
  <2>2. LastEventIsLive'
    BY <1>1, <2>1 DEF LastEventIsLive, cacheCurrent
  <2> QED BY <1>1, <1>4, <2>1, <2>2, StartOwn
<1>5. ASSUME reconcile PROVE LastEventIsLive' /\ OwnCopy' /\ Kept
  BY <1>5, ReconcileHandover
<1>6. ASSUME apiCallFails PROVE LastEventIsLive' /\ OwnCopy' /\ Kept
  <2>1. UNCHANGED <<slices, cache, events>> /\ worker' = Idle
    BY <1>6 DEF apiCallFails, noWrite, retry
  <2>2. LastEventIsLive'
    BY <1>1, <2>1 DEF LastEventIsLive, cacheCurrent
  <2>3. OwnCopy'
    BY <2>1, IdleType DEF OwnCopy
  <2> QED BY <2>1, <2>2, <2>3
<1>7. ASSUME deliverSlice PROVE LastEventIsLive' /\ OwnCopy' /\ Kept
  <2>1. UNCHANGED <<slices, worker>>
    BY <1>7 DEF deliverSlice
  <2> QED BY <1>1, <1>7, <2>1, DeliverLive DEF OwnCopy
<1>8. ASSUME relist PROVE LastEventIsLive' /\ OwnCopy' /\ Kept
  <2>1. cache' = slices /\ events' = <<>> /\ UNCHANGED <<slices, worker>>
    BY <1>8 DEF relist
  <2> QED BY <1>1, <2>1, ListLive DEF OwnCopy
<1>9. ASSUME restart PROVE LastEventIsLive' /\ OwnCopy' /\ Kept
  <2>1. cache' = slices /\ events' = <<>> /\ slices' = slices /\ worker' = Idle
    BY <1>9 DEF restart
  <2> QED BY <2>1, ListLive, IdleType DEF OwnCopy
<1>10. ASSUME NEW n \in Names, collectGarbage(n) PROVE LastEventIsLive' /\ OwnCopy' /\ Kept
  <2>1. writeSlice(n, None) /\ UNCHANGED cache /\ None \in SliceOrNone
    BY <1>10 DEF collectGarbage, SliceOrNone
  <2>2. slices'[n] = None /\ \A m \in Names : m # n => slices'[m] = slices[m]
    BY <1>1, <2>1 DEF writeSlice, TypeOK
  <2>3. worker \in Task /\ worker.left \in SUBSET Names
    BY <1>1 DEF TypeOK, Task
  <2>4. /\ worker'.key = worker.key /\ worker'.desired = worker.desired
        /\ worker'.left = worker.left /\ worker'.fresh = worker.fresh \ {n}
    BY <1>10, <2>3 DEF collectGarbage, Task
  <2>5. LastEventIsLive'
    BY <1>1, <2>1, WriteLive
  <2>6. OwnCopy'
    BY <1>1, <2>2, <2>3, <2>4 DEF OwnCopy
  <2> QED BY <2>2, <2>5, <2>6
<1>11. ASSUME \/ resync \/ Environment \/ \E g \in Gateways : deliverGateway(g)
              \/ \E s \in Selectors : deliverGatewayStatus(s)
       PROVE  UNCHANGED <<slices, cache, events, worker>>
  BY <1>11 DEF resync, Environment, deliverGateway, deliverGatewayStatus, changeClaim, changePods, deleteGateway,
               createGateway
<1>12. ASSUME UNCHANGED vars PROVE UNCHANGED <<slices, cache, events, worker>>
  BY <1>12 DEF vars
<1>13. LastEventIsLive' /\ OwnCopy' /\ Kept
  <2> HIDE DEF Kept
  <2> QED BY <1>3, <1>4, <1>5, <1>6, <1>7, <1>8, <1>9, <1>10, <1>11, <1>12 DEF Next
<1> QED BY <1>2, <1>13 DEF SliceInv

\* The loop of reconcileEndpointSelector takes no slice from another selector:
\* what it updates is a copy that is still live and carries its own label, and
\* what it creates was not there.  For every set of selectors and bindings,
\* with colliding slice names, lost watches and the garbage collector.
THEOREM SlicesPassByDeletion == Spec => HandoverByDeletion
<1>1. Init => SliceInv
  BY InitInv
<1>2. SliceInv /\ [Next]_vars => SliceInv'
  BY HandoverStep
<1>3. SliceInv /\ [Next]_vars =>
        [\A n \in Names : slices[n] # None /\ slices'[n] # None =>
           slices'[n].selector = slices[n].selector]_vars
  BY HandoverStep
<1> QED BY <1>1, <1>2, <1>3, PTL DEF Spec, HandoverByDeletion

-----------------------------------------------------------------------------
(* Settling.  When no two bindings share a slice name and every selector is  *)
(* told of its listeners, every slice becomes what its binding asks for.     *)

NamesDistinct == \A b, c \in Bindings : SliceName[b] = SliceName[c] => b = c

\* The slice a binding deserves, as the caches say.
wantedSlice(b) ==
    IF claim[b] # None /\ uidCache[b[1]] # 0 THEN desiredEndpointSlice(claim[b], b) ELSE None

\* The selectors that are enqueued, or that no event has told yet.
due == queue \cup untold

ofSelector(o, s) == o # None /\ o.selector = s

\* A slice of s is in the cache or among the events to come: the event that
\* takes it out of there will enqueue s.
Remembered(n, s) ==
    \/ ofSelector(cache[n], s)
    \/ \E i \in 1..Len(events) : events[i].name = n /\ ofSelector(events[i].obj, s)

\* Between two states of a slice that the informer sees one after the other,
\* the selector changes only by way of a deletion.
SeenHandover ==
    \A n \in Names : \A j \in 1..Len(events) :
      events[j].name = n /\ events[j].obj # None =>
        /\ (\A i \in 1..(j-1) : events[i].name # n) /\ cache[n] # None
             => cache[n].selector = events[j].obj.selector
        /\ \A i \in 1..(j-1) :
             /\ events[i].name = n /\ events[i].obj # None
             /\ \A k \in (i+1)..(j-1) : events[k].name # n
             => events[i].obj.selector = events[j].obj.selector

\* What the worker is about to write is still wanted, or its key is due again.
WorkerCurrent(b) ==
    worker.desired[SliceName[b]] # None =>
      worker.desired[SliceName[b]] = wantedSlice(b) \/ worker.key \in due

\* The selector of a slice that should be gone, or be different, will see to it.
LiveSeen(b) ==
    LET n == SliceName[b]
    IN  slices[n] # None /\ slices[n] # wantedSlice(b) =>
          \/ slices[n].selector \in due
          \/ worker.key = slices[n].selector /\ (n \in worker.left \/ worker.desired[n] # None)
          \/ ~cacheCurrent(n)

\* The selector of a slice that is missing will create it.
MissingSeen(b) ==
    LET n == SliceName[b]
    IN  wantedSlice(b) # None /\ ~ofSelector(slices[n], claim[b]) =>
          \/ claim[b] \in due
          \/ worker.key = claim[b] /\ worker.desired[n] # None
          \/ Remembered(n, claim[b])

\* A relist may skip the event that somebody waits for.
AllSeen ==
    relists = MaxRelists => \A b \in Bindings : WorkerCurrent(b) /\ LiveSeen(b) /\ MissingSeen(b)

SettleInv == NamesDistinct /\ SliceInv /\ SeenHandover /\ AllSeen

LEMMA BindingName ==
    ASSUME NEW b \in Bindings
    PROVE  SliceName[b] \in Names /\ b[1] \in Gateways
BY DEF Names, Gateways

\* Without collisions desiredMap has the slice of each binding.
LEMMA DesiredIsWanted ==
    ASSUME NamesDistinct, TypeOK, NEW s \in Selectors, NEW b \in Bindings
    PROVE  desiredMap(s)[SliceName[b]] = IF claim[b] = s THEN wantedSlice(b) ELSE None
<1> DEFINE n == SliceName[b]
           named == {c \in bindingsOf(s) : endpointSliceName(c) = n}
           last(S) == CHOOSE c \in S : \A d \in S : Rank[d] <= Rank[c]
<1>1. n \in Names
  BY BindingName
<1>2. desiredMap(s)[n] = IF named = {} THEN None ELSE desiredEndpointSlice(s, last(named))
  BY <1>1 DEF desiredMap
<1>3. named = IF claim[b] = s /\ uidCache[b[1]] # 0 THEN {b} ELSE {}
  BY DEF bindingsOf, endpointSliceName, NamesDistinct
<1>4. Rank[b] <= Rank[b]
  BY BindingAssumption
<1>5. last({b}) = b
  BY <1>4
<1> HIDE DEF last, named
<1>6. s # None
  BY NoneAssumption
<1> QED BY <1>2, <1>3, <1>5, <1>6 DEF wantedSlice

LEMMA WantedFacts ==
    ASSUME TypeOK, NEW b \in Bindings
    PROVE  /\ wantedSlice(b) # None => /\ claim[b] # None /\ claim[b] \in Selectors
                                       /\ wantedSlice(b).selector = claim[b]
                                       /\ wantedSlice(b).binding = b
           /\ claim[b] # None /\ uidCache[b[1]] # 0 => wantedSlice(b) # None
<1>1. claim[b] \in Selectors \cup {None}
  BY DEF TypeOK
<1>2. claim[b] # None /\ uidCache[b[1]] # 0 => desiredEndpointSlice(claim[b], b) \in Slice
  BY <1>1, BindingName DEF TypeOK, desiredEndpointSlice, buildEndpointSliceEndpoints, Slice
<1> QED BY <1>1, <1>2, NoSliceAssumption DEF wantedSlice, desiredEndpointSlice

\* The live slice is the last thing the informer will see of it.
LEMMA LiveRemembered ==
    ASSUME TypeOK, LastEventIsLive, NEW n \in Names, NEW s, ofSelector(slices[n], s)
    PROVE  Remembered(n, s)
<1>1. CASE cacheCurrent(n)
  BY <1>1 DEF LastEventIsLive, Remembered
<1>2. CASE ~cacheCurrent(n)
  <2> DEFINE T == {Len(events) - i : i \in {j \in 1..Len(events) : events[j].name = n}}
  <2>1. Len(events) \in Nat
    BY LenProperties DEF TypeOK
  <2>2. T \subseteq Nat /\ T # {}
    BY <1>2, <2>1 DEF cacheCurrent
  <2> HIDE DEF T
  <2>3. PICK x \in T : \A y \in T : ~(<<y, x>> \in OpToRel(<, Nat))
    BY <2>2, WFMin, NatLessThanWellFounded
  <2>4. \A y \in T : ~(y < x)
    BY <2>2, <2>3 DEF OpToRel
  <2>5. PICK i \in 1..Len(events) : events[i].name = n /\ x = Len(events) - i
    BY DEF T
  <2>6. \A j \in (i+1)..Len(events) : events[j].name # n
    <3> SUFFICES ASSUME NEW j \in (i+1)..Len(events), events[j].name = n
                 PROVE  FALSE
      OBVIOUS
    <3>1. Len(events) - j \in T
      BY <2>1 DEF T
    <3> QED BY <2>1, <2>4, <2>5, <3>1
  <2>7. events[i].obj = slices[n]
    BY <2>5, <2>6 DEF LastEventIsLive
  <2> QED BY <2>5, <2>7 DEF Remembered
<1> QED BY <1>1, <1>2

\* A write that does not hand the slice over.
LEMMA WriteSeen ==
    ASSUME TypeOK, LastEventIsLive, SeenHandover, UNCHANGED cache,
           NEW n \in Names, NEW o \in SliceOrNone, writeSlice(n, o),
           slices[n] # None /\ o # None => o.selector = slices[n].selector
    PROVE  /\ SeenHandover'
           /\ \A m \in Names : m # n => slices'[m] = slices[m]
           /\ slices'[n] = o /\ ~cacheCurrent(n)'
           /\ \A m \in Names : m # n => (cacheCurrent(m)' <=> cacheCurrent(m))
           /\ \A m \in Names : \A s : Remembered(m, s) => Remembered(m, s)'
<1> DEFINE k == Len(events)
<1>1. /\ k \in Nat /\ Len(events') = k + 1
      /\ \A i \in 1..k : events'[i] = events[i]
      /\ events'[k + 1] = [name |-> n, obj |-> o]
  <2>1. events' = Append(events, [name |-> n, obj |-> o])
    BY DEF writeSlice
  <2> QED BY <2>1, AppendProperties, LenProperties DEF TypeOK
<1>2. slices'[n] = o /\ \A m \in Names : m # n => slices'[m] = slices[m]
  BY DEF writeSlice, TypeOK
<1>3. /\ ~cacheCurrent(n)'
      /\ \A m \in Names : m # n => (cacheCurrent(m)' <=> cacheCurrent(m))
  BY <1>1 DEF cacheCurrent
<1>4. \A m \in Names : \A s : Remembered(m, s) => Remembered(m, s)'
  BY <1>1 DEF Remembered, ofSelector
<1>5. ASSUME NEW m \in Names, NEW j \in 1..Len(events'),
             events'[j].name = m, events'[j].obj # None
      PROVE  /\ (\A i \in 1..(j-1) : events'[i].name # m) /\ cache'[m] # None
                  => cache'[m].selector = events'[j].obj.selector
             /\ \A i \in 1..(j-1) :
                  /\ events'[i].name = m /\ events'[i].obj # None
                  /\ \A l \in (i+1)..(j-1) : events'[l].name # m
                  => events'[i].obj.selector = events'[j].obj.selector
  <2>1. CASE j # k + 1
    <3>1. j \in 1..k /\ events'[j] = events[j]
      BY <1>1, <2>1
    <3>2. \A i \in 1..(j-1) : events'[i] = events[i]
      BY <1>1, <3>1
    <3>3. \A i \in 1..(j-1) : \A l \in (i+1)..(j-1) : events'[l] = events[l]
      BY <1>1, <3>1
    <3>4. /\ (\A i \in 1..(j-1) : events[i].name # m) /\ cache[m] # None
               => cache[m].selector = events[j].obj.selector
          /\ \A i \in 1..(j-1) :
               /\ events[i].name = m /\ events[i].obj # None
               /\ \A l \in (i+1)..(j-1) : events[l].name # m
               => events[i].obj.selector = events[j].obj.selector
      BY <1>5, <3>1 DEF SeenHandover
    <3>5. ASSUME NEW i \in 1..(j-1), events'[i].name = m, events'[i].obj # None,
                 \A l \in (i+1)..(j-1) : events'[l].name # m
          PROVE  events'[i].obj.selector = events'[j].obj.selector
      <4>1. \A l \in (i+1)..(j-1) : events[l].name # m
        BY <3>3, <3>5
      <4> QED BY <3>1, <3>2, <3>4, <3>5, <4>1
    <3> QED BY <3>1, <3>2, <3>4, <3>5
  <2>2. CASE j = k + 1
    <3>1. m = n /\ events'[j].obj = o /\ o # None
      BY <1>1, <1>5, <2>2
    <3>2. ASSUME \A i \in 1..(j-1) : events'[i].name # m, cache'[m] # None
          PROVE  cache'[m].selector = events'[j].obj.selector
      <4>1. cacheCurrent(m)
        BY <1>1, <2>2, <3>2 DEF cacheCurrent
      <4>2. cache[m] = slices[m]
        BY <4>1 DEF LastEventIsLive
      <4> QED BY <3>1, <3>2, <4>2
    <3>3. ASSUME NEW i \in 1..(j-1), events'[i].name = m, events'[i].obj # None,
                 \A l \in (i+1)..(j-1) : events'[l].name # m
          PROVE  events'[i].obj.selector = events'[j].obj.selector
      <4>1. i \in 1..k /\ events'[i] = events[i]
        BY <1>1, <2>2
      <4>2. \A l \in (i+1)..k : events[l].name # m
        BY <1>1, <2>2, <3>3, <4>1
      <4>3. events[i].obj = slices[m]
        BY <3>3, <4>1, <4>2 DEF LastEventIsLive
      <4> QED BY <3>1, <3>3, <4>1, <4>3
    <3> QED BY <3>2, <3>3
  <2> QED BY <2>1, <2>2
<1>6. SeenHandover'
  BY <1>5 DEF SeenHandover
<1> QED BY <1>2, <1>3, <1>4, <1>6

\* An event moves into the cache, and the handler enqueues whoever is forgotten.
LEMMA DeliverSeen ==
    ASSUME TypeOK, LastEventIsLive, SeenHandover, deliverSlice
    PROVE  /\ SeenHandover'
           /\ \A m \in Names : \A s : Remembered(m, s) => Remembered(m, s)' \/ s \in queue'
           /\ \A m \in Names : ~cacheCurrent(m) =>
                ~cacheCurrent(m)' \/ \A s : ofSelector(slices[m], s) => s \in queue'
<1> DEFINE k == Len(events)
           n == events[1].name
           o == events[1].obj
<1>0. events \in Seq([name : Names, obj : SliceOrNone]) /\ events # <<>> /\ events' = Tail(events)
  BY DEF deliverSlice, TypeOK
<1>1. /\ k \in Nat /\ k > 0 /\ Head(events) = events[1] /\ Len(events') = k - 1
      /\ \A i \in 1..Len(events') : events'[i] = events[i + 1]
  BY <1>0, HeadTailProperties, LenProperties, EmptySeq
<1>2. n \in Names
  <2>1. 1 \in 1..Len(events)
    BY <1>1
  <2>2. events[1] \in [name : Names, obj : SliceOrNone]
    BY <1>0, <2>1, ElementOfSeq
  <2> QED BY <2>2
<1>3. /\ cache'[n] = o /\ \A m \in Names : m # n => cache'[m] = cache[m]
      /\ queue' = queue \cup handlerKeys(cache[n], o)
  BY <1>1, <1>2 DEF deliverSlice, TypeOK
<1>4. \A j \in 2..k : j - 1 \in 1..Len(events') /\ events'[j - 1] = events[j]
  BY <1>1
<1>5. ASSUME NEW m \in Names, NEW j \in 1..Len(events'),
             events'[j].name = m, events'[j].obj # None
      PROVE  /\ (\A i \in 1..(j-1) : events'[i].name # m) /\ cache'[m] # None
                  => cache'[m].selector = events'[j].obj.selector
             /\ \A i \in 1..(j-1) :
                  /\ events'[i].name = m /\ events'[i].obj # None
                  /\ \A l \in (i+1)..(j-1) : events'[l].name # m
                  => events'[i].obj.selector = events'[j].obj.selector
  <2>1. j + 1 \in 2..k /\ events'[j] = events[j + 1]
    BY <1>1
  <2>2. \A i \in 2..j : i - 1 \in 1..(j-1) /\ events'[i - 1] = events[i]
    BY <1>1, <1>4
  <2>3. ASSUME \A i \in 1..(j-1) : events'[i].name # m, cache'[m] # None
        PROVE  cache'[m].selector = events'[j].obj.selector
    <3>1. \A i \in 2..j : events[i].name # m
      BY <2>2, <2>3
    <3>2. CASE m = n
      <4>1. 1 \in 1..((j+1)-1) /\ j + 1 \in 1..Len(events)
        BY <1>1
      <4>2. \A l \in (1+1)..((j+1)-1) : events[l].name # m
        BY <3>1
      <4> QED BY <1>3, <1>5, <2>1, <2>3, <3>2, <4>1, <4>2 DEF SeenHandover
    <3>3. CASE m # n
      <4>1. \A i \in 1..((j+1)-1) : events[i].name # m
        BY <3>1, <3>3
      <4>2. j + 1 \in 1..Len(events)
        BY <1>1
      <4> QED BY <1>3, <1>5, <2>1, <2>3, <3>3, <4>1, <4>2 DEF SeenHandover
    <3> QED BY <3>2, <3>3
  <2>4. ASSUME NEW i \in 1..(j-1), events'[i].name = m, events'[i].obj # None,
               \A l \in (i+1)..(j-1) : events'[l].name # m
        PROVE  events'[i].obj.selector = events'[j].obj.selector
    <3>1. /\ i + 1 \in 1..((j+1)-1) /\ events'[i] = events[i + 1]
          /\ j + 1 \in 1..Len(events)
      BY <1>1
    <3>2. \A l \in ((i+1)+1)..((j+1)-1) : l - 1 \in (i+1)..(j-1) /\ events'[l - 1] = events[l]
      BY <1>1, <1>4
    <3>3. \A l \in ((i+1)+1)..((j+1)-1) : events[l].name # m
      BY <2>4, <3>2
    <3>4. \A h \in 1..((j+1)-1) :
            /\ events[h].name = m /\ events[h].obj # None
            /\ \A l \in (h+1)..((j+1)-1) : events[l].name # m
            => events[h].obj.selector = events[j + 1].obj.selector
      BY <1>5, <2>1, <3>1 DEF SeenHandover
    <3> QED BY <2>1, <2>4, <3>1, <3>3, <3>4
  <2> QED BY <2>3, <2>4
<1>6. SeenHandover'
  BY <1>5 DEF SeenHandover
<1>7. ASSUME NEW m \in Names, NEW s, Remembered(m, s)
      PROVE  Remembered(m, s)' \/ s \in queue'
  <2>1. ASSUME NEW i \in 2..k, events[i].name = m, ofSelector(events[i].obj, s)
        PROVE  Remembered(m, s)'
    <3>1. (\E j \in 1..Len(events) : events[j].name = m /\ ofSelector(events[j].obj, s))'
      BY <1>4, <2>1 DEF ofSelector
    <3> QED BY <3>1 DEF Remembered
  <2>2. ASSUME n = m, ofSelector(o, s)
        PROVE  Remembered(m, s)'
    BY <1>3, <2>2 DEF Remembered, ofSelector
  <2>3. ASSUME ofSelector(cache[m], s)
        PROVE  Remembered(m, s)' \/ s \in queue'
    <3>1. CASE m # n
      BY <1>3, <2>3, <3>1 DEF Remembered, ofSelector
    <3>2. CASE m = n /\ o = None
      BY <1>3, <2>3, <3>2 DEF handlerKeys, selectorKey, ofSelector
    <3>3. CASE m = n /\ o # None
      <4>1. 1 \in 1..Len(events) /\ \A i \in 1..(1-1) : events[i].name # n
        BY <1>1
      <4>2. o.selector = cache[n].selector
        BY <1>2, <2>3, <3>3, <4>1 DEF SeenHandover, ofSelector
      <4> QED BY <2>2, <2>3, <3>3, <4>2 DEF ofSelector
    <3> QED BY <3>1, <3>2, <3>3
  <2>4. CASE \E i \in 1..Len(events) : events[i].name = m /\ ofSelector(events[i].obj, s)
    <3>1. PICK i \in 1..k : events[i].name = m /\ ofSelector(events[i].obj, s)
      BY <2>4
    <3>2. i = 1 \/ i \in 2..k
      BY <1>1
    <3> QED BY <2>1, <2>2, <3>1, <3>2
  <2> QED BY <1>7, <2>3, <2>4 DEF Remembered
<1>8. ASSUME NEW m \in Names, ~cacheCurrent(m), cacheCurrent(m)',
             NEW s, ofSelector(slices[m], s)
      PROVE  s \in queue'
  <2>1. \A j \in 2..k : events[j].name # m
    BY <1>4, <1>8 DEF cacheCurrent
  <2>2. m = n
    BY <1>1, <1>8, <2>1 DEF cacheCurrent
  <2>3. o = slices[m]
    BY <1>1, <2>1, <2>2 DEF LastEventIsLive
  <2> QED BY <1>3, <1>8, <2>3 DEF handlerKeys, selectorKey, ofSelector
<1> QED BY <1>6, <1>7, <1>8

\* A step that changes what is wanted makes the selectors it concerns due.
LEMMA InputSeen ==
    ASSUME SettleInv, TypeOK', UNCHANGED <<slices, cache, events, worker, relists>>,
           due \subseteq due',
           \A b \in Bindings :
             \/ (wantedSlice(b))' = wantedSlice(b) /\ claim'[b] = claim[b]
             \/ {claim[b], claim'[b]} \ {None} \subseteq due'
    PROVE  SeenHandover' /\ AllSeen'
<1>1. SeenHandover'
  BY DEF SettleInv, SeenHandover
<1>2. \A n, t : Remembered(n, t)' <=> Remembered(n, t)
  BY DEF Remembered
<1>3. \A n : cacheCurrent(n)' <=> cacheCurrent(n)
  BY DEF cacheCurrent
<1> SUFFICES ASSUME relists = MaxRelists, NEW b \in Bindings
             PROVE  WorkerCurrent(b)' /\ LiveSeen(b)' /\ MissingSeen(b)'
  BY <1>1 DEF AllSeen
<1> DEFINE n == SliceName[b]
<1>4. WorkerCurrent(b) /\ LiveSeen(b) /\ MissingSeen(b) /\ TypeOK /\ OwnCopy /\ n \in Names
  BY BindingName DEF SettleInv, AllSeen, SliceInv
<1>5. /\ wantedSlice(b) # None => claim[b] # None /\ wantedSlice(b).selector = claim[b]
      /\ (wantedSlice(b))' # None => claim'[b] # None
  <2>1. wantedSlice(b) # None => claim[b] # None /\ wantedSlice(b).selector = claim[b]
    BY <1>4, WantedFacts
  <2> QED BY <2>1 DEF wantedSlice
<1>6. CASE (wantedSlice(b))' = wantedSlice(b) /\ claim'[b] = claim[b]
  BY <1>2, <1>3, <1>4, <1>6 DEF WorkerCurrent, LiveSeen, MissingSeen
<1>7. CASE {claim[b], claim'[b]} \ {None} \subseteq due'
  <2>1. WorkerCurrent(b)'
    <3> SUFFICES ASSUME worker.desired[n] # None, worker.key \notin due
                 PROVE  worker.key \in due'
      BY DEF WorkerCurrent
    <3>1. worker.desired[n] = wantedSlice(b) /\ worker.desired[n].selector = worker.key
      BY <1>4 DEF WorkerCurrent, OwnCopy
    <3> QED BY <1>5, <1>7, <3>1
  <2>2. LiveSeen(b)'
    <3> SUFFICES ASSUME slices[n] # None, slices[n] = wantedSlice(b)
                 PROVE  slices[n].selector \in due'
      BY <1>3, <1>4 DEF LiveSeen
    <3> QED BY <1>5, <1>7
  <2>3. MissingSeen(b)'
    BY <1>5, <1>7 DEF MissingSeen
  <2> QED BY <2>1, <2>2, <2>3
<1> QED BY <1>6, <1>7

\* A call of the worker, or the garbage collector, writes slice m.
LEMMA WriteStepSeen ==
    ASSUME SettleInv, TypeOK', UNCHANGED <<claim, pods, uidCache, cache, due, relists>>,
           NEW m \in Names, NEW o \in SliceOrNone, writeSlice(m, o),
           slices[m] # None /\ o # None => o.selector = slices[m].selector,
           worker'.key = worker.key,
           \A n \in Names : n # m => worker'.desired[n] = worker.desired[n]
                                     /\ (n \in worker'.left <=> n \in worker.left),
           \/ o = None /\ worker'.desired[m] = worker.desired[m]
           \/ o # None /\ o = worker.desired[m] /\ worker'.desired[m] = None
    PROVE  SeenHandover' /\ AllSeen'
<1>0. TypeOK /\ LastEventIsLive /\ SeenHandover /\ OwnCopy
  BY DEF SettleInv, SliceInv
<1>1. /\ SeenHandover'
      /\ \A n \in Names : n # m => slices'[n] = slices[n]
      /\ slices'[m] = o /\ ~cacheCurrent(m)'
      /\ \A n \in Names : n # m => (cacheCurrent(n)' <=> cacheCurrent(n))
      /\ \A n \in Names : \A s : Remembered(n, s) => Remembered(n, s)'
  BY <1>0, WriteSeen
<1> SUFFICES ASSUME relists = MaxRelists, NEW b \in Bindings
             PROVE  WorkerCurrent(b)' /\ LiveSeen(b)' /\ MissingSeen(b)'
  BY <1>1 DEF AllSeen
<1> DEFINE n == SliceName[b]
<1>2. WorkerCurrent(b) /\ LiveSeen(b) /\ MissingSeen(b) /\ n \in Names
  BY BindingName DEF SettleInv, AllSeen
<1>3. (wantedSlice(b))' = wantedSlice(b)
  BY DEF wantedSlice, desiredEndpointSlice, buildEndpointSliceEndpoints
<1>4. WorkerCurrent(b)'
  BY <1>2, <1>3 DEF WorkerCurrent
<1>5. CASE n # m
  BY <1>1, <1>2, <1>3, <1>4, <1>5 DEF LiveSeen, MissingSeen, ofSelector
<1>6. CASE n = m
  <2>1. LiveSeen(b)'
    BY <1>1, <1>6 DEF LiveSeen
  <2>2. MissingSeen(b)'
    <3> SUFFICES ASSUME wantedSlice(b) # None, ~ofSelector(o, claim[b]),
                        claim[b] \notin due, ~Remembered(n, claim[b])'
                 PROVE  worker'.key = claim[b] /\ worker'.desired[n] # None
      BY <1>1, <1>3, <1>6 DEF MissingSeen, ofSelector
    <3>1. ~ofSelector(slices[n], claim[b])
      BY <1>0, <1>1, <1>2, LiveRemembered
    <3>2. worker.key = claim[b] /\ worker.desired[n] # None
      BY <1>1, <1>2, <3>1 DEF MissingSeen
    <3>3. worker.desired[n].selector = claim[b]
      BY <1>0, <1>2, <3>2 DEF OwnCopy
    <3>4. o = None
      BY <1>6, <3>3 DEF ofSelector
    <3> QED BY <1>6, <3>2, <3>4
  <2> QED BY <1>4, <2>1, <2>2
<1> QED BY <1>5, <1>6

\* A step of the worker that writes nothing: it ends, giving the key back unless
\* nothing was left to do.
LEMMA EndSeen ==
    ASSUME SettleInv, UNCHANGED <<claim, pods, uidCache, slices, cache, events, relists>>,
           worker' = Idle, due \subseteq due',
           \/ worker.key \in due'
           \/ worker.left = {} /\ \A n \in Names : worker.desired[n] = None
    PROVE  SeenHandover' /\ AllSeen'
<1>1. SeenHandover'
  BY DEF SettleInv, SeenHandover
<1>2. \A n, t : Remembered(n, t)' <=> Remembered(n, t)
  BY DEF Remembered
<1>3. \A n : cacheCurrent(n)' <=> cacheCurrent(n)
  BY DEF cacheCurrent
<1> SUFFICES ASSUME relists = MaxRelists, NEW b \in Bindings
             PROVE  WorkerCurrent(b)' /\ LiveSeen(b)' /\ MissingSeen(b)'
  BY <1>1 DEF AllSeen
<1> DEFINE n == SliceName[b]
<1>4. LiveSeen(b) /\ MissingSeen(b) /\ n \in Names
  BY BindingName DEF SettleInv, AllSeen
<1>5. (wantedSlice(b))' = wantedSlice(b)
  BY DEF wantedSlice, desiredEndpointSlice, buildEndpointSliceEndpoints
<1>6. WorkerCurrent(b)'
  BY <1>4, IdleType DEF WorkerCurrent
<1>7. LiveSeen(b)'
  BY <1>3, <1>4, <1>5 DEF LiveSeen
<1>8. MissingSeen(b)'
  BY <1>2, <1>4, <1>5 DEF MissingSeen
<1> QED BY <1>6, <1>7, <1>8

LEMMA StartSeen ==
    ASSUME SettleInv, NEW s \in Selectors, startReconcile(s)
    PROVE  SeenHandover' /\ AllSeen'
<1> DEFINE managed == listManagedEndpointSlices(s)
           equal == {n \in managed : endpointSliceEqual(cache[n], desiredMap(s)[n])}
<1>1. /\ worker'.key = s /\ worker'.left = managed \ equal
      /\ worker'.desired = [n \in Names |-> IF n \in equal THEN None ELSE desiredMap(s)[n]]
      /\ due' = due \ {s} /\ worker.key = None
      /\ UNCHANGED <<claim, pods, uidCache, slices, cache, events, relists>>
  BY DEF startReconcile, due, noWrite, inputs, boundVars
<1>2. SeenHandover'
  BY <1>1 DEF SettleInv, SeenHandover
<1>3. \A n, t : Remembered(n, t)' <=> Remembered(n, t)
  BY <1>1 DEF Remembered
<1>4. \A n : cacheCurrent(n)' <=> cacheCurrent(n)
  BY <1>1 DEF cacheCurrent
<1> SUFFICES ASSUME relists = MaxRelists, NEW b \in Bindings
             PROVE  WorkerCurrent(b)' /\ LiveSeen(b)' /\ MissingSeen(b)'
  BY <1>1, <1>2 DEF AllSeen
<1> DEFINE n == SliceName[b]
<1>5. /\ LiveSeen(b) /\ MissingSeen(b) /\ n \in Names /\ NamesDistinct
      /\ TypeOK /\ Busy /\ LastEventIsLive
  BY BindingName DEF SettleInv, AllSeen, SliceInv
<1>6. (wantedSlice(b))' = wantedSlice(b)
  BY <1>1 DEF wantedSlice, desiredEndpointSlice, buildEndpointSliceEndpoints
<1>7. desiredMap(s)[n] = IF claim[b] = s THEN wantedSlice(b) ELSE None
  BY <1>5, DesiredIsWanted
<1>8. worker'.desired[n] = IF n \in equal THEN None ELSE desiredMap(s)[n]
  <2> HIDE DEF equal
  <2> QED BY <1>1, <1>5
<1>9. WorkerCurrent(b)'
  <2> HIDE DEF equal
  <2> QED BY <1>6, <1>7, <1>8 DEF WorkerCurrent
<1>10. worker.desired[n] = None /\ worker.left = {}
  BY <1>1, <1>5 DEF Busy
<1>11. LiveSeen(b)'
  <2> SUFFICES ASSUME slices[n] # None, slices[n] # wantedSlice(b), cacheCurrent(n),
                      slices[n].selector = s
               PROVE  n \in worker'.left
    BY <1>1, <1>4, <1>5, <1>6, <1>10 DEF LiveSeen
  <2>1. cache[n] = slices[n]
    BY <1>5 DEF LastEventIsLive
  <2>2. n \in managed
    BY <1>5, <2>1 DEF listManagedEndpointSlices, selectorKey
  <2>3. n \notin equal
    BY <1>7, <2>1 DEF endpointSliceEqual
  <2> HIDE DEF managed, equal
  <2> QED BY <1>1, <2>2, <2>3
<1>12. MissingSeen(b)'
  <2> SUFFICES ASSUME wantedSlice(b) # None, claim[b] = s, ~Remembered(n, s)
               PROVE  worker'.desired[n] # None
    BY <1>1, <1>3, <1>5, <1>6, <1>10 DEF MissingSeen, ofSelector
  <2>1. n \notin equal
    BY <1>7 DEF endpointSliceEqual, listManagedEndpointSlices, selectorKey, Remembered, ofSelector
  <2> HIDE DEF equal
  <2> QED BY <1>7, <1>8, <2>1
<1> QED BY <1>9, <1>11, <1>12

\* The calls of a reconcile.
LEMMA ReconcileSeen ==
    ASSUME SettleInv, TypeOK', reconcile
    PROVE  SeenHandover' /\ AllSeen'
<1>0. TypeOK /\ OwnCopy
  BY DEF SettleInv, SliceInv
<1>1. /\ worker \in Task /\ worker.left \in SUBSET Names /\ worker.fresh \in SUBSET Names
      /\ worker.desired \in [Names -> SliceOrNone] /\ slices \in [Names -> SliceOrNone]
      /\ None \in SliceOrNone
  BY <1>0 DEF TypeOK, Task, SliceOrNone
<1>2. UNCHANGED <<claim, pods, uidCache, cache, relists>>
  BY DEF reconcile, deleteSlice, updateSlice, createSlice, finishReconcile, inputs, boundVars
<1>3. ASSUME NEW m \in Names, deleteSlice(m) PROVE SeenHandover' /\ AllSeen'
  <2>1. /\ worker'.key = worker.key /\ worker'.desired = worker.desired
        /\ worker'.left = worker.left \ {m} /\ due' = due
    BY <1>1, <1>3 DEF deleteSlice, due, Task
  <2>2. CASE slices[m] # None
    <3>1. writeSlice(m, None)
      BY <1>3, <2>2 DEF deleteSlice
    <3> QED BY <1>1, <1>2, <2>1, <3>1, WriteStepSeen
  <2>3. CASE slices[m] = None
    <3>1. UNCHANGED <<slices, events>>
      BY <1>3, <2>3 DEF deleteSlice, noWrite
    <3>2. SeenHandover'
      BY <1>2, <3>1 DEF SettleInv, SeenHandover
    <3>3. \A n, t : Remembered(n, t)' <=> Remembered(n, t)
      BY <1>2, <3>1 DEF Remembered
    <3>4. \A n : cacheCurrent(n)' <=> cacheCurrent(n)
      BY <3>1 DEF cacheCurrent
    <3>5. ASSUME relists = MaxRelists, NEW b \in Bindings
          PROVE  WorkerCurrent(b)' /\ LiveSeen(b)' /\ MissingSeen(b)'
      <4>1. WorkerCurrent(b) /\ LiveSeen(b) /\ MissingSeen(b)
        BY <3>5 DEF SettleInv, AllSeen
      <4>2. (wantedSlice(b))' = wantedSlice(b)
        BY <1>2 DEF wantedSlice, desiredEndpointSlice, buildEndpointSliceEndpoints
      <4>3. WorkerCurrent(b)'
        BY <2>1, <4>1, <4>2 DEF WorkerCurrent
      <4>4. LiveSeen(b)'
        BY <2>1, <2>3, <3>1, <3>4, <4>1, <4>2 DEF LiveSeen
      <4>5. MissingSeen(b)'
        BY <1>2, <2>1, <3>1, <3>3, <4>1, <4>2 DEF MissingSeen
      <4> QED BY <4>3, <4>4, <4>5
    <3> QED BY <1>2, <3>2, <3>5 DEF AllSeen
  <2> QED BY <2>2, <2>3
<1>4. ASSUME retry, noWrite, UNCHANGED untold PROVE SeenHandover' /\ AllSeen'
  BY <1>2, <1>4, EndSeen DEF retry, noWrite, due
<1>5. ASSUME NEW m \in Names, updateSlice(m) PROVE SeenHandover' /\ AllSeen'
  <2>1. CASE m \in worker.fresh
    <3>1. /\ writeSlice(m, worker.desired[m]) /\ due' = due /\ m \in worker.left
          /\ worker.desired[m] # None /\ worker.desired[m] \in SliceOrNone
      BY <1>1, <1>5, <2>1 DEF updateSlice, due
    <3>2. /\ worker'.key = worker.key /\ worker'.left = worker.left \ {m}
          /\ \A n \in Names : n # m => worker'.desired[n] = worker.desired[n]
          /\ worker'.desired[m] = None
      BY <1>1, <1>5, <2>1 DEF updateSlice, Task
    <3>3. slices[m].selector = worker.key /\ worker.desired[m].selector = worker.key
      BY <1>0, <2>1, <3>1 DEF OwnCopy
    <3> QED BY <1>1, <1>2, <3>1, <3>2, <3>3, WriteStepSeen
  <2>2. CASE m \notin worker.fresh
    BY <1>4, <1>5, <2>2 DEF updateSlice
  <2> QED BY <2>1, <2>2
<1>6. ASSUME NEW m \in Names, createSlice(m) PROVE SeenHandover' /\ AllSeen'
  <2>1. CASE slices[m] = None
    <3>1. /\ writeSlice(m, worker.desired[m]) /\ due' = due
          /\ worker.desired[m] # None /\ worker.desired[m] \in SliceOrNone
      BY <1>1, <1>6, <2>1 DEF createSlice, due
    <3>2. /\ worker'.key = worker.key /\ worker'.left = worker.left
          /\ \A n \in Names : n # m => worker'.desired[n] = worker.desired[n]
          /\ worker'.desired[m] = None
      BY <1>1, <1>6, <2>1 DEF createSlice, Task
    <3> QED BY <1>1, <1>2, <2>1, <3>1, <3>2, WriteStepSeen
  <2>2. CASE slices[m] # None
    BY <1>4, <1>6, <2>2 DEF createSlice
  <2> QED BY <2>1, <2>2
<1>7. ASSUME finishReconcile PROVE SeenHandover' /\ AllSeen'
  BY <1>2, <1>7, EndSeen DEF finishReconcile, noWrite, due
<1> QED BY <1>3, <1>5, <1>6, <1>7 DEF reconcile

\* The slice informer, and a new process.
LEMMA InformerSeen ==
    ASSUME SettleInv, deliverSlice \/ relist \/ restart
    PROVE  SeenHandover' /\ AllSeen'
<1>0. TypeOK /\ LastEventIsLive /\ SeenHandover
  BY DEF SettleInv, SliceInv
<1>1. ASSUME deliverSlice PROVE SeenHandover' /\ AllSeen'
  <2>1. /\ UNCHANGED <<claim, pods, uidCache, slices, worker, relists>> /\ due \subseteq due'
    BY <1>1 DEF deliverSlice, due, inputs, boundVars
  <2>2. /\ SeenHandover'
        /\ \A m \in Names : \A s : Remembered(m, s) => Remembered(m, s)' \/ s \in due'
        /\ \A m \in Names : ~cacheCurrent(m) =>
             ~cacheCurrent(m)' \/ \A s : ofSelector(slices[m], s) => s \in due'
    BY <1>0, <1>1, DeliverSeen DEF due
  <2>3. ASSUME relists = MaxRelists, NEW b \in Bindings
        PROVE  WorkerCurrent(b)' /\ LiveSeen(b)' /\ MissingSeen(b)'
    <3>1. WorkerCurrent(b) /\ LiveSeen(b) /\ MissingSeen(b) /\ SliceName[b] \in Names
      BY <2>3, BindingName DEF SettleInv, AllSeen
    <3>2. (wantedSlice(b))' = wantedSlice(b)
      BY <2>1 DEF wantedSlice, desiredEndpointSlice, buildEndpointSliceEndpoints
    <3>3. WorkerCurrent(b)'
      BY <2>1, <3>1, <3>2 DEF WorkerCurrent
    <3>4. slices[SliceName[b]] # None =>
            ofSelector(slices[SliceName[b]], slices[SliceName[b]].selector)
      BY DEF ofSelector
    <3>5. LiveSeen(b)'
      BY <2>1, <2>2, <3>1, <3>2, <3>4 DEF LiveSeen
    <3>6. MissingSeen(b)'
      BY <2>1, <2>2, <3>1, <3>2 DEF MissingSeen, ofSelector
    <3> QED BY <3>3, <3>5, <3>6
  <2> QED BY <2>1, <2>2, <2>3 DEF AllSeen
<1>2. ASSUME events' = <<>> PROVE SeenHandover'
  <2>1. \A j : j \notin 1..Len(events')
    BY <1>2
  <2> QED BY <2>1 DEF SeenHandover
<1>3. ASSUME relist PROVE SeenHandover' /\ AllSeen'
  <2>1. relists' # MaxRelists
    BY <1>0, <1>3, SliceBoundAssumption DEF relist, TypeOK
  <2> QED BY <1>2, <1>3, <2>1 DEF relist, AllSeen
<1>4. ASSUME restart PROVE SeenHandover' /\ AllSeen'
  <2>1. /\ worker' = Idle /\ slices' = slices /\ claim' = claim /\ events' = <<>>
        /\ due' = enqueueAll(slices)
    BY <1>4 DEF restart, due
  <2>2. ASSUME NEW b \in Bindings
        PROVE  WorkerCurrent(b)' /\ LiveSeen(b)' /\ MissingSeen(b)'
    <3>1. SliceName[b] \in Names
      BY BindingName
    <3>2. WorkerCurrent(b)'
      BY <2>1, <3>1 DEF WorkerCurrent, Idle
    <3>3. LiveSeen(b)'
      BY <2>1, <3>1 DEF LiveSeen, enqueueAll, selectorKey
    <3>4. (wantedSlice(b))' # None => claim[b] # None
      BY <2>1 DEF wantedSlice
    <3>5. MissingSeen(b)'
      BY <2>1, <3>4 DEF MissingSeen, enqueueAll
    <3> QED BY <3>2, <3>3, <3>5
  <2> QED BY <1>2, <2>1, <2>2 DEF AllSeen
<1> QED BY <1>1, <1>3, <1>4

\* What is wanted changes.
LEMMA EnvironmentSeen ==
    ASSUME SettleInv, TypeOK',
           \/ resync \/ Environment \/ \E g \in Gateways : deliverGateway(g)
           \/ \E s \in Selectors : deliverGatewayStatus(s)
    PROVE  SeenHandover' /\ AllSeen'
<1> DEFINE Told == \A b \in Bindings :
                     \/ (wantedSlice(b))' = wantedSlice(b) /\ claim'[b] = claim[b]
                     \/ {claim[b], claim'[b]} \ {None} \subseteq due'
<1> USE DEF wantedSlice, desiredEndpointSlice, buildEndpointSliceEndpoints
<1>0. TypeOK
  BY DEF SettleInv, SliceInv
<1>1. UNCHANGED <<slices, cache, events, worker, relists>> /\ due \subseteq due'
  BY DEF resync, Environment, deliverGateway, deliverGatewayStatus, changeClaim, changePods,
         deleteGateway, createGateway, edit, due, boundVars
<1>2. ASSUME resync PROVE Told
  BY <1>2 DEF resync, inputs
<1>3. ASSUME NEW g \in Gateways, deliverGateway(g) PROVE Told
  <2> SUFFICES ASSUME NEW b \in Bindings
               PROVE  \/ (wantedSlice(b))' = wantedSlice(b) /\ claim'[b] = claim[b]
                      \/ {claim[b], claim'[b]} \ {None} \subseteq due'
    OBVIOUS
  <2>1. b[1] \in Gateways /\ claim' = claim /\ pods' = pods
    BY <1>3, BindingName DEF deliverGateway
  <2>2. CASE b[1] = g
    BY <1>3, <2>1, <2>2 DEF deliverGateway, selectorsForGateway, due
  <2>3. CASE b[1] # g
    <3>1. uidCache'[b[1]] = uidCache[b[1]]
      BY <1>0, <1>3, <2>1, <2>3 DEF deliverGateway, TypeOK
    <3> QED BY <2>1, <3>1
  <2> QED BY <2>2, <2>3
<1>4. ASSUME NEW c \in Bindings, NEW s \in Selectors \cup {None}, NEW told \in SUBSET Selectors,
             changeClaim(c, s, told)
      PROVE  Told
  <2> SUFFICES ASSUME NEW b \in Bindings
               PROVE  \/ (wantedSlice(b))' = wantedSlice(b) /\ claim'[b] = claim[b]
                      \/ {claim[b], claim'[b]} \ {None} \subseteq due'
    OBVIOUS
  <2>1. /\ claim'[b] = IF b = c THEN s ELSE claim[b]
        /\ pods' = pods /\ uidCache' = uidCache
        /\ {claim[c], s} \ {None} \subseteq due'
    BY <1>0, <1>4 DEF changeClaim, due, TypeOK
  <2> QED BY <2>1
<1>5. ASSUME NEW s \in Selectors, changePods(s) PROVE Told
  BY <1>5 DEF changePods, due
<1>6. ASSUME NEW g \in Gateways, deleteGateway(g) \/ createGateway(g) PROVE Told
  BY <1>6 DEF deleteGateway, createGateway
<1>7. ASSUME NEW s \in Selectors, deliverGatewayStatus(s) PROVE Told
  BY <1>7 DEF deliverGatewayStatus, inputs
<1>8. Told
  <2> HIDE DEF Told
  <2> QED BY <1>2, <1>3, <1>4, <1>5, <1>6, <1>7 DEF Environment
<1> QED BY <1>1, <1>8, InputSeen

LEMMA SettleStep ==
    ASSUME SettleInv, [Next]_vars
    PROVE  SettleInv'
<1>0. TypeOK /\ SliceInv /\ SeenHandover
  BY DEF SettleInv, SliceInv
<1>1. SliceInv' /\ TypeOK'
  BY <1>0, HandoverStep DEF SliceInv
<1>2. ASSUME apiCallFails PROVE SeenHandover' /\ AllSeen'
  BY <1>2, EndSeen DEF apiCallFails, retry, noWrite, due, inputs
<1>3. ASSUME NEW m \in Names, collectGarbage(m) PROVE SeenHandover' /\ AllSeen'
  <2>1. /\ writeSlice(m, None) /\ None \in SliceOrNone
        /\ UNCHANGED <<claim, pods, uidCache, cache, due, relists>>
    BY <1>3 DEF collectGarbage, due, SliceOrNone, inputs, boundVars
  <2>2. worker \in Task
    BY <1>0 DEF TypeOK
  <2>3. worker'.key = worker.key /\ worker'.desired = worker.desired /\ worker'.left = worker.left
    BY <1>3, <2>2 DEF collectGarbage, Task
  <2> QED BY <1>1, <2>1, <2>3, WriteStepSeen
<1>4. ASSUME UNCHANGED vars PROVE SeenHandover' /\ AllSeen'
  BY <1>1, <1>4, InputSeen DEF vars, due, wantedSlice, desiredEndpointSlice,
     buildEndpointSliceEndpoints
<1>5. SeenHandover' /\ AllSeen'
  BY <1>1, <1>2, <1>3, <1>4, StartSeen, ReconcileSeen, InformerSeen, EnvironmentSeen DEF Next
<1>6. NamesDistinct'
  BY DEF SettleInv, NamesDistinct
<1> QED BY <1>1, <1>5, <1>6 DEF SettleInv

LEMMA SettleInit ==
    ASSUME NamesDistinct, Init
    PROVE  SettleInv
<1>1. \A j : j \notin 1..Len(events)
  BY DEF Init
<1>2. SeenHandover
  BY <1>1 DEF SeenHandover
<1>3. ASSUME NEW b \in Bindings
      PROVE  WorkerCurrent(b) /\ LiveSeen(b) /\ MissingSeen(b)
  <2>1. SliceName[b] \in Names
    BY BindingName
  <2>2. worker.desired[SliceName[b]] = None /\ slices[SliceName[b]] = None
    BY <2>1 DEF Init, Idle
  <2>3. wantedSlice(b) # None => claim[b] \in due
    BY DEF Init, wantedSlice, due
  <2> QED BY <2>2, <2>3 DEF WorkerCurrent, LiveSeen, MissingSeen
<1> QED BY <1>2, <1>3, InitInv DEF SettleInv, AllSeen

\* A reconcile acts on stale lists, loses to conflicts and AlreadyExists, and
\* gives a slice name to another selector only through a deletion; the events
\* it leaves behind still bring every selector back that has something to do.
\* For all selectors, bindings, edits, failed calls and restarts: when nothing
\* is left to do, every selector has been told, once and in any order, of the
\* listeners it gained and lost, and no watch has been interrupted, every
\* accepted binding has its current slice and no other slice exists.  The
\* bindings must have distinct endpointSliceNames; SlicesCollision shows that
\* they need it.  Route events do not tell a sibling's selector (handlers.go
\* enqueues those of the edited route), so a selector may stay untold until the
\* resync.
THEOREM SlicesSettle == NamesDistinct /\ Spec => []QuiescentSlices
<1>1. NamesDistinct /\ Init => SettleInv
  BY SettleInit
<1>2. SettleInv /\ [Next]_vars => SettleInv'
  BY SettleStep
<1>3. SettleInv => QuiescentSlices
  <2> SUFFICES ASSUME SettleInv, Quiescent, untold = {}, relists = MaxRelists
               PROVE  Settled
    BY DEF QuiescentSlices
  <2>1. TypeOK /\ Busy /\ LastEventIsLive
    BY DEF SettleInv, SliceInv
  <2>2. \A i : i \notin 1..Len(events)
    BY DEF Quiescent
  <2>3. \A n \in Names : cacheCurrent(n) /\ cache[n] = slices[n]
    BY <2>1, <2>2 DEF cacheCurrent, LastEventIsLive
  <2>4. ASSUME NEW b \in Bindings
        PROVE  slices[SliceName[b]] = wantedSlice(b)
    <3> DEFINE n == SliceName[b]
    <3>1. n \in Names /\ LiveSeen(b) /\ MissingSeen(b)
      BY <2>4, BindingName DEF SettleInv, AllSeen
    <3>2. worker.left = {} /\ worker.desired[n] = None /\ due = {}
      BY <2>1, <3>1 DEF Busy, Quiescent, due
    <3>3. slices[n] # None => slices[n] = wantedSlice(b)
      BY <2>3, <3>1, <3>2 DEF LiveSeen
    <3>4. wantedSlice(b) # None => Remembered(n, claim[b]) \/ ofSelector(slices[n], claim[b])
      BY <3>1, <3>2 DEF MissingSeen
    <3>5. wantedSlice(b) # None => slices[n] # None
      BY <2>2, <2>3, <3>1, <3>4 DEF Remembered, ofSelector
    <3> QED BY <3>3, <3>5
  <2>5. ASSUME NEW b \in Bindings, served(b)
        PROVE  slices[SliceName[b]] = [selector |-> claim[b], binding |-> b,
                                       owner |-> uid[b[1]], content |-> pods[claim[b]]]
    BY <2>4, <2>5 DEF served, wantedSlice, desiredEndpointSlice, buildEndpointSliceEndpoints,
                      Quiescent
  <2>6. ASSUME NEW n \in Names, slices[n] # None
        PROVE  served(slices[n].binding) /\ claim[slices[n].binding] = slices[n].selector
    <3>1. PICK b \in Bindings : n = SliceName[b]
      BY DEF Names
    <3>2. slices[n] = wantedSlice(b)
      BY <2>4, <3>1
    <3>3. wantedSlice(b).selector = claim[b] /\ wantedSlice(b).binding = b
      BY <2>1, <2>6, <3>2, WantedFacts
    <3>4. served(b)
      BY <2>6, <3>2 DEF served, wantedSlice, Quiescent
    <3> QED BY <3>2, <3>3, <3>4
  <2> QED BY <2>5, <2>6 DEF Settled
<1> QED BY <1>1, <1>2, <1>3, PTL DEF Spec

\* The promise of docs/controller-design.md that SlicesCollision refutes holds at
\* rest of bindings with distinct slice names, once their selectors have been
\* told of them and as long as no watch breaks.
THEOREM OneSliceEach == NamesDistinct /\ Spec => []OneSlicePerBinding
<1>1. TypeOK /\ QuiescentSlices => OneSlicePerBinding
  <2> SUFFICES ASSUME TypeOK, QuiescentSlices, Quiescent, untold = {}, relists = MaxRelists,
                      NEW b \in Bindings, served(b)
               PROVE  \E n \in Names : slices[n] # None /\ slices[n].binding = b
    BY DEF OneSlicePerBinding
  <2> DEFINE o == [selector |-> claim[b], binding |-> b,
                   owner |-> uid[b[1]], content |-> pods[claim[b]]]
  <2>1. slices[SliceName[b]] = o /\ SliceName[b] \in Names /\ b[1] \in Gateways
    BY BindingName DEF QuiescentSlices, Settled
  <2>2. claim[b] \in Selectors
    BY DEF TypeOK, served
  <2>3. o \in Slice
    BY <2>1, <2>2 DEF TypeOK, Slice
  <2> QED BY <2>1, <2>3, NoSliceAssumption
<1> QED BY <1>1, TypeCorrect, SlicesSettle, PTL

===============================================================================
