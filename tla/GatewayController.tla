-------------------------- MODULE GatewayController --------------------------
(***************************************************************************)
(* The Gateway half of clusterip-gw-controller: the two gateway workers,   *)
(* the VIP allocator and the status writer, running against informer       *)
(* caches that lag behind the API server.                                  *)
(*                                                                         *)
(* The API server is authoritative: gw holds the Gateway objects and ip    *)
(* the IPAddress objects, each named by its address and carrying its       *)
(* owner.  Each informer is a cache plus the FIFO of watch events it has   *)
(* not seen yet (gwCache and gwEvents, ipCache and ipEvents).  A worker    *)
(* decides on what the caches say and acts on what the API server holds.   *)
(* Every API call is a step of its own, so that anything may happen        *)
(* between two calls of one reconcile.                                     *)
(***************************************************************************)
EXTENDS Naturals, Sequences, FiniteSets

CONSTANTS
    Gateways,     \* names of the Gateway objects
    Workers,      \* the goroutines that drain the gateway queue
    Pool,         \* the addresses ServiceCIDRs can offer, in allocation order
    NameRank,     \* rank of an address's IPAddress name in string order
    None,         \* no owner (the IPAddress does not exist), no key
    Service,      \* owner of an IPAddress allocated by the API server itself
    MaxEdits,     \* bound: user and cluster edits in a behaviour
    MaxFailures,  \* bound: API calls that fail for no visible reason
    MaxRestarts   \* bound: restarts of the controller process

ASSUME PoolAssumption == Pool \subseteq Nat \ {0} /\ IsFiniteSet(Pool)
ASSUME RankAssumption ==
    /\ NameRank \in [Pool -> Nat]
    /\ \A a, b \in Pool : NameRank[a] = NameRank[b] => a = b
ASSUME OwnerAssumption ==
    /\ None \notin Gateways \cup Workers
    /\ Service \notin Gateways /\ None # Service
ASSUME BoundAssumption == MaxEdits \in Nat /\ MaxFailures \in Nat /\ MaxRestarts \in Nat

VARIABLES
    gw,        \* API server: Gateway objects
    ip,        \* API server: owner of each IPAddress, None when there is no object
    gwCache, gwEvents,   \* Gateway informer
    ipCache, ipEvents,   \* IPAddress informer
    routed,    \* what the other caches say of a Gateway: some listener is usable
    ready,     \* addresses of the ready IPv4 ServiceCIDRs, as cached
    queue,     \* gatewayQueue: keys waiting (the workqueue's dirty set)
    worker,    \* what each worker is doing
    granted,   \* history: <<g, a>> such that a was created for g
    edits, failures, restarts   \* what is left of the bounds

apiVars   == <<gw, ip>>
cacheVars == <<gwCache, gwEvents, ipCache, ipEvents>>
boundVars == <<edits, failures, restarts>>
vars == <<gw, ip, gwCache, gwEvents, ipCache, ipEvents, routed, ready,
          queue, worker, granted, edits, failures, restarts>>

-----------------------------------------------------------------------------
(* Objects *)

NoAddr == 0

\* valid: our class, listeners and addresses acceptable; invalid: our class,
\* rejected by its own spec; other: spec.gatewayClassName is not clusterip-gw.
Kind == {"valid", "invalid", "other"}

\* The condition set last published: "none" when the controller's conditions
\* are absent; the others are the outcomes of a reconcile.
Cond == {"none", "invalid", "pending", "exhausted", "noCIDR", "apiError"}

Status == [addr : Pool \cup {NoAddr}, cond : Cond]
NoStatus == [addr |-> NoAddr, cond |-> "none"]

\* observed: the conditions carry the object's current generation.
GatewayObject ==
    [exists : BOOLEAN, kind : Kind, deleting : BOOLEAN, fin : BOOLEAN,
     status : Status, observed : BOOLEAN]

NoGateway ==
    [exists |-> FALSE, kind |-> "other", deleting |-> FALSE, fin |-> FALSE,
     status |-> NoStatus, observed |-> FALSE]

NewGateway(k) == [NoGateway EXCEPT !.exists = TRUE, !.kind = k]

Owner == Gateways \cup {None, Service}

\* clear .. status: the API call the worker makes next.  copy is the cached
\* object it started from, and fresh says that no write has superseded copy
\* (its resourceVersion is current).  todo holds the addresses still to be
\* deleted, or still to be tried; want is the status to publish.
PC == {"idle", "clear", "cleanup", "finalize", "evaluate",
       "retract", "prune", "allocate", "status"}

Task ==
    [pc : PC, key : Gateways \cup {None}, copy : GatewayObject,
     fresh : BOOLEAN, todo : SUBSET Pool, want : Status]

Idle == [pc |-> "idle", key |-> None, copy |-> NoGateway,
         fresh |-> FALSE, todo |-> {}, want |-> NoStatus]

-----------------------------------------------------------------------------
(* Reads of the caches *)

\* A list that forgets to look at the parent.
listOwned_AnyOwner(g) == {a \in Pool : ipCache[a] # None}

\* listOwnedGatewayIPAddresses: the managed-by label and the parentRef index.
listOwnedGatewayIPAddresses(g) == {a \in Pool : ipCache[a] = g}

\* listTakenIPs: every cached IPAddress, whoever owns it.
listTakenIPs == {a \in Pool : ipCache[a] # None}

\* The candidates of the allocation walk.
candidates == ready \ listTakenIPs

\* slices.SortFunc(owned, by name): the reservation that is kept.
isFirstByName(a, owned) == \A b \in owned : NameRank[a] <= NameRank[b]

\* The walk tries the addresses of the sorted prefixes in order.
isNextCandidate(a, S) == \A b \in S : a <= b

\* evaluateGateway(...).valid
evaluationValid(o, g) == o.kind = "valid" /\ routed[g]

\* A test that forgets the finalizer.
previouslyManaged_ByReservation(o, g) == listOwnedGatewayIPAddresses(g) # {}

gatewayPreviouslyManaged(o, g) == o.fin \/ listOwnedGatewayIPAddresses(g) # {}

\* gatewayStatusEqual: conditions carry the observed generation.
gatewayStatusEqual(o, want) == o.status = want /\ (want.cond = "none" \/ o.observed)

cacheCurrent(g) == \A i \in 1..Len(gwEvents) : gwEvents[i].key # g

-----------------------------------------------------------------------------
(* Writes to the API server *)

\* A write to Gateway g makes every copy of it stale and reaches the cache
\* later, in order.  It is combined with an update of worker w to task t.
writeGateway(g, o, w, t) ==
    /\ gw' = [gw EXCEPT ![g] = o]
    /\ gwEvents' = Append(gwEvents, [key |-> g, obj |-> o])
    /\ worker' = [v \in Workers |->
                    IF v = w THEN t
                    ELSE [worker[v] EXCEPT !.fresh = @ /\ worker[v].key # g]]

\* Creating or deleting IPAddress a.
writeIP(a, owner) ==
    /\ ip' = [ip EXCEPT ![a] = owner]
    /\ ipEvents' = Append(ipEvents, [addr |-> a, owner |-> owner])

noWriteGateway == UNCHANGED <<gw, gwEvents>>
noWriteIP == UNCHANGED <<ip, ipEvents>>

-----------------------------------------------------------------------------
(* processNextGateway and the branches of reconcileGateway up to its first  *)
(* API call.                                                               *)

getKey(w, g) ==
    /\ worker[w].pc = "idle"
    /\ g \in queue
    /\ \A v \in Workers : worker[v].key # g
    /\ queue' = queue \ {g}

begin(w, g, pc, todo) ==
    worker' = [worker EXCEPT ![w] =
                 [pc |-> pc, key |-> g, copy |-> gwCache[g],
                  fresh |-> cacheCurrent(g), todo |-> todo, want |-> NoStatus]]

readOnly == UNCHANGED <<gw, ip, gwCache, gwEvents, ipCache, ipEvents,
                        routed, ready, granted, edits, failures, restarts>>

\* The Gateway is not in the cache: nothing to do.
reconcileMissing(w, g) ==
    /\ getKey(w, g)
    /\ ~gwCache[g].exists
    /\ UNCHANGED worker
    /\ readOnly

\* A cleanup that leaves the status behind.
reconcileForeign_KeepsStatus(w, g) ==
    /\ getKey(w, g)
    /\ gwCache[g].exists /\ gwCache[g].kind = "other"
    /\ begin(w, g, "cleanup", listOwnedGatewayIPAddresses(g))
    /\ readOnly

\* Another class: clear our status if the Gateway was ours, then clean up.
reconcileForeign(w, g) ==
    /\ getKey(w, g)
    /\ gwCache[g].exists /\ gwCache[g].kind = "other"
    /\ IF gatewayPreviouslyManaged(gwCache[g], g)
         THEN begin(w, g, "clear", {})
         ELSE begin(w, g, "cleanup", listOwnedGatewayIPAddresses(g))
    /\ readOnly

reconcileDeleting(w, g) ==
    /\ getKey(w, g)
    /\ gwCache[g].exists /\ gwCache[g].kind # "other" /\ gwCache[g].deleting
    /\ begin(w, g, "cleanup", listOwnedGatewayIPAddresses(g))
    /\ readOnly

reconcileManaged(w, g) ==
    /\ getKey(w, g)
    /\ gwCache[g].exists /\ gwCache[g].kind # "other" /\ ~gwCache[g].deleting
    /\ begin(w, g, IF gwCache[g].fin THEN "evaluate" ELSE "finalize", {})
    /\ readOnly

-----------------------------------------------------------------------------
(* Ends of a reconcile *)

\* return nil: Forget and Done.
done(w) == worker' = [worker EXCEPT ![w] = Idle]

\* An error that is only logged.
retry_Forgotten(w) == done(w) /\ UNCHANGED queue

\* return err: AddRateLimited and Done.
retry(w) ==
    /\ worker' = [worker EXCEPT ![w] = Idle]
    /\ queue' = queue \cup {worker[w].key}

advance(w, pc, todo, want) ==
    worker' = [worker EXCEPT ![w] =
                 [worker[w] EXCEPT !.pc = pc, !.todo = todo, !.want = want]]

quietly == UNCHANGED <<gwCache, ipCache, routed, ready, edits, restarts>>

-----------------------------------------------------------------------------
(* clearManagedGatewayStatus, then the list that starts the cleanup *)
clearManagedGatewayStatus(w) ==
    LET t == worker[w]
        next == [t EXCEPT !.pc = "cleanup",
                          !.todo = listOwnedGatewayIPAddresses(t.key)]
    IN  /\ t.pc = "clear"
        /\ \/ /\ gatewayStatusEqual(t.copy, NoStatus)
              /\ worker' = [worker EXCEPT ![w] = next]
              /\ noWriteGateway /\ UNCHANGED queue
           \/ /\ ~gatewayStatusEqual(t.copy, NoStatus) /\ t.fresh
              /\ writeGateway(t.key, [gw[t.key] EXCEPT !.status = NoStatus], w,
                              [next EXCEPT !.fresh = FALSE])
              /\ UNCHANGED queue
           \/ /\ ~gatewayStatusEqual(t.copy, NoStatus) /\ ~t.fresh
              /\ retry(w)
              /\ noWriteGateway
        /\ noWriteIP
        /\ quietly /\ UNCHANGED <<granted, failures>>

\* One Delete of releaseGatewayIPAddresses, or of an extra reservation in
\* ensureGatewayVIP.  The delete is by name: it removes the IPAddress whoever
\* owns it by now, and NotFound is not an error.
deleteIPAddress(w, a) ==
    LET t == worker[w]
    IN  /\ t.pc \in {"cleanup", "retract", "prune"}
        /\ a \in t.todo
        /\ IF ip[a] = None THEN noWriteIP ELSE writeIP(a, None)
        /\ advance(w, t.pc, t.todo \ {a}, t.want)
        /\ noWriteGateway
        /\ quietly /\ UNCHANGED <<queue, granted, failures>>

\* removeGatewayFinalizer: a live Get and an Update guarded by the version the
\* Get returned, so it takes effect at one instant or fails.  Removing the
\* last finalizer of a deleting object removes the object.
removeGatewayFinalizer(w) ==
    LET t == worker[w]
        live == gw[t.key]
    IN  /\ t.pc = "cleanup" /\ t.todo = {}
        /\ IF live.exists /\ live.fin
             THEN writeGateway(t.key,
                    IF live.deleting THEN NoGateway ELSE [live EXCEPT !.fin = FALSE],
                    w, Idle)
             ELSE done(w) /\ noWriteGateway
        /\ noWriteIP
        /\ quietly /\ UNCHANGED <<queue, granted, failures>>

\* ensureGatewayFinalizer: when it adds the finalizer the reconcile ends, and
\* the update event starts the next one.
ensureGatewayFinalizer(w) ==
    LET t == worker[w]
        live == gw[t.key]
    IN  /\ t.pc = "finalize"
        /\ \/ /\ ~live.exists
              /\ retry(w)
              /\ noWriteGateway
           \/ /\ live.exists /\ live.fin
              /\ advance(w, "evaluate", {}, NoStatus)
              /\ noWriteGateway /\ UNCHANGED queue
           \/ /\ live.exists /\ ~live.fin
              /\ writeGateway(t.key, [live EXCEPT !.fin = TRUE], w, Idle)
              /\ UNCHANGED queue
        /\ noWriteIP
        /\ quietly /\ UNCHANGED <<granted, failures>>

\* evaluateGateway and the cache reads that follow it: a Gateway that is not
\* valid gives up its addresses; a valid one keeps an address it owns, or
\* looks for a free one.
evaluateGateway(w) ==
    LET t == worker[w]
        owned == listOwnedGatewayIPAddresses(t.key)
    IN  /\ t.pc = "evaluate"
        /\ \/ /\ ~evaluationValid(t.copy, t.key)
              /\ advance(w, "retract", owned, [addr |-> NoAddr, cond |-> "invalid"])
           \/ /\ evaluationValid(t.copy, t.key)
              /\ \E vip \in owned :
                   /\ isFirstByName(vip, owned)
                   /\ advance(w, "prune", owned \ {vip}, [addr |-> vip, cond |-> "pending"])
           \/ /\ evaluationValid(t.copy, t.key) /\ owned = {} /\ ready = {}
              /\ advance(w, "status", {}, [addr |-> NoAddr, cond |-> "noCIDR"])
           \/ /\ evaluationValid(t.copy, t.key) /\ owned = {} /\ ready # {}
              /\ advance(w, "allocate", candidates, [addr |-> NoAddr, cond |-> "exhausted"])
        /\ noWriteGateway /\ noWriteIP
        /\ quietly /\ UNCHANGED <<queue, granted, failures>>

\* An allocation that takes AlreadyExists for its own success.
createIPAddress_Adopts(w, a) ==
    LET t == worker[w]
    IN  /\ t.pc = "allocate" /\ a \in t.todo /\ isNextCandidate(a, t.todo)
        /\ IF ip[a] = None
             THEN writeIP(a, t.key) /\ granted' = granted \cup {<<t.key, a>>}
             ELSE noWriteIP /\ UNCHANGED granted
        /\ advance(w, "status", {}, [addr |-> a, cond |-> "pending"])
        /\ noWriteGateway
        /\ quietly /\ UNCHANGED <<queue, failures>>

\* One Create of the allocation walk.  AlreadyExists moves on to the next
\* candidate.
createIPAddress(w, a) ==
    LET t == worker[w]
    IN  /\ t.pc = "allocate" /\ a \in t.todo /\ isNextCandidate(a, t.todo)
        /\ IF ip[a] = None
             THEN /\ writeIP(a, t.key)
                  /\ granted' = granted \cup {<<t.key, a>>}
                  /\ advance(w, "status", {}, [addr |-> a, cond |-> "pending"])
             ELSE /\ noWriteIP
                  /\ UNCHANGED granted
                  /\ advance(w, "allocate", t.todo \ {a}, t.want)
        /\ noWriteGateway
        /\ quietly /\ UNCHANGED <<queue, failures>>

\* A retry on conflict that reads the Gateway again and writes the status that
\* was decided on the old copy.
updateGatewayStatus_RetryOnConflict(w) ==
    LET t == worker[w]
    IN  /\ t.pc \in {"retract", "prune", "allocate", "status"} /\ t.todo = {}
        /\ IF gatewayStatusEqual(t.copy, t.want) \/ ~gw[t.key].exists
             THEN done(w) /\ noWriteGateway
             ELSE writeGateway(t.key, [gw[t.key] EXCEPT !.status = t.want], w, Idle)
        /\ noWriteIP
        /\ quietly /\ UNCHANGED <<queue, granted, failures>>

\* updateGatewayStatus: no call when the copy already says it, otherwise an
\* UpdateStatus that a superseded copy loses to a conflict.  The conditions are
\* stamped with the generation of the copy; the write is accepted only while
\* the copy is the live object, so that generation is the current one.
updateGatewayStatus(w) ==
    LET t == worker[w]
    IN  /\ t.pc \in {"retract", "prune", "allocate", "status"} /\ t.todo = {}
        /\ \/ /\ gatewayStatusEqual(t.copy, t.want)
              /\ done(w)
              /\ noWriteGateway /\ UNCHANGED queue
           \/ /\ ~gatewayStatusEqual(t.copy, t.want) /\ t.fresh
              /\ writeGateway(t.key, [gw[t.key] EXCEPT !.status = t.want, !.observed = TRUE],
                              w, Idle)
              /\ UNCHANGED queue
           \/ /\ ~gatewayStatusEqual(t.copy, t.want) /\ ~t.fresh
              /\ retry(w)
              /\ noWriteGateway
        /\ noWriteIP
        /\ quietly /\ UNCHANGED <<granted, failures>>

\* An API call that fails.  Inside ensureGatewayVIP the error is not returned
\* but published; everywhere else it requeues the key.
apiCallFails(w) ==
    LET t == worker[w]
        inEnsureVIP == t.pc \in {"prune", "allocate"} /\ t.todo # {}
        makesACall == \/ t.pc \in {"cleanup", "finalize"}
                      \/ t.pc = "clear" /\ ~gatewayStatusEqual(t.copy, NoStatus)
                      \/ t.pc = "retract" /\ t.todo # {}
                      \/ /\ t.pc \in {"retract", "prune", "allocate", "status"}
                         /\ t.todo = {} /\ ~gatewayStatusEqual(t.copy, t.want)
    IN  /\ failures > 0
        /\ failures' = failures - 1
        /\ \/ /\ inEnsureVIP
              /\ advance(w, "status", {}, [addr |-> NoAddr, cond |-> "apiError"])
              /\ UNCHANGED queue
           \/ /\ makesACall
              /\ retry(w)
        /\ noWriteGateway /\ noWriteIP
        /\ quietly /\ UNCHANGED granted

-----------------------------------------------------------------------------
(* Informers *)

deliverGateway ==
    /\ gwEvents # <<>>
    /\ gwCache' = [gwCache EXCEPT ![Head(gwEvents).key] = Head(gwEvents).obj]
    /\ gwEvents' = Tail(gwEvents)
    /\ queue' = queue \cup {Head(gwEvents).key}
    /\ UNCHANGED <<gw, ip, ipCache, ipEvents, routed, ready, worker, granted>>
    /\ UNCHANGED boundVars

\* A handler that takes every parent for a Gateway.
keysForIPEvent_AnyParent(e) ==
    {IF e.owner = None THEN ipCache[e.addr] ELSE e.owner}

\* enqueueGatewayForIPAddressObject: the parent of the object that was added,
\* or that was in the cache when it was deleted.
keysForIPEvent(e) ==
    {IF e.owner = None THEN ipCache[e.addr] ELSE e.owner} \cap Gateways

deliverIPAddress ==
    /\ ipEvents # <<>>
    /\ ipCache' = [ipCache EXCEPT ![Head(ipEvents).addr] = Head(ipEvents).owner]
    /\ ipEvents' = Tail(ipEvents)
    /\ queue' = queue \cup keysForIPEvent(Head(ipEvents))
    /\ UNCHANGED <<gw, ip, gwCache, gwEvents, routed, ready, worker, granted>>
    /\ UNCHANGED boundVars

\* A Gateway informer without resync.
resync_ReservationsOnly ==
    /\ queue' = queue \cup {g \in Gateways : listOwnedGatewayIPAddresses(g) # {}}
    /\ UNCHANGED <<gw, ip, gwCache, gwEvents, ipCache, ipEvents, routed, ready,
                   worker, granted>>
    /\ UNCHANGED boundVars

\* The informers' periodic resync: an update event for every cached Gateway
\* and for every cached IPAddress, whose parent it enqueues.
resync ==
    /\ queue' = queue \cup {g \in Gateways :
                     gwCache[g].exists \/ listOwnedGatewayIPAddresses(g) # {}}
    /\ UNCHANGED <<gw, ip, gwCache, gwEvents, ipCache, ipEvents, routed, ready,
                   worker, granted>>
    /\ UNCHANGED boundVars

\* The process dies and a new one lists everything and starts from there: the
\* initial list is one add event per object.
restart ==
    /\ restarts > 0
    /\ restarts' = restarts - 1
    /\ gwCache' = gw /\ gwEvents' = <<>>
    /\ ipCache' = ip /\ ipEvents' = <<>>
    /\ worker' = [w \in Workers |-> Idle]
    /\ queue' = {g \in Gateways : gw[g].exists \/ \E a \in Pool : ip[a] = g}
    /\ UNCHANGED <<gw, ip, routed, ready, granted, edits, failures>>

-----------------------------------------------------------------------------
(* Users and the rest of the cluster *)

edit == edits > 0 /\ edits' = edits - 1 /\ UNCHANGED <<failures, restarts>>

userWritesGateway(g, o) ==
    /\ edit
    /\ writeGateway(g, o, None, Idle)
    /\ UNCHANGED <<ip, gwCache, ipCache, ipEvents, routed, ready, queue, granted>>

createGateway(g, k) == ~gw[g].exists /\ userWritesGateway(g, NewGateway(k))

\* A spec edit bumps the generation.
editGateway(g, k) ==
    /\ gw[g].exists /\ ~gw[g].deleting /\ gw[g].kind # k
    /\ userWritesGateway(g, [gw[g] EXCEPT !.kind = k, !.observed = FALSE])

deleteGateway(g) ==
    /\ gw[g].exists /\ ~gw[g].deleting
    /\ userWritesGateway(g, IF gw[g].fin THEN [gw[g] EXCEPT !.deleting = TRUE]
                                         ELSE NoGateway)

\* An event of the GatewayClass, TCPRoute or XEndpointSelector informer that
\* changes the evaluation of g: its handler enqueues g.
changeRoutes(g) ==
    /\ edit
    /\ routed' = [routed EXCEPT ![g] = ~@]
    /\ queue' = queue \cup {g}
    /\ UNCHANGED <<gw, ip, gwCache, gwEvents, ipCache, ipEvents, ready, worker, granted>>

\* A ServiceCIDR event enqueues the cached Gateways of our class.
changeServiceCIDRs(S) ==
    /\ edit
    /\ S # ready
    /\ ready' = S
    /\ queue' = queue \cup {g \in Gateways : gwCache[g].exists /\ gwCache[g].kind # "other"}
    /\ UNCHANGED <<gw, ip, gwCache, gwEvents, ipCache, ipEvents, routed, worker, granted>>

\* The API server's own ClusterIP allocator shares the pool.
serviceTakes(a) ==
    /\ edit
    /\ ip[a] = None
    /\ writeIP(a, Service)
    /\ UNCHANGED <<gw, gwCache, gwEvents, ipCache, routed, ready, queue, worker, granted>>

serviceFrees(a) ==
    /\ edit
    /\ ip[a] = Service
    /\ writeIP(a, None)
    /\ UNCHANGED <<gw, gwCache, gwEvents, ipCache, routed, ready, queue, worker, granted>>

-----------------------------------------------------------------------------

\* The controller is installed on a cluster that may already hold Gateways of
\* its class; its informers have listed them.
Init ==
    /\ gw \in [Gateways -> {NoGateway, NewGateway("valid")}]
    /\ ip = [a \in Pool |-> None]
    /\ gwCache = gw /\ gwEvents = <<>>
    /\ ipCache = ip /\ ipEvents = <<>>
    /\ routed = [g \in Gateways |-> TRUE]
    /\ ready = Pool
    /\ queue = {g \in Gateways : gw[g].exists}
    /\ worker = [w \in Workers |-> Idle]
    /\ granted = {}
    /\ edits = MaxEdits /\ failures = MaxFailures /\ restarts = MaxRestarts

reconcile(w) ==
    \/ clearManagedGatewayStatus(w)
    \/ \E a \in Pool : deleteIPAddress(w, a) \/ createIPAddress(w, a)
    \/ removeGatewayFinalizer(w)
    \/ ensureGatewayFinalizer(w)
    \/ evaluateGateway(w)
    \/ updateGatewayStatus(w)

processNextGateway(w, g) ==
    \/ reconcileMissing(w, g)
    \/ reconcileForeign(w, g)
    \/ reconcileDeleting(w, g)
    \/ reconcileManaged(w, g)

Environment ==
    \/ \E g \in Gateways, k \in Kind : createGateway(g, k) \/ editGateway(g, k)
    \/ \E g \in Gateways : deleteGateway(g) \/ changeRoutes(g)
    \/ \E S \in SUBSET Pool : changeServiceCIDRs(S)
    \/ \E a \in Pool : serviceTakes(a) \/ serviceFrees(a)

Next ==
    \/ \E w \in Workers, g \in Gateways : processNextGateway(w, g)
    \/ \E w \in Workers : reconcile(w) \/ apiCallFails(w)
    \/ deliverGateway \/ deliverIPAddress \/ resync \/ restart
    \/ Environment

Spec == Init /\ [][Next]_vars

\* Workers keep running, the workqueue is FIFO (no waiting key is passed over
\* for ever), watches deliver, and the informers resync periodically.  Nothing
\* is assumed of users, failures and restarts.
Fairness ==
    /\ \A g \in Gateways : SF_vars(\E w \in Workers : processNextGateway(w, g))
    /\ \A w \in Workers : WF_vars(reconcile(w))
    /\ WF_vars(deliverGateway) /\ WF_vars(deliverIPAddress) /\ WF_vars(resync)

FairSpec == Spec /\ Fairness

-----------------------------------------------------------------------------
(* Properties *)

\* Every variable holds a value of its type: in particular the gateway queue
\* only ever holds Gateway keys, whatever IPAddress events arrive.
TypeOK ==
    /\ gw \in [Gateways -> GatewayObject]
    /\ ip \in [Pool -> Owner]
    /\ gwCache \in [Gateways -> GatewayObject]
    /\ ipCache \in [Pool -> Owner]
    /\ gwEvents \in Seq([key : Gateways, obj : GatewayObject])
    /\ ipEvents \in Seq([addr : Pool, owner : Owner])
    /\ routed \in [Gateways -> BOOLEAN]
    /\ ready \in SUBSET Pool
    /\ queue \in SUBSET Gateways
    /\ worker \in [Workers -> Task]
    /\ granted \in SUBSET (Gateways \X Pool)
    /\ edits \in 0..MaxEdits
    /\ failures \in 0..MaxFailures
    /\ restarts \in 0..MaxRestarts

reservations(g) == {a \in Pool : ip[a] = g}

\* Nothing is left to process: no key waits, no worker runs, no event is on
\* its way.  Only users, other clients or a resync can start something.
Quiescent ==
    /\ queue = {}
    /\ \A w \in Workers : worker[w].pc = "idle"
    /\ gwEvents = <<>> /\ ipEvents = <<>>

Managed(g) == gw[g].exists /\ gw[g].kind # "other" /\ ~gw[g].deleting

Accepted(g) == Managed(g) /\ evaluationValid(gw[g], g)

\* When reconcileGateway has nothing left to do, an accepted Gateway carries
\* the finalizer and either publishes the one address reserved for it, or says
\* why it has none and holds none - however its reconciles interleaved with
\* events, and although an allocation on a stale cache may have taken two.
\* Only a failed call may leave it with reservations it does not publish: the
\* error of an extra's Delete is published, not retried, and the second time
\* the status already says it.
QuiescentAccepted ==
    Quiescent => \A g \in Gateways : Accepted(g) =>
        /\ gw[g].fin
        /\ \/ gw[g].status.cond = "pending" /\ reservations(g) = {gw[g].status.addr}
           \/ /\ gw[g].status.cond \in {"exhausted", "noCIDR"}
              /\ reservations(g) = {} /\ gw[g].status.addr = NoAddr
           \/ gw[g].status.cond = "apiError" /\ gw[g].status.addr = NoAddr

\* When nothing is left to do, an existing Gateway that is not accepted (its
\* spec was rejected, its class changed) holds and publishes no address, and
\* keeps the finalizer only while it is of our class.
QuiescentReleased ==
    Quiescent => \A g \in Gateways : gw[g].exists /\ ~Accepted(g) =>
        /\ reservations(g) = {}
        /\ gw[g].status.addr = NoAddr
        /\ gw[g].kind = "other" => ~gw[g].fin

\* updateGatewayStatus never publishes, for a Gateway, an address that was not
\* at some time created for that Gateway by ensureGatewayVIP.
PublishedWasGranted ==
    \A g \in Gateways :
        gw[g].status.addr # NoAddr => <<g, gw[g].status.addr>> \in granted

\* A Gateway that publishes an address carries the finalizer, so that its
\* deletion waits for cleanupGatewayResources: neither a status written from
\* an old copy nor removeGatewayFinalizer's live Get can undo this.
PublishedHasFinalizer ==
    \A g \in Gateways : gw[g].status.addr # NoAddr => gw[g].fin

\* A verdict lands only on the spec it was reached on, although a reconcile
\* makes up to a dozen API calls between reading the Gateway and writing its
\* status, and users edit in between: at the instant of a status write, a
\* Gateway that has left our class only ever loses our status, a Gateway that
\* is being deleted gets no verdict and no address, and a spec that is rejected
\* is never called accepted or given an address.
VerdictsFitSpec ==
    [][\A g \in Gateways :
         gw[g].exists /\ gw'[g].exists /\ gw'[g].status # gw[g].status =>
           /\ gw[g].kind = "other" => gw'[g].status = NoStatus
           /\ gw[g].kind # "other" => ~gw[g].deleting /\ gw'[g].status.cond # "none"
           /\ gw[g].kind = "invalid" =>
                gw'[g].status = [addr |-> NoAddr, cond |-> "invalid"]]_vars

\* The controller's deletes are decided on a cache and carry no precondition, so
\* they may hit somebody else's reservation; they never hit an address that
\* was not, at some time, created for the Gateway whose worker deletes it.
DeletesWereGranted ==
    [][\A a \in Pool : ip[a] # None /\ ip'[a] = None /\ edits' = edits =>
         \E w \in Workers : worker'[w] # worker[w] /\ <<worker[w].key, a>> \in granted]_vars

\* An address is freed before the status that publishes it is withdrawn, so
\* the next Gateway to get it may publish it too.  This does not last: when
\* nothing is left to do, no two Gateways publish the same address.
SharingIsTransient ==
    Quiescent => \A g, h \in Gateways :
        gw[g].exists /\ gw[h].exists /\ g # h /\ gw[g].status.addr # NoAddr
          => gw[g].status.addr # gw[h].status.addr

\* The state every fair behaviour settles in once users stop editing: every
\* accepted Gateway publishes its only reservation, unless every ready address
\* is taken; every other Gateway holds nothing; deletions have completed.
Settled ==
    \A g \in Gateways : gw[g].exists =>
        /\ ~gw[g].deleting
        /\ Accepted(g) =>
             \/ gw[g].status.cond = "pending" /\ reservations(g) = {gw[g].status.addr}
             \/ /\ gw[g].status.cond \in {"exhausted", "noCIDR"}
                /\ reservations(g) = {} /\ \A a \in ready : ip[a] # None
        /\ ~Accepted(g) => reservations(g) = {} /\ gw[g].status.addr = NoAddr

\* The controller converges: after finitely many edits and failed calls the
\* Gateways settle and stay settled, also when a failed call was published
\* instead of retried, or the last free address was taken by somebody else.
Converges == <>[]Settled

\* "On Gateway cleanup or loss of support, the controller must release owned
\* reservations": when nothing is left to do, no IPAddress names a Gateway
\* that is gone.  cleanupGatewayResources lists the reservations from a cache.
CleanupReleasesReservations ==
    Quiescent => \A a \in Pool : ip[a] \in Gateways => gw[ip[a]].exists

\* The controller deletes only reservations it owns: a reservation of the API
\* server's Service allocator disappears only by the allocator's own hand
\* (an edit).
ServiceReservationsUntouched ==
    [][\A a \in Pool : ip[a] = Service /\ ip'[a] # Service => edits' < edits]_vars

\* The leases the API server shows.
Lease == INSTANCE VIPLease WITH
            owner <- ip,
            pub   <- [g \in Gateways |-> gw[g].status.addr],
            fin   <- [g \in Gateways |-> gw[g].fin]

\* The controller keeps the allocator's promise: however reconciles, edits,
\* lost races and restarts interleave, each step is one of VIPLease or changes
\* no lease.
ImplementsLease == Lease!Spec

-----------------------------------------------------------------------------
(* The inductive invariant behind PublishedHasFinalizer, VerdictsFitSpec   *)
(* and PublishedWasGranted.                                                *)

\* What the Gateway informer has of g, or will have: the cached object and the
\* ones on their way.
timeline(g) ==
    {gwCache[g]} \cup {gwEvents[i].obj : i \in {j \in 1..Len(gwEvents) : gwEvents[j].key = g}}

\* The last event of a key carries the object the API server holds; a key
\* without events is cached as it is.
LastEventIsLive ==
    /\ \A g \in Gateways : cacheCurrent(g) => gwCache[g] = gw[g]
    /\ \A i \in 1..Len(gwEvents) :
         (\A j \in (i + 1)..Len(gwEvents) : gwEvents[j].key # gwEvents[i].key)
         => gwEvents[i].obj = gw[gwEvents[i].key]

\* A worker that is not idle has a key.
Busy == \A w \in Workers : worker[w].pc = "idle" <=> worker[w].key = None

\* The workqueue gives a key to one worker at a time.
ExclusiveKeys ==
    \A v, w \in Workers : worker[v].key # None /\ worker[v].key = worker[w].key => v = w

\* A copy whose version is current is the live object, and the cache's too.
FreshIsLive ==
    \A w \in Workers : worker[w].fresh =>
        /\ worker[w].key \in Gateways
        /\ worker[w].copy = gw[worker[w].key]
        /\ worker[w].copy = gwCache[worker[w].key]
        /\ cacheCurrent(worker[w].key)

\* What the branches of reconcileGateway established about the copy.
branchFact(t) ==
    /\ t.pc = "clear" => t.copy.kind = "other"
    /\ t.pc \in {"finalize", "evaluate", "retract", "prune", "allocate", "status"} =>
         t.copy.kind # "other" /\ ~t.copy.deleting
    /\ t.pc = "finalize" => ~t.copy.fin
    /\ t.pc \in {"evaluate", "retract", "prune", "allocate", "status"} =>
         t.copy.fin \/ ~t.fresh
    /\ t.pc \in {"prune", "allocate"} => t.copy.kind = "valid"
    /\ t.pc \in {"retract", "prune", "allocate", "status"} =>
         /\ t.want.cond # "none"
         /\ t.copy.kind = "invalid" => t.want.cond = "invalid" /\ t.want.addr = NoAddr
BranchFacts == \A w \in Workers : branchFact(worker[w])

\* Whatever the API server, the cache, the events and the workers call an
\* address of g was created for g.
LiveGrants == \A a \in Pool : ip[a] \in Gateways => <<ip[a], a>> \in granted
CachedGrants == \A a \in Pool : ipCache[a] \in Gateways => <<ipCache[a], a>> \in granted
EventGrants ==
    \A i \in 1..Len(ipEvents) : ipEvents[i].owner \in Gateways =>
        <<ipEvents[i].owner, ipEvents[i].addr>> \in granted
WantedGrants ==
    \A w \in Workers : worker[w].want.addr # NoAddr =>
        <<worker[w].key, worker[w].want.addr>> \in granted
GrantsKnown == LiveGrants /\ CachedGrants /\ EventGrants /\ WantedGrants

\* So was whatever a worker is about to delete.
ReleaseGrants ==
    \A w \in Workers : worker[w].pc \in {"cleanup", "retract", "prune"} =>
        \A a \in worker[w].todo : <<worker[w].key, a>> \in granted

published(o) == o.status.addr # NoAddr /\ ~o.deleting

\* A reconcile that starts from o does not clean up before it has cleared the
\* status.
keepsAddress(o) == ~o.deleting /\ (o.kind = "other" => o.status.addr # NoAddr)

\* While g publishes an address, no object the informer has or will have of it
\* sends a worker into cleanup without clearing the status first, and no
\* worker is in cleanup.
HistoryHasFinalizer ==
    \A g \in Gateways : \A o \in timeline(g) : o.status.addr # NoAddr => o.fin
HistoryKeepsAddress ==
    \A g \in Gateways : published(gw[g]) => \A o \in timeline(g) : keepsAddress(o)
WorkersKeepAddress ==
    \A w \in Workers : worker[w].key # None /\ published(gw[worker[w].key]) =>
        worker[w].pc # "cleanup" /\ keepsAddress(worker[w].copy)
NoStaleCleanup == HistoryHasFinalizer /\ HistoryKeepsAddress /\ WorkersKeepAddress

=============================================================================
