------------------------------ MODULE Proxier ------------------------------
(***************************************************************************)
(* The event path of clusterip-gw-agent: two informers feed the proxier's  *)
(* trackers, their handlers request syncs, and SyncLoop renders the        *)
(* trackers and replaces the nftables table.                               *)
(*                                                                         *)
(* One handler goroutine per informer, the main goroutine during startup   *)
(* and SyncLoop run concurrently.  SyncLoop holds the proxier's lock while *)
(* it is at "slices", "flush" or "recreate".  A handler updates its        *)
(* tracker without that lock, then takes it to set syncPending, then sends *)
(* on resyncCh without it.                                                 *)
(*                                                                         *)
(* Data: what an informer's objects amount to for a frontend key is None,  *)
(* or the frontend (address and port) its Gateway publishes, or the        *)
(* non-empty list of its ready backends.                                   *)
(***************************************************************************)
EXTENDS Naturals, FiniteSets, SequencesExt

CONSTANTS
    Frontends,       \* frontend keys: namespace/name:listener
    GatewayStates,   \* frontends a supported Gateway can publish for a key
    SliceStates,     \* non-empty lists of ready backends of a key
    None,            \* nothing to program
    Missing,         \* the managed nftables table does not exist
    MaxEdits,        \* bound: changes of API objects
    MaxFaults,       \* bound: failed applies and foreign removals of the table
    MaxRestarts      \* bound: restarts of the agent

ASSUME FrontendsAssumption == IsFiniteSet(Frontends)
ASSUME NoneAssumption == None \notin GatewayStates /\ None \notin SliceStates
ASSUME BoundAssumption == MaxEdits \in Nat /\ MaxFaults \in Nat /\ MaxRestarts \in Nat

VARIABLES
    api,         \* what the API server holds, per informer and frontend key
    feed,        \* notifications the handler of an informer has not seen
    listed,      \* how many of them still belong to the initial list
    tracker,     \* gatewayTracker and endpointTracker
    handler,     \* where the handler goroutine of an informer is
    main,        \* where Options.Run is
    gatewaysSynced, endpointSlicesSynced,
    syncPending,
    token,       \* resyncCh (capacity 1) is full
    retry,       \* retryTimer: off, armed, or fired (retryCh is full)
    throttled,   \* less than minSyncPeriod has passed since lastSync
    loop,        \* where SyncLoop is
    snapshot,    \* the tracker snapshots of the sync in progress
    table,       \* the managed nftables table in the kernel
    faulty,      \* history: table lost, or apply failed, since the last good apply
    edits, faults, restarts   \* what is left of the bounds

intake  == <<feed, listed, tracker, handler>>
startup == <<main, gatewaysSynced, endpointSlicesSynced>>
wakeups == <<syncPending, token, retry, throttled>>
control == <<loop, snapshot>>
kernel  == <<table, faulty>>
bounds  == <<edits, faults, restarts>>
vars == <<api, feed, listed, tracker, handler, main, gatewaysSynced,
          endpointSlicesSynced, syncPending, token, retry, throttled, loop,
          snapshot, table, faulty, edits, faults, restarts>>

Informers == {"gateways", "slices"}

StatesOf(i) == {None} \cup (IF i = "gateways" THEN GatewayStates ELSE SliceStates)

Objects(i) == [Frontends -> StatesOf(i)]

Nothing == [k \in Frontends |-> None]

\* Per frontend key: no rules, or the jump rules, service chain, dispatch map
\* and backend chains that send its frontend to its backends.
Rulesets == [Frontends -> {None} \cup (GatewayStates \X SliceStates)]

-----------------------------------------------------------------------------

\* A rendering that keeps frontends without backends.
desiredRuleset_AllFrontends(s) ==
    [k \in Frontends |->
        IF s["gateways"][k] = None THEN None
        ELSE <<s["gateways"][k], s["slices"][k]>>]

\* desiredRulesetLocked: a frontend without ready backends gets no rules.
desiredRuleset(s) ==
    [k \in Frontends |->
        IF s["gateways"][k] = None \/ s["slices"][k] = None THEN None
        ELSE <<s["gateways"][k], s["slices"][k]>>]

lockFree == loop \in {"off", "select", "locking"}

Ready == gatewaysSynced /\ endpointSlicesSynced

-----------------------------------------------------------------------------
(* Handlers: OnGatewayAdd/Update/Delete, OnEndpointSliceAdd/Update/Delete *)

\* An update that has nothing to set for an object that is gone.
trackerUpdate_KeepsDeleted(i) ==
    /\ handler[i] = "idle" /\ feed[i] # <<>>
    /\ tracker' = [tracker EXCEPT ![i][Head(feed[i]).key] =
                      IF Head(feed[i]).obj = None THEN @ ELSE Head(feed[i]).obj]
    /\ feed' = [feed EXCEPT ![i] = Tail(@)]
    /\ listed' = [listed EXCEPT ![i] = IF @ > 0 THEN @ - 1 ELSE 0]
    /\ handler' = [handler EXCEPT ![i] = "updated"]
    /\ UNCHANGED <<api, startup, wakeups, control, kernel, bounds>>

\* tracker.Update, under the tracker's own lock.
trackerUpdate(i) ==
    /\ handler[i] = "idle" /\ feed[i] # <<>>
    /\ tracker' = [tracker EXCEPT ![i][Head(feed[i]).key] = Head(feed[i]).obj]
    /\ feed' = [feed EXCEPT ![i] = Tail(@)]
    /\ listed' = [listed EXCEPT ![i] = IF @ > 0 THEN @ - 1 ELSE 0]
    /\ handler' = [handler EXCEPT ![i] = "updated"]
    /\ UNCHANGED <<api, startup, wakeups, control, kernel, bounds>>

\* A flag set without waiting for the lock.
setPending_Unlocked(i) ==
    /\ handler[i] = "updated"
    /\ handler' = [handler EXCEPT ![i] = "pended"]
    /\ syncPending' = TRUE
    /\ UNCHANGED <<api, feed, listed, tracker, startup, token, retry, throttled,
                   control, kernel, bounds>>

\* requestSync, first half: syncPending under the proxier's lock.
setPending(i) ==
    /\ handler[i] = "updated"
    /\ lockFree
    /\ handler' = [handler EXCEPT ![i] = "pended"]
    /\ syncPending' = TRUE
    /\ UNCHANGED <<api, feed, listed, tracker, startup, token, retry, throttled,
                   control, kernel, bounds>>

\* requestSync, second half: a send that a full channel absorbs.
sendResync(i) ==
    /\ handler[i] = "pended"
    /\ handler' = [handler EXCEPT ![i] = "idle"]
    /\ token' = TRUE
    /\ UNCHANGED <<api, feed, listed, tracker, startup, syncPending, retry,
                   throttled, control, kernel, bounds>>

-----------------------------------------------------------------------------
(* Options.Run after WaitForCacheSync, which waits for the informers' stores *)
(* and not for the handlers.  Nobody reads syncPending and resyncCh before   *)
(* SyncLoop runs, so each call is one step.                                  *)

OnGatewaySynced ==
    /\ main = "waiting"
    /\ main' = "gatewaysSynced"
    /\ gatewaysSynced' = TRUE /\ syncPending' = TRUE /\ token' = TRUE
    /\ UNCHANGED <<api, intake, endpointSlicesSynced, retry, throttled, control,
                   kernel, bounds>>

OnEndpointSlicesSynced ==
    /\ main = "gatewaysSynced"
    /\ main' = "synced"
    /\ endpointSlicesSynced' = TRUE /\ syncPending' = TRUE /\ token' = TRUE
    /\ UNCHANGED <<api, intake, gatewaysSynced, retry, throttled, control,
                   kernel, bounds>>

startSyncLoop ==
    /\ main = "synced"
    /\ main' = "running" /\ loop' = "select"
    /\ UNCHANGED <<api, intake, gatewaysSynced, endpointSlicesSynced, wakeups,
                   snapshot, kernel, bounds>>

-----------------------------------------------------------------------------
(* SyncLoop *)

\* The select statement: the ticker, resyncCh or retryCh.
wakeOnTick ==
    /\ loop = "select" /\ loop' = "locking"
    /\ UNCHANGED <<api, intake, startup, wakeups, snapshot, kernel, bounds>>

wakeOnResync ==
    /\ loop = "select" /\ loop' = "locking"
    /\ token /\ token' = FALSE
    /\ UNCHANGED <<api, intake, startup, syncPending, retry, throttled,
                   snapshot, kernel, bounds>>

wakeOnRetry ==
    /\ loop = "select" /\ loop' = "locking"
    /\ retry = "fired" /\ retry' = "off"
    /\ UNCHANGED <<api, intake, startup, syncPending, token, throttled,
                   snapshot, kernel, bounds>>

\* An early return that always stops the retry.
syncTooEarly_NoRetry ==
    /\ loop = "locking" /\ throttled /\ loop' = "select"
    /\ retry' = "off"
    /\ UNCHANGED <<api, intake, startup, syncPending, token, throttled,
                   snapshot, kernel, bounds>>

\* sync within minSyncPeriod of the last good one: a pending change is tried
\* again after the remaining delay, otherwise the retry is stopped.
syncTooEarly ==
    /\ loop = "locking" /\ throttled /\ loop' = "select"
    /\ retry' = IF syncPending THEN "armed" ELSE "off"
    /\ UNCHANGED <<api, intake, startup, syncPending, token, throttled,
                   snapshot, kernel, bounds>>

\* sync takes the lock; desiredRulesetLocked snapshots the Gateways ...
snapshotGateways ==
    /\ loop = "locking" /\ Ready /\ ~throttled
    /\ loop' = "slices"
    /\ snapshot' = [snapshot EXCEPT !["gateways"] = tracker["gateways"]]
    /\ UNCHANGED <<api, intake, startup, wakeups, kernel, bounds>>

\* ... and then the EndpointSlices.
snapshotSlices ==
    /\ loop = "slices"
    /\ loop' = "flush"
    /\ snapshot' = [snapshot EXCEPT !["slices"] = tracker["slices"]]
    /\ UNCHANGED <<api, intake, startup, wakeups, kernel, bounds>>

\* ENOENT taken for an ordinary error.
applyFindsNoTable_GivesUp ==
    /\ loop = "flush" /\ table = Missing
    /\ loop' = "select"
    /\ UNCHANGED <<api, intake, startup, wakeups, snapshot, kernel, bounds>>

\* The batch deletes a table that is not there: applyOnce returns ENOENT and
\* Apply makes a batch without the delete.
applyFindsNoTable ==
    /\ loop = "flush" /\ table = Missing
    /\ loop' = "recreate"
    /\ UNCHANGED <<api, intake, startup, wakeups, snapshot, kernel, bounds>>

\* A batch goes through and replaces the table; sync sets lastSync, clears
\* syncPending, and SyncLoop stops the retry.
applySucceeds ==
    /\ \/ loop = "flush" /\ table # Missing
       \/ loop = "recreate"
    /\ table' = desiredRuleset(snapshot)
    /\ faulty' = FALSE
    /\ throttled' = TRUE /\ syncPending' = FALSE /\ retry' = "off"
    /\ loop' = "select"
    /\ UNCHANGED <<api, intake, startup, token, snapshot, bounds>>

\* A batch fails and changes nothing: the error is logged, syncPending stays,
\* and SyncLoop goes back to select without arming the retry.
applyFails ==
    /\ loop \in {"flush", "recreate"}
    /\ faults > 0 /\ faults' = faults - 1
    /\ faulty' = TRUE
    /\ loop' = "select"
    /\ UNCHANGED <<api, intake, startup, wakeups, snapshot, table, edits, restarts>>

-----------------------------------------------------------------------------
(* Clock, API server and node *)

minSyncPeriodElapses ==
    /\ throttled /\ throttled' = FALSE
    /\ UNCHANGED <<api, intake, startup, syncPending, token, retry, control,
                   kernel, bounds>>

\* The timer was set to what remained of minSyncPeriod.
retryTimerFires ==
    /\ retry = "armed" /\ ~throttled
    /\ retry' = "fired"
    /\ UNCHANGED <<api, intake, startup, syncPending, token, throttled, control,
                   kernel, bounds>>

publish(i, k, v) ==
    /\ edits > 0 /\ edits' = edits - 1
    /\ v \in StatesOf(i) \ {api[i][k]}
    /\ api' = [api EXCEPT ![i][k] = v]
    /\ feed' = [feed EXCEPT ![i] = Append(@, [key |-> k, obj |-> v])]
    /\ UNCHANGED <<listed, tracker, handler, startup, wakeups, control, kernel,
                   faults, restarts>>

\* Somebody flushes the node's ruleset.
tableRemoved ==
    /\ faults > 0 /\ faults' = faults - 1
    /\ table # Missing /\ table' = Missing
    /\ faulty' = TRUE
    /\ UNCHANGED <<api, intake, startup, wakeups, control, edits, restarts>>

\* The initial list of informer i: an add for every object, in some order.
initialLists(i) ==
    LET present == {k \in Frontends : api[i][k] # None}
    IN  {[n \in 1..Cardinality(present) |-> [key |-> order[n], obj |-> api[i][order[n]]]] :
            order \in SetToSeqs(present)}

initialFeeds ==
    {f \in [Informers -> initialLists("gateways") \cup initialLists("slices")] :
        \A i \in Informers : f[i] \in initialLists(i)}

Init ==
    /\ api \in [Informers -> Objects("gateways") \cup Objects("slices")]
    /\ \A i \in Informers : api[i] \in Objects(i)
    /\ feed \in initialFeeds
    /\ listed = [i \in Informers |-> Len(feed[i])]
    /\ tracker = [i \in Informers |-> Nothing]
    /\ handler = [i \in Informers |-> "idle"]
    /\ main = "waiting"
    /\ gatewaysSynced = FALSE /\ endpointSlicesSynced = FALSE
    /\ syncPending = FALSE /\ token = FALSE /\ retry = "off" /\ throttled = FALSE
    /\ loop = "off"
    /\ snapshot = tracker
    /\ table = Missing /\ faulty = FALSE
    /\ edits = MaxEdits /\ faults = MaxFaults /\ restarts = MaxRestarts

\* The agent dies and a new process starts from empty trackers; the kernel
\* keeps the table.
restart ==
    /\ restarts > 0 /\ restarts' = restarts - 1
    /\ feed' \in initialFeeds
    /\ listed' = [i \in Informers |-> Len(feed'[i])]
    /\ tracker' = [i \in Informers |-> Nothing]
    /\ handler' = [i \in Informers |-> "idle"]
    /\ main' = "waiting"
    /\ gatewaysSynced' = FALSE /\ endpointSlicesSynced' = FALSE
    /\ syncPending' = FALSE /\ token' = FALSE /\ retry' = "off" /\ throttled' = FALSE
    /\ loop' = "off"
    /\ snapshot' = tracker'
    /\ UNCHANGED <<api, kernel, edits, faults>>

-----------------------------------------------------------------------------

handle(i) == trackerUpdate(i) \/ setPending(i) \/ sendResync(i)

run == OnGatewaySynced \/ OnEndpointSlicesSynced \/ startSyncLoop

\* SyncLoop without its ticker.
step ==
    \/ wakeOnResync \/ wakeOnRetry
    \/ syncTooEarly \/ snapshotGateways \/ snapshotSlices
    \/ applyFindsNoTable \/ applySucceeds

clock == minSyncPeriodElapses \/ retryTimerFires

Next ==
    \/ \E i \in Informers : handle(i)
    \/ run \/ step \/ wakeOnTick \/ applyFails \/ clock
    \/ \E i \in Informers, k \in Frontends, v \in GatewayStates \cup SliceStates \cup {None} :
         publish(i, k, v)
    \/ tableRemoved \/ restart

Spec == Init /\ [][Next]_vars

\* Goroutines are scheduled, timers fire, and a goroutine that waits for the
\* mutex gets it although SyncLoop keeps taking it (Go's mutexes hand over to
\* a starving waiter).  Nothing is assumed of the ticker.
EventFairness ==
    /\ \A i \in Informers : WF_vars(trackerUpdate(i)) /\ WF_vars(sendResync(i))
    /\ \A i \in Informers : SF_vars(setPending(i))
    /\ WF_vars(run) /\ WF_vars(step)
    /\ WF_vars(minSyncPeriodElapses) /\ WF_vars(retryTimerFires)

EventSpec == Spec /\ EventFairness

-----------------------------------------------------------------------------
(* Properties *)

IntakeOK ==
    /\ \A i \in Informers : /\ api[i] \in Objects(i)
                            /\ tracker[i] \in Objects(i)
                            /\ snapshot[i] \in Objects(i)
                            /\ feed[i] \in Seq([key : Frontends, obj : StatesOf(i)])
    /\ DOMAIN api = Informers /\ DOMAIN tracker = Informers
    /\ DOMAIN snapshot = Informers /\ DOMAIN feed = Informers
    /\ listed \in [Informers -> Nat]
    /\ handler \in [Informers -> {"idle", "updated", "pended"}]

ControlOK ==
    /\ main \in {"waiting", "gatewaysSynced", "synced", "running"}
    /\ gatewaysSynced \in BOOLEAN /\ endpointSlicesSynced \in BOOLEAN
    /\ syncPending \in BOOLEAN /\ token \in BOOLEAN /\ throttled \in BOOLEAN
    /\ retry \in {"off", "armed", "fired"}
    /\ loop \in {"off", "select", "locking", "slices", "flush", "recreate"}

KernelOK == table \in Rulesets \cup {Missing} /\ faulty \in BOOLEAN

BoundsOK == edits \in 0..MaxEdits /\ faults \in 0..MaxFaults /\ restarts \in 0..MaxRestarts

\* Every variable holds a value of its type: in particular the ruleset in the
\* kernel only ever joins a frontend with a non-empty backend list.
TypeOK == IntakeOK /\ ControlOK /\ KernelOK /\ BoundsOK

\* No wakeup is lost: when SyncLoop sleeps in select with nothing to wake it
\* but the ticker, and no handler is on its way to requestSync, then the
\* kernel holds exactly what the trackers say - unless an apply failed or the
\* table was removed since.
NoLostUpdate ==
    /\ loop = "select" /\ ~token /\ retry = "off" /\ ~faulty
    /\ \A i \in Informers : handler[i] = "idle"
    => table = desiredRuleset(tracker)

\* End to end: when, moreover, no notification is outstanding, the kernel holds
\* exactly what the API server publishes.  In particular nothing is left of the
\* table that an earlier process wrote, although a new one hears of no object
\* that was deleted before it started.
QuietIsProgrammed ==
    /\ loop = "select" /\ ~token /\ retry = "off" /\ ~faulty
    /\ \A i \in Informers : handler[i] = "idle" /\ feed[i] = <<>>
    => table = desiredRuleset(api)

\* What was published last is in the kernel for good.
Programmed == <>[](table = desiredRuleset(api))

\* Events alone program the kernel, through throttling, restarts and a table
\* that has to be created first: as long as no apply fails and nobody removes
\* the table, what was published last is eventually in the kernel.  Nothing is
\* asked of the ticker.
ProgrammedByEvents == [](faults = MaxFaults) => Programmed

\* With a ticker that is taken again and again - SyncLoop is back in select
\* infinitely often, and infinitely often it takes the tick - the kernel
\* recovers from failed applies and removed tables as well.
ProgrammedWithTicker == SF_vars(wakeOnTick) => Programmed

\* "Ready reports whether the proxier has received its initial Gateway and
\* EndpointSlice state": no add of an initial list is outstanding by then.
ReadyHasInitialState == Ready => \A i \in Informers : listed[i] = 0

-----------------------------------------------------------------------------
(* The inductive invariant behind NoLostUpdate *)

\* SyncLoop runs only after both informers were reported synced, and finds
\* the request of OnEndpointSlicesSynced waiting.
Started ==
    /\ loop # "off" => Ready
    /\ main = "running" <=> loop # "off"
    /\ main = "gatewaysSynced" => gatewaysSynced
    /\ main = "synced" => Ready /\ syncPending /\ token

\* A snapshot in use is current, or the handler that outdated it still waits
\* for the lock and will set syncPending after this sync cleared it.
SnapshotCovered ==
    /\ loop \in {"slices", "flush", "recreate"} =>
         snapshot["gateways"] = tracker["gateways"] \/ handler["gateways"] = "updated"
    /\ loop \in {"flush", "recreate"} =>
         snapshot["slices"] = tracker["slices"] \/ handler["slices"] = "updated"

\* A table that lags behind the trackers has a sync on its way: a handler that
\* has not set syncPending yet, or syncPending and something to wake SyncLoop.
LagCovered ==
    loop # "off" /\ ~faulty =>
        \/ table = desiredRuleset(tracker)
        \/ \E i \in Informers : handler[i] = "updated"
        \/ /\ syncPending
           /\ \/ token \/ retry # "off" \/ loop # "select"
              \/ \E i \in Informers : handler[i] = "pended"

SyncInv == Started /\ SnapshotCovered /\ LagCovered

\* The last notification of a key carries what the API server holds of it; a
\* key without notifications is tracked as it is.
feedCurrent(i) ==
    /\ \A k \in Frontends :
         (\A n \in 1..Len(feed[i]) : feed[i][n].key # k) => tracker[i][k] = api[i][k]
    /\ \A n \in 1..Len(feed[i]) :
         (\A m \in (n + 1)..Len(feed[i]) : feed[i][m].key # feed[i][n].key)
         => feed[i][n].obj = api[i][feed[i][n].key]
FeedCurrent == \A i \in Informers : feedCurrent(i)

=============================================================================
