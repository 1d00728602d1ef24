----------------------- MODULE GatewayQuiescence_proofs -----------------------
(***************************************************************************)
(* What the Gateway controller leaves behind when nothing is left to do,   *)
(* for every set of Gateways, workers and addresses and for every bound.   *)
(*                                                                         *)
(* A Gateway needs no further reconcile unless one is due: its key waits,  *)
(* an event of it or of an address of it is on its way.  While none is     *)
(* due, what the worker on it has read is still so (taskFact), and what    *)
(* nobody works on is as it should be (atRest).                            *)
(***************************************************************************)
EXTENDS GatewayController_proofs, NaturalsInduction, WellFoundedInduction

\* An event of the IPAddress informer will enqueue g: it carries an address
\* of g, or takes one out of the cache.
Foretold(g) ==
    \E i \in 1..Len(ipEvents) : ipEvents[i].owner = g \/ ipCache[ipEvents[i].addr] = g

\* Somebody will reconcile g once more.
Due(g) == g \in queue \/ ~cacheCurrent(g) \/ Foretold(g)

ipCurrent(a) == \A i \in 1..Len(ipEvents) : ipEvents[i].addr # a

\* The last event of an address shows its live owner; an address without
\* events is cached as it is.
LastIPEventIsLive ==
    \A a \in Pool :
      /\ ipCurrent(a) => ipCache[a] = ip[a]
      /\ \A i \in 1..Len(ipEvents) :
           /\ ipEvents[i].addr = a
           /\ \A j \in (i+1)..Len(ipEvents) : ipEvents[j].addr # a
           => ipEvents[i].owner = ip[a]

\* An address passes from one owner to the next by way of a deletion.
IPDeletedFirst ==
    \A a \in Pool : \A j \in 1..Len(ipEvents) :
      ipEvents[j].addr = a /\ ipEvents[j].owner # None =>
        /\ (\A i \in 1..(j-1) : ipEvents[i].addr # a) => ipCache[a] = None
        /\ \A i \in 1..(j-1) :
             /\ ipEvents[i].addr = a
             /\ \A k \in (i+1)..(j-1) : ipEvents[k].addr # a
             => ipEvents[i].owner = None

IPInv == LastIPEventIsLive /\ IPDeletedFirst

\* What worker task t has read is so.
taskFact(t) ==
    /\ t.fresh
    /\ t.pc \in {"cleanup", "retract"} => reservations(t.key) \subseteq t.todo
    /\ t.pc = "cleanup" => t.copy.kind = "other" \/ t.copy.deleting
    /\ t.pc = "retract" => /\ ~evaluationValid(t.copy, t.key)
                           /\ t.want = [addr |-> NoAddr, cond |-> "invalid"]
    /\ t.pc \in {"prune", "allocate", "status"} => evaluationValid(t.copy, t.key)
    /\ t.pc = "prune" => /\ t.want.cond = "pending"
                         /\ reservations(t.key) = t.todo \cup {t.want.addr}
    /\ t.pc = "allocate" => /\ t.want = [addr |-> NoAddr, cond |-> "exhausted"]
                            /\ reservations(t.key) = {}
    /\ t.pc = "status" => /\ t.want.addr = NoAddr
                          /\ \/ t.want.cond = "noCIDR" /\ reservations(t.key) = {}
                             \/ t.want.cond = "apiError"

\* What QuiescentAccepted and QuiescentReleased say of one Gateway.
acceptedRest(g) ==
    /\ gw[g].fin
    /\ \/ gw[g].status.cond = "pending" /\ reservations(g) = {gw[g].status.addr}
       \/ /\ gw[g].status.cond \in {"exhausted", "noCIDR"}
          /\ reservations(g) = {} /\ gw[g].status.addr = NoAddr
       \/ gw[g].status.cond = "apiError" /\ gw[g].status.addr = NoAddr
releasedRest(g) ==
    /\ reservations(g) = {}
    /\ gw[g].status.addr = NoAddr
    /\ gw[g].kind = "other" => ~gw[g].fin
atRest(g) ==
    gw[g].exists => /\ Accepted(g) => acceptedRest(g)
                    /\ ~Accepted(g) => releasedRest(g)

Seen(g) ==
    \/ Due(g)
    \/ \E w \in Workers : worker[w].key = g /\ taskFact(worker[w])
    \/ (\A w \in Workers : worker[w].key # g) /\ atRest(g)

DeletingHasFinalizer == \A g \in Gateways : gw[g].deleting => gw[g].fin

BaseInv == TypeOK /\ Busy /\ ExclusiveKeys /\ ReconcileInv
RestInv == BaseInv /\ IPInv /\ DeletingHasFinalizer /\ \A g \in Gateways : Seen(g)

-----------------------------------------------------------------------------
(* Addresses and their events *)

\* What nobody will be told of is cached as it is.
LEMMA NothingForetold ==
    ASSUME TypeOK, LastIPEventIsLive, NEW g \in Gateways, ~Foretold(g)
    PROVE  reservations(g) = listOwnedGatewayIPAddresses(g)
<1>1. ASSUME NEW a \in Pool, ipCache[a] = g PROVE ip[a] = g
  <2>1. ipCurrent(a)
    BY <1>1 DEF Foretold, ipCurrent
  <2> QED BY <1>1, <2>1 DEF LastIPEventIsLive
<1>2. ASSUME NEW a \in Pool, ip[a] = g PROVE ipCache[a] = g
  <2>1. CASE ipCurrent(a)
    BY <1>2, <2>1 DEF LastIPEventIsLive
  <2>2. CASE ~ipCurrent(a)
    <3> DEFINE T == {Len(ipEvents) - i : i \in {j \in 1..Len(ipEvents) : ipEvents[j].addr = a}}
    <3>1. Len(ipEvents) \in Nat
      BY LenProperties DEF TypeOK
    <3>2. T \subseteq Nat /\ T # {}
      BY <2>2, <3>1 DEF ipCurrent
    <3> HIDE DEF T
    <3>3. PICK x \in T : \A y \in T : ~(<<y, x>> \in OpToRel(<, Nat))
      BY <3>2, WFMin, NatLessThanWellFounded
    <3>4. \A y \in T : ~(y < x)
      BY <3>2, <3>3 DEF OpToRel
    <3>5. PICK i \in 1..Len(ipEvents) : ipEvents[i].addr = a /\ x = Len(ipEvents) - i
      BY DEF T
    <3>6. \A j \in (i+1)..Len(ipEvents) : ipEvents[j].addr # a
      <4> SUFFICES ASSUME NEW j \in (i+1)..Len(ipEvents), ipEvents[j].addr = a
                   PROVE  FALSE
        OBVIOUS
      <4>1. Len(ipEvents) - j \in T
        BY <3>1 DEF T
      <4> QED BY <3>1, <3>4, <3>5, <4>1
    <3>7. ipEvents[i].owner = g
      BY <1>2, <3>5, <3>6 DEF LastIPEventIsLive
    <3> QED BY <3>7 DEF Foretold
  <2> QED BY <2>1, <2>2
<1> QED BY <1>1, <1>2 DEF reservations, listOwnedGatewayIPAddresses

\* An IPAddress is created where there is none, or deleted.
LEMMA WriteIPSeen ==
    ASSUME TypeOK, IPInv, UNCHANGED ipCache, NEW a \in Pool, NEW o \in Owner, writeIP(a, o),
           o # None => ip[a] = None
    PROVE  /\ IPInv'
           /\ ip'[a] = o /\ \A b \in Pool : b # a => ip'[b] = ip[b]
           /\ \A g : Foretold(g) \/ o = g \/ ipCache[a] = g => Foretold(g)'
<1> DEFINE k == Len(ipEvents)
<1>1. /\ k \in Nat /\ Len(ipEvents') = k + 1
      /\ \A i \in 1..k : ipEvents'[i] = ipEvents[i]
      /\ ipEvents'[k + 1] = [addr |-> a, owner |-> o]
  <2>1. ipEvents' = Append(ipEvents, [addr |-> a, owner |-> o])
    BY DEF writeIP
  <2>2. [addr |-> a, owner |-> o] \in [addr : Pool, owner : Owner]
    OBVIOUS
  <2> QED BY <2>1, <2>2, AppendProperties, LenProperties DEF TypeOK
<1>2. ip'[a] = o /\ \A b \in Pool : b # a => ip'[b] = ip[b]
  BY DEF writeIP, TypeOK
<1>3. \A g : Foretold(g) \/ o = g \/ ipCache[a] = g => Foretold(g)'
  <2>1. \A i \in 1..k : i \in 1..Len(ipEvents')
    BY <1>1
  <2>2. k + 1 \in 1..Len(ipEvents')
    BY <1>1
  <2> QED BY <1>1, <2>1, <2>2 DEF Foretold
<1>4. ~ipCurrent(a)' /\ \A b \in Pool : b # a => (ipCurrent(b)' <=> ipCurrent(b))
  BY <1>1 DEF ipCurrent
<1>5. ASSUME NEW b \in Pool, NEW i \in 1..Len(ipEvents'), ipEvents'[i].addr = b,
             \A j \in (i+1)..Len(ipEvents') : ipEvents'[j].addr # b
      PROVE  ipEvents'[i].owner = ip'[b]
  <2>1. CASE i = k + 1
    BY <1>1, <1>2, <1>5, <2>1
  <2>2. CASE i # k + 1
    <3>1. i \in 1..k /\ ipEvents'[i] = ipEvents[i] /\ k + 1 \in (i+1)..Len(ipEvents')
      BY <1>1, <2>2
    <3>2. b # a
      BY <1>1, <1>5, <3>1
    <3>3. \A j \in (i+1)..k : ipEvents[j].addr # b
      BY <1>1, <1>5, <3>1
    <3>4. ipEvents[i].owner = ip[b]
      BY <1>5, <3>1, <3>3 DEF IPInv, LastIPEventIsLive
    <3> QED BY <1>2, <3>1, <3>2, <3>4
  <2> QED BY <2>1, <2>2
<1>6. LastIPEventIsLive'
  BY <1>2, <1>4, <1>5 DEF IPInv, LastIPEventIsLive
<1>7. ASSUME NEW b \in Pool, NEW j \in 1..Len(ipEvents'),
             ipEvents'[j].addr = b, ipEvents'[j].owner # None
      PROVE  /\ (\A i \in 1..(j-1) : ipEvents'[i].addr # b) => ipCache'[b] = None
             /\ \A i \in 1..(j-1) :
                  /\ ipEvents'[i].addr = b
                  /\ \A l \in (i+1)..(j-1) : ipEvents'[l].addr # b
                  => ipEvents'[i].owner = None
  <2>1. CASE j # k + 1
    <3>1. j \in 1..k /\ ipEvents'[j] = ipEvents[j]
      BY <1>1, <2>1
    <3>2. \A i \in 1..(j-1) : ipEvents'[i] = ipEvents[i]
      BY <1>1, <3>1
    <3>3. \A i \in 1..(j-1) : \A l \in (i+1)..(j-1) : ipEvents'[l] = ipEvents[l]
      BY <1>1, <3>1
    <3>4. /\ (\A i \in 1..(j-1) : ipEvents[i].addr # b) => ipCache[b] = None
          /\ \A i \in 1..(j-1) :
               /\ ipEvents[i].addr = b
               /\ \A l \in (i+1)..(j-1) : ipEvents[l].addr # b
               => ipEvents[i].owner = None
      BY <1>7, <3>1 DEF IPInv, IPDeletedFirst
    <3>5. ASSUME NEW i \in 1..(j-1), ipEvents'[i].addr = b,
                 \A l \in (i+1)..(j-1) : ipEvents'[l].addr # b
          PROVE  ipEvents'[i].owner = None
      <4>1. \A l \in (i+1)..(j-1) : ipEvents[l].addr # b
        BY <3>3, <3>5
      <4> QED BY <3>1, <3>2, <3>4, <3>5, <4>1
    <3> QED BY <3>1, <3>2, <3>4, <3>5
  <2>2. CASE j = k + 1
    <3>1. b = a /\ ip[a] = None
      BY <1>1, <1>7, <2>2
    <3>2. ASSUME \A i \in 1..(j-1) : ipEvents'[i].addr # b
          PROVE  ipCache'[b] = None
      <4>1. ipCurrent(b)
        BY <1>1, <2>2, <3>2 DEF ipCurrent
      <4> QED BY <3>1, <4>1 DEF IPInv, LastIPEventIsLive
    <3>3. ASSUME NEW i \in 1..(j-1), ipEvents'[i].addr = b,
                 \A l \in (i+1)..(j-1) : ipEvents'[l].addr # b
          PROVE  ipEvents'[i].owner = None
      <4>1. i \in 1..k /\ ipEvents'[i] = ipEvents[i]
        BY <1>1, <2>2
      <4>2. \A l \in (i+1)..k : ipEvents[l].addr # b
        BY <1>1, <2>2, <3>3, <4>1
      <4>3. ipEvents[i].owner = ip[b]
        BY <3>3, <4>1, <4>2 DEF IPInv, LastIPEventIsLive
      <4> QED BY <3>1, <4>1, <4>3
    <3> QED BY <3>2, <3>3
  <2> QED BY <2>1, <2>2
<1>8. IPDeletedFirst'
  BY <1>7 DEF IPDeletedFirst
<1> QED BY <1>2, <1>3, <1>6, <1>8 DEF IPInv

\* An event of an address moves into the cache, and the handler enqueues the
\* Gateway that got or lost it.
LEMMA DeliverIPSeen ==
    ASSUME TypeOK, IPInv, deliverIPAddress
    PROVE  IPInv' /\ \A g \in Gateways : Foretold(g) => Foretold(g)' \/ g \in queue'
<1> DEFINE k == Len(ipEvents)
           n == ipEvents[1].addr
           o == ipEvents[1].owner
<1>0. ipEvents \in Seq([addr : Pool, owner : Owner]) /\ ipEvents # <<>> /\ ipEvents' = Tail(ipEvents)
  BY DEF deliverIPAddress, TypeOK
<1>1. /\ k \in Nat /\ k > 0 /\ Head(ipEvents) = ipEvents[1] /\ Len(ipEvents') = k - 1
      /\ \A i \in 1..Len(ipEvents') : ipEvents'[i] = ipEvents[i + 1]
  BY <1>0, HeadTailProperties, LenProperties, EmptySeq
<1>2. n \in Pool
  <2>1. 1 \in 1..Len(ipEvents)
    BY <1>1
  <2>2. ipEvents[1] \in [addr : Pool, owner : Owner]
    BY <1>0, <2>1, ElementOfSeq
  <2> QED BY <2>2
<1>3. /\ ipCache'[n] = o /\ \A b \in Pool : b # n => ipCache'[b] = ipCache[b]
      /\ queue' = queue \cup ({IF o = None THEN ipCache[n] ELSE o} \cap Gateways)
      /\ ip' = ip
  BY <1>1, <1>2 DEF deliverIPAddress, keysForIPEvent, TypeOK
<1>4. \A j \in 2..k : j - 1 \in 1..Len(ipEvents') /\ ipEvents'[j - 1] = ipEvents[j]
  BY <1>1
<1>5. ASSUME NEW b \in Pool, ipCurrent(b)' PROVE ipCache'[b] = ip'[b]
  <2>1. \A j \in 2..k : ipEvents[j].addr # b
    BY <1>4, <1>5 DEF ipCurrent
  <2>2. CASE b = n
    <3>1. 1 \in 1..Len(ipEvents) /\ \A j \in (1+1)..Len(ipEvents) : ipEvents[j].addr # n
      BY <1>1, <2>1, <2>2
    <3> QED BY <1>2, <1>3, <2>2, <3>1 DEF IPInv, LastIPEventIsLive
  <2>3. CASE b # n
    <3>1. ipCurrent(b)
      BY <1>1, <2>1, <2>3 DEF ipCurrent
    <3> QED BY <1>3, <2>3, <3>1 DEF IPInv, LastIPEventIsLive
  <2> QED BY <2>2, <2>3
<1>6. ASSUME NEW b \in Pool, NEW i \in 1..Len(ipEvents'), ipEvents'[i].addr = b,
             \A j \in (i+1)..Len(ipEvents') : ipEvents'[j].addr # b
      PROVE  ipEvents'[i].owner = ip'[b]
  <2>1. i + 1 \in 1..Len(ipEvents) /\ ipEvents'[i] = ipEvents[i + 1]
    BY <1>1
  <2>2. \A j \in ((i+1)+1)..k : j - 1 \in (i+1)..Len(ipEvents') /\ ipEvents'[j - 1] = ipEvents[j]
    BY <1>1, <1>4
  <2>3. \A j \in ((i+1)+1)..Len(ipEvents) : ipEvents[j].addr # b
    BY <1>6, <2>2
  <2> QED BY <1>3, <1>6, <2>1, <2>3 DEF IPInv, LastIPEventIsLive
<1>7. ASSUME NEW b \in Pool, NEW j \in 1..Len(ipEvents'),
             ipEvents'[j].addr = b, ipEvents'[j].owner # None
      PROVE  /\ (\A i \in 1..(j-1) : ipEvents'[i].addr # b) => ipCache'[b] = None
             /\ \A i \in 1..(j-1) :
                  /\ ipEvents'[i].addr = b
                  /\ \A l \in (i+1)..(j-1) : ipEvents'[l].addr # b
                  => ipEvents'[i].owner = None
  <2>1. j + 1 \in 1..Len(ipEvents) /\ ipEvents'[j] = ipEvents[j + 1]
    BY <1>1
  <2>2. \A i \in 2..j : i - 1 \in 1..(j-1) /\ ipEvents'[i - 1] = ipEvents[i]
    BY <1>1, <1>4
  <2>0. /\ (\A i \in 1..((j+1)-1) : ipEvents[i].addr # b) => ipCache[b] = None
        /\ \A i \in 1..((j+1)-1) :
             /\ ipEvents[i].addr = b
             /\ \A l \in (i+1)..((j+1)-1) : ipEvents[l].addr # b
             => ipEvents[i].owner = None
    BY <1>7, <2>1 DEF IPInv, IPDeletedFirst
  <2>3. ASSUME \A i \in 1..(j-1) : ipEvents'[i].addr # b
        PROVE  ipCache'[b] = None
    <3>1. \A i \in 2..j : ipEvents[i].addr # b
      BY <2>2, <2>3
    <3>2. CASE b = n
      <4>1. 1 \in 1..((j+1)-1) /\ \A l \in (1+1)..((j+1)-1) : ipEvents[l].addr # b
        BY <3>1
      <4> QED BY <1>3, <2>0, <3>2, <4>1
    <3>3. CASE b # n
      <4>1. \A i \in 1..((j+1)-1) : ipEvents[i].addr # b
        BY <3>1, <3>3
      <4> QED BY <1>3, <2>0, <3>3, <4>1
    <3> QED BY <3>2, <3>3
  <2>4. ASSUME NEW i \in 1..(j-1), ipEvents'[i].addr = b,
               \A l \in (i+1)..(j-1) : ipEvents'[l].addr # b
        PROVE  ipEvents'[i].owner = None
    <3>1. i + 1 \in 1..((j+1)-1) /\ ipEvents'[i] = ipEvents[i + 1]
      BY <1>1
    <3>2. \A l \in ((i+1)+1)..((j+1)-1) : l - 1 \in (i+1)..(j-1) /\ ipEvents'[l - 1] = ipEvents[l]
      BY <1>1, <1>4
    <3>3. \A l \in ((i+1)+1)..((j+1)-1) : ipEvents[l].addr # b
      BY <2>4, <3>2
    <3> QED BY <2>0, <2>4, <3>1, <3>3
  <2> QED BY <2>3, <2>4
<1>8. IPInv'
  BY <1>5, <1>6, <1>7 DEF IPInv, LastIPEventIsLive, IPDeletedFirst
<1>9. ASSUME NEW g \in Gateways, Foretold(g), g \notin queue'
      PROVE  Foretold(g)'
  <2>1. g # None /\ o # g
    BY <1>3, <1>9, OwnerAssumption
  <2>2. ipCache[n] # g
    <3> SUFFICES ASSUME ipCache[n] = g PROVE FALSE
      OBVIOUS
    <3>1. o # None
      BY <1>3, <1>9
    <3>2. 1 \in 1..Len(ipEvents) /\ \A i \in 1..(1-1) : ipEvents[i].addr # n
      BY <1>1
    <3>3. ipCache[n] = None
      BY <1>2, <3>1, <3>2 DEF IPInv, IPDeletedFirst
    <3> QED BY <2>1, <3>3
  <2>3. PICK i \in 1..Len(ipEvents) : ipEvents[i].owner = g \/ ipCache[ipEvents[i].addr] = g
    BY <1>9 DEF Foretold
  <2>4. i \in 2..k
    BY <1>1, <2>1, <2>2, <2>3
  <2>5. ipEvents[i] \in [addr : Pool, owner : Owner]
    BY <1>0, ElementOfSeq
  <2>6. ipEvents'[i - 1].owner = g \/ ipCache'[ipEvents'[i - 1].addr] = g
    BY <1>3, <1>4, <2>2, <2>3, <2>4, <2>5
  <2> QED BY <1>4, <2>4, <2>6 DEF Foretold
<1> QED BY <1>8, <1>9

\* The IPAddresses, whatever a step does to one of them.
IPStep ==
    \/ noWriteIP
    \/ \E a \in Pool, o \in Owner : writeIP(a, o) /\ (o # None => ip[a] = None)

LEMMA IPStepSeen ==
    ASSUME TypeOK, IPInv, UNCHANGED ipCache, IPStep
    PROVE  /\ IPInv'
           /\ \A g \in Gateways : /\ Foretold(g) => Foretold(g)'
                                  /\ reservations(g)' = reservations(g) \/ Foretold(g)'
<1>1. CASE noWriteIP
  BY <1>1 DEF noWriteIP, IPInv, LastIPEventIsLive, IPDeletedFirst, ipCurrent, Foretold,
              reservations
<1>2. ASSUME NEW a \in Pool, NEW o \in Owner, writeIP(a, o), o # None => ip[a] = None
      PROVE  /\ IPInv'
             /\ \A g \in Gateways : /\ Foretold(g) => Foretold(g)'
                                    /\ reservations(g)' = reservations(g) \/ Foretold(g)'
  <2>1. /\ IPInv'
        /\ ip'[a] = o /\ \A b \in Pool : b # a => ip'[b] = ip[b]
        /\ \A g : Foretold(g) \/ o = g \/ ipCache[a] = g => Foretold(g)'
    BY <1>2, WriteIPSeen
  <2>2. ASSUME NEW g \in Gateways, ~Foretold(g)'
        PROVE  reservations(g)' = reservations(g)
    <3>1. ~Foretold(g) /\ o # g /\ ipCache[a] # g
      BY <2>1, <2>2
    <3>2. ip[a] # g
      BY <3>1, NothingForetold DEF IPInv, reservations, listOwnedGatewayIPAddresses
    <3> QED BY <2>1, <3>1, <3>2 DEF reservations
  <2> QED BY <2>1, <2>2
<1> QED BY <1>1, <1>2 DEF IPStep

-----------------------------------------------------------------------------
(* One Gateway *)

\* A step that is no concern of g.
LEMMA OtherSeen ==
    ASSUME NEW g \in Gateways, Seen(g), Due(g) => Due(g)',
           gw'[g] = gw[g], routed'[g] = routed[g],
           reservations(g)' = reservations(g) \/ Due(g)',
           \A w \in Workers : worker[w].key = g \/ worker'[w].key = g => worker'[w] = worker[w]
    PROVE  Seen(g)'
<1> SUFFICES ASSUME ~Due(g)' PROVE Seen(g)'
  BY DEF Seen
<1>1. ~Due(g) /\ reservations(g)' = reservations(g)
  OBVIOUS
<1>2. atRest(g)' <=> atRest(g)
  BY <1>1 DEF atRest, Accepted, Managed, evaluationValid, acceptedRest, releasedRest
<1>3. ASSUME NEW w \in Workers, worker[w].key = g, taskFact(worker[w])
      PROVE  worker'[w].key = g /\ taskFact(worker[w])'
  <2> DEFINE t == worker[w]
  <2>1. worker'[w] = worker[w]
    BY <1>3
  <2>2. evaluationValid(t.copy, g)' <=> evaluationValid(t.copy, g)
    BY <2>1 DEF evaluationValid
  <2> QED BY <1>1, <1>3, <2>1, <2>2 DEF taskFact
<1>4. CASE \E w \in Workers : worker[w].key = g /\ taskFact(worker[w])
  BY <1>3, <1>4 DEF Seen
<1>5. CASE (\A w \in Workers : worker[w].key # g) /\ atRest(g)
  BY <1>2, <1>5 DEF Seen
<1> QED BY <1>1, <1>4, <1>5 DEF Seen

\* A write to Gateway g concerns g and its copies, and reaches the informer.
LEMMA GatewayWrite ==
    ASSUME TypeOK, TypeOK', NEW g \in Gateways, NEW o, NEW v, NEW t, writeGateway(g, o, v, t)
    PROVE  /\ ~cacheCurrent(g)' /\ gw'[g] = o
           /\ \A h \in Gateways : /\ h # g => gw'[h] = gw[h]
                                  /\ ~cacheCurrent(h) => ~cacheCurrent(h)'
           /\ \A u \in Workers : u # v /\ worker[u].key # g => worker'[u] = worker[u]
<1>1. o \in GatewayObject
  <2>1. gw'[g] = o
    BY DEF TypeOK, writeGateway
  <2> QED BY <2>1 DEF TypeOK
<1>2. /\ Len(gwEvents) \in Nat /\ Len(gwEvents') = Len(gwEvents) + 1
      /\ \A i \in 1..Len(gwEvents) : gwEvents'[i] = gwEvents[i]
      /\ gwEvents'[Len(gwEvents) + 1].key = g
      /\ \A h \in Gateways : h # g => gw'[h] = gw[h]
      /\ gw'[g] = o
  BY <1>1, WriteEvents
<1>3. ~cacheCurrent(g)' /\ \A h \in Gateways : ~cacheCurrent(h) => ~cacheCurrent(h)'
  BY <1>2 DEF cacheCurrent
<1>4. ASSUME NEW u \in Workers, u # v, worker[u].key # g
      PROVE  worker'[u] = worker[u]
  <2>1. worker'[u] = [worker[u] EXCEPT !.fresh = @ /\ worker[u].key # g]
    BY <1>4 DEF writeGateway
  <2>2. worker[u] \in Task /\ worker[u].fresh \in BOOLEAN
    BY DEF TypeOK, Task
  <2>3. (worker[u].fresh /\ worker[u].key # g) = worker[u].fresh
    BY <1>4, <2>2
  <2> QED BY <2>1, <2>2, <2>3 DEF Task
<1> QED BY <1>2, <1>3, <1>4

\* What every call of a reconcile has in common.
LEMMA ReconcileFrame ==
    ASSUME TypeOK, Busy, NEW w \in Workers, reconcile(w) \/ apiCallFails(w)
    PROVE  /\ worker[w].key \in Gateways /\ worker[w].pc # "idle"
           /\ IPStep /\ queue \subseteq queue' /\ UNCHANGED <<gwCache, ipCache, routed>>
           /\ \/ noWriteGateway /\ \E t : worker' = [worker EXCEPT ![w] = t]
              \/ \E o, t : writeGateway(worker[w].key, o, w, t)
<1>1. worker[w].pc # "idle"
  BY DEF reconcile, clearManagedGatewayStatus, deleteIPAddress, createIPAddress,
         removeGatewayFinalizer, ensureGatewayFinalizer, evaluateGateway,
         updateGatewayStatus, apiCallFails
<1>2. worker[w].key \in Gateways
  BY <1>1 DEF Busy, TypeOK, Task
<1>3. None \in Owner /\ worker[w].key \in Owner
  BY <1>2 DEF Owner
<1>4. UNCHANGED <<gwCache, ipCache, routed>>
  BY DEF reconcile, clearManagedGatewayStatus, deleteIPAddress, createIPAddress,
         removeGatewayFinalizer, ensureGatewayFinalizer, evaluateGateway,
         updateGatewayStatus, apiCallFails, quietly
<1>5. queue \subseteq queue'
  BY DEF reconcile, clearManagedGatewayStatus, deleteIPAddress, createIPAddress,
         removeGatewayFinalizer, ensureGatewayFinalizer, evaluateGateway,
         updateGatewayStatus, apiCallFails, retry
<1>6. IPStep
  <2>1. CASE \E a \in Pool : deleteIPAddress(w, a) \/ createIPAddress(w, a)
    BY <1>3, <2>1 DEF deleteIPAddress, createIPAddress, IPStep
  <2>2. CASE \A a \in Pool : ~(deleteIPAddress(w, a) \/ createIPAddress(w, a))
    BY <2>2 DEF reconcile, clearManagedGatewayStatus,
         removeGatewayFinalizer, ensureGatewayFinalizer, evaluateGateway,
         updateGatewayStatus, apiCallFails, IPStep
  <2> QED BY <2>1, <2>2
<1> DEFINE GwStep == \/ noWriteGateway /\ \E t : worker' = [worker EXCEPT ![w] = t]
                     \/ \E o, t : writeGateway(worker[w].key, o, w, t)
<1>7. ASSUME clearManagedGatewayStatus(w) PROVE GwStep
  BY <1>7 DEF clearManagedGatewayStatus, retry
<1>8. ASSUME NEW a \in Pool, deleteIPAddress(w, a) PROVE GwStep
  BY <1>8 DEF deleteIPAddress, advance
<1>9. ASSUME NEW a \in Pool, createIPAddress(w, a) PROVE GwStep
  BY <1>9 DEF createIPAddress, advance
<1>10. ASSUME removeGatewayFinalizer(w) PROVE GwStep
  BY <1>10 DEF removeGatewayFinalizer, done
<1>11. ASSUME ensureGatewayFinalizer(w) PROVE GwStep
  BY <1>11 DEF ensureGatewayFinalizer, retry, advance
<1>12. ASSUME evaluateGateway(w) PROVE GwStep
  BY <1>12 DEF evaluateGateway, advance
<1>13. ASSUME updateGatewayStatus(w) PROVE GwStep
  BY <1>13 DEF updateGatewayStatus, done, retry
<1>14. ASSUME apiCallFails(w) PROVE GwStep
  BY <1>14 DEF apiCallFails, retry, advance
<1>15. GwStep
  <2> HIDE DEF GwStep
  <2> QED BY <1>7, <1>8, <1>9, <1>10, <1>11, <1>12, <1>13, <1>14 DEF reconcile
<1> QED BY <1>1, <1>2, <1>4, <1>5, <1>6, <1>15

\* A reconcile of one Gateway is no concern of the others, even where it
\* deletes an address that has passed to one of them: that one is then due.
LEMMA ReconcileOthers ==
    ASSUME RestInv, TypeOK', NEW w \in Workers, reconcile(w) \/ apiCallFails(w)
    PROVE  /\ IPInv'
           /\ \A h \in Gateways : Due(h) => Due(h)'
           /\ \A h \in Gateways : h # worker[w].key => Seen(h)'
<1> DEFINE g == worker[w].key
<1>0. TypeOK /\ Busy /\ ExclusiveKeys /\ IPInv
  BY DEF RestInv, BaseInv
<1>1. /\ g \in Gateways
      /\ IPStep /\ queue \subseteq queue' /\ UNCHANGED <<gwCache, ipCache, routed>>
      /\ \/ noWriteGateway /\ \E t : worker' = [worker EXCEPT ![w] = t]
         \/ \E o, t : writeGateway(g, o, w, t)
  BY <1>0, ReconcileFrame
<1>2. /\ IPInv'
      /\ \A h \in Gateways : /\ Foretold(h) => Foretold(h)'
                             /\ reservations(h)' = reservations(h) \/ Foretold(h)'
  BY <1>0, <1>1, IPStepSeen
<1>3. /\ \A h \in Gateways : /\ h # g => gw'[h] = gw[h]
                             /\ ~cacheCurrent(h) => ~cacheCurrent(h)'
      /\ \A u \in Workers : u # w /\ worker[u].key # g => worker'[u] = worker[u]
  <2>1. CASE noWriteGateway /\ \E t : worker' = [worker EXCEPT ![w] = t]
    BY <1>0, <2>1 DEF noWriteGateway, cacheCurrent, TypeOK
  <2>2. CASE \E o, t : writeGateway(g, o, w, t)
    BY <1>0, <1>1, <2>2, GatewayWrite
  <2> QED BY <1>1, <2>1, <2>2
<1>4. \A h \in Gateways : Due(h) => Due(h)'
  BY <1>1, <1>2, <1>3 DEF Due
<1>5. \A u \in Workers : u # w => worker[u].key # g
  BY <1>0, <1>1, OwnerAssumption DEF ExclusiveKeys
<1>6. worker'[w].key = g \/ worker'[w].key = None
  <2>1. Idle.key = None
    BY DEF Idle
  <2> QED BY <1>0, <2>1, ReconcileKeys
<1>7. ASSUME NEW h \in Gateways, h # g PROVE Seen(h)'
  <2>1. Seen(h)
    BY DEF RestInv
  <2>2. \A u \in Workers : worker[u].key = h \/ worker'[u].key = h => worker'[u] = worker[u]
    BY <1>3, <1>5, <1>6, <1>7, OwnerAssumption
  <2>3. reservations(h)' = reservations(h) \/ Due(h)'
    BY <1>2 DEF Due
  <2> QED BY <1>1, <1>3, <1>4, <1>7, <2>1, <2>2, <2>3, OtherSeen
<1> QED BY <1>2, <1>4, <1>7

\* The worker on g goes on with task t.
LEMMA GoesOn ==
    ASSUME TypeOK, NEW w \in Workers, NEW g, NEW t, worker' = [worker EXCEPT ![w] = t],
           t.key = g, taskFact(t), UNCHANGED routed, reservations(g)' = reservations(g)
    PROVE  Seen(g)'
<1>1. worker'[w] = t
  BY DEF TypeOK
<1>2. evaluationValid(t.copy, g)' <=> evaluationValid(t.copy, g)
  BY DEF evaluationValid
<1>3. taskFact(t)'
  BY <1>2 DEF taskFact
<1>4. taskFact(worker[w])'
  BY <1>1, <1>3 DEF taskFact, evaluationValid, reservations
<1> QED BY <1>1, <1>4 DEF Seen

\* The worker on g ends, and g is as it should be.
LEMMA Ends ==
    ASSUME TypeOK, ExclusiveKeys, NEW w \in Workers, NEW g \in Gateways, worker[w].key = g,
           done(w), UNCHANGED <<gw, ip, routed>>, atRest(g)
    PROVE  Seen(g)'
<1>1. worker'[w] = Idle /\ \A v \in Workers : v # w => worker'[v] = worker[v]
  BY DEF done, TypeOK
<1>2. \A v \in Workers : worker'[v].key # g
  BY <1>1, OwnerAssumption DEF Idle, ExclusiveKeys
<1>3. atRest(g)'
  BY DEF atRest, Accepted, Managed, evaluationValid, acceptedRest, releasedRest, reservations
<1> QED BY <1>2, <1>3 DEF Seen

\* What a worker knows while no other reconcile of its Gateway is due.
LEMMA QuietTask ==
    ASSUME RestInv, NEW w \in Workers, worker[w].key \in Gateways, ~Due(worker[w].key)
    PROVE  /\ taskFact(worker[w]) /\ branchFact(worker[w])
           /\ worker[w].copy = gw[worker[w].key] /\ cacheCurrent(worker[w].key)
           /\ reservations(worker[w].key) = listOwnedGatewayIPAddresses(worker[w].key)
<1>1. TypeOK /\ ExclusiveKeys /\ FreshIsLive /\ BranchFacts /\ LastIPEventIsLive
  BY DEF RestInv, BaseInv, ReconcileInv, IPInv
<1>2. Seen(worker[w].key) /\ worker[w].key # None
  BY OwnerAssumption DEF RestInv
<1>3. PICK v \in Workers : worker[v].key = worker[w].key /\ taskFact(worker[v])
  BY <1>2 DEF Seen
<1>4. v = w
  BY <1>1, <1>2, <1>3 DEF ExclusiveKeys
<1>5. worker[w].copy = gw[worker[w].key]
  BY <1>1, <1>3, <1>4 DEF taskFact, FreshIsLive
<1>6. ~Foretold(worker[w].key) /\ cacheCurrent(worker[w].key)
  BY DEF Due
<1> QED BY <1>1, <1>3, <1>4, <1>5, <1>6, NothingForetold DEF BranchFacts

\* Up to the evaluation.
LEMMA CleanupSeen ==
    ASSUME RestInv, TypeOK', NEW w \in Workers, NEW g \in Gateways, worker[w].key = g,
           ~Due(g), UNCHANGED routed,
           clearManagedGatewayStatus(w) \/ removeGatewayFinalizer(w) \/ ensureGatewayFinalizer(w)
    PROVE  Seen(g)'
<1>0. /\ TypeOK /\ ExclusiveKeys /\ PublishedHasFinalizer /\ DeletingHasFinalizer
      /\ worker[w] \in Task
  BY DEF RestInv, BaseInv, ReconcileInv, TypeOK
<1>1. /\ taskFact(worker[w]) /\ branchFact(worker[w])
      /\ worker[w].copy = gw[g] /\ cacheCurrent(g)
      /\ reservations(g) = listOwnedGatewayIPAddresses(g)
  BY QuietTask
<1>2. ASSUME NEW o, NEW t, writeGateway(g, o, w, t) PROVE Seen(g)'
  BY <1>0, <1>2, GatewayWrite DEF Seen, Due
<1>3. ASSUME retry(w) PROVE Seen(g)'
  BY <1>3 DEF retry, Seen, Due
<1>4. ASSUME clearManagedGatewayStatus(w) PROVE Seen(g)'
  <2> DEFINE next == [worker[w] EXCEPT !.pc = "cleanup",
                                       !.todo = listOwnedGatewayIPAddresses(worker[w].key)]
  <2>1. CASE worker' = [worker EXCEPT ![w] = next]
    <3>1. /\ next.key = g /\ next.pc = "cleanup" /\ next.copy = worker[w].copy
          /\ next.todo = listOwnedGatewayIPAddresses(g)
      BY <1>0 DEF Task
    <3>2. next.fresh <=> worker[w].fresh
      BY <1>0 DEF Task
    <3>3. worker[w].pc = "clear" /\ reservations(g)' = reservations(g)
      BY <1>4 DEF clearManagedGatewayStatus, noWriteIP, reservations
    <3> HIDE DEF next
    <3>4. worker[w].copy.kind = "other"
      BY <1>1, <3>3 DEF branchFact
    <3>5. taskFact(next)
      BY <1>1, <3>1, <3>2, <3>4 DEF taskFact
    <3> QED BY <1>0, <2>1, <3>1, <3>3, <3>5, GoesOn
  <2> QED BY <1>2, <1>3, <1>4, <2>1 DEF clearManagedGatewayStatus
<1>5. ASSUME removeGatewayFinalizer(w) PROVE Seen(g)'
  <2>1. CASE gw[g].exists /\ gw[g].fin
    BY <1>2, <1>5, <2>1 DEF removeGatewayFinalizer
  <2>2. CASE ~(gw[g].exists /\ gw[g].fin)
    <3>1. done(w) /\ UNCHANGED <<gw, ip>> /\ worker[w].pc = "cleanup" /\ worker[w].todo = {}
      BY <1>5, <2>2 DEF removeGatewayFinalizer, noWriteGateway, noWriteIP
    <3>2. reservations(g) = {} /\ (gw[g].kind = "other" \/ gw[g].deleting)
      BY <1>1, <3>1 DEF taskFact
    <3>3. gw[g].exists => ~gw[g].fin /\ gw[g].kind = "other" /\ gw[g].status.addr = NoAddr
      BY <1>0, <2>2, <3>2 DEF DeletingHasFinalizer, PublishedHasFinalizer
    <3>4. atRest(g)
      BY <3>2, <3>3 DEF atRest, Accepted, Managed, releasedRest
    <3> QED BY <1>0, <3>1, <3>4, Ends
  <2> QED BY <2>1, <2>2
<1>6. ASSUME ensureGatewayFinalizer(w) PROVE Seen(g)'
  <2>1. worker[w].pc = "finalize"
    BY <1>6 DEF ensureGatewayFinalizer
  <2>2. ~gw[g].fin
    BY <1>1, <2>1 DEF branchFact
  <2> QED BY <1>2, <1>3, <1>6, <2>2 DEF ensureGatewayFinalizer
<1> QED BY <1>4, <1>5, <1>6

\* advance, as a task.
LEMMA AdvanceTask ==
    ASSUME TypeOK, NEW w \in Workers, NEW pc, NEW todo, NEW want, advance(w, pc, todo, want)
    PROVE  \E t : /\ worker' = [worker EXCEPT ![w] = t]
                  /\ t.key = worker[w].key /\ t.copy = worker[w].copy
                  /\ (t.fresh <=> worker[w].fresh)
                  /\ t.pc = pc /\ t.todo = todo /\ t.want = want
<1> DEFINE t == [worker[w] EXCEPT !.pc = pc, !.todo = todo, !.want = want]
<1>1. worker[w] \in Task
  BY DEF TypeOK
<1>2. /\ t.key = worker[w].key /\ t.copy = worker[w].copy
      /\ t.pc = pc /\ t.todo = todo /\ t.want = want
  BY <1>1 DEF Task
<1>3. t.fresh <=> worker[w].fresh
  BY <1>1 DEF Task
<1>4. worker' = [worker EXCEPT ![w] = t]
  BY DEF advance
<1> HIDE DEF t
<1> QED BY <1>2, <1>3, <1>4

\* The calls on IPAddresses, and the evaluation before them.
LEMMA AddressSeen ==
    ASSUME RestInv, NEW w \in Workers, NEW g \in Gateways, worker[w].key = g,
           ~Due(g), UNCHANGED <<routed, ipCache>>,
           \/ evaluateGateway(w)
           \/ \E a \in Pool : deleteIPAddress(w, a) \/ createIPAddress(w, a)
    PROVE  Seen(g)'
<1>0. TypeOK /\ IPInv
  BY DEF RestInv, BaseInv
<1>1. /\ taskFact(worker[w]) /\ branchFact(worker[w])
      /\ reservations(g) = listOwnedGatewayIPAddresses(g)
  BY QuietTask
<1>2. ASSUME evaluateGateway(w) PROVE Seen(g)'
  <2> DEFINE owned == listOwnedGatewayIPAddresses(g)
  <2>1. reservations(g)' = reservations(g)
    BY <1>2 DEF evaluateGateway, noWriteIP, reservations
  <2>2. CASE /\ ~evaluationValid(worker[w].copy, g)
             /\ advance(w, "retract", owned, [addr |-> NoAddr, cond |-> "invalid"])
    <3>1. PICK t : /\ worker' = [worker EXCEPT ![w] = t]
                   /\ t.key = g /\ t.copy = worker[w].copy /\ (t.fresh <=> worker[w].fresh)
                   /\ t.pc = "retract" /\ t.todo = owned
                   /\ t.want = [addr |-> NoAddr, cond |-> "invalid"]
      BY <1>0, <2>2, AdvanceTask
    <3>2. taskFact(t)
      BY <1>1, <2>2, <3>1 DEF taskFact
    <3> QED BY <1>0, <2>1, <3>1, <3>2, GoesOn
  <2>3. ASSUME NEW vip \in owned, evaluationValid(worker[w].copy, g),
               advance(w, "prune", owned \ {vip}, [addr |-> vip, cond |-> "pending"])
        PROVE  Seen(g)'
    <3>1. PICK t : /\ worker' = [worker EXCEPT ![w] = t]
                   /\ t.key = g /\ t.copy = worker[w].copy /\ (t.fresh <=> worker[w].fresh)
                   /\ t.pc = "prune" /\ t.todo = owned \ {vip}
                   /\ t.want = [addr |-> vip, cond |-> "pending"]
      BY <1>0, <2>3, AdvanceTask
    <3>2. reservations(g) = t.todo \cup {t.want.addr}
      BY <1>1, <2>3, <3>1
    <3>3. taskFact(t)
      BY <1>1, <2>3, <3>1, <3>2 DEF taskFact
    <3> QED BY <1>0, <2>1, <3>1, <3>3, GoesOn
  <2>4. CASE /\ evaluationValid(worker[w].copy, g) /\ owned = {}
             /\ advance(w, "status", {}, [addr |-> NoAddr, cond |-> "noCIDR"])
    <3>1. PICK t : /\ worker' = [worker EXCEPT ![w] = t]
                   /\ t.key = g /\ t.copy = worker[w].copy /\ (t.fresh <=> worker[w].fresh)
                   /\ t.pc = "status" /\ t.todo = {}
                   /\ t.want = [addr |-> NoAddr, cond |-> "noCIDR"]
      BY <1>0, <2>4, AdvanceTask
    <3>2. taskFact(t)
      BY <1>1, <2>4, <3>1 DEF taskFact
    <3> QED BY <1>0, <2>1, <3>1, <3>2, GoesOn
  <2>5. CASE /\ evaluationValid(worker[w].copy, g) /\ owned = {}
             /\ advance(w, "allocate", candidates, [addr |-> NoAddr, cond |-> "exhausted"])
    <3>1. PICK t : /\ worker' = [worker EXCEPT ![w] = t]
                   /\ t.key = g /\ t.copy = worker[w].copy /\ (t.fresh <=> worker[w].fresh)
                   /\ t.pc = "allocate" /\ t.todo = candidates
                   /\ t.want = [addr |-> NoAddr, cond |-> "exhausted"]
      BY <1>0, <2>5, AdvanceTask
    <3>2. taskFact(t)
      BY <1>1, <2>5, <3>1 DEF taskFact
    <3> QED BY <1>0, <2>1, <3>1, <3>2, GoesOn
  <2> QED BY <1>2, <2>2, <2>3, <2>4, <2>5 DEF evaluateGateway
<1>3. ASSUME NEW a \in Pool, deleteIPAddress(w, a) PROVE Seen(g)'
  <2>1. /\ a \in worker[w].todo /\ worker[w].pc \in {"cleanup", "retract", "prune"}
        /\ IF ip[a] = None THEN noWriteIP ELSE writeIP(a, None)
        /\ advance(w, worker[w].pc, worker[w].todo \ {a}, worker[w].want)
    BY <1>3 DEF deleteIPAddress
  <2>2. CASE ip[a] = g
    <3>1. writeIP(a, None) /\ None \in Owner /\ ipCache[a] = g
      BY <1>1, <2>1, <2>2, OwnerAssumption DEF Owner, reservations, listOwnedGatewayIPAddresses
    <3>2. Foretold(g)'
      BY <1>0, <3>1, WriteIPSeen
    <3> QED BY <3>2 DEF Seen, Due
  <2>3. CASE ip[a] # g
    <3>1. reservations(g)' = reservations(g) /\ a \notin reservations(g)
      BY <1>0, <2>1, <2>3, OwnerAssumption DEF noWriteIP, writeIP, reservations, TypeOK
    <3>2. worker[w].pc # "prune"
      BY <1>1, <2>1, <3>1 DEF taskFact
    <3>3. PICK t : /\ worker' = [worker EXCEPT ![w] = t]
                   /\ t.key = g /\ t.copy = worker[w].copy /\ (t.fresh <=> worker[w].fresh)
                   /\ t.pc = worker[w].pc /\ t.todo = worker[w].todo \ {a}
                   /\ t.want = worker[w].want
      BY <1>0, <2>1, AdvanceTask
    <3>4. taskFact(t)
      BY <1>1, <2>1, <3>1, <3>2, <3>3 DEF taskFact
    <3> QED BY <1>0, <3>1, <3>3, <3>4, GoesOn
  <2> QED BY <2>2, <2>3
<1>4. ASSUME NEW a \in Pool, createIPAddress(w, a) PROVE Seen(g)'
  <2>1. worker[w].pc = "allocate"
    BY <1>4 DEF createIPAddress
  <2>2. CASE ip[a] = None
    <3>1. writeIP(a, g) /\ g \in Owner
      BY <1>4, <2>2 DEF createIPAddress, Owner
    <3>2. Foretold(g)'
      BY <1>0, <2>2, <3>1, WriteIPSeen
    <3> QED BY <3>2 DEF Seen, Due
  <2>3. CASE ip[a] # None
    <3>1. reservations(g)' = reservations(g)
      BY <1>4, <2>3 DEF createIPAddress, noWriteIP, reservations
    <3>2. advance(w, "allocate", worker[w].todo \ {a}, worker[w].want)
      BY <1>4, <2>3 DEF createIPAddress
    <3>3. PICK t : /\ worker' = [worker EXCEPT ![w] = t]
                   /\ t.key = g /\ t.copy = worker[w].copy /\ (t.fresh <=> worker[w].fresh)
                   /\ t.pc = "allocate" /\ t.want = worker[w].want
      BY <1>0, <3>2, AdvanceTask
    <3>4. taskFact(t)
      BY <1>1, <2>1, <3>3 DEF taskFact
    <3> QED BY <1>0, <3>1, <3>3, <3>4, GoesOn
  <2> QED BY <2>2, <2>3
<1> QED BY <1>2, <1>3, <1>4

\* The status, and failures.
LEMMA StatusSeen ==
    ASSUME RestInv, TypeOK', NEW w \in Workers, NEW g \in Gateways, worker[w].key = g,
           ~Due(g), UNCHANGED routed, updateGatewayStatus(w) \/ apiCallFails(w)
    PROVE  Seen(g)'
<1>0. TypeOK /\ ExclusiveKeys
  BY DEF RestInv, BaseInv
<1>1. /\ taskFact(worker[w]) /\ branchFact(worker[w]) /\ worker[w].copy = gw[g]
  BY QuietTask
<1>2. ASSUME NEW o, NEW t, writeGateway(g, o, w, t) PROVE Seen(g)'
  BY <1>0, <1>2, GatewayWrite DEF Seen, Due
<1>3. ASSUME retry(w) PROVE Seen(g)'
  BY <1>3 DEF retry, Seen, Due
<1>4. ASSUME updateGatewayStatus(w) PROVE Seen(g)'
  <2>1. /\ worker[w].pc \in {"retract", "prune", "allocate", "status"} /\ worker[w].todo = {}
    BY <1>4 DEF updateGatewayStatus
  <2>2. CASE gatewayStatusEqual(worker[w].copy, worker[w].want)
    <3>1. done(w) /\ UNCHANGED <<gw, ip>>
      BY <1>4, <2>2 DEF updateGatewayStatus, noWriteGateway, noWriteIP
    <3>2. gw[g].status = worker[w].want
      BY <1>1, <2>2 DEF gatewayStatusEqual
    <3>3. gw[g].kind # "other" /\ ~gw[g].deleting /\ gw[g].fin
      BY <1>1, <2>1 DEF branchFact, taskFact
    <3>4. ASSUME worker[w].pc = "retract" PROVE atRest(g)
      <4>1. ~evaluationValid(gw[g], g) /\ gw[g].status.addr = NoAddr /\ reservations(g) = {}
        BY <1>1, <2>1, <3>2, <3>4 DEF taskFact
      <4> QED BY <3>3, <4>1 DEF atRest, Accepted, releasedRest
    <3>5. ASSUME worker[w].pc # "retract" PROVE atRest(g)
      <4>1. evaluationValid(gw[g], g) /\ acceptedRest(g)
        BY <1>1, <2>1, <3>2, <3>3, <3>5 DEF taskFact, acceptedRest
      <4> QED BY <3>3, <4>1 DEF atRest, Accepted, Managed
    <3>6. atRest(g)
      BY <3>4, <3>5
    <3> QED BY <1>0, <3>1, <3>6, Ends
  <2>3. CASE ~gatewayStatusEqual(worker[w].copy, worker[w].want)
    BY <1>2, <1>3, <1>4, <2>3 DEF updateGatewayStatus
  <2> QED BY <2>2, <2>3
<1>5. ASSUME apiCallFails(w) PROVE Seen(g)'
  <2>1. CASE /\ worker[w].pc \in {"prune", "allocate"}
             /\ advance(w, "status", {}, [addr |-> NoAddr, cond |-> "apiError"])
    <3>1. PICK t : /\ worker' = [worker EXCEPT ![w] = t]
                   /\ t.key = g /\ t.copy = worker[w].copy /\ (t.fresh <=> worker[w].fresh)
                   /\ t.pc = "status" /\ t.want = [addr |-> NoAddr, cond |-> "apiError"]
      BY <1>0, <2>1, AdvanceTask
    <3>2. taskFact(t)
      BY <1>1, <2>1, <3>1 DEF taskFact
    <3>3. reservations(g)' = reservations(g)
      BY <1>5 DEF apiCallFails, noWriteIP, reservations
    <3> QED BY <1>0, <3>1, <3>2, <3>3, GoesOn
  <2> QED BY <1>3, <1>5, <2>1 DEF apiCallFails
<1> QED BY <1>4, <1>5

\* A call of a reconcile.
LEMMA ReconcileSeen ==
    ASSUME RestInv, TypeOK', NEW w \in Workers, reconcile(w) \/ apiCallFails(w)
    PROVE  IPInv' /\ \A h \in Gateways : Seen(h)'
<1>1. /\ IPInv'
      /\ \A h \in Gateways : Due(h) => Due(h)'
      /\ \A h \in Gateways : h # worker[w].key => Seen(h)'
  BY ReconcileOthers
<1>2. worker[w].key \in Gateways /\ UNCHANGED <<routed, ipCache>>
  BY ReconcileFrame DEF RestInv, BaseInv
<1>3. ASSUME NEW g \in Gateways, g = worker[w].key, ~Due(g) PROVE Seen(g)'
  BY <1>2, <1>3, CleanupSeen, AddressSeen, StatusSeen DEF reconcile
<1>4. ASSUME NEW g \in Gateways, Due(g) PROVE Seen(g)'
  BY <1>1, <1>4 DEF Seen
<1> QED BY <1>1, <1>3, <1>4

\* A reconcile starts: what it reads is so, or another one is due.
LEMMA ProcessSeen ==
    ASSUME RestInv, NEW w \in Workers, NEW g \in Gateways, processNextGateway(w, g)
    PROVE  IPInv' /\ \A h \in Gateways : Seen(h)'
<1>0. TypeOK /\ Busy /\ LastEventIsLive /\ IPInv
  BY DEF RestInv, BaseInv, ReconcileInv
<1>1. readOnly /\ getKey(w, g)
  BY DEF processNextGateway, reconcileMissing, reconcileForeign, reconcileDeleting,
         reconcileManaged
<1>2. /\ queue' = queue \ {g} /\ worker[w].key = None
      /\ \A v \in Workers : worker[v].key # g
      /\ UNCHANGED <<gw, ip, gwCache, gwEvents, ipCache, ipEvents, routed>>
  BY <1>0, <1>1 DEF getKey, readOnly, Busy
<1>3. IPInv'
  BY <1>0, <1>2 DEF IPInv, LastIPEventIsLive, IPDeletedFirst, ipCurrent
<1>4. /\ \A h : Foretold(h)' <=> Foretold(h)
      /\ \A h : cacheCurrent(h)' <=> cacheCurrent(h)
      /\ \A h : reservations(h)' = reservations(h)
  BY <1>2 DEF Foretold, cacheCurrent, reservations
<1>5. \/ UNCHANGED worker /\ ~gwCache[g].exists
      \/ begin(w, g, "clear", {})
      \/ /\ begin(w, g, "cleanup", listOwnedGatewayIPAddresses(g))
         /\ gwCache[g].kind = "other" \/ gwCache[g].deleting
      \/ begin(w, g, "evaluate", {})
      \/ begin(w, g, "finalize", {})
  BY DEF processNextGateway, reconcileMissing, reconcileForeign, reconcileDeleting,
         reconcileManaged
<1>6. /\ \A v \in Workers : v # w => worker'[v] = worker[v]
      /\ worker'[w].key = g \/ UNCHANGED worker
  BY <1>0, <1>5 DEF begin, TypeOK
<1>7. ASSUME NEW h \in Gateways, h # g PROVE Seen(h)'
  <2>1. Seen(h) /\ (Due(h) => Due(h)')
    BY <1>2, <1>4, <1>7 DEF RestInv, Due
  <2>2. \A v \in Workers : worker[v].key = h \/ worker'[v].key = h => worker'[v] = worker[v]
    BY <1>2, <1>6, <1>7, OwnerAssumption
  <2> QED BY <1>2, <1>4, <2>1, <2>2, OtherSeen
<1>8. ASSUME ~Due(g)' PROVE Seen(g)'
  <2>1. cacheCurrent(g) /\ ~Foretold(g)
    BY <1>4, <1>8 DEF Due
  <2>2. gwCache[g] = gw[g] /\ reservations(g) = listOwnedGatewayIPAddresses(g)
    BY <1>0, <2>1, NothingForetold DEF LastEventIsLive, IPInv
  <2>3. CASE UNCHANGED worker /\ ~gwCache[g].exists
    BY <1>2, <2>2, <2>3 DEF Seen, atRest
  <2>4. ASSUME NEW pc \in {"clear", "cleanup", "evaluate", "finalize"}, NEW todo,
               begin(w, g, pc, todo),
               pc = "cleanup" => /\ todo = listOwnedGatewayIPAddresses(g)
                                 /\ gwCache[g].kind = "other" \/ gwCache[g].deleting
        PROVE  Seen(g)'
    <3> DEFINE t == [pc |-> pc, key |-> g, copy |-> gwCache[g],
                     fresh |-> cacheCurrent(g), todo |-> todo, want |-> NoStatus]
    <3>1. worker' = [worker EXCEPT ![w] = t]
      BY <2>4 DEF begin
    <3>2. t.pc = pc /\ t.key = g /\ t.copy = gwCache[g] /\ t.todo = todo
      OBVIOUS
    <3>3. t.fresh
      BY <2>1
    <3> HIDE DEF t
    <3>4. taskFact(t)
      BY <2>2, <2>4, <3>2, <3>3 DEF taskFact
    <3> QED BY <1>0, <1>2, <1>4, <3>1, <3>2, <3>4, GoesOn
  <2> QED BY <1>5, <2>3, <2>4
<1> QED BY <1>3, <1>7, <1>8 DEF Seen

\* The informers, and a new process.
LEMMA InformerSeen ==
    ASSUME RestInv, deliverGateway \/ deliverIPAddress \/ resync \/ restart
    PROVE  IPInv' /\ \A h \in Gateways : Seen(h)'
<1>0. TypeOK /\ IPInv /\ \A h \in Gateways : Seen(h)
  BY DEF RestInv, BaseInv
<1>1. ASSUME deliverGateway PROVE IPInv' /\ \A h \in Gateways : Due(h) => Due(h)'
  <2>1. UNCHANGED <<ip, ipCache, ipEvents>> /\ queue' = queue \cup {gwEvents[1].key}
    BY <1>0, <1>1, DeliverEvents DEF deliverGateway
  <2>2. IPInv' /\ \A h : Foretold(h)' <=> Foretold(h)
    BY <1>0, <2>1 DEF IPInv, LastIPEventIsLive, IPDeletedFirst, ipCurrent, Foretold
  <2>3. ASSUME NEW h \in Gateways, ~cacheCurrent(h), h \notin queue'
        PROVE  ~cacheCurrent(h)'
    <3>1. PICK i \in 1..Len(gwEvents) : gwEvents[i].key = h
      BY <2>3 DEF cacheCurrent
    <3>2. /\ Len(gwEvents) \in Nat /\ Len(gwEvents') = Len(gwEvents) - 1
          /\ \A j \in 1..Len(gwEvents') : gwEvents'[j] = gwEvents[j + 1]
      BY <1>0, <1>1, DeliverEvents
    <3>3. i # 1
      BY <2>1, <2>3, <3>1
    <3>4. i - 1 \in 1..Len(gwEvents') /\ gwEvents'[i - 1] = gwEvents[i]
      BY <3>2, <3>3
    <3> QED BY <3>1, <3>4 DEF cacheCurrent
  <2> QED BY <2>1, <2>2, <2>3 DEF Due
<1>2. ASSUME deliverIPAddress PROVE IPInv' /\ \A h \in Gateways : Due(h) => Due(h)'
  <2>1. queue \subseteq queue' /\ gwEvents' = gwEvents
    BY <1>2 DEF deliverIPAddress
  <2>2. IPInv' /\ \A h \in Gateways : Foretold(h) => Foretold(h)' \/ h \in queue'
    BY <1>0, <1>2, DeliverIPSeen
  <2> QED BY <2>1, <2>2 DEF Due, cacheCurrent
<1>3. ASSUME resync PROVE IPInv' /\ \A h \in Gateways : Due(h) => Due(h)'
  BY <1>0, <1>3 DEF resync, IPInv, LastIPEventIsLive, IPDeletedFirst, ipCurrent, Foretold,
                    Due, cacheCurrent
<1>4. ASSUME deliverGateway \/ deliverIPAddress \/ resync
      PROVE  IPInv' /\ \A h \in Gateways : Seen(h)'
  <2>1. UNCHANGED <<gw, ip, routed, worker>>
    BY <1>4 DEF deliverGateway, deliverIPAddress, resync
  <2>2. \A h : reservations(h)' = reservations(h)
    BY <2>1 DEF reservations
  <2>3. IPInv' /\ \A h \in Gateways : Due(h) => Due(h)'
    BY <1>1, <1>2, <1>3, <1>4
  <2> QED BY <1>0, <2>1, <2>2, <2>3, OtherSeen
<1>5. ASSUME restart PROVE IPInv' /\ \A h \in Gateways : Seen(h)'
  <2>1. /\ ipCache' = ip' /\ ipEvents' = <<>> /\ gw' = gw
        /\ worker' = [v \in Workers |-> Idle]
        /\ queue' = {g \in Gateways : gw[g].exists \/ \E a \in Pool : ip[a] = g}
    BY <1>5 DEF restart
  <2>2. \A i : i \notin 1..Len(ipEvents')
    BY <2>1
  <2>3. IPInv'
    BY <2>1, <2>2 DEF IPInv, LastIPEventIsLive, IPDeletedFirst
  <2>4. ASSUME NEW h \in Gateways PROVE Seen(h)'
    <3>1. CASE gw[h].exists
      BY <2>1, <3>1 DEF Seen, Due
    <3>2. CASE ~gw[h].exists
      <4>1. \A v \in Workers : worker'[v].key # h
        BY <2>1, OwnerAssumption DEF Idle
      <4> QED BY <2>1, <3>2, <4>1 DEF Seen, atRest
    <3> QED BY <3>1, <3>2
  <2> QED BY <2>3, <2>4
<1> QED BY <1>4, <1>5

\* Users, other controllers and the API server's allocator.
LEMMA EnvironmentSeen ==
    ASSUME RestInv, TypeOK', Environment \/ UNCHANGED vars
    PROVE  IPInv' /\ \A h \in Gateways : Seen(h)'
<1>0. TypeOK /\ IPInv /\ \A h \in Gateways : Seen(h)
  BY DEF RestInv, BaseInv
<1>1. UNCHANGED ipCache /\ queue \subseteq queue'
  BY DEF Environment, createGateway, editGateway, deleteGateway, userWritesGateway, changeRoutes,
         changeServiceCIDRs, serviceTakes, serviceFrees, vars
<1>2. IPStep
  <2>1. None \in Owner /\ Service \in Owner
    BY DEF Owner
  <2>2. ASSUME NEW a \in Pool, serviceTakes(a) PROVE IPStep
    BY <2>1, <2>2 DEF serviceTakes, IPStep
  <2>3. ASSUME NEW a \in Pool, serviceFrees(a) PROVE IPStep
    BY <2>1, <2>3 DEF serviceFrees, IPStep
  <2> QED BY <2>2, <2>3 DEF Environment, createGateway, editGateway, deleteGateway,
             userWritesGateway, changeRoutes, changeServiceCIDRs, vars, IPStep, noWriteIP
<1>3. /\ IPInv'
      /\ \A h \in Gateways : /\ Foretold(h) => Foretold(h)'
                             /\ reservations(h)' = reservations(h) \/ Foretold(h)'
  BY <1>0, <1>1, <1>2, IPStepSeen
<1>4. ASSUME NEW g \in Gateways, NEW o, userWritesGateway(g, o)
      PROVE  \A h \in Gateways : Seen(h)'
  <2>1. writeGateway(g, o, None, Idle) /\ UNCHANGED routed
    BY <1>4 DEF userWritesGateway
  <2>2. /\ ~cacheCurrent(g)'
        /\ \A h \in Gateways : /\ h # g => gw'[h] = gw[h]
                               /\ ~cacheCurrent(h) => ~cacheCurrent(h)'
        /\ \A u \in Workers : u # None /\ worker[u].key # g => worker'[u] = worker[u]
    BY <1>0, <2>1, GatewayWrite
  <2>3. \A u \in Workers : u # None /\ worker'[u].key = worker[u].key
    BY <1>0, <2>1, WriteKeepsOthers, OwnerAssumption
  <2>4. ASSUME NEW h \in Gateways, h # g PROVE Seen(h)'
    <3>1. (Due(h) => Due(h)') /\ (reservations(h)' = reservations(h) \/ Due(h)')
      BY <1>1, <1>3, <2>2 DEF Due
    <3>2. \A u \in Workers : worker[u].key = h \/ worker'[u].key = h => worker'[u] = worker[u]
      BY <2>2, <2>3, <2>4
    <3> QED BY <1>0, <2>1, <2>2, <2>4, <3>1, <3>2, OtherSeen
  <2> QED BY <2>2, <2>4 DEF Seen, Due
<1>5. ASSUME UNCHANGED <<gw, gwEvents, worker>>,
             \A h \in Gateways : routed'[h] = routed[h] \/ h \in queue'
      PROVE  \A h \in Gateways : Seen(h)'
  <2>1. \A h \in Gateways : (Due(h) => Due(h)') /\ (reservations(h)' = reservations(h) \/ Due(h)')
    BY <1>1, <1>3, <1>5 DEF Due, cacheCurrent
  <2>2. \A h \in Gateways : h \in queue' => Seen(h)'
    BY DEF Seen, Due
  <2> QED BY <1>0, <1>5, <2>1, <2>2, OtherSeen
<1>6. ASSUME NEW g \in Gateways, changeRoutes(g) PROVE \A h \in Gateways : Seen(h)'
  <2>1. \A h \in Gateways : routed'[h] = routed[h] \/ h \in queue'
    BY <1>0, <1>6 DEF changeRoutes, TypeOK
  <2> QED BY <1>5, <1>6, <2>1 DEF changeRoutes
<1>7. ASSUME NEW S, changeServiceCIDRs(S) PROVE \A h \in Gateways : Seen(h)'
  BY <1>5, <1>7 DEF changeServiceCIDRs
<1>8. ASSUME NEW a, serviceTakes(a) \/ serviceFrees(a) PROVE \A h \in Gateways : Seen(h)'
  BY <1>5, <1>8 DEF serviceTakes, serviceFrees
<1>9. ASSUME UNCHANGED vars PROVE \A h \in Gateways : Seen(h)'
  BY <1>5, <1>9 DEF vars
<1>10. \A h \in Gateways : Seen(h)'
  BY <1>4, <1>6, <1>7, <1>8, <1>9 DEF Environment, createGateway, editGateway, deleteGateway
<1> QED BY <1>3, <1>10

-----------------------------------------------------------------------------
(* All Gateways *)

\* A Gateway that is being deleted is kept by the finalizer.
LEMMA DeletingStep ==
    ASSUME TypeOK, Busy, DeletingHasFinalizer, [Next]_vars
    PROVE  DeletingHasFinalizer'
<1>1. ASSUME NEW g \in Gateways, NEW o, NEW w, NEW t, writeGateway(g, o, w, t),
             o.deleting => o.fin
      PROVE  DeletingHasFinalizer'
  BY <1>1 DEF writeGateway, DeletingHasFinalizer, TypeOK
<1>2. ASSUME UNCHANGED gw PROVE DeletingHasFinalizer'
  BY <1>2 DEF DeletingHasFinalizer
<1>3. \A g \in Gateways : gw[g] \in GatewayObject /\ (gw[g].deleting => gw[g].fin)
  BY DEF TypeOK, DeletingHasFinalizer
<1>4. ~NoGateway.deleting /\ \A k \in Kind : ~NewGateway(k).deleting
  BY DEF NoGateway, NewGateway
<1>5. ASSUME NEW w \in Workers, reconcile(w) \/ apiCallFails(w) PROVE DeletingHasFinalizer'
  <2> DEFINE g == worker[w].key
  <2>1. g \in Gateways
    BY <1>5, ReconcileFrame
  <2>2. ASSUME clearManagedGatewayStatus(w) PROVE DeletingHasFinalizer'
    <3> DEFINE o == [gw[g] EXCEPT !.status = NoStatus]
    <3>1. o.deleting => o.fin
      BY <1>3, <2>1 DEF GatewayObject
    <3>2. UNCHANGED gw \/ \E t : writeGateway(g, o, w, t)
      BY <2>2 DEF clearManagedGatewayStatus, noWriteGateway
    <3> HIDE DEF o
    <3> QED BY <1>1, <1>2, <2>1, <3>1, <3>2
  <2>3. ASSUME removeGatewayFinalizer(w) PROVE DeletingHasFinalizer'
    <3> DEFINE o == IF gw[g].deleting THEN NoGateway ELSE [gw[g] EXCEPT !.fin = FALSE]
    <3>1. o.deleting => o.fin
      BY <1>3, <1>4, <2>1 DEF GatewayObject
    <3>2. UNCHANGED gw \/ \E t : writeGateway(g, o, w, t)
      BY <2>3 DEF removeGatewayFinalizer, noWriteGateway
    <3> HIDE DEF o
    <3> QED BY <1>1, <1>2, <2>1, <3>1, <3>2
  <2>4. ASSUME ensureGatewayFinalizer(w) PROVE DeletingHasFinalizer'
    <3> DEFINE o == [gw[g] EXCEPT !.fin = TRUE]
    <3>1. o.deleting => o.fin
      BY <1>3, <2>1 DEF GatewayObject
    <3>2. UNCHANGED gw \/ \E t : writeGateway(g, o, w, t)
      BY <2>4 DEF ensureGatewayFinalizer, noWriteGateway
    <3> HIDE DEF o
    <3> QED BY <1>1, <1>2, <2>1, <3>1, <3>2
  <2>5. ASSUME updateGatewayStatus(w) PROVE DeletingHasFinalizer'
    <3> DEFINE o == [gw[g] EXCEPT !.status = worker[w].want, !.observed = TRUE]
    <3>1. o.deleting => o.fin
      BY <1>3, <2>1 DEF GatewayObject
    <3>2. UNCHANGED gw \/ \E t : writeGateway(g, o, w, t)
      BY <2>5 DEF updateGatewayStatus, noWriteGateway
    <3> HIDE DEF o
    <3> QED BY <1>1, <1>2, <2>1, <3>1, <3>2
  <2>6. ASSUME \/ \E a \in Pool : deleteIPAddress(w, a) \/ createIPAddress(w, a)
               \/ evaluateGateway(w) \/ apiCallFails(w)
        PROVE  DeletingHasFinalizer'
    BY <1>2, <2>6 DEF deleteIPAddress, createIPAddress, evaluateGateway, apiCallFails,
                      noWriteGateway
  <2> QED BY <1>5, <2>2, <2>3, <2>4, <2>5, <2>6 DEF reconcile
<1>6. ASSUME NEW g \in Gateways, NEW k \in Kind, createGateway(g, k) PROVE DeletingHasFinalizer'
  BY <1>1, <1>4, <1>6 DEF createGateway, userWritesGateway
<1>7. ASSUME NEW g \in Gateways, NEW k \in Kind, editGateway(g, k) PROVE DeletingHasFinalizer'
  <2> DEFINE o == [gw[g] EXCEPT !.kind = k, !.observed = FALSE]
  <2>1. ~o.deleting
    BY <1>3, <1>7 DEF GatewayObject, editGateway
  <2>2. writeGateway(g, o, None, Idle)
    BY <1>7 DEF editGateway, userWritesGateway
  <2> HIDE DEF o
  <2> QED BY <1>1, <2>1, <2>2
<1>8. ASSUME NEW g \in Gateways, deleteGateway(g) PROVE DeletingHasFinalizer'
  <2> DEFINE o == IF gw[g].fin THEN [gw[g] EXCEPT !.deleting = TRUE] ELSE NoGateway
  <2>1. o.deleting => o.fin
    BY <1>3, <1>4 DEF GatewayObject
  <2>2. writeGateway(g, o, None, Idle)
    BY <1>8 DEF deleteGateway, userWritesGateway
  <2> HIDE DEF o
  <2> QED BY <1>1, <2>1, <2>2
<1>9. ASSUME \/ \E w \in Workers, g \in Gateways : processNextGateway(w, g)
             \/ deliverGateway \/ deliverIPAddress \/ resync \/ restart \/ UNCHANGED vars
             \/ \E g \in Gateways : changeRoutes(g)
             \/ \E S \in SUBSET Pool : changeServiceCIDRs(S)
             \/ \E a \in Pool : serviceTakes(a) \/ serviceFrees(a)
      PROVE  DeletingHasFinalizer'
  BY <1>2, <1>9 DEF processNextGateway, reconcileMissing, reconcileForeign, reconcileDeleting,
     reconcileManaged, readOnly, deliverGateway, deliverIPAddress, resync, restart, vars,
     changeRoutes, changeServiceCIDRs, serviceTakes, serviceFrees
<1> QED BY <1>5, <1>6, <1>7, <1>8, <1>9 DEF Next, Environment

LEMMA RestInit == Init => RestInv
<1> SUFFICES ASSUME Init PROVE RestInv
  OBVIOUS
<1>1. BaseInv
  BY InitType, InitReconcile DEF Init, BaseInv, ExclusiveKeys, Idle
<1>2. \A i : i \notin 1..Len(ipEvents)
  BY DEF Init
<1>3. IPInv
  BY <1>2 DEF Init, IPInv, LastIPEventIsLive, IPDeletedFirst
<1>4. DeletingHasFinalizer
  <2>1. ~NoGateway.deleting /\ ~NewGateway("valid").deleting
    BY DEF NoGateway, NewGateway
  <2>2. \A g \in Gateways : gw[g] \in {NoGateway, NewGateway("valid")}
    BY DEF Init
  <2> QED BY <2>1, <2>2 DEF DeletingHasFinalizer
<1>5. ASSUME NEW g \in Gateways PROVE Seen(g)
  <2>1. CASE gw[g].exists
    BY <2>1 DEF Init, Seen, Due
  <2>2. CASE ~gw[g].exists
    <3>1. \A w \in Workers : worker[w].key # g
      BY OwnerAssumption DEF Init, Idle
    <3> QED BY <2>2, <3>1 DEF Seen, atRest
  <2> QED BY <2>1, <2>2
<1> QED BY <1>1, <1>3, <1>4, <1>5 DEF RestInv

LEMMA RestStep == RestInv /\ [Next]_vars => RestInv'
<1> SUFFICES ASSUME RestInv, [Next]_vars PROVE RestInv'
  OBVIOUS
<1>1. BaseInv'
  BY StepType, StepKeys, StepReconcile DEF RestInv, BaseInv
<1>2. DeletingHasFinalizer'
  BY DeletingStep DEF RestInv, BaseInv
<1>3. TypeOK'
  BY <1>1 DEF BaseInv
<1>4. IPInv' /\ \A g \in Gateways : Seen(g)'
  BY <1>3, ProcessSeen, ReconcileSeen, InformerSeen, EnvironmentSeen DEF Next
<1> QED BY <1>1, <1>2, <1>4 DEF RestInv

\* When nothing is left to do, every Gateway is at rest.
LEMMA QuiescentRest ==
    ASSUME RestInv, Quiescent, NEW g \in Gateways
    PROVE  atRest(g)
<1>1. Seen(g) /\ Busy
  BY DEF RestInv, BaseInv
<1>2. ~Due(g)
  <2>1. queue = {} /\ Len(gwEvents) = 0 /\ Len(ipEvents) = 0
    BY DEF Quiescent
  <2>2. \A i : i \notin 1..Len(gwEvents) /\ i \notin 1..Len(ipEvents)
    BY <2>1
  <2> QED BY <2>1, <2>2 DEF Due, cacheCurrent, Foretold
<1>3. \A w \in Workers : worker[w].key # g
  BY <1>1, OwnerAssumption DEF Quiescent, Busy
<1> QED BY <1>1, <1>2, <1>3 DEF Seen

\* A reconcile decides on caches that lag, writes what others have overtaken,
\* and ends without a retry when its status is already there; the events it
\* and the others leave behind still bring it back as often as it takes.  When
\* nothing is left to do, an accepted Gateway publishes the one address it
\* holds, or says why it has none - for any number of Gateways, workers,
\* addresses, edits, failures and restarts.
THEOREM AcceptedGatewaysSettle == Spec => []QuiescentAccepted
<1>1. RestInv => QuiescentAccepted
  BY QuiescentRest DEF QuiescentAccepted, atRest, acceptedRest, Accepted, Managed
<1> QED BY <1>1, RestInit, RestStep, PTL DEF Spec

\* Likewise, a Gateway that exists and is not accepted - rejected, of another
\* class, or being deleted - has given up its addresses and publishes none,
\* although releaseGatewayIPAddresses only deletes what the cache lists.
THEOREM RejectedGatewaysRelease == Spec => []QuiescentReleased
<1>1. RestInv => QuiescentReleased
  BY QuiescentRest DEF QuiescentReleased, atRest, releasedRest
<1> QED BY <1>1, RestInit, RestStep, PTL DEF Spec

\* Addresses are freed before the status that publishes them is withdrawn, and
\* deletes are by name; still, when nothing is left to do, no two Gateways
\* publish the same address: each holds what it publishes.
THEOREM SharedAddressesPartAgain == Spec => []SharingIsTransient
<1>1. QuiescentAccepted /\ QuiescentReleased => SharingIsTransient
  <2> SUFFICES ASSUME QuiescentAccepted, QuiescentReleased, Quiescent,
                      NEW g \in Gateways, NEW h \in Gateways, g # h,
                      gw[g].exists, gw[h].exists, gw[g].status.addr # NoAddr,
                      gw[h].status.addr = gw[g].status.addr
               PROVE  FALSE
    BY DEF SharingIsTransient
  <2>1. Accepted(g) /\ Accepted(h)
    BY DEF QuiescentReleased
  <2>2. /\ reservations(g) = {gw[g].status.addr}
        /\ reservations(h) = {gw[h].status.addr}
    BY <2>1 DEF QuiescentAccepted
  <2> QED BY <2>2 DEF reservations
<1> QED BY <1>1, AcceptedGatewaysSettle, RejectedGatewaysRelease, PTL

===============================================================================
