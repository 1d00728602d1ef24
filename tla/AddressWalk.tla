----------------------------- MODULE AddressWalk -----------------------------
(***************************************************************************)
(* ensureGatewayVIP as arithmetic: one call that finds no address of       *)
(* its Gateway, lists the ServiceCIDRs and walks them, byte by byte,       *)
(* until a Create succeeds.  GatewayController takes the order of this     *)
(* walk as given.                                                          *)
(*                                                                         *)
(* Bytes per address and bits per byte are parameters (4 and 8 in the      *)
(* code); carries, masks and the end of the address space are the same.    *)
(***************************************************************************)
EXTENDS Integers, Sequences, FiniteSets

CONSTANTS
    Bytes, ByteBits,    \* bytes in an address, bits in a byte
    Before(_, _),       \* the order of two prefixes as texts
    ServiceCIDRLists,   \* what the ServiceCIDR informer may hold
    Reservations,       \* what the API server and the IPAddress informer may hold
    Invalid             \* netip.Addr{}, or no result

ASSUME WidthAssumption == Bytes \in Nat \ {0} /\ ByteBits \in Nat \ {0}

AddrBits == Bytes * ByteBits
pow2[n \in 0..AddrBits] == IF n = 0 THEN 1 ELSE 2 * pow2[n - 1]

Byte    == 0..(pow2[ByteBits] - 1)
Address == [1..Bytes -> Byte]
Prefix  == [addr : Address, bits : 0..AddrBits]

\* cidrs: spec.cidrs, where a text that is no IPv4 prefix is Invalid.
\* ready: status of the Ready condition, "unset" when there is none.
ServiceCIDR == [deleting : BOOLEAN, ready : {"unset", "True", "False", "Unknown"},
                cidrs : Seq(Prefix \cup {Invalid})]

ASSUME InvalidAssumption == Invalid \notin Address \cup Prefix
ASSUME CachesAssumption ==
    /\ ServiceCIDRLists \subseteq SUBSET ServiceCIDR
    /\ Reservations \subseteq [reserved : SUBSET Address, taken : SUBSET Address]
ASSUME OrderAssumption ==
    \A p, q \in Prefix :
      /\ ~(Before(p, q) /\ Before(q, p))
      /\ p # q => Before(p, q) \/ Before(q, p)
      /\ \A r \in Prefix : Before(p, q) /\ Before(q, r) => Before(p, r)

VARIABLES
    serviceCIDRs,   \* the ServiceCIDR cache
    reserved,       \* API server: names of IPAddress objects
    taken,          \* listTakenIPs: the names in the cache, and what Create refused
    todo,           \* the prefixes that are still to be walked
    prefix,         \* loop variables
    candidate,
    pc, result

vars == <<serviceCIDRs, reserved, taken, todo, prefix, candidate, pc, result>>

-----------------------------------------------------------------------------
(* netip.Prefix *)

\* How many bits of byte i lie behind the first `bits' bits of an address.
hostBits(bits, i) ==
    IF i * ByteBits <= bits THEN 0
    ELSE IF (i - 1) * ByteBits >= bits THEN ByteBits
    ELSE i * ByteBits - bits

\* The host bits cleared.
network(a, bits) == [i \in 1..Bytes |-> a[i] - (a[i] % pow2[hostBits(bits, i)])]

Masked(p) == [p EXCEPT !.addr = network(p.addr, p.bits)]

Contains(p, a) == network(a, p.bits) = network(p.addr, p.bits)

-----------------------------------------------------------------------------
(* Address arithmetic of ipam.go *)

\* A carry that is never passed on.
nextAddr_NoCarry(a) == [a EXCEPT ![Bytes] = (@ + 1) % pow2[ByteBits]]

\* The last byte that does not overflow is incremented, those after it wrap.
nextAddr(a) ==
    LET room == {i \in 1..Bytes : a[i] # pow2[ByteBits] - 1}
        k    == CHOOSE i \in room : \A j \in room : j <= i
    IN  IF room = {} THEN Invalid
        ELSE [i \in 1..Bytes |-> IF i < k THEN a[i] ELSE IF i = k THEN a[i] + 1 ELSE 0]

\* A walk that starts at the network address.
firstAllocatable_Network(p) == p.addr

firstAllocatable(p) == nextAddr(p.addr)

\* The host bits, which Masked has cleared, are set byte by byte.
lastAddr(p) ==
    [i \in 1..Bytes |-> Masked(p).addr[i] + (pow2[hostBits(p.bits, i)] - 1)]

isLastAddress(p, a) == a = lastAddr(p)

-----------------------------------------------------------------------------
(* listIPv4ServiceCIDRs *)

\* No condition counts as ready.
serviceCIDRReady(c) == c.ready \in {"unset", "True"}

writtenPrefixes ==
    (UNION {{c.cidrs[i] : i \in DOMAIN c.cidrs} :
              c \in {d \in serviceCIDRs : ~d.deleting /\ serviceCIDRReady(d)}}) \ {Invalid}

\* Prefixes as they are written, network or not.
listIPv4ServiceCIDRs_Unmasked == writtenPrefixes

\* The loop takes them in the order Before.  A prefix that is listed twice is
\* kept once: walking it again finds nothing.
listIPv4ServiceCIDRs == {Masked(p) : p \in writtenPrefixes}

-----------------------------------------------------------------------------
(* ensureGatewayVIP *)

\* The prefixes in the order of the informer's list.
enterPrefix_Unsorted(prefixes) ==
    \/ /\ prefixes = {}
       /\ pc' = "failed" /\ todo' = {} /\ candidate' = Invalid
       /\ UNCHANGED prefix
    \/ \E p \in prefixes :
         /\ prefix' = p /\ todo' = prefixes \ {p}
         /\ pc' = "walking" /\ candidate' = firstAllocatable(p)

\* The inner loop starts on the next prefix, or the call fails.
enterPrefix(prefixes) ==
    \/ /\ prefixes = {}
       /\ pc' = "failed" /\ todo' = {} /\ candidate' = Invalid
       /\ UNCHANGED prefix
    \/ \E p \in prefixes :
         /\ \A q \in prefixes \ {p} : Before(p, q)
         /\ prefix' = p /\ todo' = prefixes \ {p}
         /\ pc' = "walking" /\ candidate' = firstAllocatable(p)

list ==
    /\ pc = "start"
    /\ enterPrefix(listIPv4ServiceCIDRs)
    /\ UNCHANGED <<serviceCIDRs, reserved, taken, result>>

\* The conditions that end the inner loop.
endOfPrefix(p, a) == ~(a # Invalid /\ Contains(p, a)) \/ isLastAddress(p, a)

nextPrefix ==
    /\ pc = "walking" /\ endOfPrefix(prefix, candidate)
    /\ enterPrefix(todo)
    /\ UNCHANGED <<serviceCIDRs, reserved, taken, result>>

\* continue
skipTaken ==
    /\ pc = "walking" /\ ~endOfPrefix(prefix, candidate)
    /\ candidate \in taken
    /\ candidate' = nextAddr(candidate)
    /\ UNCHANGED <<serviceCIDRs, reserved, taken, todo, prefix, pc, result>>

\* Create: AlreadyExists is noted and the walk goes on, another error returns.
create ==
    /\ pc = "walking" /\ ~endOfPrefix(prefix, candidate)
    /\ candidate \notin taken
    /\ \/ /\ candidate \in reserved
          /\ taken' = taken \cup {candidate}
          /\ candidate' = nextAddr(candidate)
          /\ UNCHANGED <<reserved, pc, result>>
       \/ /\ candidate \notin reserved
          /\ reserved' = reserved \cup {candidate}
          /\ result' = candidate /\ pc' = "allocated"
          /\ UNCHANGED <<taken, candidate>>
       \/ /\ pc' = "error"
          /\ UNCHANGED <<reserved, taken, candidate, result>>
    /\ UNCHANGED <<serviceCIDRs, todo, prefix>>

\* Other clients of the API server create and delete IPAddresses meanwhile.
otherClients ==
    /\ pc \in {"start", "walking"}
    /\ reserved' \in {r.reserved : r \in Reservations}
    /\ UNCHANGED <<serviceCIDRs, taken, todo, prefix, candidate, pc, result>>

Init ==
    /\ serviceCIDRs \in ServiceCIDRLists
    /\ \E r \in Reservations : reserved = r.reserved /\ taken = r.taken
    /\ todo = {} /\ prefix = Invalid /\ candidate = Invalid
    /\ pc = "start" /\ result = Invalid

walk == list \/ nextPrefix \/ skipTaken \/ create

Next == walk \/ otherClients

Spec == Init /\ [][Next]_vars /\ WF_vars(walk)

-----------------------------------------------------------------------------
(* Properties *)

\* The reference: addresses as numbers, a prefix as an interval of them.  Its
\* hosts lie strictly between its first and its last number.
value(a) ==
    LET v[i \in 0..Bytes] == IF i = 0 THEN 0 ELSE v[i - 1] * pow2[ByteBits] + a[i]
    IN  v
number(a) == value(a)[Bytes]

size(p) == pow2[AddrBits - p.bits]

hosts(p) ==
    LET first == number(p.addr) - (number(p.addr) % size(p))
    IN  {a \in Address : first < number(a) /\ number(a) < first + size(p) - 1}

readyPrefixes ==
    UNION {{c.cidrs[i] : i \in {j \in DOMAIN c.cidrs : c.cidrs[j] # Invalid}} :
             c \in {d \in serviceCIDRs : ~d.deleting /\ d.ready \notin {"False", "Unknown"}}}

allocatable == UNION {hosts(p) : p \in readyPrefixes}

\* What is handed out is a host of a ServiceCIDR that is ready: never the first
\* or the last address of the prefix it comes from, also for /31, /32, prefixes
\* written with host bits and prefixes at the end of the address space.
AllocatesHosts == result # Invalid => result \in allocatable

\* "all IPv4 ServiceCIDR addresses are allocated" is only said when the cache
\* and the refused Creates account for every host of every ready ServiceCIDR.
FailsOnlyWhenFull == pc = "failed" => allocatable \subseteq taken

\* The walk is first fit, as GatewayController takes it to be: a host of a
\* prefix that comes earlier in text order, or of the same prefix and lower, is
\* passed over only if the cache or a refused Create says that it is in use.
FirstFit ==
    result # Invalid =>
      \A p \in readyPrefixes : \A a \in hosts(p) :
        \/ Before(Masked(p), prefix)
        \/ Masked(p) = prefix /\ number(a) < number(result)
        => a \in taken

\* Neither loop turns back: a step leaves a prefix for good, or goes up in it.
\* With numbers below 2^AddrBits and finitely many prefixes the walk is finite.
WalkAdvances ==
    [][ pc = "walking" =>
          \/ pc' # "walking"
          \/ todo' \subseteq todo /\ todo' # todo
          \/ /\ todo' = todo /\ prefix' = prefix
             /\ candidate' = Invalid \/ number(candidate') > number(candidate)
      ]_<<todo, prefix, candidate>>

\* The walk comes to an end.
WalkEnds == <>(pc \in {"allocated", "failed", "error"})

=============================================================================
