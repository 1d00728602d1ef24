------------------------------ MODULE VIPLease ------------------------------
(***************************************************************************)
(* What the VIP allocator promises, without caches, workers and retries:   *)
(* an address has one holder at a time and changes hands only through      *)
(* nobody's; a Gateway publishes an address only after the address was     *)
(* created for it, and only under its finalizer; and the finalizer comes   *)
(* off only together with, or after, what is published.                    *)
(***************************************************************************)
EXTENDS Naturals

CONSTANTS
    Gateways, Pool,   \* Gateways and the addresses of the ServiceCIDRs
    None, Service,    \* no holder, and the API server's own allocator
    NoAddr            \* nothing is published

VARIABLES
    owner,     \* who holds each address
    pub,       \* the address each Gateway publishes
    fin,       \* the Gateway carries the finalizer
    granted    \* <<g, a>> such that a was created for g

leaseVars == <<owner, pub, fin, granted>>

Init ==
    /\ owner = [a \in Pool |-> None]
    /\ pub = [g \in Gateways |-> NoAddr]
    /\ fin = [g \in Gateways |-> FALSE]
    /\ granted = {}

Reserve(g, a) ==
    /\ owner[a] = None
    /\ owner' = [owner EXCEPT ![a] = g]
    /\ granted' = granted \cup {<<g, a>>}
    /\ UNCHANGED <<pub, fin>>

ServiceTakes(a) ==
    /\ owner[a] = None
    /\ owner' = [owner EXCEPT ![a] = Service]
    /\ UNCHANGED <<pub, fin, granted>>

Free(a) ==
    /\ owner[a] # None
    /\ owner' = [owner EXCEPT ![a] = None]
    /\ UNCHANGED <<pub, fin, granted>>

Protect(g) ==
    /\ ~fin[g] /\ pub[g] = NoAddr
    /\ fin' = [fin EXCEPT ![g] = TRUE]
    /\ UNCHANGED <<owner, pub, granted>>

Publish(g, a) ==
    /\ fin[g] /\ <<g, a>> \in granted
    /\ pub' = [pub EXCEPT ![g] = a]
    /\ UNCHANGED <<owner, fin, granted>>

Withdraw(g) ==
    /\ pub' = [pub EXCEPT ![g] = NoAddr]
    /\ UNCHANGED <<owner, fin, granted>>

\* The last finalizer of a deleted Gateway takes the Gateway, and what it
\* publishes, along.
Unprotect(g) ==
    /\ fin' = [fin EXCEPT ![g] = FALSE]
    /\ pub' = [pub EXCEPT ![g] = NoAddr]
    /\ UNCHANGED <<owner, granted>>

Next ==
    \/ \E g \in Gateways, a \in Pool : Reserve(g, a) \/ Publish(g, a)
    \/ \E g \in Gateways : Protect(g) \/ Withdraw(g) \/ Unprotect(g)
    \/ \E a \in Pool : ServiceTakes(a) \/ Free(a)

Spec == Init /\ [][Next]_leaseVars

=============================================================================
