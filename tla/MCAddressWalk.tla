---------------------------- MODULE MCAddressWalk ----------------------------
EXTENDS AddressWalk

cidr(ps) == [deleting |-> FALSE, ready |-> "True", cidrs |-> ps]
low == [addr |-> <<0, 2>>, bits |-> 2]

\* Text order, for numbers of one digit.
MCBefore(p, q) ==
    \/ \E i \in 1..Bytes : /\ p.addr[i] < q.addr[i]
                           /\ \A j \in 1..(i - 1) : p.addr[j] = q.addr[j]
    \/ p.addr = q.addr /\ p.bits < q.bits

\* Every prefix alone, with and without host bits, from the whole address space
\* to a single address; two prefixes that touch, overlap or nest, in one object
\* or in two; objects that are not ready or on their way out; other texts.
MCServiceCIDRLists ==
    {{cidr(<<p>>)} : p \in Prefix} \cup
    {{cidr(<<low>>), cidr(<<p>>)} : p \in {q \in Prefix : q.addr \in {<<0, 0>>, <<0, 3>>, <<3, 2>>}}} \cup
    {{cidr(<<low, [addr |-> <<1, 0>>, bits |-> 2]>>)}, {cidr(<<Invalid, low>>)}, {cidr(<<>>)}, {}} \cup
    {{[cidr(<<low>>) EXCEPT !.ready = r]} : r \in {"unset", "False", "Unknown"}} \cup
    {{cidr(<<low>>), [cidr(<<[addr |-> <<2, 0>>, bits |-> 2]>>) EXCEPT !.deleting = TRUE]}}

\* Others hold every address or none, and change it at any time; the cache shows
\* all of them, all but one, or nothing yet.
MCReservations ==
    [reserved : {Address, {}}, taken : {Address, {}} \cup {Address \ {a} : a \in Address}]

=============================================================================
