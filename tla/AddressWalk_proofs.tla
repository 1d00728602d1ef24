------------------------- MODULE AddressWalk_proofs -------------------------
(***************************************************************************)
(* The walk of ensureGatewayVIP hands out hosts only, misses none and is   *)
(* first fit, for every number of bytes and every width of a byte.         *)
(*                                                                         *)
(* What the recursive definitions compute is proved by induction in the    *)
(* form of InductiveSet: the set of the numbers for which a fact holds     *)
(* contains 0 and the successor of each of its members.                    *)
(***************************************************************************)
EXTENDS AddressWalk, NaturalsInduction, WellFoundedInduction, TLAPS

-----------------------------------------------------------------------------
(* Induction *)

LEMMA LeastNat ==
    ASSUME NEW T, T \subseteq Nat, T # {}
    PROVE  \E n \in T : \A m \in T : n <= m
<1>1. PICK n \in T : \A m \in T : ~(<<m, n>> \in OpToRel(<, Nat))
  BY WFMin, NatLessThanWellFounded
<1>2. \A m \in T : ~(m < n)
  BY <1>1 DEF OpToRel
<1> QED BY <1>2

LEMMA InductiveSet ==
    ASSUME NEW N \in Nat, NEW S, 0 \in S, \A n \in 0..(N - 1) : n \in S => n + 1 \in S
    PROVE  \A n \in 0..N : n \in S
<1> SUFFICES ASSUME NEW m \in 0..N, m \notin S PROVE FALSE
  OBVIOUS
<1> DEFINE T == {n \in 0..N : n \notin S}
<1>1. T \subseteq Nat /\ T # {}
  OBVIOUS
<1>2. PICK n \in T : \A k \in T : n <= k
  BY <1>1, LeastNat
<1>3. n # 0 /\ n - 1 \in 0..(N - 1)
  BY <1>2
<1>4. n - 1 \in S
  BY <1>2, <1>3
<1> QED BY <1>2, <1>3, <1>4

-----------------------------------------------------------------------------
(* Powers of two *)

LEMMA Widths ==
    /\ Bytes \in Nat /\ Bytes > 0 /\ ByteBits \in Nat /\ ByteBits > 0
    /\ AddrBits \in Nat /\ ByteBits <= AddrBits
    /\ \A i \in 0..Bytes : i * ByteBits \in 0..AddrBits
BY WidthAssumption DEF AddrBits

LEMMA PowExists ==
    \E f : f = [n \in 0..AddrBits |-> IF n = 0 THEN 1 ELSE 2 * f[n - 1]]
<1> DEFINE S == {m \in 0..AddrBits : \E f : f = [n \in 0..m |-> IF n = 0 THEN 1 ELSE 2 * f[n - 1]]}
<1>1. 0 \in S
  <2> DEFINE f == [n \in 0..0 |-> 1]
  <2>1. f = [n \in 0..0 |-> IF n = 0 THEN 1 ELSE 2 * f[n - 1]]
    OBVIOUS
  <2> HIDE DEF f
  <2> QED BY <2>1, Widths
<1>2. ASSUME NEW m \in 0..(AddrBits - 1), m \in S PROVE m + 1 \in S
  <2>1. PICK f : f = [n \in 0..m |-> IF n = 0 THEN 1 ELSE 2 * f[n - 1]]
    BY <1>2
  <2> DEFINE g == [n \in 0..(m + 1) |-> IF n = m + 1 THEN 2 * f[m] ELSE f[n]]
  <2>2. m \in Nat /\ m + 1 \in 0..AddrBits
    BY Widths
  <2>3. \A n \in 0..(m + 1) : g[n] = IF n = 0 THEN 1 ELSE 2 * g[n - 1]
    BY <2>1, <2>2
  <2>4. g = [n \in 0..(m + 1) |-> IF n = 0 THEN 1 ELSE 2 * g[n - 1]]
    BY <2>3
  <2> HIDE DEF g
  <2> QED BY <2>2, <2>4
<1> HIDE DEF S
<1>3. AddrBits \in S
  BY <1>1, <1>2, InductiveSet, Widths
<1> QED BY <1>3 DEF S

LEMMA PowDef ==
    /\ pow2[0] = 1
    /\ \A n \in 0..(AddrBits - 1) : pow2[n + 1] = 2 * pow2[n]
<1>1. pow2 = [n \in 0..AddrBits |-> IF n = 0 THEN 1 ELSE 2 * pow2[n - 1]]
  BY PowExists DEF pow2
<1>2. \A n \in 0..AddrBits : pow2[n] = IF n = 0 THEN 1 ELSE 2 * pow2[n - 1]
  BY <1>1
<1> QED BY <1>2, Widths

LEMMA PowPositive == \A n \in 0..AddrBits : pow2[n] \in Nat /\ pow2[n] > 0
<1> DEFINE S == {n \in 0..AddrBits : pow2[n] \in Nat /\ pow2[n] > 0}
<1>1. 0 \in S
  BY PowDef, Widths
<1>2. ASSUME NEW n \in 0..(AddrBits - 1), n \in S PROVE n + 1 \in S
  BY <1>2, PowDef, Widths
<1> QED BY <1>1, <1>2, InductiveSet, Widths

LEMMA PowSum ==
    ASSUME NEW m \in 0..AddrBits, NEW n \in 0..AddrBits, m + n \in 0..AddrBits
    PROVE  pow2[m + n] = pow2[m] * pow2[n]
<1> DEFINE S == {k \in 0..n : pow2[m + k] = pow2[m] * pow2[k]}
<1>1. 0 \in S
  BY PowDef, PowPositive, Widths
<1>2. ASSUME NEW k \in 0..(n - 1), k \in S PROVE k + 1 \in S
  <2>1. m + k \in 0..(AddrBits - 1) /\ k \in 0..(AddrBits - 1) /\ k + 1 \in 0..n
    BY Widths
  <2>2. pow2[m + k + 1] = 2 * pow2[m + k] /\ pow2[k + 1] = 2 * pow2[k]
    BY <2>1, PowDef
  <2>3. pow2[m] \in Nat /\ pow2[k] \in Nat
    BY <2>1, PowPositive, Widths
  <2>4. pow2[m + (k + 1)] = pow2[m] * pow2[k + 1]
    BY <1>2, <2>1, <2>2, <2>3
  <2> QED BY <2>1, <2>4
<1> HIDE DEF S
<1>3. n \in S
  BY <1>1, <1>2, InductiveSet, Widths
<1> QED BY <1>3 DEF S

-----------------------------------------------------------------------------
(* Addresses as numbers *)

B == pow2[ByteBits]

LEMMA BaseFacts == B \in Nat /\ B > 0 /\ Byte = 0..(B - 1)
BY PowPositive, Widths DEF B, Byte

LEMMA ValueExists ==
    ASSUME NEW a
    PROVE  \E f : f = [i \in 0..Bytes |-> IF i = 0 THEN 0 ELSE f[i - 1] * B + a[i]]
<1> DEFINE S == {m \in 0..Bytes :
                   \E f : f = [i \in 0..m |-> IF i = 0 THEN 0 ELSE f[i - 1] * B + a[i]]}
<1>1. 0 \in S
  <2> DEFINE f == [i \in 0..0 |-> 0]
  <2>1. f = [i \in 0..0 |-> IF i = 0 THEN 0 ELSE f[i - 1] * B + a[i]]
    OBVIOUS
  <2> HIDE DEF f
  <2> QED BY <2>1, Widths
<1>2. ASSUME NEW m \in 0..(Bytes - 1), m \in S PROVE m + 1 \in S
  <2>1. PICK f : f = [i \in 0..m |-> IF i = 0 THEN 0 ELSE f[i - 1] * B + a[i]]
    BY <1>2
  <2> DEFINE g == [i \in 0..(m + 1) |-> IF i = m + 1 THEN f[m] * B + a[m + 1] ELSE f[i]]
  <2>2. m \in Nat /\ m + 1 \in 0..Bytes
    BY Widths
  <2>3. \A i \in 0..(m + 1) : g[i] = IF i = 0 THEN 0 ELSE g[i - 1] * B + a[i]
    BY <2>1, <2>2
  <2>4. g = [i \in 0..(m + 1) |-> IF i = 0 THEN 0 ELSE g[i - 1] * B + a[i]]
    BY <2>3
  <2> HIDE DEF g
  <2> QED BY <2>2, <2>4
<1> HIDE DEF S
<1>3. Bytes \in S
  BY <1>1, <1>2, InductiveSet, Widths
<1> QED BY <1>3 DEF S

LEMMA ValueDef ==
    ASSUME NEW a
    PROVE  /\ value(a)[0] = 0
           /\ \A i \in 0..(Bytes - 1) : value(a)[i + 1] = value(a)[i] * B + a[i + 1]
<1>1. value(a) = [i \in 0..Bytes |-> IF i = 0 THEN 0 ELSE value(a)[i - 1] * B + a[i]]
  BY ValueExists DEF value, B
<1> HIDE DEF value
<1>2. \A i \in 0..Bytes : value(a)[i] = IF i = 0 THEN 0 ELSE value(a)[i - 1] * B + a[i]
  BY <1>1
<1> QED BY <1>2, Widths

LEMMA ByteOf == ASSUME NEW a \in Address, NEW i \in 1..Bytes PROVE a[i] \in Nat /\ a[i] < B
BY BaseFacts DEF Address

LEMMA ValueNat ==
    ASSUME NEW a \in Address
    PROVE  \A i \in 0..Bytes : value(a)[i] \in Nat
<1> DEFINE S == {i \in 0..Bytes : value(a)[i] \in Nat}
<1>1. 0 \in S
  BY ValueDef, Widths
<1>2. ASSUME NEW i \in 0..(Bytes - 1), i \in S PROVE i + 1 \in S
  <2>1. i + 1 \in 1..Bytes
    BY Widths
  <2>2. a[i + 1] \in Nat
    BY <2>1, ByteOf
  <2> QED BY <1>2, <2>1, <2>2, ValueDef, BaseFacts
<1> HIDE DEF S
<1>3. \A i \in 0..Bytes : i \in S
  BY <1>1, <1>2, InductiveSet, Widths
<1> QED BY <1>3 DEF S

LEMMA NumberNat == ASSUME NEW a \in Address PROVE number(a) \in Nat
BY ValueNat, Widths DEF number

LEMMA DigitsUnique ==
    ASSUME NEW v \in Nat, NEW w \in Nat, NEW c \in Nat, NEW d \in Nat, c < B, d < B,
           v * B + c = w * B + d
    PROVE  v = w /\ c = d
BY BaseFacts

\* Different addresses are different numbers.
LEMMA SameNumber ==
    ASSUME NEW a \in Address, NEW b \in Address, number(a) = number(b)
    PROVE  a = b
<1> DEFINE S == {m \in 0..Bytes : value(a)[m] = value(b)[m] => \A i \in 1..m : a[i] = b[i]}
<1>1. 0 \in S
  BY Widths
<1>2. ASSUME NEW m \in 0..(Bytes - 1), m \in S PROVE m + 1 \in S
  <2>1. m \in 0..Bytes /\ m + 1 \in 1..Bytes
    BY Widths
  <2>2. ASSUME value(a)[m + 1] = value(b)[m + 1]
        PROVE  \A i \in 1..(m + 1) : a[i] = b[i]
    <3>1. value(a)[m] * B + a[m + 1] = value(b)[m] * B + b[m + 1]
      BY <2>2, ValueDef
    <3>2. value(a)[m] \in Nat /\ value(b)[m] \in Nat
      BY <2>1, ValueNat
    <3>3. a[m + 1] \in Nat /\ a[m + 1] < B /\ b[m + 1] \in Nat /\ b[m + 1] < B
      BY <2>1, ByteOf
    <3>4. value(a)[m] = value(b)[m] /\ a[m + 1] = b[m + 1]
      BY <3>1, <3>2, <3>3, DigitsUnique
    <3> QED BY <1>2, <2>1, <3>4
  <2> QED BY <2>1, <2>2, Widths
<1> HIDE DEF S
<1>3. Bytes \in S
  BY <1>1, <1>2, InductiveSet, Widths
<1>4. \A i \in 1..Bytes : a[i] = b[i]
  BY <1>3 DEF S, number
<1>5. a = [i \in 1..Bytes |-> a[i]] /\ b = [i \in 1..Bytes |-> b[i]]
  BY DEF Address
<1> QED BY <1>4, <1>5

LEMMA DigitsOrder ==
    ASSUME NEW v \in Nat, NEW w \in Nat, NEW c \in Nat, NEW d \in Nat, v <= w, c <= d
    PROVE  v * B + c <= w * B + d
<1>1. v * B <= w * B
  BY BaseFacts
<1>2. v * B \in Nat /\ w * B \in Nat
  BY BaseFacts
<1> QED BY <1>1, <1>2

\* The last address is the greatest number.
LEMMA GreatestNumber ==
    ASSUME NEW a \in Address, \A i \in 1..Bytes : a[i] = B - 1, NEW b \in Address
    PROVE  number(b) <= number(a)
<1> DEFINE S == {m \in 0..Bytes : value(b)[m] <= value(a)[m]}
<1>1. 0 \in S
  BY ValueDef, Widths
<1>2. ASSUME NEW m \in 0..(Bytes - 1), m \in S PROVE m + 1 \in S
  <2>1. m \in 0..Bytes /\ m + 1 \in 1..Bytes
    BY Widths
  <2>2. value(a)[m] \in Nat /\ value(b)[m] \in Nat /\ b[m + 1] \in Nat /\ b[m + 1] < B
    BY <2>1, ValueNat, ByteOf
  <2>3. value(b)[m] <= value(a)[m] /\ b[m + 1] <= a[m + 1] /\ a[m + 1] \in Nat
    BY <1>2, <2>1, <2>2, BaseFacts
  <2>4. value(b)[m] * B + b[m + 1] <= value(a)[m] * B + a[m + 1]
    BY <2>2, <2>3, DigitsOrder
  <2>5. value(b)[m + 1] <= value(a)[m + 1]
    BY <2>4, ValueDef
  <2> QED BY <2>1, <2>5
<1> HIDE DEF S
<1>3. Bytes \in S
  BY <1>1, <1>2, InductiveSet, Widths
<1> QED BY <1>3 DEF S, number

LEMMA Carry == ASSUME NEW v \in Nat PROVE (v + 1) * B + 0 = v * B + (B - 1) + 1
BY BaseFacts

\* nextAddr adds one, with its carries, and stops at the last address.
LEMMA NextAddr ==
    ASSUME NEW a \in Address
    PROVE  \/ nextAddr(a) = Invalid /\ \A b \in Address : number(b) <= number(a)
           \/ nextAddr(a) \in Address /\ number(nextAddr(a)) = number(a) + 1
<1> DEFINE room == {i \in 1..Bytes : a[i] # pow2[ByteBits] - 1}
           k == CHOOSE i \in room : \A j \in room : j <= i
           n == [i \in 1..Bytes |-> IF i < k THEN a[i] ELSE IF i = k THEN a[i] + 1 ELSE 0]
<1>1. CASE room = {}
  <2>1. \A i \in 1..Bytes : a[i] = B - 1
    BY <1>1 DEF B
  <2> QED BY <1>1, <2>1, GreatestNumber DEF nextAddr
<1>2. CASE room # {}
  <2>1. k \in room /\ \A j \in room : j <= k
    <3> DEFINE T == {Bytes - i : i \in room}
    <3>1. T \subseteq Nat /\ T # {}
      BY <1>2, Widths
    <3>2. PICK t \in T : \A s \in T : t <= s
      BY <3>1, LeastNat
    <3>3. PICK i \in room : t = Bytes - i
      BY <3>2
    <3>4. \A j \in room : j <= i
      <4>1. \A j \in room : j \in 1..Bytes
        OBVIOUS
      <4>2. \A j \in room : Bytes - i <= Bytes - j
        BY <3>2, <3>3
      <4> HIDE DEF room
      <4> QED BY <4>1, <4>2, Widths
    <3> QED BY <3>4
  <2> HIDE DEF k
  <2>2. k \in 1..Bytes /\ a[k] # B - 1 /\ \A j \in 1..Bytes : j > k => a[j] = B - 1
    BY <2>1 DEF B
  <2>3. n \in Address
    <3>1. \A i \in 1..Bytes : n[i] \in Byte
      BY <2>2, ByteOf, BaseFacts
    <3> QED BY <3>1 DEF Address
  <2>4. nextAddr(a) = n
    BY <1>2 DEF nextAddr, k
  <2> DEFINE S == {m \in 0..Bytes : value(n)[m] = value(a)[m] + (IF m < k THEN 0 ELSE 1)}
  <2>5. 0 \in S
    BY <2>2, ValueDef, Widths
  <2>6. ASSUME NEW m \in 0..(Bytes - 1), m \in S PROVE m + 1 \in S
    <3>1. m \in 0..Bytes /\ m + 1 \in 1..Bytes /\ m \in Nat
      BY Widths
    <3>2. value(a)[m] \in Nat /\ a[m + 1] \in Nat
      BY <3>1, ValueNat, ByteOf
    <3>3. /\ value(n)[m + 1] = value(n)[m] * B + n[m + 1]
          /\ value(a)[m + 1] = value(a)[m] * B + a[m + 1]
      BY ValueDef
    <3>4. value(n)[m] = value(a)[m] + (IF m < k THEN 0 ELSE 1)
      BY <2>6
    <3>5. CASE m + 1 < k
      <4>1. value(n)[m] = value(a)[m] /\ n[m + 1] = a[m + 1]
        BY <2>2, <3>1, <3>2, <3>4, <3>5
      <4>2. value(n)[m + 1] = value(a)[m + 1] /\ value(a)[m + 1] \in Nat
        BY <3>1, <3>3, <4>1, ValueNat
      <4> QED BY <3>1, <3>5, <4>2
    <3>6. CASE m + 1 = k
      <4>1. value(n)[m] = value(a)[m] /\ n[m + 1] = a[m + 1] + 1
        BY <2>2, <3>1, <3>2, <3>4, <3>6
      <4>2. value(a)[m] * B \in Nat
        BY <3>2, BaseFacts
      <4>3. value(n)[m + 1] = value(a)[m + 1] + 1
        BY <3>2, <3>3, <4>1, <4>2
      <4> QED BY <3>1, <3>6, <4>3
    <3>7. CASE m + 1 > k
      <4>1. value(n)[m] = value(a)[m] + 1 /\ n[m + 1] = 0 /\ a[m + 1] = B - 1
        BY <2>2, <3>1, <3>2, <3>4, <3>7
      <4>2. (value(a)[m] + 1) * B + 0 = value(a)[m] * B + (B - 1) + 1
        BY <3>2, Carry
      <4>3. value(n)[m + 1] = value(a)[m + 1] + 1
        BY <3>3, <4>1, <4>2
      <4> QED BY <2>2, <3>1, <3>7, <4>3
    <3> QED BY <2>2, <3>1, <3>5, <3>6, <3>7
  <2> HIDE DEF S
  <2>7. Bytes \in S
    BY <2>5, <2>6, InductiveSet, Widths
  <2>8. number(n) = number(a) + 1
    BY <2>2, <2>7 DEF S, number
  <2> QED BY <2>3, <2>4, <2>8
<1> QED BY <1>1, <1>2

-----------------------------------------------------------------------------
(* Prefixes as intervals *)

\* The remainder is what the division leaves.
LEMMA RemainderUnique ==
    ASSUME NEW n \in Nat, NEW k \in Nat, k > 0, NEW q \in Nat, NEW r \in Nat, r < k,
           n = q * k + r
    PROVE  n % k = r
OBVIOUS

LEMMA Division ==
    ASSUME NEW n \in Nat, NEW k \in Nat, k > 0
    PROVE  /\ n \div k \in Nat /\ n % k \in Nat /\ n % k < k /\ n % k <= n
           /\ n = (n \div k) * k + (n % k)
<1> DEFINE q == n \div k
           r == n % k
<1>1. n = k * q + r /\ r \in 0..(k - 1) /\ q \in Nat
  OBVIOUS
<1> HIDE DEF q, r
<1>2. k * q \in Nat /\ k * q = q * k
  BY <1>1
<1>3. q \in Nat /\ r \in Nat /\ r < k /\ r <= n /\ n = q * k + r
  BY <1>1, <1>2
<1> QED BY <1>3 DEF q, r

\* How many bits of the first i bytes are host bits.
hostBitsUpTo(bits, i) == IF i * ByteBits <= bits THEN 0 ELSE i * ByteBits - bits

\* Behind the mask's last byte the host bits come in whole bytes; up to it, they
\* are the ones of that byte.
LEMMA HostBits ==
    ASSUME NEW bits \in 0..AddrBits, NEW i \in 0..(Bytes - 1)
    PROVE  /\ hostBits(bits, i + 1) \in 0..ByteBits
           /\ hostBitsUpTo(bits, i) \in 0..AddrBits
           /\ hostBitsUpTo(bits, i + 1) \in 0..AddrBits
           /\ \/ /\ hostBits(bits, i + 1) = ByteBits
                 /\ hostBitsUpTo(bits, i + 1) = hostBitsUpTo(bits, i) + ByteBits
              \/ /\ hostBitsUpTo(bits, i) = 0
                 /\ hostBitsUpTo(bits, i + 1) = hostBits(bits, i + 1)
<1>1. i \in 0..Bytes /\ i + 1 \in 0..Bytes /\ (i + 1) - 1 = i
  BY Widths
<1>2. i * ByteBits \in 0..AddrBits /\ (i + 1) * ByteBits \in 0..AddrBits
  BY <1>1, Widths
<1>3. (i + 1) * ByteBits = i * ByteBits + ByteBits
  BY Widths
<1> QED BY <1>1, <1>2, <1>3, Widths DEF hostBits, hostBitsUpTo

LEMMA HostBitsEnds ==
    ASSUME NEW bits \in 0..AddrBits
    PROVE  hostBitsUpTo(bits, 0) = 0 /\ hostBitsUpTo(bits, Bytes) = AddrBits - bits
BY Widths DEF hostBitsUpTo, AddrBits

\* The host part of a byte is a divisor of the byte's range.
LEMMA HostPart ==
    ASSUME NEW h \in 0..ByteBits
    PROVE  /\ pow2[h] \in Nat /\ pow2[h] > 0
           /\ \E e \in Nat : e > 0 /\ B = e * pow2[h]
<1>1. h \in 0..AddrBits /\ ByteBits - h \in 0..AddrBits /\ h + (ByteBits - h) = ByteBits
  BY Widths
<1>2. pow2[h + (ByteBits - h)] = pow2[h] * pow2[ByteBits - h]
  BY <1>1, PowSum, Widths
<1>3. pow2[h] \in Nat /\ pow2[h] > 0 /\ pow2[ByteBits - h] \in Nat /\ pow2[ByteBits - h] > 0
  BY <1>1, PowPositive
<1>4. B = pow2[ByteBits - h] * pow2[h]
  BY <1>1, <1>2, <1>3 DEF B
<1> QED BY <1>3, <1>4

LEMMA MaskedByte ==
    ASSUME NEW c \in Nat, c < B, NEW h \in 0..ByteBits
    PROVE  /\ c - (c % pow2[h]) \in 0..(B - 1)
           /\ c - (c % pow2[h]) + (pow2[h] - 1) \in 0..(B - 1)
<1> DEFINE t == pow2[h]
<1>1. t \in Nat /\ t > 0
  BY HostPart
<1>2. PICK e \in Nat : e > 0 /\ B = e * t
  BY HostPart
<1> HIDE DEF t
<1> DEFINE q == c \div t
           r == c % t
<1>3. q \in Nat /\ r \in Nat /\ r < t /\ c = q * t + r
  BY <1>1, Division
<1> HIDE DEF q, r
<1>4. q < e
  BY <1>1, <1>2, <1>3
<1>5. (q + 1) * t <= e * t
  BY <1>1, <1>2, <1>3, <1>4
<1>6. c - r = q * t /\ q * t + t = (q + 1) * t /\ q * t \in Nat
  BY <1>1, <1>3
<1>7. c - r \in 0..(B - 1) /\ c - r + (t - 1) \in 0..(B - 1)
  BY <1>1, <1>2, <1>3, <1>5, <1>6, BaseFacts
<1> QED BY <1>7 DEF t, r

\* One more byte, all of it host bits.
LEMMA HostByte ==
    ASSUME NEW v \in Nat, NEW s \in Nat, s > 0, NEW c \in Nat, c < B
    PROVE  (v * B + c) - ((v * B + c) % (s * B)) = (v - (v % s)) * B + (c - (c % B))
<1> DEFINE q == v \div s
           r == v % s
<1>1. q \in Nat /\ r \in Nat /\ r < s /\ v = q * s + r
  BY Division
<1> HIDE DEF q, r
<1>2. c % B = c
  <2>1. c = 0 * B + c
    BY BaseFacts
  <2> QED BY <2>1, RemainderUnique, BaseFacts
<1>3. r * B + c \in Nat /\ s * B \in Nat /\ s * B > 0 /\ r * B + c < s * B
  BY <1>1, BaseFacts
<1>4. v * B + c \in Nat /\ v * B + c = q * (s * B) + (r * B + c)
  BY <1>1, BaseFacts
<1>5. (v * B + c) % (s * B) = r * B + c
  BY <1>1, <1>3, <1>4, RemainderUnique
<1>6. (v * B + c) - (r * B + c) = (v - r) * B
  BY <1>1, BaseFacts
<1>7. (v * B + c) - ((v * B + c) % (s * B)) = (v - r) * B
  BY <1>5, <1>6
<1>8. (v - r) * B \in Int /\ c - (c % B) = 0
  BY <1>1, <1>2, BaseFacts
<1> QED BY <1>7, <1>8 DEF r

\* One more byte, the first with host bits, or with none.
LEMMA MaskByte ==
    ASSUME NEW v \in Nat, NEW c \in Nat, c < B, NEW h \in 0..ByteBits
    PROVE  (v * B + c) - ((v * B + c) % pow2[h]) = v * B + (c - (c % pow2[h]))
<1> DEFINE t == pow2[h]
<1>1. t \in Nat /\ t > 0
  BY HostPart
<1>2. PICK e \in Nat : e > 0 /\ B = e * t
  BY HostPart
<1> HIDE DEF t
<1> DEFINE q == c \div t
           r == c % t
<1>3. q \in Nat /\ r \in Nat /\ r < t /\ c = q * t + r
  BY <1>1, Division
<1> HIDE DEF q, r
<1>4. v * (e * t) + (q * t + r) = (v * e + q) * t + r /\ v * e + q \in Nat
  BY <1>1, <1>2, <1>3
<1>5. v * B \in Nat /\ v * B + c \in Nat
  BY BaseFacts
<1>6. v * B + c = (v * e + q) * t + r
  BY <1>2, <1>3, <1>4
<1>7. (v * B + c) % t = r
  BY <1>1, <1>3, <1>4, <1>5, <1>6, RemainderUnique
<1>8. (v * B + c) - r = v * B + (c - r)
  BY <1>3, <1>5
<1> QED BY <1>7, <1>8 DEF t, r

\* Masked clears the number's last AddrBits - bits bits.
LEMMA NetworkNumber ==
    ASSUME NEW a \in Address, NEW bits \in 0..AddrBits
    PROVE  /\ network(a, bits) \in Address
           /\ number(network(a, bits)) = number(a) - (number(a) % pow2[AddrBits - bits])
<1> DEFINE n == network(a, bits)
           s(i) == pow2[hostBitsUpTo(bits, i)]
<1>1. \A i \in 1..Bytes : n[i] = a[i] - (a[i] % pow2[hostBits(bits, i)])
  BY DEF network
<1>2. ASSUME NEW i \in 1..Bytes PROVE hostBits(bits, i) \in 0..ByteBits
  <2>1. i - 1 \in 0..(Bytes - 1) /\ (i - 1) + 1 = i
    BY Widths
  <2> QED BY <2>1, HostBits
<1>3. n \in Address
  <2>1. \A i \in 1..Bytes : n[i] \in 0..(B - 1)
    BY <1>1, <1>2, ByteOf, MaskedByte
  <2> QED BY <2>1, BaseFacts DEF network, Address
<1> DEFINE S == {i \in 0..Bytes : value(n)[i] = value(a)[i] - (value(a)[i] % s(i))}
<1>4. 0 \in S
  <2>1. value(n)[0] = 0 /\ value(a)[0] = 0
    BY ValueDef
  <2>2. s(0) = 1
    BY HostBitsEnds, PowDef
  <2> QED BY <2>1, <2>2, Widths
<1>5. ASSUME NEW i \in 0..(Bytes - 1), i \in S PROVE i + 1 \in S
  <2>1. i \in 0..Bytes /\ i + 1 \in 1..Bytes /\ i + 1 \in 0..Bytes
    BY Widths
  <2> DEFINE v == value(a)[i]
             c == a[i + 1]
             h == hostBits(bits, i + 1)
  <2>2. v \in Nat /\ c \in Nat /\ c < B
    BY <2>1, ValueNat, ByteOf
  <2>3. value(a)[i + 1] = v * B + c /\ value(n)[i + 1] = value(n)[i] * B + n[i + 1]
    BY ValueDef
  <2>4. value(n)[i] = v - (v % s(i)) /\ n[i + 1] = c - (c % pow2[h])
    BY <1>1, <1>5, <2>1
  <2>5. h \in 0..ByteBits
    BY HostBits
  <2>6. s(i) \in Nat /\ s(i) > 0
    BY HostBits, PowPositive
  <2>7. CASE h = ByteBits /\ hostBitsUpTo(bits, i + 1) = hostBitsUpTo(bits, i) + ByteBits
    <3>1. s(i + 1) = s(i) * B
      <4>1. ByteBits \in 0..AddrBits
        BY Widths
      <4> QED BY <2>7, <4>1, HostBits, PowSum DEF B
    <3>2. pow2[h] = B
      BY <2>7 DEF B
    <3> HIDE DEF v, c, h, s, n
    <3>3. (v * B + c) - ((v * B + c) % (s(i) * B)) = (v - (v % s(i))) * B + (c - (c % B))
      BY <2>2, <2>6, HostByte
    <3>4. value(n)[i + 1] = value(a)[i + 1] - (value(a)[i + 1] % s(i + 1))
      BY <2>3, <2>4, <3>1, <3>2, <3>3
    <3> QED BY <2>1, <3>4
  <2>8. CASE hostBitsUpTo(bits, i) = 0 /\ hostBitsUpTo(bits, i + 1) = h
    <3>1. s(i) = 1 /\ s(i + 1) = pow2[h]
      BY <2>8, PowDef
    <3> HIDE DEF v, c, h, s, n
    <3>2. value(n)[i] = v
      BY <2>2, <2>4, <3>1
    <3>3. (v * B + c) - ((v * B + c) % pow2[h]) = v * B + (c - (c % pow2[h]))
      BY <2>2, <2>5, MaskByte
    <3>4. value(n)[i + 1] = value(a)[i + 1] - (value(a)[i + 1] % s(i + 1))
      BY <2>3, <2>4, <3>1, <3>2, <3>3
    <3> QED BY <2>1, <3>4
  <2> QED BY <2>7, <2>8, HostBits
<1> HIDE DEF S
<1>6. Bytes \in S
  BY <1>4, <1>5, InductiveSet, Widths
<1> QED BY <1>3, <1>6, HostBitsEnds DEF S, number

LEMMA LastByte ==
    ASSUME NEW m \in Int, NEW s \in Nat
    PROVE  (m + (s - 1)) * B + (B - 1) = m * B + (s * B - 1)
BY BaseFacts

\* lastAddr is the last number with the prefix's network.
LEMMA LastNumber ==
    ASSUME NEW p \in Prefix
    PROVE  /\ lastAddr(p) \in Address
           /\ number(lastAddr(p)) = number(network(p.addr, p.bits)) + (size(p) - 1)
<1> DEFINE a == p.addr
           bits == p.bits
           n == network(a, bits)
           l == lastAddr(p)
           s(i) == pow2[hostBitsUpTo(bits, i)]
<1>1. a \in Address /\ bits \in 0..AddrBits /\ n \in Address
  BY NetworkNumber DEF Prefix
<1>2. \A i \in 1..Bytes : /\ n[i] = a[i] - (a[i] % pow2[hostBits(bits, i)])
                          /\ l[i] = n[i] + (pow2[hostBits(bits, i)] - 1)
  BY DEF network, lastAddr, Masked, Prefix
<1>3. ASSUME NEW i \in 1..Bytes PROVE hostBits(bits, i) \in 0..ByteBits
  <2>1. i - 1 \in 0..(Bytes - 1) /\ (i - 1) + 1 = i
    BY Widths
  <2> QED BY <1>1, <2>1, HostBits
<1>4. l \in Address
  <2>1. \A i \in 1..Bytes : l[i] \in 0..(B - 1)
    BY <1>1, <1>2, <1>3, ByteOf, MaskedByte
  <2> QED BY <2>1, BaseFacts DEF lastAddr, Address
<1> DEFINE S == {i \in 0..Bytes : value(l)[i] = value(n)[i] + (s(i) - 1)}
<1>5. 0 \in S
  <2>1. value(n)[0] = 0 /\ value(l)[0] = 0
    BY ValueDef
  <2>2. s(0) = 1
    BY <1>1, HostBitsEnds, PowDef
  <2> QED BY <2>1, <2>2, Widths
<1>6. ASSUME NEW i \in 0..(Bytes - 1), i \in S PROVE i + 1 \in S
  <2>1. i \in 0..Bytes /\ i + 1 \in 1..Bytes /\ i + 1 \in 0..Bytes
    BY Widths
  <2> DEFINE m == value(n)[i]
             d == n[i + 1]
             h == hostBits(bits, i + 1)
  <2>2. m \in Nat /\ d \in Nat
    BY <1>1, <2>1, ValueNat, ByteOf
  <2>3. value(n)[i + 1] = m * B + d /\ value(l)[i + 1] = value(l)[i] * B + l[i + 1]
    BY ValueDef
  <2>4. value(l)[i] = m + (s(i) - 1) /\ l[i + 1] = d + (pow2[h] - 1)
    BY <1>2, <1>6, <2>1
  <2>5. pow2[h] \in Nat /\ pow2[h] > 0
    BY <1>1, HostBits, HostPart
  <2>6. s(i) \in Nat /\ s(i) > 0
    BY <1>1, HostBits, PowPositive
  <2>7. CASE h = ByteBits /\ hostBitsUpTo(bits, i + 1) = hostBitsUpTo(bits, i) + ByteBits
    <3>1. s(i + 1) = s(i) * B
      <4>1. ByteBits \in 0..AddrBits
        BY Widths
      <4> QED BY <1>1, <2>7, <4>1, HostBits, PowSum DEF B
    <3>2. pow2[h] = B
      BY <2>7 DEF B
    <3>3. d = 0
      <4>1. a[i + 1] \in Nat /\ a[i + 1] < B /\ d = a[i + 1] - (a[i + 1] % B)
        BY <1>1, <1>2, <2>1, <3>2, ByteOf
      <4>2. a[i + 1] = 0 * B + a[i + 1]
        BY <4>1, BaseFacts
      <4>3. a[i + 1] % B = a[i + 1]
        BY <4>1, <4>2, RemainderUnique, BaseFacts
      <4> QED BY <4>1, <4>3
    <3> HIDE DEF m, d, h, s, n, l
    <3>4. (m + (s(i) - 1)) * B + (B - 1) = m * B + (s(i) * B - 1)
      BY <2>2, <2>6, LastByte
    <3>5. value(l)[i + 1] = value(n)[i + 1] + (s(i + 1) - 1)
      <4>1. m * B \in Nat /\ s(i) * B \in Nat
        BY <2>2, <2>6, BaseFacts
      <4> QED BY <2>3, <2>4, <3>1, <3>2, <3>3, <3>4, <4>1, BaseFacts
    <3> QED BY <2>1, <3>5
  <2>8. CASE hostBitsUpTo(bits, i) = 0 /\ hostBitsUpTo(bits, i + 1) = h
    <3>1. s(i) = 1 /\ s(i + 1) = pow2[h]
      BY <2>8, PowDef
    <3> HIDE DEF m, d, h, s, n, l
    <3>2. value(l)[i] = m
      BY <2>2, <2>4, <3>1
    <3>3. m * B \in Nat
      BY <2>2, BaseFacts
    <3>4. value(l)[i + 1] = value(n)[i + 1] + (s(i + 1) - 1)
      BY <2>2, <2>3, <2>4, <2>5, <3>1, <3>2, <3>3
    <3> QED BY <2>1, <3>4
  <2> QED BY <1>1, <2>7, <2>8, HostBits
<1> HIDE DEF S
<1>7. Bytes \in S
  BY <1>5, <1>6, InductiveSet, Widths
<1> QED BY <1>1, <1>4, <1>7, HostBitsEnds DEF S, number, size

LEMMA SizeNat == ASSUME NEW p \in Prefix PROVE size(p) \in Nat /\ size(p) > 0
<1>1. p.bits \in 0..AddrBits
  BY DEF Prefix
<1>2. AddrBits - p.bits \in 0..AddrBits
  BY <1>1, Widths
<1> QED BY <1>2, PowPositive DEF size

firstNumber(p) == number(p.addr) - (number(p.addr) % size(p))

LEMMA Aligned ==
    ASSUME NEW n \in Nat, NEW k \in Nat, k > 0
    PROVE  /\ n - (n % k) \in Nat /\ (n - (n % k)) % k = 0
           /\ n - (n % k) <= n /\ n < n - (n % k) + k
<1> DEFINE q == n \div k
           r == n % k
<1>1. q \in Nat /\ r \in Nat /\ r < k /\ r <= n /\ n = q * k + r
  BY Division
<1> HIDE DEF q, r
<1>2. n - r \in Nat /\ n - r = q * k + 0
  BY <1>1
<1>3. (n - r) % k = 0
  BY <1>1, <1>2, RemainderUnique
<1>4. n - r <= n /\ n < n - r + k
  BY <1>1
<1> QED BY <1>2, <1>3, <1>4 DEF r

LEMMA SameBlock ==
    ASSUME NEW n \in Nat, NEW m \in Nat, NEW k \in Nat, k > 0, m % k = 0, m <= n, n < m + k
    PROVE  n - (n % k) = m
<1> DEFINE q == m \div k
<1>1. q \in Nat /\ m = q * k + 0
  BY Division
<1> HIDE DEF q
<1>2. n - m \in Nat /\ n - m < k /\ n = q * k + (n - m)
  BY <1>1
<1>3. n % k = n - m
  BY <1>1, <1>2, RemainderUnique
<1> QED BY <1>3

\* Contains says that the number lies in the interval of the prefix.
LEMMA ContainsInterval ==
    ASSUME NEW p \in Prefix, NEW a \in Address
    PROVE  /\ firstNumber(p) \in Nat
           /\ Contains(p, a) <=> firstNumber(p) <= number(a) /\ number(a) < firstNumber(p) + size(p)
<1> DEFINE n == number(a)
           m == number(p.addr)
           k == size(p)
<1>1. p.addr \in Address /\ p.bits \in 0..AddrBits
  BY DEF Prefix
<1>2. n \in Nat /\ m \in Nat /\ k \in Nat /\ k > 0
  BY <1>1, NumberNat, SizeNat
<1>3. /\ network(a, p.bits) \in Address /\ network(p.addr, p.bits) \in Address
      /\ number(network(a, p.bits)) = n - (n % k)
      /\ number(network(p.addr, p.bits)) = m - (m % k)
  BY <1>1, NetworkNumber DEF size
<1>4. Contains(p, a) <=> n - (n % k) = m - (m % k)
  BY <1>3, SameNumber DEF Contains
<1> HIDE DEF n, m, k
<1>5. m - (m % k) \in Nat /\ (m - (m % k)) % k = 0
  BY <1>2, Aligned
<1>6. n - (n % k) <= n /\ n < n - (n % k) + k
  BY <1>2, Aligned
<1>7. m - (m % k) <= n /\ n < m - (m % k) + k => n - (n % k) = m - (m % k)
  BY <1>2, <1>5, SameBlock
<1>8. Contains(p, a) <=> m - (m % k) <= n /\ n < m - (m % k) + k
  BY <1>4, <1>6, <1>7
<1> QED BY <1>5, <1>8 DEF n, m, k, firstNumber

\* A masked prefix has the hosts of the prefix as it was written, and starts at
\* its own address.
LEMMA MaskedPrefix ==
    ASSUME NEW p \in Prefix
    PROVE  /\ Masked(p) \in Prefix
           /\ firstNumber(Masked(p)) = number(Masked(p).addr)
           /\ hosts(Masked(p)) = hosts(p)
<1> DEFINE q == Masked(p)
           m == number(p.addr)
           k == size(p)
<1>1. p.addr \in Address /\ p.bits \in 0..AddrBits
  BY DEF Prefix
<1>2. q.addr = network(p.addr, p.bits) /\ q.bits = p.bits
  BY DEF Masked, Prefix
<1>3. network(p.addr, p.bits) \in Address /\ number(q.addr) = m - (m % k)
  BY <1>1, <1>2, NetworkNumber DEF size
<1>4. q \in Prefix
  BY <1>1, <1>3 DEF Masked, Prefix
<1>5. m \in Nat /\ k \in Nat /\ k > 0 /\ size(q) = k
  BY <1>1, <1>2, NumberNat, SizeNat DEF size
<1> HIDE DEF q, m, k
<1>6. m - (m % k) \in Nat /\ (m - (m % k)) % k = 0
  BY <1>5, Aligned
<1>7. firstNumber(q) = m - (m % k)
  BY <1>3, <1>5, <1>6 DEF firstNumber
<1>8. firstNumber(q) = firstNumber(p)
  BY <1>7 DEF firstNumber, m, k
<1>9. hosts(q) = hosts(p)
  BY <1>5, <1>8 DEF hosts, firstNumber, k
<1> QED BY <1>3, <1>4, <1>7, <1>9 DEF q

-----------------------------------------------------------------------------
(* The walk *)

\* A prefix of the list that is neither to do nor under way is in use.
Passed == \A q \in listIPv4ServiceCIDRs \ todo : q # prefix => hosts(q) \subseteq taken

\* So are the hosts of the prefix under way that lie before the candidate.
WalkedUpTo ==
    /\ candidate # Invalid => number(candidate) > number(prefix.addr)
    /\ \A a \in hosts(prefix) :
         candidate = Invalid \/ number(a) < number(candidate) => a \in taken

WalkInv ==
    /\ serviceCIDRs \in ServiceCIDRLists
    /\ taken \subseteq Address
    /\ candidate \in Address \cup {Invalid}
    /\ pc # "allocated" => result = Invalid
    /\ pc # "start" => todo \subseteq listIPv4ServiceCIDRs
    /\ pc \in {"walking", "allocated"} =>
         /\ prefix \in listIPv4ServiceCIDRs
         /\ \A q \in todo : Before(prefix, q)
         /\ Passed /\ WalkedUpTo
    /\ pc = "allocated" => result = candidate /\ candidate \in hosts(prefix)
    /\ pc = "failed" => \A q \in listIPv4ServiceCIDRs : hosts(q) \subseteq taken

\* The prefixes the properties speak of are the ones the walk lists.
LEMMA Listed ==
    ASSUME serviceCIDRs \in ServiceCIDRLists
    PROVE  /\ readyPrefixes \subseteq Prefix
           /\ listIPv4ServiceCIDRs = {Masked(p) : p \in readyPrefixes}
           /\ \A q \in listIPv4ServiceCIDRs :
                /\ q \in Prefix /\ firstNumber(q) = number(q.addr)
                /\ \E p \in readyPrefixes : q = Masked(p) /\ hosts(q) = hosts(p)
<1>1. \A c \in serviceCIDRs :
        /\ c.ready \in {"unset", "True"} <=> c.ready \notin {"False", "Unknown"}
        /\ \A i \in DOMAIN c.cidrs : c.cidrs[i] \in Prefix \cup {Invalid}
  BY CachesAssumption DEF ServiceCIDR
<1>2. readyPrefixes \subseteq Prefix
  BY <1>1 DEF readyPrefixes
<1>3. writtenPrefixes = readyPrefixes
  <2> DEFINE usable == {d \in serviceCIDRs : ~d.deleting /\ d.ready \notin {"False", "Unknown"}}
  <2>1. {d \in serviceCIDRs : ~d.deleting /\ serviceCIDRReady(d)} = usable
    BY <1>1 DEF serviceCIDRReady
  <2> HIDE DEF usable
  <2>2. \A p : p \in writtenPrefixes <=>
          p # Invalid /\ \E c \in usable : \E i \in DOMAIN c.cidrs : p = c.cidrs[i]
    <3>1. writtenPrefixes = (UNION {{c.cidrs[i] : i \in DOMAIN c.cidrs} : c \in usable}) \ {Invalid}
      BY <2>1 DEF writtenPrefixes
    <3> QED BY <3>1
  <2>3. \A p : p \in readyPrefixes <=>
          \E c \in usable : \E i \in DOMAIN c.cidrs : c.cidrs[i] # Invalid /\ p = c.cidrs[i]
    BY DEF readyPrefixes, usable
  <2> QED BY <2>2, <2>3
<1>4. listIPv4ServiceCIDRs = {Masked(p) : p \in readyPrefixes}
  BY <1>3 DEF listIPv4ServiceCIDRs
<1>5. ASSUME NEW q \in listIPv4ServiceCIDRs
      PROVE  /\ q \in Prefix /\ firstNumber(q) = number(q.addr)
             /\ \E p \in readyPrefixes : q = Masked(p) /\ hosts(q) = hosts(p)
  <2>1. PICK p \in readyPrefixes : q = Masked(p)
    BY <1>4
  <2> QED BY <1>2, <2>1, MaskedPrefix
<1> QED BY <1>2, <1>4, <1>5

LEMMA HostInterval ==
    ASSUME NEW p
    PROVE  hosts(p) = {a \in Address : /\ firstNumber(p) < number(a)
                                       /\ number(a) < firstNumber(p) + size(p) - 1}
BY DEF hosts, firstNumber

\* The inner loop stops where the hosts of the prefix end.
LEMMA EndOfPrefix ==
    ASSUME NEW p \in Prefix, firstNumber(p) = number(p.addr),
           NEW c \in Address, number(c) > number(p.addr)
    PROVE  /\ ~endOfPrefix(p, c) => c \in hosts(p)
           /\ endOfPrefix(p, c) => \A a \in hosts(p) : number(a) < number(c)
<1>1. number(c) \in Nat /\ firstNumber(p) \in Nat /\ size(p) \in Nat /\ size(p) > 0
  BY NumberNat, ContainsInterval, SizeNat
<1>2. \A a \in hosts(p) : /\ number(a) \in Nat /\ firstNumber(p) < number(a)
                          /\ number(a) < firstNumber(p) + size(p) - 1
  BY HostInterval, NumberNat
<1>3. Contains(p, c) <=> number(c) < firstNumber(p) + size(p)
  BY <1>1, ContainsInterval
<1>4. c = lastAddr(p) <=> number(c) = firstNumber(p) + (size(p) - 1)
  <2>1. /\ lastAddr(p) \in Address
        /\ number(lastAddr(p)) = number(network(p.addr, p.bits)) + (size(p) - 1)
    BY LastNumber
  <2>2. number(network(p.addr, p.bits)) = firstNumber(p)
    <3>1. p.addr \in Address /\ p.bits \in 0..AddrBits
      BY DEF Prefix
    <3> QED BY <3>1, NetworkNumber DEF firstNumber, size
  <2> QED BY <2>1, <2>2, SameNumber
<1>5. c # Invalid
  BY InvalidAssumption
<1>6. ASSUME ~endOfPrefix(p, c) PROVE c \in hosts(p)
  <2>1. number(c) < firstNumber(p) + size(p) /\ number(c) # firstNumber(p) + (size(p) - 1)
    BY <1>3, <1>4, <1>6 DEF endOfPrefix, isLastAddress
  <2>2. firstNumber(p) < number(c) /\ number(c) < firstNumber(p) + size(p) - 1
    BY <1>1, <2>1
  <2> QED BY <2>2, HostInterval
<1>7. ASSUME endOfPrefix(p, c), NEW a \in hosts(p) PROVE number(a) < number(c)
  <2>1. \/ ~(number(c) < firstNumber(p) + size(p))
        \/ number(c) = firstNumber(p) + (size(p) - 1)
    BY <1>3, <1>4, <1>5, <1>7 DEF endOfPrefix, isLastAddress
  <2> QED BY <1>1, <1>2, <2>1
<1> QED BY <1>6, <1>7

LEMMA NextCandidate ==
    ASSUME NEW p, NEW c \in Address, number(c) > number(p.addr), NEW T, c \in T,
           p.addr \in Address, \A a \in hosts(p) : number(a) < number(c) => a \in T
    PROVE  LET n == nextAddr(c)
           IN  /\ n \in Address \cup {Invalid}
               /\ n # Invalid => number(n) > number(p.addr)
               /\ \A a \in hosts(p) : n = Invalid \/ number(a) < number(n) => a \in T
<1> DEFINE n == nextAddr(c)
<1>1. number(c) \in Nat /\ number(p.addr) \in Nat
  BY NumberNat
<1>2. \A a \in hosts(p) : a \in Address /\ number(a) \in Nat
  BY HostInterval, NumberNat
<1>3. \A a \in hosts(p) : number(a) <= number(c) => a \in T
  BY <1>1, <1>2, SameNumber
<1>4. CASE n = Invalid /\ \A b \in Address : number(b) <= number(c)
  BY <1>2, <1>3, <1>4
<1>5. CASE n \in Address /\ number(n) = number(c) + 1
  <2>1. n # Invalid
    BY <1>5, InvalidAssumption
  <2> HIDE DEF n
  <2>2. number(n) > number(p.addr)
    BY <1>1, <1>5
  <2>3. \A a \in hosts(p) : number(a) < number(n) => a \in T
    BY <1>1, <1>2, <1>3, <1>5
  <2>4. n \in Address
    BY <1>5
  <2> QED BY <2>1, <2>2, <2>3, <2>4 DEF n
<1> QED BY <1>4, <1>5, NextAddr

\* The walk of a prefix starts behind its network address, before its hosts.
LEMMA FirstCandidate ==
    ASSUME NEW p \in Prefix, firstNumber(p) = number(p.addr), NEW T
    PROVE  LET n == firstAllocatable(p)
           IN  /\ n \in Address \cup {Invalid}
               /\ n # Invalid => number(n) > number(p.addr)
               /\ \A a \in hosts(p) : n = Invalid \/ number(a) < number(n) => a \in T
<1> DEFINE n == nextAddr(p.addr)
<1>1. p.addr \in Address
  BY DEF Prefix
<1>2. number(p.addr) \in Nat
  BY <1>1, NumberNat
<1>3. \A a \in hosts(p) : a \in Address /\ number(a) \in Nat /\ number(p.addr) < number(a)
  BY HostInterval, NumberNat
<1>4. CASE n = Invalid /\ \A b \in Address : number(b) <= number(p.addr)
  BY <1>2, <1>3, <1>4 DEF firstAllocatable
<1>5. CASE n \in Address /\ number(n) = number(p.addr) + 1
  <2>1. n # Invalid
    BY <1>5, InvalidAssumption
  <2> HIDE DEF n
  <2>2. number(n) > number(p.addr) /\ \A a \in hosts(p) : ~(number(a) < number(n))
    BY <1>2, <1>3, <1>5
  <2> QED BY <1>5, <2>1, <2>2 DEF n, firstAllocatable
<1> QED BY <1>1, <1>4, <1>5, NextAddr

\* The outer loop enters a prefix when everything before it is in use.
LEMMA EnterPrefix ==
    ASSUME WalkInv, NEW prefixes, prefixes \subseteq listIPv4ServiceCIDRs,
           \A q \in listIPv4ServiceCIDRs \ prefixes : hosts(q) \subseteq taken,
           pc # "allocated", enterPrefix(prefixes),
           UNCHANGED <<serviceCIDRs, taken, result>>
    PROVE  WalkInv'
<1>1. listIPv4ServiceCIDRs' = listIPv4ServiceCIDRs
  BY DEF listIPv4ServiceCIDRs, writtenPrefixes
<1>2. CASE prefixes = {} /\ pc' = "failed" /\ todo' = {} /\ candidate' = Invalid
  BY <1>1, <1>2 DEF WalkInv
<1>3. ASSUME NEW p \in prefixes, \A q \in prefixes \ {p} : Before(p, q),
             prefix' = p, todo' = prefixes \ {p}, pc' = "walking",
             candidate' = firstAllocatable(p)
      PROVE  WalkInv'
  <2>1. p \in Prefix /\ firstNumber(p) = number(p.addr)
    BY Listed DEF WalkInv
  <2>2. candidate' \in Address \cup {Invalid} /\ WalkedUpTo'
    BY <1>3, <2>1, FirstCandidate DEF WalkedUpTo
  <2>3. Passed'
    BY <1>1, <1>3 DEF Passed
  <2> QED BY <1>1, <1>3, <2>2, <2>3 DEF WalkInv
<1> QED BY <1>2, <1>3 DEF enterPrefix

LEMMA WalkStep == WalkInv /\ [Next]_vars => WalkInv'
<1> SUFFICES ASSUME WalkInv, [Next]_vars PROVE WalkInv'
  OBVIOUS
<1> DEFINE listed == listIPv4ServiceCIDRs
<1>1. CASE list
  BY <1>1, EnterPrefix DEF list, WalkInv
<1>2. ASSUME pc = "walking"
      PROVE  /\ prefix \in Prefix /\ firstNumber(prefix) = number(prefix.addr)
             /\ prefix.addr \in Address
  <2>1. prefix \in listed /\ serviceCIDRs \in ServiceCIDRLists
    BY <1>2 DEF WalkInv
  <2>2. prefix \in Prefix /\ firstNumber(prefix) = number(prefix.addr)
    BY <2>1, Listed
  <2> QED BY <2>2 DEF Prefix
<1>3. CASE nextPrefix
  <2>1. hosts(prefix) \subseteq taken
    <3>1. CASE candidate = Invalid
      BY <1>3, <3>1 DEF nextPrefix, WalkInv, WalkedUpTo
    <3>2. CASE candidate # Invalid
      <4>1. candidate \in Address /\ number(candidate) > number(prefix.addr)
        BY <1>3, <3>2 DEF nextPrefix, WalkInv, WalkedUpTo
      <4>2. \A a \in hosts(prefix) : number(a) < number(candidate)
        BY <1>2, <1>3, <4>1, EndOfPrefix DEF nextPrefix
      <4> QED BY <1>3, <4>2 DEF nextPrefix, WalkInv, WalkedUpTo
    <3> QED BY <3>1, <3>2
  <2>2. \A q \in listed \ todo : hosts(q) \subseteq taken
    BY <1>3, <2>1 DEF nextPrefix, WalkInv, Passed
  <2> QED BY <1>3, <2>2, EnterPrefix DEF nextPrefix, WalkInv
<1>4. ASSUME pc = "walking", ~endOfPrefix(prefix, candidate)
      PROVE  /\ candidate \in Address /\ number(candidate) > number(prefix.addr)
             /\ candidate \in hosts(prefix)
  <2>1. candidate \in Address /\ number(candidate) > number(prefix.addr)
    BY <1>4 DEF endOfPrefix, WalkInv, WalkedUpTo
  <2> QED BY <1>2, <1>4, <2>1, EndOfPrefix
<1>5. ASSUME pc = "walking", ~endOfPrefix(prefix, candidate),
             taken' = taken \cup {candidate}, candidate' = nextAddr(candidate),
             UNCHANGED <<serviceCIDRs, todo, prefix, pc, result>>
      PROVE  WalkInv'
  <2>1. listed' = listed
    BY <1>5 DEF listIPv4ServiceCIDRs, writtenPrefixes
  <2>2. \A a \in hosts(prefix) : number(a) < number(candidate) => a \in taken'
    BY <1>5 DEF WalkInv, WalkedUpTo
  <2>3. candidate' \in Address \cup {Invalid} /\ WalkedUpTo'
    BY <1>2, <1>4, <1>5, <2>2, NextCandidate DEF WalkedUpTo
  <2>4. Passed'
    BY <1>5, <2>1 DEF WalkInv, Passed
  <2>5. taken' \subseteq Address
    BY <1>4, <1>5 DEF WalkInv
  <2> QED BY <1>5, <2>1, <2>3, <2>4, <2>5 DEF WalkInv
<1>6. CASE skipTaken
  <2>1. taken' = taken \cup {candidate}
    BY <1>6 DEF skipTaken
  <2> QED BY <1>5, <1>6, <2>1 DEF skipTaken
<1>7. CASE create
  <2>1. CASE candidate \in reserved /\ taken' = taken \cup {candidate} /\
             candidate' = nextAddr(candidate) /\ UNCHANGED <<reserved, pc, result>>
    BY <1>5, <1>7, <2>1 DEF create
  <2>2. CASE result' = candidate /\ pc' = "allocated" /\ UNCHANGED <<taken, candidate>>
    <3>1. listed' = listed
      BY <1>7 DEF create, listIPv4ServiceCIDRs, writtenPrefixes
    <3>2. Passed' /\ WalkedUpTo'
      BY <1>7, <2>2, <3>1 DEF create, WalkInv, Passed, WalkedUpTo
    <3> QED BY <1>4, <1>7, <2>2, <3>1, <3>2 DEF create, WalkInv
  <2>3. CASE pc' = "error" /\ UNCHANGED <<reserved, taken, candidate, result>>
    <3>1. listed' = listed
      BY <1>7 DEF create, listIPv4ServiceCIDRs, writtenPrefixes
    <3> QED BY <1>7, <2>3, <3>1 DEF create, WalkInv
  <2> QED BY <1>7, <2>1, <2>2, <2>3 DEF create
<1>8. CASE otherClients \/ UNCHANGED vars
  <2>1. UNCHANGED <<serviceCIDRs, taken, todo, prefix, candidate, pc, result>>
    BY <1>8 DEF otherClients, vars
  <2>2. listed' = listed
    BY <2>1 DEF listIPv4ServiceCIDRs, writtenPrefixes
  <2> QED BY <2>1, <2>2 DEF WalkInv, Passed, WalkedUpTo
<1> QED BY <1>1, <1>3, <1>6, <1>7, <1>8 DEF Next, walk

LEMMA WalkInvariance == Spec => []WalkInv
<1>1. Init => WalkInv
  BY CachesAssumption DEF Init, WalkInv
<1> QED BY <1>1, WalkStep, PTL DEF Spec

\* Whatever firstAllocatable, nextAddr, Contains and isLastAddress let through
\* is a host of a ready ServiceCIDR, as numbers define it, for addresses of any
\* number of bytes of any width and for any list of prefixes, nested,
\* overlapping, of one or two addresses or at the end of the address space.
THEOREM AllocatesHostsCorrect == Spec => []AllocatesHosts
<1>1. WalkInv => AllocatesHosts
  <2> SUFFICES ASSUME WalkInv, result # Invalid PROVE result \in allocatable
    BY DEF AllocatesHosts
  <2>1. /\ serviceCIDRs \in ServiceCIDRLists /\ prefix \in listIPv4ServiceCIDRs
        /\ result \in hosts(prefix)
    BY DEF WalkInv
  <2>2. PICK p \in readyPrefixes : hosts(prefix) = hosts(p)
    BY <2>1, Listed
  <2> QED BY <2>1, <2>2 DEF allocatable
<1> QED BY <1>1, WalkInvariance, PTL

\* The walk gives up only after it has met every host of every ready prefix,
\* and found each one in the cache or refused by a Create.
THEOREM FailsOnlyWhenFullCorrect == Spec => []FailsOnlyWhenFull
<1>1. WalkInv => FailsOnlyWhenFull
  <2> SUFFICES ASSUME WalkInv, pc = "failed", NEW p \in readyPrefixes, NEW a \in hosts(p)
               PROVE  a \in taken
    BY DEF FailsOnlyWhenFull, allocatable
  <2>1. p \in Prefix /\ Masked(p) \in listIPv4ServiceCIDRs
    BY Listed DEF WalkInv
  <2>2. hosts(Masked(p)) = hosts(p)
    BY <2>1, MaskedPrefix
  <2> QED BY <2>1, <2>2 DEF WalkInv
<1> QED BY <1>1, WalkInvariance, PTL

\* The walk is first fit in the order of the prefixes' texts and, within a
\* prefix, of the numbers, while other clients take and free addresses.
THEOREM FirstFitCorrect == Spec => []FirstFit
<1>1. WalkInv => FirstFit
  <2> SUFFICES ASSUME WalkInv, result # Invalid, NEW p \in readyPrefixes, NEW a \in hosts(p),
                      \/ Before(Masked(p), prefix)
                      \/ Masked(p) = prefix /\ number(a) < number(result)
               PROVE  a \in taken
    BY DEF FirstFit
  <2> DEFINE q == Masked(p)
  <2>1. /\ serviceCIDRs \in ServiceCIDRLists /\ prefix \in listIPv4ServiceCIDRs
        /\ Passed /\ WalkedUpTo /\ result = candidate /\ \A r \in todo : Before(prefix, r)
    BY DEF WalkInv
  <2>2. p \in Prefix /\ q \in listIPv4ServiceCIDRs /\ q \in Prefix /\ prefix \in Prefix
    BY <2>1, Listed
  <2>3. a \in hosts(q)
    BY <2>2, MaskedPrefix
  <2> HIDE DEF q
  <2>4. CASE Before(q, prefix)
    <3>1. q # prefix /\ q \notin todo
      BY <2>1, <2>2, <2>4, OrderAssumption
    <3> QED BY <2>1, <2>2, <2>3, <3>1 DEF Passed
  <2>5. CASE q = prefix /\ number(a) < number(result)
    BY <2>1, <2>3, <2>5 DEF WalkedUpTo
  <2> QED BY <2>4, <2>5 DEF q
<1> QED BY <1>1, WalkInvariance, PTL

\* The two loops make progress with every step, for any width and any list of
\* prefixes: this is the measure by which WalkEnds holds.
THEOREM WalkAdvancesCorrect == Spec => WalkAdvances
<1> DEFINE counters == <<todo, prefix, candidate>>
           A == pc = "walking" =>
                  \/ pc' # "walking"
                  \/ todo' \subseteq todo /\ todo' # todo
                  \/ /\ todo' = todo /\ prefix' = prefix
                     /\ candidate' = Invalid \/ number(candidate') > number(candidate)
<1>1. ASSUME WalkInv, [Next]_vars, ~ UNCHANGED counters, pc = "walking", pc' = "walking"
      PROVE  \/ todo' \subseteq todo /\ todo' # todo
             \/ /\ todo' = todo /\ prefix' = prefix
                /\ candidate' = Invalid \/ number(candidate') > number(candidate)
  <2>1. nextPrefix \/ skipTaken \/ create
    BY <1>1 DEF Next, walk, list, otherClients, vars
  <2>2. CASE nextPrefix
    BY <1>1, <2>2 DEF nextPrefix, enterPrefix
  <2>3. CASE skipTaken \/ create
    <3>1. /\ candidate \in Address /\ candidate' = nextAddr(candidate)
          /\ todo' = todo /\ prefix' = prefix
      BY <1>1, <2>3 DEF skipTaken, create, endOfPrefix, WalkInv
    <3>2. number(candidate) \in Nat
      BY <3>1, NumberNat
    <3>3. candidate' = Invalid \/ number(candidate') = number(candidate) + 1
      BY <3>1, NextAddr
    <3> QED BY <3>1, <3>2, <3>3
  <2> QED BY <2>1, <2>2, <2>3
<1>2. WalkInv /\ [Next]_vars => [A]_counters
  BY <1>1
<1> QED BY <1>2, WalkInvariance, PTL DEF Spec, WalkAdvances

=============================================================================
