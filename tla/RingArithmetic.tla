--------------------------- MODULE RingArithmetic ---------------------------
(***************************************************************************)
(* The arithmetic of positions in a ring: what the remainder by the size   *)
(* of a ring preserves, and which positions it keeps apart.                *)
(***************************************************************************)
EXTENDS Integers, TLAPS

(* A remainder is a position of the ring.                                  *)
LEMMA ModRange ==
    ASSUME NEW a \in Nat, NEW n \in Nat \ {0}
    PROVE  a % n \in 0 .. n - 1
OBVIOUS

(* A number below the size of the ring is its own position.                *)
LEMMA ModSmall ==
    ASSUME NEW a \in Nat, NEW n \in Nat \ {0}, a < n
    PROVE  a % n = a
OBVIOUS

(* Division with remainder.                                                *)
LEMMA DivMod ==
    ASSUME NEW a \in Nat, NEW n \in Nat \ {0}
    PROVE  a = n * (a \div n) + (a % n) /\ a \div n \in Nat
OBVIOUS

(* The remainder is determined by any such decomposition.                  *)
LEMMA ModUnique ==
    ASSUME NEW n \in Nat \ {0}, NEW q \in Nat, NEW r \in 0 .. n - 1
    PROVE  (n * q + r) % n = r
OBVIOUS

(* Distinct multiples of n are at least n apart.                           *)
LEMMA MultiplesApart ==
    ASSUME NEW p \in Nat, NEW q \in Nat, NEW n \in Nat \ {0}, p < q
    PROVE  n * q >= n * p + n
<1>1. PICK d \in Nat : q = p + 1 + d
  <2>1. q - p - 1 \in Nat /\ q = p + 1 + (q - p - 1)
    OBVIOUS
  <2> QED BY <2>1
<1>2. n * q = n * p + n + n * d
  BY <1>1
<1>3. n * d >= 0 /\ n * p \in Int
  OBVIOUS
<1> QED BY <1>2, <1>3

(* Incrementing a position: what cnt_buffer_in = (cnt_buffer_in + 1) %     *)
(* dma_num_buffers does to the position of a running count.                *)
LEMMA ModIncrement ==
    ASSUME NEW a \in Nat, NEW n \in Nat \ {0}
    PROVE  ((a % n) + 1) % n = (a + 1) % n
<1> DEFINE q == a \div n
           r == a % n
<1>1. a = n * q + r /\ q \in Nat /\ r \in 0 .. n - 1
  BY DivMod, ModRange
<1> HIDE DEF q, r
<1>2. CASE r = n - 1
  <2>1. a + 1 = n * (q + 1) + 0
    BY <1>1, <1>2
  <2>2. (n * (q + 1) + 0) % n = 0 /\ (n * 1 + 0) % n = 0
    BY <1>1, ModUnique
  <2>3. r + 1 = n * 1 + 0
    BY <1>1, <1>2
  <2> QED BY <2>1, <2>2, <2>3 DEF r
<1>3. CASE r # n - 1
  <2>1. a + 1 = n * q + (r + 1) /\ r + 1 \in 0 .. n - 1
    BY <1>1, <1>3
  <2>2. (n * q + (r + 1)) % n = r + 1 /\ (r + 1) % n = r + 1
    BY <1>1, <2>1, ModUnique, ModSmall
  <2> QED BY <2>1, <2>2 DEF r
<1> QED BY <1>2, <1>3

(* Numbers less than a whole ring apart have different positions.          *)
LEMMA ModInjective ==
    ASSUME NEW a \in Nat, NEW b \in Nat, NEW n \in Nat \ {0},
           a < b, b - a < n
    PROVE  a % n # b % n
<1> DEFINE p == a \div n
           q == b \div n
           r == a % n
<1> SUFFICES ASSUME a % n = b % n
             PROVE  FALSE
  OBVIOUS
<1>1. /\ a = n * p + r /\ b = n * q + r
      /\ p \in Nat /\ q \in Nat /\ r \in 0 .. n - 1
  BY DivMod, ModRange
<1> HIDE DEF p, q, r
<1>2. n * p \in Int /\ n * q \in Int
  BY <1>1
<1>3. CASE p < q
  BY <1>1, <1>2, <1>3, MultiplesApart
<1>4. CASE q < p
  <2>1. n * p >= n * q + n
    BY <1>1, <1>4, MultiplesApart
  <2> QED BY <2>1, <1>1, <1>2
<1>5. CASE p = q
  BY <1>1, <1>5
<1> QED BY <1>1, <1>3, <1>4, <1>5

(* A counter that wraps at a multiple of the ring keeps its position.      *)
LEMMA ModOfMod ==
    ASSUME NEW a \in Nat, NEW n \in Nat \ {0}, NEW m \in Nat \ {0},
           m % n = 0
    PROVE  (a % m) % n = a % n
<1> DEFINE p == m \div n
           q == a \div m
           r == a % m
           s == r \div n
           t == r % n
<1>1. m = n * p /\ p \in Nat
  BY DivMod
<1>2. a = m * q + r /\ q \in Nat /\ r \in Nat
  BY DivMod, ModRange
<1>3. r = n * s + t /\ s \in Nat /\ t \in 0 .. n - 1
  BY <1>2, DivMod, ModRange
<1> HIDE DEF p, q, r, s, t
<1>4. PICK u \in Nat : m * q = n * u
  <2>1. p * q \in Nat /\ m * q = n * (p * q)
    BY <1>1, <1>2
  <2> QED BY <2>1
<1>5. a = n * (u + s) + t /\ u + s \in Nat
  <2>1. n * (u + s) = n * u + n * s
    BY <1>3
  <2>2. n * u \in Int /\ n * s \in Int
    BY <1>3
  <2> QED BY <1>2, <1>3, <1>4, <2>1, <2>2
<1>6. (n * (u + s) + t) % n = t
  BY <1>3, <1>5, ModUnique
<1> QED BY <1>5, <1>6 DEF t, r
=============================================================================
