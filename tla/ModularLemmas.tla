--------------------------- MODULE ModularLemmas ---------------------------
(***************************************************************************)
(* Facts about % that hold for every modulus: what is known of a counter   *)
(* when only its low bits are seen.                                        *)
(***************************************************************************)
EXTENDS Integers, TLAPS

\* Division with remainder.
LEMMA DivMod ==
  ASSUME NEW M \in Nat \ {0}, NEW a \in Nat
  PROVE  /\ a % M \in 0..(M - 1)
         /\ a \div M \in Nat
         /\ a = M * (a \div M) + (a % M)
  OBVIOUS

\* A multiple of M strictly between -M and M is zero.
LEMMA SmallMultiple ==
  ASSUME NEW M \in Nat \ {0}, NEW d \in Int, M * d < M, -M < M * d
  PROVE  d = 0
<1>1. CASE d >= 1
  <2>1. M * d >= M BY <1>1, Z3
  <2> QED BY <2>1
<1>2. CASE d <= -1
  <2>1. M * d <= -M BY <1>2, Z3
  <2> QED BY <2>1
<1> QED BY <1>1, <1>2

\* Two counters less than M apart with the same low bits are equal.
LEMMA ModUnique ==
  ASSUME NEW M \in Nat \ {0}, NEW a \in Nat, NEW b \in Nat,
         a % M = b % M, a - b < M, b - a < M
  PROVE  a = b
<1> DEFINE q == a \div M
           p == b \div M
<1>1. a = M * q + (a % M) /\ q \in Nat BY DivMod
<1>2. b = M * p + (b % M) /\ p \in Nat BY DivMod
<1>3. a % M \in 0..(M - 1) BY DivMod
<1> HIDE DEF q, p
<1>4. a - b = M * q - M * p BY <1>1, <1>2, <1>3
<1>5. M * q - M * p = M * (q - p) BY <1>1, <1>2
<1>6. q - p = 0 BY <1>1, <1>2, <1>4, <1>5, SmallMultiple
<1> QED BY <1>1, <1>2, <1>3, <1>6

\* A counter at most M - 1 above r is recovered from its low bits and r.
LEMMA DecodeMod ==
  ASSUME NEW M \in Nat \ {0}, NEW r \in Nat, NEW n \in Nat,
         r <= n, n < r + M
  PROVE  LET h == r - (r % M) + (n % M)
         IN  n = IF h < r THEN h + M ELSE h
<1> DEFINE q == n \div M
           p == r \div M
           x == n % M
           y == r % M
<1>1. n = M * q + x /\ q \in Nat BY DivMod
<1>2. r = M * p + y /\ p \in Nat BY DivMod
<1>3. x \in 0..(M - 1) BY DivMod
<1>4. y \in 0..(M - 1) BY DivMod
<1> HIDE DEF q, p, x, y
<1>5. M * q - M * p = M * (q - p) BY <1>1, <1>2
<1>6. M * q - M * p - M = M * (q - p - 1) BY <1>1, <1>2
<1>7. CASE x >= y
  <2>1. q - p = 0 BY <1>1, <1>2, <1>3, <1>4, <1>5, <1>7, SmallMultiple
  <2> QED BY <1>1, <1>2, <1>3, <1>4, <1>7, <2>1 DEF x, y
<1>8. CASE x < y
  <2>1. -M < M * (q - p - 1) /\ M * (q - p - 1) < M
    BY <1>1, <1>2, <1>3, <1>4, <1>6, <1>8
  <2>2. q - p - 1 = 0 BY <1>1, <1>2, <2>1, SmallMultiple
  <2>3. n - r = M + x - y BY <1>1, <1>2, <1>3, <1>4, <1>6, <2>2
  <2> QED BY <1>3, <1>4, <1>8, <2>3 DEF x, y
<1> QED BY <1>3, <1>4, <1>7, <1>8

\* Multiplication by a constant is monotonic.
LEMMA MulMono ==
  ASSUME NEW M \in Nat, NEW a \in Nat, NEW b \in Nat, a <= b
  PROVE  a * M <= b * M
<1>1. b * M - a * M = (b - a) * M OBVIOUS
<1>2. (b - a) * M >= 0 BY Z3
<1> QED BY <1>1, <1>2

\* One more multiple adds one modulus.
LEMMA MulSucc ==
  ASSUME NEW M \in Nat, NEW a \in Int
  PROVE  (a + 1) * M = a * M + M
  OBVIOUS
=============================================================================
