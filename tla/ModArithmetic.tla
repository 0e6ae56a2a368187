---------------------------- MODULE ModArithmetic ----------------------------
(***************************************************************************)
(* Facts about % for a modulus that is a parameter, which the SMT solver   *)
(* does not find by itself.  They are what sequence numbers and the places *)
(* of rings rest on.  And the smallest element of a set, which searches of *)
(* tables take.                                                            *)
(***************************************************************************)
EXTENDS Integers, WellFoundedInduction, TLAPS

LEMMA DivMod ==
  ASSUME NEW a \in Int, NEW m \in Nat, m > 0
  PROVE  a = m * (a \div m) + (a % m) /\ a % m \in 0 .. m - 1 /\ a \div m \in Int
  BY Z3

LEMMA MultiplesApart ==
  ASSUME NEW p \in Int, NEW q \in Int, NEW m \in Nat, p > q, m > 0
  PROVE  m * p - m * q >= m
<1>1. m * (p - q) >= m * 1  BY Z3
<1>   QED  BY <1>1, Z3

\* Two numbers less than m apart are equal if they agree modulo m.
LEMMA ModUnique ==
  ASSUME NEW a \in Int, NEW b \in Int, NEW m \in Nat, m > 0,
         a % m = b % m, a - b < m, b - a < m
  PROVE  a = b
<1>  DEFINE p == a \div m
            q == b \div m
<1>1. a = m * p + (a % m) /\ b = m * q + (b % m) /\ p \in Int /\ q \in Int  BY DivMod
<1>2. CASE p = q  BY <1>1, <1>2
<1>3. CASE p > q  BY <1>1, <1>3, MultiplesApart, Z3
<1>4. CASE q > p  BY <1>1, <1>4, MultiplesApart, Z3
<1>   QED  BY <1>1, <1>2, <1>3, <1>4

\* The remainder is the only number of its range that differs by a multiple.
LEMMA ModIs ==
  ASSUME NEW a \in Int, NEW m \in Nat, m > 0, NEW k \in Int, NEW r \in 0 .. m - 1,
         a = m * k + r
  PROVE  a % m = r
<1>  DEFINE q == a \div m
<1>1. a = m * q + (a % m) /\ a % m \in 0 .. m - 1 /\ q \in Int  BY DivMod
<1>2. CASE q = k  BY <1>1, <1>2
<1>3. CASE q > k  BY <1>1, <1>3, MultiplesApart, Z3
<1>4. CASE k > q  BY <1>1, <1>4, MultiplesApart, Z3
<1>   QED  BY <1>1, <1>2, <1>3, <1>4

\* (n + 1) % m can be had from n % m.
LEMMA ModNext ==
  ASSUME NEW n \in Int, NEW m \in Nat, m > 0
  PROVE  ((n % m) + 1) % m = (n + 1) % m
<1>  DEFINE k == n \div m
            r == n % m
<1>1. n = m * k + r /\ r \in 0 .. m - 1 /\ k \in Int  BY DivMod
<1>  HIDE DEF k, r
<1>2. CASE r + 1 < m
  <2>1. n + 1 = m * k + (r + 1) /\ r + 1 \in 0 .. m - 1 /\ n + 1 \in Int  BY <1>1, <1>2, Z3
  <2>2. (n + 1) % m = r + 1  BY <1>1, <2>1, ModIs
  <2>3. r + 1 = m * 0 + (r + 1) /\ r + 1 \in Int  BY <1>1, Z3
  <2>4. (r + 1) % m = r + 1  BY <2>1, <2>3, ModIs
  <2>   QED  BY <2>2, <2>4 DEF r
<1>3. CASE r + 1 = m
  <2>1. n + 1 = m * (k + 1) + 0 /\ k + 1 \in Int /\ n + 1 \in Int  BY <1>1, <1>3, Z3
  <2>2. (n + 1) % m = 0  BY <2>1, ModIs, 0 \in 0 .. m - 1
  <2>3. r + 1 = m * 1 + 0 /\ r + 1 \in Int  BY <1>1, <1>3, Z3
  <2>4. (r + 1) % m = 0  BY <2>3, ModIs, 0 \in 0 .. m - 1
  <2>   QED  BY <2>2, <2>4 DEF r
<1>   QED  BY <1>1, <1>2, <1>3

\* (n - 1) % m can be had from n % m.
LEMMA ModPrev ==
  ASSUME NEW n \in Int, NEW m \in Nat, m > 0
  PROVE  ((n % m) - 1) % m = (n - 1) % m
<1>1. (n - 1) % m \in Int  BY DivMod
<1>2. (((n - 1) % m) + 1) % m = n % m  BY ModNext
<1>  DEFINE k == (n - 1) \div m
            r == (n - 1) % m
<1>3. n - 1 = m * k + r /\ r \in 0 .. m - 1 /\ k \in Int  BY DivMod
<1>  HIDE DEF k, r
<1>4. CASE r + 1 < m
  <2>1. r + 1 = m * 0 + (r + 1) /\ r + 1 \in 0 .. m - 1  BY <1>3, <1>4, Z3
  <2>2. n % m = r + 1  BY <1>2, <2>1, ModIs DEF r
  <2>3. r = m * 0 + r  BY <1>3, Z3
  <2>4. r % m = r  BY <1>3, <2>3, ModIs
  <2>   QED  BY <1>3, <2>2, <2>4 DEF r
<1>5. CASE r + 1 = m
  <2>1. r + 1 = m * 1 + 0  BY <1>3, <1>5, Z3
  <2>2. n % m = 0  BY <1>2, <1>3, <2>1, ModIs, 0 \in 0 .. m - 1 DEF r
  <2>3. 0 - 1 = m * (-1) + r  BY <1>3, <1>5, Z3
  <2>4. (0 - 1) % m = r  BY <1>3, <2>3, ModIs
  <2>   QED  BY <2>2, <2>4 DEF r
<1>   QED  BY <1>3, <1>4, <1>5

\* A multiple of the modulus makes no difference.
LEMMA ModShift ==
  ASSUME NEW a \in Int, NEW m \in Nat, m > 0, NEW k \in Int
  PROVE  (a + m * k) % m = a % m
<1> DEFINE q == a \div m
           r == a % m
<1>1. a = m * q + r /\ r \in 0 .. m - 1 /\ q \in Int
  BY DivMod
<1> HIDE DEF q, r
<1>2. a + m * k = m * (q + k) + r /\ q + k \in Int /\ a + m * k \in Int
  BY <1>1, Z3
<1>3. (a + m * k) % m = r
  BY <1>1, <1>2, ModIs
<1> QED BY <1>3 DEF r

LEMMA ModSmall ==
  ASSUME NEW m \in Nat, m > 0, NEW r \in 0 .. m - 1
  PROVE  r % m = r
<1>1. r = m * 0 + r
  BY Z3
<1> QED BY <1>1, ModIs

\* Moving the origin one place, by an index that wraps at a multiple of m.
LEMMA ModTurn ==
  ASSUME NEW b \in Int, NEW i \in Int, NEW m \in Nat, m > 0, NEW w \in Nat, w > 0, w % m = 0
  PROVE  (b - ((i + 1) % w)) % m = (((b - i) % m) - 1) % m
<1> DEFINE q == (i + 1) \div w
           c == w \div m
           j == (i + 1) % w
<1>1. i + 1 = w * q + j /\ q \in Int /\ j \in Int
  BY DivMod
<1>2. w = m * c /\ c \in Int
  <2>1. w = m * c + (w % m) /\ c \in Int
    BY DivMod
  <2> QED BY <2>1, Z3
<1> HIDE DEF q, c, j
<1>3. b - j = (b - i - 1) + m * (c * q)
  <2>1. i + 1 = m * (c * q) + j
    BY <1>1, <1>2, Z3
  <2> QED BY <1>1, <1>2, <2>1, Z3
<1>4. (b - j) % m = (b - i - 1) % m
  <2> DEFINE a == b - i - 1
             k == c * q
  <2>1. a \in Int /\ k \in Int
    BY <1>1, <1>2
  <2>2. b - j = a + m * k
    BY <1>3
  <2> HIDE DEF a, k
  <2>3. (a + m * k) % m = a % m
    BY <2>1, ModShift
  <2>4. (b - j) % m = a % m
    BY <2>2, <2>3
  <2> QED BY <2>4 DEF a
<1>5. (((b - i) % m) - 1) % m = (b - i - 1) % m
  <2>1. b - i \in Int
    OBVIOUS
  <2> QED BY <2>1, ModPrev
<1> QED BY <1>4, <1>5 DEF j

\* Going a little further in a ring, without passing its end.
LEMMA ModAdd ==
  ASSUME NEW y \in Int, NEW d \in Int, NEW m \in Nat, m > 0, (y % m) + d \in 0 .. m - 1
  PROVE  (y + d) % m = (y % m) + d
<1> DEFINE q == y \div m
           r == y % m
<1>1. y = m * q + r /\ r \in 0 .. m - 1 /\ q \in Int
  BY DivMod
<1> HIDE DEF q, r
<1>2. y + d = m * q + (r + d) /\ y + d \in Int
  BY <1>1, Z3
<1>3. r + d \in 0 .. m - 1
  BY DEF r
<1>4. (y + d) % m = r + d
  BY <1>1, <1>2, <1>3, ModIs
<1> QED BY <1>4 DEF r

\* One place ahead of an origin, for an index that wraps at a multiple of m.
LEMMA ModAhead ==
  ASSUME NEW i \in Int, NEW d \in Int, NEW m \in Nat, m > 0, NEW w \in Nat, w > 0, w % m = 0
  PROVE  (((i + 1) % w) - d) % m = (((i - d) % m) + 1) % m
<1> DEFINE q == (i + 1) \div w
           c == w \div m
           j == (i + 1) % w
<1>1. i + 1 = w * q + j /\ q \in Int /\ j \in Int
  BY DivMod
<1>2. w = m * c /\ c \in Int
  <2>1. w = m * c + (w % m) /\ c \in Int
    BY DivMod
  <2> QED BY <2>1, Z3
<1> HIDE DEF q, c, j
<1>3. (i - d) + 1 = (j - d) + m * (c * q)
  <2>1. i + 1 = m * (c * q) + j
    BY <1>1, <1>2, Z3
  <2> QED BY <1>1, <1>2, <2>1, Z3
<1>4. ((i - d) + 1) % m = (j - d) % m
  <2> DEFINE a == j - d
             k == c * q
  <2>1. a \in Int /\ k \in Int
    BY <1>1, <1>2
  <2>2. (i - d) + 1 = a + m * k
    BY <1>3
  <2> HIDE DEF a, k
  <2>3. (a + m * k) % m = a % m
    BY <2>1, ModShift
  <2>4. ((i - d) + 1) % m = a % m
    BY <2>2, <2>3
  <2> QED BY <2>4 DEF a
<1>5. (((i - d) % m) + 1) % m = ((i - d) + 1) % m
  <2>1. i - d \in Int
    OBVIOUS
  <2> QED BY <2>1, ModNext
<1> QED BY <1>4, <1>5 DEF j

\* A division in two steps.
LEMMA DivDiv ==
  ASSUME NEW a \in Nat, NEW m \in Nat, m > 0, NEW n \in Nat, n > 0
  PROVE  m * n \in Nat /\ m * n > 0 /\ a \div (m * n) = (a \div m) \div n
<1> DEFINE q == a \div m
           r == a % m
           p == q \div n
           s == q % n
           v == m * n
<1>1. a = m * q + r /\ r \in 0 .. m - 1 /\ q \in Int
  BY DivMod
<1>2. q = n * p + s /\ s \in 0 .. n - 1 /\ p \in Int
  BY <1>1, DivMod
<1> HIDE DEF q, r, p, s
<1>3. v \in Nat /\ v > 0
  BY Z3
<1>4. m * q = m * (n * p) + m * s
  BY <1>1, <1>2, Z3
<1>5. m * (n * p) = v * p
  BY <1>2, Z3
<1>6. a = v * p + (m * s + r)
  <2>1. m * q \in Int /\ m * (n * p) \in Int /\ m * s \in Int
    BY <1>1, <1>2, Z3
  <2> HIDE DEF v
  <2> QED BY <1>1, <1>4, <1>5, <2>1
<1>7. m * s + r \in 0 .. v - 1
  <2>1. m * s <= m * (n - 1)
    BY <1>2, Z3
  <2>2. m * (n - 1) = v - m
    BY Z3
  <2>3. m * s >= 0
    BY <1>2, Z3
  <2>4. m * s \in Int
    BY <1>2, Z3
  <2> HIDE DEF v
  <2> QED BY <1>1, <1>3, <2>1, <2>2, <2>3, <2>4, Z3
<1> HIDE DEF v
<1>8. a \div v = p
  <2> DEFINE d == a \div v
             e == a % v
  <2>1. a = v * d + e /\ e \in 0 .. v - 1 /\ d \in Int
    BY <1>3, DivMod
  <2> HIDE DEF d, e
  <2>2. ~(d > p)
    <3> SUFFICES ASSUME d > p PROVE FALSE
      OBVIOUS
    <3>1. v * d - v * p >= v
      BY <1>2, <1>3, <2>1, MultiplesApart
    <3>2. v * d \in Int /\ v * p \in Int
      BY <1>2, <1>3, <2>1, Z3
    <3> QED BY <1>3, <1>6, <1>7, <2>1, <3>1, <3>2, Z3
  <2>3. ~(p > d)
    <3> SUFFICES ASSUME p > d PROVE FALSE
      OBVIOUS
    <3>1. v * p - v * d >= v
      BY <1>2, <1>3, <2>1, MultiplesApart
    <3>2. v * d \in Int /\ v * p \in Int
      BY <1>2, <1>3, <2>1, Z3
    <3> QED BY <1>3, <1>6, <1>7, <2>1, <3>1, <3>2, Z3
  <2>4. d = p
    BY <1>2, <2>1, <2>2, <2>3
  <2> QED BY <2>4 DEF d
<1> QED BY <1>3, <1>8 DEF v, p, q

\* The places of a number of three digits and a last one of another base.
LEMMA Places ==
  ASSUME NEW b \in Nat, b > 0, NEW d \in Nat, d > 0, NEW n \in Nat, n < (b * (b * b)) * d
  PROVE  n = (n % b) + ((n \div b) % b) * b + ((n \div (b * b)) % b) * (b * b)
               + ((n \div (b * (b * b))) % d) * (b * (b * b))
<1> DEFINE w == b * b
           u == b * w
           x == n \div b
           y == x \div b
           z == y \div b
           i == n % b
           j == x % b
           k == y % b
<1>1. n = b * x + i /\ i \in 0 .. b - 1 /\ x \in Int
  BY DivMod
<1>2. x \in Nat
  BY <1>1, Z3
<1>3. x = b * y + j /\ j \in 0 .. b - 1 /\ y \in Int
  BY <1>2, DivMod
<1>4. y \in Nat
  BY <1>2, <1>3, Z3
<1>5. y = b * z + k /\ k \in 0 .. b - 1 /\ z \in Int
  BY <1>4, DivMod
<1>6. z \in Nat
  BY <1>4, <1>5, Z3
<1>7. w \in Nat /\ w > 0 /\ n \div w = y
  BY DivDiv
<1>8. n \div u = z
  <2>1. n \div (w * b) = (n \div w) \div b
    BY <1>7, DivDiv
  <2>2. w * b = u
    BY Z3
  <2> QED BY <1>7, <2>1, <2>2
<1> HIDE DEF x, y, z, i, j, k
<1>9. n = i + j * b + k * w + z * u
  <2>1. b * x = b * (b * y) + b * j
    BY <1>3, Z3
  <2>2. b * (b * y) = w * y
    BY <1>3, Z3
  <2>3. w * y = w * (b * z) + w * k
    BY <1>5, Z3
  <2>4. w * (b * z) = u * z
    BY <1>5, Z3
  <2>5. b * j = j * b /\ w * k = k * w /\ u * z = z * u
    BY <1>3, <1>5, Z3
  <2>6. /\ b * x \in Int /\ b * (b * y) \in Int /\ b * j \in Int /\ w * y \in Int
        /\ w * (b * z) \in Int /\ w * k \in Int /\ u * z \in Int
    BY <1>1, <1>3, <1>5, <1>7, Z3
  <2> HIDE DEF u, w
  <2>7. b * x = j * b + k * w + z * u
    BY <2>1, <2>2, <2>3, <2>4, <2>5, <2>6
  <2> DEFINE A == j * b
             B == k * w
             C == z * u
             X == b * x
  <2>8. X = A + B + C /\ n = X + i /\ i \in Int /\ A \in Int /\ B \in Int /\ C \in Int
    BY <1>1, <2>5, <2>6, <2>7
  <2> HIDE DEF A, B, C, X
  <2>9. n = i + A + B + C
    BY <2>8
  <2> QED BY <2>9 DEF A, B, C
<1>10. z < d
  <2> SUFFICES ASSUME z >= d PROVE FALSE
    BY <1>6, Z3
  <2>1. u \in Nat /\ u > 0
    BY <1>7, Z3
  <2>2. u * z >= u * d
    BY <1>6, <2>1, Z3
  <2>3. j * b >= 0 /\ k * w >= 0
    BY <1>3, <1>5, <1>7, Z3
  <2>4. u * z = z * u
    BY <1>6, <2>1, Z3
  <2>5. j * b \in Int /\ k * w \in Int /\ z * u \in Int /\ u * d \in Int
    BY <1>3, <1>5, <1>6, <1>7, <2>1, Z3
  <2>6. n < u * d
    OBVIOUS
  <2> HIDE DEF u, w
  <2> QED BY <1>1, <1>9, <2>2, <2>3, <2>4, <2>5, <2>6
<1>11. z % d = z
  BY <1>6, <1>10, ModSmall
<1> QED BY <1>7, <1>8, <1>9, <1>11 DEF x, y, i, j, k

\* A set of numbers has a smallest one.
LEMMA Smallest ==
  ASSUME NEW S \in SUBSET Nat, S # {}
  PROVE  \E i \in S : \A j \in S : i <= j
<1>1. IsWellFoundedOn(OpToRel(<, Nat), Nat)
  BY NatLessThanWellFounded
<1>2. PICK i \in S : \A j \in S : ~(<<j, i>> \in OpToRel(<, Nat))
  BY <1>1, WFMin, Zenon
<1>3. \A j \in S : ~(j < i)
  BY <1>2 DEF OpToRel
<1> QED BY <1>3

\* A multiple divided.
LEMMA DivIs ==
  ASSUME NEW m \in Nat, m > 0, NEW k \in Int
  PROVE  (m * k) \div m = k
<1> DEFINE a == m * k
           q == a \div m
<1>1. a \in Int /\ a = m * k + 0
  BY Z3
<1>2. a % m = 0
  BY <1>1, ModIs
<1>3. a = m * q + (a % m) /\ q \in Int
  BY <1>1, DivMod
<1> HIDE DEF q
<1>4. m * q \in Int /\ m * k \in Int
  BY <1>3, Z3
<1>5. m * q = m * k
  BY <1>1, <1>2, <1>3, <1>4
<1>6. CASE q > k
  BY <1>3, <1>4, <1>5, <1>6, MultiplesApart
<1>7. CASE q < k
  BY <1>3, <1>4, <1>5, <1>7, MultiplesApart
<1> QED BY <1>3, <1>6, <1>7 DEF q
==============================================================================
