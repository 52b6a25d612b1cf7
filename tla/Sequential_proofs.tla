-------------------------- MODULE Sequential_proofs --------------------------
(***************************************************************************)
(* The parts of the system that run in one thread.  The key exchange makes *)
(* the same key on both sides, the power of the generator it should be,    *)
(* for every width of a word, modulus, generator and private key; and a    *)
(* start of the library that succeeds leaves the chip as configured, for   *)
(* every configuration; what goes out in front of a packet says what was   *)
(* asked for, for every packet.                                            *)
(***************************************************************************)
EXTENDS DiffieHellman, ChipStart, WellFoundedInduction, FiniteSetTheorems, TLAPS

-----------------------------------------------------------------------------
(* Induction and recursion over the naturals.  They speak of sets and      *)
(* functions, not of operators, so that they can be cited.                 *)

(* A set of naturals that is not empty has a least element.                *)
LEMMA LeastNumber ==
  ASSUME NEW T, T \subseteq Nat, T # {}
  PROVE  \E m \in T : \A k \in T : ~(k < m)
<1>1. PICK m \in T : \A k \in T : <<k, m>> \notin OpToRel(<, Nat)
  BY WFMin, NatLessThanWellFounded, Zenon
<1>2. \A k \in T : ~(k < m)
  BY <1>1, Zenon DEF OpToRel
<1> QED BY <1>2

(* A set with 0 and, with a number, the next one has every number.         *)
LEMMA Induction ==
  ASSUME NEW T, 0 \in T, \A n \in Nat : n \in T => n + 1 \in T
  PROVE  Nat \subseteq T
<1> DEFINE Out == {n \in Nat : n \notin T}
<1> SUFFICES ASSUME Out # {} PROVE FALSE
  OBVIOUS
<1>1. Out \subseteq Nat
  OBVIOUS
<1> HIDE DEF Out
<1>2. PICK m \in Out : \A k \in Out : ~(k < m)
  BY <1>1, LeastNumber
<1>3. m \in Nat /\ m # 0 /\ m \notin T
  BY <1>1 DEF Out
<1>4. m - 1 \in Nat /\ m - 1 < m /\ (m - 1) + 1 = m
  BY <1>3
<1>5. m - 1 \notin Out
  BY <1>2, <1>4
<1> QED BY <1>3, <1>4, <1>5 DEF Out

(* The same with all smaller numbers for the one before.                   *)
LEMMA StrongInduction ==
  ASSUME NEW T, \A n \in Nat : (\A k \in 0..n - 1 : k \in T) => n \in T
  PROVE  Nat \subseteq T
<1> DEFINE Out == {n \in Nat : n \notin T}
<1> SUFFICES ASSUME Out # {} PROVE FALSE
  OBVIOUS
<1>1. Out \subseteq Nat
  OBVIOUS
<1> HIDE DEF Out
<1>2. PICK m \in Out : \A k \in Out : ~(k < m)
  BY <1>1, LeastNumber
<1>3. m \in Nat /\ m \notin T
  BY <1>1 DEF Out
<1>4. \A k \in 0..m - 1 : k \in T
  <2>1. \A k \in 0..m - 1 : k \in Nat /\ k < m
    BY <1>3
  <2> QED BY <1>2, <2>1 DEF Out
<1> QED BY <1>3, <1>4

(* A function of the naturals that starts at a and goes on by a step.      *)
Iterates(f, a, next, V) ==
  f[0] = a /\ \A n \in Nat : f[n] \in V /\ f[n + 1] = next[f[n]]

(* A start and a step define one.                                          *)
LEMMA Recursion ==
  ASSUME NEW V, NEW a \in V, NEW next \in [V -> V]
  PROVE  \E f : Iterates(f, a, next, V)
<1> DEFINE Good(n, g) == /\ g \in [0..n -> V] /\ g[0] = a
                         /\ \A i \in 0..n - 1 : g[i + 1] = next[g[i]]
           T == {n \in Nat : \E g \in [0..n -> V] : Good(n, g)}
<1>1. Nat \subseteq T
  <2>1. 0 \in T
    <3> DEFINE g == [i \in 0..0 |-> a]
    <3>1. Good(0, g)
      OBVIOUS
    <3> QED BY <3>1
  <2>2. ASSUME NEW n \in Nat, n \in T PROVE n + 1 \in T
    <3>1. PICK g \in [0..n -> V] : Good(n, g)
      BY <2>2
    <3>2. next[g[n]] \in V
      BY <3>1
    <3> DEFINE x == next[g[n]]
               h == [i \in 0..n + 1 |-> IF i = n + 1 THEN x ELSE g[i]]
    <3>3. h[n + 1] = x /\ \A i \in 0..n : h[i] = g[i]
      OBVIOUS
    <3>4. h \in [0..n + 1 -> V]
      BY <3>2
    <3> HIDE DEF h
    <3>5. h[0] = a
      BY <3>1, <3>3
    <3>6. ASSUME NEW i \in 0..n PROVE h[i + 1] = next[h[i]]
      <4>1. CASE i = n
        BY <3>3, <4>1
      <4>2. CASE i \in 0..n - 1
        <5>1. g[i + 1] = next[g[i]] /\ i + 1 \in 0..n
          BY <3>1, <4>2
        <5> QED BY <3>3, <5>1
      <4> QED BY <4>1, <4>2
    <3>7. Good(n + 1, h)
      BY <3>4, <3>5, <3>6
    <3> QED BY <3>4, <3>7
  <2> HIDE DEF T
  <2> QED BY <2>1, <2>2, Induction
<1>2. ASSUME NEW n \in Nat, NEW m \in Nat, n <= m, NEW g, NEW h, Good(n, g), Good(m, h)
      PROVE  \A i \in 0..n : g[i] = h[i]
  <2> DEFINE S == {i \in Nat : i <= n => g[i] = h[i]}
  <2>1. 0 \in S
    BY <1>2
  <2>2. ASSUME NEW i \in Nat, i \in S PROVE i + 1 \in S
    <3>1. CASE i + 1 <= n
      <4>1. g[i] = h[i] /\ i \in 0..n - 1 /\ i \in 0..m - 1
        BY <1>2, <2>2, <3>1
      <4>2. g[i + 1] = next[g[i]] /\ h[i + 1] = next[h[i]]
        BY <1>2, <4>1
      <4> QED BY <4>1, <4>2
    <3> QED BY <3>1
  <2>3. Nat \subseteq S
    <3> HIDE DEF S
    <3> QED BY <2>1, <2>2, Induction
  <2> QED BY <2>3
<1> DEFINE of(n) == CHOOSE g \in [0..n -> V] : Good(n, g)
           f == [n \in Nat |-> of(n)[n]]
<1>3. \A n \in Nat : Good(n, of(n))
  BY <1>1
<1> HIDE DEF of
<1>4. f \in [Nat -> V]
  BY <1>3
<1>5. f[0] = a
  BY <1>3
<1>6. ASSUME NEW n \in Nat PROVE f[n + 1] = next[f[n]]
  <2>1. Good(n, of(n)) /\ Good(n + 1, of(n + 1))
    BY <1>3
  <2>2. of(n)[n] = of(n + 1)[n]
    <3> HIDE DEF Good
    <3> QED BY <1>2, <2>1
  <2>3. of(n + 1)[n + 1] = next[of(n + 1)[n]]
    BY <2>1
  <2> QED BY <2>2, <2>3
<1> QED BY <1>4, <1>5, <1>6 DEF Iterates

-----------------------------------------------------------------------------
(* Numbers: powers of two, quotients and remainders.                       *)

(* Twice as many subsets with one element more.                            *)
LEMMA PowersOfTwo ==
  2^0 = 1 /\ \A n \in Nat : 2^n \in Nat \ {0} /\ 2^(n + 1) = 2 * 2^n
<1>1. 2^0 = 1
  OBVIOUS
<1>2. ASSUME NEW n \in Nat
      PROVE  /\ IsFiniteSet(1..n) /\ Cardinality(1..n) = n
             /\ IsFiniteSet(SUBSET (1..n)) /\ Cardinality(SUBSET (1..n)) = 2^n
  <2>1. IsFiniteSet(1..n) /\ Cardinality(1..n) = n
    BY FS_Interval
  <2> QED BY <2>1, FS_SUBSET
<1>3. ASSUME NEW n \in Nat PROVE 2^n \in Nat \ {0}
  <2>1. Cardinality(SUBSET (1..n)) \in Nat
    BY <1>2, FS_CardinalityType
  <2>2. {} \in SUBSET (1..n)
    OBVIOUS
  <2>3. Cardinality(SUBSET (1..n)) # 0
    BY <1>2, <2>2, FS_EmptySet
  <2> QED BY <1>2, <2>1, <2>3
<1>4. ASSUME NEW n \in Nat PROVE 2^(n + 1) = 2 * 2^n
  <2> DEFINE Old == SUBSET (1..n)
             All == SUBSET (1..n + 1)
             New == All \ Old
             plus == [s \in Old |-> s \cup {n + 1}]
  <2>1. IsFiniteSet(Old) /\ Cardinality(Old) = 2^n /\ 2^n \in Nat
    BY <1>2, <1>3
  <2>2. IsFiniteSet(All) /\ Cardinality(All) = 2^(n + 1)
    BY <1>2
  <2>3. n + 1 \notin 1..n /\ 1..n + 1 = (1..n) \cup {n + 1}
    OBVIOUS
  <2>4. plus \in Bijection(Old, New)
    <3>1. \A s \in Old : plus[s] \in New
      BY <2>3
    <3>2. \A s, t \in Old : plus[s] = plus[t] => s = t
      BY <2>3
    <3>3. \A t \in New : \E s \in Old : plus[s] = t
      <4>1. TAKE t \in New
      <4>2. n + 1 \in t /\ t \ {n + 1} \in Old
        BY <2>3
      <4>3. plus[t \ {n + 1}] = t
        BY <4>2
      <4> QED BY <4>2, <4>3
    <3>4. plus \in [Old -> New] /\ \A s, t \in DOMAIN plus : plus[s] = plus[t] => s = t
      BY <3>1, <3>2
    <3> HIDE DEF plus, Old, New
    <3>5. plus \in Injection(Old, New)
      BY <3>4, Zenon DEF Injection, IsInjective
    <3>6. plus \in Surjection(Old, New)
      BY <3>3, <3>4, Zenon DEF Surjection
    <3> QED BY <3>5, <3>6 DEF Bijection
  <2>5. ExistsBijection(Old, New)
    BY <2>4 DEF ExistsBijection
  <2>6. IsFiniteSet(New) /\ Cardinality(New) = Cardinality(Old)
    BY <2>1, <2>5, FS_Bijection
  <2>7. Cardinality(Old \cup New)
          = Cardinality(Old) + Cardinality(New) - Cardinality(Old \cap New)
    BY <2>1, <2>6, FS_Union
  <2>8. Old \cup New = All /\ Old \cap New = {}
    BY <2>3
  <2>9. Cardinality({}) = 0
    BY FS_EmptySet
  <2> HIDE DEF Old, All, New
  <2>10. Cardinality(All) = Cardinality(Old) + Cardinality(Old) - 0
    BY <2>6, <2>7, <2>8, <2>9, Zenon
  <2> QED BY <2>1, <2>2, <2>10
<1> QED BY <1>1, <1>3, <1>4

(* A quotient and a remainder are the only ones there are.                 *)
LEMMA Division ==
  ASSUME NEW d \in Nat \ {0}, NEW q \in Int, NEW r \in Int, 0 <= r, r < d
  PROVE  (q * d + r) \div d = q /\ (q * d + r) % d = r
<1> DEFINE x == q * d + r
           y == x \div d
           z == x % d
<1>1. x \in Int /\ y \in Int /\ z \in Int /\ x = d * y + z /\ 0 <= z /\ z < d
  OBVIOUS
<1>2. d * (q - y) = z - r
  <2>1. x = q * d + r
    OBVIOUS
  <2> HIDE DEF x, y, z
  <2> QED BY <1>1, <2>1
<1> HIDE DEF x, y, z
<1> DEFINE e == q - y
<1>3. e \in Int /\ d * e = z - r
  BY <1>1, <1>2
<1>4. y = q - e
  BY <1>1
<1> HIDE DEF e
<1>5. ~(e >= 1)
  <2> SUFFICES ASSUME e >= 1 PROVE FALSE
    OBVIOUS
  <2>1. d * e >= d
    BY <1>3
  <2> QED BY <1>1, <1>3, <2>1
<1>6. ~(e <= -1)
  <2> SUFFICES ASSUME e <= -1 PROVE FALSE
    OBVIOUS
  <2>1. d * e <= -d
    BY <1>3
  <2> QED BY <1>1, <1>3, <2>1
<1>7. e = 0
  BY <1>3, <1>5, <1>6
<1>8. y = q /\ z = r
  BY <1>1, <1>3, <1>4, <1>7
<1> QED BY <1>8 DEF x, y, z

(* Two numbers that differ by a multiple of p have the same remainder.     *)
LEMMA SameRemainder ==
  ASSUME NEW p \in Nat \ {0}, NEW x \in Int, NEW y \in Int, NEW k \in Int, x = y + k * p
  PROVE  x % p = y % p
<1> DEFINE q == y \div p
           r == y % p
<1>1. q \in Int /\ r \in Int /\ y = q * p + r /\ 0 <= r /\ r < p
  OBVIOUS
<1> HIDE DEF q, r
<1>2. x = (q + k) * p + r
  BY <1>1
<1>3. ((q + k) * p + r) % p = r
  BY <1>1, Division
<1> QED BY <1>2, <1>3 DEF r

(* A remainder is below p, differs by a multiple of p, and is its own.     *)
LEMMA Remainder ==
  ASSUME NEW p \in Nat \ {0}, NEW x \in Int
  PROVE  /\ x % p \in 0..p - 1
         /\ \E k \in Int : x = (x % p) + k * p
         /\ x \in 0..p - 1 => x % p = x
<1>1. x \div p \in Int /\ x = (x % p) + (x \div p) * p /\ x % p \in 0..p - 1
  OBVIOUS
<1>2. ASSUME x \in 0..p - 1 PROVE x % p = x
  <2>1. 0 * p + x = x
    BY <1>2
  <2>2. (0 * p + x) % p = x
    BY <1>2, Division
  <2> QED BY <2>1, <2>2
<1> QED BY <1>1, <1>2

(* One p more makes no difference.                                         *)
LEMMA OneMore ==
  ASSUME NEW p \in Nat \ {0}, NEW x \in Int
  PROVE  (x + p) % p = x % p
<1>1. PICK k \in Int : k = 1
  OBVIOUS
<1>2. x + p = x + k * p /\ x + p \in Int
  BY <1>1
<1> QED BY <1>2, SameRemainder

(* Remainders can be taken at any time: of a product,                      *)
LEMMA ProductRemainder ==
  ASSUME NEW p \in Nat \ {0}, NEW x \in Int, NEW y \in Int
  PROVE  ((x % p) * y) % p = (x * y) % p /\ (x * (y % p)) % p = (x * y) % p
<1>1. PICK k \in Int : x = (x % p) + k * p
  BY Remainder
<1>2. PICK l \in Int : y = (y % p) + l * p
  BY Remainder
<1> DEFINE r == x % p
           s == y % p
<1>3. r \in Int /\ s \in Int
  OBVIOUS
<1> HIDE DEF r, s
<1>4. x * y = r * y + (k * y) * p /\ k * y \in Int /\ r * y \in Int /\ x * y \in Int
  BY <1>1, <1>3 DEF r
<1>5. x * y = x * s + (l * x) * p /\ l * x \in Int /\ x * s \in Int
  <2>1. y = s + l * p
    BY <1>2 DEF s
  <2>2. x * (s + l * p) = x * s + x * (l * p) /\ x * (l * p) = (l * x) * p
    BY <1>3
  <2> QED BY <1>3, <2>1, <2>2
<1>6. (x * y) % p = (r * y) % p
  BY <1>4, SameRemainder
<1>7. (x * y) % p = (x * s) % p
  BY <1>4, <1>5, SameRemainder
<1> QED BY <1>6, <1>7 DEF r, s

(* and of a sum.                                                           *)
LEMMA SumRemainder ==
  ASSUME NEW p \in Nat \ {0}, NEW x \in Int, NEW y \in Int
  PROVE  ((x % p) + y) % p = (x + y) % p /\ (x + (y % p)) % p = (x + y) % p
<1>1. PICK k \in Int : x = (x % p) + k * p
  BY Remainder
<1>2. PICK l \in Int : y = (y % p) + l * p
  BY Remainder
<1> DEFINE r == x % p
           s == y % p
<1>3. r \in Int /\ s \in Int
  OBVIOUS
<1> HIDE DEF r, s
<1>4. x + y = (r + y) + k * p /\ r + y \in Int /\ x + y \in Int
  BY <1>1, <1>3 DEF r
<1>5. x + y = (x + s) + l * p /\ x + s \in Int
  BY <1>2, <1>3 DEF s
<1>6. (x + y) % p = (r + y) % p
  BY <1>4, SameRemainder
<1>7. (x + y) % p = (x + s) % p
  BY <1>4, <1>5, SameRemainder
<1> QED BY <1>6, <1>7 DEF r, s

-----------------------------------------------------------------------------
(* The key exchange.                                                       *)

(* A modulus an exchange can have.                                         *)
Modulus(p) == p \in 2..(2^W - 1)

(* It is a word, and the number of words a natural number.                 *)
LEMMA ModulusFits ==
  ASSUME ExchangeAssumption, NEW p, Modulus(p)
  PROVE  W \in Nat /\ 2^W \in Nat /\ p \in Nat \ {0} /\ p >= 2 /\ p < 2^W
<1>1. W \in Nat
  BY DEF ExchangeAssumption
<1>2. 2^W \in Nat
  BY <1>1, PowersOfTwo
<1> QED BY <1>1, <1>2 DEF Modulus

(* Doubling is doubling modulo the prime, although it stays in a word; the *)
(* modulus itself stands for 0.                                            *)
LEMMA Doubles ==
  ASSUME ExchangeAssumption, NEW p, Modulus(p), NEW a \in 0..p - 1
  PROVE  doubleMod(a, p) = (2 * a) % p /\ doubleMod(p, p) = p
<1> DEFINE M == 2^W
<1>0. p \in Nat \ {0} /\ p >= 2 /\ p < M /\ M \in Nat \ {0}
  BY ModulusFits
<1> HIDE DEF M
<1>1. doubleMod(p, p) = p
  <2>1. doubleMod(p, p) = (2 * p - p) % M
    BY <1>0 DEF doubleMod, M
  <2>2. 2 * p - p = p /\ p \in 0..M - 1 /\ p \in Int
    BY <1>0
  <2>3. p % M = p
    BY <1>0, <2>2, Remainder
  <2> QED BY <2>1, <2>2, <2>3
<1>2. CASE a >= p - a
  <2>1. doubleMod(a, p) = (2 * a - p) % M
    BY <1>2 DEF doubleMod, M
  <2> DEFINE r == 2 * a - p
  <2>2. r \in 0..p - 1 /\ r \in 0..M - 1 /\ 2 * a \in Int /\ 2 * a = r + p /\ r \in Int
    BY <1>0, <1>2
  <2> HIDE DEF r
  <2>3. r % M = r /\ r % p = r
    BY <1>0, <2>2, Remainder
  <2>4. (2 * a) % p = r % p
    BY <1>0, <2>2, OneMore
  <2> QED BY <1>1, <2>1, <2>3, <2>4 DEF r
<1>3. CASE ~(a >= p - a)
  <2>1. doubleMod(a, p) = (2 * a) % M
    BY <1>3 DEF doubleMod, M
  <2> DEFINE r == 2 * a
  <2>2. r \in 0..p - 1 /\ r \in 0..M - 1 /\ r \in Int
    BY <1>0, <1>3
  <2> HIDE DEF r
  <2>3. r % M = r /\ r % p = r
    BY <1>0, <2>2, Remainder
  <2> QED BY <1>1, <2>1, <2>3 DEF r
<1> QED BY <1>2, <1>3

(* And adding is adding.                                                   *)
LEMMA Adds ==
  ASSUME ExchangeAssumption, NEW p, Modulus(p), NEW m \in 0..p - 1, NEW a \in 0..p
  PROVE  addMod(m, a, p) = (m + a) % p
<1> DEFINE M == 2^W
<1>0. p \in Nat \ {0} /\ p >= 2 /\ p < M /\ M \in Nat \ {0}
  BY ModulusFits
<1> HIDE DEF M
<1>2. CASE m >= p - a
  <2>1. addMod(m, a, p) = m - (p - a)
    BY <1>2 DEF addMod
  <2> DEFINE r == m - (p - a)
  <2>2. r \in 0..p - 1 /\ m + a \in Int /\ m + a = r + p /\ r \in Int
    BY <1>0, <1>2
  <2> HIDE DEF r
  <2>3. r % p = r
    BY <1>0, <2>2, Remainder
  <2>4. (m + a) % p = r % p
    BY <1>0, <2>2, OneMore
  <2> QED BY <2>1, <2>3, <2>4 DEF r
<1>3. CASE ~(m >= p - a)
  <2>1. addMod(m, a, p) = (m + a) % M
    BY <1>3 DEF addMod, M
  <2> DEFINE r == m + a
  <2>2. r \in 0..p - 1 /\ r \in 0..M - 1 /\ r \in Int
    BY <1>0, <1>3
  <2> HIDE DEF r
  <2>3. r % M = r /\ r % p = r
    BY <1>0, <2>2, Remainder
  <2> QED BY <2>1, <2>3 DEF r
<1> QED BY <1>2, <1>3

(* A number's lowest bits, one more at a time.                             *)
LEMMA Bits ==
  ASSUME NEW b \in Nat, NEW i \in Nat
  PROVE  /\ b % 2^0 = 0
         /\ (b \div 2^i) % 2 \in {0, 1}
         /\ b % 2^(i + 1) = (b % 2^i) + ((b \div 2^i) % 2) * 2^i
<1> DEFINE M == 2^i
           q == b \div M
           r == b % M
           e == q \div 2
           t == q % 2
<1>1. 2^0 = 1 /\ M \in Nat \ {0} /\ 2^(i + 1) = 2 * M
  BY PowersOfTwo
<1>2. b % 1 = 0
  OBVIOUS
<1> HIDE DEF M
<1>3. q \in Int /\ r \in Int /\ b = q * M + r /\ 0 <= r /\ r < M
  BY <1>1
<1> HIDE DEF q, r
<1>4. e \in Int /\ t \in {0, 1} /\ q = e * 2 + t
  BY <1>3
<1> HIDE DEF e, t
<1>5. PICK d \in Nat \ {0} : d = 2 * M
  BY <1>1
<1>6. PICK s \in Int : s = r + t * M
  BY <1>1, <1>3, <1>4
<1>7. 0 <= s /\ s < d
  BY <1>1, <1>3, <1>4, <1>5, <1>6
<1>8. b = e * d + s
  <2>1. (e * 2 + t) * M = e * (2 * M) + t * M
    BY <1>1, <1>4
  <2>2. q * M = e * d + t * M
    BY <1>4, <1>5, <2>1
  <2>3. e * d \in Int /\ t * M \in Int
    BY <1>1, <1>4, <1>5
  <2> QED BY <1>3, <1>6, <2>2, <2>3
<1>9. b % d = s
  BY <1>4, <1>7, <1>8, Division
<1> QED BY <1>1, <1>2, <1>4, <1>5, <1>6, <1>9 DEF t, q, r, M

(* multiplyMod is the product modulo the prime.                            *)
LEMMA Multiplies ==
  ASSUME ExchangeAssumption, NEW p, Modulus(p), NEW a \in 0..p, NEW b \in Word
  PROVE  multiplyMod(a, b, p) = (a * b) % p
<1> DEFINE G(u) == [i \in 0..W |-> IF i = 0 THEN a ELSE doubleMod(u[i - 1], p)]
           doubled == CHOOSE u : u = G(u)
           H(u) == [i \in 0..W |->
                      IF i = 0 THEN 0
                      ELSE IF (b \div 2^(i - 1)) % 2 = 1
                           THEN addMod(u[i - 1], doubled[i - 1], p) ELSE u[i - 1]]
           sum == CHOOSE u : u = H(u)
           Twice(i) == IF a = p THEN p ELSE (a * 2^i) % p
           Part(i) == (a * (b % 2^i)) % p
<1>0. /\ p \in Nat \ {0} /\ p \in Int /\ p >= 2 /\ W \in Nat /\ b \in Nat /\ b < 2^W
      /\ a \in Nat /\ a <= p
  BY ModulusFits DEF Word
<1>p. p \in Nat \ {0}
  BY <1>0
<1>r. ASSUME NEW x \in Int
      PROVE  x % p \in 0..p - 1 /\ x % p \in Int /\ (x % p) % p = x % p
  <2>1. x % p \in 0..p - 1
    BY <1>p, Remainder
  <2>2. PICK y \in 0..p - 1 : y = x % p
    BY <2>1
  <2>3. y \in Int
    BY <1>p
  <2>4. y % p = y
    BY <1>p, <2>3, Remainder
  <2> QED BY <2>1, <2>2, <2>3, <2>4
<1>a. multiplyMod(a, b, p) = sum[W]
  BY DEF multiplyMod
<1>b. \A j \in Nat : 2^j \in Nat /\ 2^(j + 1) = 2 * 2^j /\ b % 2^j \in Nat
  <2>1. ASSUME NEW j \in Nat PROVE b % 2^j \in Nat
    <3>1. PICK d \in Nat \ {0} : d = 2^j
      BY PowersOfTwo
    <3>2. b % d \in Nat
      BY <1>0, <3>1
    <3> QED BY <3>1, <3>2
  <2> QED BY <2>1, PowersOfTwo
<1>1. Twice(0) = a /\ \A j \in Nat : Twice(j + 1) = doubleMod(Twice(j), p) /\ Twice(j) \in 0..p
  <2>1. a # p => (a * 2^0) % p = a
    <3>1. a * 2^0 = a
      BY <1>0, PowersOfTwo
    <3>2. a # p => a \in 0..p - 1 /\ a \in Int
      BY <1>0
    <3> QED BY <1>0, <3>1, <3>2, Remainder
  <2>2. ASSUME NEW j \in Nat
        PROVE  Twice(j + 1) = doubleMod(Twice(j), p) /\ Twice(j) \in 0..p
    <3>1. CASE a = p
      BY <1>0, <3>1, Doubles
    <3>2. CASE a # p
      <4>1. PICK x \in Int : x = a * 2^j
        BY <1>0, <1>b
      <4>2. x % p \in 0..p - 1 /\ x % p \in Int
        BY <1>r
      <4>3. doubleMod(x % p, p) = (2 * (x % p)) % p
        BY <4>2, Doubles
      <4>4. (2 * (x % p)) % p = (2 * x) % p
        <5>1. 2 \in Int
          OBVIOUS
        <5> QED BY <1>p, <5>1, ProductRemainder, Zenon
      <4>5. 2 * x = a * 2^(j + 1)
        BY <1>0, <1>b, <4>1
      <4>6. Twice(j) = x % p /\ Twice(j + 1) = (2 * x) % p
        BY <3>2, <4>1, <4>5
      <4>7. doubleMod(x % p, p) = (2 * x) % p
        BY <4>3, <4>4
      <4>8. x % p \in 0..p
        BY <1>p, <4>2
      <4> QED BY <4>6, <4>7, <4>8, Zenon
    <3> QED BY <3>1, <3>2
  <2> QED BY <2>1, <2>2
<1>2. \A j \in Nat : Twice(j) % p = (a * 2^j) % p
  <2> TAKE j \in Nat
  <2>1. PICK k \in Int : k = 2^j
    BY <1>b
  <2>2. (p * k) % p = 0 /\ p % p = 0
    <3>1. p * k = 0 + k * p /\ p * k \in Int /\ 0 \in Int
      BY <1>p
    <3>2. (p * k) % p = 0 % p
      BY <1>p, <3>1, SameRemainder, Zenon
    <3>3. 0 % p = 0 /\ (0 + p) % p = 0 % p
      BY <1>0, Remainder, OneMore
    <3> QED BY <1>0, <3>2, <3>3
  <2>3. PICK x \in Int : x = a * k
    BY <1>0
  <2>4. (x % p) % p = x % p
    BY <1>r
  <2> QED BY <2>1, <2>2, <2>3, <2>4
<1> HIDE DEF Twice
<1>3. doubled = G(doubled)
  <2> DEFINE g == [i \in 0..W |-> Twice(i)]
  <2>1. g = G(g)
    <3>1. ASSUME NEW i \in 0..W
          PROVE  Twice(i) = IF i = 0 THEN a ELSE doubleMod(g[i - 1], p)
      <4>1. CASE i = 0
        BY <1>1, <4>1
      <4>2. CASE i # 0
        <5>1. i - 1 \in Nat /\ i - 1 \in 0..W /\ (i - 1) + 1 = i
          BY <1>0, <4>2
        <5>2. g[i - 1] = Twice(i - 1)
          BY <5>1
        <5>3. Twice(i) = doubleMod(Twice(i - 1), p)
          BY <1>1, <5>1
        <5> QED BY <4>2, <5>2, <5>3
      <4> QED BY <4>1, <4>2
    <3> QED BY <3>1
  <2> HIDE DEF G, g
  <2>2. \E u : u = G(u)
    BY <2>1
  <2> QED BY <2>2, Zenon
<1>4. \A i \in 0..W : doubled[i] = Twice(i)
  <2> HIDE DEF doubled
  <2> DEFINE T == {i \in Nat : i \in 0..W => doubled[i] = Twice(i)}
  <2>1. 0 \in T
    BY <1>0, <1>1, <1>3
  <2>2. ASSUME NEW i \in Nat, i \in T PROVE i + 1 \in T
    <3> SUFFICES ASSUME i + 1 \in 0..W PROVE doubled[i + 1] = Twice(i + 1)
      OBVIOUS
    <3>1. i \in 0..W /\ i + 1 # 0 /\ (i + 1) - 1 = i
      BY <1>0
    <3>2. doubled[i + 1] = doubleMod(doubled[i], p)
      BY <1>3, <3>1
    <3> QED BY <1>1, <2>2, <3>1, <3>2
  <2>3. Nat \subseteq T
    <3> HIDE DEF T
    <3> QED BY <2>1, <2>2, Induction
  <2> QED BY <2>3
<1> HIDE DEF doubled
<1>5. Part(0) = 0
  BY <1>0, Bits, Remainder
<1>6. ASSUME NEW j \in 0..W - 1
      PROVE  Part(j + 1) = IF (b \div 2^j) % 2 = 1 THEN addMod(Part(j), doubled[j], p) ELSE Part(j)
  <2>0. j \in Nat /\ j \in 0..W
    BY <1>0
  <2> DEFINE t == (b \div 2^j) % 2
  <2>1. PICK k \in Int, r \in Int, s \in Int : k = 2^j /\ r = b % 2^j /\ s = b % 2^(j + 1)
    BY <1>b, <2>0
  <2>2. t \in {0, 1} /\ s = r + t * k
    BY <1>0, <2>0, <2>1, Bits
  <2> HIDE DEF t
  <2>3. CASE t = 1
    <3>1. PICK x \in Int, y \in Int : x = a * r /\ y = a * k
      BY <1>0
    <3>2. a * s = x + y
      BY <1>0, <2>2, <2>3, <3>1
    <3>3. Part(j) = x % p /\ Part(j + 1) = (x + y) % p
      BY <2>1, <3>1, <3>2
    <3>4. x % p \in 0..p - 1 /\ x % p \in Int /\ Twice(j) \in 0..p /\ Twice(j) \in Int
      <4>1. Twice(j) \in 0..p
        BY <1>1, <2>0
      <4>2. Twice(j) \in Int
        BY <1>p, <4>1
      <4>3. x % p \in 0..p - 1 /\ x % p \in Int
        BY <1>r, Zenon
      <4> QED BY <4>1, <4>2, <4>3, Zenon
    <3>5. addMod(x % p, Twice(j), p) = ((x % p) + Twice(j)) % p
      BY <3>4, Adds
    <3>6. ((x % p) + Twice(j)) % p = (x + Twice(j)) % p
      BY <1>0, <3>4, SumRemainder
    <3>7. (x + Twice(j)) % p = (x + (y % p)) % p
      <4>1. (x + Twice(j)) % p = (x + (Twice(j) % p)) % p
        BY <1>0, <3>4, SumRemainder
      <4>2. Twice(j) % p = y % p
        BY <1>2, <2>0, <2>1, <3>1
      <4> QED BY <4>1, <4>2
    <3>8. (x + (y % p)) % p = (x + y) % p
      BY <1>0, SumRemainder
    <3>9. doubled[j] = Twice(j)
      BY <1>4, <2>0
    <3>10. Part(j + 1) = addMod(Part(j), doubled[j], p)
      BY <3>3, <3>5, <3>6, <3>7, <3>8, <3>9
    <3> QED BY <2>3, <3>10 DEF t
  <2>4. CASE t = 0
    <3>1. s = r
      BY <2>1, <2>2, <2>4
    <3>2. Part(j + 1) = Part(j)
      BY <2>1, <3>1
    <3> QED BY <2>4, <3>2 DEF t
  <2> QED BY <2>2, <2>3, <2>4
<1> HIDE DEF Part
<1>7. sum = H(sum)
  <2> DEFINE g == [i \in 0..W |-> Part(i)]
  <2>1. g = H(g)
    <3>1. ASSUME NEW i \in 0..W
          PROVE  Part(i) = IF i = 0 THEN 0
                           ELSE IF (b \div 2^(i - 1)) % 2 = 1
                                THEN addMod(g[i - 1], doubled[i - 1], p) ELSE g[i - 1]
      <4>1. CASE i = 0
        BY <1>5, <4>1
      <4>2. CASE i # 0
        <5>1. PICK j \in 0..W - 1 : i = j + 1 /\ j = i - 1 /\ j \in 0..W
          BY <1>0, <4>2
        <5>2. g[j] = Part(j)
          BY <5>1
        <5> HIDE DEF g
        <5> QED BY <1>6, <4>2, <5>1, <5>2
      <4> QED BY <4>1, <4>2
    <3> QED BY <3>1
  <2> HIDE DEF H, g
  <2>2. \E u : u = H(u)
    BY <2>1
  <2> QED BY <2>2, Zenon
<1>8. \A i \in 0..W : sum[i] = Part(i)
  <2> HIDE DEF sum
  <2> DEFINE T == {i \in Nat : i \in 0..W => sum[i] = Part(i)}
  <2>1. 0 \in T
    BY <1>0, <1>5, <1>7
  <2>2. ASSUME NEW i \in Nat, i \in T PROVE i + 1 \in T
    <3> SUFFICES ASSUME i + 1 \in 0..W PROVE sum[i + 1] = Part(i + 1)
      OBVIOUS
    <3>1. i \in 0..W /\ i \in 0..W - 1 /\ i + 1 # 0 /\ (i + 1) - 1 = i
      BY <1>0
    <3>2. sum[i + 1] = IF (b \div 2^i) % 2 = 1 THEN addMod(sum[i], doubled[i], p) ELSE sum[i]
      BY <1>7, <3>1
    <3> QED BY <1>6, <2>2, <3>1, <3>2
  <2>3. Nat \subseteq T
    <3> HIDE DEF T
    <3> QED BY <2>1, <2>2, Induction
  <2> QED BY <2>3
<1>9. b % 2^W = b
  <2>1. PICK d \in Nat \ {0} : d = 2^W
    BY <1>0, PowersOfTwo
  <2>2. b \in 0..d - 1 /\ b \in Int
    BY <1>0, <2>1
  <2> QED BY <2>1, <2>2, Remainder
<1>10. sum[W] = Part(W)
  <2>1. W \in 0..W
    BY <1>0
  <2> QED BY <1>8, <2>1, Zenon
<1> QED BY <1>a, <1>9, <1>10 DEF Part

(* Powers of a whole number.                                               *)
Exp(a) == CHOOSE f \in [Nat -> Int] : f[0] = 1 /\ \A n \in Nat : f[n + 1] = f[n] * a

(* There is such a function.                                               *)
LEMMA Powers ==
  ASSUME NEW a \in Int
  PROVE  /\ Exp(a) \in [Nat -> Int]
         /\ Exp(a)[0] = 1
         /\ \A n \in Nat : Exp(a)[n + 1] = Exp(a)[n] * a /\ Exp(a)[n] \in Int
<1> DEFINE next == [x \in Int |-> x * a]
<1>1. 1 \in Int /\ next \in [Int -> Int]
  OBVIOUS
<1>2. \A x \in Int : next[x] = x * a
  OBVIOUS
<1> HIDE DEF next
<1>3. PICK f : Iterates(f, 1, next, Int)
  BY <1>1, Recursion, Zenon
<1> DEFINE e == [n \in Nat |-> f[n]]
<1>4. e \in [Nat -> Int] /\ e[0] = 1 /\ \A n \in Nat : e[n + 1] = e[n] * a
  BY <1>2, <1>3 DEF Iterates
<1> HIDE DEF e
<1>5. Exp(a) \in [Nat -> Int] /\ Exp(a)[0] = 1
        /\ \A n \in Nat : Exp(a)[n + 1] = Exp(a)[n] * a
  BY <1>4, Zenon DEF Exp
<1> QED BY <1>5

(* The laws of powers: of a sum of exponents,                              *)
LEMMA SumOfExponents ==
  ASSUME NEW a \in Int, NEW m \in Nat, NEW n \in Nat
  PROVE  Exp(a)[m + n] = Exp(a)[m] * Exp(a)[n]
<1> DEFINE e == Exp(a)
<1>1. e[0] = 1 /\ \A i \in Nat : e[i + 1] = e[i] * a /\ e[i] \in Int
  BY Powers
<1> HIDE DEF e
<1> DEFINE T == {i \in Nat : e[m + i] = e[m] * e[i]}
<1>2. 0 \in T
  BY <1>1
<1>3. ASSUME NEW i \in Nat, i \in T PROVE i + 1 \in T
  <2>1. (m + i) + 1 = m + (i + 1) /\ m + i \in Nat
    OBVIOUS
  <2>2. e[m + (i + 1)] = e[m + i] * a
    BY <1>1, <2>1
  <2>3. PICK x \in Int, y \in Int : x = e[m] /\ y = e[i]
    BY <1>1
  <2>4. e[m + i] = x * y
    BY <1>3, <2>3
  <2>5. (x * y) * a = x * (y * a)
    OBVIOUS
  <2>6. e[i + 1] = y * a
    BY <1>1, <2>3
  <2> QED BY <2>2, <2>3, <2>4, <2>5, <2>6
<1>4. Nat \subseteq T
  <2> HIDE DEF T
  <2> QED BY <1>2, <1>3, Induction
<1> QED BY <1>4 DEF e

(* and of a product.                                                       *)
LEMMA ProductOfExponents ==
  ASSUME NEW a \in Int, NEW m \in Nat, NEW n \in Nat
  PROVE  Exp(Exp(a)[m])[n] = Exp(a)[m * n]
<1> DEFINE e == Exp(a)
           h == Exp(e[m])
<1>1. e[0] = 1 /\ \A i \in Nat : e[i] \in Int
  BY Powers
<1>2. \A i \in Nat, j \in Nat : e[i + j] = e[i] * e[j]
  BY SumOfExponents
<1>3. h[0] = 1 /\ \A i \in Nat : h[i + 1] = h[i] * e[m]
  <2>1. e[m] \in Int
    BY <1>1
  <2> HIDE DEF e
  <2> QED BY <2>1, Powers
<1> HIDE DEF e, h
<1> DEFINE T == {i \in Nat : h[i] = e[m * i]}
<1>4. 0 \in T
  <2>1. m * 0 = 0
    OBVIOUS
  <2> QED BY <1>1, <1>3, <2>1
<1>5. ASSUME NEW i \in Nat, i \in T PROVE i + 1 \in T
  <2>1. PICK k \in Nat : k = m * i
    OBVIOUS
  <2>2. m * (i + 1) = k + m
    BY <2>1
  <2>3. e[k + m] = e[k] * e[m]
    BY <1>2
  <2> QED BY <1>3, <1>5, <2>1, <2>2, <2>3
<1>6. Nat \subseteq T
  <2> HIDE DEF T
  <2> QED BY <1>4, <1>5, Induction
<1> QED BY <1>6 DEF e, h

(* A remainder has the same powers, to the remainder.                      *)
LEMMA PowerRemainder ==
  ASSUME NEW p \in Nat \ {0}, NEW a \in Int, NEW n \in Nat
  PROVE  Exp(a % p)[n] % p = Exp(a)[n] % p
<1> DEFINE b == a % p
<1>0. b \in Int /\ p \in Int
  OBVIOUS
<1> HIDE DEF b
<1> DEFINE e == Exp(a)
           h == Exp(b)
<1>2. e[0] = 1 /\ \A i \in Nat : e[i + 1] = e[i] * a /\ e[i] \in Int
  BY Powers
<1>3. h[0] = 1 /\ \A i \in Nat : h[i + 1] = h[i] * b /\ h[i] \in Int
  BY <1>0, Powers
<1> HIDE DEF e, h
<1> DEFINE T == {i \in Nat : h[i] % p = e[i] % p}
<1>4. 0 \in T
  BY <1>2, <1>3
<1>5. ASSUME NEW i \in Nat, i \in T PROVE i + 1 \in T
  <2>1. PICK x \in Int, y \in Int : x = e[i] /\ y = h[i]
    BY <1>2, <1>3
  <2>2. x % p = y % p
    BY <1>5, <2>1
  <2>3. (y * b) % p = ((y % p) * b) % p /\ (x * b) % p = ((x % p) * b) % p
    BY <1>0, ProductRemainder, Zenon
  <2>4. (x * b) % p = (x * a) % p
    BY ProductRemainder, Zenon DEF b
  <2>5. e[i + 1] = x * a /\ h[i + 1] = y * b
    BY <1>2, <1>3, <2>1
  <2>6. h[i + 1] % p = e[i + 1] % p
    BY <2>2, <2>3, <2>4, <2>5, Zenon
  <2> QED BY <2>6
<1>6. Nat \subseteq T
  <2> HIDE DEF T
  <2> QED BY <1>4, <1>5, Induction
<1> QED BY <1>6 DEF e, h, b

(* powerMod is the power modulo the prime; only the prime itself, to the   *)
(* power of 1, is not reduced.                                             *)
LEMMA PowerIsPower ==
  ASSUME ExchangeAssumption, NEW p, Modulus(p), NEW a \in Word, NEW b \in Nat \ {0}
  PROVE  powerMod(a, b, p) = IF b = 1 /\ a = p THEN p ELSE Exp(a)[b] % p
<1> DEFINE base == IF a > p THEN a % p ELSE a
           sq(x) == multiplyMod(x, x, p)
           G(u) == [e \in 1..b |->
                      IF e = 1 THEN base
                      ELSE IF e % 2 = 1 THEN multiplyMod(sq(u[e \div 2]), base, p)
                           ELSE sq(u[e \div 2])]
           power == CHOOSE u : u = G(u)
           F(e) == IF e = 1 THEN base ELSE Exp(a)[e] % p
<1>0. p \in Nat \ {0} /\ p >= 2 /\ p < 2^W /\ 2^W \in Nat /\ p \in Int
  BY ModulusFits
<1>p. p \in Nat \ {0}
  BY <1>0
<1>a. a \in Int /\ a \in Nat
  BY <1>0 DEF Word
<1>1. powerMod(a, b, p) = power[b]
  BY DEF powerMod
<1>e. Exp(a)[1] = a /\ \A e \in Nat : Exp(a)[e] \in Int /\ Exp(a)[e + 1] = Exp(a)[e] * a
  <2>1. Exp(a)[0] = 1 /\ \A e \in Nat : Exp(a)[e] \in Int /\ Exp(a)[e + 1] = Exp(a)[e] * a
    BY <1>a, Powers
  <2>2. Exp(a)[0 + 1] = 1 * a
    BY <2>1
  <2> QED BY <1>a, <2>1, <2>2
<1>r. ASSUME NEW x \in Int
      PROVE  x % p \in 0..p - 1 /\ x % p \in Int /\ x % p \in 0..p /\ x % p \in Word /\ (x % p) % p = x % p
  <2>1. x % p \in 0..p - 1
    BY <1>p, Remainder
  <2>2. PICK y \in 0..p - 1 : y = x % p
    BY <2>1
  <2>3. y \in Int /\ y \in 0..p /\ y \in Word
    BY <1>0 DEF Word
  <2>4. y % p = y
    BY <1>p, <2>3, Remainder
  <2> QED BY <2>1, <2>2, <2>3, <2>4
<1>2. base \in 0..p /\ base \in Word /\ base \in Int /\ base % p = a % p
      /\ (a # p => base = a % p)
  <2>1. CASE a > p
    <3>1. base = a % p /\ a # p
      BY <1>a, <1>0, <2>1
    <3> HIDE DEF base
    <3> QED BY <1>a, <1>r, <3>1
  <2>2. CASE ~(a > p)
    <3>1. base = a
      BY <2>2
    <3>2. a \in 0..p /\ (a # p => a \in 0..p - 1)
      BY <1>0, <1>a, <2>2
    <3>3. a # p => a % p = a
      BY <1>p, <1>a, <3>2, Remainder
    <3> HIDE DEF base
    <3> QED BY <1>a, <3>1, <3>2, <3>3
  <2> QED BY <2>1, <2>2
<1> HIDE DEF base
<1>3. \A e \in Nat \ {0} : F(e) \in 0..p /\ F(e) \in Word /\ F(e) \in Int /\ F(e) % p = Exp(a)[e] % p
  <2> TAKE e \in Nat \ {0}
  <2>1. CASE e = 1
    BY <1>2, <1>e, <2>1
  <2>2. CASE e # 1
    <3>1. PICK x \in Int : x = Exp(a)[e]
      BY <1>e
    <3>2. F(e) = x % p
      BY <2>2, <3>1
    <3> HIDE DEF F
    <3> QED BY <1>r, <3>1, <3>2
  <2> QED BY <2>1, <2>2
<1>4. ASSUME NEW x \in Int, NEW y \in Int, x \in 0..p, y \in Word
      PROVE  multiplyMod(x, y, p) = (x * y) % p /\ (x * y) % p = ((x % p) * (y % p)) % p
  <2>1. multiplyMod(x, y, p) = (x * y) % p
    BY <1>4, Multiplies
  <2>2. x % p \in Int
    BY <1>r
  <2>3. (x * y) % p = ((x % p) * y) % p
    BY <1>p, ProductRemainder, Zenon
  <2>4. ((x % p) * y) % p = ((x % p) * (y % p)) % p
    BY <1>p, <2>2, ProductRemainder, Zenon
  <2> QED BY <2>1, <2>3, <2>4
<1>5. ASSUME NEW e \in 2..b
      PROVE  /\ e \div 2 \in Nat \ {0} /\ e \div 2 \in 1..e - 1
             /\ F(e) = IF e % 2 = 1 THEN multiplyMod(sq(F(e \div 2)), base, p) ELSE sq(F(e \div 2))
  <2>0. e \in Nat /\ e >= 2
    OBVIOUS
  <2>1. PICK k \in Nat \ {0} : k = e \div 2 /\ k \in 1..e - 1
    BY <2>0
  <2>2. e = k + k \/ e = (k + k) + 1
    BY <2>0, <2>1
  <2>3. e % 2 = 1 <=> e # k + k
    BY <2>0, <2>1
  <2>4. PICK x \in Int : x = Exp(a)[k]
    BY <1>e
  <2>5. PICK f \in Int : f = F(k) /\ f \in 0..p /\ f \in Word /\ f % p = x % p
    BY <1>3, <2>1, <2>4
  <2>6. sq(f) = (x * x) % p
    <3>1. sq(f) = ((f % p) * (f % p)) % p
      BY <1>4, <2>5
    <3>2. x % p \in Int
      BY <1>r
    <3>3. ((x % p) * (x % p)) % p = (x * (x % p)) % p
      BY <1>p, <3>2, ProductRemainder, Zenon
    <3>4. (x * (x % p)) % p = (x * x) % p
      BY <1>p, ProductRemainder, Zenon
    <3> QED BY <2>5, <3>1, <3>3, <3>4
  <2>7. Exp(a)[k + k] = x * x /\ k + k \in Nat
    <3>1. Exp(a)[k + k] = Exp(a)[k] * Exp(a)[k]
      BY <1>a, SumOfExponents
    <3> QED BY <2>4, <3>1
  <2>8. PICK z \in Int : z = x * x
    OBVIOUS
  <2>9. F(e) = Exp(a)[e] % p
    BY <2>0
  <2>10. CASE e = k + k
    BY <2>1, <2>3, <2>5, <2>6, <2>7, <2>8, <2>9, <2>10
  <2>11. CASE e # k + k
    <3>1. e = (k + k) + 1
      BY <2>2, <2>11
    <3>2. Exp(a)[e] = z * a
      BY <1>e, <2>7, <2>8, <3>1
    <3>3. sq(f) = z % p
      BY <2>6, <2>8
    <3>4. multiplyMod(z % p, base, p) = (((z % p) % p) * (base % p)) % p
      <4>1. z % p \in Int /\ z % p \in 0..p
        BY <1>r
      <4> QED BY <1>2, <1>4, <4>1
    <3>5. (z % p) % p = z % p /\ base % p = a % p
      BY <1>2, <1>r
    <3>6. ((z % p) * (a % p)) % p = (z * (a % p)) % p
      <4>1. a % p \in Int
        BY <1>a, <1>r
      <4> QED BY <1>p, <4>1, ProductRemainder, Zenon
    <3>7. (z * (a % p)) % p = (z * a) % p
      BY <1>a, <1>p, ProductRemainder, Zenon
    <3>8. multiplyMod(sq(F(k)), base, p) = F(e)
      BY <2>5, <2>9, <3>2, <3>3, <3>4, <3>5, <3>6, <3>7
    <3> HIDE DEF F, sq
    <3> QED BY <2>1, <2>3, <2>11, <3>8
  <2> QED BY <2>10, <2>11
<1> HIDE DEF sq
<1>6. power = G(power)
  <2> DEFINE g == [e \in 1..b |-> F(e)]
  <2>1. g = G(g)
    <3>1. ASSUME NEW e \in 1..b
          PROVE  F(e) = IF e = 1 THEN base
                        ELSE IF e % 2 = 1 THEN multiplyMod(sq(g[e \div 2]), base, p)
                             ELSE sq(g[e \div 2])
      <4>1. CASE e = 1
        BY <4>1
      <4>2. CASE e # 1
        <5>1. e \in 2..b
          BY <4>2
        <5>2. PICK k \in 1..e - 1 : k = e \div 2
          BY <1>5, <5>1
        <5>3. k \in 1..b
          OBVIOUS
        <5>4. g[k] = F(k)
          BY <5>3
        <5> HIDE DEF g, F
        <5> QED BY <1>5, <4>2, <5>1, <5>2, <5>4
      <4> QED BY <4>1, <4>2
    <3> QED BY <3>1
  <2> HIDE DEF G, g
  <2>2. \E u : u = G(u)
    BY <2>1
  <2> QED BY <2>2, Zenon
<1>7. \A e \in Nat : e \in 1..b => power[e] = F(e)
  <2> HIDE DEF power
  <2> DEFINE T == {e \in Nat : e \in 1..b => power[e] = F(e)}
  <2>1. ASSUME NEW e \in Nat, \A k \in 0..e - 1 : k \in T PROVE e \in T
    <3> SUFFICES ASSUME e \in 1..b PROVE power[e] = F(e)
      OBVIOUS
    <3>1. CASE e = 1
      BY <1>6, <3>1
    <3>2. CASE e # 1
      <4>1. e \in 2..b
        BY <3>2
      <4>2. PICK k \in 1..e - 1 : k = e \div 2
        BY <1>5, <4>1
      <4>3. k \in 0..e - 1 /\ k \in 1..b /\ k \in Nat
        OBVIOUS
      <4>4. power[k] = F(k)
        BY <2>1, <4>3
      <4>5. power[e] = IF e % 2 = 1 THEN multiplyMod(sq(power[k]), base, p) ELSE sq(power[k])
        BY <1>6, <3>2, <4>2
      <4> HIDE DEF F
      <4> QED BY <1>5, <4>1, <4>2, <4>4, <4>5
    <3> QED BY <3>1, <3>2
  <2>2. Nat \subseteq T
    <3> HIDE DEF T
    <3> QED BY <2>1, StrongInduction
  <2> QED BY <2>2
<1>8. power[b] = F(b)
  BY <1>7
<1>9. F(b) = IF b = 1 /\ a = p THEN p ELSE Exp(a)[b] % p
  <2>1. CASE b # 1
    BY <2>1
  <2>2. CASE b = 1 /\ a # p
    BY <1>2, <1>e, <2>2
  <2>3. CASE b = 1 /\ a = p
    BY <1>0, <2>3 DEF base
  <2> QED BY <2>1, <2>2, <2>3
<1> QED BY <1>1, <1>8, <1>9

(* What powerMod returns is a word up to the prime, and the power.         *)
LEMMA PowerFits ==
  ASSUME ExchangeAssumption, NEW p, Modulus(p), NEW a \in Word, NEW b \in Nat \ {0}
  PROVE  /\ powerMod(a, b, p) \in 0..p /\ powerMod(a, b, p) \in Word
         /\ powerMod(a, b, p) % p = Exp(a)[b] % p
<1>0. p \in Nat \ {0} /\ p >= 2 /\ p < 2^W /\ 2^W \in Nat
  BY ModulusFits
<1>p. p \in Nat \ {0}
  BY <1>0
<1>1. a \in Int
  BY <1>0 DEF Word
<1>2. PICK x \in Int : x = Exp(a)[b]
  BY <1>1, Powers
<1>3. x % p \in 0..p - 1
  BY <1>p, Remainder
<1>4. PICK y \in 0..p - 1 : y = x % p
  BY <1>3
<1>5. y \in 0..p /\ y \in Word /\ y \in Int /\ p \in 0..p /\ p \in Word
  BY <1>0 DEF Word
<1>6. y % p = y
  BY <1>p, <1>5, Remainder
<1>7. b = 1 /\ a = p => x = p
  <2>1. Exp(a)[0] = 1 /\ Exp(a)[0 + 1] = Exp(a)[0] * a
    BY <1>1, Powers
  <2> QED BY <1>1, <1>2, <2>1
<1>8. powerMod(a, b, p) = IF b = 1 /\ a = p THEN p ELSE y
  BY <1>2, <1>4, PowerIsPower
<1> QED BY <1>2, <1>4, <1>5, <1>6, <1>7, <1>8

(* The reference definition of the run, PowerOf, is the same power.        *)
LEMMA PowerOfIsPower ==
  ASSUME NEW p \in Nat \ {0}, NEW a \in Int, NEW b \in Nat
  PROVE  PowerOf(a, b, p) = Exp(a)[b] % p
<1> DEFINE G(u) == [e \in 0..b |-> IF e = 0 THEN 1 % p ELSE (u[e - 1] * a) % p]
           power == CHOOSE u : u = G(u)
           F(e) == Exp(a)[e] % p
<1>1. PowerOf(a, b, p) = power[b]
  BY DEF PowerOf
<1>2. F(0) = 1 % p /\ \A e \in Nat : F(e + 1) = (F(e) * a) % p
  <2>1. Exp(a)[0] = 1
    BY Powers
  <2>2. ASSUME NEW e \in Nat PROVE F(e + 1) = (F(e) * a) % p
    <3>1. PICK x \in Int : x = Exp(a)[e]
      BY Powers
    <3>2. Exp(a)[e + 1] = x * a
      BY <3>1, Powers
    <3>3. ((x % p) * a) % p = (x * a) % p
      BY ProductRemainder, Zenon
    <3> QED BY <3>1, <3>2, <3>3
  <2> QED BY <2>1, <2>2
<1> HIDE DEF F
<1>3. power = G(power)
  <2> DEFINE g == [e \in 0..b |-> F(e)]
  <2>1. g = G(g)
    <3>1. ASSUME NEW e \in 0..b
          PROVE  F(e) = IF e = 0 THEN 1 % p ELSE (g[e - 1] * a) % p
      <4>1. CASE e = 0
        BY <1>2, <4>1
      <4>2. CASE e # 0
        <5>1. PICK k \in Nat : k = e - 1 /\ k \in 0..b /\ e = k + 1
          BY <4>2
        <5>2. g[k] = F(k)
          BY <5>1
        <5>3. F(k + 1) = (F(k) * a) % p
          BY <1>2
        <5> HIDE DEF g
        <5> QED BY <4>2, <5>1, <5>2, <5>3
      <4> QED BY <4>1, <4>2
    <3> QED BY <3>1
  <2> HIDE DEF G, g
  <2>2. \E u : u = G(u)
    BY <2>1
  <2> QED BY <2>2, Zenon
<1>4. \A e \in Nat : e \in 0..b => power[e] = F(e)
  <2> HIDE DEF power
  <2> DEFINE T == {e \in Nat : e \in 0..b => power[e] = F(e)}
  <2>1. 0 \in T
    BY <1>2, <1>3
  <2>2. ASSUME NEW e \in Nat, e \in T PROVE e + 1 \in T
    <3> SUFFICES ASSUME e + 1 \in 0..b PROVE power[e + 1] = F(e + 1)
      OBVIOUS
    <3>1. e \in 0..b /\ e + 1 # 0 /\ (e + 1) - 1 = e
      OBVIOUS
    <3>2. power[e + 1] = (power[e] * a) % p
      BY <1>3, <3>1
    <3> QED BY <1>2, <2>2, <3>1, <3>2
  <2>3. Nat \subseteq T
    <3> HIDE DEF T
    <3> QED BY <2>1, <2>2, Induction
  <2> QED BY <2>3
<1>5. power[b] = F(b)
  BY <1>4
<1> QED BY <1>1, <1>5 DEF F

(* Two powers one after the other are the power by the product, and the    *)
(* last one is the prime itself only if nothing was ever reduced.          *)
LEMMA TwicePowerIsPower ==
  ASSUME ExchangeAssumption, NEW p, Modulus(p), NEW g \in Word,
         NEW x \in Nat \ {0}, NEW y \in Nat \ {0}
  PROVE  powerMod(powerMod(g, x, p), y, p)
           = IF x = 1 /\ y = 1 /\ g = p THEN p ELSE Exp(g)[x * y] % p
<1> DEFINE h == powerMod(g, x, p)
<1>0. p \in Nat \ {0} /\ p >= 2 /\ p < 2^W /\ 2^W \in Nat
  BY ModulusFits
<1>p. p \in Nat \ {0}
  BY <1>0
<1>1. g \in Int /\ x \in Nat /\ y \in Nat
  BY <1>0 DEF Word
<1>2. h \in 0..p /\ h \in Word /\ h % p = Exp(g)[x] % p
  BY PowerFits
<1>3. h = p <=> x = 1 /\ g = p
  <2>1. h = IF x = 1 /\ g = p THEN p ELSE Exp(g)[x] % p
    BY PowerIsPower
  <2>2. PICK e \in Int : e = Exp(g)[x]
    BY <1>1, Powers
  <2>3. e % p \in 0..p - 1
    BY <1>p, Remainder
  <2> HIDE DEF h
  <2> QED BY <1>0, <2>1, <2>2, <2>3
<1> HIDE DEF h
<1>4. h \in Int
  BY <1>0, <1>2
<1>5. powerMod(h, y, p) = IF y = 1 /\ h = p THEN p ELSE Exp(h)[y] % p
  BY <1>2, PowerIsPower
<1>6. Exp(h)[y] % p = Exp(g)[x * y] % p
  <2>1. PICK e \in Int : e = Exp(g)[x]
    BY <1>1, Powers
  <2>2. Exp(h % p)[y] % p = Exp(h)[y] % p
    BY <1>p, <1>1, <1>4, PowerRemainder, Zenon
  <2>3. Exp(e % p)[y] % p = Exp(e)[y] % p
    BY <1>p, <1>1, PowerRemainder, Zenon
  <2>4. Exp(e)[y] = Exp(g)[x * y]
    BY <1>1, <2>1, ProductOfExponents, Zenon
  <2>5. h % p = e % p
    BY <1>2, <2>1
  <2> QED BY <2>2, <2>3, <2>4, <2>5, Zenon
<1> QED BY <1>3, <1>5, <1>6 DEF h

-----------------------------------------------------------------------------
(* What the exchange keeps: what it was given, and what it made of that.   *)
ExchangeInv ==
  /\ exchange \in [prime : Primes, generator : Word, device : Word, gateway : Word]
  /\ exchange.device # 0
  /\ half # None => /\ exchange.gateway # 0
                    /\ half = powerMod(exchange.generator, exchange.gateway, exchange.prime)
  /\ session # None => half # None /\ session = powerMod(dha, exchange.gateway, exchange.prime)

(* It holds at the start and after every step.                             *)
LEMMA ExchangeInvariant == ExchangeSpec => []ExchangeInv
<1>1. ExchangeInit => ExchangeInv
  BY DEF ExchangeInit, ExchangeInv
<1>2. ExchangeInv /\ [ExchangeNext]_exchangeVars => ExchangeInv'
  <2> SUFFICES ASSUME ExchangeInv, [ExchangeNext]_exchangeVars PROVE ExchangeInv'
    OBVIOUS
  <2>1. CASE getDHB
    <3>1. exchange' = exchange /\ session' = session /\ half = None /\ exchange.gateway # 0
          /\ half' = powerMod(exchange.generator, exchange.gateway, exchange.prime)
      BY <2>1 DEF getDHB
    <3>2. session' = None
      BY <3>1 DEF ExchangeInv
    <3> QED BY <3>1, <3>2 DEF ExchangeInv
  <2>2. CASE getSessionKey
    <3>1. exchange' = exchange /\ half' = half /\ half # None
          /\ session' = powerMod(dha, exchange.gateway, exchange.prime)
      BY <2>2 DEF getSessionKey
    <3>2. dha' = dha
      BY <3>1 DEF dha
    <3> QED BY <3>1, <3>2 DEF ExchangeInv
  <2>3. CASE UNCHANGED exchangeVars
    BY <2>3 DEF exchangeVars, ExchangeInv, dha
  <2> QED BY <2>1, <2>2, <2>3 DEF ExchangeNext
<1> QED BY <1>1, <1>2, PTL DEF ExchangeSpec

(* The numbers of an exchange that has made its key.                       *)
LEMMA ExchangeNumbers ==
  ASSUME ExchangeAssumption, ExchangeInv
  PROVE  /\ Modulus(exchange.prime) /\ exchange.prime \in Nat \ {0}
         /\ exchange.generator \in Word /\ exchange.generator \in Int
         /\ exchange.device \in Nat \ {0}
         /\ half # None => exchange.gateway \in Nat \ {0}
<1>1. exchange.prime \in Primes /\ exchange.generator \in Word
        /\ exchange.device \in Word \ {0} /\ exchange.gateway \in Word
        /\ (half # None => exchange.gateway # 0)
  BY DEF ExchangeInv
<1>2. Modulus(exchange.prime)
  BY <1>1 DEF ExchangeAssumption, Modulus
<1>3. 2^W \in Nat /\ exchange.prime \in Nat \ {0}
  BY <1>2, ModulusFits
<1>4. \A w \in Word : w \in Nat /\ w \in Int
  BY <1>3 DEF Word
<1> QED BY <1>1, <1>2, <1>3, <1>4

(* The device finds the session key the gateway made, for every width of   *)
(* a word, modulus, generator and pair of private keys: getDHB,            *)
(* getSessionKey and powerMod.                                             *)
LEMMA BothSidesHaveOneKey ==
  ASSUME ExchangeAssumption PROVE ExchangeSpec => []SameKey
<1>1. ExchangeInv => SameKey
  <2> SUFFICES ASSUME ExchangeInv, session # None
               PROVE  powerMod(half, exchange.device, exchange.prime) = session
    BY DEF SameKey
  <2> DEFINE p == exchange.prime
             g == exchange.generator
             x == exchange.device
             y == exchange.gateway
  <2>1. half # None /\ half = powerMod(g, y, p) /\ session = powerMod(powerMod(g, x, p), y, p)
    BY DEF ExchangeInv, dha
  <2>2. Modulus(p) /\ g \in Word /\ x \in Nat \ {0} /\ y \in Nat \ {0}
    BY <2>1, ExchangeNumbers
  <2> HIDE DEF p, g, x, y
  <2>3. powerMod(powerMod(g, x, p), y, p)
          = IF x = 1 /\ y = 1 /\ g = p THEN p ELSE Exp(g)[x * y] % p
    BY <2>2, TwicePowerIsPower
  <2>4. powerMod(powerMod(g, y, p), x, p)
          = IF y = 1 /\ x = 1 /\ g = p THEN p ELSE Exp(g)[y * x] % p
    BY <2>2, TwicePowerIsPower
  <2>5. x * y = y * x
    BY <2>2
  <2>6. powerMod(half, x, p) = session
    BY <2>1, <2>3, <2>4, <2>5, Zenon
  <2> QED BY <2>6 DEF x, p
<1> QED BY <1>1, ExchangeInvariant, PTL

(* And it is the generator to the power of both private keys, modulo the   *)
(* prime, as PowerOf defines powers without words or bits.                 *)
LEMMA KeyIsTheRightPower ==
  ASSUME ExchangeAssumption PROVE ExchangeSpec => []KeyIsPower
<1>1. ExchangeInv => KeyIsPower
  <2> SUFFICES ASSUME ExchangeInv, session # None PROVE KeyIsPower
    BY DEF KeyIsPower
  <2> DEFINE p == exchange.prime
             g == exchange.generator
             x == exchange.device
             y == exchange.gateway
             h == powerMod(g, x, p)
  <2>1. half # None /\ session = powerMod(h, y, p)
    BY DEF ExchangeInv, dha
  <2>2. Modulus(p) /\ g \in Word /\ g \in Int /\ p \in Nat \ {0}
          /\ x \in Nat \ {0} /\ y \in Nat \ {0}
    BY <2>1, ExchangeNumbers
  <2>3. KeyIsPower <=> session % p = PowerOf(g, x * y, p)
    BY DEF KeyIsPower
  <2> HIDE DEF p, g, x, y
  <2>4. h \in Word /\ h \in Int /\ h % p = Exp(g)[x] % p
    <3>1. h \in Word /\ h % p = Exp(g)[x] % p
      BY <2>2, PowerFits
    <3>2. 2^W \in Nat
      BY <2>2, ModulusFits
    <3> HIDE DEF h
    <3> QED BY <3>1, <3>2 DEF Word
  <2> HIDE DEF h
  <2>5. session % p = Exp(h)[y] % p
    BY <2>1, <2>2, <2>4, PowerFits
  <2>6. x \in Nat /\ y \in Nat /\ x * y \in Nat
    BY <2>2
  <2>7. PICK e \in Int : e = Exp(g)[x]
    BY <2>2, <2>6, Powers
  <2>8. Exp(h % p)[y] % p = Exp(h)[y] % p /\ Exp(e % p)[y] % p = Exp(e)[y] % p
    BY <2>2, <2>4, <2>6, PowerRemainder, Zenon
  <2>9. Exp(e)[y] = Exp(g)[x * y]
    BY <2>2, <2>6, <2>7, ProductOfExponents, Zenon
  <2>10. PowerOf(g, x * y, p) = Exp(g)[x * y] % p
    BY <2>2, <2>6, PowerOfIsPower, Zenon
  <2>11. h % p = e % p
    BY <2>4, <2>7
  <2> QED BY <2>3, <2>5, <2>8, <2>9, <2>10, <2>11, Zenon
<1> QED BY <1>1, ExchangeInvariant, PTL

(* Gateway and device agree on the session key, and it is the generator to *)
(* the power of both private keys: getDHB, getSessionKey, powerMod, for    *)
(* every width of a word, every modulus of at least 2 (a prime or not),    *)
(* every generator and every pair of private keys.                         *)
THEOREM SessionKeyAgreed ==
  ASSUME ExchangeAssumption PROVE ExchangeSpec => []BothSidesAgree
<1>1. SameKey /\ KeyIsPower => BothSidesAgree
  BY DEF BothSidesAgree
<1> QED BY <1>1, BothSidesHaveOneKey, KeyIsTheRightPower, PTL

-----------------------------------------------------------------------------
(* The start of the chip.                                                  *)

(* The radios and the lines to them; nobody talks to one between two steps. *)
Wired == [cs : {0, 1}, addr : Int, data : Int, back : Int, regs : [Used -> Int]]
Radio == {s \in Wired : s.cs = 0}

(* A released line changes nothing else.                                   *)
LEMMA Released ==
  ASSUME NEW s \in Wired
  PROVE  /\ Release(s) \in Radio
         /\ Release(s).addr = s.addr /\ Release(s).data = s.data
         /\ Release(s).back = s.back /\ Release(s).regs = s.regs
BY DEF Wired, Radio, Release

(* Selected after a write has been set on the lines, a radio takes it,     *)
LEMMA TakesWrite ==
  ASSUME NEW s \in Radio, NEW a \in Used, s.addr = 128 + a
  PROVE  /\ Select(s) \in Wired
         /\ Select(s).regs = [s.regs EXCEPT ![a] = s.data]
<1>0. a \in Int /\ a >= 0
  BY DEF Used
<1>1. s.cs # 1 /\ s.addr >= 128 /\ s.addr - 128 = a
  BY <1>0 DEF Radio
<1>2. Select(s) = [s EXCEPT !.cs = 1, !.regs[a] = s.data]
  BY <1>1 DEF Select
<1>3. s \in Wired /\ s.data \in Int /\ s.regs \in [Used -> Int]
  BY DEF Radio, Wired
<1>4. [s.regs EXCEPT ![a] = s.data] \in [Used -> Int]
  BY <1>3
<1> DEFINE t == [s EXCEPT !.cs = 1, !.regs[a] = s.data]
<1>5. t.regs = [s.regs EXCEPT ![a] = s.data]
  BY <1>3 DEF Wired
<1>6. t \in Wired
  BY <1>3, <1>4 DEF Wired
<1> QED BY <1>2, <1>5, <1>6

(* and after a read it answers.                                            *)
LEMMA AnswersRead ==
  ASSUME NEW s \in Radio, NEW a \in Used, s.addr = a
  PROVE  /\ Select(s) \in Wired
         /\ Select(s).regs = s.regs /\ Select(s).back = s.regs[a]
<1>1. s.cs # 1 /\ ~(s.addr >= 128)
  BY DEF Radio, Used
<1>2. Select(s) = [s EXCEPT !.cs = 1, !.back = s.regs[a]]
  BY <1>1 DEF Select
<1>3. s \in Wired /\ s.regs[a] \in Int
  BY DEF Radio, Wired
<1> QED BY <1>2, <1>3 DEF Wired

(* A write changes its register and nothing else of the radio.             *)
LEMMA WriteSets ==
  ASSUME NEW s \in Radio, NEW a \in Used, NEW d \in Int
  PROVE  /\ sx125x_write(s, a, d) \in Radio
         /\ sx125x_write(s, a, d).regs = [s.regs EXCEPT ![a] = d]
<1>0. 128 + a \in Int /\ ~(a >= 127)
  BY DEF Used
<1>1. s \in Wired
  BY DEF Radio
<1>2. PICK r \in Radio : r = Release(s) /\ r.regs = s.regs
  BY <1>1, Released
<1> DEFINE t == [r EXCEPT !.addr = 128 + a, !.data = d]
<1>3. t \in Radio /\ t.addr = 128 + a /\ t.data = d /\ t.regs = r.regs
  BY <1>0 DEF Wired, Radio
<1>4. sx125x_write(s, a, d) = Release(Select(t))
  BY <1>0, <1>2 DEF sx125x_write
<1> HIDE DEF t
<1>5. Select(t) \in Wired /\ Select(t).regs = [s.regs EXCEPT ![a] = d]
  BY <1>2, <1>3, TakesWrite
<1> QED BY <1>4, <1>5, Released

(* A read changes none, and has the register.                              *)
LEMMA ReadKeeps ==
  ASSUME NEW s \in Radio, NEW a \in Used
  PROVE  /\ sx125x_read(s, a) \in Radio
         /\ sx125x_read(s, a).regs = s.regs
         /\ sx125x_read(s, a).back = s.regs[a]
<1>0. a \in Int
  BY DEF Used
<1>1. s \in Wired
  BY DEF Radio
<1>2. PICK r \in Radio : r = Release(s) /\ r.regs = s.regs
  BY <1>1, Released
<1>z. PICK z \in Int : z = 0
  OBVIOUS
<1> DEFINE t == [r EXCEPT !.addr = a, !.data = z]
<1>3. t \in Radio /\ t.addr = a /\ t.regs = r.regs
  BY <1>0 DEF Wired, Radio
<1>4. sx125x_read(s, a) = Release(Select(t))
  BY <1>2, <1>z DEF sx125x_read
<1> HIDE DEF t
<1>5. Select(t) \in Wired /\ Select(t).regs = s.regs /\ Select(t).back = s.regs[a]
  BY <1>2, <1>3, AnswersRead
<1> QED BY <1>4, <1>5, Released

(* Of a list of writes the last one to a register stays.                   *)
LEMMA WritesStay ==
  ASSUME NEW s \in Radio, NEW w \in Seq(Used \X Int)
  PROVE  /\ WriteAll(s, w) \in Radio
         /\ \A a \in Used : (\A j \in 1..Len(w) : w[j][1] # a)
                              => WriteAll(s, w).regs[a] = s.regs[a]
         /\ \A k \in 1..Len(w) :
              (\A j \in k + 1..Len(w) : w[j][1] # w[k][1])
                => WriteAll(s, w).regs[w[k][1]] = w[k][2]
<1> DEFINE L == Len(w)
           put(x, n) == sx125x_write(x, w[n][1], w[n][2])
           G(u) == [n \in 0..L |-> IF n = 0 THEN s ELSE put(u[n - 1], n)]
           after == CHOOSE u : u = G(u)
           V == Nat \X Radio
           next == [v \in V |-> IF v[1] + 1 \in 1..L THEN <<v[1] + 1, put(v[2], v[1] + 1)>>
                                ELSE <<v[1] + 1, v[2]>>]
<1>1. WriteAll(s, w) = after[L]
  BY DEF WriteAll
<1>2. L \in Nat /\ \A n \in 1..L : w[n][1] \in Used /\ w[n][2] \in Int
  BY DEF Used
<1> HIDE DEF L
<1>3. ASSUME NEW n \in 1..L, NEW x \in Radio
      PROVE  put(x, n) \in Radio /\ put(x, n).regs = [x.regs EXCEPT ![w[n][1]] = w[n][2]]
  BY <1>2, WriteSets
<1> HIDE DEF put
<1>4. after = G(after)
  <2>1. <<0, s>> \in V /\ next \in [V -> V]
    <3>1. ASSUME NEW v \in V PROVE next[v] \in V
      <4>1. v[1] + 1 \in Nat /\ v[2] \in Radio /\ v = <<v[1], v[2]>>
        OBVIOUS
      <4>2. CASE v[1] + 1 \in 1..L
        BY <1>3, <4>1, <4>2
      <4>3. CASE v[1] + 1 \notin 1..L
        BY <4>1, <4>3
      <4> QED BY <4>2, <4>3
    <3> QED BY <3>1
  <2>2. \A v \in V : next[v][1] = v[1] + 1
                     /\ (v[1] + 1 \in 1..L => next[v][2] = put(v[2], v[1] + 1))
    OBVIOUS
  <2> HIDE DEF next, V
  <2>3. PICK f : Iterates(f, <<0, s>>, next, V)
    BY <2>1, Recursion, Zenon
  <2>4. f[0] = <<0, s>> /\ \A n \in Nat : f[n] \in V /\ f[n + 1] = next[f[n]]
    BY <2>3 DEF Iterates
  <2>5. \A n \in Nat : f[n][1] = n
    <3> DEFINE T == {n \in Nat : f[n][1] = n}
    <3>1. 0 \in T
      BY <2>4
    <3>2. ASSUME NEW n \in Nat, n \in T PROVE n + 1 \in T
      <4>1. f[n] \in V /\ f[n + 1] = next[f[n]] /\ f[n][1] = n
        BY <2>4, <3>2
      <4>2. next[f[n]][1] = n + 1
        BY <2>2, <4>1
      <4> QED BY <4>1, <4>2
    <3>3. Nat \subseteq T
      <4> HIDE DEF T
      <4> QED BY <3>1, <3>2, Induction
    <3> QED BY <3>3
  <2> DEFINE g == [n \in 0..L |-> f[n][2]]
  <2>6. g = G(g)
    <3>1. ASSUME NEW n \in 0..L PROVE f[n][2] = IF n = 0 THEN s ELSE put(g[n - 1], n)
      <4>1. CASE n = 0
        BY <2>4, <4>1
      <4>2. CASE n # 0
        <5>1. PICK m \in Nat : m = n - 1 /\ m + 1 = n /\ m \in 0..L /\ n \in 1..L
          BY <1>2, <4>2
        <5>2. f[m + 1][2] = put(f[m][2], m + 1)
          <6>1. f[m] \in V /\ f[m + 1] = next[f[m]] /\ f[m][1] = m
            BY <2>4, <2>5, <5>1
          <6>2. f[m][1] + 1 = m + 1 /\ f[m][1] + 1 \in 1..L
            BY <5>1, <6>1
          <6>3. next[f[m]][2] = put(f[m][2], f[m][1] + 1)
            BY <2>2, <6>1, <6>2
          <6> QED BY <6>1, <6>2, <6>3
        <5>3. g[m] = f[m][2]
          BY <5>1
        <5> HIDE DEF g
        <5> QED BY <4>2, <5>1, <5>2, <5>3
      <4> QED BY <4>1, <4>2
    <3> QED BY <3>1
  <2> HIDE DEF G, g
  <2>7. \E u : u = G(u)
    BY <2>6
  <2> QED BY <2>7, Zenon
<1> HIDE DEF after
<1> DEFINE Kept(n) == \A a \in Used : (\A j \in 1..n : w[j][1] # a) => after[n].regs[a] = s.regs[a]
           Last(n) == \A k \in 1..n : (\A j \in k + 1..n : w[j][1] # w[k][1])
                                        => after[n].regs[w[k][1]] = w[k][2]
           T == {n \in Nat : n <= L => after[n] \in Radio /\ Kept(n) /\ Last(n)}
<1>5. after[0] = s /\ \A n \in 1..L : after[n] = put(after[n - 1], n)
  BY <1>2, <1>4
<1>6. 0 \in T
  BY <1>5
<1>7. ASSUME NEW n \in Nat, n \in T PROVE n + 1 \in T
  <2> SUFFICES ASSUME n + 1 <= L PROVE after[n + 1] \in Radio /\ Kept(n + 1) /\ Last(n + 1)
    OBVIOUS
  <2>1. after[n] \in Radio /\ Kept(n) /\ Last(n)
    BY <1>2, <1>7
  <2>2. n + 1 \in 1..L /\ (n + 1) - 1 = n
    BY <1>2
  <2>3. PICK a \in Used, d \in Int : a = w[n + 1][1] /\ d = w[n + 1][2]
    BY <1>2, <2>2
  <2>4. after[n + 1] \in Radio /\ after[n + 1].regs = [after[n].regs EXCEPT ![a] = d]
    BY <1>3, <1>5, <2>1, <2>2, <2>3
  <2>5. after[n].regs \in [Used -> Int]
    BY <2>1 DEF Radio, Wired
  <2>6. after[n + 1].regs[a] = d /\ \A b \in Used : b # a => after[n + 1].regs[b] = after[n].regs[b]
    BY <2>4, <2>5
  <2>7. 1..n + 1 = (1..n) \cup {n + 1}
    OBVIOUS
  <2>8. Kept(n + 1)
    BY <2>1, <2>3, <2>6, <2>7
  <2>9. ASSUME NEW k \in 1..n + 1, \A j \in k + 1..n + 1 : w[j][1] # w[k][1]
        PROVE  after[n + 1].regs[w[k][1]] = w[k][2]
    <3>1. CASE k = n + 1
      BY <2>3, <2>6, <3>1
    <3>2. CASE k \in 1..n
      <4>1. n + 1 \in k + 1..n + 1 /\ k \in 1..L /\ \A j \in k + 1..n : j \in k + 1..n + 1
        BY <1>2, <2>2, <3>2
      <4>2. w[k][1] \in Used /\ w[k][1] # a
        BY <1>2, <2>3, <2>9, <4>1
      <4>3. after[n].regs[w[k][1]] = w[k][2]
        BY <2>1, <2>9, <3>2, <4>1
      <4> QED BY <2>6, <4>2, <4>3
    <3> QED BY <2>7, <3>1, <3>2
  <2> QED BY <2>4, <2>8, <2>9
<1>8. Nat \subseteq T
  <2> HIDE DEF T
  <2> QED BY <1>6, <1>7, Induction
<1>9. after[L] \in Radio /\ Kept(L) /\ Last(L)
  <2>1. L \in T
    BY <1>2, <1>8
  <2>2. L <= L
    BY <1>2
  <2> HIDE DEF Kept, Last
  <2> QED BY <2>1, <2>2
<1> QED BY <1>1, <1>9 DEF L

(* A quotient, between the two multiples.                                  *)
LEMMA Quotient ==
  ASSUME NEW x \in Int, NEW d \in Nat \ {0}
  PROVE  /\ x \div d \in Int /\ x % d \in Int
         /\ x = (x \div d) * d + (x % d) /\ 0 <= x % d /\ x % d < d
OBVIOUS

(* The three bytes of a PLL are bytes, and stand for the frequency, to one *)
(* step, up to the highest one a radio of the type can be tuned to.        *)
LEMMA PllIsNear ==
  ASSUME NEW type, NEW f \in 0..(256 * Coarse(type) - 1), NEW pll,
         \A i \in 1..3 : pll[i] = Pll(type, f)[i]
  PROVE  /\ \A i \in 1..3 : Pll(type, f)[i] \in Int
         /\ Near(type, pll, f)
<1> DEFINE C == Coarse(type)
           F == Fine(type)
           q == f \div C
           r == f % C
           x == (r * F) \div 15625
           h == x \div 256
           l == x % 256
           y == (x * 15625) \div F
           s == 15625 \div F
<1>1. (C = 2000000 /\ F = 512) \/ (C = 4000000 /\ F = 256)
  BY DEF Coarse, Fine, SX125x_32MHz_FRAC
<1>2. f \in Int /\ 0 <= f /\ f < 256 * C /\ C \in Nat \ {0} /\ F \in Nat \ {0}
  BY <1>1
<1>a. Pll(type, f) = <<q % 256, h % 256, l>>
  BY DEF Pll, part_int, part_frac, SX125x_32MHz_FRAC
<1>b. pll[1] = q % 256 /\ pll[2] = h % 256 /\ pll[3] = l
  BY <1>a
<1>c. Near(type, pll, f) <=>
        /\ (pll[1] * C) + ((((pll[2] * 256) + pll[3]) * 15625) \div F) <= f
        /\ f - ((pll[1] * C) + ((((pll[2] * 256) + pll[3]) * 15625) \div F)) <= s + 1
  BY DEF Near, Hertz, Step, SX125x_32MHz_FRAC
<1> HIDE DEF C, F
<1>3. q \in Int /\ r \in Int /\ f = q * C + r /\ 0 <= r /\ r < C
  BY <1>2, Quotient
<1> HIDE DEF q, r
<1>4. 0 <= q /\ q < 256
  BY <1>1, <1>2, <1>3
<1>5. x \in Int /\ x * 15625 <= r * F /\ r * F < x * 15625 + 15625
  <2>1. r * F \in Int
    BY <1>2, <1>3
  <2> QED BY <2>1, Quotient
<1> HIDE DEF x
<1>6. 0 <= x /\ x < 65536
  BY <1>1, <1>3, <1>5
<1>7. h \in Int /\ l \in Int /\ x = h * 256 + l /\ 0 <= l /\ l < 256
  BY <1>5, Quotient
<1> HIDE DEF h, l
<1>8. 0 <= h /\ h < 256
  BY <1>6, <1>7
<1>9. q % 256 = q /\ h % 256 = h
  BY <1>3, <1>4, <1>7, <1>8
<1>10. y \in Int /\ y * F <= x * 15625 /\ x * 15625 < y * F + F
  <2>1. PICK z \in Int : z = x * 15625
    BY <1>5
  <2>2. y = z \div F
    BY <2>1
  <2> HIDE DEF y
  <2>3. y \in Int /\ y * F <= z /\ z < y * F + F
    <3>1. CASE F = 512
      BY <2>2, <3>1
    <3>2. CASE F = 256
      BY <2>2, <3>2
    <3> QED BY <1>1, <3>1, <3>2
  <2> QED BY <2>1, <2>3
<1>11. s \in Int /\ s * F <= 15625 /\ 15625 < s * F + F
  BY <1>1
<1>12. ((h * 256) + l) * 15625 = x * 15625
  BY <1>7
<1>13. (((h * 256) + l) * 15625) \div F = y
  BY <1>12
<1> HIDE DEF y, s
<1>14. y <= r /\ r - y <= s + 1
  BY <1>1, <1>3, <1>5, <1>10, <1>11
<1>15. q * C + y <= f /\ f - (q * C + y) <= s + 1
  <2>1. PICK z \in Int : z = q * C
    BY <1>2, <1>3
  <2> QED BY <1>2, <1>3, <1>10, <1>11, <1>14, <2>1
<1>16. Near(type, pll, f)
  BY <1>b, <1>c, <1>9, <1>13, <1>15
<1> QED BY <1>3, <1>7, <1>9, <1>16, <1>a

(* One list after the other.                                               *)
Joins(w, u, t, S) ==
  /\ w \in Seq(S) /\ Len(w) = Len(u) + Len(t)
  /\ \A i \in 1..Len(u) : w[i] = u[i]
  /\ \A i \in 1..Len(t) : w[Len(u) + i] = t[i]

(* That is what \o makes of them.                                          *)
LEMMA AfterEachOther ==
  ASSUME NEW S, NEW u \in Seq(S), NEW t \in Seq(S)
  PROVE  Joins(u \o t, u, t, S)
BY DEF Joins

(* Writes that start with the clock, v, and end with a PLL's bytes, p.     *)
ClockFirst(w, n, v) ==
  /\ w \in Seq(Used \X Int) /\ Len(w) = n /\ w[1] = <<16, v>>
  /\ \A j \in 2..n : w[j][1] \notin {0, 16}
PllLast(w, p) == w[9] = <<1, p[1]>> /\ w[10] = <<2, p[2]>> /\ w[11] = <<3, p[3]>>

(* And what they make of a radio.                                          *)
Clocked(r, x, v) == r \in Radio /\ r.regs[16] = v /\ r.regs[0] = x.regs[0]
Locked(r, p) == \A i \in 1..3 : r.regs[i] = p[i]

(* A whole setup.                                                          *)
LEMMA ClockAndPll ==
  ASSUME NEW x \in Radio, NEW w, NEW v, NEW p, ClockFirst(w, 11, v), PllLast(w, p)
  PROVE  Clocked(WriteAll(x, w), x, v) /\ Locked(WriteAll(x, w), p)
<1> DEFINE r == WriteAll(x, w)
<1>0. /\ w \in Seq(Used \X Int) /\ Len(w) = 11 /\ w[1] = <<16, v>>
      /\ \A j \in 2..11 : w[j][1] \notin {0, 16}
      /\ w[9] = <<1, p[1]>> /\ w[10] = <<2, p[2]>> /\ w[11] = <<3, p[3]>>
  BY DEF ClockFirst, PllLast
<1>1. r \in Radio
  BY <1>0, WritesStay
<1>2. \A a \in Used : (\A j \in 1..Len(w) : w[j][1] # a) => r.regs[a] = x.regs[a]
  BY <1>0, WritesStay
<1>3. \A k \in 1..Len(w) :
        (\A j \in k + 1..Len(w) : w[j][1] # w[k][1]) => r.regs[w[k][1]] = w[k][2]
  BY <1>0, WritesStay
<1> HIDE DEF r
<1>4. r.regs[16] = v
  <2>1. w[1][1] = 16 /\ w[1][2] = v /\ 1 \in 1..Len(w)
    BY <1>0
  <2>2. ASSUME NEW j \in 1 + 1..Len(w) PROVE w[j][1] # w[1][1]
    <3>1. j \in 2..11
      BY <1>0
    <3>2. w[j][1] \notin {0, 16}
      BY <1>0, <3>1
    <3> QED BY <2>1, <3>2
  <2>3. r.regs[w[1][1]] = w[1][2]
    BY <1>3, <2>1, <2>2
  <2> QED BY <2>1, <2>3
<1>5. r.regs[0] = x.regs[0]
  <2>1. 0 \in Used
    BY DEF Used
  <2>2. ASSUME NEW j \in 1..Len(w) PROVE w[j][1] # 0
    <3>1. j = 1 \/ j \in 2..11
      BY <1>0
    <3>2. w[1][1] = 16
      BY <1>0
    <3>3. CASE j \in 2..11
      <4>1. w[j][1] \notin {0, 16}
        BY <1>0, <3>3
      <4> QED BY <4>1
    <3> QED BY <3>1, <3>2, <3>3
  <2> QED BY <1>2, <2>1, <2>2
<1>6. r.regs[3] = p[3]
  <2>1. w[11][1] = 3 /\ w[11][2] = p[3] /\ 11 \in 1..Len(w)
    BY <1>0
  <2>2. \A j \in 11 + 1..Len(w) : w[j][1] # w[11][1]
    BY <1>0
  <2>3. r.regs[w[11][1]] = w[11][2]
    BY <1>3, <2>1, <2>2
  <2> QED BY <2>1, <2>3
<1>7. r.regs[2] = p[2]
  <2>1. w[10][1] = 2 /\ w[10][2] = p[2] /\ 10 \in 1..Len(w) /\ w[11][1] = 3
    BY <1>0
  <2>2. \A j \in 10 + 1..Len(w) : w[j][1] # w[10][1]
    BY <1>0, <2>1
  <2>3. r.regs[w[10][1]] = w[10][2]
    BY <1>3, <2>1, <2>2
  <2> QED BY <2>1, <2>3
<1>8. r.regs[1] = p[1]
  <2>1. w[9][1] = 1 /\ w[9][2] = p[1] /\ 9 \in 1..Len(w) /\ w[11][1] = 3 /\ w[10][1] = 2
    BY <1>0
  <2>2. ASSUME NEW j \in 9 + 1..Len(w) PROVE w[j][1] # w[9][1]
    <3>1. j = 10 \/ j = 11
      BY <1>0
    <3> QED BY <2>1, <3>1
  <2>3. r.regs[w[9][1]] = w[9][2]
    BY <1>3, <2>1, <2>2
  <2> QED BY <2>1, <2>3
<1> QED BY <1>1, <1>4, <1>5, <1>6, <1>7, <1>8 DEF r, Clocked, Locked

(* That of a radio that is not enabled.                                    *)
LEMMA ClockOnly ==
  ASSUME NEW x \in Radio, NEW w, NEW v, ClockFirst(w, 2, v)
  PROVE  Clocked(WriteAll(x, w), x, v)
<1> DEFINE r == WriteAll(x, w)
<1>0. /\ w \in Seq(Used \X Int) /\ Len(w) = 2 /\ w[1] = <<16, v>>
      /\ w[2][1] \notin {0, 16}
  BY DEF ClockFirst
<1>1. r \in Radio
  BY <1>0, WritesStay
<1>2. \A a \in Used : (\A j \in 1..Len(w) : w[j][1] # a) => r.regs[a] = x.regs[a]
  BY <1>0, WritesStay
<1>3. \A k \in 1..Len(w) :
        (\A j \in k + 1..Len(w) : w[j][1] # w[k][1]) => r.regs[w[k][1]] = w[k][2]
  BY <1>0, WritesStay
<1> HIDE DEF r
<1>4. w[1][1] = 16 /\ w[1][2] = v /\ 1 \in 1..Len(w) /\ 0 \in Used
  BY <1>0 DEF Used
<1>5. \A j \in 1 + 1..Len(w) : w[j][1] # w[1][1]
  BY <1>0, <1>4
<1>6. r.regs[w[1][1]] = w[1][2]
  BY <1>3, <1>4, <1>5
<1>7. \A j \in 1..Len(w) : w[j][1] # 0
  BY <1>0, <1>4
<1>8. r.regs[0] = x.regs[0]
  BY <1>2, <1>4, <1>7
<1> QED BY <1>1, <1>4, <1>6, <1>8 DEF r, Clocked

(* What setup_sx125x leaves in a radio: the clock, and the PLL's bytes if  *)
(* the radio is enabled; otherwise it stays in standby.                    *)
LEMMA SetUp ==
  ASSUME ChipAssumption, conf \in Confs, NEW c \in Chains, NEW s \in Radio
  PROVE  LET r == WriteAll(sx125x_read(s, 7),
                           Common(c) \o (IF conf.enable[c] THEN Tuning(c) ELSE <<>>))
         IN
         /\ r \in Radio
         /\ r.regs[16] = 1 + (IF conf.clkout = c THEN 2 ELSE 0)
         /\ r.regs[0] = s.regs[0]
         /\ conf.enable[c] =>
              Near(conf.type[c], [i \in 1..3 |-> r.regs[i]], conf.freq_hz[c])
<1> DEFINE pll == Pll(conf.type[c], conf.freq_hz[c])
           u == Common(c)
           t == Tuning(c)
           v == 1 + (IF conf.clkout = c THEN 2 ELSE 0)
           x == sx125x_read(s, 7)
           r == WriteAll(x, u \o (IF conf.enable[c] THEN t ELSE <<>>))
<1>0. 7 \in Used /\ 16 \in Used /\ 38 \in Used /\ 40 \in Used /\ 0 \in Used
        /\ 1 \in Used /\ 2 \in Used /\ 3 \in Used /\ 8 \in Used /\ 10 \in Used /\ 11 \in Used
        /\ 12 \in Used /\ 13 \in Used /\ 14 \in Used
  BY DEF Used
<1>1. x \in Radio /\ x.regs = s.regs
  BY <1>0, ReadKeeps
<1>2. conf.freq_hz[c] \in 0..(256 * Coarse(conf.type[c]) - 1)
  BY DEF ChipAssumption
<1>3. pll[1] \in Int /\ pll[2] \in Int /\ pll[3] \in Int
        /\ \A p : (\A i \in 1..3 : p[i] = pll[i]) => Near(conf.type[c], p, conf.freq_hz[c])
  <2>1. \A i \in 1..3 : pll[i] \in Int
    BY <1>2, PllIsNear
  <2>2. ASSUME NEW p, \A i \in 1..3 : p[i] = pll[i]
        PROVE  Near(conf.type[c], p, conf.freq_hz[c])
    BY <1>2, <2>2, PllIsNear
  <2> QED BY <2>1, <2>2
<1>4. u \in Seq(Used \X Int) /\ Len(u) = 2 /\ u[1] = <<16, v>> /\ u[2][1] \in {38, 40}
  <2> HIDE DEF pll
  <2> QED BY <1>0 DEF Common
<1>5. t \in Seq(Used \X Int) /\ Len(t) = 9 /\ t[7] = <<1, pll[1]>> /\ t[8] = <<2, pll[2]>>
        /\ t[9] = <<3, pll[3]>>
        /\ \A i \in 1..9 : t[i][1] \in 1..14
  <2> DEFINE p1 == pll[1]
             p2 == pll[2]
             p3 == pll[3]
  <2>1. t = <<<<8, 14 + 2 * 16>>, <<10, 3 * 32>>, <<11, 5>>,
              <<12, 1 + (12 * 2) + 32>>, <<13, (6 * 4) + (7 * 32)>>, <<14, 0>>,
              <<1, p1>>, <<2, p2>>, <<3, p3>>>>
    BY DEF Tuning
  <2>2. p1 \in Int /\ p2 \in Int /\ p3 \in Int
    BY <1>3
  <2> HIDE DEF p1, p2, p3, t
  <2>3. t \in Seq(Used \X Int)
    <3>1. /\ <<8, 14 + 2 * 16>> \in Used \X Int /\ <<10, 3 * 32>> \in Used \X Int
          /\ <<11, 5>> \in Used \X Int /\ <<12, 1 + (12 * 2) + 32>> \in Used \X Int
          /\ <<13, (6 * 4) + (7 * 32)>> \in Used \X Int /\ <<14, 0>> \in Used \X Int
          /\ <<1, p1>> \in Used \X Int /\ <<2, p2>> \in Used \X Int /\ <<3, p3>> \in Used \X Int
      BY <1>0, <2>2
    <3>2. \A S : \A a, b, c1, d, e, f, g, h, i \in S : <<a, b, c1, d, e, f, g, h, i>> \in Seq(S)
      OBVIOUS
    <3> QED BY <2>1, <3>1, <3>2, Zenon
  <2>4. Len(t) = 9 /\ t[7] = <<1, p1>> /\ t[8] = <<2, p2>> /\ t[9] = <<3, p3>>
    BY <2>1
  <2>5. \A i \in 1..9 : t[i][1] \in 1..14
    BY <2>1
  <2> QED BY <2>3, <2>4, <2>5 DEF p1, p2, p3
<1> HIDE DEF pll, u, t, x
<1>6. v \in Int /\ 38 # 16 /\ 40 # 16 /\ 38 # 0 /\ 40 # 0 /\ 16 # 0
  OBVIOUS
<1> HIDE DEF v
<1>7. ASSUME conf.enable[c] PROVE r = WriteAll(x, u \o t)
  BY <1>7
<1>8. ASSUME ~conf.enable[c] PROVE r = WriteAll(x, u)
  <2>1. u \o <<>> = u
    BY <1>4
  <2> QED BY <1>8, <2>1
<1> HIDE DEF r
<1> DEFINE Result == /\ r \in Radio /\ r.regs[16] = v /\ r.regs[0] = s.regs[0]
                     /\ conf.enable[c] =>
                          Near(conf.type[c], [i \in 1..3 |-> r.regs[i]], conf.freq_hz[c])
<1>9. ASSUME conf.enable[c] PROVE Result
  <2>1. PICK w : w = u \o t
    OBVIOUS
  <2>a. Joins(w, u, t, Used \X Int)
    BY <1>4, <1>5, <2>1, AfterEachOther
  <2>2. /\ w \in Seq(Used \X Int) /\ Len(w) = Len(u) + Len(t)
        /\ \A i \in 1..Len(u) : w[i] = u[i]
        /\ \A i \in 1..Len(t) : w[Len(u) + i] = t[i]
    BY <2>a DEF Joins
  <2>3. Len(w) = 11
    BY <1>4, <1>5, <2>2
  <2>4. w[1] = u[1] /\ w[2] = u[2]
    BY <1>4, <2>2
  <2>5. \A i \in 1..9 : w[2 + i] = t[i]
    BY <1>4, <1>5, <2>2
  <2>6. w[9] = t[7] /\ w[10] = t[8] /\ w[11] = t[9]
    <3>1. w[2 + 7] = t[7] /\ w[2 + 8] = t[8] /\ w[2 + 9] = t[9]
      BY <2>5
    <3> QED BY <3>1
  <2>7. ASSUME NEW j \in 2..11 PROVE w[j][1] \notin {0, 16}
    <3>1. CASE j = 2
      BY <1>4, <2>4, <3>1
    <3>2. CASE j # 2
      <4>1. PICK i \in 1..9 : j = 2 + i
        BY <3>2
      <4>2. w[j] = t[i]
        BY <2>5, <4>1
      <4>3. PICK z \in 1..14 : z = t[i][1]
        BY <1>5
      <4>4. w[j][1] = z
        BY <4>2, <4>3
      <4>5. z \notin {0, 16}
        OBVIOUS
      <4> QED BY <4>4, <4>5
    <3> QED BY <3>1, <3>2
  <2>8. Clocked(WriteAll(x, w), x, v) /\ Locked(WriteAll(x, w), pll)
    <3>1. ClockFirst(w, 11, v)
      BY <1>4, <2>2, <2>3, <2>4, <2>7 DEF ClockFirst
    <3>2. PllLast(w, pll)
      BY <1>5, <2>6 DEF PllLast
    <3> QED BY <1>1, <3>1, <3>2, ClockAndPll
  <2>9. r = WriteAll(x, w)
    BY <1>7, <1>9, <2>1
  <2> DEFINE p == [i \in 1..3 |-> r.regs[i]]
  <2>10. \A i \in 1..3 : p[i] = pll[i]
    BY <2>8, <2>9 DEF Locked
  <2> HIDE DEF p
  <2>11. Near(conf.type[c], p, conf.freq_hz[c])
    BY <1>3, <2>10
  <2> QED BY <1>1, <2>8, <2>9, <2>11 DEF p, Clocked
<1>10. ASSUME ~conf.enable[c] PROVE Result
  <2>1. ClockFirst(u, 2, v)
    <3>1. \A j \in 2..2 : u[j][1] \notin {0, 16}
      BY <1>4
    <3> QED BY <1>4, <3>1 DEF ClockFirst
  <2>2. Clocked(WriteAll(x, u), x, v)
    BY <1>1, <2>1, ClockOnly
  <2> QED BY <1>1, <1>8, <1>10, <2>2 DEF Clocked
<1> QED BY <1>9, <1>10 DEF r, x, u, t, v

(* A try at the lock of a PLL.                                             *)
Tried(s, locked) ==
  sx125x_read([sx125x_write(sx125x_write(s, 0, 1), 0, 3) EXCEPT !.regs[17] = locked], 17)

(* What a try at the lock leaves: crystal and receiver on, and what was    *)
(* read of the PLL; nothing else has changed.                              *)
LEMMA Tries ==
  ASSUME NEW s \in Radio, NEW locked \in {0, 2}
  PROVE  LET r == Tried(s, locked)
         IN  /\ r \in Radio /\ r.back = locked
             /\ r.regs[17] = locked /\ r.regs[0] = 3
             /\ \A a \in Used \ {0, 17} : r.regs[a] = s.regs[a]
<1>1. PICK z \in Used, y \in Used, one \in Int, three \in Int :
        z = 0 /\ y = 17 /\ one = 1 /\ three = 3
  BY DEF Used
<1> DEFINE u == sx125x_write(s, z, one)
           t == sx125x_write(u, z, three)
           on == [t EXCEPT !.regs[y] = locked]
           r == sx125x_read(on, y)
<1>2. u \in Radio /\ u.regs = [s.regs EXCEPT ![z] = one]
  BY WriteSets
<1> HIDE DEF u
<1>3. t \in Radio /\ t.regs = [u.regs EXCEPT ![z] = three]
  BY <1>2, WriteSets
<1>7. r = Tried(s, locked)
  BY <1>1, Zenon DEF u, t, Tried
<1> HIDE DEF t
<1>4. on \in Radio /\ on.regs = [t.regs EXCEPT ![y] = locked]
  <2>1. t.regs \in [Used -> Int]
    BY <1>3 DEF Radio, Wired
  <2>a. locked \in Int
    OBVIOUS
  <2>2. [t.regs EXCEPT ![y] = locked] \in [Used -> Int]
    BY <2>1, <2>a
  <2> QED BY <1>3, <2>1, <2>2 DEF Radio, Wired, on
<1> HIDE DEF on
<1>5. r \in Radio /\ r.regs = on.regs /\ r.back = on.regs[y]
  BY <1>4, ReadKeeps
<1> HIDE DEF r
<1>6. s.regs \in [Used -> Int] /\ u.regs \in [Used -> Int] /\ t.regs \in [Used -> Int]
  BY <1>2, <1>3 DEF Radio, Wired
<1>8. r.regs[y] = locked /\ r.regs[z] = three
      /\ \A a \in Used : a # z /\ a # y => r.regs[a] = s.regs[a]
  BY <1>1, <1>2, <1>3, <1>4, <1>5, <1>6
<1>9. r.back = locked
  BY <1>4, <1>5, <1>6
<1> QED BY <1>1, <1>5, <1>7, <1>8, <1>9

(* The places of lgw_start, and the radios still to be set up at one.      *)
Places == {<<"setup", i>> : i \in 0..2} \cup {<<"lock", c>> : c \in Chains}
            \cup {<<"gain", i>> : i \in Nat}
            \cup {<<"adjust">>, <<"load">>, <<"failed">>, <<"started">>}
Ahead(place, c) == \/ place[1] = "setup" /\ place[2] <= c
                   \/ place[1] = "lock" /\ place[2] < c

(* What setup_sx125x has made of a radio, if it returned result.           *)
SetFor(c, r, result) ==
  /\ r.regs[16] = 1 + (IF conf.clkout = c THEN 2 ELSE 0)
  /\ conf.enable[c] => Near(conf.type[c], [i \in 1..3 |-> r.regs[i]], conf.freq_hz[c])
  /\ ~conf.enable[c] => r.regs[0] = 0
  /\ conf.enable[c] /\ result = 0 => r.regs[17] = 2 /\ r.regs[0] = 3
Turn(c) == IF Ahead(step, c) THEN radio[c].regs[0] = 0 /\ ret[c] = 1
           ELSE SetFor(c, radio[c], ret[c])

(* What lgw_start knows of the radios wherever it is.                      *)
RadioInv ==
  /\ conf \in Confs /\ step \in Places
  /\ radio \in [Chains -> Radio] /\ ret \in [Chains -> {-1, 0, 1}]
  /\ \A c \in Chains : Turn(c)
  /\ \A c \in Chains : step = <<"lock", c>> => conf.enable[c] /\ ret[c] = 1

(* Who is still to be set up, from place to place.                         *)
LEMMA Turns ==
  ASSUME NEW c \in Chains, NEW d \in Chains
  PROVE  /\ Ahead(<<"setup", c>>, d) <=> c <= d
         /\ Ahead(<<"lock", c>>, d) <=> c < d
         /\ Ahead(<<"setup", c + 1>>, d) <=> c < d
         /\ <<"lock", c>> \in Places /\ <<"setup", c + 1>> \in Places
         /\ <<"lock", c>> = <<"lock", d>> => c = d
         /\ <<"setup", c + 1>> # <<"lock", d>>
BY DEF Ahead, Places, Chains

(* Nobody, when lgw_start is past the radios.                              *)
LEMMA NobodyAhead ==
  ASSUME NEW place,
         \/ place \in {<<"setup", 2>>, <<"adjust">>, <<"load">>, <<"failed">>, <<"started">>}
         \/ \E i \in Nat : place = <<"gain", i>>
  PROVE  /\ \A c \in Chains : ~Ahead(place, c) /\ place # <<"lock", c>>
         /\ place \in Places
BY DEF Ahead, Places, Chains

(* The radio lgw_start is at has changed, or what it returned.             *)
LEMMA NextRadio ==
  ASSUME RadioInv, NEW c \in Chains, NEW r \in Radio, NEW result \in {-1, 0, 1},
         step = <<"setup", c>> \/ step = <<"lock", c>>,
         conf' = conf, radio' = [radio EXCEPT ![c] = r], ret' = [ret EXCEPT ![c] = result],
         step' = <<"setup", c + 1>> \/ (step' = <<"lock", c>> /\ conf.enable[c] /\ result = 1),
         SetFor(c, r, result)
  PROVE  RadioInv'
<1>1. radio' \in [Chains -> Radio] /\ ret' \in [Chains -> {-1, 0, 1}]
  BY DEF RadioInv
<1>2. conf' \in Confs /\ step' \in Places
  BY Turns DEF RadioInv
<1>3. radio'[c] = r /\ ret'[c] = result
        /\ \A d \in Chains : d # c => radio'[d] = radio[d] /\ ret'[d] = ret[d]
  BY DEF RadioInv
<1>4. ASSUME NEW d \in Chains PROVE Turn(d)'
  <2>1. CASE d = c
    <3>1. ~Ahead(step', c)
      BY Turns DEF Chains
    <3>2. SetFor(c, radio[c], ret[c])'
      BY <1>3 DEF SetFor
    <3> QED BY <2>1, <3>1, <3>2 DEF Turn
  <2>2. CASE d # c
    <3>1. Ahead(step', d) <=> Ahead(step, d)
      BY <2>2, Turns DEF Chains
    <3>2. radio'[d] = radio[d] /\ ret'[d] = ret[d] /\ Turn(d)
      BY <1>3, <2>2 DEF RadioInv
    <3> QED BY <3>1, <3>2 DEF Turn, SetFor
  <2> QED BY <2>1, <2>2
<1>5. ASSUME NEW d \in Chains, step' = <<"lock", d>> PROVE conf'.enable[d] /\ ret'[d] = 1
  <2>1. step' = <<"lock", c>> /\ d = c /\ conf.enable[c] /\ result = 1
    BY <1>5, Turns
  <2> QED BY <1>3, <2>1
<1> QED BY <1>1, <1>2, <1>4, <1>5 DEF RadioInv

(* lgw_start has gone on behind the radios.                                *)
LEMMA RadiosRest ==
  ASSUME RadioInv, conf' = conf, radio' = radio, ret' = ret,
         \A c \in Chains : ~Ahead(step, c),
         \/ step' \in {<<"setup", 2>>, <<"adjust">>, <<"load">>, <<"failed">>, <<"started">>}
         \/ \E i \in Nat : step' = <<"gain", i>>
  PROVE  RadioInv'
<1>1. step' \in Places /\ \A c \in Chains : ~Ahead(step', c) /\ step' # <<"lock", c>>
  BY NobodyAhead
<1>2. ASSUME NEW c \in Chains PROVE Turn(c)'
  <2>1. SetFor(c, radio[c], ret[c])
    BY DEF RadioInv, Turn
  <2> QED BY <1>1, <2>1 DEF Turn, SetFor
<1> QED BY <1>1, <1>2 DEF RadioInv

(* A radio in the dark is one.                                             *)
LEMMA DarkIsRadio == Dark \in Radio /\ Dark.regs[0] = 0
<1>1. 0 \in Used
  BY DEF Used
<1> QED BY <1>1 DEF Dark, Radio, Wired

(* What setup_sx125x does to a radio is right so far,                      *)
LEMMA SetupStep ==
  ASSUME ChipAssumption, RadioInv, NEW c \in Chains, setup_sx125x(c)
  PROVE  RadioInv'
<1> DEFINE r == WriteAll(sx125x_read(radio[c], 7),
                         Common(c) \o (IF conf.enable[c] THEN Tuning(c) ELSE <<>>))
<1>1. step = <<"setup", c>> /\ conf' = conf /\ radio' = [radio EXCEPT ![c] = r]
      /\ IF conf.enable[c] THEN step' = <<"lock", c>> /\ ret' = ret
         ELSE step' = <<"setup", c + 1>> /\ ret' = [ret EXCEPT ![c] = 0]
  BY DEF setup_sx125x
<1>2. radio[c] \in Radio /\ radio[c].regs[0] = 0 /\ ret[c] = 1 /\ conf \in Confs
  <2>1. Ahead(step, c) /\ Turn(c)
    BY <1>1, Turns DEF RadioInv, Chains
  <2> QED BY <2>1 DEF Turn, RadioInv
<1>3. /\ r \in Radio
      /\ r.regs[16] = 1 + (IF conf.clkout = c THEN 2 ELSE 0)
      /\ r.regs[0] = 0
      /\ conf.enable[c] =>
           Near(conf.type[c], [i \in 1..3 |-> r.regs[i]], conf.freq_hz[c])
  BY <1>2, SetUp
<1> HIDE DEF r
<1>4. CASE conf.enable[c]
  <2>1. ret' = [ret EXCEPT ![c] = 1]
    BY <1>1, <1>2, <1>4 DEF RadioInv
  <2>2. SetFor(c, r, 1)
    BY <1>3, <1>4 DEF SetFor
  <2>3. step' = <<"lock", c>>
    BY <1>1, <1>4
  <2> QED BY <1>1, <1>3, <1>4, <2>1, <2>2, <2>3, NextRadio
<1>5. CASE ~conf.enable[c]
  <2>1. SetFor(c, r, 0)
    BY <1>3, <1>5 DEF SetFor
  <2>2. step' = <<"setup", c + 1>> /\ ret' = [ret EXCEPT ![c] = 0]
    BY <1>1, <1>5
  <2> QED BY <1>1, <1>3, <2>1, <2>2, NextRadio
<1> QED BY <1>4, <1>5

(* and so is a try at the lock of its PLL, or that it has none.            *)
LEMMA LockStep ==
  ASSUME RadioInv, NEW c \in Chains, TryLock(c) \/ LockFails(c)
  PROVE  RadioInv'
<1>1. step = <<"lock", c>> /\ conf' = conf
  BY DEF TryLock, LockFails
<1>2. radio[c] \in Radio /\ SetFor(c, radio[c], 1) /\ conf.enable[c] /\ ret[c] = 1
  <2>1. ~Ahead(step, c) /\ Turn(c)
    BY <1>1, Turns DEF RadioInv, Chains
  <2> QED BY <1>1, <2>1 DEF Turn, RadioInv
<1>3. CASE TryLock(c)
  <2>1. PICK locked \in {0, 2} :
          LET on == [sx125x_write(sx125x_write(radio[c], 0, 1), 0, 3) EXCEPT !.regs[17] = locked]
              r  == sx125x_read(on, 17)
          IN  /\ radio' = [radio EXCEPT ![c] = r]
              /\ IF r.back = 2
                 THEN step' = <<"setup", c + 1>> /\ attempts' = 0 /\ ret' = [ret EXCEPT ![c] = 0]
                 ELSE attempts' = attempts + 1 /\ step' = step /\ ret' = ret
    BY <1>3 DEF TryLock
  <2> DEFINE r == Tried(radio[c], locked)
  <2>2. /\ r \in Radio /\ r.back = locked
        /\ r.regs[17] = locked /\ r.regs[0] = 3
        /\ \A a \in Used \ {0, 17} : r.regs[a] = radio[c].regs[a]
    BY <1>2, Tries
  <2>3. radio' = [radio EXCEPT ![c] = r]
        /\ IF r.back = 2 THEN step' = <<"setup", c + 1>> /\ ret' = [ret EXCEPT ![c] = 0]
           ELSE step' = step /\ ret' = ret
    BY <2>1 DEF Tried
  <2> HIDE DEF r
  <2>4. r.regs[16] = radio[c].regs[16] /\ \A i \in 1..3 : r.regs[i] = radio[c].regs[i]
    <3>1. 16 \in Used \ {0, 17} /\ \A i \in 1..3 : i \in Used \ {0, 17}
      BY DEF Used
    <3> QED BY <2>2, <3>1
  <2>5. Near(conf.type[c], [i \in 1..3 |-> r.regs[i]], conf.freq_hz[c])
    <3>1. [i \in 1..3 |-> r.regs[i]] = [i \in 1..3 |-> radio[c].regs[i]]
      BY <2>4
    <3>2. Near(conf.type[c], [i \in 1..3 |-> radio[c].regs[i]], conf.freq_hz[c])
      BY <1>2 DEF SetFor
    <3> QED BY <3>1, <3>2, Zenon
  <2>6. CASE locked = 2
    <3>1. SetFor(c, r, 0)
      BY <1>2, <2>2, <2>4, <2>5, <2>6 DEF SetFor
    <3>2. step' = <<"setup", c + 1>> /\ ret' = [ret EXCEPT ![c] = 0]
      BY <2>2, <2>3, <2>6
    <3> QED BY <1>1, <2>2, <2>3, <3>1, <3>2, NextRadio
  <2>7. CASE locked # 2
    <3>1. SetFor(c, r, 1)
      BY <1>2, <2>4, <2>5 DEF SetFor
    <3>2. step' = <<"lock", c>> /\ ret' = ret
      BY <1>1, <2>2, <2>3, <2>7
    <3>3. ret' = [ret EXCEPT ![c] = 1]
      BY <1>2, <3>2 DEF RadioInv
    <3> QED BY <1>1, <1>2, <2>2, <2>3, <3>1, <3>2, <3>3, NextRadio
  <2> QED BY <2>6, <2>7
<1>4. CASE LockFails(c)
  <2>1. step' = <<"setup", c + 1>> /\ ret' = [ret EXCEPT ![c] = -1] /\ radio' = radio
    BY <1>4 DEF LockFails
  <2>2. radio' = [radio EXCEPT ![c] = radio[c]]
    BY <2>1 DEF RadioInv
  <2>3. SetFor(c, radio[c], -1)
    BY <1>2 DEF SetFor
  <2>4. -1 \in {-1, 0, 1}
    OBVIOUS
  <2> QED BY <1>1, <1>2, <2>1, <2>2, <2>3, <2>4, NextRadio
<1> QED BY <1>3, <1>4

(* The radios are set up one after the other, and then left alone.         *)
LEMMA RadioInvariant == ASSUME ChipAssumption PROVE ChipSpec => []RadioInv
<1>1. ChipInit => RadioInv
  <2> SUFFICES ASSUME ChipInit PROVE RadioInv
    OBVIOUS
  <2>1. conf \in Confs /\ step = <<"setup", 0>> /\ radio = [c \in Chains |-> Dark]
        /\ ret = [c \in Chains |-> 1]
    BY DEF ChipInit
  <2>2. step \in Places /\ \A c \in Chains : Ahead(step, c) /\ step # <<"lock", c>>
    BY <2>1 DEF Places, Ahead, Chains
  <2>3. radio \in [Chains -> Radio] /\ \A c \in Chains : radio[c].regs[0] = 0
    BY <2>1, DarkIsRadio
  <2>4. ret \in [Chains -> {-1, 0, 1}] /\ \A c \in Chains : ret[c] = 1
    BY <2>1
  <2> QED BY <2>1, <2>2, <2>3, <2>4 DEF RadioInv, Turn
<1>2. RadioInv /\ [ChipNext]_chipVars => RadioInv'
  <2> SUFFICES ASSUME RadioInv, [ChipNext]_chipVars PROVE RadioInv'
    OBVIOUS
  <2>1. ASSUME NEW c \in Chains, setup_sx125x(c) \/ TryLock(c) \/ LockFails(c)
        PROVE  RadioInv'
    BY <2>1, SetupStep, LockStep
  <2>2. CASE Calibrate
    BY <2>2, NobodyAhead, RadiosRest DEF Calibrate
  <2>3. CASE Adjust
    BY <2>3, NobodyAhead, RadiosRest DEF Adjust
  <2>4. CASE LoadFirmware
    <3>1. step = <<"load">> /\ step' \in {<<"gain", 1>>, <<"failed">>}
          /\ conf' = conf /\ radio' = radio /\ ret' = ret
      BY <2>4 DEF LoadFirmware
    <3> QED BY <3>1, NobodyAhead, RadiosRest
  <2>5. ASSUME NEW i \in 1..(LUT_MAX + 4), Tell(i) PROVE RadioInv'
    <3>1. i \in Nat /\ i + 1 \in Nat
      BY DEF ChipAssumption
    <3>2. step = <<"gain", i>> /\ step' \in {<<"failed">>, <<"started">>, <<"gain", i + 1>>}
          /\ conf' = conf /\ radio' = radio /\ ret' = ret
      BY <2>5 DEF Tell
    <3> QED BY <3>1, <3>2, NobodyAhead, RadiosRest
  <2>6. ASSUME conf' = conf, step' = step, radio' = radio, ret' = ret PROVE RadioInv'
    <3>1. ASSUME NEW c \in Chains PROVE Turn(c)'
      BY <2>6 DEF RadioInv, Turn, SetFor
    <3> QED BY <2>6, <3>1 DEF RadioInv
  <2>7. CASE SendPacket \/ UNCHANGED chipVars
    BY <2>6, <2>7 DEF SendPacket, chipVars
  <2> QED BY <2>1, <2>2, <2>3, <2>4, <2>5, <2>7 DEF ChipNext
<1> QED BY <1>1, <1>2, PTL DEF ChipSpec

(* The gains as the AGC firmware has them, so far, and if an ABORT follows.*)
Gain(i) == load_val(conf.lut[i])
Loaded(k) == [i \in 1..k |-> Gain(i)]
Aborts == IF Len(conf.lut) < LUT_MAX THEN 1 ELSE 0

(* The gains are numbers the firmware does not take for an ABORT.          *)
LEMMA GainsAreNoCommand ==
  ASSUME ChipAssumption, conf \in Confs
  PROVE  /\ LUT_MAX \in Nat /\ LUT_MAX >= 5 /\ Len(conf.lut) \in 1..LUT_MAX
         /\ \A i \in 1..Len(conf.lut) : Gain(i) \in Int /\ Gain(i) # AGC_CMD_ABORT
         /\ DOMAIN conf.lut = 1..Len(conf.lut) /\ conf.radio_select \in Int
<1>1. LUT_MAX \in Nat /\ LUT_MAX >= 5 /\ Len(conf.lut) \in 1..LUT_MAX
        /\ conf.lut \in Seq(GainRow)
  BY DEF ChipAssumption
<1>2. ASSUME NEW i \in 1..Len(conf.lut)
      PROVE  Gain(i) \in Int /\ Gain(i) # AGC_CMD_ABORT
  <2>1. PICK g \in GainRow : g = conf.lut[i]
    BY <1>1, <1>2
  <2>2. PICK m \in 8..15, d \in 0..3, p \in 0..3 :
          m = g.mix_gain /\ d = g.dac_gain /\ p = g.pa_gain
    BY DEF GainRow
  <2>a. load_val(g) = m + (16 * d) + (64 * p)
    BY <2>2 DEF load_val
  <2>3. load_val(g) \in Int /\ load_val(g) # 17
    BY <2>a
  <2> QED BY <2>1, <2>3 DEF Gain, AGC_CMD_ABORT
<1>3. DOMAIN conf.lut = 1..Len(conf.lut)
  BY <1>1
<1>4. conf.radio_select \in Int
  <2>1. conf.radio_select \in 0..255
    BY DEF ChipAssumption
  <2> QED BY <2>1
<1> QED BY <1>1, <1>2, <1>3, <1>4

(* One gain after the other.                                               *)
LEMMA LoadsNext ==
  ASSUME ChipAssumption, conf \in Confs, NEW k \in Nat, k <= Len(conf.lut)
  PROVE  /\ Loaded(k) \in Seq(Int) /\ Len(Loaded(k)) = k
         /\ k + 1 <= Len(conf.lut) => Append(Loaded(k), Gain(k + 1)) = Loaded(k + 1)
<1>0. \A i \in 1..Len(conf.lut) : Gain(i) \in Int
  BY GainsAreNoCommand
<1>a. Len(conf.lut) \in Nat
  BY GainsAreNoCommand
<1> DEFINE L == Len(conf.lut)
<1> HIDE DEF L
<1>b. L \in Nat /\ k <= L /\ \A i \in 1..L : Gain(i) \in Int
  BY <1>0, <1>a DEF L
<1>1. ASSUME NEW m \in Nat, m <= L PROVE Loaded(m) \in Seq(Int) /\ Len(Loaded(m)) = m
  <2>1. \A i \in 1..m : i \in 1..L
    BY <1>b, <1>1
  <2> QED BY <1>b, <2>1 DEF Loaded
<1>2. ASSUME k + 1 <= L PROVE Append(Loaded(k), Gain(k + 1)) = Loaded(k + 1)
  <2>1. PICK s \in Seq(Int), t \in Seq(Int), x \in Int :
          s = Loaded(k) /\ Len(s) = k /\ t = Loaded(k + 1) /\ Len(t) = k + 1 /\ x = Gain(k + 1)
    BY <1>1, <1>2, <1>b
  <2>2. \A i \in 1..k : s[i] = Gain(i)
    BY <2>1 DEF Loaded
  <2>3. \A i \in 1..k + 1 : t[i] = Gain(i)
    BY <2>1 DEF Loaded
  <2>4. Append(s, x) \in Seq(Int) /\ Len(Append(s, x)) = k + 1
    BY <2>1
  <2>5. \A i \in 1..k + 1 : Append(s, x)[i] = t[i]
    <3>1. Append(s, x)[k + 1] = x /\ \A i \in 1..k : Append(s, x)[i] = s[i]
      BY <2>1
    <3>2. \A i \in 1..k + 1 : i = k + 1 \/ i \in 1..k
      OBVIOUS
    <3> QED BY <2>1, <2>2, <2>3, <3>1, <3>2
  <2>6. Append(s, x) = t
    BY <2>1, <2>4, <2>5
  <2> QED BY <2>1, <2>6
<1> QED BY <1>1, <1>2, <1>b DEF L

(* The lines of the dialogue, of n gains and a ABORTs.                     *)
InLines(n, a) ==
  /\ Len(Dialogue) = n + a + 3
  /\ \A i \in 1..n : Dialogue[i] = <<Gain(i), 47 + i>>
  /\ a = 1 => Dialogue[n + 1] = <<17, 48>>
  /\ Dialogue[n + a + 1] = <<3, 51>> /\ Dialogue[n + a + 2] = <<0, 48>>
  /\ Dialogue[n + a + 3] = <<conf.radio_select, 64>>

(* These are its lines.                                                    *)
LEMMA Lines ==
  ASSUME ChipAssumption, conf \in Confs, NEW n, n = Len(conf.lut), NEW a, a = Aborts
  PROVE  InLines(n, a)
<1>1. PICK rs : rs = conf.radio_select
  OBVIOUS
<1> DEFINE S == (Int \cup {rs}) \X Int
           e == <<<<3, 51>>, <<0, 48>>, <<rs, 64>>>>
<1>2. n \in Nat /\ DOMAIN conf.lut = 1..n /\ \A i \in 1..n : Gain(i) \in Int
  BY GainsAreNoCommand
<1>3. GainWords \in Seq(S) /\ Len(GainWords) = n /\ \A i \in 1..n : GainWords[i] = <<Gain(i), 47 + i>>
  <2>1. GainWords = [i \in 1..n |-> <<Gain(i), 48 + i - 1>>]
    BY <1>2 DEF GainWords, Gain
  <2>2. \A i \in 1..n : <<Gain(i), 48 + i - 1>> \in S /\ 48 + i - 1 = 47 + i
    BY <1>2
  <2> HIDE DEF S
  <2> QED BY <1>2, <2>1, <2>2
<1>4. Abort \in Seq(S) /\ Len(Abort) = a /\ (a = 1 => Abort[1] = <<17, 48>>) /\ a \in {0, 1}
  <2>1. CASE Len(conf.lut) < LUT_MAX
    <3>1. Abort = <<<<17, 48>>>> /\ a = 1
      BY <2>1 DEF Abort, Aborts, AGC_CMD_ABORT
    <3>2. <<17, 48>> \in S
      OBVIOUS
    <3> HIDE DEF S
    <3> QED BY <3>1, <3>2
  <2>2. CASE ~(Len(conf.lut) < LUT_MAX)
    <3>1. Abort = <<>> /\ a = 0
      BY <2>2 DEF Abort, Aborts
    <3> HIDE DEF S
    <3> QED BY <3>1
  <2> QED BY <2>1, <2>2
<1>5. e \in Seq(S) /\ Len(e) = 3 /\ e[1] = <<3, 51>> /\ e[2] = <<0, 48>> /\ e[3] = <<rs, 64>>
  <2>1. <<3, 51>> \in S /\ <<0, 48>> \in S /\ <<rs, 64>> \in S
    OBVIOUS
  <2> HIDE DEF S
  <2> QED BY <2>1
<1> HIDE DEF S
<1> HIDE DEF e
<1>7. PICK d : d = (GainWords \o Abort) \o e
  OBVIOUS
<1>8. PICK ga : ga = GainWords \o Abort
  OBVIOUS
<1>9. Joins(ga, GainWords, Abort, S)
  BY <1>3, <1>4, <1>8, AfterEachOther
<1>10. ga \in Seq(S) /\ Len(ga) = n + a /\ (\A i \in 1..n : ga[i] = GainWords[i])
         /\ \A i \in 1..a : ga[n + i] = Abort[i]
  BY <1>3, <1>4, <1>9 DEF Joins
<1>11. Joins(d, ga, e, S)
  BY <1>5, <1>7, <1>8, <1>10, AfterEachOther
<1>12. Len(d) = n + a + 3 /\ (\A i \in 1..n + a : d[i] = ga[i])
         /\ \A i \in 1..3 : d[n + a + i] = e[i]
  BY <1>5, <1>10, <1>11 DEF Joins
<1>13. Dialogue = d
  BY <1>1, <1>7 DEF Dialogue, e
<1>14. \A i \in 1..n : d[i] = <<Gain(i), 47 + i>>
  <2>1. \A i \in 1..n : i \in 1..n + a
    BY <1>2, <1>4
  <2> QED BY <1>3, <1>10, <1>12, <2>1
<1>15. a = 1 => d[n + 1] = <<17, 48>>
  <2>1. a = 1 => n + 1 \in 1..n + a /\ 1 \in 1..a
    BY <1>2
  <2> QED BY <1>4, <1>10, <1>12, <2>1
<1>16. d[n + a + 1] = <<3, 51>> /\ d[n + a + 2] = <<0, 48>> /\ d[n + a + 3] = <<rs, 64>>
  <2>1. 1 \in 1..3 /\ 2 \in 1..3 /\ 3 \in 1..3
    OBVIOUS
  <2> QED BY <1>5, <1>12, <2>1
<1> QED BY <1>1, <1>12, <1>13, <1>14, <1>15, <1>16 DEF InLines

(* A sequence with one element more.                                       *)
LEMMA LongerByOne ==
  ASSUME NEW s \in Seq(Int), NEW t \in Seq(Int), NEW x \in Int, NEW n \in Nat, NEW m \in Nat,
         Len(s) = n, Len(t) = m, m = n + 1, \A i \in 1..n : s[i] = t[i], t[m] = x
  PROVE  Append(s, x) = t
<1>1. Append(s, x) \in Seq(Int) /\ Len(Append(s, x)) = m
  OBVIOUS
<1>2. Append(s, x)[m] = x /\ \A i \in 1..n : Append(s, x)[i] = s[i]
  OBVIOUS
<1>3. \A i \in 1..m : i = m \/ i \in 1..n
  OBVIOUS
<1>4. \A i \in 1..m : Append(s, x)[i] = t[i]
  BY <1>2, <1>3
<1> QED BY <1>1, <1>4

(* The words told, as they get more.                                       *)
LEMMA ToldWords ==
  ASSUME NEW rs \in Int
  PROVE  /\ Append(<<>>, 3) = <<3>> /\ Append(<<3>>, 0) = <<3, 0>>
         /\ Append(<<3, 0>>, rs) = <<3, 0, rs>>
         /\ Len(<<>>) = 0 /\ Len(<<3>>) = 1 /\ Len(<<3, 0>>) = 2
<1>1. <<3>> \in Seq(Int) /\ <<3, 0>> \in Seq(Int) /\ <<3, 0, rs>> \in Seq(Int)
  OBVIOUS
<1>2. PICK s \in Seq(Int) : s = <<3>>
  BY <1>1, Zenon
<1>3. PICK t \in Seq(Int) : t = <<3, 0>>
  BY <1>1, Zenon
<1>4. PICK u \in Seq(Int) : u = <<3, 0, rs>>
  BY <1>1, Zenon
<1>5. PICK zero \in Int, one \in Nat, two \in Nat, three \in Nat :
        zero = 0 /\ one = 1 /\ two = 2 /\ three = 3
  OBVIOUS
<1>6. /\ Len(s) = one /\ Len(t) = two /\ Len(u) = three /\ t[two] = zero /\ u[three] = rs
      /\ two = one + 1 /\ three = two + 1
  BY <1>2, <1>3, <1>4, <1>5
<1>7. (\A i \in 1..one : s[i] = t[i]) /\ \A i \in 1..two : t[i] = u[i]
  BY <1>2, <1>3, <1>4, <1>5
<1>8. Append(s, zero) = t
  BY <1>6, <1>7, LongerByOne
<1>9. Append(t, rs) = u
  BY <1>6, <1>7, LongerByOne
<1>10. Append(<<>>, 3) = <<3>>
  OBVIOUS
<1>11. Len(<<>>) = 0 /\ Len(<<3>>) = 1 /\ Len(<<3, 0>>) = 2
  OBVIOUS
<1> QED BY <1>2, <1>3, <1>4, <1>5, <1>8, <1>9, <1>10, <1>11, Zenon

(* The AGC firmware, as it gets the table, and when it has it.             *)
AgcState == [status : Int, lut : Seq(Int), told : Seq(Int), waits : BOOLEAN]
Loading(g, status, lut) ==
  /\ g \in AgcState /\ g.status = status /\ g.lut = lut /\ g.told = <<>> /\ ~g.waits
Ready(g, status, lut, told) ==
  /\ g \in AgcState /\ Full(g) /\ g.status = status /\ g.lut = lut /\ g.told = told

(* What it makes of a value: another gain,                                 *)
LEMMA TakesGain ==
  ASSUME NEW g, NEW status, NEW lut, NEW v \in Int,
         Loading(g, status, lut), Len(lut) # LUT_MAX, v # 17
  PROVE  Loading(AgcTakes(g, v), 48 + Len(lut), Append(lut, v))
<1>0. g \in AgcState /\ g.lut = lut /\ g.told = <<>> /\ ~g.waits /\ ~Full(g)
  BY DEF Loading, Full
<1>1. Append(lut, v) \in Seq(Int) /\ 48 + Len(lut) \in Int
  BY <1>0 DEF AgcState
<1>2. AgcTakes(g, v) = [g EXCEPT !.lut = Append(g.lut, v), !.status = 48 + Len(g.lut)]
  BY <1>0 DEF AgcTakes, AGC_CMD_ABORT
<1>3. AgcTakes(g, v) = [g EXCEPT !.lut = Append(lut, v), !.status = 48 + Len(lut)]
  BY <1>0, <1>2
<1> QED BY <1>0, <1>1, <1>3 DEF Loading, AgcState

(* the ABORT that ends a table,                                            *)
LEMMA TakesAbort ==
  ASSUME NEW g, NEW status, NEW lut, Loading(g, status, lut), Len(lut) # LUT_MAX
  PROVE  Ready(AgcTakes(g, 17), 48, lut, <<>>)
<1>0. g \in AgcState /\ g.lut = lut /\ g.told = <<>> /\ ~g.waits /\ ~Full(g)
  BY DEF Loading, Full
<1>1. PICK z \in Int : z = 48
  OBVIOUS
<1>2. AgcTakes(g, 17) = [g EXCEPT !.waits = TRUE, !.status = z]
  BY <1>0, <1>1 DEF AgcTakes, AGC_CMD_ABORT
<1> QED BY <1>0, <1>1, <1>2 DEF Ready, Full, AgcState

(* or a word behind the table, which it keeps.                             *)
LEMMA TakesWord ==
  ASSUME NEW g, NEW status, NEW lut, NEW told, NEW v \in Int, NEW after, NEW words,
         Ready(g, status, lut, told),
         after = IF Len(told) = 2 THEN 64 ELSE 48 + v, words = Append(told, v)
  PROVE  Ready(AgcTakes(g, v), after, lut, words)
<1>0. g \in AgcState /\ g.lut = lut /\ g.told = told /\ Full(g)
  BY DEF Ready
<1>1. words \in Seq(Int) /\ after \in Int
  BY <1>0 DEF AgcState
<1>2. AgcTakes(g, v)
        = [g EXCEPT !.told = Append(g.told, v), !.status = IF Len(g.told) = 2 THEN 64 ELSE 48 + v]
  BY <1>0 DEF AgcTakes
<1>3. PICK z \in Int : z = after
  BY <1>1
<1>4. AgcTakes(g, v) = [g EXCEPT !.told = words, !.status = z]
  BY <1>0, <1>2, <1>3
<1>5. PICK h : h = AgcTakes(g, v)
  OBVIOUS
<1>6. h \in AgcState /\ h.status = z /\ h.lut = g.lut /\ h.told = words /\ h.waits = g.waits
  BY <1>0, <1>1, <1>4, <1>5 DEF AgcState
<1>7. Full(h)
  BY <1>0, <1>6 DEF Full
<1> QED BY <1>0, <1>3, <1>5, <1>6, <1>7 DEF Ready

(* The firmware before a line of the dialogue, if no line before has shown *)
(* that it missed one.  Only the ABORT behind a single gain is read back   *)
(* as the gain was.                                                        *)
AgcAt(i, g) ==
  LET n == Len(conf.lut) IN
  \/ i \in 1..n + 1 /\ Loading(g, IF i = 1 THEN 16 ELSE 46 + i, Loaded(i - 1))
  \/ /\ n < LUT_MAX /\ i = n + 2
     /\ Ready(g, 48, Loaded(n), <<>>) \/ (n = 1 /\ Loading(g, 48, Loaded(n)))
  \/ i = n + Aborts + 2 /\ Ready(g, 51, Loaded(n), <<3>>)
  \/ i = n + Aborts + 3 /\ Ready(g, 48, Loaded(n), <<3, 0>>)
AgcDone(g) == g.lut = Loaded(Len(conf.lut)) /\ g.told = <<3, 0, conf.radio_select>>

(* A line that is read back as expected has been heard, or will be missed  *)
(* at the next one.                                                        *)
LEMMA LineHeard ==
  ASSUME ChipAssumption, conf \in Confs, NEW i \in Nat, NEW g, AgcAt(i, g),
         NEW h \in {g, AgcTakes(g, Dialogue[i][1])}, h.status = Dialogue[i][2]
  PROVE  IF i = Len(Dialogue) THEN AgcDone(h) ELSE AgcAt(i + 1, h)
<1> DEFINE n == Len(conf.lut)
           a == Aborts
           rs == conf.radio_select
<1>1. LUT_MAX \in Nat /\ LUT_MAX >= 5 /\ n \in 1..LUT_MAX
        /\ \A k \in 1..n : Gain(k) \in Int /\ Gain(k) # 17
  BY GainsAreNoCommand DEF AGC_CMD_ABORT
<1>2. /\ Len(Dialogue) = n + a + 3
      /\ \A k \in 1..n : Dialogue[k] = <<Gain(k), 47 + k>>
      /\ a = 1 => Dialogue[n + 1] = <<17, 48>>
      /\ Dialogue[n + a + 1] = <<3, 51>> /\ Dialogue[n + a + 2] = <<0, 48>>
      /\ Dialogue[n + a + 3] = <<rs, 64>>
  <2>1. InLines(n, a)
    BY Lines
  <2> HIDE DEF n, a
  <2> QED BY <2>1 DEF InLines
<1>3. (a = 1 /\ n < LUT_MAX) \/ (a = 0 /\ n = LUT_MAX)
  BY <1>1 DEF Aborts
<1>4. Len(Loaded(n)) = n
  BY <1>1, LoadsNext
<1> HIDE DEF n, a, rs
<1>b. rs \in Int
  BY GainsAreNoCommand DEF rs
<1>5. ASSUME i \in 1..n, Loading(g, IF i = 1 THEN 16 ELSE 46 + i, Loaded(i - 1))
      PROVE  i # Len(Dialogue) /\ AgcAt(i + 1, h)
  <2>1. Dialogue[i][1] = Gain(i) /\ Dialogue[i][2] = 47 + i /\ Gain(i) # 17 /\ Gain(i) \in Int
    BY <1>1, <1>2, <1>5
  <2>2. g.status # 47 + i
    BY <1>1, <1>5 DEF Loading
  <2>3. h = AgcTakes(g, Gain(i))
    BY <2>1, <2>2
  <2>4. PICK k \in Nat : k = i - 1 /\ i = k + 1 /\ k <= n /\ i <= n /\ k # LUT_MAX
    BY <1>1, <1>5
  <2>5. Len(Loaded(k)) = k /\ Append(Loaded(k), Gain(i)) = Loaded(i)
    BY <2>4, LoadsNext DEF n
  <2>6. Loading(g, IF i = 1 THEN 16 ELSE 46 + i, Loaded(k))
    BY <1>5, <2>4
  <2>7. Loading(h, 48 + Len(Loaded(k)), Append(Loaded(k), Gain(i)))
    BY <2>1, <2>3, <2>4, <2>5, <2>6, TakesGain
  <2>8. Loading(h, 48 + k, Loaded(i))
    BY <2>5, <2>7
  <2>9. PICK m \in Nat : m = i + 1 /\ m - 1 = i /\ m # 1 /\ m \in 1..n + 1 /\ 48 + k = 46 + m
                         /\ i # n + a + 3
    BY <1>1, <1>3, <1>5, <2>4
  <2>10. AgcAt(m, h)
    BY <2>8, <2>9 DEF AgcAt, n
  <2> QED BY <1>2, <2>9, <2>10
<1>6. ASSUME i = n + 1, a = 1, Loading(g, IF i = 1 THEN 16 ELSE 46 + i, Loaded(i - 1))
      PROVE  i # Len(Dialogue) /\ AgcAt(i + 1, h)
  <2>1. Dialogue[i][1] = 17 /\ Dialogue[i][2] = 48
    BY <1>2, <1>6
  <2>a. i - 1 = n /\ i # 1 /\ 46 + i = 47 + n
        /\ i # n + a + 3 /\ i + 1 = n + 2 /\ n < LUT_MAX /\ n # LUT_MAX
    BY <1>1, <1>3, <1>6
  <2>2. Loading(g, 47 + n, Loaded(n)) /\ g.status = 47 + n
    BY <1>6, <2>a DEF Loading
  <2>3. Ready(AgcTakes(g, 17), 48, Loaded(n), <<>>)
    BY <1>4, <2>a, <2>2, TakesAbort
  <2>4. Ready(h, 48, Loaded(n), <<>>) \/ (n = 1 /\ Loading(h, 48, Loaded(n)))
    <3>1. CASE h = g
      <4>1. 47 + n = 48
        BY <2>1, <2>2, <3>1
      <4>2. n = 1
        BY <1>1, <4>1
      <4> QED BY <2>2, <3>1, <4>1, <4>2
    <3>2. CASE h # g
      BY <2>1, <2>3, <3>2
    <3> QED BY <3>1, <3>2
  <2>5. AgcAt(n + 2, h)
    BY <2>a, <2>4 DEF AgcAt, n
  <2> QED BY <1>2, <2>a, <2>5
<1>c. ASSUME Ready(g, g.status, Loaded(n), <<>>), g.status # 51, i = n + a + 1
      PROVE  i # Len(Dialogue) /\ AgcAt(i + 1, h)
  <2>a. i # n + a + 3 /\ i + 1 = n + a + 2
    BY <1>1, <1>3, <1>c
  <2>1. Dialogue[i][1] = 3 /\ Dialogue[i][2] = 51
    BY <1>2, <1>c
  <2>b. PICK v \in Int : v = 3
    OBVIOUS
  <2>2. h = AgcTakes(g, v)
    BY <1>c, <2>1, <2>b
  <2>3. <<3>> = Append(<<>>, v) /\ 51 = IF Len(<<>>) = 2 THEN 64 ELSE 48 + v
    BY <1>b, <2>b, ToldWords
  <2>4. Ready(h, 51, Loaded(n), <<3>>)
    BY <1>c, <2>2, <2>3, TakesWord
  <2>5. AgcAt(n + a + 2, h)
    BY <2>4 DEF AgcAt, n, a
  <2> QED BY <1>2, <2>a, <2>5
<1>7. ASSUME i = n + 1, a = 0, Loading(g, IF i = 1 THEN 16 ELSE 46 + i, Loaded(i - 1))
      PROVE  i # Len(Dialogue) /\ AgcAt(i + 1, h)
  <2>1. i - 1 = n /\ i # 1 /\ 46 + i # 51 /\ i = n + a + 1 /\ n = LUT_MAX
    BY <1>1, <1>3, <1>7
  <2>2. g.status # 51 /\ Ready(g, g.status, Loaded(n), <<>>)
    BY <1>4, <1>7, <2>1 DEF Loading, Ready, Full
  <2> QED BY <1>c, <2>1, <2>2
<1>8. ASSUME a = 1, i = n + 2,
             Ready(g, 48, Loaded(n), <<>>) \/ (n = 1 /\ Loading(g, 48, Loaded(n)))
      PROVE  i # Len(Dialogue) /\ AgcAt(i + 1, h)
  <2>1. i = n + a + 1 /\ n # LUT_MAX /\ g.status = 48
    BY <1>1, <1>3, <1>8 DEF Loading, Ready
  <2>2. ASSUME n = 1, Loading(g, 48, Loaded(n)) PROVE FALSE
    <3>1. Dialogue[i][1] = 3 /\ Dialogue[i][2] = 51
      BY <1>2, <2>1
    <3>a. PICK v \in Int : v = 3 /\ v # 17
      OBVIOUS
    <3>2. h = AgcTakes(g, v)
      BY <2>1, <3>1, <3>a
    <3>3. Loading(h, 48 + Len(Loaded(n)), Append(Loaded(n), v))
      BY <1>4, <2>1, <2>2, <3>2, <3>a, TakesGain
    <3>4. h.status = 48 + 1
      BY <1>4, <2>2, <3>3 DEF Loading
    <3> QED BY <3>1, <3>4
  <2>3. Ready(g, g.status, Loaded(n), <<>>)
    BY <1>8, <2>1, <2>2
  <2> QED BY <1>c, <2>1, <2>3
<1>9. ASSUME i = n + a + 2, Ready(g, 51, Loaded(n), << 3 >>)
      PROVE  i # Len(Dialogue) /\ AgcAt(i + 1, h)
  <2>a. i # n + a + 3 /\ i + 1 = n + a + 3
    BY <1>1, <1>3, <1>9
  <2>1. Dialogue[i][1] = 0 /\ Dialogue[i][2] = 48
    BY <1>2, <1>9
  <2>b. PICK v \in Int : v = 0
    OBVIOUS
  <2>2. h = AgcTakes(g, v)
    BY <1>9, <2>1, <2>b DEF Ready
  <2>3. <<3, 0>> = Append(<<3>>, v) /\ 48 = IF Len(<<3>>) = 2 THEN 64 ELSE 48 + v
    BY <1>b, <2>b, ToldWords
  <2>4. Ready(h, 48, Loaded(n), <<3, 0>>)
    BY <1>9, <2>2, <2>3, TakesWord
  <2>5. AgcAt(n + a + 3, h)
    BY <2>4 DEF AgcAt, n, a
  <2> QED BY <1>2, <2>a, <2>5
<1>10. ASSUME i = n + a + 3, Ready(g, 48, Loaded(n), <<3, 0>>)
       PROVE  i = Len(Dialogue) /\ AgcDone(h)
  <2>1. Dialogue[i][1] = rs /\ Dialogue[i][2] = 64
    BY <1>2, <1>10
  <2>2. h = AgcTakes(g, rs)
    BY <1>10, <2>1 DEF Ready
  <2>3. <<3, 0, rs>> = Append(<<3, 0>>, rs) /\ 64 = IF Len(<<3, 0>>) = 2 THEN 64 ELSE 48 + rs
    BY <1>b, ToldWords
  <2>4. Ready(h, 64, Loaded(n), <<3, 0, rs>>)
    BY <1>10, <1>b, <2>2, <2>3, TakesWord
  <2> QED BY <1>2, <1>10, <2>4 DEF AgcDone, Ready, n, rs
<1>11. CASE i \in 1..n + 1 /\ Loading(g, IF i = 1 THEN 16 ELSE 46 + i, Loaded(i - 1))
  <2>1. i \in 1..n \/ (i = n + 1 /\ a = 1) \/ (i = n + 1 /\ a = 0)
    BY <1>1, <1>3, <1>11
  <2> QED BY <1>5, <1>6, <1>7, <1>11, <2>1
<1>12. CASE n < LUT_MAX /\ i = n + 2
            /\ (Ready(g, 48, Loaded(n), <<>>) \/ (n = 1 /\ Loading(g, 48, Loaded(n))))
  <2>1. a = 1
    BY <1>1, <1>3, <1>12
  <2> QED BY <1>8, <1>12, <2>1
<1>13. CASE i = n + a + 2 /\ Ready(g, 51, Loaded(n), <<3>>)
  BY <1>9, <1>13
<1>14. CASE i = n + a + 3 /\ Ready(g, 48, Loaded(n), <<3, 0>>)
  BY <1>10, <1>14
<1> QED BY <1>11, <1>12, <1>13, <1>14 DEF AgcAt, n, a

(* What lgw_start knows of the chip behind the radios.                     *)
FirmwareInv ==
  /\ step[1] \in {"load", "gain", "started"} => peaks = lgw_constant_adjust
  /\ step[1] \in {"gain", "started"} => Running(mcu["AGC"]) = "agc" /\ Running(mcu["ARB"]) = "arb"
  /\ \A i : step = <<"gain", i>> => i \in Nat /\ AgcAt(i, agc)
  /\ step = <<"started">> => AgcDone(agc)

(* An empty table, and a firmware out of reset.                            *)
LEMMA FirmwareWakes ==
  ASSUME ChipAssumption, conf \in Confs, NEW g,
         g = [status |-> 16, lut |-> <<>>, told |-> <<>>, waits |-> FALSE]
  PROVE  AgcAt(1, g)
<1>1. Loaded(0) = <<>>
  BY DEF Loaded
<1>2. <<>> \in Seq(Int)
  OBVIOUS
<1>3. PICK z \in Int : z = 16
  OBVIOUS
<1>4. g \in AgcState /\ g.status = z /\ g.lut = <<>> /\ g.told = <<>> /\ ~g.waits
  BY <1>2, <1>3 DEF AgcState
<1>5. Loading(g, 16, Loaded(0))
  BY <1>1, <1>3, <1>4 DEF Loading
<1>6. 1 \in 1..Len(conf.lut) + 1 /\ 1 - 1 = 0
  BY GainsAreNoCommand
<1> QED BY <1>5, <1>6 DEF AgcAt

(* Before the firmware is loaded there is nothing to know.                 *)
LEMMA NothingYet ==
  ASSUME NEW place,
         \/ place \in {<<"adjust">>, <<"failed">>}
         \/ \E i : place = <<"setup", i>> \/ place = <<"lock", i>>
  PROVE  /\ place[1] \notin {"load", "gain", "started"}
         /\ place # <<"started">> /\ \A i : place # <<"gain", i>>
OBVIOUS

(* It holds at the start and after every step.                             *)
LEMMA FirmwareInvariant == ASSUME ChipAssumption PROVE ChipSpec => []FirmwareInv
<1>1. ChipInit => FirmwareInv
  BY NothingYet DEF ChipInit, FirmwareInv
<1>2. RadioInv /\ FirmwareInv /\ [ChipNext]_chipVars => FirmwareInv'
  <2> SUFFICES ASSUME RadioInv, FirmwareInv, [ChipNext]_chipVars PROVE FirmwareInv'
    OBVIOUS
  <2>0. conf \in Confs
    BY DEF RadioInv
  <2>a. ASSUME \/ step' \in {<<"adjust">>, <<"failed">>}
               \/ \E i : step' = <<"setup", i>> \/ step' = <<"lock", i>>
        PROVE  FirmwareInv'
    BY <2>a, NothingYet DEF FirmwareInv
  <2>b. ASSUME conf' = conf, step' = step, mcu' = mcu, peaks' = peaks, agc' = agc
        PROVE  FirmwareInv'
    <3>1. lgw_constant_adjust' = lgw_constant_adjust
      BY <2>b DEF lgw_constant_adjust
    <3>2. AgcDone(agc) => AgcDone(agc)'
      BY <2>b DEF AgcDone, Loaded, Gain
    <3>3. ASSUME NEW i, AgcAt(i, agc) PROVE AgcAt(i, agc)'
      BY <2>b, <3>3 DEF AgcAt, Loaded, Gain, Aborts
    <3> QED BY <2>b, <3>1, <3>2, <3>3 DEF FirmwareInv
  <2>1. ASSUME NEW c \in Chains, setup_sx125x(c) PROVE FirmwareInv'
    BY <2>1, <2>a DEF setup_sx125x
  <2>2. ASSUME NEW c \in Chains, TryLock(c) PROVE FirmwareInv'
    <3>1. step' = step \/ step' = <<"setup", c + 1>>
      BY <2>2 DEF TryLock
    <3>2. step = <<"lock", c>>
      BY <2>2 DEF TryLock
    <3> QED BY <2>a, <3>1, <3>2
  <2>3. ASSUME NEW c \in Chains, LockFails(c) PROVE FirmwareInv'
    BY <2>3, <2>a DEF LockFails
  <2>4. CASE Calibrate
    <3>1. step' \in {<<"adjust">>, <<"failed">>}
      BY <2>4 DEF Calibrate
    <3> QED BY <2>a, <3>1
  <2>5. CASE Adjust
    <3>1. step' = <<"load">> /\ peaks' = lgw_constant_adjust /\ conf' = conf
      BY <2>5 DEF Adjust
    <3>2. step'[1] = "load" /\ step' # <<"started">> /\ \A i : step' # <<"gain", i>>
      BY <3>1
    <3>3. peaks' = lgw_constant_adjust'
      BY <3>1 DEF lgw_constant_adjust
    <3> QED BY <3>2, <3>3 DEF FirmwareInv
  <2>6. CASE LoadFirmware
    <3>1. \/ step' = <<"failed">>
          \/ step' = <<"gain", 1>> /\ Running(mcu'["AGC"]) = "agc" /\ Running(mcu'["ARB"]) = "arb"
      BY <2>6 DEF LoadFirmware
    <3>2. step = <<"load">> /\ conf' = conf /\ peaks' = peaks
          /\ agc' = [status |-> 16, lut |-> <<>>, told |-> <<>>, waits |-> FALSE]
      BY <2>6 DEF LoadFirmware
    <3>3. ASSUME step' = <<"gain", 1>>, Running(mcu'["AGC"]) = "agc", Running(mcu'["ARB"]) = "arb"
          PROVE  FirmwareInv'
      <4>1. AgcAt(1, agc')
        BY <2>0, <3>2, FirmwareWakes
      <4>2. AgcAt(1, agc)'
        BY <3>2, <4>1 DEF AgcAt, Loaded, Gain, Aborts
      <4>3. peaks' = lgw_constant_adjust'
        BY <3>2 DEF FirmwareInv, lgw_constant_adjust
      <4>4. step' # <<"started">> /\ \A i : step' = <<"gain", i>> => i = 1
        BY <3>3
      <4> QED BY <3>3, <4>2, <4>3, <4>4 DEF FirmwareInv
    <3> QED BY <2>a, <3>1, <3>3
  <2>7. ASSUME NEW i \in 1..(LUT_MAX + 4), Tell(i) PROVE FirmwareInv'
    <3>1. step = <<"gain", i>> /\ agc' \in {agc, AgcTakes(agc, Dialogue[i][1])}
          /\ conf' = conf /\ peaks' = peaks /\ mcu' = mcu
      BY <2>7 DEF Tell, AgcHears
    <3>2. step' = IF agc'.status # Dialogue[i][2] THEN <<"failed">>
                  ELSE IF i = Len(Dialogue) THEN <<"started">> ELSE <<"gain", i + 1>>
      BY <2>7 DEF Tell
    <3>3. i \in Nat /\ AgcAt(i, agc)
      BY <3>1 DEF FirmwareInv
    <3>4. /\ step[1] = "gain" /\ peaks = lgw_constant_adjust
          /\ Running(mcu["AGC"]) = "agc" /\ Running(mcu["ARB"]) = "arb"
      BY <3>1 DEF FirmwareInv
    <3>5. /\ peaks' = lgw_constant_adjust'
          /\ Running(mcu'["AGC"]) = "agc" /\ Running(mcu'["ARB"]) = "arb"
      BY <3>1, <3>4 DEF lgw_constant_adjust
    <3>6. CASE agc'.status # Dialogue[i][2]
      BY <2>a, <3>2, <3>6
    <3>7. CASE agc'.status = Dialogue[i][2] /\ i = Len(Dialogue)
      <4>1. AgcDone(agc')
        BY <2>0, <3>1, <3>3, <3>7, LineHeard
      <4>2. AgcDone(agc)'
        BY <3>1, <4>1 DEF AgcDone, Loaded, Gain
      <4>3. step' = <<"started">> /\ \A j : step' # <<"gain", j>>
        BY <3>2, <3>7
      <4> QED BY <3>5, <4>2, <4>3 DEF FirmwareInv
    <3>8. CASE agc'.status = Dialogue[i][2] /\ i # Len(Dialogue)
      <4>1. AgcAt(i + 1, agc')
        BY <2>0, <3>1, <3>3, <3>8, LineHeard
      <4>2. AgcAt(i + 1, agc)'
        BY <3>1, <4>1 DEF AgcAt, Loaded, Gain, Aborts
      <4>3. step' = <<"gain", i + 1>> /\ step' # <<"started">>
            /\ (\A j : step' = <<"gain", j>> => j = i + 1) /\ i + 1 \in Nat
        BY <3>2, <3>3, <3>8
      <4> QED BY <3>5, <4>2, <4>3 DEF FirmwareInv
    <3> QED BY <3>6, <3>7, <3>8
  <2>8. CASE SendPacket \/ UNCHANGED chipVars
    BY <2>8, <2>b DEF SendPacket, chipVars
  <2> QED BY <2>1, <2>2, <2>3, <2>4, <2>5, <2>6, <2>7, <2>8 DEF ChipNext
<1> QED BY <1>1, <1>2, RadioInvariant, PTL DEF ChipSpec

(* A start that has not failed leaves the chip as configured: the radios   *)
(* set up and tuned, one sync word, the firmware in its place and its gain *)
(* table whole, however slow the firmware and the PLLs are and for every   *)
(* configuration and size of the table: lgw_start, setup_sx125x.           *)
THEOREM StartLeavesChipReady ==
  ASSUME ChipAssumption PROVE ChipSpec => []ChipReady
<1>1. RadioInv => Tuned
  <2> SUFFICES ASSUME RadioInv PROVE Tuned
    OBVIOUS
  <2>1. conf.clkout \in Chains
    BY DEF RadioInv, ChipAssumption
  <2>2. ASSUME NEW c \in Chains, ret[c] # 1 PROVE SetFor(c, radio[c], ret[c])
    BY <2>2 DEF RadioInv, Turn
  <2>3. ASSUME NEW c \in Chains, ret[c] = 0
        PROVE  IF conf.enable[c]
               THEN /\ radio[c].regs[17] = 2 /\ radio[c].regs[0] = 3
                    /\ Near(conf.type[c], [i \in 1..3 |-> radio[c].regs[i]], conf.freq_hz[c])
               ELSE radio[c].regs[0] = 0
    <3>1. SetFor(c, radio[c], ret[c])
      BY <2>2, <2>3
    <3> QED BY <2>3, <3>1 DEF SetFor
  <2>4. ASSUME \A c \in Chains : ret[c] # 1
        PROVE  {c \in Chains : radio[c].regs[16] = 3} = {conf.clkout}
    <3>1. \A c \in Chains : radio[c].regs[16] = 1 + (IF conf.clkout = c THEN 2 ELSE 0)
      BY <2>2, <2>4 DEF SetFor
    <3>2. \A c \in Chains : radio[c].regs[16] = 3 <=> conf.clkout = c
      BY <3>1
    <3> QED BY <2>1, <3>2
  <2> QED BY <2>3, <2>4 DEF Tuned
<1>2. FirmwareInv => SameNetwork
  <2> SUFFICES ASSUME FirmwareInv PROVE SameNetwork
    OBVIOUS
  <2>1. ASSUME step[1] \in {"load", "gain", "started"}
        PROVE  peaks["TX"] = peaks["RX"] /\ peaks["TX"] = peaks["MBWSSF"]
                 /\ peaks["TX"] = (IF conf.lorawan_public THEN <<3, 4>> ELSE <<1, 2>>)
    <3>1. peaks = lgw_constant_adjust
      BY <2>1 DEF FirmwareInv
    <3> DEFINE word == IF conf.lorawan_public THEN <<3, 4>> ELSE <<1, 2>>
    <3>2. peaks = [d \in {"RX", "MBWSSF", "TX"} |-> word]
      BY <3>1 DEF lgw_constant_adjust
    <3> HIDE DEF word
    <3>3. peaks["TX"] = word /\ peaks["RX"] = word /\ peaks["MBWSSF"] = word
      BY <3>2
    <3> QED BY <3>3 DEF word
  <2>2. step[1] = "started" => Running(mcu["AGC"]) = "agc" /\ Running(mcu["ARB"]) = "arb"
    BY DEF FirmwareInv
  <2> QED BY <2>1, <2>2 DEF SameNetwork
<1>3. RadioInv /\ FirmwareInv => AgcHasTable
  <2> SUFFICES ASSUME RadioInv, FirmwareInv, step[1] = "started"
               PROVE  /\ agc.lut = [i \in DOMAIN conf.lut |-> load_val(conf.lut[i])]
                      /\ agc.told = <<3, 0, conf.radio_select>>
    BY DEF AgcHasTable
  <2>1. step = <<"started">>
    BY DEF RadioInv, Places
  <2>2. AgcDone(agc) /\ DOMAIN conf.lut = 1..Len(conf.lut)
    BY <2>1, GainsAreNoCommand DEF FirmwareInv, RadioInv
  <2> QED BY <2>2 DEF AgcDone, Loaded, Gain
<1>4. RadioInv /\ FirmwareInv => ChipReady
  BY <1>1, <1>2, <1>3 DEF ChipReady
<1> QED BY <1>4, RadioInvariant, FirmwareInvariant, PTL

-----------------------------------------------------------------------------
(* A byte.                                                                 *)
IsByte(n) == n \in Int /\ 0 <= n /\ n < 256

(* What is left of a number after division by 256.                         *)
LEMMA LowByte ==
  ASSUME NEW n \in Int PROVE IsByte(n % 256) /\ n \div 256 \in Int
BY DEF IsByte

(* A list of n bytes; it begins with those of another, or has them after   *)
(* its first n.                                                            *)
ByteList(w, n) ==
  w \in Seq(Int) /\ Len(w) = n /\ \A i \in Nat : 1 <= i /\ i <= n => IsByte(w[i])
Begins(w, u, n) == \A i \in Nat : 1 <= i /\ i <= n => w[i] = u[i]
Follows(w, t, n, m) == \A i \in Nat : 1 <= i /\ i <= m => w[n + i] = t[i]

(* Two lists one after the other have the cells of both.                   *)
LEMMA CellsOfTwo ==
  ASSUME NEW u, NEW t, NEW n \in Nat, NEW m \in Nat, NEW k, k = n + m,
         ByteList(u, n), ByteList(t, m)
  PROVE  ByteList(u \o t, k) /\ Begins(u \o t, u, n) /\ Follows(u \o t, t, n, m)
<1>1. PICK w : w = u \o t
  OBVIOUS
<1>2. u \in Seq(Int) /\ t \in Seq(Int) /\ Len(u) = n /\ Len(t) = m
  BY DEF ByteList
<1>3. Joins(w, u, t, Int)
  BY <1>1, <1>2, AfterEachOther
<1>4. w \in Seq(Int) /\ Len(w) = k
  BY <1>2, <1>3 DEF Joins
<1>5. Begins(w, u, n)
  BY <1>2, <1>3 DEF Joins, Begins
<1>6. Follows(w, t, n, m)
  BY <1>2, <1>3 DEF Joins, Follows
<1>7. ASSUME NEW i \in Nat, 1 <= i, i <= k PROVE IsByte(w[i])
  <2>1. CASE i <= n
    <3>1. IsByte(u[i])
      BY <1>7, <2>1 DEF ByteList
    <3> QED BY <1>5, <1>7, <2>1, <3>1 DEF Begins
  <2>2. CASE ~(i <= n)
    <3>1. PICK j \in Nat : j = i - n /\ 1 <= j /\ j <= m /\ n + j = i
      BY <1>7, <2>2
    <3>2. IsByte(t[j])
      BY <3>1 DEF ByteList
    <3>3. w[n + j] = t[j]
      BY <1>6, <3>1 DEF Follows
    <3> QED BY <3>1, <3>2, <3>3
  <2> QED BY <2>1, <2>2
<1>8. ByteList(w, k)
  BY <1>4, <1>7 DEF ByteList
<1> QED BY <1>1, <1>5, <1>6, <1>8, Zenon

(* A list of two bytes,                                                    *)
LEMMA TwoOfThem ==
  ASSUME NEW h, NEW l, IsByte(h), IsByte(l), NEW w, w = <<h, l>>
  PROVE  ByteList(w, 2) /\ w[1] = h /\ w[2] = l
<1>1. h \in Int /\ l \in Int
  BY DEF IsByte
<1>2. w \in Seq(Int) /\ Len(w) = 2 /\ w[1] = h /\ w[2] = l
  BY <1>1
<1>3. \A i \in Nat : 1 <= i /\ i <= 2 => i = 1 \/ i = 2
  OBVIOUS
<1> QED BY <1>2, <1>3 DEF ByteList

(* of three,                                                               *)
LEMMA ThreeOfThem ==
  ASSUME NEW h, NEW l, NEW k, IsByte(h), IsByte(l), IsByte(k), NEW w, w = <<h, l, k>>
  PROVE  ByteList(w, 3) /\ w[1] = h /\ w[2] = l /\ w[3] = k
<1>1. h \in Int /\ l \in Int /\ k \in Int
  BY DEF IsByte
<1>2. w \in Seq(Int) /\ Len(w) = 3 /\ w[1] = h /\ w[2] = l /\ w[3] = k
  BY <1>1
<1>3. \A i \in Nat : 1 <= i /\ i <= 3 => i = 1 \/ i = 2 \/ i = 3
  OBVIOUS
<1> QED BY <1>2, <1>3 DEF ByteList

(* and what is said of one elsewhere.                                      *)
LEMMA AsBytes ==
  ASSUME NEW w, NEW n \in Nat, ByteList(w, n)
  PROVE  Len(w) = n /\ \A i \in DOMAIN w : w[i] \in 0..255
<1>1. Len(w) = n /\ DOMAIN w = 1..n /\ \A i \in Nat : 1 <= i /\ i <= n => IsByte(w[i])
  BY DEF ByteList
<1>2. ASSUME NEW i \in 1..n PROVE w[i] \in 0..255
  <2>1. IsByte(w[i])
    BY <1>1
  <2> QED BY <2>1 DEF IsByte
<1> QED BY <1>1, <1>2

(* The cells of six lists, each after those before it.                     *)
OneByOne(u, v, w, x, y, z, c, d, e, f, b) ==
  /\ Begins(c, u, 3)  /\ Follows(c, v, 3, 4)  /\ Begins(d, c, 7) /\ Follows(d, w, 7, 2)
  /\ Begins(e, d, 9)  /\ Follows(e, x, 9, 3)  /\ Begins(f, e, 12) /\ Follows(f, y, 12, 2)
  /\ Begins(b, f, 14) /\ Follows(b, z, 14, 2)
SixCells(b, u, v, w, x, y, z) ==
  /\ b[1] = u[1] /\ b[2] = u[2] /\ b[3] = u[3]
  /\ b[4] = v[1] /\ b[5] = v[2] /\ b[6] = v[3] /\ b[7] = v[4]
  /\ b[8] = w[1] /\ b[9] = w[2]
  /\ b[10] = x[1] /\ b[11] = x[2] /\ b[12] = x[3]
  /\ b[13] = y[1] /\ b[14] = y[2] /\ b[15] = z[1] /\ b[16] = z[2]

(* So there are sixteen of them.                                           *)
LEMMA CellsOfSix ==
  ASSUME NEW u, NEW v, NEW w, NEW x, NEW y, NEW z, NEW c, NEW d, NEW e, NEW f, NEW b,
         OneByOne(u, v, w, x, y, z, c, d, e, f, b)
  PROVE  SixCells(b, u, v, w, x, y, z)
BY DEF OneByOne, SixCells, Begins, Follows

(* Six lists one after another, as in the metadata of a packet.            *)
LEMMA SixLists ==
  ASSUME NEW u, NEW v, NEW w, NEW x, NEW y, NEW z, ByteList(u, 3), ByteList(v, 4),
         ByteList(w, 2), ByteList(x, 3), ByteList(y, 2), ByteList(z, 2)
  PROVE  \E b : /\ b = u \o v \o w \o x \o y \o z /\ ByteList(b, 16)
                /\ SixCells(b, u, v, w, x, y, z)
<1> DEFINE c == u \o v
           d == c \o w
           e == d \o x
           f == e \o y
           b == f \o z
<1>1. ByteList(c, 7) /\ Begins(c, u, 3) /\ Follows(c, v, 3, 4)
  <2>1. 3 \in Nat /\ 4 \in Nat /\ 7 = 3 + 4
    OBVIOUS
  <2> QED BY <2>1, CellsOfTwo, Zenon
<1> HIDE DEF c
<1>2. ByteList(d, 9) /\ Begins(d, c, 7) /\ Follows(d, w, 7, 2)
  <2>1. 7 \in Nat /\ 2 \in Nat /\ 9 = 7 + 2
    OBVIOUS
  <2> QED BY <1>1, <2>1, CellsOfTwo, Zenon
<1> HIDE DEF d
<1>3. ByteList(e, 12) /\ Begins(e, d, 9) /\ Follows(e, x, 9, 3)
  <2>1. 9 \in Nat /\ 3 \in Nat /\ 12 = 9 + 3
    OBVIOUS
  <2> QED BY <1>2, <2>1, CellsOfTwo, Zenon
<1> HIDE DEF e
<1>4. ByteList(f, 14) /\ Begins(f, e, 12) /\ Follows(f, y, 12, 2)
  <2>1. 12 \in Nat /\ 2 \in Nat /\ 14 = 12 + 2
    OBVIOUS
  <2> QED BY <1>3, <2>1, CellsOfTwo, Zenon
<1> HIDE DEF f
<1>5. ByteList(b, 16) /\ Begins(b, f, 14) /\ Follows(b, z, 14, 2)
  <2>1. 14 \in Nat /\ 2 \in Nat /\ 16 = 14 + 2
    OBVIOUS
  <2> QED BY <1>4, <2>1, CellsOfTwo, Zenon
<1>6. b = u \o v \o w \o x \o y \o z
  BY Zenon DEF c, d, e, f
<1> HIDE DEF b
<1>7. OneByOne(u, v, w, x, y, z, c, d, e, f, b)
  BY <1>1, <1>2, <1>3, <1>4, <1>5, Zenon DEF OneByOne
<1>8. SixCells(b, u, v, w, x, y, z)
  BY <1>7, CellsOfSix, Zenon
<1> QED BY <1>5, <1>6, <1>8, Zenon

(* What a packet to be sent is made of.                                    *)
LEMMA PacketFields ==
  ASSUME PacketAssumption, NEW p \in Pkts
  PROVE  /\ p.freq_hz \in Nat /\ p.rf_chain \in {0, 1} /\ p.rf_power \in Int
         /\ p.count_us \in Uint16 \X Uint16 /\ p.no_crc \in BOOLEAN
         /\ p.preamble \in Uint16 /\ p.size \in 0..255
         /\ IF IsLora(p)
            THEN /\ p.datarate \in 7..12 /\ p.coderate \in 1..4 /\ p.bandwidth \in {125, 250, 500}
                 /\ p.no_header \in BOOLEAN /\ p.invert_pol \in BOOLEAN
            ELSE p.datarate \in FskRates /\ p.f_dev \in 1..200
<1>1. CASE p \in LoraAccepted
  <2>1. p.modulation = "LORA"
    BY <1>1 DEF LoraAccepted
  <2> QED BY <1>1, <2>1 DEF LoraAccepted, IsLora, Chains
<1>2. CASE p \in FskAccepted
  <2>1. p.modulation = "FSK"
    BY <1>2 DEF FskAccepted
  <2> QED BY <1>2, <2>1 DEF FskAccepted, IsLora, Chains
<1> QED BY <1>1, <1>2 DEF PacketAssumption

(* A word of 16 bits is cut in bytes and put together again.               *)
LEMMA BytesOfWord ==
  ASSUME NEW w \in Uint16
  PROVE  \E h, l : TwoBytes(w) = <<h, l>> /\ IsByte(h) /\ IsByte(l) /\ (h * 256) + l = w
<1> DEFINE h == w \div 256
           l == w % 256
<1>1. w \in Int /\ 0 <= w /\ w < 65536
  BY SMT DEF Uint16
<1>2. IsByte(h) /\ IsByte(l) /\ (h * 256) + l = w
  BY <1>1, SMT DEF IsByte
<1>3. TwoBytes(w) = <<h, l>>
  BY DEF TwoBytes
<1> HIDE DEF h, l
<1> QED BY <1>2, <1>3

(* The time a packet is to be sent, less the delay, is told from its bytes.*)
LEMMA TimeOfTrigger ==
  ASSUME NEW p, p.count_us \in Uint16 \X Uint16,
         NEW t1, NEW t2, t1 = count_trig(p)[1], t2 = count_trig(p)[2]
  PROVE  /\ t1 \in Uint16 /\ t2 \in Uint16
         /\ p.count_us = <<(t1 + ((t2 + TX_START_DELAY) \div 65536)) % 65536,
                           (t2 + TX_START_DELAY) % 65536>>
<1>1. PICK c1 \in Int, c2 \in Int : /\ p.count_us = <<c1, c2>>
                                     /\ 0 <= c1 /\ c1 < 65536 /\ 0 <= c2 /\ c2 < 65536
  BY SMT DEF Uint16
<1>2. count_trig(p) = <<(c1 - Bit(c2 < 1500, 1)) % 65536, (c2 - 1500) % 65536>>
  <2>1. PICK u : u = p.count_us /\ u[1] = c1 /\ u[2] = c2
    BY <1>1
  <2> QED BY <2>1, SMT DEF count_trig, TX_START_DELAY
<1>3. CASE c2 < 1500
  <2>1. t2 = (c2 - 1500) % 65536 /\ t1 = (c1 - 1) % 65536
    BY <1>2, <1>3, SMT DEF Bit
  <2>2. t2 = c2 - 1500 + 65536
    BY <1>1, <1>3, <2>1, SMT
  <2>3. (t2 + 1500) \div 65536 = 1 /\ (t2 + 1500) % 65536 = c2
    BY <1>1, <1>3, <2>2, SMT
  <2>4. t1 \in Int /\ 0 <= t1 /\ t1 < 65536 /\ (t1 + 1) % 65536 = c1
    BY <1>1, <2>1, SMT
  <2>5. t1 \in Uint16 /\ t2 \in Uint16
    BY <1>1, <1>3, <2>2, <2>4, SMT DEF Uint16
  <2> QED BY <1>1, <2>3, <2>4, <2>5 DEF TX_START_DELAY
<1>4. CASE ~(c2 < 1500)
  <2>1. t2 = (c2 - 1500) % 65536 /\ t1 = (c1 - 0) % 65536
    BY <1>2, <1>4, SMT DEF Bit
  <2>2. t2 = c2 - 1500
    BY <1>1, <1>4, <2>1, SMT
  <2>3. (t2 + 1500) \div 65536 = 0 /\ (t2 + 1500) % 65536 = c2
    BY <1>1, <1>4, <2>2, SMT
  <2>4. t1 = c1 /\ (t1 + 0) % 65536 = c1
    BY <1>1, <2>1, SMT
  <2>5. t1 \in Uint16 /\ t2 \in Uint16
    BY <1>1, <1>4, <2>2, <2>4, SMT DEF Uint16
  <2> QED BY <1>1, <2>3, <2>4, <2>5 DEF TX_START_DELAY
<1> QED BY <1>3, <1>4

(* A set of numbers has a greatest one if it has one and a bound.          *)
LEMMA GreatestNumber ==
  ASSUME NEW n \in Nat, NEW T, T \subseteq 0..n, T # {}
  PROVE  \E m \in T : \A k \in T : k <= m
<1> DEFINE U == {n - k : k \in T}
<1>1. U \subseteq Nat /\ U # {}
  <2>1. \A k \in T : k \in Int /\ 0 <= k /\ k <= n
    OBVIOUS
  <2>2. \A k \in T : n - k \in Nat
    BY <2>1
  <2>3. PICK k : k \in T
    OBVIOUS
  <2>4. n - k \in U
    BY <2>3, Zenon
  <2> QED BY <2>2, <2>4, Zenon
<1>2. PICK u \in U : \A k \in U : ~(k < u)
  <2> HIDE DEF U
  <2> QED BY <1>1, LeastNumber
<1>3. PICK m \in T : u = n - m
  OBVIOUS
<1>4. ASSUME NEW k \in T PROVE k <= m
  <2>1. n - k \in U
    OBVIOUS
  <2>2. ~(n - k < n - m)
    BY <1>2, <1>3, <2>1
  <2> QED BY <2>2
<1> QED BY <1>4

(* The gain chosen is the last of the table that does not exceed the power,*)
(* or the first.                                                           *)
LEMMA GainChosen ==
  ASSUME ChipAssumption, PacketAssumption, conf \in Confs, NEW p, p.rf_power \in Int
  PROVE  /\ power_index(p) \in 0..15 /\ power_index(p) + 1 \in DOMAIN conf.lut
         /\ \A i \in DOMAIN conf.lut : conf.lut[i].rf_power <= p.rf_power =>
              conf.lut[power_index(p) + 1].rf_power \in conf.lut[i].rf_power..p.rf_power
<1> DEFINE n == Len(conf.lut)
           fit == {i \in 2..n : conf.lut[i].rf_power <= p.rf_power}
           x == power_index(p)
<1>1. n \in Nat /\ 1 <= n /\ n <= 16 /\ DOMAIN conf.lut = 1..n
  <2>1. LUT_MAX <= 16 /\ LUT_MAX \in Nat
    BY DEF PacketAssumption, ChipAssumption
  <2>2. n \in 1..LUT_MAX /\ DOMAIN conf.lut = 1..n
    BY GainsAreNoCommand
  <2> HIDE DEF n
  <2> QED BY <2>1, <2>2
<1>2. \A i \in 1..n : conf.lut[i].rf_power \in Int
  <2>1. conf.lut \in Seq(GainRow)
    BY DEF ChipAssumption
  <2>2. \A i \in 1..n : conf.lut[i] \in GainRow
    BY <2>1
  <2> QED BY <2>2 DEF GainRow
<1>3. \A i, j \in 1..n : i < j => conf.lut[i].rf_power <= conf.lut[j].rf_power
  BY <1>1 DEF PacketAssumption
<1>4. x = IF fit = {} THEN 0 ELSE (CHOOSE i \in fit : \A j \in fit : j <= i) - 1
  BY DEF power_index
<1> HIDE DEF n, x
<1>5. CASE fit = {}
  <2>1. x = 0 /\ x + 1 = 1
    BY <1>4, <1>5
  <2>2. ASSUME NEW i \in 1..n, conf.lut[i].rf_power <= p.rf_power PROVE i = 1
    BY <1>1, <1>5, <2>2
  <2> QED BY <1>1, <1>2, <2>1, <2>2 DEF x
<1>6. CASE fit # {}
  <2>1. fit \subseteq 0..n /\ n \in Nat
    BY <1>1
  <2>2. \E m \in fit : \A k \in fit : k <= m
    <3> HIDE DEF fit
    <3> QED BY <1>6, <2>1, GreatestNumber
  <2>3. PICK m \in fit : m = (CHOOSE i \in fit : \A j \in fit : j <= i) /\ \A k \in fit : k <= m
    <3> HIDE DEF fit
    <3> QED BY <2>2
  <2>4. x = m - 1 /\ m \in 2..n /\ conf.lut[m].rf_power <= p.rf_power
    BY <1>4, <1>6, <2>3
  <2>5. ASSUME NEW i \in 1..n, conf.lut[i].rf_power <= p.rf_power
        PROVE  conf.lut[i].rf_power <= conf.lut[m].rf_power
    <3>1. i = 1 \/ i \in fit
      BY <1>1, <2>5
    <3>a. i \in fit => i <= m
      BY <2>3, Zenon
    <3>b. i = 1 => i <= m
      BY <1>1, <2>4
    <3>2. i <= m
      BY <3>1, <3>a, <3>b
    <3>3. i = m \/ i < m
      BY <1>1, <2>4, <3>2
    <3> QED BY <1>1, <1>2, <1>3, <2>4, <3>3
  <2>6. x + 1 = m /\ x \in 0..15 /\ m \in 1..n
    <3> HIDE DEF fit
    <3>1. m \in Int /\ 2 <= m /\ m <= n /\ x = m - 1
      BY <1>1, <2>4
    <3>2. x + 1 = m /\ x \in Int /\ 0 <= x /\ x <= 15
      BY <1>1, <3>1
    <3>3. x \in 0..15
      BY <3>2
    <3> QED BY <1>1, <3>1, <3>2, <3>3
  <2> QED BY <1>1, <1>2, <2>4, <2>5, <2>6 DEF x
<1> QED BY <1>5, <1>6

(* A byte with its two high bits replaced.                                 *)
Topped(h, n, m) == /\ IsByte(h) /\ h % 64 = n % 64
                   /\ h >= 128 <=> m = 128
                   /\ (h \div 64) % 2 = 1 <=> m = 64
(* They do not reach into the rest.                                        *)
LEMMA HighBits ==
  ASSUME NEW n, IsByte(n), NEW m, m \in {0, 64, 128}, NEW h, h = (n % 64) + m
  PROVE  Topped(h, n, m)
<1>1. CASE m = 0
  BY <1>1 DEF IsByte, Topped
<1>2. CASE m = 64
  BY <1>2 DEF IsByte, Topped
<1>3. CASE m = 128
  BY <1>3 DEF IsByte, Topped
<1> QED BY <1>1, <1>2, <1>3

(* A byte without its high bit.                                            *)
LEMMA HighBit ==
  ASSUME NEW n, IsByte(n) PROVE IsByte(n % 128)
BY DEF IsByte

(* A byte of a bit, a second bit and four bits.                            *)
Placed(n, r, m, i) ==
  IsByte(n) /\ n % 16 = i /\ n \div 32 = r /\ ((n \div 16) % 2 = 0 <=> m = 0)
(* Each can be told from it.                                               *)
LEMMA BitsOfPlace ==
  ASSUME NEW r, r \in {0, 1}, NEW m, m \in {0, 16}, NEW i, i \in Int, 0 <= i, i < 16,
         NEW n, n = (32 * r) + m + i
  PROVE  Placed(n, r, m, i)
<1>1. CASE r = 0
  BY <1>1 DEF IsByte, Placed
<1>2. CASE r = 1
  BY <1>2 DEF IsByte, Placed
<1> QED BY <1>1, <1>2

(* The bytes of a PLL word, with the bandwidth of a LoRa packet on top.    *)
LEMMA FrontCells ==
  ASSUME NEW p, p.freq_hz \in Nat, NEW pll, pll = Pll(conf.type[0], p.freq_hz),
         IsLora(p) => p.bandwidth \in {125, 250, 500}
  PROVE  /\ IsByte(pll[1]) /\ IsByte(pll[2]) /\ IsByte(pll[3]) /\ IsByte(High(p))
         /\ IsLora(p) => /\ High(p) % 64 = pll[1] % 64
                         /\ High(p) >= 128 <=> p.bandwidth = 500
                         /\ (High(p) \div 64) % 2 = 1 <=> p.bandwidth = 125
<1>1. PICK C \in Nat \ {0} : C = Coarse(conf.type[0])
  BY SMT DEF Coarse, SX125x_32MHz_FRAC
<1>2. PICK F \in Nat \ {0} : F = Fine(conf.type[0])
  BY SMT DEF Fine
<1>3. PICK q \in Int, r \in Int : q = p.freq_hz \div C /\ r = p.freq_hz % C
  BY Quotient
<1>4. r * F \in Int
  BY <1>2, <1>3
<1>5. PICK x \in Int : x = (r * F) \div 15625
  BY <1>4, SMT
<1>6. pll = <<q % 256, (x \div 256) % 256, x % 256>>
  BY <1>1, <1>2, <1>3, <1>5, SMT DEF Pll, part_int, part_frac, SX125x_32MHz_FRAC
<1>7. IsByte(pll[1]) /\ IsByte(pll[2]) /\ IsByte(pll[3])
  <2>1. IsByte(q % 256) /\ IsByte((x \div 256) % 256) /\ IsByte(x % 256)
    BY LowByte
  <2>2. pll[1] = q % 256 /\ pll[2] = (x \div 256) % 256 /\ pll[3] = x % 256
    BY <1>6
  <2> QED BY <2>1, <2>2
<1>8. PICK n : n = pll[1] /\ IsByte(n)
  BY <1>7
<1>9. CASE ~IsLora(p)
  <2>1. High(p) = n % 128
    BY <1>8, <1>9 DEF High
  <2>2. IsByte(n % 128)
    BY <1>8, HighBit
  <2> QED BY <1>7, <1>9, <2>1, <2>2
<1>10. CASE IsLora(p)
  <2>1. High(p) = (n % 64) + (CASE p.bandwidth = 500 -> 128 [] p.bandwidth = 125 -> 64
                                [] OTHER -> 0)
    BY <1>8, <1>10, Zenon DEF High
  <2>2. PICK h, t : h = High(p) /\ t = n % 64 /\ t \in Int
    BY <1>8 DEF IsByte
  <2>3. CASE p.bandwidth = 500
    <3>1. h = t + 128
      BY <2>1, <2>2, <2>3
    <3>2. Topped(h, n, 128)
      BY <1>8, <2>2, <3>1, HighBits
    <3> QED BY <1>7, <1>8, <2>2, <2>3, <3>2 DEF Topped
  <2>4. CASE p.bandwidth = 125
    <3>1. h = t + 64
      BY <2>1, <2>2, <2>4
    <3>2. Topped(h, n, 64)
      BY <1>8, <2>2, <3>1, HighBits
    <3> QED BY <1>7, <1>8, <2>2, <2>4, <3>2 DEF Topped
  <2>5. CASE p.bandwidth = 250
    <3>1. h = t + 0
      BY <2>1, <2>2, <2>5
    <3>2. Topped(h, n, 0)
      BY <1>8, <2>2, <3>1, HighBits
    <3> QED BY <1>7, <1>8, <2>2, <2>5, <3>2 DEF Topped
  <2> QED BY <1>10, <2>3, <2>4, <2>5
<1> QED BY <1>9, <1>10

(* Radio, modem and gain share a byte.                                     *)
LEMMA PlaceOfPacket ==
  ASSUME NEW p, p.rf_chain \in {0, 1}, power_index(p) \in 0..15
  PROVE  /\ IsByte(Place(p)) /\ Place(p) % 16 = power_index(p)
         /\ Place(p) \div 32 = p.rf_chain
         /\ (Place(p) \div 16) % 2 = 0 <=> IsLora(p)
<1>1. PICK i : i = power_index(p) /\ i \in Int /\ 0 <= i /\ i < 16
  OBVIOUS
<1>2. PICK m \in {0, 16} : m = Bit(~IsLora(p), 16) /\ (m = 0 <=> IsLora(p))
  BY DEF Bit
<1>3. Place(p) = (32 * p.rf_chain) + m + i
  BY <1>1, <1>2 DEF Place
<1>4. Placed(Place(p), p.rf_chain, m, i)
  BY <1>1, <1>2, <1>3, BitsOfPlace, Zenon
<1> QED BY <1>1, <1>2, <1>4 DEF Placed

(* A symbol is slow if it takes 16 ms or more.                             *)
LEMMA SlowSymbols ==
  ASSUME NEW p, p.datarate \in 7..12, p.bandwidth \in {125, 250, 500}
  PROVE  SET_PPM_ON(p) <=> (1000 * 2^p.datarate) \div p.bandwidth >= 16000
<1>1. 2^1 = 2 /\ 2^2 = 4 /\ 2^3 = 8 /\ 2^4 = 16 /\ 2^5 = 32 /\ 2^6 = 64
  <2>1. 2^(0+1) = 2 * 2^0 /\ 2^(1+1) = 2 * 2^1 /\ 2^(2+1) = 2 * 2^2 /\ 2^(3+1) = 2 * 2^3
        /\ 2^(4+1) = 2 * 2^4 /\ 2^(5+1) = 2 * 2^5
    BY PowersOfTwo
  <2> QED BY <2>1, PowersOfTwo
<1>2. 2^7 = 128 /\ 2^8 = 256 /\ 2^9 = 512 /\ 2^10 = 1024 /\ 2^11 = 2048 /\ 2^12 = 4096
  <2>1. 2^(6+1) = 2 * 2^6 /\ 2^(7+1) = 2 * 2^7 /\ 2^(8+1) = 2 * 2^8 /\ 2^(9+1) = 2 * 2^9
        /\ 2^(10+1) = 2 * 2^10 /\ 2^(11+1) = 2 * 2^11
    BY PowersOfTwo
  <2> QED BY <1>1, <2>1
<1>3. PICK n : n = 2^p.datarate
  OBVIOUS
<1>4. \/ p.datarate = 7 /\ n = 128
      \/ p.datarate = 8 /\ n = 256
      \/ p.datarate = 9 /\ n = 512
      \/ p.datarate = 10 /\ n = 1024
      \/ p.datarate = 11 /\ n = 2048
      \/ p.datarate = 12 /\ n = 4096
  <2>1. ASSUME p.datarate = 7 PROVE n = 128
    <3>1. n = 2^7
      BY <1>3, <2>1
    <3> QED BY <1>2, <3>1
  <2>2. ASSUME p.datarate = 8 PROVE n = 256
    <3>1. n = 2^8
      BY <1>3, <2>2
    <3> QED BY <1>2, <3>1
  <2>3. ASSUME p.datarate = 9 PROVE n = 512
    <3>1. n = 2^9
      BY <1>3, <2>3
    <3> QED BY <1>2, <3>1
  <2>4. ASSUME p.datarate = 10 PROVE n = 1024
    <3>1. n = 2^10
      BY <1>3, <2>4
    <3> QED BY <1>2, <3>1
  <2>5. ASSUME p.datarate = 11 PROVE n = 2048
    <3>1. n = 2^11
      BY <1>3, <2>5
    <3> QED BY <1>2, <3>1
  <2>6. ASSUME p.datarate = 12 PROVE n = 4096
    <3>1. n = 2^12
      BY <1>3, <2>6
    <3> QED BY <1>2, <3>1
  <2>7. \/ p.datarate = 7 \/ p.datarate = 8 \/ p.datarate = 9 \/ p.datarate = 10
        \/ p.datarate = 11 \/ p.datarate = 12
    OBVIOUS
  <2> QED BY <2>1, <2>2, <2>3, <2>4, <2>5, <2>6, <2>7
<1> QED BY <1>3, <1>4, SMT DEF SET_PPM_ON

(* The two bytes the fields of a LoRa packet share.                        *)
Rated(a, d, e, x) ==
  IsByte(a) /\ a % 16 = d /\ (a \div 16) % 8 = e /\ (a >= 128 <=> x = 128)
Banded(c, k, o) == IsByte(c) /\ c % 4 = k /\ ((c \div 8) % 2 = 1 <=> o = 8)
RateParts(a, d, e, x) ==
  /\ d \in Int /\ 7 <= d /\ d <= 12 /\ e \in Int /\ 1 <= e /\ e <= 4
  /\ x \in {0, 128} /\ a = d + (16 * e) + x
BandParts(c, k, n, o, v) ==
  /\ k \in Int /\ 0 <= k /\ k <= 2 /\ n \in {0, 4} /\ o \in {0, 8} /\ v \in {0, 16}
  /\ c = k + n + o + v

(* Each field can be told from the first,                                  *)
LEMMA RateBits ==
  ASSUME NEW a, NEW d, NEW e, NEW x, RateParts(a, d, e, x)
  PROVE  Rated(a, d, e, x)
<1> USE DEF RateParts
<1>1. a \div 16 = e + (IF x = 0 THEN 0 ELSE 8) /\ a % 16 = d
  OBVIOUS
<1>2. (a \div 16) % 8 = e
  BY <1>1
<1> QED BY <1>1, <1>2 DEF IsByte, Rated

(* and from the second.                                                    *)
LEMMA BandBits ==
  ASSUME NEW c, NEW k, NEW n, NEW o, NEW v, BandParts(c, k, n, o, v)
  PROVE  Banded(c, k, o)
<1> USE DEF BandParts
<1>1. c % 4 = k
  OBVIOUS
<1>2. (c \div 8) = (o \div 8) + (v \div 8)
  OBVIOUS
<1> QED BY <1>1, <1>2 DEF IsByte, Banded

(* The bytes for the modem, taken apart.                                   *)
LEMMA ModemOfLora ==
  ASSUME NEW p, IsLora(p), p.datarate \in 7..12, p.coderate \in 1..4,
         p.bandwidth \in {125, 250, 500}, p.no_crc \in BOOLEAN
  PROVE  \E a, c :
           /\ Modem(p) = <<a, p.size, c>> /\ IsByte(a) /\ IsByte(c)
           /\ a % 16 = p.datarate /\ (a \div 16) % 8 = p.coderate /\ (a >= 128 <=> ~p.no_crc)
           /\ \/ c % 4 = 0 /\ p.bandwidth = 125
              \/ c % 4 = 1 /\ p.bandwidth = 250
              \/ c % 4 = 2 /\ p.bandwidth = 500
           /\ (c \div 8) % 2 = 1 <=> SET_PPM_ON(p)
<1>1. PICK x \in {0, 128} : x = Bit(~p.no_crc, 128) /\ (x = 128 <=> ~p.no_crc)
  BY DEF Bit
<1>2. PICK k : /\ k = CASE p.bandwidth = 125 -> 0 [] p.bandwidth = 250 -> 1 [] OTHER -> 2
               /\ k \in Int /\ 0 <= k /\ k <= 2
               /\ \/ k = 0 /\ p.bandwidth = 125
                  \/ k = 1 /\ p.bandwidth = 250
                  \/ k = 2 /\ p.bandwidth = 500
  OBVIOUS
<1>3. PICK n \in {0, 4} : n = Bit(p.no_header, 4)
  BY DEF Bit
<1>4. PICK o \in {0, 8} : o = Bit(SET_PPM_ON(p), 8) /\ (o = 8 <=> SET_PPM_ON(p))
  BY DEF Bit
<1>5. PICK v \in {0, 16} : v = Bit(p.invert_pol, 16)
  BY DEF Bit
<1>6. PICK d, e : /\ d = p.datarate /\ e = p.coderate /\ d \in Int /\ e \in Int
                   /\ 7 <= d /\ d <= 12 /\ 1 <= e /\ e <= 4
  OBVIOUS
<1>7. PICK a, c : a = d + (16 * e) + x /\ c = k + n + o + v
  OBVIOUS
<1>8. Modem(p) = <<a, p.size, c>>
  BY <1>1, <1>2, <1>3, <1>4, <1>5, <1>6, <1>7 DEF Modem, IsLora
<1>9. Rated(a, d, e, x)
  <2>1. RateParts(a, d, e, x)
    BY <1>1, <1>6, <1>7, Zenon DEF RateParts
  <2> QED BY <2>1, RateBits, SMT
<1>10. Banded(c, k, o)
  <2>1. BandParts(c, k, n, o, v)
    BY <1>2, <1>3, <1>4, <1>5, <1>7, Zenon DEF BandParts
  <2> QED BY <2>1, BandBits, SMT
<1> QED BY <1>1, <1>2, <1>4, <1>6, <1>8, <1>9, <1>10 DEF Rated, Banded

(* All 16 of them are bytes, in their places.                              *)
Sixteen(b, p) ==
  /\ ByteList(b, 16) /\ b[1] = High(p) /\ b[8] = Place(p)
  /\ b[2] = Pll(conf.type[0], p.freq_hz)[2] /\ b[3] = Pll(conf.type[0], p.freq_hz)[3]
  /\ b[10] = Modem(p)[1] /\ b[11] = Modem(p)[2] /\ b[12] = Modem(p)[3]
  /\ IsLora(p) => (b[13] * 256) + b[14] >= 4
  /\ p.tx_mode = "TIMESTAMPED" => /\ (b[4] * 256) + b[5] = count_trig(p)[1]
                                  /\ (b[6] * 256) + b[7] = count_trig(p)[2]

(* The four bytes of the time are its two words, or nothing.               *)
LEMMA BytesOfTime ==
  ASSUME NEW p, p.count_us \in Uint16 \X Uint16
  PROVE  /\ ByteList(When(p), 4)
         /\ p.tx_mode = "TIMESTAMPED" =>
              /\ (When(p)[1] * 256) + When(p)[2] = count_trig(p)[1]
              /\ (When(p)[3] * 256) + When(p)[4] = count_trig(p)[2]
<1>1. PICK t1 \in Uint16, t2 \in Uint16 : t1 = count_trig(p)[1] /\ t2 = count_trig(p)[2]
  BY TimeOfTrigger
<1>2. CASE p.tx_mode = "TIMESTAMPED"
  <2>1. PICK h1, l1 : TwoBytes(t1) = <<h1, l1>> /\ IsByte(h1) /\ IsByte(l1)
                      /\ (h1 * 256) + l1 = t1
    BY BytesOfWord
  <2>2. PICK h2, l2 : TwoBytes(t2) = <<h2, l2>> /\ IsByte(h2) /\ IsByte(l2)
                      /\ (h2 * 256) + l2 = t2
    BY BytesOfWord
  <2>3. PICK u, v : u = TwoBytes(t1) /\ v = TwoBytes(t2)
    OBVIOUS
  <2>4. When(p) = u \o v
    BY <1>1, <1>2, <2>3, Zenon DEF When
  <2>5. ByteList(u, 2) /\ u[1] = h1 /\ u[2] = l1
    BY <2>1, <2>3, TwoOfThem
  <2>6. ByteList(v, 2) /\ v[1] = h2 /\ v[2] = l2
    BY <2>2, <2>3, TwoOfThem
  <2>7. 2 \in Nat /\ 4 = 2 + 2
    OBVIOUS
  <2>8. PICK w : w = When(p) /\ ByteList(w, 4) /\ Begins(w, u, 2) /\ Follows(w, v, 2, 2)
    BY <2>4, <2>5, <2>6, <2>7, CellsOfTwo, Zenon
  <2>9. w[1] = u[1] /\ w[2] = u[2]
    BY <2>8 DEF Begins
  <2>10. w[3] = v[1] /\ w[4] = v[2]
    <3>1. w[2 + 1] = v[1] /\ w[2 + 2] = v[2]
      BY <2>8 DEF Follows
    <3> QED BY <3>1
  <2>11. (w[1] * 256) + w[2] = t1 /\ (w[3] * 256) + w[4] = t2
    BY <2>1, <2>2, <2>5, <2>6, <2>9, <2>10
  <2> QED BY <1>1, <2>8, <2>11, Zenon
<1>3. CASE p.tx_mode # "TIMESTAMPED"
  <2>1. PICK w : w = When(p) /\ w = <<0, 0, 0, 0>>
    BY <1>3 DEF When
  <2>2. w \in Seq(Int) /\ Len(w) = 4 /\ w[1] = 0 /\ w[2] = 0 /\ w[3] = 0 /\ w[4] = 0
    BY <2>1
  <2>3. \A i \in Nat : 1 <= i /\ i <= 4 => i = 1 \/ i = 2 \/ i = 3 \/ i = 4
    OBVIOUS
  <2>4. ByteList(w, 4)
    BY <2>2, <2>3 DEF ByteList, IsByte
  <2> QED BY <1>3, <2>1, <2>4
<1> QED BY <1>2, <1>3

(* The bytes for the modem.                                                *)
LEMMA BytesOfModem ==
  ASSUME PacketAssumption, NEW p \in Pkts
  PROVE  ByteList(Modem(p), 3)
<1>1. IsByte(p.size) /\ p.no_crc \in BOOLEAN
  BY PacketFields DEF IsByte
<1>2. CASE IsLora(p)
  <2>1. p.datarate \in 7..12 /\ p.coderate \in 1..4 /\ p.bandwidth \in {125, 250, 500}
    BY <1>2, PacketFields
  <2>2. PICK a, c : Modem(p) = <<a, p.size, c>> /\ IsByte(a) /\ IsByte(c)
    BY <1>1, <1>2, <2>1, ModemOfLora
  <2> QED BY <1>1, <2>2, ThreeOfThem
<1>3. CASE ~IsLora(p)
  <2>1. PICK x \in {0, 2} : x = Bit(~p.no_crc, 2)
    BY DEF Bit
  <2>2. PICK f, c : f = p.f_dev /\ c = 1 + x + 8
    OBVIOUS
  <2>3. IsByte(f) /\ IsByte(c)
    <3>1. p.f_dev \in 1..200
      BY <1>3, PacketFields
    <3> QED BY <2>2, <3>1 DEF IsByte
  <2>4. Modem(p) = <<f, p.size, c>>
    BY <1>3, <2>1, <2>2 DEF Modem, IsLora
  <2> QED BY <1>1, <2>3, <2>4, ThreeOfThem
<1> QED BY <1>2, <1>3

(* The bytes for the speed of an FSK packet.                               *)
LEMMA BytesOfSpeed ==
  ASSUME PacketAssumption, NEW p \in Pkts
  PROVE  ByteList(Speed(p), 2)
<1>1. CASE IsLora(p)
  <2>1. Speed(p) = <<0, 0>> /\ IsByte(0)
    BY <1>1 DEF Speed, IsByte
  <2> QED BY <2>1, TwoOfThem, Zenon
<1>2. CASE ~IsLora(p)
  <2>1. PICK d : d = p.datarate /\ d \in Nat \ {0}
    <3>1. p.datarate \in FskRates
      BY <1>2, PacketFields
    <3> QED BY <3>1, SMT DEF FskRates
  <2>2. PICK x \in Int : x = 32000000 \div d
    BY <2>1, SMT
  <2>3. PICK w : w = x % 65536 /\ w \in Uint16
    BY SMT DEF Uint16
  <2>4. Speed(p) = TwoBytes(w)
    BY <1>2, <2>1, <2>2, <2>3, SMT DEF Speed
  <2>5. PICK h, l : TwoBytes(w) = <<h, l>> /\ IsByte(h) /\ IsByte(l)
    BY <2>3, BytesOfWord
  <2> QED BY <2>4, <2>5, TwoOfThem, Zenon
<1> QED BY <1>1, <1>2

(* The bytes for the preamble, of four symbols or more in a LoRa packet.   *)
LEMMA BytesOfPreamble ==
  ASSUME PacketAssumption, NEW p \in Pkts, NEW y, y = TwoBytes(Before(p))
  PROVE  ByteList(y, 2) /\ (IsLora(p) => (y[1] * 256) + y[2] >= 4)
<1>1. PICK n : n = Before(p) /\ n \in Uint16 /\ (IsLora(p) => n >= 4)
  <2>1. PICK k : k = p.preamble /\ k \in Uint16
    BY PacketFields
  <2>2. Least(k, 6, 4) \in Uint16 /\ Least(k, 6, 4) >= 4 /\ Least(k, 5, 3) \in Uint16
    BY <2>1, SMT DEF Least, Uint16
  <2> QED BY <2>1, <2>2 DEF Before
<1>2. PICK h, l : TwoBytes(n) = <<h, l>> /\ IsByte(h) /\ IsByte(l) /\ (h * 256) + l = n
  BY <1>1, BytesOfWord
<1>3. ByteList(y, 2) /\ y[1] = h /\ y[2] = l
  BY <1>1, <1>2, TwoOfThem
<1> QED BY <1>1, <1>2, <1>3, Zenon

(* Each field of a packet is where Sixteen has it.                         *)
LEMMA MetadataBytes ==
  ASSUME ChipAssumption, PacketAssumption, conf \in Confs, NEW p \in Pkts, NEW b, b = Metadata(p)
  PROVE  Sixteen(b, p)
<1> DEFINE pll == Pll(conf.type[0], p.freq_hz)
<1>1. /\ p.freq_hz \in Nat /\ p.rf_chain \in {0, 1} /\ p.rf_power \in Int
      /\ p.count_us \in Uint16 \X Uint16 /\ (IsLora(p) => p.bandwidth \in {125, 250, 500})
  BY PacketFields
<1>2. IsByte(pll[2]) /\ IsByte(pll[3]) /\ IsByte(High(p))
  BY <1>1, FrontCells
<1>3. IsByte(Place(p)) /\ IsByte(0)
  <2>1. power_index(p) \in 0..15
    BY <1>1, GainChosen
  <2> QED BY <1>1, <2>1, PlaceOfPacket DEF IsByte
<1>4. b = <<High(p), pll[2], pll[3]>> \o When(p) \o <<Place(p), 0>> \o Modem(p)
            \o TwoBytes(Before(p)) \o Speed(p)
  BY SMT DEF Metadata
<1> HIDE DEF pll
<1>5. PICK u, w, t, m, y, z :
        /\ u = <<High(p), pll[2], pll[3]>> /\ w = <<Place(p), 0>> /\ t = When(p)
        /\ m = Modem(p) /\ y = TwoBytes(Before(p)) /\ z = Speed(p)
  OBVIOUS
<1>6. ByteList(u, 3) /\ u[1] = High(p) /\ u[2] = pll[2] /\ u[3] = pll[3]
  BY <1>2, <1>5, ThreeOfThem
<1>7. ByteList(w, 2) /\ w[1] = Place(p)
  BY <1>3, <1>5, TwoOfThem, Zenon
<1>8. ByteList(t, 4) /\ (p.tx_mode = "TIMESTAMPED" => /\ (t[1] * 256) + t[2] = count_trig(p)[1]
                                                     /\ (t[3] * 256) + t[4] = count_trig(p)[2])
  BY <1>1, <1>5, BytesOfTime
<1>9. ByteList(m, 3)
  BY <1>5, BytesOfModem, Zenon
<1>10. ByteList(y, 2) /\ (IsLora(p) => (y[1] * 256) + y[2] >= 4)
  BY <1>5, BytesOfPreamble, Zenon
<1>11. ByteList(z, 2)
  BY <1>5, BytesOfSpeed, Zenon
<1>12. b = u \o t \o w \o m \o y \o z
  BY <1>4, <1>5, Zenon
<1>13. ByteList(b, 16) /\ SixCells(b, u, t, w, m, y, z)
  <2>1. ByteList(u, 3) /\ ByteList(t, 4) /\ ByteList(w, 2) /\ ByteList(m, 3) /\ ByteList(y, 2)
        /\ ByteList(z, 2)
    BY <1>6, <1>7, <1>8, <1>9, <1>10, <1>11, Zenon
  <2>2. PICK g : /\ g = u \o t \o w \o m \o y \o z /\ ByteList(g, 16)
                 /\ SixCells(g, u, t, w, m, y, z)
    BY <2>1, SixLists, Zenon
  <2> QED BY <1>12, <2>2, Zenon
<1>14. /\ b[1] = u[1] /\ b[2] = u[2] /\ b[3] = u[3] /\ b[4] = t[1] /\ b[5] = t[2]
       /\ b[6] = t[3] /\ b[7] = t[4] /\ b[8] = w[1] /\ b[10] = m[1] /\ b[11] = m[2]
       /\ b[12] = m[3] /\ b[13] = y[1] /\ b[14] = y[2]
  BY <1>13, Zenon DEF SixCells
<1>15. b[1] = High(p) /\ b[8] = Place(p) /\ b[2] = pll[2] /\ b[3] = pll[3]
       /\ b[10] = Modem(p)[1] /\ b[11] = Modem(p)[2] /\ b[12] = Modem(p)[3]
  BY <1>5, <1>6, <1>7, <1>14, Zenon
<1>16. IsLora(p) => (b[13] * 256) + b[14] >= 4
  BY <1>10, <1>14, Zenon
<1>17. p.tx_mode = "TIMESTAMPED" => /\ (b[4] * 256) + b[5] = count_trig(p)[1]
                                    /\ (b[6] * 256) + b[7] = count_trig(p)[2]
  BY <1>8, <1>14
<1> QED BY <1>13, <1>15, <1>16, <1>17, Zenon DEF Sixteen, pll

(* The eighth byte has the modem, the radio and the gain.                  *)
LEMMA PlaceSays ==
  ASSUME ChipAssumption, PacketAssumption, conf \in Confs, pkt \in Pkts, NEW b, Sixteen(b, pkt)
  PROVE  /\ SentAsLora(b) <=> IsLora(pkt)
         /\ b[8] \div 32 = pkt.rf_chain /\ b[8] % 16 = power_index(pkt)
<1>1. pkt.rf_chain \in {0, 1} /\ pkt.rf_power \in Int
  BY PacketFields
<1>2. power_index(pkt) \in 0..15
  BY <1>1, GainChosen
<1>3. /\ Place(pkt) % 16 = power_index(pkt) /\ Place(pkt) \div 32 = pkt.rf_chain
      /\ (Place(pkt) \div 16) % 2 = 0 <=> IsLora(pkt)
  BY <1>1, <1>2, PlaceOfPacket
<1>4. b[8] = Place(pkt)
  BY DEF Sixteen
<1> QED BY <1>3, <1>4, Zenon DEF SentAsLora

(* The radio and the gain are those asked for.                             *)
LEMMA RadioSaid ==
  ASSUME ChipAssumption, PacketAssumption, conf \in Confs, pkt \in Pkts, NEW b, Sixteen(b, pkt),
         AgcDone(agc)
  PROVE  FromRadio(b)
<1> DEFINE x == power_index(pkt)
<1>1. pkt.rf_power \in Int
  BY PacketFields
<1>2. /\ x + 1 \in DOMAIN conf.lut
      /\ \A i \in DOMAIN conf.lut : conf.lut[i].rf_power <= pkt.rf_power =>
           conf.lut[x + 1].rf_power \in conf.lut[i].rf_power..pkt.rf_power
  BY <1>1, GainChosen
<1>3. b[8] \div 32 = pkt.rf_chain /\ b[8] % 16 = x
  BY PlaceSays
<1>4. agc.lut[x + 1] = load_val(conf.lut[x + 1])
  <2>1. DOMAIN conf.lut = 1..Len(conf.lut)
    BY GainsAreNoCommand
  <2> HIDE DEF x
  <2>2. agc.lut = Loaded(Len(conf.lut))
    BY DEF AgcDone
  <2> QED BY <1>2, <2>1, <2>2 DEF Loaded, Gain
<1> HIDE DEF x
<1> QED BY <1>2, <1>3, <1>4, Zenon DEF FromRadio

(* The frequency is the one asked for, to one step.                        *)
LEMMA FrequencySaid ==
  ASSUME ChipAssumption, PacketAssumption, conf \in Confs, pkt \in Pkts, NEW b, Sixteen(b, pkt),
         AgcDone(agc)
  PROVE  OnFrequency(b)
<1> SUFFICES ASSUME NEW type, type = conf.type[0], SentAsLora(b),
                    pkt.freq_hz \in (192 * Coarse(type))..(256 * Coarse(type) - 1)
             PROVE  Near(type, <<(b[1] % 64) + (64 * agc.told[1]), b[2], b[3]>>, pkt.freq_hz)
  BY Zenon DEF OnFrequency
<1>1. PICK f : f = pkt.freq_hz /\ f \in Nat
  BY PacketFields
<1>2. IsLora(pkt)
  BY PlaceSays
<1>3. PICK pll : pll = Pll(type, f)
  OBVIOUS
<1>4. b[1] = High(pkt) /\ b[2] = pll[2] /\ b[3] = pll[3]
  BY <1>1, <1>3 DEF Sixteen
<1>5. High(pkt) % 64 = pll[1] % 64
  <2>1. pkt.bandwidth \in {125, 250, 500}
    BY <1>2, PacketFields
  <2> QED BY <1>1, <1>2, <1>3, <2>1, FrontCells
<1>6. PICK C : C = Coarse(type) /\ (C = 2000000 \/ C = 4000000)
  BY SMT DEF Coarse, SX125x_32MHz_FRAC
<1>7. PICK q : q = f \div C /\ q \in Int /\ 192 <= q /\ q < 256
  <2>1. 192 * C <= f /\ f < 256 * C
    BY <1>1, <1>6, SMT
  <2> QED BY <1>1, <1>6, <2>1, SMT
<1>8. pll[1] = q
  <2>1. pll[1] = q % 256
    BY <1>3, <1>6, <1>7, SMT DEF Pll, part_int
  <2> QED BY <1>7, <2>1
<1>9. agc.told[1] = 3
  BY DEF AgcDone
<1>10. PICK t : t = <<(b[1] % 64) + (64 * agc.told[1]), b[2], b[3]>>
  OBVIOUS
<1>11. t[1] = pll[1] /\ t[2] = pll[2] /\ t[3] = pll[3]
  <2>1. (q % 64) + (64 * 3) = q
    BY <1>7
  <2> QED BY <1>4, <1>5, <1>8, <1>9, <1>10, <2>1
<1>12. \A i \in 1..3 : t[i] = Pll(type, f)[i]
  BY <1>3, <1>11
<1>13. f \in 0..(256 * Coarse(type) - 1)
  BY <1>1, <1>6, SMT
<1>14. Near(type, t, f)
  BY <1>12, <1>13, PllIsNear
<1> QED BY <1>1, <1>10, <1>14, Zenon

(* The time is the one asked for.                                          *)
LEMMA TimeSaid ==
  ASSUME PacketAssumption, pkt \in Pkts, NEW b, Sixteen(b, pkt)
  PROVE  InTime(b)
<1>1. ASSUME pkt.tx_mode = "TIMESTAMPED", NEW t1, NEW t2, t1 = (b[4] * 256) + b[5],
             t2 = (b[6] * 256) + b[7]
      PROVE  pkt.count_us = <<(t1 + ((t2 + TX_START_DELAY) \div 65536)) % 65536,
                              (t2 + TX_START_DELAY) % 65536>>
  <2>1. t1 = count_trig(pkt)[1] /\ t2 = count_trig(pkt)[2]
    BY <1>1 DEF Sixteen
  <2>2. pkt.count_us \in Uint16 \X Uint16
    BY PacketFields
  <2> QED BY <2>1, <2>2, TimeOfTrigger, SMT
<1> QED BY <1>1, SMT DEF InTime

(* So is the modulation.                                                   *)
LEMMA ModulationSaid ==
  ASSUME ChipAssumption, PacketAssumption, conf \in Confs, pkt \in Pkts, NEW b, Sixteen(b, pkt)
  PROVE  AsModulated(b)
<1>1. SentAsLora(b) <=> pkt.modulation = "LORA"
  BY PlaceSays DEF IsLora
<1> SUFFICES ASSUME SentAsLora(b)
             PROVE  /\ b[10] % 16 = pkt.datarate /\ (b[10] \div 16) % 8 = pkt.coderate
                    /\ (b[10] >= 128 <=> ~pkt.no_crc) /\ b[11] = pkt.size
                    /\ (b[1] >= 128 <=> b[12] % 4 = 2) /\ ((b[1] \div 64) % 2 = 1 <=> b[12] % 4 = 0)
                    /\ 125 * 2^(b[12] % 4) = pkt.bandwidth
                    /\ ((b[12] \div 8) % 2 = 1) <=>
                         (1000 * 2^(b[10] % 16)) \div pkt.bandwidth >= 16000
                    /\ (b[13] * 256) + b[14] >= 4
  BY <1>1, SMT DEF AsModulated
<1>2. /\ IsLora(pkt) /\ pkt.datarate \in 7..12 /\ pkt.coderate \in 1..4
      /\ pkt.bandwidth \in {125, 250, 500} /\ pkt.no_crc \in BOOLEAN /\ pkt.freq_hz \in Nat
  BY PlaceSays, PacketFields
<1>3. PICK a, c :
        /\ Modem(pkt) = <<a, pkt.size, c>> /\ IsByte(a) /\ IsByte(c)
        /\ a % 16 = pkt.datarate /\ (a \div 16) % 8 = pkt.coderate /\ (a >= 128 <=> ~pkt.no_crc)
        /\ \/ c % 4 = 0 /\ pkt.bandwidth = 125
           \/ c % 4 = 1 /\ pkt.bandwidth = 250
           \/ c % 4 = 2 /\ pkt.bandwidth = 500
        /\ (c \div 8) % 2 = 1 <=> SET_PPM_ON(pkt)
  BY <1>2, ModemOfLora
<1>4. b[10] = a /\ b[11] = pkt.size /\ b[12] = c /\ b[1] = High(pkt)
  BY <1>3 DEF Sixteen
<1>5. /\ b[10] % 16 = pkt.datarate /\ (b[10] \div 16) % 8 = pkt.coderate
      /\ (b[10] >= 128 <=> ~pkt.no_crc)
  BY <1>3, <1>4, Zenon
<1>6. (b[1] >= 128 <=> b[12] % 4 = 2) /\ ((b[1] \div 64) % 2 = 1 <=> b[12] % 4 = 0)
  <2>1. /\ High(pkt) >= 128 <=> pkt.bandwidth = 500
        /\ (High(pkt) \div 64) % 2 = 1 <=> pkt.bandwidth = 125
    BY <1>2, FrontCells
  <2>2. (c % 4 = 2 <=> pkt.bandwidth = 500) /\ (c % 4 = 0 <=> pkt.bandwidth = 125)
    BY <1>3
  <2>3. PICK h, m : h = High(pkt) /\ m = c % 4 /\ h = b[1] /\ m = b[12] % 4
    BY <1>4
  <2> QED BY <2>1, <2>2, <2>3, SMT
<1>7. 125 * 2^(b[12] % 4) = pkt.bandwidth
  <2>1. 2^0 = 1 /\ 2^1 = 2 /\ 2^2 = 4
    <3>1. 2^(0+1) = 2 * 2^0 /\ 2^(1+1) = 2 * 2^1
      BY PowersOfTwo
    <3> QED BY <3>1, PowersOfTwo
  <2>2. PICK k, n : k = c % 4 /\ n = 2^k
    OBVIOUS
  <2>3. CASE k = 0 /\ pkt.bandwidth = 125
    <3>1. n = 1
      BY <2>1, <2>2, <2>3
    <3> QED BY <1>4, <2>2, <2>3, <3>1
  <2>4. CASE k = 1 /\ pkt.bandwidth = 250
    <3>1. n = 2
      BY <2>1, <2>2, <2>4
    <3> QED BY <1>4, <2>2, <2>4, <3>1
  <2>5. CASE k = 2 /\ pkt.bandwidth = 500
    <3>1. n = 4
      BY <2>1, <2>2, <2>5
    <3> QED BY <1>4, <2>2, <2>5, <3>1
  <2> QED BY <1>3, <2>2, <2>3, <2>4, <2>5
<1>8. ((b[12] \div 8) % 2 = 1) <=> (1000 * 2^(b[10] % 16)) \div pkt.bandwidth >= 16000
  <2>1. SET_PPM_ON(pkt) <=> (1000 * 2^pkt.datarate) \div pkt.bandwidth >= 16000
    BY <1>2, SlowSymbols, SMT
  <2>2. PICK n : n = 2^pkt.datarate /\ n = 2^(b[10] % 16)
    BY <1>5
  <2> QED BY <1>3, <1>4, <2>1, <2>2, SMT
<1>9. (b[13] * 256) + b[14] >= 4
  BY <1>2 DEF Sixteen
<1> QED BY <1>4, <1>5, <1>6, <1>7, <1>8, <1>9, SMT

(* What is read from them is the packet.                                   *)
LEMMA MetadataSay ==
  ASSUME ChipAssumption, PacketAssumption, conf \in Confs, pkt \in Pkts, AgcDone(agc),
         air = <<Metadata(pkt)>>
  PROVE  OnAir
<1>1. PICK b : b = air[1] /\ b = Metadata(pkt)
  OBVIOUS
<1>2. Sixteen(b, pkt)
  BY <1>1, MetadataBytes
<1>3. Len(b) = 16 /\ \A i \in DOMAIN b : b[i] \in 0..255
  <2>1. ByteList(b, 16) /\ 16 \in Nat
    BY <1>2 DEF Sixteen
  <2> QED BY <2>1, AsBytes, Zenon
<1>4. OnFrequency(b) /\ FromRadio(b) /\ InTime(b) /\ AsModulated(b)
  BY <1>2, FrequencySaid, RadioSaid, TimeSaid, ModulationSaid
<1> QED BY <1>1, <1>3, <1>4, Zenon DEF OnAir

(* Nothing is sent before the start, and nothing changes after.            *)
AirInv == /\ pkt \in Pkts
          /\ air # <<>> => step = <<"started">> /\ air = <<Metadata(pkt)>>

(* A packet goes out once the chip has started, with its own metadata.     *)
LEMMA AirInvariant == ChipSpec => []AirInv
<1>1. ChipInit => AirInv
  BY DEF ChipInit, AirInv
<1>2. AirInv /\ [ChipNext]_chipVars => AirInv'
  <2> SUFFICES ASSUME AirInv, [ChipNext]_chipVars PROVE AirInv'
    OBVIOUS
  <2>1. ASSUME step # <<"started">>, air' = air, pkt' = pkt PROVE AirInv'
    BY <2>1 DEF AirInv
  <2>2. ASSUME NEW c \in Chains, setup_sx125x(c) \/ TryLock(c) \/ LockFails(c)
        PROVE  AirInv'
    BY <2>1, <2>2 DEF setup_sx125x, TryLock, LockFails
  <2>3. CASE Calibrate \/ Adjust \/ LoadFirmware
    BY <2>1, <2>3 DEF Calibrate, Adjust, LoadFirmware
  <2>4. ASSUME NEW i \in 1..(LUT_MAX + 4), Tell(i) PROVE AirInv'
    BY <2>1, <2>4 DEF Tell
  <2>5. ASSUME conf' = conf, pkt' = pkt, step' = step, air' = air \/ air' = <<Metadata(pkt)>>,
               step = <<"started">> \/ air' = air
        PROVE  AirInv'
    <3>1. power_index(pkt)' = power_index(pkt)
      BY <2>5, SMT DEF power_index
    <3>2. High(pkt)' = High(pkt) /\ Place(pkt)' = Place(pkt)
      BY <2>5, <3>1, SMT DEF High, Place
    <3>3. Metadata(pkt)' = Metadata(pkt)
      BY <2>5, <3>2, SMT DEF Metadata
    <3> QED BY <2>5, <3>3 DEF AirInv
  <2>6. CASE SendPacket \/ UNCHANGED chipVars
    BY <2>5, <2>6 DEF SendPacket, chipVars
  <2> QED BY <2>2, <2>3, <2>4, <2>6 DEF ChipNext
<1> QED BY <1>1, <1>2, PTL DEF ChipSpec

(* The metadata in front of a packet are bytes that say what was asked for:*)
(* the frequency to one step, the greatest gain not above the power, the   *)
(* time less the delay, and the modulation, for every configuration and    *)
(* packet lgw_send takes.                                                  *)
THEOREM PacketsGoOutAsAsked ==
  ASSUME ChipAssumption, PacketAssumption PROVE ChipSpec => []OnAir
<1>1. RadioInv /\ FirmwareInv /\ AirInv => OnAir
  <2> SUFFICES ASSUME RadioInv, FirmwareInv, AirInv, air # <<>> PROVE OnAir
    BY DEF OnAir
  <2>1. conf \in Confs /\ pkt \in Pkts /\ AgcDone(agc) /\ air = <<Metadata(pkt)>>
    BY DEF RadioInv, FirmwareInv, AirInv
  <2> QED BY <2>1, MetadataSay
<1> QED BY <1>1, RadioInvariant, FirmwareInvariant, AirInvariant, PTL
=============================================================================
