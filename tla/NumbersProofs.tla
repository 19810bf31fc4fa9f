---------------------------- MODULE NumbersProofs ----------------------------
(* Proofs that the arithmetic of Bignum is that of the integers and that      *)
(* Foreign moves integers between the run time and C without loss.            *)
EXTENDS Bignum, Foreign, SequenceFacts

-----------------------------------------------------------------------------
(* Powers, quotients and remainders *)

\* a set that has 0 and with every number the next has all natural numbers
LEMMA AllNumbers ==
  ASSUME NEW T, 0 \in T, \A n \in Nat : n \in T => n + 1 \in T
  PROVE  \A n \in Nat : n \in T
  <1> DEFINE S == {n \in Nat : n \notin T}
  <1>1. ASSUME S # {} PROVE FALSE
    <2>1. PICK m \in S : \A n \in S : m <= n
      BY <1>1, LeastNumber
    <2>2. m - 1 \in Nat /\ m - 1 \notin S
      BY <2>1
    <2>3. m - 1 \in T /\ m = (m - 1) + 1
      BY <2>2
    <2>4. m \in T
      BY <2>2, <2>3
    <2>5. QED BY <2>1, <2>4
  <1>2. QED BY <1>1

\* how each value of a function of the natural numbers is made of the one before
StepsOf(V) == [Nat \ {0} -> [V -> V]]

CountsOn(V, v, step, g) ==
  g \in [Nat -> V] /\ \A n \in Nat : g[n] = IF n = 0 THEN v ELSE step[n][g[n - 1]]

\* such a function exists
LEMMA CountedOn ==
  ASSUME NEW V, NEW v \in V, NEW step \in StepsOf(V)
  PROVE  \E g : CountsOn(V, v, step, g)
  <1> DEFINE D == Nat \ {0}
             next == [n \in D |-> n - 1]
             base == [n \in Nat |-> v]
  <1>1. Falls(D, Nat, next)
    <2>1. next \in [D -> Nat] /\ \A n \in D : next[n] = n - 1
      OBVIOUS
    <2>2. ASSUME NEW S \in SUBSET D, S # {} PROVE \E i \in S : next[i] \notin S
      <3>1. PICK m \in S : \A n \in S : m <= n
        BY <2>2, LeastNumber
      <3>2. m - 1 \notin S
        BY <3>1
      <3>3. QED BY <2>1, <3>2
    <2> HIDE DEF next
    <2>3. QED BY <2>1, <2>2 DEF Falls, Grounded
  <1>2. base \in [Nat -> V] /\ step \in [D -> [V -> V]]
    BY DEF StepsOf
  <1>3. PICK g \in [Nat -> V] : Along(D, Nat, next, base, step, g)
    <2> HIDE DEF D, next, base
    <2>1. QED BY <1>1, <1>2, AlongExists
  <1>4. \A n \in Nat : g[n] = IF n = 0 THEN v ELSE step[n][g[n - 1]]
    <2> TAKE n \in Nat
    <2>1. g[n] = IF n \in D THEN step[n][g[next[n]]] ELSE base[n]
      BY <1>3 DEF Along
    <2>2. CASE n = 0
      BY <2>1, <2>2
    <2>3. CASE n # 0
      <3>1. next[n] = n - 1
        BY <2>3
      <3>2. QED BY <2>1, <2>3, <3>1
    <2>4. QED BY <2>2, <2>3
  <1>5. QED BY <1>3, <1>4 DEF CountsOn

\* what Powers computes
LEMMA PowersAre ==
  ASSUME NEW b \in Int
  PROVE  /\ b^^0 = 1
         /\ \A n \in Nat : b^^n \in Int /\ b^^(n + 1) = b * b^^n
  <1> DEFINE F(q) == [n \in Nat |-> IF n = 0 THEN 1 ELSE b * q[n - 1]]
  <1>3. PICK times : times = [v \in Int |-> b * v]
    OBVIOUS
  <1>2. times \in [Int -> Int]
    <2>1. \A v \in Int : b * v \in Int
      OBVIOUS
    <2>2. QED BY <1>3, <2>1
  <1>14. PICK step : step = [n \in Nat \ {0} |-> times]
    OBVIOUS
  <1>13. step \in StepsOf(Int) /\ 1 \in Int
    BY <1>2, <1>14 DEF StepsOf
  <1>15. PICK g : CountsOn(Int, 1, step, g)
    BY <1>13, CountedOn
  <1>1. g \in [Nat -> Int] /\ \A n \in Nat : g[n] = IF n = 0 THEN 1 ELSE step[n][g[n - 1]]
    BY <1>15 DEF CountsOn
  <1>4. \A n \in Nat : g[n] = IF n = 0 THEN 1 ELSE b * g[n - 1]
    <2> TAKE n \in Nat
    <2>1. n # 0 => n - 1 \in Nat /\ g[n - 1] \in Int
      BY <1>1
    <2>2. n # 0 => step[n][g[n - 1]] = b * g[n - 1]
      BY <1>3, <1>14, <2>1
    <2>3. QED BY <1>1, <2>2
  <1>5. g = F(g)
    BY <1>1, <1>4
  <1>6. PICK q : q = Powers(b)
    OBVIOUS
  <1>7. q = F(q)
    <2>1. q = CHOOSE h : h = F(h)
      BY <1>6 DEF Powers
    <2> HIDE DEF F
    <2>2. \E h : h = F(h)
      BY <1>5
    <2>3. QED BY <2>1, <2>2
  <1>8. \A n \in Nat : q[n] = IF n = 0 THEN 1 ELSE b * q[n - 1]
    BY <1>7
  <1>9. q[0] = 1 /\ \A n \in Nat : q[n + 1] = b * q[n]
    <2>1. q[0] = 1
      BY <1>8
    <2>2. ASSUME NEW n \in Nat PROVE q[n + 1] = b * q[n]
      <3>1. n + 1 \in Nat /\ n + 1 # 0 /\ n + 1 - 1 = n
        OBVIOUS
      <3>2. q[n + 1] = b * q[n + 1 - 1]
        BY <1>8, <3>1
      <3>3. QED BY <3>1, <3>2
    <2>3. QED BY <2>1, <2>2
  <1>10. \A n \in Nat : q[n] \in Int
    <2>1. PICK T : T = {m \in Nat : q[m] \in Int}
      OBVIOUS
    <2>2. 0 \in T /\ \A n \in Nat : n \in T => n + 1 \in T
      BY <1>9, <2>1
    <2>3. \A n \in Nat : n \in T
      BY <2>2, AllNumbers
    <2>4. QED BY <2>1, <2>3
  <1>11. \A n : b^^n = q[n]
    BY <1>6 DEF ^^
  <1>12. QED BY <1>9, <1>10, <1>11

\* powers of a positive number are positive
LEMMA PowersPositive ==
  ASSUME NEW b \in Nat, b > 0
  PROVE  \A n \in Nat : b^^n \in Nat /\ b^^n > 0
  <1> DEFINE T == {n \in Nat : b^^n \in Nat /\ b^^n > 0}
  <1>1. 0 \in T
    BY PowersAre
  <1>2. ASSUME NEW n \in Nat, n \in T PROVE n + 1 \in T
    <2>1. b^^(n + 1) = b * b^^n /\ b^^n \in Nat /\ b^^n > 0
      BY <1>2, PowersAre
    <2>2. PICK p \in Nat : p = b^^n
      BY <2>1
    <2>3. b * p \in Nat /\ b * p > 0
      BY <2>1, <2>2
    <2>4. QED BY <2>1, <2>2, <2>3
  <1> HIDE DEF T
  <1>3. \A n \in Nat : n \in T
    BY <1>1, <1>2, AllNumbers
  <1>4. QED BY <1>3 DEF T

\* the power of a sum is a product
LEMMA PowerOfSum ==
  ASSUME NEW b \in Int, NEW m \in Nat
  PROVE  \A n \in Nat : b^^(m + n) = b^^m * b^^n
  <1> DEFINE T == {n \in Nat : b^^(m + n) = b^^m * b^^n}
  <1>1. 0 \in T
    <2>1. b^^0 = 1 /\ b^^m \in Int /\ m + 0 = m
      BY PowersAre
    <2>2. QED BY <2>1
  <1>2. ASSUME NEW n \in Nat, n \in T PROVE n + 1 \in T
    <2>1. /\ b^^m \in Int /\ b^^n \in Int
          /\ b^^(n + 1) = b * b^^n
      BY PowersAre
    <2>2. b^^((m + n) + 1) = b * b^^(m + n) /\ m + (n + 1) = (m + n) + 1
      BY PowersAre
    <2>3. b^^(m + n) = b^^m * b^^n
      BY <1>2
    <2>4. PICK p \in Int, q \in Int : p = b^^m /\ q = b^^n
      BY <2>1
    <2>5. b * (p * q) = p * (b * q)
      OBVIOUS
    <2>6. QED BY <2>1, <2>2, <2>3, <2>4, <2>5
  <1> HIDE DEF T
  <1>3. \A n \in Nat : n \in T
    BY <1>1, <1>2, AllNumbers
  <1>4. QED BY <1>3 DEF T

\* powers grow
LEMMA PowersGrow ==
  ASSUME NEW b \in Nat, b > 0, NEW m \in Nat, NEW n \in Nat, m <= n
  PROVE  b^^m <= b^^n
  <1>1. n - m \in Nat /\ m + (n - m) = n
    OBVIOUS
  <1>2. b^^n = b^^m * b^^(n - m)
    BY <1>1, PowerOfSum
  <1>3. PICK p \in Nat, q \in Nat : p = b^^m /\ q = b^^(n - m) /\ q > 0
    BY <1>1, PowersPositive
  <1>4. p <= p * q
    BY <1>3
  <1>5. QED BY <1>2, <1>3, <1>4

\* quotient and remainder
LEMMA DivisionFacts ==
  ASSUME NEW a \in Int, NEW b \in Nat, b > 0
  PROVE  /\ a \div b \in Int /\ a % b \in Nat /\ a % b < b
         /\ a = b * (a \div b) + (a % b)
         /\ a >= 0 => a \div b \in Nat
  <1>1. PICK q \in Int, r \in Int : q = a \div b /\ r = a % b
    OBVIOUS
  <1>2. 0 <= r /\ r < b /\ a = b * q + r
    BY <1>1
  <1>3. a >= 0 => q >= 0
    <2>1. ASSUME a >= 0, q < 0 PROVE FALSE
      <3>1. b * q <= -b
        BY <2>1
      <3>2. QED BY <1>2, <2>1, <3>1
    <2>2. QED BY <2>1
  <1>4. QED BY <1>1, <1>2, <1>3

\* division with a remainder
LEMMA Divided ==
  ASSUME NEW a \in Int, NEW b \in Nat, b > 0
  PROVE  \E q \in Int, r \in Nat : q = a \div b /\ r = a % b /\ r < b /\ a = b * q + r
  BY DivisionFacts

\* and what they are
LEMMA DivisionIs ==
  ASSUME NEW b \in Nat, b > 0, NEW q \in Int, NEW r \in Nat, r < b,
         NEW a \in Int, a = b * q + r
  PROVE  a % b = r /\ a \div b = q
  OBVIOUS

\* adding a multiple does not change the remainder
LEMMA RemainderOfSum ==
  ASSUME NEW a \in Int, NEW b \in Nat, b > 0, NEW k \in Int
  PROVE  (a + b * k) % b = a % b /\ (a + b * k) \div b = (a \div b) + k
  <1>1. PICK q \in Int, r \in Nat : q = a \div b /\ r = a % b /\ r < b /\ a = b * q + r
    BY DivisionFacts
  <1>2. PICK c \in Int, m \in Int : c = a + b * k /\ m = q + k
    OBVIOUS
  <1>3. c = b * m + r
    BY <1>1, <1>2
  <1>4. c % b = r /\ c \div b = m
    BY <1>1, <1>3, DivisionIs
  <1>5. QED BY <1>1, <1>2, <1>4

\* congruent numbers have the same remainder, and the other way round
LEMMA SameRemainder ==
  ASSUME NEW a \in Int, NEW c \in Int, NEW b \in Nat, b > 0
  PROVE  (a - c) % b = 0 <=> a % b = c % b
  <1>1. PICK q \in Int, r \in Nat : q = a \div b /\ r = a % b /\ r < b /\ a = b * q + r
    BY DivisionFacts
  <1>2. PICK p \in Int, s \in Nat : p = c \div b /\ s = c % b /\ s < b /\ c = b * p + s
    BY DivisionFacts
  <1>3. PICK t \in Int, u \in Nat : t = (a - c) \div b /\ u = (a - c) % b /\ u < b /\ a - c = b * t + u
    BY DivisionFacts
  <1>4. ASSUME u = 0 PROVE r = s
    <2>1. PICK m \in Int : m = p + t
      OBVIOUS
    <2>2. a % b = s
      <3>1. a = b * m + s
        BY <1>2, <1>3, <1>4, <2>1
      <3>2. QED BY <1>2, <3>1, DivisionIs
    <2>3. QED BY <1>1, <2>1, <2>2
  <1>5. ASSUME r = s PROVE u = 0
    <2>1. PICK m \in Int, d \in Int : m = q - p /\ d = a - c
      OBVIOUS
    <2>2. d = b * m + 0
      BY <1>1, <1>2, <1>5, <2>1
    <2>3. d % b = 0
      BY <2>2, DivisionIs
    <2>4. QED BY <1>3, <2>1, <2>3
  <1>6. QED BY <1>1, <1>2, <1>3, <1>4, <1>5

-----------------------------------------------------------------------------
(* Limbs and the natural numbers they stand for *)

\* the base, and the limits of a fixnum
LEMMA BaseFacts ==
  /\ B \in Nat /\ B >= 8
  /\ most_positive_fixnum \in Nat /\ most_negative_fixnum \in Nat
  /\ most_positive_fixnum >= 1 /\ most_negative_fixnum = most_positive_fixnum + 1
  /\ 4 * most_negative_fixnum <= B
  /\ Limb \subseteq Nat /\ \A l \in Limb : l \in Nat /\ l < B
  <1>1. W \in Nat /\ FxShift \in Nat /\ 0 < FxShift /\ FxShift + 1 < W
    BY NumbersAssumption
  <1>2. PICK k \in Nat : k = W - FxShift - 1 /\ k >= 1 /\ k + 2 <= W
    BY <1>1
  <1>3. 2^^0 = 1 /\ 2^^1 = 2 /\ 2^^2 = 4 /\ 2^^3 = 8
    <2>1. 2^^0 = 1 /\ 2^^(0 + 1) = 2 * 2^^0 /\ 2^^(1 + 1) = 2 * 2^^1 /\ 2^^(2 + 1) = 2 * 2^^2
      BY PowersAre
    <2>2. QED BY <2>1
  <1>4. 2^^k \in Nat /\ 2^^k >= 2
    <2>1. 2^^1 <= 2^^k /\ 2^^k \in Nat
      BY <1>2, PowersGrow, PowersPositive
    <2>2. QED BY <1>3, <2>1
  <1>5. 2^^(k + 2) = 2^^k * 4
    BY <1>3, PowerOfSum
  <1>6. 2^^(k + 2) <= 2^^W /\ 2^^W \in Nat
    BY <1>1, <1>2, PowersGrow, PowersPositive
  <1>7. B = 2^^W /\ most_positive_fixnum = 2^^k - 1
    BY <1>2 DEF B, most_positive_fixnum
  <1>8. PICK p \in Nat, w \in Nat : p = 2^^k /\ w = 2^^W
    BY <1>4, <1>6
  <1>9. B \in Nat /\ B >= 8
    BY <1>4, <1>5, <1>6, <1>7, <1>8
  <1>10. QED BY <1>4, <1>5, <1>6, <1>7, <1>8, <1>9 DEF Limb, most_negative_fixnum

\* powers of the base
LEMMA BasePowers ==
  /\ B^^0 = 1 /\ B^^1 = B
  /\ \A n \in Nat : B^^n \in Nat /\ B^^n > 0 /\ B^^(n + 1) = B * B^^n
  <1>1. B \in Nat /\ B > 0
    BY BaseFacts
  <1>2. B^^0 = 1 /\ \A n \in Nat : B^^(n + 1) = B * B^^n
    BY <1>1, PowersAre
  <1>3. B^^(0 + 1) = B * 1
    BY <1>2
  <1>4. B^^1 = B
    BY <1>1, <1>3
  <1>5. \A n \in Nat : B^^n \in Nat /\ B^^n > 0
    BY <1>1, PowersPositive
  <1>6. QED BY <1>2, <1>4, <1>5

\* what the limb i adds, 0 if s does not have it
Term(s, i) == LimbAt(s, i) * B^^(i - 1)
\* the natural that the first n limbs stand for
Sums(s) ==
  LET g[n \in Nat] == IF n = 0 THEN 0 ELSE g[n - 1] + Term(s, n)
  IN  g

\* limbs are numbers
LEMMA LimbsAre ==
  ASSUME NEW s \in Seq(Limb)
  PROVE  /\ \A i \in Nat \ {0} : LimbAt(s, i) \in Limb /\ LimbAt(s, i) \in Nat /\ LimbAt(s, i) < B
         /\ \A i \in Nat \ {0} : i > Len(s) => LimbAt(s, i) = 0
         /\ \A i \in 1 .. Len(s) : LimbAt(s, i) = s[i] /\ s[i] \in Limb
  <1>1. 0 \in Limb /\ \A l \in Limb : l \in Nat /\ l < B
    BY BaseFacts DEF Limb
  <1>2. \A i \in 1 .. Len(s) : s[i] \in Limb
    OBVIOUS
  <1>3. QED BY <1>1, <1>2 DEF LimbAt

\* terms are numbers
LEMMA TermsAre ==
  ASSUME NEW s \in Seq(Limb), NEW n \in Nat
  PROVE  Term(s, n + 1) \in Nat /\ Term(s, n + 1) = LimbAt(s, n + 1) * B^^n
  <1>1. PICK l \in Nat, p \in Nat : l = LimbAt(s, n + 1) /\ p = B^^n
    <2>1. n + 1 \in Nat \ {0}
      OBVIOUS
    <2>2. LimbAt(s, n + 1) \in Nat
      BY <2>1, LimbsAre
    <2>3. B^^n \in Nat
      BY BasePowers
    <2>4. QED BY <2>2, <2>3
  <1>2. Term(s, n + 1) = l * p
    <2>1. n + 1 - 1 = n
      OBVIOUS
    <2>2. QED BY <1>1, <2>1 DEF Term
  <1>3. QED BY <1>1, <1>2

\* what Sums computes
LEMMA SumsAre ==
  ASSUME NEW s \in Seq(Limb)
  PROVE  /\ Sums(s)[0] = 0
         /\ \A n \in Nat : Sums(s)[n] \in Nat /\ Sums(s)[n + 1] = Sums(s)[n] + Term(s, n + 1)
  <1> DEFINE F(q) == [n \in Nat |-> IF n = 0 THEN 0 ELSE q[n - 1] + Term(s, n)]
  <1>1. \A n \in Nat \ {0} : Term(s, n) \in Nat
    <2> TAKE n \in Nat \ {0}
    <2>1. n - 1 \in Nat /\ n = n - 1 + 1
      OBVIOUS
    <2>2. QED BY <2>1, TermsAre
  <1>2. PICK step : step = [n \in Nat \ {0} |-> [v \in Nat |-> v + Term(s, n)]]
    OBVIOUS
  <1>3. step \in StepsOf(Nat) /\ 0 \in Nat
    <2>1. ASSUME NEW n \in Nat \ {0} PROVE [v \in Nat |-> v + Term(s, n)] \in [Nat -> Nat]
      BY <1>1
    <2>2. QED BY <1>2, <2>1 DEF StepsOf
  <1>4. PICK g : CountsOn(Nat, 0, step, g)
    BY <1>3, CountedOn
  <1>5. g \in [Nat -> Nat] /\ \A n \in Nat : g[n] = IF n = 0 THEN 0 ELSE step[n][g[n - 1]]
    BY <1>4 DEF CountsOn
  <1>6. g = F(g)
    <2>1. \A n \in Nat : g[n] = IF n = 0 THEN 0 ELSE g[n - 1] + Term(s, n)
      <3> TAKE n \in Nat
      <3>1. n # 0 => n - 1 \in Nat /\ g[n - 1] \in Nat
        <4>1. g \in [Nat -> Nat]
          BY <1>5
        <4>2. n # 0 => n - 1 \in Nat
          OBVIOUS
        <4>3. QED BY <4>1, <4>2
      <3>2. n # 0 => step[n][g[n - 1]] = g[n - 1] + Term(s, n)
        BY <1>2, <3>1
      <3>3. QED BY <1>5, <3>2
    <2>2. QED BY <1>5, <2>1
  <1>7. PICK q : q = Sums(s)
    OBVIOUS
  <1>8. q = F(q)
    <2>1. q = CHOOSE h : h = F(h)
      BY <1>7 DEF Sums
    <2> HIDE DEF F
    <2>2. \E h : h = F(h)
      BY <1>6
    <2>3. QED BY <2>1, <2>2
  <1>9. q[0] = 0 /\ \A n \in Nat : q[n + 1] = q[n] + Term(s, n + 1)
    <2>1. \A n \in Nat : q[n] = IF n = 0 THEN 0 ELSE q[n - 1] + Term(s, n)
      BY <1>8
    <2>2. ASSUME NEW n \in Nat PROVE q[n + 1] = q[n] + Term(s, n + 1)
      <3>1. n + 1 \in Nat /\ n + 1 # 0 /\ n + 1 - 1 = n
        OBVIOUS
      <3>2. q[n + 1] = q[n + 1 - 1] + Term(s, n + 1)
        BY <2>1, <3>1
      <3>3. QED BY <3>1, <3>2
    <2>3. QED BY <2>1, <2>2
  <1>10. \A n \in Nat : q[n] \in Nat
    <2>1. PICK T : T = {m \in Nat : q[m] \in Nat}
      OBVIOUS
    <2>2. ASSUME NEW n \in Nat, n \in T PROVE n + 1 \in T
      <3>1. Term(s, n + 1) \in Nat /\ q[n] \in Nat
        BY <1>1, <2>1, <2>2
      <3>2. q[n + 1] = q[n] + Term(s, n + 1)
        BY <1>9
      <3>3. q[n + 1] \in Nat
        BY <3>1, <3>2
      <3>4. QED BY <2>1, <3>3
    <2>3. 0 \in T
      BY <1>9, <2>1
    <2>4. \A n \in Nat : n \in T
      BY <2>2, <2>3, AllNumbers
    <2>5. QED BY <2>1, <2>4
  <1>11. QED BY <1>7, <1>9, <1>10

\* NatOf is the sum of all of them
LEMMA NatOfIs ==
  ASSUME NEW s \in Seq(Limb)
  PROVE  NatOf(s) = Sums(s)[Len(s)] /\ NatOf(s) \in Nat
  <1> DEFINE F(q) == [i \in 0 .. Len(s) |-> IF i = 0 THEN 0 ELSE q[i - 1] + s[i] * B^^(i - 1)]
             G(q) == [i \in 0 .. Len(s) |-> IF i = 0 THEN 0 ELSE q[i - 1] + Term(s, i)]
  <1>1. PICK n \in Nat : n = Len(s)
    OBVIOUS
  <1>2. PICK S : S = Sums(s)
    OBVIOUS
  <1>3. S[0] = 0 /\ \A i \in Nat : S[i] \in Nat /\ S[i + 1] = S[i] + Term(s, i + 1)
    BY <1>2, SumsAre
  <1>4. PICK g : g = [i \in 0 .. n |-> S[i]]
    OBVIOUS
  <1>5. \A q : F(q) = G(q)
    <2>1. \A i \in 0 .. Len(s) : i # 0 => s[i] * B^^(i - 1) = Term(s, i)
      BY DEF Term, LimbAt
    <2>2. QED BY <2>1
  <1>6. g = G(g)
    <2>1. \A i \in 0 .. n : g[i] = IF i = 0 THEN 0 ELSE g[i - 1] + Term(s, i)
      <3> TAKE i \in 0 .. n
      <3>1. i # 0 => i - 1 \in 0 .. n /\ i - 1 \in Nat /\ i = i - 1 + 1
        OBVIOUS
      <3>2. i # 0 => g[i] = g[i - 1] + Term(s, i)
        BY <1>3, <1>4, <3>1
      <3>3. QED BY <1>3, <1>4, <3>2
    <2>2. QED BY <1>1, <1>4, <2>1
  <1>7. PICK q : q = CHOOSE h : h = F(h)
    OBVIOUS
  <1>9. NatOf(s) = q[n]
    BY <1>1, <1>7 DEF NatOf
  <1> HIDE DEF F, G
  <1>8. q = F(q)
    <2>1. \E h : h = F(h)
      BY <1>5, <1>6
    <2>2. QED BY <1>7, <2>1
  <1>10. \A i \in 0 .. n : q[i] = IF i = 0 THEN 0 ELSE q[i - 1] + Term(s, i)
    <2>1. q = G(q)
      BY <1>5, <1>8
    <2>2. QED BY <1>1, <2>1 DEF G
  <1>11. \A i \in Nat : i <= n => q[i] = S[i]
    <2>1. PICK T : T = {i \in Nat : i <= n => q[i] = S[i]}
      OBVIOUS
    <2>2. 0 \in T
      BY <1>3, <1>10, <2>1
    <2>3. ASSUME NEW i \in Nat, i \in T PROVE i + 1 \in T
      <3>1. CASE i + 1 <= n
        <4>1. q[i] = S[i] /\ i + 1 \in 0 .. n /\ i + 1 - 1 = i /\ i + 1 # 0
          BY <2>1, <2>3, <3>1
        <4>2. q[i + 1] = q[i + 1 - 1] + Term(s, i + 1)
          BY <1>10, <4>1
        <4>3. QED BY <1>3, <2>1, <4>1, <4>2
      <3>2. CASE ~(i + 1 <= n)
        BY <2>1, <3>2
      <3>3. QED BY <3>1, <3>2
    <2>4. \A i \in Nat : i \in T
      BY <2>2, <2>3, AllNumbers
    <2>5. QED BY <2>1, <2>4
  <1>12. q[n] = S[n] /\ S[n] \in Nat
    BY <1>3, <1>11
  <1>13. QED BY <1>1, <1>2, <1>9, <1>12

\* equal limbs have equal sums
LEMMA SumsSame ==
  ASSUME NEW s \in Seq(Limb), NEW t \in Seq(Limb), NEW n \in Nat,
         \A i \in 1 .. n : LimbAt(s, i) = LimbAt(t, i)
  PROVE  Sums(s)[n] = Sums(t)[n]
  <1>1. PICK S, R : S = Sums(s) /\ R = Sums(t)
    OBVIOUS
  <1>2. /\ S[0] = 0 /\ R[0] = 0
        /\ \A i \in Nat : /\ S[i + 1] = S[i] + Term(s, i + 1)
                          /\ R[i + 1] = R[i] + Term(t, i + 1)
    BY <1>1, SumsAre
  <1>3. PICK T : T = {i \in Nat : i <= n => S[i] = R[i]}
    OBVIOUS
  <1>4. ASSUME NEW i \in Nat, i \in T PROVE i + 1 \in T
    <2>1. CASE i + 1 <= n
      <3>1. S[i] = R[i] /\ i + 1 \in 1 .. n
        BY <1>3, <1>4, <2>1
      <3>2. Term(s, i + 1) = Term(t, i + 1)
        BY <3>1 DEF Term
      <3>3. S[i + 1] = R[i + 1]
        BY <1>2, <3>1, <3>2
      <3>4. QED BY <1>3, <3>3
    <2>2. CASE ~(i + 1 <= n)
      BY <1>3, <2>2
    <2>3. QED BY <2>1, <2>2
  <1>5. 0 \in T
    BY <1>2, <1>3
  <1>6. \A i \in Nat : i \in T
    BY <1>5, <1>4, AllNumbers
  <1>7. QED BY <1>1, <1>3, <1>6

\* a digit more: the sum stays below the next power
LEMMA DigitBelow ==
  ASSUME NEW v \in Nat, NEW p \in Nat, v < p, NEW b \in Nat, NEW l \in Nat, l < b
  PROVE  v + l * p \in Nat /\ v + l * p < b * p
  <1>1. PICK k \in Nat : b = l + 1 + k
    <2>1. b - l - 1 \in Nat /\ b = l + 1 + (b - l - 1)
      OBVIOUS
    <2>2. QED BY <2>1
  <1>2. b * p = l * p + p + k * p
    BY <1>1
  <1>3. PICK m \in Nat, j \in Nat : m = l * p /\ j = k * p
    <2>1. l * p \in Nat /\ k * p \in Nat
      OBVIOUS
    <2>2. QED BY <2>1
  <1>4. QED BY <1>2, <1>3

\* a sum of n limbs is less than the nth power of the base
LEMMA SumsBounded ==
  ASSUME NEW s \in Seq(Limb)
  PROVE  \A n \in Nat : Sums(s)[n] \in Nat /\ Sums(s)[n] < B^^n
  <1>1. PICK S : S = Sums(s)
    OBVIOUS
  <1>3. S[0] = 0 /\ \A i \in Nat : S[i] \in Nat /\ S[i + 1] = S[i] + Term(s, i + 1)
    BY <1>1, SumsAre
  <1>4. PICK T : T = {n \in Nat : S[n] \in Nat /\ S[n] < B^^n}
    OBVIOUS
  <1>5. 0 \in T
    <2>1. B^^0 = 1
      BY BasePowers
    <2>2. QED BY <1>3, <1>4, <2>1
  <1>6. ASSUME NEW n \in Nat, n \in T PROVE n + 1 \in T
    <2>1. PICK l \in Nat : l = LimbAt(s, n + 1) /\ l < B
      BY LimbsAre
    <2>2. PICK p \in Nat, b \in Nat, v \in Nat : p = B^^n /\ b = B /\ v = S[n] /\ v < p
      BY <1>4, <1>6, BasePowers, BaseFacts
    <2>3. S[n + 1] = v + l * p
      BY <1>3, <2>1, <2>2, TermsAre
    <2>4. B^^(n + 1) = b * p
      BY <2>2, BasePowers
    <2>5. v + l * p \in Nat /\ v + l * p < b * p
      BY <2>1, <2>2, DigitBelow
    <2>6. QED BY <1>4, <2>3, <2>4, <2>5
  <1>7. \A n \in Nat : n \in T
    BY <1>5, <1>6, AllNumbers
  <1>8. QED BY <1>1, <1>4, <1>7

\* limbs above that are equal add the same
LEMMA SumsAbove ==
  ASSUME NEW s \in Seq(Limb), NEW t \in Seq(Limb), NEW n \in Nat, NEW m \in Nat, n <= m,
         \A i \in n + 1 .. m : LimbAt(s, i) = LimbAt(t, i)
  PROVE  Sums(s)[m] - Sums(s)[n] = Sums(t)[m] - Sums(t)[n]
  <1>1. PICK S, R : S = Sums(s) /\ R = Sums(t)
    OBVIOUS
  <1>2. \A i \in Nat : /\ S[i] \in Nat /\ S[i + 1] = S[i] + Term(s, i + 1)
                       /\ R[i] \in Nat /\ R[i + 1] = R[i] + Term(t, i + 1)
    BY <1>1, SumsAre
  <1>3. PICK T : T = {i \in Nat : n <= i /\ i <= m => S[i] - S[n] = R[i] - R[n]}
    OBVIOUS
  <1>4. ASSUME NEW i \in Nat, i \in T PROVE i + 1 \in T
    <2>1. CASE n <= i /\ i + 1 <= m
      <3>1. S[i] - S[n] = R[i] - R[n] /\ i + 1 \in n + 1 .. m
        BY <1>3, <1>4, <2>1
      <3>2. Term(s, i + 1) = Term(t, i + 1) /\ Term(s, i + 1) \in Nat
        BY <3>1, TermsAre DEF Term
      <3>3. /\ S[i] \in Nat /\ R[i] \in Nat /\ S[n] \in Nat /\ R[n] \in Nat
            /\ S[i + 1] = S[i] + Term(s, i + 1) /\ R[i + 1] = R[i] + Term(t, i + 1)
        BY <1>2
      <3>4. S[i + 1] - S[n] = R[i + 1] - R[n]
        <4>1. PICK a \in Nat, b \in Nat, c \in Nat, d \in Nat, e \in Nat :
                a = S[i] /\ b = R[i] /\ c = S[n] /\ d = R[n] /\ e = Term(s, i + 1)
          BY <3>2, <3>3
        <4>2. a - c = b - d => (a + e) - c = (b + e) - d
          OBVIOUS
        <4>3. QED BY <3>1, <3>2, <3>3, <4>1, <4>2
      <3>5. QED BY <1>3, <3>4
    <2>2. CASE i + 1 > m
      BY <1>3, <2>2
    <2>3. CASE n > i
      <3>1. n <= i + 1 => i + 1 = n
        BY <2>3
      <3>2. S[n] - S[n] = 0 /\ R[n] - R[n] = 0
        <4>1. S[n] \in Nat /\ R[n] \in Nat
          BY <1>2
        <4>2. QED BY <4>1
      <3>3. QED BY <1>3, <3>1, <3>2
    <2>4. QED BY <2>1, <2>2, <2>3
  <1>5. 0 \in T
    <2>1. S[0] \in Nat /\ R[0] \in Nat
      BY <1>2
    <2>2. n <= 0 => n = 0
      OBVIOUS
    <2>3. QED BY <1>3, <2>1, <2>2
  <1>6. \A i \in Nat : i \in T
    BY <1>5, <1>4, AllNumbers
  <1>7. QED BY <1>1, <1>3, <1>6

\* with zeros above nothing is added
LEMMA SumsZero ==
  ASSUME NEW s \in Seq(Limb), NEW n \in Nat, NEW m \in Nat, n <= m,
         \A i \in n + 1 .. m : LimbAt(s, i) = 0
  PROVE  Sums(s)[m] = Sums(s)[n]
  <1>1. PICK S : S = Sums(s)
    OBVIOUS
  <1>2. \A i \in Nat : S[i] \in Nat /\ S[i + 1] = S[i] + Term(s, i + 1)
    BY <1>1, SumsAre
  <1>3. PICK T : T = {i \in Nat : n <= i /\ i <= m => S[i] = S[n]}
    OBVIOUS
  <1>4. ASSUME NEW i \in Nat, i \in T PROVE i + 1 \in T
    <2>1. CASE n <= i /\ i + 1 <= m
      <3>1. S[i] = S[n] /\ i + 1 \in n + 1 .. m
        BY <1>3, <1>4, <2>1
      <3>2. Term(s, i + 1) = 0
        <4>1. PICK p \in Nat : p = B^^i
          BY BasePowers
        <4>2. Term(s, i + 1) = 0 * p
          BY <3>1, <4>1, TermsAre
        <4>3. QED BY <4>1, <4>2
      <3>3. S[i] \in Nat /\ S[i + 1] = S[i] + Term(s, i + 1)
        BY <1>2
      <3>4. S[i + 1] = S[n]
        BY <3>1, <3>2, <3>3
      <3>5. QED BY <1>3, <3>4
    <2>2. CASE i + 1 > m
      BY <1>3, <2>2
    <2>3. CASE n > i
      <3>1. n <= i + 1 => i + 1 = n
        BY <2>3
      <3>2. QED BY <1>3, <3>1
    <2>4. QED BY <2>1, <2>2, <2>3
  <1>5. 0 \in T
    <2>1. n <= 0 => n = 0
      OBVIOUS
    <2>2. QED BY <1>3, <2>1
  <1>6. \A i \in Nat : i \in T
    BY <1>5, <1>4, AllNumbers
  <1>7. QED BY <1>1, <1>3, <1>6

\* beyond the last limb the sum is the number
LEMMA SumsAll ==
  ASSUME NEW s \in Seq(Limb), NEW n \in Nat, Len(s) <= n
  PROVE  Sums(s)[n] = NatOf(s)
  <1>1. Len(s) \in Nat /\ \A i \in Len(s) + 1 .. n : LimbAt(s, i) = 0
    <2>1. Len(s) \in Nat
      OBVIOUS
    <2>2. \A i \in Len(s) + 1 .. n : i \in Nat \ {0} /\ i > Len(s)
      BY <2>1
    <2>3. QED BY <2>1, <2>2, LimbsAre
  <1>2. Sums(s)[n] = Sums(s)[Len(s)]
    BY <1>1, SumsZero
  <1>3. QED BY <1>2, NatOfIs

\* the number is below the power of its length
LEMMA NatOfBounded ==
  ASSUME NEW s \in Seq(Limb)
  PROVE  NatOf(s) \in Nat /\ NatOf(s) < B^^Len(s)
  BY NatOfIs, SumsBounded

\* the number of the first limbs
LEMMA NatOfFirst ==
  ASSUME NEW s \in Seq(Limb), NEW t \in Seq(Limb), Len(t) <= Len(s),
         \A i \in 1 .. Len(t) : t[i] = s[i]
  PROVE  NatOf(t) = Sums(s)[Len(t)]
  <1>1. Len(t) \in Nat /\ Len(s) \in Nat
    OBVIOUS
  <1>2. \A i \in 1 .. Len(t) : LimbAt(t, i) = LimbAt(s, i)
    <2>1. \A i \in 1 .. Len(t) : LimbAt(t, i) = t[i]
      BY LimbsAre
    <2>2. \A i \in 1 .. Len(s) : LimbAt(s, i) = s[i]
      BY LimbsAre
    <2>3. \A i \in 1 .. Len(t) : i \in 1 .. Len(s)
      BY <1>1
    <2>4. QED BY <2>1, <2>2, <2>3
  <1>3. Sums(t)[Len(t)] = Sums(s)[Len(t)]
    BY <1>1, <1>2, SumsSame
  <1>4. QED BY <1>3, NatOfIs

\* and of the limbs with one more on top
LEMMA NatOfTop ==
  ASSUME NEW s \in Seq(Limb), NEW n \in Nat, Len(s) = n + 1
  PROVE  NatOf(s) = Sums(s)[n] + s[n + 1] * B^^n
  <1>1. n + 1 \in 1 .. Len(s)
    OBVIOUS
  <1>2. LimbAt(s, n + 1) = s[n + 1]
    BY <1>1, LimbsAre
  <1>3. Sums(s)[n + 1] = Sums(s)[n] + Term(s, n + 1)
    BY SumsAre
  <1>4. Term(s, n + 1) = s[n + 1] * B^^n
    BY <1>2, TermsAre
  <1>5. QED BY <1>3, <1>4, NatOfIs

\* one more limb at the top
LEMMA NatOfAppend ==
  ASSUME NEW t \in Seq(Limb), NEW s \in Seq(Limb), Len(s) = Len(t) + 1,
         \A i \in 1 .. Len(t) : s[i] = t[i]
  PROVE  NatOf(s) = NatOf(t) + s[Len(s)] * B^^Len(t)
  <1>1. PICK n \in Nat : n = Len(t)
    OBVIOUS
  <1>2. NatOf(s) = Sums(s)[n] + s[n + 1] * B^^n
    BY <1>1, NatOfTop
  <1>3. NatOf(t) = Sums(s)[n]
    BY <1>1, NatOfFirst
  <1>4. QED BY <1>1, <1>2, <1>3

\* no limbs stand for 0
LEMMA NatOfNone ==
  NatOf(<<>>) = 0
  <1>1. <<>> \in Seq(Limb) /\ Len(<<>>) = 0
    OBVIOUS
  <1>2. QED BY <1>1, NatOfIs, SumsAre

\* one limb stands for itself
LEMMA NatOfOne ==
  ASSUME NEW l \in Limb
  PROVE  NatOf(<<l>>) = l
  <1>1. PICK s : s = <<l>>
    OBVIOUS
  <1>5. s \in Seq(Limb) /\ Len(s) = 0 + 1 /\ s[0 + 1] = l
    BY <1>1
  <1>2. NatOf(s) = Sums(s)[0] + l * B^^0
    BY <1>5, NatOfTop
  <1>3. Sums(s)[0] = 0 /\ B^^0 = 1 /\ l \in Nat
    BY <1>5, SumsAre, BasePowers, BaseFacts
  <1>4. QED BY <1>1, <1>2, <1>3

\* a number whose top limb is not zero is not below the power
LEMMA NatOfLong ==
  ASSUME NEW s \in Seq(Limb), NEW n \in Nat, Len(s) = n + 1, s[n + 1] # 0
  PROVE  B^^n <= NatOf(s)
  <1>1. NatOf(s) = Sums(s)[n] + s[n + 1] * B^^n
    BY NatOfTop
  <1>2. n + 1 \in 1 .. Len(s)
    OBVIOUS
  <1>3. s[n + 1] \in Nat /\ s[n + 1] >= 1
    BY <1>2, LimbsAre, BaseFacts
  <1>4. Sums(s)[n] \in Nat /\ B^^n \in Nat
    BY SumsAre, BasePowers
  <1>5. PICK k \in Nat, p \in Nat, v \in Nat : s[n + 1] = k + 1 /\ p = B^^n /\ v = Sums(s)[n]
    <2>1. s[n + 1] - 1 \in Nat /\ s[n + 1] = s[n + 1] - 1 + 1
      BY <1>3
    <2>2. QED BY <1>4, <2>1
  <1>6. NatOf(s) = v + (k + 1) * p
    BY <1>1, <1>5
  <1>7. p <= v + (k + 1) * p
    <2>1. (k + 1) * p = k * p + p
      OBVIOUS
    <2>2. k * p \in Nat
      OBVIOUS
    <2>3. QED BY <2>1, <2>2
  <1>8. QED BY <1>5, <1>6, <1>7

\* the remainder by a power is the sum of the lowest limbs
LEMMA NatOfLow ==
  ASSUME NEW s \in Seq(Limb), NEW n \in Nat
  PROVE  NatOf(s) % B^^n = Sums(s)[n]
  <1>1. PICK S : S = Sums(s)
    OBVIOUS
  <1>2. \A i \in Nat : S[i] \in Nat /\ S[i + 1] = S[i] + Term(s, i + 1)
    BY <1>1, SumsAre
  <1>3. PICK p \in Nat : p = B^^n /\ p > 0 /\ S[n] < p
    BY <1>1, BasePowers, SumsBounded
  <1>4. PICK D : D = {p * k + S[n] : k \in Nat}
    OBVIOUS
  <1>5. \A i \in Nat : i \in {j \in Nat : S[n + j] \in D}
    <2>1. PICK T : T = {j \in Nat : S[n + j] \in D}
      OBVIOUS
    <2>2. PICK v \in Nat : v = S[n]
      BY <1>2
    <2>3. 0 \in T
      <3>1. v = p * 0 + v
        OBVIOUS
      <3>2. S[n + 0] = p * 0 + S[n] /\ 0 \in Nat
        BY <2>2, <3>1
      <3>3. S[n + 0] \in D
        BY <1>4, <3>2
      <3>4. QED BY <2>1, <3>3
    <2>4. ASSUME NEW i \in Nat, i \in T PROVE i + 1 \in T
      <3>1. PICK k \in Nat : S[n + i] = p * k + S[n]
        BY <1>4, <2>1, <2>4
      <3>2. PICK l \in Nat, q \in Nat : l = LimbAt(s, n + i + 1) /\ q = B^^i
        <4>1. n + i + 1 \in Nat \ {0}
          OBVIOUS
        <4>2. LimbAt(s, n + i + 1) \in Nat /\ B^^i \in Nat
          BY <4>1, LimbsAre, BasePowers
        <4>3. QED BY <4>2
      <3>3. Term(s, n + i + 1) = l * (p * q)
        <4>1. B^^(n + i) = B^^n * B^^i /\ n + i \in Nat
          BY PowerOfSum, BaseFacts
        <4>2. QED BY <1>3, <3>2, <4>1, TermsAre
      <3>4. S[n + i + 1] = S[n + i] + l * (p * q)
        <4>1. n + i \in Nat
          OBVIOUS
        <4>2. QED BY <1>2, <3>3, <4>1
      <3>5. p * k + v + l * (p * q) = p * (k + l * q) + v
        OBVIOUS
      <3>6. PICK m \in Nat : m = k + l * q
        OBVIOUS
      <3>7. S[n + i + 1] = p * m + S[n]
        BY <2>2, <3>1, <3>4, <3>5, <3>6
      <3>8. S[n + i + 1] \in D
        BY <1>4, <3>7
      <3>9. n + i + 1 = n + (i + 1) /\ i + 1 \in Nat
        OBVIOUS
      <3>10. QED BY <2>1, <3>8, <3>9
    <2>5. \A i \in Nat : i \in T
      BY <2>3, <2>4, AllNumbers
    <2>6. QED BY <2>1, <2>5
  <1>6. S[n + Len(s)] \in D
    <2>1. Len(s) \in Nat
      OBVIOUS
    <2>2. QED BY <1>5, <2>1
  <1>7. PICK k \in Nat : S[n + Len(s)] = p * k + S[n]
    BY <1>4, <1>6
  <1>8. S[n + Len(s)] = NatOf(s)
    <2>1. n + Len(s) \in Nat /\ Len(s) <= n + Len(s)
      OBVIOUS
    <2>2. QED BY <1>1, <2>1, SumsAll
  <1>9. PICK v \in Nat : v = S[n] /\ v < p
    BY <1>2, <1>3
  <1>10. PICK a \in Int : a = NatOf(s) /\ a = p * k + v
    <2>1. NatOf(s) \in Nat
      BY NatOfIs
    <2>2. QED BY <1>7, <1>8, <1>9, <2>1
  <1>11. a % p = v
    <2>1. p > 0 /\ v < p /\ k \in Int
      BY <1>3, <1>9
    <2>2. a = p * k + v
      BY <1>10
    <2>3. QED BY <2>1, <2>2, DivisionIs
  <1>12. QED BY <1>1, <1>3, <1>9, <1>10, <1>11

\* a fixnum stands for the integer in it
LEMMA FixIs ==
  ASSUME NEW n \in Int
  PROVE  /\ Fix(n) \in Number /\ IsFix(Fix(n)) /\ Fix(n).int = n /\ Value(Fix(n)) = n
         /\ Verified(Fix(n)) <=> FitsFixnum(n)
  BY DEF Fix, IsFix, Value, Number, Verified

\* a bignum stands for the natural of its limbs, with its sign
LEMMA BigIs ==
  ASSUME NEW neg \in BOOLEAN, NEW s \in Seq(Limb)
  PROVE  /\ Big(neg, s) \in Number /\ ~IsFix(Big(neg, s))
         /\ Big(neg, s).neg = neg /\ Big(neg, s).limbs = s
         /\ Value(Big(neg, s)) = IF neg THEN -NatOf(s) ELSE NatOf(s)
         /\ Verified(Big(neg, s)) <=> Len(s) > 0 /\ s[Len(s)] # 0 /\ (Len(s) = 1 => s[1] > Limit(neg))
  BY DEF Big, IsFix, Value, Number, Verified

\* a number is one or the other
LEMMA NumberIs ==
  ASSUME NEW r \in Number
  PROVE  /\ IsFix(r) => r = Fix(r.int) /\ r.int \in Int /\ Value(r) = r.int /\ (Verified(r) <=> FitsFixnum(r.int))
         /\ ~IsFix(r) => /\ r = Big(r.neg, r.limbs) /\ r.neg \in BOOLEAN /\ r.limbs \in Seq(Limb)
                         /\ Value(r) = IF r.neg THEN -NatOf(r.limbs) ELSE NatOf(r.limbs)
                         /\ Verified(r) <=> /\ Len(r.limbs) > 0 /\ r.limbs[Len(r.limbs)] # 0
                                            /\ Len(r.limbs) = 1 => r.limbs[1] > Limit(r.neg)
         /\ Value(r) \in Int
  <1>1. CASE IsFix(r)
    <2>1. r.tag = "fixnum"
      BY <1>1 DEF IsFix
    <2>2. r \in [tag : {"fixnum"}, int : Int]
      BY <2>1 DEF Number
    <2>3. QED BY <1>1, <2>2 DEF IsFix, Fix, Value, Verified
  <1>2. CASE ~IsFix(r)
    <2>1. r.tag # "fixnum"
      BY <1>2 DEF IsFix
    <2>2. r \in [tag : {"bignum"}, neg : BOOLEAN, limbs : Seq(Limb)]
      BY <2>1 DEF Number
    <2>3. r.limbs \in Seq(Limb)
      BY <2>2
    <2>4. NatOf(r.limbs) \in Int
      BY <2>3, NatOfIs
    <2>5. QED BY <1>2, <2>2, <2>3, <2>4 DEF IsFix, Big, Value, Verified
  <1>3. QED BY <1>1, <1>2

-----------------------------------------------------------------------------
(* The limbs of a number *)

\* the lowest digits of a number and one more
LEMMA DigitOn ==
  ASSUME NEW a \in Int, NEW p \in Nat, p > 0, NEW b \in Nat, b > 0
  PROVE  a % (b * p) = (a % p) + ((a \div p) % b) * p
  <1>1. PICK q \in Int, r \in Nat : q = a \div p /\ r = a % p /\ r < p /\ a = p * q + r
    BY DivisionFacts
  <1>2. PICK t \in Int, u \in Nat : t = q \div b /\ u = q % b /\ u < b /\ q = b * t + u
    BY DivisionFacts
  <1>3. r + u * p \in Nat /\ r + u * p < b * p
    BY <1>1, <1>2, DigitBelow
  <1>4. PICK v \in Nat, c \in Nat : v = r + u * p /\ c = b * p /\ v < c
    <2>1. b * p \in Nat
      OBVIOUS
    <2>2. QED BY <1>3, <2>1
  <1>5. a = c * t + v
    <2>1. a = p * (b * t + u) + r
      BY <1>1, <1>2
    <2>2. p * (b * t + u) + r = (b * p) * t + (r + u * p)
      OBVIOUS
    <2>3. QED BY <1>4, <2>1, <2>2
  <1>6. a % c = v
    <2>1. c > 0 /\ v < c
      BY <1>4
    <2>2. QED BY <1>5, <2>1, DivisionIs
  <1>7. QED BY <1>1, <1>2, <1>4, <1>6

\* LimbsOf yields so many limbs
LEMMA LimbsOfAre ==
  ASSUME NEW a \in Int, NEW k \in Nat
  PROVE  /\ LimbsOf(a, k) \in Seq(Limb) /\ Len(LimbsOf(a, k)) = k
         /\ \A i \in 1 .. k : LimbsOf(a, k)[i] = (a \div B^^(i - 1)) % B
  <1>1. \A i \in 1 .. k : (a \div B^^(i - 1)) % B \in Limb
    <2> TAKE i \in 1 .. k
    <2>1. i - 1 \in Nat
      OBVIOUS
    <2>2. PICK p \in Nat : p = B^^(i - 1) /\ p > 0
      BY <2>1, BasePowers
    <2>3. a \div p \in Int
      BY <2>2
    <2>4. \A c \in Int : c % B \in Limb
      BY BaseFacts DEF Limb
    <2>5. QED BY <2>2, <2>3, <2>4
  <1>2. PICK s : s = LimbsOf(a, k)
    OBVIOUS
  <1>3. s = [i \in 1 .. k |-> (a \div B^^(i - 1)) % B]
    BY <1>2 DEF LimbsOf
  <1>4. s \in [1 .. k -> Limb] /\ \A i \in 1 .. k : s[i] = (a \div B^^(i - 1)) % B
    BY <1>1, <1>3
  <1>5. s \in Seq(Limb) /\ Len(s) = k
    BY <1>4
  <1>6. QED BY <1>2, <1>4, <1>5

\* they stand for the integer modulo a power of the base
LEMMA NatOfLimbsOf ==
  ASSUME NEW a \in Int, NEW k \in Nat
  PROVE  NatOf(LimbsOf(a, k)) = a % B^^k
  <1>1. PICK s : s = LimbsOf(a, k)
    OBVIOUS
  <1>2. s \in Seq(Limb) /\ Len(s) = k /\ \A i \in 1 .. k : LimbAt(s, i) = (a \div B^^(i - 1)) % B
    <2>1. s \in Seq(Limb) /\ Len(s) = k /\ \A i \in 1 .. k : s[i] = (a \div B^^(i - 1)) % B
      BY <1>1, LimbsOfAre
    <2>2. \A i \in 1 .. k : LimbAt(s, i) = s[i]
      BY <2>1, LimbsAre
    <2>3. QED BY <2>1, <2>2
  <1>3. PICK S : S = Sums(s)
    OBVIOUS
  <1>4. S[0] = 0 /\ \A i \in Nat : S[i] \in Nat /\ S[i + 1] = S[i] + Term(s, i + 1)
    BY <1>2, <1>3, SumsAre
  <1>5. PICK T : T = {i \in Nat : i <= k => S[i] = a % B^^i}
    OBVIOUS
  <1>6. 0 \in T
    <2>1. B^^0 = 1 /\ a % 1 = 0
      BY BasePowers
    <2>2. QED BY <1>4, <1>5, <2>1
  <1>7. ASSUME NEW i \in Nat, i \in T PROVE i + 1 \in T
    <2>1. CASE i + 1 <= k
      <3>1. S[i] = a % B^^i /\ i + 1 \in 1 .. k /\ i + 1 - 1 = i
        BY <1>5, <1>7, <2>1
      <3>2. PICK p \in Nat : p = B^^i /\ p > 0
        BY BasePowers
      <3>3. LimbAt(s, i + 1) = (a \div p) % B
        BY <1>2, <3>1, <3>2
      <3>4. S[i + 1] = (a % p) + ((a \div p) % B) * p
        <4>1. S[i + 1] = S[i] + Term(s, i + 1)
          BY <1>4
        <4>2. Term(s, i + 1) = LimbAt(s, i + 1) * p
          BY <1>2, <3>2, TermsAre
        <4>3. QED BY <3>1, <3>2, <3>3, <4>1, <4>2
      <3>5. B^^(i + 1) = B * p
        BY <3>2, BasePowers
      <3>6. a % (B * p) = (a % p) + ((a \div p) % B) * p
        BY <3>2, BaseFacts, DigitOn
      <3>7. S[i + 1] = a % B^^(i + 1)
        BY <3>4, <3>5, <3>6
      <3>8. QED BY <1>5, <3>7
    <2>2. CASE ~(i + 1 <= k)
      BY <1>5, <2>2
    <2>3. QED BY <2>1, <2>2
  <1>8. \A i \in Nat : i \in T
    BY <1>6, <1>7, AllNumbers
  <1>9. S[k] = a % B^^k
    BY <1>5, <1>8
  <1>10. QED BY <1>1, <1>2, <1>3, <1>9, NatOfIs

\* a number below the power is the number of its limbs
LEMMA NatOfItsLimbs ==
  ASSUME NEW a \in Nat, NEW k \in Nat, a < B^^k
  PROVE  NatOf(LimbsOf(a, k)) = a
  <1>1. PICK p \in Nat : p = B^^k /\ p > 0
    BY BasePowers
  <1>2. a % p = a
    BY <1>1
  <1>3. QED BY <1>1, <1>2, NatOfLimbsOf

-----------------------------------------------------------------------------
(* From limbs to a number *)

\* trimming leaves the same natural and a top limb that is not 0
LEMMA TrimIs ==
  ASSUME NEW s \in Seq(Limb)
  PROVE  /\ Trim(s) \in Seq(Limb) /\ Len(Trim(s)) <= Len(s) /\ NatOf(Trim(s)) = NatOf(s)
         /\ \A i \in 1 .. Len(Trim(s)) : Trim(s)[i] = s[i]
         /\ Trim(s) # <<>> => Len(Trim(s)) > 0 /\ Trim(s)[Len(Trim(s))] # 0
  <1>1. PICK top : top = {i \in DOMAIN s : s[i] # 0}
    OBVIOUS
  <1>2. PICK n : n = IF top = {} THEN 0 ELSE CHOOSE i \in top : \A j \in top : j <= i
    OBVIOUS
  <1>3. /\ n \in 0 .. Len(s)
        /\ n > 0 => s[n] # 0
        /\ \A i \in n + 1 .. Len(s) : s[i] = 0
    <2>1. DOMAIN s = 1 .. Len(s) /\ Len(s) \in Nat
      OBVIOUS
    <2>2. CASE top = {}
      BY <1>1, <1>2, <2>1, <2>2
    <2>3. CASE top # {}
      <3>1. top \subseteq 0 .. Len(s)
        BY <1>1, <2>1
      <3>2. \E i \in top : \A j \in top : j <= i
        BY <2>1, <2>3, <3>1, GreatestNumber
      <3>3. n \in top /\ \A j \in top : j <= n
        BY <1>2, <2>3, <3>2
      <3>4. QED BY <1>1, <2>1, <3>3
    <2>4. QED BY <2>2, <2>3
  <1>4. PICK t : t = Trim(s)
    OBVIOUS
  <1>5. t = SubSeq(s, 1, n)
    BY <1>1, <1>2, <1>4 DEF Trim
  <1>6. t \in Seq(Limb) /\ Len(t) = n /\ \A i \in 1 .. n : t[i] = s[i]
    BY <1>3, <1>5
  <1>7. NatOf(t) = Sums(s)[n]
    BY <1>3, <1>6, NatOfFirst
  <1>8. Sums(s)[Len(s)] = Sums(s)[n]
    <2>1. Len(s) \in Nat /\ n \in Nat /\ n <= Len(s)
      BY <1>3
    <2>2. \A i \in n + 1 .. Len(s) : LimbAt(s, i) = 0
      BY <1>3, <2>1 DEF LimbAt
    <2>3. QED BY <2>1, <2>2, SumsZero
  <1>9. NatOf(t) = NatOf(s)
    BY <1>7, <1>8, NatOfIs
  <1>10. t # <<>> => n > 0
    BY <1>3, <1>6
  <1>11. QED BY <1>3, <1>4, <1>6, <1>9, <1>10

\* a sign is a truth value
LEMMA SignIs ==
  ASSUME NEW n \in Int
  PROVE  \E neg \in BOOLEAN : neg = (n < 0) /\ (neg <=> n < 0)
  <1>1. CASE n < 0
    <2>1. (n < 0) = TRUE
      BY <1>1
    <2>2. QED BY <1>1, <2>1, Zenon
  <1>2. CASE ~(n < 0)
    <2>1. (n < 0) = FALSE
      BY <1>2
    <2>2. QED BY <1>2, <2>1, Zenon
  <1>3. QED BY <1>1, <1>2

\* the magnitudes up to the limit are those of fixnums
LEMMA LimitsAre ==
  ASSUME NEW neg \in BOOLEAN
  PROVE  /\ Limit(neg) \in Nat /\ Limit(neg) >= 1 /\ Limit(neg) < B
         /\ \A n \in Nat : n <= Limit(neg) <=> FitsFixnum(IF neg THEN -n ELSE n)
  BY BaseFacts DEF Limit, FitsFixnum

\* what normalize_bignum returns is verified and of the same value
LEMMA NormalizeIs ==
  ASSUME NEW s \in Seq(Limb), NEW neg \in BOOLEAN
  PROVE  /\ Normalize(s, neg) \in Number /\ Verified(Normalize(s, neg))
         /\ Value(Normalize(s, neg)) = IF neg THEN -NatOf(s) ELSE NatOf(s)
  <1>1. PICK t \in Seq(Limb) : /\ t = Trim(s) /\ NatOf(t) = NatOf(s)
                               /\ t # <<>> => Len(t) > 0 /\ t[Len(t)] # 0
    BY TrimIs
  <1>2. PICK r : r = Normalize(s, neg)
    OBVIOUS
  <1>3. CASE t = <<>>
    <2>1. r = Fix(0)
      BY <1>1, <1>2, <1>3 DEF Normalize
    <2>2. NatOf(s) = 0
      BY <1>1, <1>3, NatOfNone
    <2>3. FitsFixnum(0)
      BY BaseFacts DEF FitsFixnum
    <2>4. QED BY <1>2, <2>1, <2>2, <2>3, FixIs
  <1>4. CASE t # <<>> /\ Len(t) = 1 /\ t[1] <= Limit(neg)
    <2>1. r = Fix(IF neg THEN -t[1] ELSE t[1])
      BY <1>1, <1>2, <1>4 DEF Normalize
    <2>2. t[1] \in Limb /\ t = <<t[1]>>
      BY <1>4
    <2>3. PICK l \in Limb : l = t[1] /\ l \in Nat /\ NatOf(s) = l
      BY <1>1, <2>2, NatOfOne, BaseFacts
    <2>4. PICK n \in Int : n = (IF neg THEN -l ELSE l) /\ FitsFixnum(n)
      BY <1>4, <2>3, LimitsAre
    <2>5. QED BY <1>2, <2>1, <2>3, <2>4, FixIs
  <1>5. CASE t # <<>> /\ ~(Len(t) = 1 /\ t[1] <= Limit(neg))
    <2>1. r = Big(neg, t)
      BY <1>1, <1>2, <1>5 DEF Normalize
    <2>2. Len(t) = 1 => t[1] > Limit(neg)
      <3>1. Len(t) = 1 => t[1] \in Nat
        <4>1. Len(t) = 1 => t[1] \in Limb
          OBVIOUS
        <4>2. QED BY <4>1, BaseFacts
      <3>2. QED BY <1>5, <3>1, LimitsAre
    <2>3. QED BY <1>1, <1>2, <1>5, <2>1, <2>2, BigIs
  <1>6. QED BY <1>3, <1>4, <1>5

\* a long as a number
LEMMA FromLongIs ==
  ASSUME NEW n \in Int, Magnitude(n) < B
  PROVE  /\ FromLong(n) \in Number /\ Verified(FromLong(n)) /\ Value(FromLong(n)) = n
         /\ ~IsFix(FromLong(n)) => Len(FromLong(n).limbs) = 1
  <1>1. CASE FitsFixnum(n)
    BY <1>1, FixIs DEF FromLong
  <1>2. CASE ~FitsFixnum(n)
    <2>1. PICK l \in Limb : l = Magnitude(n)
      BY BaseFacts DEF Magnitude, Limb
    <2>2. FromLong(n) = Big(n < 0, <<l>>)
      BY <1>2, <2>1 DEF FromLong
    <2>9. PICK neg \in BOOLEAN : neg = (n < 0) /\ (neg <=> n < 0)
      BY SignIs
    <2>3. PICK s : s = <<l>>
      OBVIOUS
    <2>11. s \in Seq(Limb) /\ Len(s) = 1 /\ s[1] = l
      BY <2>3
    <2>4. NatOf(s) = l
      BY <2>3, NatOfOne
    <2>5. l \in Nat /\ n = IF neg THEN -l ELSE l
      BY <2>1, <2>9, BaseFacts DEF Magnitude
    <2>6. l > Limit(neg)
      <3>1. ~(l <= Limit(neg))
        BY <1>2, <2>5, LimitsAre
      <3>2. QED BY <2>5, <3>1, LimitsAre
    <2>7. l # 0
      BY <1>2, <2>5, BaseFacts DEF FitsFixnum
    <2>10. FromLong(n) = Big(neg, s)
      BY <2>2, <2>3, <2>9, Zenon
    <2>8. QED BY <2>10, <2>11, <2>4, <2>5, <2>6, <2>7, BigIs
  <1>3. QED BY <1>1, <1>2

-----------------------------------------------------------------------------
(* Operands *)

\* what verify_bignum accepts
Proper == {v \in Number : Verified(v)}
WithSign(neg, n) == IF neg THEN -n ELSE n

\* a bignum of sign neg, of L + 1 limbs s that stand for n
Stands(b, neg, s, n, L) ==
  /\ b = Big(neg, s) /\ b.neg = neg /\ b.limbs = s /\ ~IsFix(b)
  /\ neg \in BOOLEAN /\ s \in Seq(Limb) /\ L \in Nat /\ n \in Nat
  /\ Len(s) = L + 1 /\ s[L + 1] # 0 /\ n = NatOf(s)
  /\ n > Limit(neg) /\ B^^L <= n /\ n < B^^(L + 1)
  /\ Value(b) = WithSign(neg, n)

\* a fixnum that is verified: its magnitude fits a limb
LEMMA ProperFix ==
  ASSUME NEW a \in Proper, IsFix(a)
  PROVE  /\ a = Fix(a.int) /\ a.int \in Int /\ Value(a) = a.int /\ FitsFixnum(a.int)
         /\ Magnitude(a.int) \in Limb /\ Magnitude(a.int) \in Nat
         /\ Magnitude(a.int) <= most_negative_fixnum
  <1>1. a = Fix(a.int) /\ a.int \in Int /\ Value(a) = a.int /\ FitsFixnum(a.int)
    BY NumberIs DEF Proper
  <1>2. PICK n \in Int : n = a.int /\ FitsFixnum(n)
    BY <1>1
  <1>3. Magnitude(n) \in Limb /\ Magnitude(n) \in Nat /\ Magnitude(n) <= most_negative_fixnum
    BY <1>2, BaseFacts DEF Magnitude, FitsFixnum, Limb
  <1>4. QED BY <1>1, <1>2, <1>3

\* a bignum that is verified, taken apart
LEMMA ProperBig ==
  ASSUME NEW b \in Proper, ~IsFix(b)
  PROVE  \E neg \in BOOLEAN, s \in Seq(Limb), n \in Nat, L \in Nat : Stands(b, neg, s, n, L)
  <1>1. /\ b = Big(b.neg, b.limbs) /\ b.neg \in BOOLEAN /\ b.limbs \in Seq(Limb)
        /\ Value(b) = IF b.neg THEN -NatOf(b.limbs) ELSE NatOf(b.limbs)
        /\ Len(b.limbs) > 0 /\ b.limbs[Len(b.limbs)] # 0
        /\ Len(b.limbs) = 1 => b.limbs[1] > Limit(b.neg)
    BY NumberIs DEF Proper
  <1>2. PICK neg \in BOOLEAN, s \in Seq(Limb) : neg = b.neg /\ s = b.limbs
    BY <1>1
  <1>3. PICK L \in Nat : Len(s) = L + 1
    <2>1. Len(s) \in Nat /\ Len(s) > 0
      BY <1>1, <1>2
    <2>2. Len(s) - 1 \in Nat /\ Len(s) = Len(s) - 1 + 1
      BY <2>1
    <2>3. QED BY <2>2
  <1>4. s[L + 1] # 0
    BY <1>1, <1>2, <1>3
  <1>5. PICK n \in Nat : n = NatOf(s) /\ n < B^^(L + 1) /\ B^^L <= n
    BY <1>3, <1>4, NatOfBounded, NatOfLong
  <1>6. n > Limit(neg)
    <2>1. CASE L = 0
      <3>1. PICK l \in Limb : l = s[1]
        BY <1>3
      <3>2. s = <<l>>
        BY <1>3, <2>1, <3>1
      <3>3. n = l
        BY <1>5, <3>2, NatOfOne
      <3>4. QED BY <1>1, <1>2, <1>3, <2>1, <3>1, <3>3
    <2>2. CASE L # 0
      <3>1. B^^1 <= B^^L
        BY <2>2, BaseFacts, PowersGrow
      <3>2. PICK p \in Nat, b1 \in Nat : p = B^^L /\ b1 = B /\ b1 <= p
        BY <3>1, BasePowers, BaseFacts
      <3>3. QED BY <1>5, <3>2, LimitsAre
    <2>3. QED BY <2>1, <2>2
  <1>7. Value(b) = WithSign(neg, n)
    BY <1>1, <1>2, <1>5 DEF WithSign
  <1>8. Stands(b, neg, s, n, L)
    BY <1>1, <1>2, <1>3, <1>4, <1>5, <1>6, <1>7 DEF Stands
  <1>9. QED BY <1>8

-----------------------------------------------------------------------------
(* Sums and differences of magnitudes *)

\* the sum of two magnitudes is the limbs kept and the carry
LEMMA AddIs ==
  ASSUME NEW s \in Seq(Limb), NEW t \in Seq(Limb), Len(t) <= Len(s)
  PROVE  /\ MpnAdd(s, t) \in Seq(Limb) /\ Len(MpnAdd(s, t)) = Len(s)
         /\ MpnAddCarry(s, t) \in {0, 1}
         /\ NatOf(MpnAdd(s, t)) + MpnAddCarry(s, t) * B^^Len(s) = NatOf(s) + NatOf(t)
  <1>1. PICK k \in Nat : k = Len(s)
    OBVIOUS
  <1>2. PICK n \in Nat, m \in Nat, p \in Nat :
          n = NatOf(s) /\ m = NatOf(t) /\ p = B^^k /\ n < p /\ m < p /\ p > 0
    <2>0. B \in Nat /\ B > 0 /\ Len(t) \in Nat /\ Len(t) <= k
      BY <1>1, BaseFacts
    <2>5. B^^Len(t) <= B^^k
      BY <2>0, PowersGrow
    <2>1. PICK p \in Nat, q \in Nat : p = B^^k /\ p > 0 /\ q = B^^Len(t) /\ q <= p
      BY <2>0, <2>5, BasePowers
    <2>2. NatOf(s) \in Nat /\ NatOf(s) < p /\ NatOf(t) \in Nat /\ NatOf(t) < q
      BY <1>1, <2>1, NatOfBounded
    <2>3. NatOf(t) < p
      BY <2>1, <2>2
    <2>4. QED BY <2>1, <2>2, <2>3
  <1>3. PICK a \in Int : a = n + m /\ a >= 0
    OBVIOUS
  <1>4. PICK c \in Int, r \in Nat : c = a \div p /\ r = a % p /\ r < p /\ a = p * c + r
    BY <1>2, Divided
  <1>5. c \in {0, 1}
    <2>1. a < 2 * p
      BY <1>2, <1>3
    <2>4. a \div p \in Nat
      BY <1>2, <1>3, DivisionFacts
    <2>2. c >= 0
      BY <1>4, <2>4
    <2>3. ASSUME c >= 2 PROVE FALSE
      <3>1. PICK d \in Nat : c = 2 + d
        <4>1. c - 2 \in Nat /\ c = 2 + (c - 2)
          BY <2>3
        <4>2. QED BY <4>1
      <3>2. PICK e \in Nat : e = p * d
        OBVIOUS
      <3>3. p * c = 2 * p + e
        BY <3>1, <3>2
      <3>4. QED BY <1>4, <2>1, <3>2, <3>3
    <2>5. QED BY <2>2, <2>3
  <1>6. MpnAdd(s, t) = LimbsOf(a, k) /\ MpnAddCarry(s, t) = c
    BY <1>1, <1>2, <1>3, <1>4 DEF MpnAdd, MpnAddCarry
  <1>7. MpnAdd(s, t) \in Seq(Limb) /\ Len(MpnAdd(s, t)) = k /\ NatOf(MpnAdd(s, t)) = r
    <2>1. LimbsOf(a, k) \in Seq(Limb) /\ Len(LimbsOf(a, k)) = k
      BY LimbsOfAre
    <2>2. NatOf(LimbsOf(a, k)) = a % B^^k
      BY NatOfLimbsOf
    <2>3. NatOf(LimbsOf(a, k)) = r
      BY <1>2, <1>4, <2>2
    <2>4. QED BY <1>6, <2>1, <2>3
  <1>8. r + c * p = n + m
    BY <1>3, <1>4
  <1>9. QED BY <1>1, <1>2, <1>5, <1>6, <1>7, <1>8

\* the difference of two magnitudes
LEMMA SubIs ==
  ASSUME NEW s \in Seq(Limb), NEW t \in Seq(Limb), NatOf(t) <= NatOf(s)
  PROVE  /\ MpnSub(s, t) \in Seq(Limb) /\ Len(MpnSub(s, t)) = Len(s)
         /\ NatOf(MpnSub(s, t)) = NatOf(s) - NatOf(t)
  <1>1. PICK k \in Nat : k = Len(s)
    OBVIOUS
  <1>2. PICK n \in Nat, m \in Nat, p \in Nat :
          n = NatOf(s) /\ m = NatOf(t) /\ p = B^^k /\ n < p /\ m <= n
    BY <1>1, NatOfBounded, BasePowers
  <1>3. PICK a \in Nat : a = n - m /\ a < p
    BY <1>2
  <1>4. MpnSub(s, t) = LimbsOf(a, k)
    BY <1>1, <1>2, <1>3 DEF MpnSub
  <1>5. QED BY <1>1, <1>2, <1>3, <1>4, LimbsOfAre, NatOfItsLimbs

\* a sequence of one limb
LEMMA OneLimb ==
  ASSUME NEW l \in Limb
  PROVE  <<l>> \in Seq(Limb) /\ Len(<<l>>) = 1 /\ NatOf(<<l>>) = l /\ l \in Nat
  BY NatOfOne, BaseFacts

\* Grow
LEMMA GrowIs ==
  ASSUME NEW b \in Proper, ~IsFix(b), NEW l \in Limb, NEW neg \in BOOLEAN
  PROVE  Value(Grow(b, l, neg)) = WithSign(neg, NatOf(b.limbs) + l)
  <1>1. PICK bneg \in BOOLEAN, s \in Seq(Limb), n \in Nat, L \in Nat : Stands(b, bneg, s, n, L)
    BY ProperBig
  <1>2. s = b.limbs /\ Len(s) = L + 1 /\ n = NatOf(s)
    BY <1>1 DEF Stands
  <1>3. PICK t : t = <<l>>
    OBVIOUS
  <1>4. t \in Seq(Limb) /\ Len(t) = 1 /\ NatOf(t) = l /\ l \in Nat
    BY <1>3, OneLimb
  <1>5. PICK u, c : u = MpnAdd(s, t) /\ c = MpnAddCarry(s, t)
    OBVIOUS
  <1>6. PICK p \in Nat : p = B^^(L + 1)
    BY BasePowers
  <1>7. /\ u \in Seq(Limb) /\ Len(u) = L + 1 /\ c \in {0, 1}
        /\ NatOf(u) + c * p = n + l
    BY <1>2, <1>4, <1>5, <1>6, AddIs
  <1>8. Grow(b, l, neg) = Big(neg, u \o (IF c > 0 THEN <<1>> ELSE <<>>))
    BY <1>2, <1>3, <1>5 DEF Grow
  <1>9. CASE c = 0
    <2>1. Grow(b, l, neg) = Big(neg, u)
      BY <1>7, <1>8, <1>9
    <2>2. NatOf(u) = n + l
      BY <1>7, <1>9, NatOfIs
    <2>3. QED BY <1>2, <1>7, <2>1, <2>2, BigIs DEF WithSign
  <1>10. CASE c = 1
    <2>1. PICK w : w = u \o <<1>>
      OBVIOUS
    <2>2. 1 \in Limb
      BY BaseFacts DEF Limb
    <2>3. w \in Seq(Limb) /\ Len(w) = Len(u) + 1 /\ w[Len(w)] = 1 /\ \A i \in 1 .. Len(u) : w[i] = u[i]
      BY <1>7, <2>1, <2>2
    <2>4. NatOf(w) = NatOf(u) + w[Len(w)] * B^^Len(u)
      BY <1>7, <2>3, NatOfAppend
    <2>5. NatOf(w) = n + l
      BY <1>6, <1>7, <1>10, <2>3, <2>4, NatOfIs
    <2>6. Grow(b, l, neg) = Big(neg, w)
      BY <1>8, <1>10, <2>1
    <2>7. QED BY <1>2, <2>3, <2>5, <2>6, BigIs DEF WithSign
  <1>11. QED BY <1>7, <1>9, <1>10

\* Shrink
LEMMA ShrinkIs ==
  ASSUME NEW b \in Proper, ~IsFix(b), NEW l \in Limb, l <= most_negative_fixnum, NEW neg \in BOOLEAN
  PROVE  Value(Shrink(b, l, neg)) = WithSign(neg, NatOf(b.limbs) - l)
  <1>1. PICK bneg \in BOOLEAN, s \in Seq(Limb), n \in Nat, L \in Nat : Stands(b, bneg, s, n, L)
    BY ProperBig
  <1>2. s = b.limbs /\ Len(s) = L + 1 /\ n = NatOf(s) /\ n > Limit(bneg)
    BY <1>1 DEF Stands
  <1>3. PICK t : t = <<l>>
    OBVIOUS
  <1>4. t \in Seq(Limb) /\ NatOf(t) = l /\ l \in Nat
    BY <1>3, OneLimb
  <1>5. l <= n
    BY <1>2, <1>4, BaseFacts DEF Limit
  <1>6. PICK r : r = MpnSub(s, t)
    OBVIOUS
  <1>7. PICK a \in Nat : a = n - l
    BY <1>4, <1>5
  <1>8. r \in Seq(Limb) /\ Len(r) = L + 1 /\ NatOf(r) = a
    BY <1>2, <1>4, <1>5, <1>6, <1>7, SubIs
  <1>9. PICK size \in Nat : size = IF r[L + 1] # 0 THEN L + 1 ELSE L
    OBVIOUS
  <1>10. PICK u : u = SubSeq(r, 1, size)
    OBVIOUS
  <1>18. u \in Seq(Limb) /\ Len(u) = size /\ \A i \in 1 .. size : u[i] = r[i]
    BY <1>8, <1>9, <1>10
  <1>11. u \in Seq(Limb) /\ Len(u) = size /\ NatOf(u) = a
    <2>1. size <= L + 1
      BY <1>9
    <2>2. u \in Seq(Limb) /\ Len(u) = size /\ \A i \in 1 .. Len(u) : u[i] = r[i]
      BY <1>8, <1>10, <2>1
    <2>3. CASE size = L + 1
      <3>1. u = r
        BY <1>8, <2>2, <2>3
      <3>2. QED BY <1>8, <2>2, <3>1
    <2>4. CASE size = L /\ r[L + 1] = 0
      <3>1. NatOf(r) = NatOf(u) + r[L + 1] * B^^L
        BY <1>8, <2>2, <2>4, NatOfAppend
      <3>2. NatOf(u) \in Nat /\ B^^L \in Nat
        BY <2>2, NatOfIs, BasePowers
      <3>3. QED BY <1>8, <2>2, <2>4, <3>1, <3>2
    <2>5. QED BY <1>9, <2>3, <2>4
  <1>17. size = IF r[Len(r)] # 0 THEN Len(r) ELSE Len(r) - 1
    BY <1>8, <1>9
  <1>12. Shrink(b, l, neg) =
           IF size = 0 THEN Fix(0)
           ELSE IF size = 1 /\ r[1] <= Limit(neg) THEN Fix(IF neg THEN -r[1] ELSE r[1])
           ELSE Big(neg, u)
    BY <1>2, <1>3, <1>6, <1>10, <1>17, Zenon DEF Shrink
  <1>13. CASE size = 0
    <2>1. u = <<>>
      BY <1>11, <1>13
    <2>2. a = 0
      BY <1>11, <2>1, NatOfNone
    <2>3. QED BY <1>2, <1>7, <1>12, <1>13, <2>2, FixIs DEF WithSign
  <1>14. CASE size = 1 /\ r[1] <= Limit(neg)
    <2>1. PICK d : d = r[1]
      OBVIOUS
    <2>5. Len(u) = 1 /\ u[1] = d
      BY <1>14, <1>18, <2>1
    <2>6. d \in Limb
      <3>1. \A i \in 1 .. Len(u) : u[i] \in Limb
        BY <1>18, LimbsAre
      <3>2. 1 \in 1 .. Len(u)
        BY <2>5
      <3>3. QED BY <2>5, <3>1, <3>2
    <2>2. u = <<d>> /\ d \in Limb
      BY <1>18, <2>5, <2>6
    <2>3. a = d
      BY <1>11, <2>2, NatOfOne
    <2>4. QED BY <1>2, <1>7, <1>12, <1>14, <2>1, <2>3, FixIs DEF WithSign
  <1>15. CASE size # 0 /\ ~(size = 1 /\ r[1] <= Limit(neg))
    <2>1. Shrink(b, l, neg) = Big(neg, u)
      BY <1>12, <1>15
    <2>2. QED BY <1>2, <1>7, <1>11, <2>1, BigIs DEF WithSign
  <1>16. QED BY <1>13, <1>14, <1>15

-----------------------------------------------------------------------------
(* The order of magnitudes *)

\* the higher digit decides
LEMMA DigitOrder ==
  ASSUME NEW p \in Nat, NEW v \in Nat, v < p, NEW w \in Nat,
         NEW l \in Nat, NEW m \in Nat, l < m
  PROVE  v + l * p < w + m * p
  <1>1. PICK k \in Nat : m = l + 1 + k
    <2>1. m - l - 1 \in Nat /\ m = l + 1 + (m - l - 1)
      OBVIOUS
    <2>2. QED BY <2>1
  <1>2. PICK q \in Nat, r \in Nat : q = l * p /\ r = k * p
    OBVIOUS
  <1>3. m * p = q + p + r
    BY <1>1, <1>2
  <1>4. QED BY <1>2, <1>3

\* the highest limbs that differ order two naturals with as many limbs
LEMMA UnequalIs ==
  ASSUME NEW s \in Seq(Limb), NEW t \in Seq(Limb), NEW k \in Nat, Len(s) = k, Len(t) = k
  PROVE  /\ Unequal(s, t) \in 0 .. k
         /\ Unequal(s, t) = 0 => NatOf(s) = NatOf(t)
         /\ Unequal(s, t) # 0 =>
              /\ NatOf(s) # NatOf(t)
              /\ NatOf(s) < NatOf(t) <=> s[Unequal(s, t)] < t[Unequal(s, t)]
  <1> DEFINE d == {i \in DOMAIN s : s[i] # t[i]}
  <1>1. d = {i \in DOMAIN s : s[i] # t[i]}
    OBVIOUS
  <1>3. PICK j : j = Unequal(s, t)
    OBVIOUS
  <1>5. Len(s) = Len(t)
    OBVIOUS
  <1>2. j = IF d = {} THEN 0 ELSE CHOOSE i \in d : \A g \in d : g <= i
    BY <1>3, <1>5 DEF Unequal
  <1> HIDE DEF d
  <1>4. /\ j \in 0 .. k
        /\ j > 0 => s[j] # t[j]
        /\ \A i \in j + 1 .. k : s[i] = t[i]
    <2>1. DOMAIN s = 1 .. k
      OBVIOUS
    <2>2. CASE d = {}
      BY <1>1, <1>2, <2>1, <2>2
    <2>3. CASE d # {}
      <3>1. d \subseteq 0 .. k
        BY <1>1, <2>1
      <3>2. \E i \in d : \A h \in d : h <= i
        BY <2>1, <2>3, <3>1, GreatestNumber
      <3>3. j \in d /\ \A h \in d : h <= j
        BY <1>2, <2>3, <3>2
      <3>4. QED BY <1>1, <2>1, <3>3
    <2>4. QED BY <2>2, <2>3
  <1>11. PICK S, R : S = Sums(s) /\ R = Sums(t)
    OBVIOUS
  <1>6. NatOf(s) = S[k] /\ NatOf(t) = R[k] /\ S[j] \in Nat /\ R[j] \in Nat /\ S[k] \in Nat /\ R[k] \in Nat
    <2>1. NatOf(s) = S[k] /\ NatOf(t) = R[k]
      BY <1>11, NatOfIs
    <2>2. j \in Nat
      BY <1>4
    <2>3. \A i \in Nat : S[i] \in Nat /\ R[i] \in Nat
      BY <1>11, SumsAre
    <2>4. QED BY <2>1, <2>2, <2>3
  <1>7. S[k] - S[j] = R[k] - R[j]
    <2>1. \A i \in j + 1 .. k : LimbAt(s, i) = LimbAt(t, i)
      BY <1>4 DEF LimbAt
    <2>2. j \in Nat /\ j <= k
      BY <1>4
    <2>3. QED BY <1>11, <2>1, <2>2, SumsAbove
  <1>8. CASE j = 0
    <2>1. S[0] = 0 /\ R[0] = 0
      BY <1>11, SumsAre
    <2>2. QED BY <1>3, <1>4, <1>6, <1>7, <1>8, <2>1
  <1>9. CASE j # 0
    <2>1. PICK i \in Nat : j = i + 1 /\ i + 1 \in 1 .. k
      <3>1. j - 1 \in Nat /\ j = j - 1 + 1 /\ j \in 1 .. k
        BY <1>4, <1>9
      <3>2. QED BY <3>1
    <2>2. PICK l \in Nat, m \in Nat, p \in Nat : l = s[j] /\ m = t[j] /\ p = B^^i
      <3>1. s[j] \in Limb /\ t[j] \in Limb
        BY <2>1, LimbsAre
      <3>2. QED BY <3>1, BaseFacts, BasePowers
    <2>3. PICK v \in Nat, w \in Nat : v = S[i] /\ w = R[i] /\ v < p /\ w < p
      BY <1>11, <2>2, SumsBounded
    <2>4. S[j] = v + l * p /\ R[j] = w + m * p
      <3>1. LimbAt(s, i + 1) = l /\ LimbAt(t, i + 1) = m
        BY <2>1, <2>2, LimbsAre
      <3>2. Term(s, i + 1) = l * p /\ Term(t, i + 1) = m * p
        BY <2>2, <3>1, TermsAre
      <3>3. S[i + 1] = S[i] + Term(s, i + 1) /\ R[i + 1] = R[i] + Term(t, i + 1)
        BY <1>11, SumsAre
      <3>4. QED BY <2>1, <2>3, <3>2, <3>3
    <2>10. v < p /\ w < p
      BY <2>3
    <2>5. l < m => S[j] < R[j]
      <3>1. l < m => v + l * p < w + m * p
        BY <2>10, DigitOrder
      <3>2. QED BY <2>4, <3>1
    <2>6. m < l => R[j] < S[j]
      <3>1. m < l => w + m * p < v + l * p
        BY <2>10, DigitOrder
      <3>2. QED BY <2>4, <3>1
    <2>7. l # m
      BY <1>4, <1>9, <2>2
    <2>8. NatOf(s) # NatOf(t) /\ (NatOf(s) < NatOf(t) <=> l < m)
      BY <1>6, <1>7, <2>5, <2>6, <2>7
    <2>9. QED BY <1>3, <1>4, <1>9, <2>2, <2>8
  <1>10. QED BY <1>8, <1>9

\* the code's test for the smaller of two bignums
LEMMA MagnitudesOrdered ==
  ASSUME NEW a, NEW aneg, NEW s, NEW n, NEW L, Stands(a, aneg, s, n, L),
         NEW b, NEW bneg, NEW t, NEW m, NEW M, Stands(b, bneg, t, m, M)
  PROVE  /\ Unequal(s, t) \in Nat
         /\ Unequal(s, t) = 0 <=> n = m
         /\ n < m <=> \/ Len(s) < Len(t)
                      \/ Len(s) = Len(t) /\ Unequal(s, t) > 0 /\ s[Unequal(s, t)] < t[Unequal(s, t)]
  <1>1. /\ s \in Seq(Limb) /\ Len(s) = L + 1 /\ L \in Nat /\ n \in Nat /\ n = NatOf(s)
        /\ B^^L <= n /\ n < B^^(L + 1)
    BY DEF Stands
  <1>2. /\ t \in Seq(Limb) /\ Len(t) = M + 1 /\ M \in Nat /\ m \in Nat /\ m = NatOf(t)
        /\ B^^M <= m /\ m < B^^(M + 1)
    BY DEF Stands
  <1>3. ASSUME NEW i \in Nat, NEW j \in Nat, i < j PROVE B^^(i + 1) <= B^^j
    BY <1>3, BaseFacts, PowersGrow
  <1>4. PICK k : k = Unequal(s, t)
    OBVIOUS
  <1>5. CASE L < M
    <2>0. L + 1 \in Nat /\ B^^(L + 1) <= B^^M
      BY <1>1, <1>2, <1>3, <1>5
    <2>1. PICK p \in Nat, q \in Nat : p = B^^(L + 1) /\ q = B^^M /\ p <= q
      BY <1>2, <2>0, BasePowers
    <2>2. n < m
      BY <1>1, <1>2, <2>1
    <2>3. k = L + 1
      BY <1>1, <1>2, <1>4, <1>5 DEF Unequal
    <2>4. QED BY <1>1, <1>2, <1>4, <1>5, <2>2, <2>3
  <1>6. CASE M < L
    <2>0. M + 1 \in Nat /\ B^^(M + 1) <= B^^L
      BY <1>1, <1>2, <1>3, <1>6
    <2>1. PICK p \in Nat, q \in Nat : p = B^^(M + 1) /\ q = B^^L /\ p <= q
      BY <1>1, <2>0, BasePowers
    <2>2. m < n
      BY <1>1, <1>2, <2>1
    <2>3. k = L + 1
      BY <1>1, <1>2, <1>4, <1>6 DEF Unequal
    <2>4. QED BY <1>1, <1>2, <1>4, <1>6, <2>2, <2>3
  <1>7. CASE L = M
    <2>1. /\ k \in 0 .. L + 1
          /\ k = 0 => n = m
          /\ k # 0 => n # m /\ (n < m <=> s[k] < t[k])
      <3>1. L + 1 \in Nat /\ Len(s) = L + 1 /\ Len(t) = L + 1
        BY <1>1, <1>2, <1>7
      <3>2. QED BY <1>1, <1>2, <1>4, <3>1, UnequalIs
    <2>2. QED BY <1>1, <1>2, <1>4, <1>7, <2>1
  <1>8. QED BY <1>1, <1>2, <1>5, <1>6, <1>7

-----------------------------------------------------------------------------
(* Two bignums *)

\* the carry goes where it does not belong
Misplaced(a, b) ==
  /\ ~IsFix(a) /\ ~IsFix(b) /\ Len(a.limbs) < Len(b.limbs) /\ MpnAddCarry(b.limbs, a.limbs) > 0

\* the sum of two magnitudes, unless its carry is misplaced
LEMMA BnBnGrowIs ==
  ASSUME NEW a \in Proper, ~IsFix(a), NEW b \in Proper, ~IsFix(b), ~Misplaced(a, b),
         NEW neg \in BOOLEAN, NEW rest \in Limb
  PROVE  Value(BnBnGrow(a, b, neg, rest)) = WithSign(neg, NatOf(a.limbs) + NatOf(b.limbs))
  <1>1. PICK s \in Seq(Limb), t \in Seq(Limb) : s = a.limbs /\ t = b.limbs
    BY NumberIs DEF Proper
  <1>2. PICK u \in Seq(Limb), v \in Seq(Limb) :
          /\ u = (IF Len(s) > Len(t) THEN s ELSE t) /\ v = (IF Len(s) > Len(t) THEN t ELSE s)
    OBVIOUS
  <1>3. Len(v) <= Len(u)
    BY <1>2
  <1>4. PICK n \in Nat, m \in Nat : n = NatOf(s) /\ m = NatOf(t)
    BY NatOfIs
  <1>5. NatOf(u) + NatOf(v) = n + m
    BY <1>2, <1>4
  <1>6. PICK w, c : w = MpnAdd(u, v) /\ c = MpnAddCarry(u, v)
    OBVIOUS
  <1>7. PICK k \in Nat : k = Len(u)
    OBVIOUS
  <1>8. PICK p \in Nat : p = B^^k
    BY BasePowers
  <1>9. w \in Seq(Limb) /\ Len(w) = k /\ c \in {0, 1} /\ NatOf(w) + c * p = n + m
    BY <1>3, <1>5, <1>6, <1>7, <1>8, AddIs
  <1>10. c = 1 => Len(s) = k
    <2>1. Len(s) < Len(t) => c = 0
      <3>1. Len(s) < Len(t) => u = t /\ v = s
        BY <1>2
      <3>2. Len(s) < Len(t) => ~(c > 0)
        BY <1>1, <1>6, <3>1 DEF Misplaced
      <3>3. QED BY <1>9, <3>2
    <2>2. QED BY <1>2, <1>7, <2>1
  <1>11. BnBnGrow(a, b, neg, rest) =
           IF c = 0 THEN Big(neg, w) ELSE Big(neg, [Append(w, rest) EXCEPT ![Len(s) + 1] = 1])
    <2>1. /\ u = (IF Len(s) > Len(t) THEN a ELSE b).limbs
          /\ v = (IF Len(s) > Len(t) THEN b ELSE a).limbs
      BY <1>1, <1>2
    <2>2. QED BY <1>1, <1>6, <2>1, Zenon DEF BnBnGrow
  <1>12. CASE c = 0
    <2>1. NatOf(w) = n + m
      BY <1>9, <1>12, NatOfIs
    <2>2. QED BY <1>1, <1>4, <1>9, <1>11, <1>12, <2>1, BigIs DEF WithSign
  <1>13. CASE c = 1
    <2>1. PICK z : z = [Append(w, rest) EXCEPT ![k + 1] = 1]
      OBVIOUS
    <2>2. 1 \in Limb
      BY BaseFacts DEF Limb
    <2>3. PICK y0 : y0 = Append(w, rest)
      OBVIOUS
    <2>4. y0 \in Seq(Limb) /\ Len(y0) = k + 1 /\ \A i \in 1 .. k : y0[i] = w[i]
      BY <1>9, <2>3
    <2>5. z \in Seq(Limb) /\ Len(z) = k + 1 /\ z[k + 1] = 1 /\ \A i \in 1 .. k : z[i] = w[i]
      <3>1. y0 \in [1 .. k + 1 -> Limb]
        BY <2>4
      <3>2. z = [y0 EXCEPT ![k + 1] = 1]
        BY <2>1, <2>3, Zenon
      <3>3. z \in [1 .. k + 1 -> Limb] /\ z[k + 1] = 1 /\ \A i \in 1 .. k : z[i] = y0[i]
        BY <2>2, <3>1, <3>2
      <3>4. QED BY <2>4, <3>3
    <2>6. NatOf(z) = NatOf(w) + 1 * p
      BY <1>8, <1>9, <2>5, NatOfAppend
    <2>7. NatOf(z) = n + m
      BY <1>9, <1>13, <2>6, NatOfIs
    <2>8. BnBnGrow(a, b, neg, rest) = Big(neg, z)
      <3>1. ~(c = 0) /\ Len(s) = k
        BY <1>10, <1>13
      <3>2. QED BY <1>11, <2>1, <3>1, Zenon
    <2>9. QED BY <1>1, <1>4, <2>5, <2>7, <2>8, BigIs DEF WithSign
  <1>14. QED BY <1>9, <1>12, <1>13

\* the difference has the sign of the larger
LEMMA BnBnShrinkIs ==
  ASSUME NEW a \in Proper, ~IsFix(a), NEW b \in Proper, ~IsFix(b),
         NEW aneg \in BOOLEAN, NEW bneg \in BOOLEAN, bneg # aneg
  PROVE  Value(BnBnShrink(a, b, aneg, bneg)) = WithSign(aneg, NatOf(a.limbs) - NatOf(b.limbs))
  <1>1. PICK an \in BOOLEAN, s \in Seq(Limb), n \in Nat, L \in Nat : Stands(a, an, s, n, L)
    BY ProperBig
  <1>2. PICK bn \in BOOLEAN, t \in Seq(Limb), m \in Nat, M \in Nat : Stands(b, bn, t, m, M)
    BY ProperBig
  <1>3. /\ s = a.limbs /\ n = NatOf(s) /\ Len(s) = L + 1
        /\ t = b.limbs /\ m = NatOf(t) /\ Len(t) = M + 1
    BY <1>1, <1>2 DEF Stands
  <1>4. PICK k \in Nat :
          /\ k = Unequal(s, t)
          /\ k = 0 <=> n = m
          /\ n < m <=> Len(s) < Len(t) \/ (Len(s) = Len(t) /\ k > 0 /\ s[k] < t[k])
    BY <1>1, <1>2, MagnitudesOrdered
  <1>5. BnBnShrink(a, b, aneg, bneg) =
          IF k = 0 THEN Fix(0)
          ELSE IF Len(s) < Len(t) \/ (Len(s) = Len(t) /\ t[k] > s[k])
               THEN Normalize(MpnSub(t, s), bneg)
          ELSE Normalize(MpnSub(s, t), aneg)
    BY <1>3, <1>4, Zenon DEF BnBnShrink
  <1>6. CASE k = 0
    BY <1>3, <1>4, <1>5, <1>6, FixIs DEF WithSign
  <1>7. CASE k # 0 /\ n < m
    <2>1. Len(s) < Len(t) \/ (Len(s) = Len(t) /\ t[k] > s[k])
      <3>1. s[k] < t[k] => t[k] > s[k]
        OBVIOUS
      <3>2. QED BY <1>4, <1>7, <3>1
    <2>2. BnBnShrink(a, b, aneg, bneg) = Normalize(MpnSub(t, s), bneg)
      BY <1>5, <1>7, <2>1
    <2>3. MpnSub(t, s) \in Seq(Limb) /\ NatOf(MpnSub(t, s)) = m - n
      BY <1>3, <1>7, SubIs
    <2>4. Value(Normalize(MpnSub(t, s), bneg)) = IF bneg THEN -(m - n) ELSE m - n
      BY <2>3, NormalizeIs
    <2>5. QED BY <1>3, <2>2, <2>4 DEF WithSign
  <1>8. CASE k # 0 /\ ~(n < m)
    <2>1. ~(Len(s) < Len(t) \/ (Len(s) = Len(t) /\ t[k] > s[k]))
      <3>1. t[k] > s[k] => s[k] < t[k]
        OBVIOUS
      <3>2. k > 0
        BY <1>8
      <3>3. QED BY <1>4, <1>8, <3>1, <3>2
    <2>2. BnBnShrink(a, b, aneg, bneg) = Normalize(MpnSub(s, t), aneg)
      BY <1>5, <1>8, <2>1
    <2>3. MpnSub(s, t) \in Seq(Limb) /\ NatOf(MpnSub(s, t)) = n - m
      BY <1>3, <1>8, SubIs
    <2>4. Value(Normalize(MpnSub(s, t), aneg)) = IF aneg THEN -(n - m) ELSE n - m
      BY <2>3, NormalizeIs
    <2>5. QED BY <1>3, <2>2, <2>4 DEF WithSign
  <1>9. QED BY <1>6, <1>7, <1>8

-----------------------------------------------------------------------------
(* A fixnum and a bignum *)

\* whether an integer is positive, as a Boolean
LEMMA PositiveIs ==
  ASSUME NEW n \in Int
  PROVE  \E pos \in BOOLEAN : pos = (n > 0) /\ (pos <=> n > 0)
  <1>1. CASE n > 0
    <2>1. (n > 0) = TRUE
      BY <1>1
    <2>2. QED BY <1>1, <2>1, Zenon
  <1>2. CASE ~(n > 0)
    <2>1. (n > 0) = FALSE
      BY <1>2
    <2>2. QED BY <1>2, <2>1, Zenon
  <1>3. QED BY <1>1, <1>2

\* an operand of each kind, taken apart
FixAndBig(a, i, l, b, neg, s, n, L) ==
  /\ i \in Int /\ a.int = i /\ Value(a) = i /\ FitsFixnum(i)
  /\ l \in Limb /\ l \in Nat /\ l = Magnitude(i) /\ l <= most_negative_fixnum
  /\ l = IF i < 0 THEN -i ELSE i
  /\ Stands(b, neg, s, n, L)
  /\ b.neg = neg /\ b.limbs = s /\ Value(b) = WithSign(neg, n) /\ n = NatOf(s)

\* a fixnum and a bignum, taken apart
LEMMA FixAndBigAre ==
  ASSUME NEW a \in Proper, IsFix(a), NEW b \in Proper, ~IsFix(b)
  PROVE  \E i \in Int, l \in Nat, neg \in BOOLEAN, s \in Seq(Limb), n \in Nat, L \in Nat :
           FixAndBig(a, i, l, b, neg, s, n, L)
  <1>1. PICK neg \in BOOLEAN, s \in Seq(Limb), n \in Nat, L \in Nat : Stands(b, neg, s, n, L)
    BY ProperBig
  <1>2. PICK i \in Int, l \in Nat : i = a.int /\ l = Magnitude(i)
    BY ProperFix
  <1>3. /\ Value(a) = i /\ FitsFixnum(i) /\ l \in Limb /\ l <= most_negative_fixnum
    BY <1>2, ProperFix
  <1>4. l = IF i < 0 THEN -i ELSE i
    BY <1>2 DEF Magnitude
  <1>5. b.neg = neg /\ b.limbs = s /\ Value(b) = WithSign(neg, n) /\ n = NatOf(s)
    BY <1>1 DEF Stands
  <1>6. FixAndBig(a, i, l, b, neg, s, n, L)
    BY <1>1, <1>2, <1>3, <1>4, <1>5 DEF FixAndBig
  <1>7. QED BY <1>6

\* ikrt_fxbnplus adds
LEMMA FxBnPlusIs ==
  ASSUME NEW a \in Proper, IsFix(a), NEW b \in Proper, ~IsFix(b)
  PROVE  Value(FxBnPlus(a, b)) = Value(a) + Value(b)
  <1>1. PICK i \in Int, l \in Nat, neg \in BOOLEAN, s \in Seq(Limb), n \in Nat, L \in Nat :
           FixAndBig(a, i, l, b, neg, s, n, L)
    BY FixAndBigAre
  <1>2. /\ a.int = i /\ Value(a) = i /\ l \in Limb /\ l = Magnitude(i) /\ l <= most_negative_fixnum
        /\ b.neg = neg /\ b.limbs = s /\ Value(b) = WithSign(neg, n) /\ n = NatOf(s)
    BY <1>1 DEF FixAndBig
  <1>3. l = IF i < 0 THEN -i ELSE i
    BY <1>1 DEF FixAndBig
  <1>4. PICK pos \in BOOLEAN : pos = (i > 0) /\ (pos <=> i > 0)
    BY PositiveIs
  <1>5. FxBnPlus(a, b) = IF i = 0 THEN b ELSE IF pos # neg THEN Grow(b, l, neg) ELSE Shrink(b, l, neg)
    BY <1>2, <1>4, Zenon DEF FxBnPlus
  <1>6. Value(Grow(b, l, neg)) = WithSign(neg, n + l)
    BY <1>2, GrowIs
  <1>7. Value(Shrink(b, l, neg)) = WithSign(neg, n - l)
    BY <1>2, ShrinkIs
  <1>8. CASE i = 0
    BY <1>2, <1>5, <1>8 DEF WithSign
  <1>9. CASE i # 0 /\ pos # neg
    BY <1>2, <1>3, <1>4, <1>5, <1>6, <1>9 DEF WithSign
  <1>10. CASE i # 0 /\ pos = neg
    BY <1>2, <1>3, <1>4, <1>5, <1>7, <1>10 DEF WithSign
  <1>11. QED BY <1>8, <1>9, <1>10

\* ikrt_bnnegate negates
LEMMA BnNegateIs ==
  ASSUME NEW b \in Proper, ~IsFix(b)
  PROVE  Value(BnNegate(b)) = -Value(b)
  <1>1. PICK neg \in BOOLEAN, s \in Seq(Limb), n \in Nat, L \in Nat : Stands(b, neg, s, n, L)
    BY ProperBig
  <1>2. b.neg = neg /\ b.limbs = s /\ Value(b) = WithSign(neg, n) /\ n = NatOf(s)
    BY <1>1 DEF Stands
  <1>3. PICK m \in Limb : m = most_positive_fixnum + 1 /\ m \in Nat
    BY BaseFacts DEF Limb
  <1>4. BnNegate(b) = IF s = <<m>> /\ ~neg THEN Fix(-s[1]) ELSE Big(~neg, s)
    BY <1>2, <1>3, Zenon DEF BnNegate
  <1>5. CASE s = <<m>> /\ ~neg
    <2>1. s[1] = m /\ n = m
      BY <1>2, <1>3, <1>5, NatOfOne
    <2>2. Value(Fix(-m)) = -m
      BY <1>3, FixIs
    <2>3. QED BY <1>2, <1>4, <1>5, <2>1, <2>2 DEF WithSign
  <1>6. CASE ~(s = <<m>> /\ ~neg)
    <2>1. PICK pos \in BOOLEAN : pos = ~neg /\ (pos <=> ~neg)
      BY Zenon
    <2>2. BnNegate(b) = Big(pos, s)
      BY <1>4, <1>6, <2>1, Zenon
    <2>4. Value(Big(pos, s)) = IF pos THEN -n ELSE n
      BY <1>2, BigIs
    <2>3. QED BY <1>2, <2>1, <2>2, <2>4 DEF WithSign
  <1>7. QED BY <1>5, <1>6

\* ikrt_fxbnminus subtracts
LEMMA FxBnMinusIs ==
  ASSUME NEW a \in Proper, IsFix(a), NEW b \in Proper, ~IsFix(b)
  PROVE  Value(FxBnMinus(a, b)) = Value(a) - Value(b)
  <1>1. PICK i \in Int, l \in Nat, neg \in BOOLEAN, s \in Seq(Limb), n \in Nat, L \in Nat :
           FixAndBig(a, i, l, b, neg, s, n, L)
    BY FixAndBigAre
  <1>2. /\ a.int = i /\ Value(a) = i /\ l \in Limb /\ l = Magnitude(i) /\ l <= most_negative_fixnum
        /\ b.neg = neg /\ b.limbs = s /\ Value(b) = WithSign(neg, n) /\ n = NatOf(s)
    BY <1>1 DEF FixAndBig
  <1>3. l = IF i < 0 THEN -i ELSE i
    BY <1>1 DEF FixAndBig
  <1>4. PICK pos \in BOOLEAN : pos = (i > 0) /\ (pos <=> i > 0)
    BY PositiveIs
  <1>12. PICK opp \in BOOLEAN : opp = ~neg /\ (opp <=> ~neg)
    BY Zenon
  <1>5. FxBnMinus(a, b) =
          IF i = 0 THEN BnNegate(b) ELSE IF pos = neg THEN Grow(b, l, opp) ELSE Shrink(b, l, opp)
    BY <1>2, <1>4, <1>12, Zenon DEF FxBnMinus
  <1>6. Value(Grow(b, l, opp)) = WithSign(opp, n + l)
    BY <1>2, GrowIs
  <1>7. Value(Shrink(b, l, opp)) = WithSign(opp, n - l)
    BY <1>2, ShrinkIs
  <1>8. CASE i = 0
    BY <1>2, <1>5, <1>8, BnNegateIs DEF WithSign
  <1>9. CASE i # 0 /\ pos = neg
    <2>1. CASE neg
      <3>1. ~opp /\ i = l
        <4>1. pos
          BY <1>9, <2>1
        <4>2. i = l
          BY <1>3, <1>4, <4>1
        <4>3. ~opp
          BY <1>12, <2>1
        <4>4. QED BY <4>2, <4>3
      <3>2. FxBnMinus(a, b) = Grow(b, l, opp)
        BY <1>5, <1>9
      <3>3. Value(FxBnMinus(a, b)) = n + l /\ Value(b) = -n
        BY <1>2, <1>6, <2>1, <3>1, <3>2 DEF WithSign
      <3>4. Value(a) = i
        BY <1>2
      <3>5. QED BY <3>1, <3>3, <3>4
    <2>2. CASE ~neg
      <3>1. opp /\ i = -l
        <4>1. ~pos
          BY <1>9, <2>2
        <4>2. i = -l
          BY <1>3, <1>4, <4>1
        <4>3. opp
          BY <1>12, <2>2
        <4>4. QED BY <4>2, <4>3
      <3>2. FxBnMinus(a, b) = Grow(b, l, opp)
        BY <1>5, <1>9
      <3>3. Value(FxBnMinus(a, b)) = -(n + l) /\ Value(b) = n
        BY <1>2, <1>6, <2>2, <3>1, <3>2 DEF WithSign
      <3>4. Value(a) = i
        BY <1>2
      <3>5. QED BY <3>1, <3>3, <3>4
    <2>3. QED BY <2>1, <2>2
  <1>10. CASE i # 0 /\ pos # neg
    BY <1>2, <1>3, <1>4, <1>5, <1>7, <1>10, <1>12 DEF WithSign
  <1>11. QED BY <1>8, <1>9, <1>10

\* ikrt_bnfxminus subtracts
LEMMA BnFxMinusIs ==
  ASSUME NEW a \in Proper, IsFix(a), NEW b \in Proper, ~IsFix(b)
  PROVE  Value(BnFxMinus(b, a)) = Value(b) - Value(a)
  <1>1. PICK i \in Int, l \in Nat, neg \in BOOLEAN, s \in Seq(Limb), n \in Nat, L \in Nat :
           FixAndBig(a, i, l, b, neg, s, n, L)
    BY FixAndBigAre
  <1>2. /\ a.int = i /\ Value(a) = i /\ l \in Limb /\ l = Magnitude(i) /\ l <= most_negative_fixnum
        /\ b.neg = neg /\ b.limbs = s /\ Value(b) = WithSign(neg, n) /\ n = NatOf(s)
    BY <1>1 DEF FixAndBig
  <1>3. l = IF i < 0 THEN -i ELSE i
    BY <1>1 DEF FixAndBig
  <1>4. PICK less \in BOOLEAN : less = (i < 0) /\ (less <=> i < 0)
    BY SignIs
  <1>5. BnFxMinus(b, a) = IF i = 0 THEN b ELSE IF less # neg THEN Grow(b, l, neg) ELSE Shrink(b, l, neg)
    BY <1>2, <1>4, Zenon DEF BnFxMinus
  <1>6. Value(Grow(b, l, neg)) = WithSign(neg, n + l)
    BY <1>2, GrowIs
  <1>7. Value(Shrink(b, l, neg)) = WithSign(neg, n - l)
    BY <1>2, ShrinkIs
  <1>8. CASE i = 0
    BY <1>2, <1>5, <1>8 DEF WithSign
  <1>9. CASE i # 0 /\ less # neg
    BY <1>2, <1>3, <1>4, <1>5, <1>6, <1>9 DEF WithSign
  <1>10. CASE i # 0 /\ less = neg
    BY <1>2, <1>3, <1>4, <1>5, <1>7, <1>10 DEF WithSign
  <1>11. QED BY <1>8, <1>9, <1>10

-----------------------------------------------------------------------------
(* Sums and differences *)

\* sums and differences of fixnums
LEMMA FxFxIs ==
  ASSUME NEW a \in Proper, IsFix(a), NEW b \in Proper, IsFix(b)
  PROVE  /\ Value(FxFxPlus(a, b)) = Value(a) + Value(b)
         /\ Value(FxFxMinus(a, b)) = Value(a) - Value(b)
  <1>1. PICK i \in Int, j \in Int : i = a.int /\ j = b.int /\ Value(a) = i /\ Value(b) = j
                                    /\ FitsFixnum(i) /\ FitsFixnum(j)
    BY ProperFix
  <1>2. Magnitude(i + j) < B /\ Magnitude(i - j) < B
    BY <1>1, BaseFacts DEF Magnitude, FitsFixnum
  <1>3. PICK c \in Int, d \in Int : c = i + j /\ d = i - j /\ Magnitude(c) < B /\ Magnitude(d) < B
    BY <1>2
  <1>4. FxFxPlus(a, b) = FromLong(c) /\ FxFxMinus(a, b) = FromLong(d)
    BY <1>1, <1>3 DEF FxFxPlus, FxFxMinus
  <1>5. QED BY <1>1, <1>3, <1>4, FromLongIs

\* binary+ adds, unless a carry is misplaced
LEMMA PlusIs ==
  ASSUME NEW a \in Proper, NEW b \in Proper, NEW rest \in Limb,
         (~IsFix(a) /\ ~IsFix(b) /\ a.neg = b.neg) => ~Misplaced(a, b)
  PROVE  Value(PlusOf(a, b, rest)) = Value(a) + Value(b)
  <1>1. CASE IsFix(a) /\ IsFix(b)
    BY <1>1, FxFxIs DEF PlusOf
  <1>2. CASE IsFix(a) /\ ~IsFix(b)
    BY <1>2, FxBnPlusIs DEF PlusOf
  <1>3. CASE ~IsFix(a) /\ IsFix(b)
    <2>1. PlusOf(a, b, rest) = FxBnPlus(b, a)
      BY <1>3 DEF PlusOf
    <2>2. Value(FxBnPlus(b, a)) = Value(b) + Value(a)
      BY <1>3, FxBnPlusIs
    <2>3. PICK v \in Int, w \in Int : v = Value(a) /\ w = Value(b)
      BY NumberIs DEF Proper
    <2>4. QED BY <2>1, <2>2, <2>3
  <1>4. CASE ~IsFix(a) /\ ~IsFix(b)
    <2>1. PICK an \in BOOLEAN, s \in Seq(Limb), n \in Nat, L \in Nat : Stands(a, an, s, n, L)
      BY <1>4, ProperBig
    <2>2. PICK bn \in BOOLEAN, t \in Seq(Limb), m \in Nat, M \in Nat : Stands(b, bn, t, m, M)
      BY <1>4, ProperBig
    <2>3. /\ a.neg = an /\ n = NatOf(a.limbs) /\ Value(a) = WithSign(an, n)
          /\ b.neg = bn /\ m = NatOf(b.limbs) /\ Value(b) = WithSign(bn, m)
      BY <2>1, <2>2 DEF Stands
    <2>4. PlusOf(a, b, rest) = IF an = bn THEN BnBnGrow(a, b, an, rest) ELSE BnBnShrink(a, b, an, bn)
      BY <1>4, <2>3 DEF PlusOf, BnBnPlus
    <2>5. CASE an = bn
      <3>1. Value(BnBnGrow(a, b, an, rest)) = WithSign(an, n + m)
        BY <1>4, <2>3, <2>5, BnBnGrowIs
      <3>2. QED BY <2>3, <2>4, <2>5, <3>1 DEF WithSign
    <2>6. CASE an # bn
      <3>1. Value(BnBnShrink(a, b, an, bn)) = WithSign(an, n - m)
        BY <1>4, <2>3, <2>6, BnBnShrinkIs
      <3>2. QED BY <2>3, <2>4, <2>6, <3>1 DEF WithSign
    <2>7. QED BY <2>5, <2>6
  <1>5. QED BY <1>1, <1>2, <1>3, <1>4

\* binary- subtracts, unless a carry is misplaced
LEMMA MinusIs ==
  ASSUME NEW a \in Proper, NEW b \in Proper, NEW rest \in Limb,
         (~IsFix(a) /\ ~IsFix(b) /\ a.neg # b.neg) => ~Misplaced(a, b)
  PROVE  Value(MinusOf(a, b, rest)) = Value(a) - Value(b)
  <1>1. CASE IsFix(a) /\ IsFix(b)
    BY <1>1, FxFxIs DEF MinusOf
  <1>2. CASE IsFix(a) /\ ~IsFix(b)
    BY <1>2, FxBnMinusIs DEF MinusOf
  <1>3. CASE ~IsFix(a) /\ IsFix(b)
    BY <1>3, BnFxMinusIs DEF MinusOf
  <1>4. CASE ~IsFix(a) /\ ~IsFix(b)
    <2>1. PICK an \in BOOLEAN, s \in Seq(Limb), n \in Nat, L \in Nat : Stands(a, an, s, n, L)
      BY <1>4, ProperBig
    <2>2. PICK bn \in BOOLEAN, t \in Seq(Limb), m \in Nat, M \in Nat : Stands(b, bn, t, m, M)
      BY <1>4, ProperBig
    <2>3. /\ a.neg = an /\ n = NatOf(a.limbs) /\ Value(a) = WithSign(an, n)
          /\ b.neg = bn /\ m = NatOf(b.limbs) /\ Value(b) = WithSign(bn, m)
      BY <2>1, <2>2 DEF Stands
    <2>8. PICK opp \in BOOLEAN : opp = ~bn
      OBVIOUS
    <2>4. MinusOf(a, b, rest) = IF an # bn THEN BnBnGrow(a, b, an, rest) ELSE BnBnShrink(a, b, an, opp)
      BY <1>4, <2>3, <2>8 DEF MinusOf, BnBnMinus
    <2>5. CASE an # bn
      <3>1. Value(BnBnGrow(a, b, an, rest)) = WithSign(an, n + m)
        BY <1>4, <2>3, <2>5, BnBnGrowIs
      <3>2. QED BY <2>3, <2>4, <2>5, <3>1 DEF WithSign
    <2>6. CASE an = bn
      <3>1. Value(BnBnShrink(a, b, an, opp)) = WithSign(an, n - m)
        BY <1>4, <2>3, <2>6, <2>8, BnBnShrinkIs
      <3>2. QED BY <2>3, <2>4, <2>6, <3>1 DEF WithSign
    <2>7. QED BY <2>5, <2>6
  <1>5. QED BY <1>1, <1>2, <1>3, <1>4

-----------------------------------------------------------------------------
(* The order of bignums *)

\* ikrt_bnbncomp orders bignums like integers
LEMMA BnBnCompIs ==
  ASSUME NEW a \in Proper, ~IsFix(a), NEW b \in Proper, ~IsFix(b)
  PROVE  /\ Value(a) < Value(b) => BnBnComp(a, b) = -1
         /\ Value(a) = Value(b) => BnBnComp(a, b) = 0
         /\ Value(a) > Value(b) => BnBnComp(a, b) = 1
  <1>1. PICK an \in BOOLEAN, s \in Seq(Limb), n \in Nat, L \in Nat : Stands(a, an, s, n, L)
    BY ProperBig
  <1>2. PICK bn \in BOOLEAN, t \in Seq(Limb), m \in Nat, M \in Nat : Stands(b, bn, t, m, M)
    BY ProperBig
  <1>3. /\ a.neg = an /\ a.limbs = s /\ Value(a) = WithSign(an, n) /\ n > 0
        /\ b.neg = bn /\ b.limbs = t /\ Value(b) = WithSign(bn, m) /\ m > 0
    <2>1. n > Limit(an) /\ m > Limit(bn)
      BY <1>1, <1>2 DEF Stands
    <2>2. n > 0 /\ m > 0
      BY <2>1, LimitsAre
    <2>3. QED BY <1>1, <1>2, <2>2 DEF Stands
  <1>4. PICK k \in Nat :
          /\ k = Unequal(s, t)
          /\ k = 0 <=> n = m
          /\ n < m <=> Len(s) < Len(t) \/ (Len(s) = Len(t) /\ k > 0 /\ s[k] < t[k])
    BY <1>1, <1>2, MagnitudesOrdered
  <1>5. PICK less \in BOOLEAN :
          less = (Len(s) < Len(t) \/ (Len(s) = Len(t) /\ k > 0 /\ s[k] < t[k]))
    BY Zenon
  <1>6. less <=> n < m
    BY <1>4, <1>5
  <1>7. BnBnComp(a, b) =
          CASE an /\ ~bn -> -1
            [] ~an /\ bn -> 1
            [] an = bn /\ k = 0 -> 0
            [] OTHER -> IF less # an THEN -1 ELSE 1
    BY <1>3, <1>4, <1>5, Zenon DEF BnBnComp
  <1>8. CASE an /\ ~bn
    <2>1. BnBnComp(a, b) = -1
      BY <1>7, <1>8
    <2>2. Value(a) = -n /\ Value(b) = m
      BY <1>3, <1>8 DEF WithSign
    <2>3. QED BY <1>3, <2>1, <2>2
  <1>9. CASE ~an /\ bn
    <2>1. BnBnComp(a, b) = 1
      BY <1>7, <1>9
    <2>2. Value(a) = n /\ Value(b) = -m
      BY <1>3, <1>9 DEF WithSign
    <2>3. QED BY <1>3, <2>1, <2>2
  <1>10. CASE an = bn /\ k = 0
    BY <1>3, <1>4, <1>7, <1>10 DEF WithSign
  <1>11. CASE an = bn /\ k # 0
    BY <1>3, <1>4, <1>6, <1>7, <1>11 DEF WithSign
  <1>12. QED BY <1>8, <1>9, <1>10, <1>11

-----------------------------------------------------------------------------
(* Products *)

\* a product of smaller naturals is smaller
LEMMA ProductBelow ==
  ASSUME NEW n \in Nat, NEW p \in Nat, n < p, NEW m \in Nat, NEW q \in Nat, m < q
  PROVE  n * m < p * q
  <1>1. PICK c \in Nat, d \in Nat : p = n + 1 + c /\ q = m + 1 + d
    <2>1. /\ p - n - 1 \in Nat /\ p = n + 1 + (p - n - 1)
          /\ q - m - 1 \in Nat /\ q = m + 1 + (q - m - 1)
      OBVIOUS
    <2>2. QED BY <2>1
  <1>2. PICK e \in Nat, f \in Nat, g \in Nat : e = n * m /\ f = n * (1 + d) /\ g = (1 + c) * q
    OBVIOUS
  <1>3. p * q = n * q + g
    BY <1>1, <1>2
  <1>4. n * q = e + f
    BY <1>1, <1>2
  <1>5. g > 0
    <2>1. PICK h \in Nat : h = c * q
      OBVIOUS
    <2>2. g = q + h
      BY <1>2, <2>1
    <2>3. QED BY <2>2
  <1>6. QED BY <1>2, <1>3, <1>4, <1>5

\* the product has room for all its limbs
LEMMA MulIs ==
  ASSUME NEW s \in Seq(Limb), NEW t \in Seq(Limb)
  PROVE  /\ MpnMul(s, t) \in Seq(Limb) /\ Len(MpnMul(s, t)) = Len(s) + Len(t)
         /\ NatOf(MpnMul(s, t)) = NatOf(s) * NatOf(t)
  <1>1. PICK k \in Nat, j \in Nat : k = Len(s) /\ j = Len(t)
    OBVIOUS
  <1>2. PICK n \in Nat, m \in Nat, p \in Nat, q \in Nat :
          n = NatOf(s) /\ m = NatOf(t) /\ p = B^^k /\ q = B^^j /\ n < p /\ m < q
    BY <1>1, NatOfBounded, BasePowers
  <1>3. n < p /\ m < q
    BY <1>2
  <1>4. n * m \in Nat /\ n * m < p * q
    BY <1>3, ProductBelow
  <1>5. B^^(k + j) = p * q
    <2>1. B \in Int
      BY BaseFacts
    <2>2. QED BY <1>2, <2>1, PowerOfSum
  <1>6. PICK a \in Nat, h \in Nat : a = n * m /\ h = k + j /\ a < B^^h
    BY <1>4, <1>5
  <1>7. MpnMul(s, t) = LimbsOf(a, h)
    BY <1>1, <1>2, <1>6 DEF MpnMul
  <1>8. QED BY <1>1, <1>2, <1>6, <1>7, LimbsOfAre, NatOfItsLimbs

\* one sign is that of the product of numbers of two others
Opposes(neg, an, bn) == neg = (an # bn) /\ (neg <=> (an # bn))

\* the product of two signed naturals
LEMMA ProductSign ==
  ASSUME NEW an \in BOOLEAN, NEW bn \in BOOLEAN, NEW neg \in BOOLEAN, Opposes(neg, an, bn),
         NEW n \in Nat, NEW m \in Nat
  PROVE  WithSign(an, n) * WithSign(bn, m) = WithSign(neg, n * m)
  <1>1. (-n) * (-m) = n * m /\ (-n) * m = -(n * m) /\ n * (-m) = -(n * m)
    OBVIOUS
  <1>2. CASE an /\ bn
    BY <1>1, <1>2 DEF WithSign, Opposes
  <1>3. CASE an /\ ~bn
    BY <1>1, <1>3 DEF WithSign, Opposes
  <1>4. CASE ~an /\ bn
    BY <1>1, <1>4 DEF WithSign, Opposes
  <1>5. CASE ~an /\ ~bn
    BY <1>5 DEF WithSign, Opposes
  <1>6. QED BY <1>2, <1>3, <1>4, <1>5

\* two signs are the same or not
LEMMA OtherSign ==
  ASSUME NEW an \in BOOLEAN, NEW bn \in BOOLEAN
  PROVE  \E neg \in BOOLEAN : Opposes(neg, an, bn)
  BY Zenon DEF Opposes

\* a fixnum as a sign and a magnitude
FixParts(a, neg, n) ==
  /\ a.int \in Int /\ a = Fix(a.int) /\ neg = (a.int < 0) /\ (neg <=> a.int < 0)
  /\ n = Magnitude(a.int) /\ n \in Limb /\ n \in Nat /\ n <= most_negative_fixnum
  /\ Value(a) = a.int /\ Value(a) = WithSign(neg, n)
  /\ neg => n > 0
  /\ n <= Limit(neg)

\* a fixnum has a sign and a magnitude
LEMMA FixPartsAre ==
  ASSUME NEW a \in Proper, IsFix(a)
  PROVE  \E neg \in BOOLEAN, n \in Nat : FixParts(a, neg, n)
  <1>1. PICK i \in Int : i = a.int
    BY ProperFix
  <1>2. PICK neg \in BOOLEAN : neg = (i < 0) /\ (neg <=> i < 0)
    BY SignIs
  <1>3. PICK n \in Nat : n = Magnitude(i)
    BY <1>1, ProperFix
  <1>4. /\ a = Fix(i) /\ Value(a) = i /\ n \in Limb /\ n <= most_negative_fixnum /\ FitsFixnum(i)
    BY <1>1, <1>3, ProperFix
  <1>5. i = WithSign(neg, n) /\ (neg => n > 0)
    BY <1>2, <1>3 DEF WithSign, Magnitude
  <1>6. n <= Limit(neg)
    BY <1>4, <1>5, LimitsAre DEF WithSign
  <1>7. FixParts(a, neg, n)
    BY <1>1, <1>2, <1>3, <1>4, <1>5, <1>6 DEF FixParts
  <1>8. QED BY <1>7

\* ikrt_fxfxmult multiplies
LEMMA FxFxMultIs ==
  ASSUME NEW a \in Proper, IsFix(a), NEW b \in Proper, IsFix(b)
  PROVE  Value(FxFxMult(a, b)) = Value(a) * Value(b)
  <1>1. PICK an \in BOOLEAN, n \in Nat : FixParts(a, an, n)
    BY FixPartsAre
  <1>2. PICK bn \in BOOLEAN, m \in Nat : FixParts(b, bn, m)
    BY FixPartsAre
  <1>3. /\ an = (a.int < 0) /\ n = Magnitude(a.int) /\ n \in Limb /\ Value(a) = WithSign(an, n)
        /\ bn = (b.int < 0) /\ m = Magnitude(b.int) /\ m \in Limb /\ Value(b) = WithSign(bn, m)
    BY <1>1, <1>2 DEF FixParts
  <1>4. PICK neg \in BOOLEAN : Opposes(neg, an, bn)
    BY OtherSign
  <1>5. PICK s, t : s = <<n>> /\ t = <<m>>
    OBVIOUS
  <1>6. s \in Seq(Limb) /\ Len(s) = 1 /\ NatOf(s) = n /\ t \in Seq(Limb) /\ Len(t) = 1 /\ NatOf(t) = m
    BY <1>3, <1>5, OneLimb
  <1>7. PICK p : p = MpnMul(s, t)
    OBVIOUS
  <1>8. p \in Seq(Limb) /\ Len(p) = 2 /\ NatOf(p) = n * m
    <2>1. p \in Seq(Limb) /\ Len(p) = 1 + 1 /\ NatOf(p) = n * m
      BY <1>6, <1>7, MulIs
    <2>2. QED BY <2>1
  <1>9. Value(a) * Value(b) = WithSign(neg, n * m)
    <2>1. WithSign(an, n) * WithSign(bn, m) = WithSign(neg, n * m)
      BY <1>4, ProductSign
    <2>2. QED BY <1>3, <2>1
  <1>10. PICK d : d = p[1]
    OBVIOUS
  <1>11. d \in Limb /\ d \in Nat
    <2>1. 1 \in 1 .. Len(p)
      BY <1>8
    <2>2. QED BY <1>8, <1>10, <2>1, LimbsAre, BaseFacts
  <1>12. FxFxMult(a, b) = IF p[2] # 0 THEN Big(neg, p)
                          ELSE IF d <= Limit(neg) THEN Fix(IF neg THEN -d ELSE d)
                          ELSE Big(neg, <<d>>)
    BY <1>3, <1>4, <1>5, <1>7, <1>10, Zenon DEF FxFxMult, Opposes
  <1>13. CASE p[2] # 0
    BY <1>8, <1>9, <1>12, <1>13, BigIs DEF WithSign
  <1>14. CASE p[2] = 0
    <2>1. PICK u : u = <<d>>
      OBVIOUS
    <2>2. u \in Seq(Limb) /\ Len(u) = 1 /\ NatOf(u) = d /\ u[1] = d
      BY <1>11, <2>1, OneLimb
    <2>3. NatOf(p) = NatOf(u) + p[2] * B^^1
      <3>1. Len(p) = Len(u) + 1 /\ \A i \in 1 .. Len(u) : p[i] = u[i]
        BY <1>8, <1>10, <2>2
      <3>2. NatOf(p) = NatOf(u) + p[Len(p)] * B^^Len(u)
        BY <1>8, <2>2, <3>1, NatOfAppend
      <3>3. QED BY <1>8, <2>2, <3>2
    <2>4. n * m = d
      <3>1. PICK c \in Nat : c = B^^1
        BY BasePowers
      <3>2. p[2] * c = 0
        BY <1>14
      <3>3. QED BY <1>8, <1>11, <2>2, <2>3, <3>1, <3>2
    <2>5. Value(a) * Value(b) = WithSign(neg, d)
      BY <1>9, <2>4
    <2>6. FxFxMult(a, b) = IF d <= Limit(neg) THEN Fix(IF neg THEN -d ELSE d) ELSE Big(neg, u)
      BY <1>12, <1>14, <2>1
    <2>7. Value(Fix(IF neg THEN -d ELSE d)) = IF neg THEN -d ELSE d
      BY <1>11, FixIs
    <2>8. Value(Big(neg, u)) = IF neg THEN -d ELSE d
      BY <2>2, BigIs
    <2>9. QED BY <2>5, <2>6, <2>7, <2>8 DEF WithSign
  <1>15. QED BY <1>13, <1>14

\* the product of limbs, normalized
LEMMA NormalizedProduct ==
  ASSUME NEW s \in Seq(Limb), NEW t \in Seq(Limb), NEW an \in BOOLEAN, NEW bn \in BOOLEAN,
         NEW neg \in BOOLEAN, Opposes(neg, an, bn)
  PROVE  Value(Normalize(MpnMul(s, t), neg)) = WithSign(an, NatOf(s)) * WithSign(bn, NatOf(t))
  <1>1. PICK n \in Nat, m \in Nat : n = NatOf(s) /\ m = NatOf(t)
    BY NatOfIs
  <1>2. MpnMul(s, t) \in Seq(Limb) /\ NatOf(MpnMul(s, t)) = n * m
    BY <1>1, MulIs
  <1>3. Value(Normalize(MpnMul(s, t), neg)) = WithSign(neg, n * m)
    BY <1>2, NormalizeIs DEF WithSign
  <1>4. WithSign(an, n) * WithSign(bn, m) = WithSign(neg, n * m)
    BY ProductSign
  <1>5. QED BY <1>1, <1>3, <1>4

\* ikrt_fxbnmult multiplies
LEMMA FxBnMultIs ==
  ASSUME NEW a \in Proper, IsFix(a), NEW b \in Proper, ~IsFix(b)
  PROVE  Value(FxBnMult(a, b)) = Value(a) * Value(b)
  <1>1. PICK an \in BOOLEAN, n \in Nat : FixParts(a, an, n)
    BY FixPartsAre
  <1>2. PICK bn \in BOOLEAN, t \in Seq(Limb), m \in Nat, M \in Nat : Stands(b, bn, t, m, M)
    BY ProperBig
  <1>3. /\ an = (a.int < 0) /\ n = Magnitude(a.int) /\ n \in Limb /\ Value(a) = WithSign(an, n)
        /\ Value(a) = a.int
        /\ bn = b.neg /\ t = b.limbs /\ m = NatOf(t) /\ Value(b) = WithSign(bn, m)
    BY <1>1, <1>2 DEF FixParts, Stands
  <1>4. PICK neg \in BOOLEAN : Opposes(neg, an, bn)
    BY OtherSign
  <1>5. PICK s : s = <<n>>
    OBVIOUS
  <1>6. s \in Seq(Limb) /\ NatOf(s) = n
    BY <1>3, <1>5, OneLimb
  <1>7. FxBnMult(a, b) = IF a.int = 0 THEN Fix(0) ELSE Normalize(MpnMul(t, s), neg)
    BY <1>3, <1>4, <1>5, Zenon DEF FxBnMult, Opposes
  <1>8. CASE a.int = 0
    <2>1. Value(FxBnMult(a, b)) = 0
      BY <1>7, <1>8, FixIs
    <2>2. PICK v \in Int : v = Value(b)
      BY NumberIs DEF Proper
    <2>3. 0 * v = 0
      OBVIOUS
    <2>4. QED BY <1>3, <1>8, <2>1, <2>2, <2>3
  <1>9. CASE a.int # 0
    <2>1. Value(Normalize(MpnMul(t, s), neg)) = WithSign(bn, m) * WithSign(an, n)
      <3>1. Opposes(neg, bn, an)
        BY <1>4 DEF Opposes
      <3>2. Value(Normalize(MpnMul(t, s), neg)) = WithSign(bn, NatOf(t)) * WithSign(an, NatOf(s))
        BY <1>6, <3>1, NormalizedProduct
      <3>3. QED BY <1>3, <1>6, <3>2
    <2>2. PICK v \in Int, w \in Int : v = WithSign(an, n) /\ w = WithSign(bn, m)
      BY DEF WithSign
    <2>3. w * v = v * w
      OBVIOUS
    <2>4. QED BY <1>3, <1>7, <1>9, <2>1, <2>2, <2>3
  <1>10. QED BY <1>8, <1>9

\* binary* multiplies
LEMMA TimesIs ==
  ASSUME NEW a \in Proper, NEW b \in Proper
  PROVE  Value(TimesOf(a, b)) = Value(a) * Value(b)
  <1>1. CASE IsFix(a) /\ IsFix(b)
    BY <1>1, FxFxMultIs DEF TimesOf
  <1>2. CASE IsFix(a) /\ ~IsFix(b)
    BY <1>2, FxBnMultIs DEF TimesOf
  <1>3. CASE ~IsFix(a) /\ IsFix(b)
    <2>1. TimesOf(a, b) = FxBnMult(b, a)
      BY <1>3 DEF TimesOf
    <2>2. Value(FxBnMult(b, a)) = Value(b) * Value(a)
      BY <1>3, FxBnMultIs
    <2>3. PICK v \in Int, w \in Int : v = Value(a) /\ w = Value(b)
      BY NumberIs DEF Proper
    <2>4. v * w = w * v
      OBVIOUS
    <2>5. QED BY <2>1, <2>2, <2>3, <2>4
  <1>4. CASE ~IsFix(a) /\ ~IsFix(b)
    <2>1. PICK an \in BOOLEAN, s \in Seq(Limb), n \in Nat, L \in Nat : Stands(a, an, s, n, L)
      BY <1>4, ProperBig
    <2>2. PICK bn \in BOOLEAN, t \in Seq(Limb), m \in Nat, M \in Nat : Stands(b, bn, t, m, M)
      BY <1>4, ProperBig
    <2>3. /\ a.neg = an /\ a.limbs = s /\ n = NatOf(s) /\ Value(a) = WithSign(an, n)
          /\ b.neg = bn /\ b.limbs = t /\ m = NatOf(t) /\ Value(b) = WithSign(bn, m)
      BY <2>1, <2>2 DEF Stands
    <2>4. PICK neg \in BOOLEAN : Opposes(neg, an, bn)
      BY OtherSign
    <2>5. TimesOf(a, b) = Normalize(MpnMul(s, t), neg)
      <3>1. TimesOf(a, b) = BnBnMult(a, b)
        BY <1>4 DEF TimesOf
      <3>2. BnBnMult(a, b) = Normalize(MpnMul(s, t), neg)
        BY <2>3, <2>4, Zenon DEF BnBnMult, Opposes
      <3>3. QED BY <3>1, <3>2
    <2>6. Value(Normalize(MpnMul(s, t), neg)) = WithSign(an, NatOf(s)) * WithSign(bn, NatOf(t))
      BY <2>4, NormalizedProduct
    <2>7. QED BY <2>3, <2>5, <2>6
  <1>5. QED BY <1>1, <1>2, <1>3, <1>4

-----------------------------------------------------------------------------
(* Quotients and remainders *)

\* r is left when xx is divided by yy, rounded towards zero
DividesTo(xx, yy, q, r) ==
  /\ xx = q * yy + r
  /\ Magnitude(r) < Magnitude(yy)
  /\ r # 0 => (r < 0) = (xx < 0)
\* r is congruent to xx and on the side of yy
ModuloTo(xx, yy, r) ==
  /\ (xx - r) % Magnitude(yy) = 0
  /\ Magnitude(r) < Magnitude(yy)
  /\ r # 0 => (r < 0) = (yy < 0)
\* naturals
Divides(n, m, q, r) == m > 0 /\ n = m * q + r /\ r < m

\* two signs that are equivalent are equal
LEMMA SameSign ==
  ASSUME NEW u \in Int, NEW v \in Int, u < 0 <=> v < 0
  PROVE  (u < 0) = (v < 0)
  <1>1. PICK un \in BOOLEAN : un = (u < 0) /\ (un <=> u < 0)
    BY SignIs
  <1>2. PICK vn \in BOOLEAN : vn = (v < 0) /\ (vn <=> v < 0)
    BY SignIs
  <1>3. un <=> vn
    BY <1>1, <1>2
  <1>4. un = vn
    BY <1>3, Zenon
  <1>5. QED BY <1>1, <1>2, <1>4, Zenon

\* two signs that are not equivalent are different
LEMMA OtherSigns ==
  ASSUME NEW u \in Int, NEW v \in Int, ~(u < 0 <=> v < 0)
  PROVE  (u < 0) # (v < 0)
  <1>1. PICK un \in BOOLEAN : un = (u < 0) /\ (un <=> u < 0)
    BY SignIs
  <1>2. PICK vn \in BOOLEAN : vn = (v < 0) /\ (vn <=> v < 0)
    BY SignIs
  <1>3. ~(un <=> vn)
    BY <1>1, <1>2
  <1>4. un # vn
    BY <1>3
  <1>5. QED BY <1>1, <1>2, <1>4, Zenon

\* quotient and remainder of naturals
LEMMA DividesAre ==
  ASSUME NEW n \in Nat, NEW m \in Nat, m > 0
  PROVE  \E q \in Nat, r \in Nat : q = n \div m /\ r = n % m /\ Divides(n, m, q, r)
  <1>1. n \in Int /\ n >= 0
    OBVIOUS
  <1>2. /\ n \div m \in Nat /\ n % m \in Nat /\ n % m < m
        /\ n = m * (n \div m) + (n % m)
    BY <1>1, DivisionFacts
  <1>3. QED BY <1>2 DEF Divides

\* a multiple leaves no remainder
LEMMA MultipleIs ==
  ASSUME NEW c \in Int, NEW m \in Nat, m > 0
  PROVE  (m * c) % m = 0
  <1>1. PICK d \in Int : d = m * c + 0
    OBVIOUS
  <1>2. d % m = 0
    BY <1>1, DivisionIs
  <1>3. QED BY <1>1, <1>2

\* an integer from its sign and magnitude
LEMMA WithSignIs ==
  ASSUME NEW neg \in BOOLEAN, NEW n \in Nat
  PROVE  /\ WithSign(neg, n) \in Int /\ Magnitude(WithSign(neg, n)) = n
         /\ n > 0 => (WithSign(neg, n) < 0 <=> neg)
  BY DEF WithSign, Magnitude

\* what the quotient and the remainder of the magnitudes give
LEMMA QuotientParts ==
  ASSUME NEW an \in BOOLEAN, NEW bn \in BOOLEAN, NEW neg \in BOOLEAN, Opposes(neg, an, bn),
         NEW n \in Nat, NEW m \in Nat, NEW q \in Nat, NEW r \in Nat, Divides(n, m, q, r)
  PROVE  DividesTo(WithSign(an, n), WithSign(bn, m), WithSign(neg, q), WithSign(an, r))
  <1>1. Opposes(an, neg, bn)
    BY Zenon DEF Opposes
  <1>2. WithSign(neg, q) * WithSign(bn, m) = WithSign(an, q * m)
    BY <1>1, ProductSign
  <1>3. PICK p \in Nat : p = q * m /\ n = p + r
    <2>1. q * m = m * q
      OBVIOUS
    <2>2. QED BY <2>1 DEF Divides
  <1>4. WithSign(an, n) = WithSign(an, p) + WithSign(an, r)
    BY <1>3 DEF WithSign
  <1>5. WithSign(an, n) = WithSign(neg, q) * WithSign(bn, m) + WithSign(an, r)
    BY <1>2, <1>3, <1>4
  <1>6. Magnitude(WithSign(an, r)) < Magnitude(WithSign(bn, m))
    BY WithSignIs DEF Divides
  <1>7. ASSUME WithSign(an, r) # 0 PROVE (WithSign(an, r) < 0) = (WithSign(an, n) < 0)
    <2>1. r > 0 /\ n > 0
      BY <1>3, <1>7 DEF WithSign
    <2>2. WithSign(an, r) < 0 <=> WithSign(an, n) < 0
      BY <2>1, WithSignIs
    <2>3. WithSign(an, r) \in Int /\ WithSign(an, n) \in Int
      BY WithSignIs
    <2>4. QED BY <2>2, <2>3, SameSign
  <1>8. QED BY <1>5, <1>6, <1>7 DEF DividesTo

\* the remainder and the divisor of the other sign made up for
LEMMA ModuloParts ==
  ASSUME NEW an \in BOOLEAN, NEW bn \in BOOLEAN, NEW R \in Int,
         NEW n \in Nat, NEW m \in Nat, NEW q \in Nat, NEW r \in Nat, Divides(n, m, q, r),
         an => n > 0,
         an = bn => R = WithSign(an, r),
         an # bn /\ r # 0 => R = WithSign(bn, m - r)
  PROVE  \/ ModuloTo(WithSign(an, n), WithSign(bn, m), R)
         \/ /\ WithSign(an, n) % Magnitude(WithSign(bn, m)) = 0
            /\ (WithSign(an, n) < 0) # (WithSign(bn, m) < 0)
  <1>1. PICK v \in Int, w \in Int : v = WithSign(an, n) /\ w = WithSign(bn, m)
    BY WithSignIs
  <1>2. m > 0 /\ r < m /\ Magnitude(w) = m /\ (w < 0 <=> bn) /\ (v < 0 <=> an)
    <2>1. m > 0 /\ r < m
      BY DEF Divides
    <2>2. Magnitude(w) = m /\ (w < 0 <=> bn)
      BY <1>1, <2>1, WithSignIs
    <2>3. v < 0 <=> an
      BY <1>1 DEF WithSign
    <2>4. QED BY <2>1, <2>2, <2>3
  <1>3. PICK p \in Nat : p = m * q /\ n = p + r
    BY DEF Divides
  <1>4. CASE an = bn
    <2>1. R = WithSign(an, r)
      BY <1>4
    <2>2. v - R = WithSign(an, p)
      BY <1>1, <1>3, <2>1 DEF WithSign
    <2>3. PICK c \in Int : WithSign(an, p) = m * c
      <3>1. -p = m * (-q) /\ p = m * q
        BY <1>3
      <3>2. -q \in Int /\ q \in Int
        OBVIOUS
      <3>3. QED BY <3>1, <3>2 DEF WithSign
    <2>4. (v - R) % m = 0
      BY <1>2, <2>2, <2>3, MultipleIs
    <2>5. Magnitude(R) < Magnitude(w)
      BY <1>2, <2>1, WithSignIs
    <2>6. ASSUME R # 0 PROVE (R < 0) = (w < 0)
      <3>1. r > 0
        BY <2>1, <2>6 DEF WithSign
      <3>2. R < 0 <=> w < 0
        BY <1>2, <1>4, <2>1, <3>1, WithSignIs
      <3>3. QED BY <3>2, SameSign
    <2>7. ModuloTo(v, w, R)
      BY <1>2, <2>4, <2>5, <2>6 DEF ModuloTo
    <2>8. QED BY <1>1, <2>7
  <1>5. CASE an # bn /\ r # 0
    <2>1. PICK d \in Nat : d = m - r /\ d > 0 /\ d < m
      BY <1>2, <1>5
    <2>2. R = WithSign(bn, d)
      BY <1>5, <2>1
    <2>3. PICK c \in Int : v - R = m * c
      <3>1. n + d = m * (q + 1)
        BY <1>3, <2>1
      <3>2. -n - d = m * (-q - 1)
        BY <1>3, <2>1
      <3>3. CASE an /\ ~bn
        <4>1. v - R = -n - d
          BY <1>1, <2>2, <3>3 DEF WithSign
        <4>2. -q - 1 \in Int
          OBVIOUS
        <4>3. QED BY <3>2, <4>1, <4>2
      <3>4. CASE ~an /\ bn
        <4>1. v - R = n + d
          BY <1>1, <2>2, <3>4 DEF WithSign
        <4>2. q + 1 \in Int
          OBVIOUS
        <4>3. QED BY <3>1, <4>1, <4>2
      <3>5. QED BY <1>5, <3>3, <3>4
    <2>4. (v - R) % m = 0
      BY <1>2, <2>3, MultipleIs
    <2>5. Magnitude(R) < Magnitude(w)
      BY <1>2, <2>1, <2>2, WithSignIs
    <2>6. (R < 0) = (w < 0)
      <3>1. R < 0 <=> w < 0
        BY <1>2, <2>1, <2>2, WithSignIs
      <3>2. QED BY <3>1, SameSign
    <2>7. ModuloTo(v, w, R)
      BY <1>2, <2>4, <2>5, <2>6 DEF ModuloTo
    <2>8. QED BY <1>1, <2>7
  <1>6. CASE an # bn /\ r = 0
    <2>1. PICK c \in Int : v = m * c
      <3>1. n = m * q /\ -n = m * (-q)
        BY <1>3, <1>6
      <3>2. -q \in Int /\ q \in Int
        OBVIOUS
      <3>3. QED BY <1>1, <3>1, <3>2 DEF WithSign
    <2>2. v % m = 0
      BY <1>2, <2>1, MultipleIs
    <2>3. ~(v < 0 <=> w < 0)
      BY <1>2, <1>6
    <2>4. (v < 0) # (w < 0)
      BY <2>3, OtherSigns
    <2>5. QED BY <1>1, <1>2, <2>2, <2>4
  <1>7. QED BY <1>4, <1>5, <1>6

-----------------------------------------------------------------------------
(* Division *)

\* a dividend that is not longer than the divisor can have one limb only
LEMMA QuotientOfLimbs ==
  ASSUME NEW s \in Seq(Limb), NEW t \in Seq(Limb), NEW L \in Nat, NEW M \in Nat,
         Len(s) = L + 1, Len(t) = M + 1, M <= L, B^^M <= NatOf(t)
  PROVE  /\ MpnQuotient(s, t) \in Seq(Limb) /\ NatOf(MpnQuotient(s, t)) = NatOf(s) \div NatOf(t)
         /\ MpnRemainder(s, t) \in Seq(Limb) /\ NatOf(MpnRemainder(s, t)) = NatOf(s) % NatOf(t)
         /\ Len(MpnRemainder(s, t)) = M + 1
  <1>1. PICK n \in Nat, m \in Nat, p \in Nat, c \in Nat :
          /\ n = NatOf(s) /\ n < B^^(L + 1) /\ m = NatOf(t) /\ m < B^^(M + 1)
          /\ p = B^^M /\ p <= m /\ p > 0 /\ c = B^^(L - M + 1) /\ c > 0
    <2>1. L - M + 1 \in Nat
      OBVIOUS
    <2>2. NatOf(s) \in Nat /\ NatOf(s) < B^^(L + 1)
      <3>1. NatOf(s) \in Nat /\ NatOf(s) < B^^Len(s)
        BY NatOfBounded
      <3>2. QED BY <3>1
    <2>3. NatOf(t) \in Nat /\ NatOf(t) < B^^(M + 1)
      <3>1. NatOf(t) \in Nat /\ NatOf(t) < B^^Len(t)
        BY NatOfBounded
      <3>2. QED BY <3>1
    <2>4. B^^M \in Nat /\ B^^M > 0
      BY BasePowers
    <2>5. B^^(L - M + 1) \in Nat /\ B^^(L - M + 1) > 0
      BY <2>1, BasePowers
    <2>6. QED BY <2>2, <2>3, <2>4, <2>5
  <1>2. m > 0
    BY <1>1
  <1>3. PICK q \in Nat, r \in Nat : q = n \div m /\ r = n % m /\ Divides(n, m, q, r)
    BY <1>2, DividesAre
  <1>4. n = m * q + r /\ r < m
    BY <1>3 DEF Divides
  <1>5. B^^(L + 1) = p * c
    <2>1. L - M + 1 \in Nat /\ L + 1 = M + (L - M + 1) /\ B \in Int
      BY BaseFacts
    <2>2. QED BY <1>1, <2>1, PowerOfSum
  <1>6. q < c
    <2>1. ASSUME c <= q PROVE FALSE
      <3>1. PICK d \in Nat, e \in Nat : q = c + d /\ m = p + e
        <4>1. q - c \in Nat /\ q = c + (q - c) /\ m - p \in Nat /\ m = p + (m - p)
          BY <1>1, <2>1
        <4>2. QED BY <4>1
      <3>2. PICK f \in Nat, g \in Nat : f = p * d /\ g = e * q
        OBVIOUS
      <3>3. m * q = p * c + f + g
        BY <3>1, <3>2
      <3>4. PICK h \in Nat : h = p * c /\ n < h
        BY <1>1, <1>5
      <3>5. QED BY <1>4, <3>2, <3>3, <3>4
    <2>2. QED BY <2>1
  <1>7. MpnQuotient(s, t) = LimbsOf(q, L - M + 1) /\ MpnRemainder(s, t) = LimbsOf(r, M + 1)
    <2>1. Len(s) - Len(t) + 1 = L - M + 1
      OBVIOUS
    <2>2. QED BY <1>1, <1>3, <2>1 DEF MpnQuotient, MpnRemainder
  <1>8. NatOf(LimbsOf(q, L - M + 1)) = q /\ LimbsOf(q, L - M + 1) \in Seq(Limb)
    <2>1. L - M + 1 \in Nat /\ q < B^^(L - M + 1)
      BY <1>1, <1>6
    <2>2. QED BY <2>1, LimbsOfAre, NatOfItsLimbs
  <1>9. /\ NatOf(LimbsOf(r, M + 1)) = r /\ LimbsOf(r, M + 1) \in Seq(Limb)
        /\ Len(LimbsOf(r, M + 1)) = M + 1
    <2>1. M + 1 \in Nat /\ r < B^^(M + 1)
      <3>1. PICK z \in Nat : z = B^^(M + 1) /\ m < z
        <4>1. B^^(M + 1) \in Nat
          BY BasePowers
        <4>2. QED BY <1>1, <4>1
      <3>2. QED BY <1>4, <3>1
    <2>2. QED BY <2>1, LimbsOfAre, NatOfItsLimbs
  <1>10. QED BY <1>1, <1>3, <1>7, <1>8, <1>9

\* divided by one limb
LEMMA QuotientByLimb ==
  ASSUME NEW s \in Seq(Limb), NEW L \in Nat, Len(s) = L + 1, NEW m \in Limb, m > 0
  PROVE  /\ MpnQuotient(s, <<m>>) \in Seq(Limb)
         /\ NatOf(MpnQuotient(s, <<m>>)) = NatOf(s) \div m
         /\ MpnRemainder(s, <<m>>)[1] = NatOf(s) % m
  <1>1. PICK t : t = <<m>>
    OBVIOUS
  <1>2. t \in Seq(Limb) /\ Len(t) = 0 + 1 /\ NatOf(t) = m /\ m \in Nat
    BY <1>1, OneLimb
  <1>3. B^^0 <= NatOf(t) /\ 0 \in Nat /\ 0 <= L
    BY <1>2, BasePowers
  <1>4. /\ MpnQuotient(s, t) \in Seq(Limb) /\ NatOf(MpnQuotient(s, t)) = NatOf(s) \div m
        /\ MpnRemainder(s, t) \in Seq(Limb) /\ NatOf(MpnRemainder(s, t)) = NatOf(s) % m
        /\ Len(MpnRemainder(s, t)) = 1
    <2>1. /\ MpnQuotient(s, t) \in Seq(Limb) /\ NatOf(MpnQuotient(s, t)) = NatOf(s) \div NatOf(t)
          /\ MpnRemainder(s, t) \in Seq(Limb) /\ NatOf(MpnRemainder(s, t)) = NatOf(s) % NatOf(t)
          /\ Len(MpnRemainder(s, t)) = 0 + 1
      BY <1>2, <1>3, QuotientOfLimbs
    <2>2. QED BY <1>2, <2>1
  <1>9. PICK u \in Seq(Limb) : u = MpnRemainder(s, t) /\ Len(u) = 1
    BY <1>4
  <1>5. PICK d : d = u[1]
    OBVIOUS
  <1>6. u = <<d>> /\ d \in Limb
    <2>1. 1 \in 1 .. Len(u)
      BY <1>9
    <2>2. d \in Limb
      BY <1>5, <2>1, LimbsAre
    <2>3. QED BY <1>5, <1>9, <2>2
  <1>7. NatOf(u) = d
    BY <1>6, NatOfOne
  <1>8. QED BY <1>1, <1>4, <1>5, <1>7, <1>9

\* the magnitude of the larger has no shorter sequence of limbs
LEMMA NotShorter ==
  ASSUME NEW a, NEW an, NEW s, NEW n, NEW L, Stands(a, an, s, n, L),
         NEW b, NEW bn, NEW t, NEW m, NEW M, Stands(b, bn, t, m, M), L < M
  PROVE  n < m
  <1>1. Len(s) < Len(t)
    BY DEF Stands
  <1>2. QED BY <1>1, MagnitudesOrdered

\* ikrt_bnbndivrem divides
LEMMA BnBnDivRemIs ==
  ASSUME NEW a, NEW an, NEW s, NEW n, NEW L, Stands(a, an, s, n, L),
         NEW b, NEW bn, NEW t, NEW m, NEW M, Stands(b, bn, t, m, M)
  PROVE  \E q \in Nat, r \in Nat, neg \in BOOLEAN :
           /\ Divides(n, m, q, r) /\ Opposes(neg, an, bn)
           /\ Value(BnBnDivRem(a, b)[1]) = WithSign(neg, q)
           /\ Value(BnBnDivRem(a, b)[2]) = WithSign(an, r)
           /\ BnBnDivRem(a, b)[2] \in Number
           /\ L < M \/ Verified(BnBnDivRem(a, b)[2])
           /\ L < M => BnBnDivRem(a, b)[2] = a
  <1>1. /\ a.neg = an /\ a.limbs = s /\ s \in Seq(Limb) /\ Len(s) = L + 1 /\ L \in Nat /\ n = NatOf(s)
        /\ n \in Nat /\ an \in BOOLEAN /\ Value(a) = WithSign(an, n) /\ a = Big(an, s)
    BY DEF Stands
  <1>2. /\ b.neg = bn /\ b.limbs = t /\ t \in Seq(Limb) /\ Len(t) = M + 1 /\ M \in Nat /\ m = NatOf(t)
        /\ m \in Nat /\ bn \in BOOLEAN /\ B^^M <= m /\ m > Limit(bn)
    BY DEF Stands
  <1>3. m > 0
    BY <1>2, LimitsAre
  <1>4. PICK neg \in BOOLEAN : Opposes(neg, an, bn)
    BY <1>1, <1>2, OtherSign
  <1>5. CASE L < M
    <2>1. BnBnDivRem(a, b) = <<Fix(0), a>>
      BY <1>1, <1>2, <1>5 DEF BnBnDivRem
    <2>2. n < m
      BY <1>5, NotShorter
    <2>3. Divides(n, m, 0, n)
      BY <1>1, <1>2, <1>3, <2>2 DEF Divides
    <2>4. Value(Fix(0)) = WithSign(neg, 0)
      BY FixIs DEF WithSign
    <2>5. a \in Number
      BY <1>1, BigIs
    <2>6. QED BY <1>1, <1>4, <1>5, <2>1, <2>3, <2>4, <2>5
  <1>6. CASE ~(L < M)
    <2>1. M <= L
      BY <1>1, <1>2, <1>6
    <2>2. PICK u, v : u = MpnQuotient(s, t) /\ v = MpnRemainder(s, t)
      OBVIOUS
    <2>3. u \in Seq(Limb) /\ NatOf(u) = n \div m /\ v \in Seq(Limb) /\ NatOf(v) = n % m
      <3>1. B^^M <= NatOf(t)
        BY <1>2
      <3>2. QED BY <1>1, <1>2, <2>1, <2>2, <3>1, QuotientOfLimbs
    <2>4. PICK q \in Nat, r \in Nat : q = n \div m /\ r = n % m /\ Divides(n, m, q, r)
      BY <1>1, <1>2, <1>3, DividesAre
    <2>5. BnBnDivRem(a, b) = <<Normalize(u, neg), Normalize(v, an)>>
      <3>1. ~(Len(s) < Len(t))
        BY <1>1, <1>2, <1>6
      <3>2. neg = (an # bn)
        BY <1>4 DEF Opposes
      <3>3. QED BY <1>1, <1>2, <2>2, <3>1, <3>2, Zenon DEF BnBnDivRem
    <2>6. Value(Normalize(u, neg)) = WithSign(neg, q)
      BY <2>3, <2>4, NormalizeIs DEF WithSign
    <2>7. /\ Value(Normalize(v, an)) = WithSign(an, r)
          /\ Normalize(v, an) \in Number /\ Verified(Normalize(v, an))
      BY <1>1, <2>3, <2>4, NormalizeIs DEF WithSign
    <2>8. BnBnDivRem(a, b)[1] = Normalize(u, neg) /\ BnBnDivRem(a, b)[2] = Normalize(v, an)
      BY <2>5
    <2>9. QED BY <1>4, <1>6, <2>4, <2>6, <2>7, <2>8
  <1>7. QED BY <1>5, <1>6

\* ikrt_bnfxdivrem divides
LEMMA BnFxDivRemIs ==
  ASSUME NEW a, NEW an, NEW s, NEW n, NEW L, Stands(a, an, s, n, L),
         NEW b, NEW bn, NEW m, FixParts(b, bn, m), bn \in BOOLEAN, m > 0
  PROVE  \E q \in Nat, r \in Nat, neg \in BOOLEAN :
           /\ Divides(n, m, q, r) /\ Opposes(neg, an, bn)
           /\ MpnRemainder(s, <<m>>)[1] = r
           /\ Value(BnFxDivRem(a, b)[1]) = WithSign(neg, q)
           /\ Value(BnFxDivRem(a, b)[2]) = WithSign(an, r)
  <1>1. /\ a.neg = an /\ a.limbs = s /\ s \in Seq(Limb) /\ Len(s) = L + 1 /\ L \in Nat /\ n = NatOf(s)
        /\ n \in Nat /\ an \in BOOLEAN
    BY DEF Stands
  <1>2. bn = (b.int < 0) /\ m = Magnitude(b.int) /\ m \in Limb /\ m \in Nat
    BY DEF FixParts
  <1>3. PICK neg \in BOOLEAN : Opposes(neg, an, bn)
    BY <1>1, OtherSign
  <1>4. PICK u, r : u = MpnQuotient(s, <<m>>) /\ r = MpnRemainder(s, <<m>>)[1]
    OBVIOUS
  <1>5. u \in Seq(Limb) /\ NatOf(u) = n \div m /\ r = n % m
    BY <1>1, <1>2, <1>4, QuotientByLimb
  <1>6. PICK q \in Nat, rr \in Nat : q = n \div m /\ rr = n % m /\ Divides(n, m, q, rr)
    BY <1>1, <1>2, DividesAre
  <1>7. BnFxDivRem(a, b) = <<Normalize(u, neg), Fix(IF an THEN -r ELSE r)>>
    <2>1. neg = (an # bn)
      BY <1>3 DEF Opposes
    <2>2. QED BY <1>1, <1>2, <1>4, <2>1, Zenon DEF BnFxDivRem
  <1>8. Value(Normalize(u, neg)) = WithSign(neg, q)
    BY <1>5, <1>6, NormalizeIs DEF WithSign
  <1>9. Value(Fix(IF an THEN -r ELSE r)) = WithSign(an, r)
    <2>1. r \in Nat
      BY <1>5, <1>6
    <2>2. QED BY <2>1, FixIs DEF WithSign
  <1>10. r = rr /\ BnFxDivRem(a, b)[1] = Normalize(u, neg)
         /\ BnFxDivRem(a, b)[2] = Fix(IF an THEN -r ELSE r)
    BY <1>5, <1>6, <1>7
  <1>11. QED BY <1>3, <1>4, <1>6, <1>8, <1>9, <1>10

-----------------------------------------------------------------------------
(* The operations of division *)

\* zero is the fixnum 0
LEMMA NotZero ==
  ASSUME NEW a, NEW an \in BOOLEAN, NEW n \in Nat, FixParts(a, an, n), a # Fix(0)
  PROVE  n > 0 /\ a.int # 0
  <1>1. a.int \in Int /\ a = Fix(a.int) /\ n = Magnitude(a.int)
    BY DEF FixParts
  <1>2. a.int # 0
    BY <1>1
  <1>3. PICK i \in Int : i = a.int /\ i # 0
    BY <1>1, <1>2
  <1>4. Magnitude(i) > 0
    BY <1>3 DEF Magnitude
  <1>5. QED BY <1>1, <1>2, <1>3, <1>4

\* the quotient of fixnums is rounded towards zero
LEMMA FxQuotientIs ==
  ASSUME NEW a, NEW an \in BOOLEAN, NEW n \in Nat, FixParts(a, an, n),
         NEW b, NEW bn \in BOOLEAN, NEW m \in Nat, FixParts(b, bn, m),
         m > 0, NEW neg \in BOOLEAN, Opposes(neg, an, bn)
  PROVE  FxQuotient(a.int, b.int) = WithSign(neg, n \div m)
  <1>1. an = (a.int < 0) /\ n = Magnitude(a.int) /\ bn = (b.int < 0) /\ m = Magnitude(b.int)
    BY DEF FixParts
  <1>2. neg = (an # bn)
    BY DEF Opposes
  <1>3. QED BY <1>1, <1>2, Zenon DEF FxQuotient, WithSign

\* a fixnum is smaller than a bignum, but for one
LEMMA FixBelowBig ==
  ASSUME NEW a, NEW an \in BOOLEAN, NEW n \in Nat, FixParts(a, an, n),
         NEW b, NEW bn, NEW t, NEW m, NEW M, Stands(b, bn, t, m, M)
  PROVE  \/ n < m
         \/ /\ n = m /\ an /\ ~bn
            /\ a = Fix(-most_negative_fixnum) /\ b = Big(FALSE, <<most_negative_fixnum>>)
  <1>1. /\ n <= Limit(an) /\ n <= most_negative_fixnum /\ a = Fix(a.int) /\ a.int = WithSign(an, n)
    BY DEF FixParts
  <1>2. /\ b = Big(bn, t) /\ bn \in BOOLEAN /\ t \in Seq(Limb) /\ m \in Nat /\ m > Limit(bn) /\ M \in Nat
        /\ Len(t) = M + 1 /\ m = NatOf(t) /\ B^^M <= m
    BY DEF Stands
  <1>3. /\ most_positive_fixnum \in Nat /\ most_negative_fixnum = most_positive_fixnum + 1
        /\ most_negative_fixnum < B /\ B \in Nat
    BY BaseFacts
  <1>4. /\ n < m \/ (n = m /\ an /\ ~bn /\ m = most_negative_fixnum)
    BY <1>1, <1>2, <1>3 DEF Limit
  <1>5. ASSUME n = m, an, ~bn, m = most_negative_fixnum
        PROVE  a = Fix(-most_negative_fixnum) /\ b = Big(FALSE, <<most_negative_fixnum>>)
    <2>1. a = Fix(-most_negative_fixnum)
      BY <1>1, <1>5 DEF WithSign
    <2>2. M = 0
      <3>1. ASSUME M > 0 PROVE FALSE
        <4>1. B^^1 <= B^^M
          BY <1>2, <3>1, BaseFacts, PowersGrow
        <4>2. PICK p \in Nat : p = B^^M /\ B <= p
          BY <1>2, <4>1, BasePowers
        <4>3. QED BY <1>2, <1>3, <1>5, <4>2
      <3>2. QED BY <1>2, <3>1
    <2>3. PICK l : l = t[1]
      OBVIOUS
    <2>4. Len(t) = 1
      BY <1>2, <2>2
    <2>5. l \in Limb
      <3>1. 1 \in 1 .. Len(t)
        BY <2>4
      <3>2. QED BY <1>2, <2>3, <3>1, LimbsAre
    <2>6. t = <<l>>
      <3>1. t \in Seq(Limb) /\ Len(t) = 1 /\ t[1] = l
        BY <1>2, <2>3, <2>4
      <3>2. QED BY <3>1
    <2>7. l = most_negative_fixnum
      BY <1>2, <1>5, <2>5, <2>6, NatOfOne
    <2>8. bn = FALSE
      BY <1>2, <1>5
    <2>9. QED BY <1>2, <2>1, <2>6, <2>7, <2>8
  <1>6. QED BY <1>4, <1>5

\* the least fixnum and its negation
LeastAndNegation(a, b) ==
  a = Fix(-most_negative_fixnum) /\ b = Big(FALSE, <<most_negative_fixnum>>)

\* quotient and remainder of fixnums
LEMMA FxFxDivRem ==
  ASSUME NEW a \in Proper, IsFix(a), NEW b \in Proper, IsFix(b), b # Fix(0)
  PROVE  DividesTo(Value(a), Value(b), Value(DivRemOf(a, b)[1]), Value(DivRemOf(a, b)[2]))
  <1>1. PICK an \in BOOLEAN, n \in Nat : FixParts(a, an, n)
    BY FixPartsAre
  <1>2. PICK bn \in BOOLEAN, m \in Nat : FixParts(b, bn, m)
    BY FixPartsAre
  <1>3. PICK i \in Int, j \in Int : i = a.int /\ j = b.int
    BY <1>1, <1>2 DEF FixParts
  <1>4. /\ a = Fix(i) /\ Value(a) = i /\ i = WithSign(an, n)
        /\ b = Fix(j) /\ Value(b) = j /\ j = WithSign(bn, m)
    BY <1>1, <1>2, <1>3 DEF FixParts
  <1>5. m > 0
    BY <1>2, NotZero
  <1>6. CASE j = -1
    <2>1. DivRemOf(a, b) = <<FxFxMinus(Fix(0), a), Fix(0)>>
      BY <1>3, <1>6 DEF DivRemOf
    <2>2. Fix(0) \in Proper /\ IsFix(Fix(0)) /\ Value(Fix(0)) = 0
      <3>1. FitsFixnum(0)
        BY BaseFacts DEF FitsFixnum
      <3>2. QED BY <3>1, FixIs DEF Proper
    <2>3. Value(FxFxMinus(Fix(0), a)) = 0 - i
      BY <1>4, <2>2, FxFxIs
    <2>4. PICK q \in Int : q = 0 - i
      OBVIOUS
    <2>5. DividesTo(i, -1, q, 0)
      BY <2>4 DEF DividesTo, Magnitude
    <2>6. Value(DivRemOf(a, b)[1]) = q /\ Value(DivRemOf(a, b)[2]) = 0
      BY <2>1, <2>2, <2>3, <2>4
    <2>7. QED BY <1>4, <1>6, <2>5, <2>6
  <1>7. CASE j # -1
    <2>1. PICK q \in Nat, r \in Nat : q = n \div m /\ r = n % m /\ Divides(n, m, q, r)
      BY <1>5, DividesAre
    <2>2. PICK neg \in BOOLEAN : Opposes(neg, an, bn)
      BY OtherSign
    <2>3. FxQuotient(i, j) = WithSign(neg, q)
      BY <1>1, <1>2, <1>3, <1>5, <2>1, <2>2, FxQuotientIs
    <2>4. PICK Q \in Int, R \in Int : Q = WithSign(neg, q) /\ R = WithSign(an, r)
      BY WithSignIs
    <2>5. DividesTo(i, j, Q, R)
      BY <1>4, <2>1, <2>2, <2>4, QuotientParts
    <2>6. R = i - Q * j
      <3>1. i = Q * j + R
        BY <2>5 DEF DividesTo
      <3>2. PICK p \in Int : p = Q * j
        OBVIOUS
      <3>3. QED BY <3>1, <3>2
    <2>7. DivRemOf(a, b) = <<Fix(Q), Fix(R)>>
      <3>1. DivRemOf(a, b) = LET g == FxQuotient(i, j) IN <<Fix(g), Fix(i - g * j)>>
        BY <1>3, <1>7 DEF DivRemOf
      <3>2. QED BY <2>3, <2>4, <2>6, <3>1
    <2>8. DivRemOf(a, b)[1] = Fix(Q) /\ DivRemOf(a, b)[2] = Fix(R)
      BY <2>7
    <2>9. Value(Fix(Q)) = Q /\ Value(Fix(R)) = R
      BY FixIs
    <2>10. QED BY <1>4, <2>5, <2>8, <2>9
  <1>8. QED BY <1>6, <1>7

\* quotient+remainder divides, but for the least fixnum and its negation
LEMMA DivRemIs ==
  ASSUME NEW a \in Proper, NEW b \in Proper, b # Fix(0)
  PROVE  \/ DividesTo(Value(a), Value(b), Value(DivRemOf(a, b)[1]), Value(DivRemOf(a, b)[2]))
         \/ LeastAndNegation(a, b)
  <1>1. CASE IsFix(a) /\ IsFix(b)
    BY <1>1, FxFxDivRem
  <1>2. CASE IsFix(a) /\ ~IsFix(b)
    <2>1. PICK an \in BOOLEAN, n \in Nat : FixParts(a, an, n)
      BY <1>2, FixPartsAre
    <2>2. PICK bn \in BOOLEAN, t \in Seq(Limb), m \in Nat, M \in Nat : Stands(b, bn, t, m, M)
      BY <1>2, ProperBig
    <2>3. n < m \/ LeastAndNegation(a, b)
      BY <2>1, <2>2, FixBelowBig DEF LeastAndNegation
    <2>4. ASSUME n < m PROVE DividesTo(Value(a), Value(b), 0, Value(a))
      <3>1. Divides(n, m, 0, n)
        BY <2>4 DEF Divides
      <3>2. PICK neg \in BOOLEAN : Opposes(neg, an, bn)
        BY OtherSign
      <3>3. DividesTo(WithSign(an, n), WithSign(bn, m), WithSign(neg, 0), WithSign(an, n))
        BY <3>1, <3>2, QuotientParts
      <3>4. WithSign(neg, 0) = 0
        <4>1. WithSign(neg, 0) \in Int /\ Magnitude(WithSign(neg, 0)) = 0
          BY WithSignIs
        <4>2. PICK w \in Int : w = WithSign(neg, 0) /\ Magnitude(w) = 0
          BY <4>1
        <4>3. w = 0
          BY <4>2 DEF Magnitude
        <4>4. QED BY <4>2, <4>3
      <3>5. Value(a) = WithSign(an, n) /\ Value(b) = WithSign(bn, m)
        BY <2>1, <2>2 DEF FixParts, Stands
      <3>6. QED BY <3>3, <3>4, <3>5
    <2>5. DivRemOf(a, b) = <<Fix(0), a>>
      BY <1>2 DEF DivRemOf
    <2>6. DivRemOf(a, b)[1] = Fix(0) /\ DivRemOf(a, b)[2] = a /\ Value(Fix(0)) = 0
      BY <2>5, FixIs
    <2>7. QED BY <2>3, <2>4, <2>6
  <1>3. CASE ~IsFix(a) /\ IsFix(b)
    <2>1. PICK an \in BOOLEAN, s \in Seq(Limb), n \in Nat, L \in Nat : Stands(a, an, s, n, L)
      BY <1>3, ProperBig
    <2>2. PICK bn \in BOOLEAN, m \in Nat : FixParts(b, bn, m)
      BY <1>3, FixPartsAre
    <2>3. m > 0
      BY <2>2, NotZero
    <2>4. PICK q \in Nat, r \in Nat, neg \in BOOLEAN :
            /\ Divides(n, m, q, r) /\ Opposes(neg, an, bn)
            /\ MpnRemainder(s, <<m>>)[1] = r
            /\ Value(BnFxDivRem(a, b)[1]) = WithSign(neg, q)
            /\ Value(BnFxDivRem(a, b)[2]) = WithSign(an, r)
      BY <2>1, <2>2, <2>3, BnFxDivRemIs
    <2>5. DividesTo(WithSign(an, n), WithSign(bn, m), WithSign(neg, q), WithSign(an, r))
      BY <2>4, QuotientParts
    <2>6. DivRemOf(a, b) = BnFxDivRem(a, b)
      BY <1>3 DEF DivRemOf
    <2>7. Value(a) = WithSign(an, n) /\ Value(b) = WithSign(bn, m)
      BY <2>1, <2>2 DEF FixParts, Stands
    <2>8. QED BY <2>4, <2>5, <2>6, <2>7
  <1>4. CASE ~IsFix(a) /\ ~IsFix(b)
    <2>1. PICK an \in BOOLEAN, s \in Seq(Limb), n \in Nat, L \in Nat : Stands(a, an, s, n, L)
      BY <1>4, ProperBig
    <2>2. PICK bn \in BOOLEAN, t \in Seq(Limb), m \in Nat, M \in Nat : Stands(b, bn, t, m, M)
      BY <1>4, ProperBig
    <2>3. PICK q \in Nat, r \in Nat, neg \in BOOLEAN :
            /\ Divides(n, m, q, r) /\ Opposes(neg, an, bn)
            /\ Value(BnBnDivRem(a, b)[1]) = WithSign(neg, q)
            /\ Value(BnBnDivRem(a, b)[2]) = WithSign(an, r)
      BY <2>1, <2>2, BnBnDivRemIs
    <2>4. DividesTo(WithSign(an, n), WithSign(bn, m), WithSign(neg, q), WithSign(an, r))
      BY <2>3, QuotientParts
    <2>5. DivRemOf(a, b) = BnBnDivRem(a, b)
      BY <1>4 DEF DivRemOf
    <2>6. Value(a) = WithSign(an, n) /\ Value(b) = WithSign(bn, m)
      BY <2>1, <2>2 DEF Stands
    <2>7. QED BY <2>3, <2>4, <2>5, <2>6
  <1>5. QED BY <1>1, <1>2, <1>3, <1>4

-----------------------------------------------------------------------------
(* Modulo *)

\* a multiple of a divisor of the other sign
OtherMultiple(a, b) ==
  /\ ~(IsFix(a) /\ IsFix(b))
  /\ Value(a) % Magnitude(Value(b)) = 0 /\ (Value(a) < 0) # (Value(b) < 0)

\* the shape of the number that modulo returns: the remainder, or the divisor
\* less the remainder
ModuloShape(R, an, bn, m, r) ==
  /\ an = bn => R = WithSign(an, r)
  /\ (an # bn /\ r # 0) => R = WithSign(bn, m - r)
\* what such a number is
ModuloResult(xx, yy, R) ==
  ModuloTo(xx, yy, R) \/ (xx % Magnitude(yy) = 0 /\ (xx < 0) # (yy < 0))

\* a number of that shape is the modulo, or the case of a multiple
LEMMA ModuloShaped ==
  ASSUME NEW an \in BOOLEAN, NEW bn \in BOOLEAN, NEW R \in Int,
         NEW n \in Nat, NEW m \in Nat, NEW q \in Nat, NEW r \in Nat, Divides(n, m, q, r),
         an => n > 0, ModuloShape(R, an, bn, m, r)
  PROVE  ModuloResult(WithSign(an, n), WithSign(bn, m), R)
  <1>1. an = bn => R = WithSign(an, r)
    BY DEF ModuloShape
  <1>2. (an # bn /\ r # 0) => R = WithSign(bn, m - r)
    BY DEF ModuloShape
  <1>3. \/ ModuloTo(WithSign(an, n), WithSign(bn, m), R)
        \/ /\ WithSign(an, n) % Magnitude(WithSign(bn, m)) = 0
           /\ (WithSign(an, n) < 0) # (WithSign(bn, m) < 0)
    BY <1>1, <1>2, ModuloParts
  <1>4. QED BY <1>3 DEF ModuloResult

\* modulo of two fixnums
LEMMA FxFxModulo ==
  ASSUME NEW a \in Proper, IsFix(a), NEW b \in Proper, IsFix(b), b # Fix(0)
  PROVE  ModuloTo(Value(a), Value(b), Value(ModuloOf(a, b, 0)))
  <1>1. PICK bn \in BOOLEAN, m \in Nat : FixParts(b, bn, m)
    BY FixPartsAre
  <1>2. PICK i \in Int, j \in Int : i = a.int /\ j = b.int /\ i = Value(a) /\ j = Value(b)
    BY ProperFix
  <1>3. m > 0 /\ m = Magnitude(j)
    <2>1. m = Magnitude(j)
      BY <1>1, <1>2 DEF FixParts
    <2>2. QED BY <1>1, <2>1, NotZero
  <1>4. PICK c \in Int, d \in Nat : c = i \div m /\ d = i % m /\ d < m /\ i = m * c + d
    BY <1>3, Divided
  <1>5. PICK R \in Int : R = IF j < 0 /\ d # 0 THEN d + j ELSE d
    OBVIOUS
  <1>6. ModuloOf(a, b, 0) = Fix(R)
    BY <1>2, <1>3, <1>4, <1>5 DEF ModuloOf
  <1>7. j = (IF j < 0 THEN -m ELSE m)
    BY <1>3 DEF Magnitude
  <1>8. PICK e \in Int : i - R = m * e
    <2>1. CASE j < 0 /\ d # 0
      <3>1. i - R = m * c + m
        BY <1>4, <1>5, <1>7, <2>1
      <3>2. m * c + m = m * (c + 1) /\ c + 1 \in Int
        OBVIOUS
      <3>3. QED BY <3>1, <3>2
    <2>2. CASE ~(j < 0 /\ d # 0)
      <3>1. R = d
        BY <1>5, <2>2
      <3>2. PICK g \in Int : g = m * c
        OBVIOUS
      <3>3. i - R = g
        BY <1>4, <3>1, <3>2
      <3>4. QED BY <3>2, <3>3
    <2>3. QED BY <2>1, <2>2
  <1>9. (i - R) % m = 0
    BY <1>3, <1>8, MultipleIs
  <1>10. d < m
    BY <1>4
  <1>11. Magnitude(R) < Magnitude(j)
    BY <1>3, <1>5, <1>7, <1>10 DEF Magnitude
  <1>12. ASSUME R # 0 PROVE (R < 0) = (j < 0)
    <2>1. R < 0 <=> j < 0
      BY <1>3, <1>5, <1>7, <1>10, <1>12
    <2>2. QED BY <2>1, SameSign
  <1>13. ModuloTo(i, j, R)
    BY <1>3, <1>9, <1>11, <1>12 DEF ModuloTo
  <1>14. QED BY <1>2, <1>6, <1>13, FixIs

\* modulo of a fixnum and a bignum
LEMMA FxBnModulo ==
  ASSUME NEW a \in Proper, IsFix(a), NEW b \in Proper, ~IsFix(b)
  PROVE  ModuloTo(Value(a), Value(b), Value(ModuloOf(a, b, 0))) \/ OtherMultiple(a, b)
  <1>1. PICK an \in BOOLEAN, n \in Nat : FixParts(a, an, n)
    BY FixPartsAre
  <1>2. PICK bn \in BOOLEAN, t \in Seq(Limb), m \in Nat, M \in Nat : Stands(b, bn, t, m, M)
    BY ProperBig
  <1>3. /\ Value(a) = WithSign(an, n) /\ an = (a.int < 0) /\ (an => n > 0)
        /\ Value(b) = WithSign(bn, m) /\ bn = b.neg /\ m > Limit(bn)
    BY <1>1, <1>2 DEF FixParts, Stands
  <1>4. m > 0
    BY <1>3, LimitsAre
  <1>5. n < m \/ (n = m /\ an /\ ~bn)
    BY <1>1, <1>2, FixBelowBig
  <1>6. ModuloOf(a, b, 0) = IF an # bn THEN FxBnPlus(a, b) ELSE a
    <2>1. ModuloOf(a, b, 0) = IF (a.int < 0) # b.neg THEN FxBnPlus(a, b) ELSE a
      BY DEF ModuloOf
    <2>2. QED BY <1>3, <2>1, Zenon
  <1>7. PICK R \in Int : R = Value(ModuloOf(a, b, 0)) /\ R = IF an # bn THEN WithSign(an, n) + WithSign(bn, m)
                                                              ELSE WithSign(an, n)
    <2>1. Value(FxBnPlus(a, b)) = WithSign(an, n) + WithSign(bn, m)
      BY <1>3, FxBnPlusIs
    <2>2. WithSign(an, n) \in Int /\ WithSign(bn, m) \in Int
      BY WithSignIs
    <2>3. QED BY <1>3, <1>6, <2>1, <2>2
  <1>8. PICK q \in Nat, r \in Nat : /\ Divides(n, m, q, r)
                                    /\ n < m => r = n
                                    /\ n = m => r = 0
    <2>1. CASE n < m
      <3>1. Divides(n, m, 0, n)
        BY <1>4, <2>1 DEF Divides
      <3>2. QED BY <2>1, <3>1
    <2>2. CASE n = m
      <3>1. Divides(n, m, 1, 0)
        BY <1>4, <2>2 DEF Divides
      <3>2. QED BY <2>2, <3>1
    <2>3. QED BY <1>5, <2>1, <2>2
  <1>9. an = bn => R = WithSign(an, r)
    BY <1>5, <1>7, <1>8
  <1>10. an # bn /\ r # 0 => R = WithSign(bn, m - r)
    <2>1. ASSUME an # bn, r # 0 PROVE R = WithSign(bn, m - r)
      <3>1. r = n /\ n < m
        BY <1>5, <1>8, <2>1
      <3>2. R = WithSign(an, n) + WithSign(bn, m)
        BY <1>7, <2>1
      <3>3. QED BY <2>1, <3>1, <3>2 DEF WithSign
    <2>2. QED BY <2>1
  <1>11. ModuloResult(WithSign(an, n), WithSign(bn, m), R)
    <2>1. ModuloShape(R, an, bn, m, r)
      BY <1>9, <1>10 DEF ModuloShape
    <2>2. Divides(n, m, q, r)
      BY <1>8
    <2>3. an => n > 0
      BY <1>3
    <2>4. QED BY <2>1, <2>2, <2>3, ModuloShaped
  <1>12. QED BY <1>3, <1>7, <1>11 DEF OtherMultiple, ModuloResult

\* modulo of a bignum and a fixnum
LEMMA BnFxModuloIs ==
  ASSUME NEW a \in Proper, ~IsFix(a), NEW b \in Proper, IsFix(b), b # Fix(0)
  PROVE  ModuloTo(Value(a), Value(b), Value(ModuloOf(a, b, 0))) \/ OtherMultiple(a, b)
  <1>1. PICK an \in BOOLEAN, s \in Seq(Limb), n \in Nat, L \in Nat : Stands(a, an, s, n, L)
    BY ProperBig
  <1>2. PICK bn \in BOOLEAN, m \in Nat : FixParts(b, bn, m)
    BY FixPartsAre
  <1>3. m > 0 /\ b.int # 0
    BY <1>2, NotZero
  <1>4. PICK q \in Nat, r \in Nat, neg \in BOOLEAN :
            /\ Divides(n, m, q, r) /\ Opposes(neg, an, bn)
            /\ MpnRemainder(s, <<m>>)[1] = r
            /\ Value(BnFxDivRem(a, b)[1]) = WithSign(neg, q)
            /\ Value(BnFxDivRem(a, b)[2]) = WithSign(an, r)
    BY <1>1, <1>2, <1>3, BnFxDivRemIs
  <1>5. /\ Value(a) = WithSign(an, n) /\ an = a.neg /\ s = a.limbs /\ n > Limit(an)
        /\ Value(b) = WithSign(bn, m) /\ (bn <=> b.int < 0) /\ m = Magnitude(b.int) /\ Value(b) = b.int
    BY <1>1, <1>2 DEF FixParts, Stands
  <1>6. n > 0
    BY <1>5, LimitsAre
  <1>7. PICK j \in Int : j = b.int /\ j = WithSign(bn, m) /\ j # 0
    BY <1>3, <1>5, WithSignIs
  <1>8. ModuloOf(a, b, 0) = CASE an /\ j < 0 -> Fix(-r)
                              [] ~an /\ j < 0 -> Fix(j + r)
                              [] an /\ j > 0 -> Fix(j - r)
                              [] OTHER -> Fix(r)
    <2>1. ModuloOf(a, b, 0) = BnFxModulo(a, b)
      BY DEF ModuloOf
    <2>2. BnFxModulo(a, b) = CASE an /\ j < 0 -> Fix(-r)
                               [] ~an /\ j < 0 -> Fix(j + r)
                               [] an /\ j > 0 -> Fix(j - r)
                               [] OTHER -> Fix(r)
      BY <1>4, <1>5, <1>7, Zenon DEF BnFxModulo
    <2>3. QED BY <2>1, <2>2
  <1>9. PICK R \in Int :
          R = IF an THEN (IF bn THEN -r ELSE m - r) ELSE (IF bn THEN -m + r ELSE r)
    <2>1. /\ -r \in Int /\ m - r \in Int /\ -m + r \in Int /\ r \in Int
      OBVIOUS
    <2>2. QED BY <2>1, Zenon
  <1>10. ModuloOf(a, b, 0) = Fix(R)
    <2>1. CASE bn
      <3>1. j < 0 /\ j = -m
        BY <1>5, <1>7, <2>1 DEF WithSign
      <3>2. QED BY <1>8, <1>9, <2>1, <3>1
    <2>2. CASE ~bn
      <3>1. j > 0 /\ j = m /\ ~(j < 0)
        BY <1>3, <1>5, <1>7, <2>2 DEF WithSign
      <3>2. QED BY <1>8, <1>9, <2>2, <3>1
    <2>3. QED BY <2>1, <2>2
  <1>11. an = bn => R = WithSign(an, r)
    BY <1>9 DEF WithSign
  <1>12. an # bn /\ r # 0 => R = WithSign(bn, m - r)
    BY <1>9 DEF WithSign
  <1>13. ModuloResult(WithSign(an, n), WithSign(bn, m), R)
    <2>1. ModuloShape(R, an, bn, m, r)
      BY <1>11, <1>12 DEF ModuloShape
    <2>2. Divides(n, m, q, r)
      BY <1>4
    <2>3. an => n > 0
      BY <1>6
    <2>4. QED BY <2>1, <2>2, <2>3, ModuloShaped
  <1>14. QED BY <1>5, <1>10, <1>13, FixIs DEF OtherMultiple, ModuloResult

\* the sign of a number that has one
LEMMA SignOfRemainder ==
  ASSUME NEW v \in Proper, ~IsFix(v), NEW an \in BOOLEAN, NEW r \in Nat, Value(v) = WithSign(an, r)
  PROVE  v.neg = an
  <1>1. PICK vn \in BOOLEAN, s \in Seq(Limb), n \in Nat, L \in Nat : Stands(v, vn, s, n, L)
    BY ProperBig
  <1>2. v.neg = vn /\ Value(v) = WithSign(vn, n) /\ n > Limit(vn)
    BY <1>1 DEF Stands
  <1>3. n > 0
    BY <1>2, LimitsAre
  <1>4. vn <=> an
    BY <1>2, <1>3 DEF WithSign
  <1>5. QED BY <1>2, <1>4, Zenon

\* modulo of two bignums
LEMMA BnBnModulo ==
  ASSUME NEW a \in Proper, ~IsFix(a), NEW b \in Proper, ~IsFix(b)
  PROVE  ModuloTo(Value(a), Value(b), Value(ModuloOf(a, b, 0))) \/ OtherMultiple(a, b)
  <1>1. PICK an \in BOOLEAN, s \in Seq(Limb), n \in Nat, L \in Nat : Stands(a, an, s, n, L)
    BY ProperBig
  <1>2. PICK bn \in BOOLEAN, t \in Seq(Limb), m \in Nat, M \in Nat : Stands(b, bn, t, m, M)
    BY ProperBig
  <1>3. PICK q \in Nat, r \in Nat, neg \in BOOLEAN :
           /\ Divides(n, m, q, r) /\ Opposes(neg, an, bn)
           /\ Value(BnBnDivRem(a, b)[1]) = WithSign(neg, q)
           /\ Value(BnBnDivRem(a, b)[2]) = WithSign(an, r)
           /\ BnBnDivRem(a, b)[2] \in Number
           /\ L < M \/ Verified(BnBnDivRem(a, b)[2])
           /\ L < M => BnBnDivRem(a, b)[2] = a
    BY <1>1, <1>2, BnBnDivRemIs
  <1>4. /\ Value(a) = WithSign(an, n) /\ an = a.neg /\ n > Limit(an)
        /\ Value(b) = WithSign(bn, m) /\ bn = b.neg
    BY <1>1, <1>2 DEF Stands
  <1>5. n > 0
    BY <1>4, LimitsAre
  <1>6. PICK v : v = BnBnDivRem(a, b)[2]
    OBVIOUS
  <1>7. v \in Proper /\ Value(v) = WithSign(an, r)
    BY <1>3, <1>6 DEF Proper
  <1>8. ModuloOf(a, b, 0) = IF an = bn THEN v ELSE PlusOf(b, v, 0)
    <2>1. DivRemOf(a, b) = BnBnDivRem(a, b)
      BY DEF DivRemOf
    <2>2. ModuloOf(a, b, 0) =
            LET g == DivRemOf(a, b)[2] IN IF a.neg = b.neg THEN g ELSE PlusOf(b, g, 0)
      BY DEF ModuloOf
    <2>3. QED BY <1>4, <1>6, <2>1, <2>2
  <1>9. an # bn => Value(PlusOf(b, v, 0)) = WithSign(bn, m) + WithSign(an, r)
    <2>1. ASSUME an # bn PROVE Value(PlusOf(b, v, 0)) = WithSign(bn, m) + WithSign(an, r)
      <3>1. ~IsFix(v) => v.neg = an
        BY <1>7, SignOfRemainder
      <3>2. (~IsFix(b) /\ ~IsFix(v) /\ b.neg = v.neg) => ~Misplaced(b, v)
        BY <1>4, <2>1, <3>1
      <3>3. 0 \in Limb
        BY BaseFacts DEF Limb
      <3>4. Value(PlusOf(b, v, 0)) = Value(b) + Value(v)
        BY <1>7, <3>2, <3>3, PlusIs
      <3>5. QED BY <1>4, <1>7, <3>4
    <2>2. QED BY <2>1
  <1>10. PICK R \in Int : R = Value(ModuloOf(a, b, 0))
                          /\ R = IF an = bn THEN WithSign(an, r) ELSE WithSign(bn, m) + WithSign(an, r)
    <2>1. WithSign(an, r) \in Int /\ WithSign(bn, m) \in Int
      BY WithSignIs
    <2>2. QED BY <1>7, <1>8, <1>9, <2>1
  <1>11. an = bn => R = WithSign(an, r)
    BY <1>10
  <1>12. an # bn /\ r # 0 => R = WithSign(bn, m - r)
    BY <1>10 DEF WithSign
  <1>13. ModuloResult(WithSign(an, n), WithSign(bn, m), R)
    <2>1. ModuloShape(R, an, bn, m, r)
      BY <1>11, <1>12 DEF ModuloShape
    <2>2. Divides(n, m, q, r)
      BY <1>3
    <2>3. an => n > 0
      BY <1>5
    <2>4. QED BY <2>1, <2>2, <2>3, ModuloShaped
  <1>14. QED BY <1>4, <1>10, <1>13 DEF OtherMultiple, ModuloResult

\* modulo is on the side of the divisor, but for multiples of other signs
LEMMA ModuloIs ==
  ASSUME NEW a \in Proper, NEW b \in Proper, b # Fix(0)
  PROVE  ModuloTo(Value(a), Value(b), Value(ModuloOf(a, b, 0))) \/ OtherMultiple(a, b)
  BY FxFxModulo, FxBnModulo, BnFxModuloIs, BnBnModulo

-----------------------------------------------------------------------------
(* Square roots *)

\* rr is what the square of ss leaves of xx
RootTo(xx, ss, rr) == ss * ss <= xx /\ xx < (ss + 1) * (ss + 1) /\ ss * ss + rr = xx

\* the greatest natural whose square is at most n
LEMMA FloorSqrtIs ==
  ASSUME NEW n \in Nat
  PROVE  /\ FloorSqrt(n) \in Nat
         /\ FloorSqrt(n) * FloorSqrt(n) <= n
         /\ n < (FloorSqrt(n) + 1) * (FloorSqrt(n) + 1)
  <1>1. PICK S : S = {s \in 0 .. n : s * s <= n}
    OBVIOUS
  <1>2. 0 \in S /\ S \subseteq 0 .. n
    <2>1. 0 * 0 <= n
      OBVIOUS
    <2>2. QED BY <1>1, <2>1
  <1>3. PICK m \in S : \A s \in S : s <= m
    BY <1>2, GreatestNumber
  <1>4. m \in 0 .. n /\ m * m <= n
    BY <1>1
  <1>5. (m + 1) * (m + 1) > n
    <2>1. ASSUME ~((m + 1) * (m + 1) > n) PROVE FALSE
      <3>1. PICK k \in Nat : k = m + 1
        BY <1>4
      <3>2. PICK z \in Nat : z = k * k /\ z <= n
        BY <2>1, <3>1
      <3>3. k <= z
        <4>1. PICK w \in Nat : w = m * k
          BY <1>4, <3>1
        <4>2. z = w + k
          BY <1>4, <3>1, <3>2, <4>1
        <4>3. QED BY <4>2
      <3>4. k \in S
        BY <1>1, <3>2, <3>3
      <3>5. QED BY <1>3, <1>4, <3>1, <3>4
    <2>2. QED BY <2>1
  <1>6. \E s \in 0 .. n : s * s <= n /\ (s + 1) * (s + 1) > n
    BY <1>4, <1>5
  <1>7. PICK f : f = FloorSqrt(n)
    OBVIOUS
  <1>8. f \in 0 .. n /\ f * f <= n /\ (f + 1) * (f + 1) > n
    BY <1>6, <1>7, Zenon DEF FloorSqrt
  <1>9. f \in Nat
    BY <1>8
  <1>10. n < (f + 1) * (f + 1)
    BY <1>8, <1>9
  <1>11. QED BY <1>7, <1>8, <1>9, <1>10

\* exact-integer-sqrt: the root fits half the limbs, the rest all of them
LEMMA SqrtIs ==
  ASSUME NEW a \in Proper, Value(a) >= 0
  PROVE  RootTo(Value(a), Value(SqrtOf(a)[1]), Value(SqrtOf(a)[2]))
  <1>1. PICK v \in Nat : v = Value(a)
    BY NumberIs DEF Proper
  <1>2. PICK s \in Nat : s = FloorSqrt(v) /\ s * s <= v /\ v < (s + 1) * (s + 1)
    BY FloorSqrtIs
  <1>3. PICK z \in Nat, r \in Nat : z = s * s /\ r = v - z
    BY <1>2
  <1>4. RootTo(v, s, r)
    BY <1>2, <1>3 DEF RootTo
  <1>5. CASE IsFix(a)
    <2>1. a.int = v
      BY <1>1, <1>5, ProperFix
    <2>2. SqrtOf(a) = <<Fix(s), Fix(r)>>
      BY <1>2, <1>3, <1>5, <2>1 DEF SqrtOf
    <2>3. QED BY <1>1, <1>4, <2>2, FixIs
  <1>6. CASE ~IsFix(a)
    <2>1. PICK an \in BOOLEAN, u \in Seq(Limb), n \in Nat, L \in Nat : Stands(a, an, u, n, L)
      BY <1>6, ProperBig
    <2>2. /\ a.limbs = u /\ Len(u) = L + 1 /\ n = NatOf(u) /\ Value(a) = WithSign(an, n)
          /\ n < B^^(L + 1) /\ n > Limit(an)
      BY <2>1 DEF Stands
    <2>3. v = n
      BY <1>1, <2>2 DEF WithSign
    <2>4. PICK h \in Nat : h = (L + 1 + 1) \div 2 /\ L + 1 <= h + h
      <3>1. PICK c \in Int, d \in Nat : c = (L + 1 + 1) \div 2 /\ d = (L + 1 + 1) % 2 /\ d < 2
                                        /\ L + 1 + 1 = 2 * c + d
        BY Divided
      <3>2. c \in Nat /\ L + 1 <= c + c
        BY <3>1
      <3>3. QED BY <3>1, <3>2
    <2>5. s < B^^h
      <3>1. PICK p \in Nat, g \in Nat : p = B^^h /\ g = B^^(L + 1) /\ g <= p * p
        <4>1. B^^(h + h) = B^^h * B^^h
          BY BaseFacts, PowerOfSum
        <4>2. B^^(L + 1) <= B^^(h + h)
          BY <2>4, BaseFacts, PowersGrow
        <4>3. B^^h \in Nat /\ B^^(L + 1) \in Nat
          <5>1. L + 1 \in Nat
            OBVIOUS
          <5>2. QED BY <5>1, BasePowers
        <4>4. QED BY <4>1, <4>2, <4>3
      <3>2. ASSUME p <= s PROVE FALSE
        <4>1. PICK e \in Nat : s = p + e
          <5>1. s - p \in Nat /\ s = p + (s - p)
            BY <3>2
          <5>2. QED BY <5>1
        <4>2. PICK f \in Nat, k \in Nat : f = p * e /\ k = e * s
          OBVIOUS
        <4>3. s * s = p * p + f + k
          BY <4>1, <4>2
        <4>4. PICK w \in Nat : w = p * p /\ g <= w
          BY <3>1
        <4>5. z = w + f + k
          BY <1>3, <4>3, <4>4
        <4>6. z <= n /\ n < g
          BY <1>2, <1>3, <2>2, <2>3, <3>1
        <4>7. QED BY <4>4, <4>5, <4>6
      <3>3. QED BY <3>1, <3>2
    <2>6. NatOf(LimbsOf(s, h)) = s /\ LimbsOf(s, h) \in Seq(Limb)
      BY <2>5, NatOfItsLimbs, LimbsOfAre
    <2>7. NatOf(LimbsOf(r, L + 1)) = r /\ LimbsOf(r, L + 1) \in Seq(Limb)
      <3>1. r < B^^(L + 1)
        <4>1. r <= n
          BY <1>3, <2>3
        <4>2. B^^(L + 1) \in Nat
          <5>1. L + 1 \in Nat
            OBVIOUS
          <5>2. QED BY <5>1, BasePowers
        <4>3. QED BY <2>2, <4>1, <4>2
      <3>2. QED BY <3>1, NatOfItsLimbs, LimbsOfAre
    <2>8. SqrtOf(a) = <<Normalize(LimbsOf(s, h), FALSE),
                        IF r = 0 THEN Fix(0) ELSE Normalize(LimbsOf(r, L + 1), FALSE)>>
      <3>1. SqrtOf(a) = BnSqrt(a)
        BY <1>6 DEF SqrtOf
      <3>2. NatOf(a.limbs) = v /\ Len(a.limbs) = L + 1
        BY <2>2, <2>3
      <3>3. QED BY <1>2, <1>3, <2>4, <3>1, <3>2 DEF BnSqrt
    <2>9. Value(Normalize(LimbsOf(s, h), FALSE)) = s
      BY <2>6, NormalizeIs
    <2>10. Value(IF r = 0 THEN Fix(0) ELSE Normalize(LimbsOf(r, L + 1), FALSE)) = r
      <3>1. CASE r = 0
        <4>1. Value(Fix(0)) = 0
          BY FixIs
        <4>2. QED BY <3>1, <4>1
      <3>2. CASE r # 0
        <4>1. PICK t \in Seq(Limb) : t = LimbsOf(r, L + 1) /\ NatOf(t) = r
          BY <2>7
        <4>2. Value(Normalize(t, FALSE)) = NatOf(t)
          BY NormalizeIs
        <4>3. QED BY <3>2, <4>1, <4>2
      <3>3. QED BY <3>1, <3>2
    <2>11. PICK u1, u2 : /\ u1 = Normalize(LimbsOf(s, h), FALSE)
                         /\ u2 = IF r = 0 THEN Fix(0) ELSE Normalize(LimbsOf(r, L + 1), FALSE)
      OBVIOUS
    <2>12. SqrtOf(a)[1] = u1 /\ SqrtOf(a)[2] = u2
      BY <2>8, <2>11
    <2>13. Value(SqrtOf(a)[1]) = s /\ Value(SqrtOf(a)[2]) = r
      BY <2>9, <2>10, <2>11, <2>12
    <2>14. QED BY <1>1, <1>4, <2>13
  <1>7. QED BY <1>5, <1>6

-----------------------------------------------------------------------------
(* The program holds integers in their one representation *)

\* The operands are verified, the first one also after the program went on with
\* a result: the operations may rely on it (verify_bignum).
ProgramInvariant == x \in Proper /\ y \in Proper

\* what the program starts with and goes on with is verified
LEMMA OperandsAreProper ==
  /\ Fix(0) \in Proper
  /\ Operand \subseteq Proper /\ Operand2 \subseteq Proper
  <1>1. /\ most_positive_fixnum \in Nat /\ most_negative_fixnum \in Nat
        /\ most_negative_fixnum = most_positive_fixnum + 1
    BY BaseFacts
  <1>2. Fixnums \subseteq Proper
    <2>1. ASSUME NEW v \in Fixnums PROVE v \in Proper
      <3>1. PICK n \in -most_negative_fixnum .. most_positive_fixnum : v = Fix(n)
        BY <2>1 DEF Fixnums
      <3>2. n \in Int /\ FitsFixnum(n)
        BY <1>1, <3>1 DEF FitsFixnum
      <3>3. QED BY <3>1, <3>2, FixIs DEF Proper
    <2>2. QED BY <2>1
  <1>3. Fix(0) \in Proper
    <2>1. 0 \in -most_negative_fixnum .. most_positive_fixnum
      BY <1>1
    <2>2. QED BY <1>2, <2>1 DEF Fixnums
  <1>4. ASSUME NEW k, NEW limbs \in SUBSET Limb, NEW v \in Bignums(k, limbs) PROVE v \in Proper
    <2>1. PICK S : S = UNION {[1 .. i -> limbs] : i \in 1 .. k}
      OBVIOUS
    <2>2. Verified(v) /\ v \in {Big(neg, s) : neg \in BOOLEAN, s \in S}
      BY <1>4, <2>1 DEF Bignums
    <2>3. PICK neg \in BOOLEAN, s \in S : v = Big(neg, s)
      BY <2>2
    <2>4. PICK i \in 1 .. k : s \in [1 .. i -> limbs]
      BY <2>1, <2>3
    <2>5. i \in Nat
      BY <2>4
    <2>6. s \in [1 .. i -> Limb]
      BY <2>4, <1>4
    <2>7. s \in Seq(Limb)
      BY <2>5, <2>6
    <2>8. v \in Number
      BY <2>7, <2>3, BigIs
    <2>9. QED BY <2>2, <2>8 DEF Proper
  <1>5. LimbSample \in SUBSET Limb /\ LimbSample2 \in SUBSET Limb
    BY BignumAssumption DEF Limb, B
  <1>6. Bignums(MaxLimbs, LimbSample) \subseteq Proper /\ Bignums(MaxLimbs2, LimbSample2) \subseteq Proper
    BY <1>4, <1>5
  <1>7. QED BY <1>2, <1>3, <1>6 DEF Operand, Operand2

\* so its operands always are
LEMMA ProgramInductive == Spec => []ProgramInvariant
  <1>1. Init => ProgramInvariant
    BY OperandsAreProper DEF Init, ProgramInvariant
  <1>2. ProgramInvariant /\ [Next]_vars => ProgramInvariant'
    <2> SUFFICES ASSUME ProgramInvariant, [Next]_vars PROVE ProgramInvariant'
      OBVIOUS
    <2>1. CASE UNCHANGED <<x, y>>
      BY <2>1 DEF ProgramInvariant
    <2>2. CASE Continue
      <3>1. y' = y /\ (x' = x \/ x' \in Operand2)
        BY <2>2 DEF Continue
      <3>2. QED BY <3>1, OperandsAreProper DEF ProgramInvariant
    <2>3. Continue \/ UNCHANGED <<x, y>>
      BY DEF Next, vars, Return, Add, Subtract, Multiply, Divide, Modulo, And, Ior, Xor, Not,
             ShiftRight, ShiftLeft, Length, Sqrt, Compare, Inexact, Decimal
    <2>4. QED BY <2>1, <2>2, <2>3
  <1>3. QED BY <1>1, <1>2, PTL DEF Spec

-----------------------------------------------------------------------------
(* One operation at a time *)

Arithmetic == {"+", "-", "*", "compare"}
Division == {"quotient+remainder", "modulo", "exact-integer-sqrt"}

\* a sum
LEMMA AddIsExact ==
  ASSUME ProgramInvariant, Add
  PROVE  ArithmeticExact'
  <1>1. PICK rest \in LimbSample2 : result' = PlusOf(x, y, rest) /\ op' = "+" /\ x' = x /\ y' = y
    BY DEF Add, Return
  <1>2. rest \in Limb
    BY BignumAssumption DEF Limb, B
  <1>3. ASSUME ~CarryMisplaced' PROVE Value(result') = Value(x') + Value(y')
    <2>1. (~IsFix(x) /\ ~IsFix(y) /\ x.neg = y.neg) => ~Misplaced(x, y)
      BY <1>1, <1>3 DEF CarryMisplaced, Misplaced
    <2>2. x \in Proper /\ y \in Proper
      BY DEF ProgramInvariant
    <2>3. Value(PlusOf(x, y, rest)) = Value(x) + Value(y)
      BY <1>2, <2>1, <2>2, PlusIs
    <2>4. QED BY <1>1, <2>3
  <1>4. QED BY <1>1, <1>3 DEF ArithmeticExact, OrderRight, X, Y

\* a difference
LEMMA SubtractIsExact ==
  ASSUME ProgramInvariant, Subtract
  PROVE  ArithmeticExact'
  <1>1. PICK rest \in LimbSample2 : result' = MinusOf(x, y, rest) /\ op' = "-" /\ x' = x /\ y' = y
    BY DEF Subtract, Return
  <1>2. rest \in Limb
    BY BignumAssumption DEF Limb, B
  <1>3. ASSUME ~CarryMisplaced' PROVE Value(result') = Value(x') - Value(y')
    <2>1. (~IsFix(x) /\ ~IsFix(y) /\ x.neg # y.neg) => ~Misplaced(x, y)
      BY <1>1, <1>3 DEF CarryMisplaced, Misplaced
    <2>2. x \in Proper /\ y \in Proper
      BY DEF ProgramInvariant
    <2>3. Value(MinusOf(x, y, rest)) = Value(x) - Value(y)
      BY <1>2, <2>1, <2>2, MinusIs
    <2>4. QED BY <1>1, <2>3
  <1>4. QED BY <1>1, <1>3 DEF ArithmeticExact, OrderRight, X, Y

\* a product
LEMMA MultiplyIsExact ==
  ASSUME ProgramInvariant, Multiply
  PROVE  ArithmeticExact'
  <1>1. result' = TimesOf(x, y) /\ op' = "*" /\ x' = x /\ y' = y
    BY DEF Multiply, Return
  <1>2. Value(TimesOf(x, y)) = Value(x) * Value(y)
    BY TimesIs DEF ProgramInvariant
  <1>3. Value(result') = Value(x') * Value(y')
    BY <1>1, <1>2
  <1>4. QED BY <1>1, <1>3 DEF ArithmeticExact, OrderRight, X, Y

\* a comparison
LEMMA CompareIsRight ==
  ASSUME ProgramInvariant, Compare
  PROVE  ArithmeticExact'
  <1>1. result' = Fix(BnBnComp(x, y)) /\ op' = "compare" /\ x' = x /\ y' = y /\ ~IsFix(x) /\ ~IsFix(y)
    BY DEF Compare, Return
  <1>2. x \in Proper /\ y \in Proper
    BY DEF ProgramInvariant
  <1>3. /\ Value(x) < Value(y) => BnBnComp(x, y) = -1
        /\ Value(x) = Value(y) => BnBnComp(x, y) = 0
        /\ Value(x) > Value(y) => BnBnComp(x, y) = 1
    BY <1>1, <1>2, BnBnCompIs
  <1>4. PICK i \in Int, j \in Int : i = Value(x') /\ j = Value(y') /\ i = Value(x) /\ j = Value(y)
    BY <1>1, <1>2, NumberIs DEF Proper
  <1>5. /\ i < j => result' = Fix(-1)
        /\ i = j => result' = Fix(0)
        /\ i > j => result' = Fix(1)
    BY <1>1, <1>3, <1>4
  <1>6. OrderRight'
    <2>1. CASE i < j
      BY <1>4, <1>5, <2>1 DEF OrderRight, X, Y
    <2>2. CASE i = j
      BY <1>4, <1>5, <2>2 DEF OrderRight, X, Y
    <2>3. CASE i > j
      BY <1>4, <1>5, <2>3 DEF OrderRight, X, Y
    <2>4. QED BY <2>1, <2>2, <2>3
  <1>7. QED BY <1>1, <1>6 DEF ArithmeticExact

\* a quotient and a remainder
LEMMA DivideIsExact ==
  ASSUME ProgramInvariant, Divide
  PROVE  DivisionExact'
  <1>1. /\ result' = DivRemOf(x, y) /\ op' = "quotient+remainder" /\ x' = x /\ y' = y
        /\ y # Fix(0)
    BY DEF Divide, Return
  <1>2. \/ DividesTo(Value(x), Value(y), Value(DivRemOf(x, y)[1]), Value(DivRemOf(x, y)[2]))
        \/ LeastAndNegation(x, y)
    BY <1>1, DivRemIs DEF ProgramInvariant
  <1>3. \/ DividesTo(Value(x'), Value(y'), Value(result'[1]), Value(result'[2]))
        \/ LeastByItsNegation'
    BY <1>1, <1>2 DEF LeastAndNegation, LeastByItsNegation
  <1>4. QuotientRight' \/ LeastByItsNegation'
    BY <1>3 DEF DividesTo, QuotientRight, X, Y
  <1>5. QED BY <1>1, <1>4 DEF DivisionExact, ModuloRight, RootRight

\* a modulo
LEMMA ModuloIsExact ==
  ASSUME ProgramInvariant, Modulo
  PROVE  DivisionExact'
  <1>1. result' = ModuloOf(x, y, 0) /\ op' = "modulo" /\ x' = x /\ y' = y /\ y # Fix(0)
    BY DEF Modulo, Return
  <1>2. ModuloTo(Value(x), Value(y), Value(ModuloOf(x, y, 0))) \/ OtherMultiple(x, y)
    BY <1>1, ModuloIs DEF ProgramInvariant
  <1>3. ModuloTo(Value(x'), Value(y'), Value(result')) \/ MultipleOfOther'
    BY <1>1, <1>2 DEF OtherMultiple, MultipleOfOther, X, Y
  <1>4. ModuloRight' \/ MultipleOfOther'
    BY <1>3 DEF ModuloTo, ModuloRight, X, Y
  <1>5. QED BY <1>1, <1>4 DEF DivisionExact, QuotientRight, RootRight

\* a root and a rest
LEMMA SqrtIsExact ==
  ASSUME ProgramInvariant, Sqrt
  PROVE  DivisionExact'
  <1>1. /\ result' = SqrtOf(x) /\ op' = "exact-integer-sqrt" /\ x' = x /\ y' = y
        /\ Value(x) >= 0
    BY DEF Sqrt, Return
  <1>2. RootTo(Value(x), Value(SqrtOf(x)[1]), Value(SqrtOf(x)[2]))
    BY <1>1, SqrtIs DEF ProgramInvariant
  <1>3. RootTo(Value(x'), Value(result'[1]), Value(result'[2]))
    BY <1>1, <1>2
  <1>4. RootRight'
    BY <1>3 DEF RootTo, RootRight, X
  <1>5. QED BY <1>1, <1>4 DEF DivisionExact, QuotientRight, ModuloRight

\* every step: an operation is one of those, or the properties say nothing of it
LEMMA StepsAreExact ==
  ASSUME ProgramInvariant, [Next]_vars
  PROVE  /\ ArithmeticExact => ArithmeticExact'
         /\ DivisionExact => DivisionExact'
  <1>1. CASE UNCHANGED vars
    BY <1>1 DEF vars, ArithmeticExact, DivisionExact, OrderRight, QuotientRight, ModuloRight,
                RootRight, CarryMisplaced, LeastByItsNegation, MultipleOfOther, X, Y
  <1>2. op' \notin Arithmetic => ArithmeticExact'
    BY DEF Arithmetic, ArithmeticExact, OrderRight
  <1>3. op' \notin Division => DivisionExact'
    BY DEF Division, DivisionExact, QuotientRight, ModuloRight, RootRight
  <1>4. CASE Add
    BY <1>3, <1>4, AddIsExact DEF Add, Return, Division
  <1>5. CASE Subtract
    BY <1>3, <1>5, SubtractIsExact DEF Subtract, Return, Division
  <1>6. CASE Multiply
    BY <1>3, <1>6, MultiplyIsExact DEF Multiply, Return, Division
  <1>7. CASE Compare
    BY <1>3, <1>7, CompareIsRight DEF Compare, Return, Division
  <1>8. CASE Divide
    BY <1>2, <1>8, DivideIsExact DEF Divide, Return, Arithmetic
  <1>9. CASE Modulo
    BY <1>2, <1>9, ModuloIsExact DEF Modulo, Return, Arithmetic
  <1>10. CASE Sqrt
    BY <1>2, <1>10, SqrtIsExact DEF Sqrt, Return, Arithmetic
  <1>11. CASE And \/ Ior \/ Xor \/ Not \/ ShiftRight \/ ShiftLeft \/ Length \/ Inexact \/ Decimal \/ Continue
    <2>1. op' \notin Arithmetic /\ op' \notin Division
      BY <1>11 DEF And, Ior, Xor, Not, ShiftRight, ShiftLeft, Length, Inexact, Decimal, Continue,
                   Return, Arithmetic, Division
    <2>2. QED BY <1>2, <1>3, <2>1
  <1>12. QED BY <1>1, <1>4, <1>5, <1>6, <1>7, <1>8, <1>9, <1>10, <1>11 DEF Next

\* Sums, differences, products and comparisons are those of the integers
\* (ArithmeticExact).
THEOREM ArithmeticIsExact == Spec => []ArithmeticExact
  <1>1. Init => ArithmeticExact
    BY DEF Init, ArithmeticExact, OrderRight
  <1>2. ProgramInvariant /\ ArithmeticExact /\ [Next]_vars => ArithmeticExact'
    BY StepsAreExact
  <1>3. QED BY <1>1, <1>2, ProgramInductive, PTL DEF Spec

\* So are quotients, remainders, moduli and roots (DivisionExact).
THEOREM DivisionIsExact == Spec => []DivisionExact
  <1>1. Init => DivisionExact
    BY DEF Init, DivisionExact, QuotientRight, ModuloRight, RootRight
  <1>2. ProgramInvariant /\ DivisionExact /\ [Next]_vars => DivisionExact'
    BY StepsAreExact
  <1>3. QED BY <1>1, <1>2, ProgramInductive, PTL DEF Spec

-----------------------------------------------------------------------------
(* Numbers that have the same lowest bits *)

\* the remainder has itself as its remainder
LEMMA RemainderOnce ==
  ASSUME NEW a \in Int, NEW m \in Nat, m > 0
  PROVE  (a % m) % m = a % m
  <1>1. PICK r \in Nat : r = a % m /\ r < m
    BY DivisionFacts
  <1>2. r = m * 0 + r
    OBVIOUS
  <1>3. r % m = r
    BY <1>1, <1>2, DivisionIs
  <1>4. QED BY <1>1, <1>3

\* numbers with the same remainder differ by a multiple
LEMMA SameBy ==
  ASSUME NEW a \in Int, NEW b \in Int, NEW m \in Nat, m > 0, a % m = b % m
  PROVE  \E k \in Int : a = b + m * k
  <1>1. PICK q \in Int, r \in Nat : q = a \div m /\ r = a % m /\ a = m * q + r
    BY DivisionFacts
  <1>2. PICK p \in Int, s \in Nat : p = b \div m /\ s = b % m /\ b = m * p + s
    BY DivisionFacts
  <1>3. PICK k \in Int : k = q - p
    OBVIOUS
  <1>4. a = b + m * k
    BY <1>1, <1>2, <1>3
  <1>5. QED BY <1>4

\* numbers that differ by a multiple
LEMMA SameOf ==
  ASSUME NEW a \in Int, NEW b \in Int, NEW m \in Nat, m > 0, \E k \in Int : a = b + m * k
  PROVE  a % m = b % m
  <1>1. PICK k \in Int : a = b + m * k
    OBVIOUS
  <1>2. (b + m * k) % m = b % m
    BY RemainderOfSum
  <1>3. QED BY <1>1, <1>2

\* numbers that have the same lowest bits have so when negated
LEMMA SameNegated ==
  ASSUME NEW a \in Int, NEW b \in Int, NEW m \in Nat, m > 0, a % m = b % m
  PROVE  (-a) % m = (-b) % m
  <1>1. PICK k \in Int : a = b + m * k
    BY SameBy
  <1>2. PICK c \in Int, d \in Int, j \in Int : c = -a /\ d = -b /\ j = -k
    OBVIOUS
  <1>3. c = d + m * j
    BY <1>1, <1>2
  <1>4. c % m = d % m
    BY <1>3, SameOf
  <1>5. QED BY <1>2, <1>4

\* the same low bits, of which fewer are the same too
LEMMA SameBelow ==
  ASSUME NEW a \in Int, NEW b \in Int, NEW m \in Nat, m > 0, NEW c \in Nat, c > 0,
         a % (m * c) = b % (m * c)
  PROVE  a % m = b % m
  <1>1. PICK n \in Nat : n = m * c /\ n > 0
    <2>1. m * c \in Nat /\ m * c > 0
      OBVIOUS
    <2>2. QED BY <2>1
  <1>2. PICK k \in Int : a = b + n * k
    BY <1>1, SameBy
  <1>3. PICK j \in Int : j = c * k
    OBVIOUS
  <1>4. a = b + m * j
    BY <1>1, <1>2, <1>3
  <1>5. QED BY <1>4, SameOf

\* powers of two
LEMMA TwoPowers ==
  /\ 2^^0 = 1 /\ 2^^1 = 2 /\ 2^^W = B
  /\ \A k \in Nat : 2^^k \in Nat /\ 2^^k > 0
  <1>1. 2^^0 = 1 /\ \A n \in Nat : 2^^(n + 1) = 2 * 2^^n
    BY PowersAre
  <1>2. 2^^(0 + 1) = 2 * 1
    BY <1>1
  <1>3. 2^^1 = 2
    BY <1>2
  <1>4. \A k \in Nat : 2^^k \in Nat /\ 2^^k > 0
    BY PowersPositive
  <1>5. QED BY <1>1, <1>3, <1>4 DEF B

\* a power of two is twice the one before
LEMMA HalfPower ==
  ASSUME NEW k \in Nat, k > 0
  PROVE  2^^k = 2 * 2^^(k - 1) /\ 2^^(k - 1) \in Nat /\ 2^^(k - 1) > 0
  <1>1. PICK n \in Nat : n = k - 1 /\ k = n + 1
    <2>1. k - 1 \in Nat /\ k = k - 1 + 1
      OBVIOUS
    <2>2. QED BY <2>1
  <1>2. 2^^(n + 1) = 2 * 2^^n
    BY PowersAre
  <1>3. 2^^n \in Nat /\ 2^^n > 0
    BY TwoPowers
  <1>4. QED BY <1>1, <1>2, <1>3

\* a smaller power divides a greater
LEMMA PowersDivide ==
  ASSUME NEW j \in Nat, NEW k \in Nat, j <= k
  PROVE  \E c \in Nat : c > 0 /\ 2^^k = 2^^j * c
  <1>1. PICK d \in Nat : k = j + d
    <2>1. k - j \in Nat /\ k = j + (k - j)
      OBVIOUS
    <2>2. QED BY <2>1
  <1>2. 2^^k = 2^^j * 2^^d
    BY <1>1, PowerOfSum
  <1>3. 2^^d \in Nat /\ 2^^d > 0
    BY TwoPowers
  <1>4. QED BY <1>2, <1>3

\* numbers with the same k lowest bits have the same j lowest, j <= k
LEMMA FewerBits ==
  ASSUME NEW a \in Int, NEW b \in Int, NEW j \in Nat, NEW k \in Nat, j <= k, a % 2^^k = b % 2^^k
  PROVE  a % 2^^j = b % 2^^j
  <1>1. PICK m \in Nat, c \in Nat : m = 2^^j /\ m > 0 /\ c > 0 /\ 2^^k = m * c
    <2>1. PICK c \in Nat : c > 0 /\ 2^^k = 2^^j * c
      BY PowersDivide
    <2>2. 2^^j \in Nat /\ 2^^j > 0
      BY TwoPowers
    <2>3. QED BY <2>1, <2>2
  <1>2. a % (m * c) = b % (m * c)
    BY <1>1
  <1>3. a % m = b % m
    BY <1>1, <1>2, SameBelow
  <1>4. QED BY <1>1, <1>3

-----------------------------------------------------------------------------
(* Words and memory *)

\* k bits read with a sign: in range, and the same k lowest bits
LEMMA SignedIs ==
  ASSUME NEW n \in Int, NEW k \in Nat, k > 0
  PROVE  /\ Signed(n, k) \in Int /\ -(2^^(k - 1)) <= Signed(n, k) /\ Signed(n, k) < 2^^(k - 1)
         /\ Signed(n, k) % 2^^k = n % 2^^k
         /\ -(2^^(k - 1)) <= n /\ n < 2^^(k - 1) => Signed(n, k) = n
  <1>1. PICK h \in Nat, m \in Nat : h = 2^^(k - 1) /\ m = 2^^k /\ m = 2 * h /\ h > 0
    BY HalfPower, TwoPowers
  <1>2. m > 0 /\ h < m
    BY <1>1
  <1>3. PICK q \in Int, r \in Nat : q = n \div m /\ r = n % m /\ r < m /\ n = m * q + r
    BY <1>2, Divided
  <1>4. PICK s \in Int : s = IF r >= h THEN r - m ELSE r
    OBVIOUS
  <1>5. s = Signed(n, k)
    BY <1>1, <1>3, <1>4 DEF Signed
  <1>6. -h <= s /\ s < h
    <2>1. r < m /\ m = 2 * h
      BY <1>1, <1>3
    <2>2. QED BY <1>4, <2>1
  <1>7. s % m = n % m
    <2>1. \E j \in Int : s = n + m * j
      <3>1. CASE r >= h
        <4>1. PICK j \in Int : j = -q - 1
          OBVIOUS
        <4>2. s = n + m * j
          BY <1>3, <1>4, <3>1, <4>1
        <4>3. QED BY <4>2
      <3>2. CASE ~(r >= h)
        <4>1. PICK j \in Int : j = -q
          OBVIOUS
        <4>2. s = n + m * j
          BY <1>3, <1>4, <3>2, <4>1
        <4>3. QED BY <4>2
      <3>3. QED BY <3>1, <3>2
    <2>2. QED BY <1>2, <2>1, SameOf
  <1>8. ASSUME -h <= n, n < h PROVE s = n
    <2>1. CASE n >= 0
      <3>1. n \in Nat /\ n < m
        BY <1>2, <1>8, <2>1
      <3>2. n % m = n
        BY <1>2, <3>1
      <3>3. QED BY <1>3, <1>4, <1>8, <3>2
    <2>2. CASE n < 0
      <3>1. PICK u \in Nat : u = n + m /\ u < m /\ u >= h
        <4>1. m = 2 * h
          BY <1>1
        <4>2. n + m \in Nat /\ n + m < m /\ n + m >= h
          BY <1>8, <2>2, <4>1
        <4>3. QED BY <4>2
      <3>2. n = m * (-1) + u
        BY <3>1
      <3>3. n % m = u
        <4>1. u < m
          BY <3>1
        <4>2. QED BY <1>2, <3>2, <4>1, DivisionIs
      <3>4. QED BY <1>3, <1>4, <3>1, <3>3
    <2>3. QED BY <2>1, <2>2
  <1>9. QED BY <1>1, <1>5, <1>6, <1>7, <1>8

\* what is replaced is the n bits at o, and the bits above and below stay
LEMMA ReplaceIs ==
  ASSUME NEW m \in Int, NEW o \in Nat, NEW n \in Nat, NEW v \in Int
  PROVE  /\ Replace(m, o, n, v) \in Int
         /\ Replace(m, o, n, v) % 2^^o = m % 2^^o
         /\ (Replace(m, o, n, v) \div 2^^o) % 2^^n = v % 2^^n
         /\ (Replace(m, o, n, v) \div 2^^o) \div 2^^n = (m \div 2^^o) \div 2^^n
  <1>1. PICK p \in Nat, c \in Nat : p = 2^^o /\ c = 2^^n
    BY TwoPowers
  <1>2. p > 0 /\ c > 0
    BY <1>1, TwoPowers
  <1>3. PICK q \in Int, u \in Nat : q = m \div p /\ u = m % p /\ u < p /\ m = p * q + u
    BY <1>2, Divided
  <1>4. PICK t \in Int, w \in Nat : t = q \div c /\ w = q % c /\ w < c /\ q = c * t + w
    BY <1>2, Divided
  <1>5. PICK z \in Nat : z = v % c /\ z < c
    BY <1>2, DivisionFacts
  <1>6. PICK r \in Int : r = m - w * p + z * p
    OBVIOUS
  <1>7. r = Replace(m, o, n, v)
    BY <1>1, <1>3, <1>4, <1>5, <1>6 DEF Replace
  <1>8. PICK d \in Int : d = c * t + z
    OBVIOUS
  <1>9. r = p * d + u
    <2>1. r = (p * q + u) - w * p + z * p /\ q = c * t + w
      BY <1>3, <1>4, <1>6
    <2>2. (p * (c * t + w) + u) - w * p + z * p = p * (c * t + z) + u
      OBVIOUS
    <2>3. QED BY <1>8, <2>1, <2>2
  <1>10. r % p = u /\ r \div p = d
    <2>1. u < p
      BY <1>3
    <2>2. QED BY <1>2, <1>9, <2>1, DivisionIs
  <1>11. d % c = z /\ d \div c = t
    <2>1. z < c
      BY <1>5
    <2>2. QED BY <1>2, <1>8, <2>1, DivisionIs
  <1>12. QED BY <1>1, <1>3, <1>4, <1>5, <1>7, <1>10, <1>11

\* the sizes of C types
LEMMA BuildIs ==
  ASSUME NEW b \in Builds
  PROVE  /\ b.long = W /\ b.longlong \in {W, 2 * W}
         /\ b.char \in Nat /\ b.short \in Nat /\ b.int \in Nat
         /\ 0 < b.char /\ b.char <= b.short /\ b.short <= b.int /\ b.int <= W
         /\ b.short < W - FxShift
         /\ b.longlong = W => b.int < W - FxShift
  <1>1. /\ b.long = W /\ b.longlong \in {W, 2 * W}
        /\ b.char \in 1 .. b.short /\ b.short \in 1 .. b.int /\ b.int \in 1 .. W
        /\ b.short < W - FxShift
        /\ b.longlong = W => b.int < W - FxShift
    BY ForeignAssumption
  <1>2. W \in Nat
    BY NumbersAssumption
  <1>3. b.int \in Nat /\ b.int <= W
    BY <1>1, <1>2
  <1>4. b.short \in Nat /\ b.short <= b.int
    BY <1>1, <1>3
  <1>5. b.char \in Nat /\ 0 < b.char /\ b.char <= b.short
    BY <1>1, <1>4
  <1>6. QED BY <1>1, <1>3, <1>4, <1>5

\* the sizes of the C types that the code relies on
LEMMA BitsAre ==
  ASSUME build \in Builds, NEW t \in Type
  PROVE  /\ Bits(t) \in Nat /\ Bits(t) > 0
         /\ t # "longlong" => Bits(t) <= W
         /\ t = "longlong" => Bits(t) = build.longlong
         /\ build.longlong \in {W, 2 * W} /\ Bits(t) <= build.longlong
         /\ t \in {"char", "short"} => Bits(t) < W - FxShift
         /\ t = "int" /\ build.longlong = W => Bits(t) < W - FxShift
  <1>1. W \in Nat /\ 0 < W
    BY NumbersAssumption
  <1>2. /\ Bits("char") = build.char /\ Bits("short") = build.short /\ Bits("int") = build.int
        /\ Bits("long") = build.long /\ Bits("longlong") = build.longlong
    BY DEF Bits
  <1>3. t \in {"char", "short", "int", "long", "longlong"}
    BY DEF Type
  <1>4. build.longlong \in {W, 2 * W} /\ build.longlong \in Nat /\ build.longlong >= W
    BY <1>1, BuildIs
  <1>5. CASE t = "char"
    BY <1>1, <1>2, <1>4, <1>5, BuildIs, NumbersAssumption
  <1>6. CASE t = "short"
    BY <1>1, <1>2, <1>4, <1>6, BuildIs, NumbersAssumption
  <1>7. CASE t = "int"
    BY <1>1, <1>2, <1>4, <1>7, BuildIs
  <1>8. CASE t = "long"
    BY <1>1, <1>2, <1>4, <1>8, BuildIs
  <1>9. CASE t = "longlong"
    BY <1>1, <1>2, <1>4, <1>9, BuildIs
  <1>10. QED BY <1>3, <1>5, <1>6, <1>7, <1>8, <1>9

-----------------------------------------------------------------------------
(* Integers to C *)

\* the program's integer: a bignum has a limb
Held == {v \in Number : IsFix(v) \/ Len(v.limbs) > 0}

\* a verified number has a limb to extract
LEMMA VerifiedHeld ==
  ASSUME NEW v \in Number, Verified(v)
  PROVE  v \in Held
  BY NumberIs DEF Held

\* the low limb of a number
LEMMA FirstLimb ==
  ASSUME NEW s \in Seq(Limb), Len(s) > 0
  PROVE  s[1] \in Limb /\ s[1] \in Nat /\ s[1] < B /\ NatOf(s) % B = s[1]
  <1>1. 1 \in 1 .. Len(s)
    OBVIOUS
  <1>2. s[1] \in Limb /\ LimbAt(s, 1) = s[1] /\ s[1] \in Nat /\ s[1] < B
    BY <1>1, LimbsAre, BaseFacts
  <1>3. Sums(s)[0 + 1] = Sums(s)[0] + Term(s, 0 + 1) /\ Sums(s)[0] = 0
    BY SumsAre
  <1>4. Term(s, 0 + 1) = s[1] * 1
    <2>1. Term(s, 0 + 1) = LimbAt(s, 0 + 1) * B^^0
      BY TermsAre
    <2>2. B^^0 = 1 /\ 0 + 1 = 1
      BY BasePowers
    <2>3. QED BY <1>2, <2>1, <2>2
  <1>5. Sums(s)[1] = s[1]
    BY <1>2, <1>3, <1>4
  <1>6. NatOf(s) % B^^1 = Sums(s)[1]
    BY NatOfLow
  <1>7. QED BY <1>2, <1>5, <1>6, BasePowers

\* extract_num yields a word with the lowest bits of the number
LEMMA ExtractNumIs ==
  ASSUME NEW v \in Held
  PROVE  ExtractNum(v) \in Int /\ ExtractNum(v) % B = Value(v) % B
  <1>1. v \in Number
    BY DEF Held
  <1>2. CASE IsFix(v)
    BY <1>1, <1>2, NumberIs DEF ExtractNum
  <1>3. CASE ~IsFix(v)
    <2>1. PICK s \in Seq(Limb), neg \in BOOLEAN :
            /\ s = v.limbs /\ neg = v.neg /\ Len(s) > 0
            /\ Value(v) = IF neg THEN -NatOf(s) ELSE NatOf(s)
      BY <1>1, <1>3, NumberIs DEF Held
    <2>2. PICK l \in Nat, n \in Nat : l = s[1] /\ n = NatOf(s) /\ n % B = l /\ l < B
      BY <2>1, FirstLimb, NatOfIs
    <2>3. B \in Nat /\ B > 0 /\ W \in Nat /\ W > 0 /\ 2^^W = B
      BY BaseFacts, NumbersAssumption, TwoPowers
    <2>4. l % B = n % B
      BY <2>2, <2>3
    <2>5. PICK m \in Int, c \in Int : m = (IF neg THEN -l ELSE l) /\ c = (IF neg THEN -n ELSE n)
      OBVIOUS
    <2>6. m % B = c % B
      <3>1. (-l) % B = (-n) % B
        BY <2>3, <2>4, SameNegated
      <3>2. QED BY <2>4, <2>5, <3>1
    <2>7. ExtractNum(v) = Signed(m, W)
      BY <1>3, <2>1, <2>2, <2>5 DEF ExtractNum
    <2>8. Signed(m, W) \in Int /\ Signed(m, W) % B = m % B
      BY <2>3, SignedIs
    <2>9. Value(v) = c
      BY <2>1, <2>2, <2>5
    <2>10. QED BY <2>6, <2>7, <2>8, <2>9
  <1>4. QED BY <1>2, <1>3

\* the two low limbs
LEMMA LowLimbs ==
  ASSUME NEW s \in Seq(Limb), NEW j \in Nat, j <= Len(s)
  PROVE  NatOf(SubSeq(s, 1, j)) \in Nat /\ NatOf(s) % B^^j = NatOf(SubSeq(s, 1, j))
  <1>1. PICK t : t = SubSeq(s, 1, j)
    OBVIOUS
  <1>2. t \in Seq(Limb) /\ Len(t) = j /\ \A i \in 1 .. j : t[i] = s[i]
    BY <1>1
  <1>3. NatOf(t) = Sums(s)[j]
    BY <1>2, NatOfFirst
  <1>4. NatOf(s) % B^^j = Sums(s)[j]
    BY NatOfLow
  <1>5. QED BY <1>1, <1>2, <1>3, <1>4, NatOfIs

\* two words
LEMMA TwoWords ==
  2^^(2 * W) = B^^2 /\ B^^2 = B * B
  <1>1. W \in Nat /\ 2 * W = W + W
    BY NumbersAssumption
  <1>2. 2^^(W + W) = 2^^W * 2^^W
    BY <1>1, PowerOfSum
  <1>3. B^^(1 + 1) = B * B^^1
    BY BasePowers
  <1>4. B^^2 = B * B
    BY <1>3, BasePowers
  <1>5. QED BY <1>1, <1>2, <1>4, TwoPowers

\* a long long: the low limbs
LEMMA ExtractLongLongIs ==
  ASSUME build \in Builds, NEW v \in Held
  PROVE  /\ ExtractLongLong(v) \in Int
         /\ NegatedLong(v) \/ ExtractLongLong(v) % 2^^build.longlong = Value(v) % 2^^build.longlong
  <1>1. v \in Number
    BY DEF Held
  <1>2. CASE IsFix(v)
    BY <1>1, <1>2, NumberIs DEF ExtractLongLong
  <1>3. CASE ~IsFix(v)
    <2>1. PICK s \in Seq(Limb), neg \in BOOLEAN :
            /\ s = v.limbs /\ neg = v.neg /\ Len(s) > 0
            /\ Value(v) = IF neg THEN -NatOf(s) ELSE NatOf(s)
      BY <1>1, <1>3, NumberIs DEF Held
    <2>2. PICK k : k = build.longlong
      OBVIOUS
    <2>3. W \in Nat /\ W > 0 /\ 2^^W = B /\ B \in Nat /\ B > 0 /\ k \in {W, 2 * W}
      BY <2>2, BaseFacts, NumbersAssumption, TwoPowers, BuildIs
    <2>4. k \in Nat /\ k > 0 /\ (k > W <=> k # W)
      BY <2>3
    <2>5. PICK j \in Nat : j = (IF k > W /\ Len(s) > 1 THEN 2 ELSE 1) /\ j <= Len(s)
      BY <2>1
    <2>6. PICK low \in Nat, n \in Nat : low = NatOf(SubSeq(s, 1, j)) /\ n = NatOf(s) /\ n % B^^j = low
      <3>1. NatOf(s) \in Nat
        BY NatOfIs
      <3>2. NatOf(SubSeq(s, 1, j)) \in Nat /\ NatOf(s) % B^^j = NatOf(SubSeq(s, 1, j))
        BY <2>5, LowLimbs
      <3>3. QED BY <3>1, <3>2
    <2>7. ExtractLongLong(v) = IF s = <<low>> /\ neg THEN Signed(-Signed(low, W), W)
                               ELSE Signed(IF neg THEN -low ELSE low, k)
      BY <1>3, <2>1, <2>2, <2>5, <2>6 DEF ExtractLongLong
    <2>8. PICK M \in Nat : M = 2^^k /\ M > 0
      BY <2>4, TwoPowers
    <2>9. Len(s) = 1 => s = <<low>> /\ n = low /\ low < B
      <3>1. ASSUME Len(s) = 1 PROVE s = <<low>> /\ n = low /\ low < B
        <4>1. j = 1 /\ SubSeq(s, 1, j) = s
          BY <2>5, <3>1
        <4>2. s = <<s[1]>> /\ s[1] \in Limb
          <5>1. s = <<s[1]>>
            BY <3>1
          <5>2. s[1] \in Limb
            BY <2>1, FirstLimb
          <5>3. QED BY <5>1, <5>2
        <4>3. NatOf(s) = s[1] /\ s[1] < B
          BY <4>2, NatOfOne, FirstLimb, <3>1
        <4>4. QED BY <2>6, <4>1, <4>2, <4>3
      <3>2. QED BY <3>1
    <2>10. low % M = n % M
      <3>1. CASE k = W
        <4>1. n % B = low
          BY <2>3, <2>5, <2>6, <3>1, BasePowers
        <4>2. (n % B) % B = n % B
          BY <2>3, RemainderOnce
        <4>3. QED BY <2>3, <2>8, <3>1, <4>1, <4>2
      <3>2. CASE k # W /\ Len(s) = 1
        BY <2>9, <3>2
      <3>3. CASE k # W /\ Len(s) # 1
        <4>1. j = 2 /\ k = 2 * W
          <5>1. Len(s) > 1
            <6>1. PICK m : m = Len(s)
              OBVIOUS
            <6>2. m \in Nat /\ m # 1 /\ m > 0
              BY <2>1, <3>3, <6>1
            <6>3. m > 1
              BY <6>2
            <6>4. QED BY <6>1, <6>3
          <5>2. QED BY <2>3, <2>4, <2>5, <3>3, <5>1
        <4>2. M = B^^2
          BY <2>8, <4>1, TwoWords
        <4>3. n % M = low
          BY <2>6, <4>1, <4>2
        <4>4. (n % M) % M = n % M
          BY <2>8, RemainderOnce
        <4>5. QED BY <4>3, <4>4
      <3>4. QED BY <3>1, <3>2, <3>3
    <2>11. PICK c \in Int, d \in Int : c = (IF neg THEN -low ELSE low) /\ d = (IF neg THEN -n ELSE n)
      OBVIOUS
    <2>12. c % M = d % M
      <3>1. (-low) % M = (-n) % M
        <4>1. low \in Int /\ n \in Int
          BY <2>3, <2>6
        <4>2. M \in Nat /\ M > 0
          BY <2>8
        <4>3. QED BY <2>10, <4>1, <4>2, SameNegated
      <3>2. QED BY <2>10, <2>11, <3>1
    <2>13. Value(v) = d
      BY <2>1, <2>6, <2>11
    <2>14. CASE ~(s = <<low>> /\ neg)
      <3>1. ExtractLongLong(v) = Signed(c, k)
        BY <2>7, <2>11, <2>14
      <3>2. Signed(c, k) \in Int /\ Signed(c, k) % M = c % M
        BY <2>4, <2>8, SignedIs
      <3>3. QED BY <2>2, <2>8, <2>12, <2>13, <3>1, <3>2
    <2>15. CASE s = <<low>> /\ neg
      <3>1. PICK e \in Int : e = Signed(low, W) /\ e % B = low % B
        <4>1. W \in Nat /\ W > 0 /\ low \in Int
          BY <2>3
        <4>2. Signed(low, W) \in Int /\ Signed(low, W) % 2^^W = low % 2^^W
          BY <4>1, SignedIs
        <4>3. QED BY <2>3, <4>2
      <3>2. PICK f \in Int : f = -e
        OBVIOUS
      <3>3. PICK g \in Int : g = Signed(f, W) /\ g % B = f % B
        <4>1. Signed(f, W) \in Int /\ Signed(f, W) % 2^^W = f % 2^^W
          <5>1. W \in Nat /\ W > 0
            BY <2>3
          <5>2. QED BY <5>1, SignedIs
        <4>2. QED BY <2>3, <4>1
      <3>4. ExtractLongLong(v) = g
        BY <2>7, <2>15, <3>1, <3>2, <3>3
      <3>5. g % B = c % B
        <4>1. (-e) % B = (-low) % B
          <5>1. B \in Nat /\ B > 0
            BY <2>3
          <5>2. e \in Int /\ low \in Int /\ e % B = low % B
            BY <2>3, <3>1
          <5>3. QED BY <5>1, <5>2, SameNegated
        <4>2. QED BY <2>11, <2>15, <3>2, <3>3, <4>1
      <3>6. CASE k = W
        <4>1. M = B
          BY <2>3, <2>8, <3>6
        <4>2. g % M = d % M
          BY <2>12, <3>5, <4>1
        <4>3. QED BY <2>2, <2>8, <2>13, <3>4, <4>2
      <3>7. CASE k # W
        <4>1. Len(s) = 1 /\ s[1] = low /\ low < B
          BY <2>9, <2>15
        <4>2. PICK h \in Nat : h = 2^^(W - 1) /\ B = 2 * h /\ h > 0
          BY <2>3, HalfPower
        <4>3. ASSUME ~NegatedLong(v) PROVE g = c
          <5>1. ~(low > B \div 2)
            BY <1>3, <2>1, <2>2, <2>4, <2>15, <3>7, <4>1, <4>3 DEF NegatedLong
          <5>2. B \div 2 = h
            BY <4>2
          <5>3. low <= h /\ c = -low
            BY <2>11, <2>15, <5>1, <5>2
          <5>4. CASE low < h
            <6>1. -h <= low /\ low < h
              BY <4>2, <5>4
            <6>2. e = low
              BY <2>3, <3>1, <4>2, <6>1, SignedIs
            <6>3. f = -low /\ -h <= f /\ f < h
              BY <3>2, <4>2, <5>4, <6>2
            <6>4. g = f
              BY <2>3, <3>3, <4>2, <6>3, SignedIs
            <6>5. QED BY <5>3, <6>3, <6>4
          <5>5. CASE low = h
            <6>1. h % B = h
              BY <4>2
            <6>2. e = h - B
              BY <2>3, <3>1, <4>2, <5>5, <6>1 DEF Signed
            <6>3. f = h
              BY <3>2, <4>2, <6>2
            <6>4. g = h - B
              BY <2>3, <3>3, <4>2, <6>1, <6>3 DEF Signed
            <6>5. QED BY <4>2, <5>3, <5>5, <6>4
          <5>6. QED BY <5>3, <5>4, <5>5
        <4>4. QED BY <2>2, <2>8, <2>12, <2>13, <3>4, <4>3
      <3>8. QED BY <3>6, <3>7
    <2>16. QED BY <2>14, <2>15
  <1>4. QED BY <1>2, <1>3

\* what goes to C has the low bits of the integer
LEMMA ExtractIs ==
  ASSUME build \in Builds, NEW v \in Held, NEW t \in Type
  PROVE  /\ Extract(t, v) \in Int
         /\ (t = "longlong" /\ NegatedLong(v)) \/ Extract(t, v) % 2^^Bits(t) = Value(v) % 2^^Bits(t)
  <1>1. CASE t = "longlong"
    BY <1>1, BitsAre, ExtractLongLongIs DEF Extract
  <1>2. CASE t # "longlong"
    <2>1. Extract(t, v) = ExtractNum(v)
      BY <1>2 DEF Extract
    <2>2. ExtractNum(v) \in Int /\ ExtractNum(v) % 2^^W = Value(v) % 2^^W
      BY ExtractNumIs, TwoPowers
    <2>3. Value(v) \in Int /\ W \in Nat
      BY NumberIs, NumbersAssumption DEF Held
    <2>4. Bits(t) \in Nat /\ Bits(t) <= W
      BY <1>2, BitsAre
    <2>5. ExtractNum(v) % 2^^Bits(t) = Value(v) % 2^^Bits(t)
      BY <2>2, <2>3, <2>4, FewerBits
    <2>6. QED BY <2>1, <2>2, <2>5
  <1>3. QED BY <1>1, <1>2

\* what fits a fixnum, by its bits
LEMMA FixnumBits ==
  ASSUME NEW n \in Int, NEW k \in Nat, k < W - FxShift, -(2^^k) <= n, n < 2^^k
  PROVE  FitsFixnum(n)
  <1>1. W \in Nat /\ FxShift \in Nat
    BY NumbersAssumption
  <1>2. PICK j \in Nat : j = W - FxShift - 1 /\ k <= j
    <2>1. W - FxShift - 1 \in Nat /\ k <= W - FxShift - 1
      BY <1>1
    <2>2. QED BY <2>1
  <1>3. 2^^k <= 2^^j /\ 2^^k \in Nat /\ 2^^j \in Nat
    BY <1>2, PowersGrow, TwoPowers
  <1>4. PICK p \in Nat, q \in Nat : p = 2^^k /\ q = 2^^j /\ p <= q
    BY <1>3
  <1>5. -q <= n /\ n <= q - 1
    BY <1>4
  <1>6. most_positive_fixnum = q - 1 /\ most_negative_fixnum = q
    <2>1. most_positive_fixnum = q - 1
      BY <1>2, <1>4 DEF most_positive_fixnum
    <2>2. most_negative_fixnum = (q - 1) + 1
      BY <2>1 DEF most_negative_fixnum
    <2>3. QED BY <2>1, <2>2
  <1>7. QED BY <1>5, <1>6 DEF FitsFixnum

\* s_to_number of a long
LEMMA SToNumberIs ==
  ASSUME NEW n \in Int, -(2^^(W - 1)) <= n, n < 2^^(W - 1)
  PROVE  s_to_number(n) \in Number /\ Verified(s_to_number(n)) /\ Value(s_to_number(n)) = n
  <1>1. W \in Nat /\ W > 0
    BY NumbersAssumption
  <1>2. PICK h \in Nat : h = 2^^(W - 1) /\ B = 2 * h /\ h > 0
    BY <1>1, HalfPower, TwoPowers
  <1>3. Magnitude(n) < B
    BY <1>2 DEF Magnitude
  <1>4. QED BY <1>3, FromLongIs DEF s_to_number

\* u_to_number of an unsigned long
LEMMA UToNumberIs ==
  ASSUME NEW n \in Nat, n < B
  PROVE  u_to_number(n) \in Number /\ Verified(u_to_number(n)) /\ Value(u_to_number(n)) = n
  <1>1. W \in Nat /\ FxShift \in Nat /\ FxShift + 1 < W
    BY NumbersAssumption
  <1>2. PICK i \in Nat, j \in Nat : i = FxShift + 1 /\ j = W - FxShift - 1 /\ i + j = W
    BY <1>1
  <1>3. PICK p \in Nat, q \in Nat : p = 2^^i /\ q = 2^^j /\ p > 0 /\ q > 0
    BY TwoPowers
  <1>4. B = p * q
    BY <1>2, <1>3, PowerOfSum, TwoPowers
  <1>5. (B - 1) \div p = q - 1
    <2>1. PICK a \in Int, r \in Nat, m \in Int : a = B - 1 /\ r = p - 1 /\ r < p /\ m = q - 1
      <3>1. B - 1 \in Int /\ p - 1 \in Nat /\ p - 1 < p /\ q - 1 \in Int
        BY <1>3, BaseFacts
      <3>2. QED BY <3>1
    <2>2. a = p * m + r
      BY <1>4, <2>1
    <2>3. a \div p = m
      <3>1. p > 0 /\ r < p
        BY <1>3, <2>1
      <3>2. QED BY <2>2, <3>1, DivisionIs
    <2>4. QED BY <2>1, <2>3
  <1>6. most_positive_fixnum = q - 1
    BY <1>2, <1>3 DEF most_positive_fixnum
  <1>7. u_to_number(n) = IF n <= most_positive_fixnum THEN Fix(n) ELSE Big(FALSE, <<n>>)
    BY <1>2, <1>3, <1>5, <1>6 DEF u_to_number
  <1>8. CASE n <= most_positive_fixnum
    <2>1. FitsFixnum(n)
      BY <1>8, BaseFacts DEF FitsFixnum
    <2>2. QED BY <1>7, <1>8, <2>1, FixIs
  <1>9. CASE ~(n <= most_positive_fixnum)
    <2>1. n \in Limb
      BY BaseFacts DEF Limb
    <2>2. PICK s : s = <<n>>
      OBVIOUS
    <2>3. s \in Seq(Limb) /\ Len(s) = 1 /\ s[1] = n
      BY <2>1, <2>2
    <2>4. NatOf(s) = n
      BY <2>1, <2>2, NatOfOne
    <2>5. n > Limit(FALSE) /\ n # 0
      BY <1>9, BaseFacts DEF Limit
    <2>6. u_to_number(n) = Big(FALSE, s)
      BY <1>7, <1>9, <2>2
    <2>7. PICK r : r = Big(FALSE, s)
      OBVIOUS
    <2>8. r \in Number /\ Value(r) = n
      BY <2>3, <2>4, <2>7, BigIs
    <2>9. s[Len(s)] # 0 /\ s[1] > Limit(FALSE)
      BY <2>3, <2>5
    <2>10. Verified(r)
      <3>1. Verified(Big(FALSE, s)) <=>
              Len(s) > 0 /\ s[Len(s)] # 0 /\ (Len(s) = 1 => s[1] > Limit(FALSE))
        BY <2>3, BigIs
      <3>2. Len(s) > 0
        BY <2>3
      <3>3. QED BY <2>7, <2>9, <3>1, <3>2
    <2>11. QED BY <2>6, <2>7, <2>8, <2>10
  <1>10. QED BY <1>8, <1>9

\* what a conversion to a number owes: the number, in its one representation
\* but for the case where the code goes wrong
Converts(t, c, r) == r \in Held /\ Value(r) = c /\ (Verified(r) \/ LeadingZero(t, r))

\* a verified number of the right value is a conversion
LEMMA VerifiedConverts ==
  ASSUME NEW t, NEW c, NEW r \in Number, Verified(r), Value(r) = c
  PROVE  Converts(t, c, r)
  BY VerifiedHeld DEF Converts

\* the limbs of a long long
LEMMA LongLongIs ==
  ASSUME build \in Builds, build.longlong # W
  PROVE  /\ build.longlong = 2 * W /\ build.longlong \div W = 2 /\ build.longlong > W
         /\ 2^^build.longlong = B^^2
  <1>1. W \in Nat /\ W > 0
    BY NumbersAssumption
  <1>2. build.longlong = 2 * W
    BY BuildIs
  <1>3. (2 * W) \div W = 2
    <2>1. PICK a \in Int : a = 2 * W
      BY <1>1
    <2>2. a = W * 2 + 0
      BY <1>1, <2>1
    <2>3. a \div W = 2
      BY <1>1, <2>2, DivisionIs
    <2>4. QED BY <2>1, <2>3
  <1>4. QED BY <1>1, <1>2, <1>3, TwoWords

\* sll_to_number converts, with a leading zero limb at worst
LEMMA SllToNumberIs ==
  ASSUME build \in Builds, NEW n \in Int,
         -(2^^(build.longlong - 1)) <= n, n < 2^^(build.longlong - 1)
  PROVE  Converts("longlong", n, sll_to_number(n))
  <1>1. W \in Nat /\ W > 0
    BY NumbersAssumption
  <1>2. CASE Signed(n, W) = n
    <2>1. -(2^^(W - 1)) <= n /\ n < 2^^(W - 1)
      BY <1>1, <1>2, SignedIs
    <2>2. sll_to_number(n) = s_to_number(n)
      BY <1>2 DEF sll_to_number
    <2>3. QED BY <2>1, <2>2, SToNumberIs, VerifiedConverts
  <1>3. CASE Signed(n, W) # n
    <2>1. build.longlong # W
      BY <1>1, <1>3, SignedIs
    <2>2. PICK k \in Nat : k = build.longlong /\ k > 0 /\ k \div W = 2 /\ k > W /\ 2^^k = B^^2
      BY <1>1, <2>1, LongLongIs
    <2>3. PICK neg \in BOOLEAN : neg = (n < 0) /\ (neg <=> n < 0)
      BY SignIs
    <2>4. PICK m \in Nat : m = Magnitude(n) /\ n = IF neg THEN -m ELSE m
      BY <2>3 DEF Magnitude
    <2>5. m < B^^2
      <3>1. PICK h \in Nat : h = 2^^(k - 1) /\ 2^^k = 2 * h /\ h > 0
        BY <2>2, HalfPower
      <3>2. -h <= n /\ n < h
        BY <2>2, <3>1
      <3>3. m < 2 * h
        BY <2>4, <3>1, <3>2
      <3>4. QED BY <2>2, <3>1, <3>3
    <2>6. PICK s \in Seq(Limb) : s = LimbsOf(m, 2) /\ Len(s) = 2 /\ NatOf(s) = m
      <3>1. m \in Int
        OBVIOUS
      <3>2. LimbsOf(m, 2) \in Seq(Limb) /\ Len(LimbsOf(m, 2)) = 2
        BY <3>1, LimbsOfAre
      <3>3. NatOf(LimbsOf(m, 2)) = m
        BY <2>5, NatOfItsLimbs
      <3>4. QED BY <3>2, <3>3
    <2>7. sll_to_number(n) = Big(neg, s)
      <3>1. sll_to_number(n) = Big(n < 0, LimbsOf(m, 2))
        BY <1>3, <2>2, <2>4 DEF sll_to_number
      <3>2. QED BY <2>3, <2>6, <3>1, Zenon
    <2>8. PICK r : r = Big(neg, s)
      OBVIOUS
    <2>9. r \in Number /\ ~IsFix(r) /\ r.limbs = s /\ Value(r) = n
      BY <2>4, <2>6, <2>8, BigIs
    <2>10. r \in Held
      <3>1. Len(r.limbs) > 0
        <4>1. PICK j : j = Len(r.limbs)
          OBVIOUS
        <4>2. Len(s) = 2 /\ r.limbs = s
          BY <2>6, <2>9, Zenon
        <4>3. j = 2
          BY <4>1, <4>2, Zenon
        <4>4. j > 0
          BY <4>3
        <4>5. QED BY <4>1, <4>4, Zenon
      <3>2. QED BY <2>9, <3>1 DEF Held
    <2>11. CASE s[2] = 0
      <3>1. LeadingZero("longlong", r)
        BY <2>2, <2>6, <2>9, <2>11 DEF LeadingZero
      <3>2. QED BY <2>7, <2>8, <2>9, <2>10, <3>1 DEF Converts
    <2>12. CASE s[2] # 0
      <3>1. Verified(r)
        BY <2>6, <2>8, <2>12, BigIs
      <3>2. QED BY <2>7, <2>8, <2>9, <2>10, <3>1 DEF Converts
    <2>13. QED BY <2>11, <2>12
  <1>4. QED BY <1>2, <1>3

\* ull_to_number converts, with a leading zero limb at worst
LEMMA UllToNumberIs ==
  ASSUME build \in Builds, NEW n \in Nat, n < 2^^build.longlong
  PROVE  Converts("longlong", n, ull_to_number(n))
  <1>1. B \in Nat /\ B > 0
    BY BaseFacts
  <1>2. CASE n % B = n
    <2>1. n < B
      BY <1>1, <1>2, DivisionFacts
    <2>2. ull_to_number(n) = u_to_number(n)
      BY <1>2 DEF ull_to_number
    <2>3. QED BY <2>1, <2>2, UToNumberIs, VerifiedConverts
  <1>3. CASE n % B # n
    <2>1. build.longlong # W
      <3>1. ASSUME build.longlong = W PROVE FALSE
        <4>1. n < B
          BY <3>1, TwoPowers
        <4>2. n % B = n
          BY <1>1, <4>1
        <4>3. QED BY <1>3, <4>2
      <3>2. QED BY <3>1
    <2>2. build.longlong \div W = 2 /\ n < B^^2
      BY <2>1, LongLongIs
    <2>3. PICK s \in Seq(Limb) : s = LimbsOf(n, 2) /\ NatOf(s) = n
      BY <2>2, LimbsOfAre, NatOfItsLimbs
    <2>4. ull_to_number(n) = Normalize(s, FALSE)
      BY <1>3, <2>2, <2>3 DEF ull_to_number
    <2>5. QED BY <2>3, <2>4, NormalizeIs, VerifiedConverts
  <1>4. QED BY <1>2, <1>3

-----------------------------------------------------------------------------
(* Accessors and calls *)

\* the number in range that has the bits of n
Read(t, signed, n) == IF signed THEN Signed(n, Bits(t)) ELSE n % 2^^Bits(t)

\* n bits of memory, with or without a sign
LEMMA ReadIs ==
  ASSUME build \in Builds, NEW t \in Type, NEW signed \in BOOLEAN, NEW n \in Int
  PROVE  /\ Read(t, signed, n) \in Int
         /\ (Read(t, signed, n) - n) % 2^^Bits(t) = 0
         /\ signed => /\ -(2^^(Bits(t) - 1)) <= Read(t, signed, n)
                      /\ Read(t, signed, n) < 2^^(Bits(t) - 1)
         /\ ~signed => Read(t, signed, n) \in Nat /\ Read(t, signed, n) < 2^^Bits(t)
  <1>1. PICK k \in Nat : k = Bits(t) /\ k > 0
    BY BitsAre
  <1>2. PICK p \in Nat : p = 2^^k /\ p > 0
    BY TwoPowers
  <1>3. PICK c : c = Read(t, signed, n)
    OBVIOUS
  <1>4. CASE signed
    <2>1. c = Signed(n, k)
      BY <1>1, <1>3, <1>4 DEF Read
    <2>2. c \in Int /\ -(2^^(k - 1)) <= c /\ c < 2^^(k - 1) /\ c % p = n % p
      BY <1>1, <1>2, <2>1, SignedIs
    <2>3. (c - n) % p = 0
      BY <1>2, <2>2, SameRemainder
    <2>4. QED BY <1>1, <1>2, <1>3, <1>4, <2>2, <2>3
  <1>5. CASE ~signed
    <2>1. c = n % p
      BY <1>1, <1>2, <1>3, <1>5 DEF Read
    <2>2. c \in Nat /\ c < p /\ c \in Int
      BY <1>2, <2>1, DivisionFacts
    <2>3. c % p = n % p
      BY <1>2, <2>1, RemainderOnce
    <2>4. (c - n) % p = 0
      BY <1>2, <2>2, <2>3, SameRemainder
    <2>5. QED BY <1>1, <1>2, <1>3, <1>5, <2>2, <2>4
  <1>6. QED BY <1>4, <1>5

\* a word
LEMMA ReadWord ==
  ASSUME build \in Builds, NEW t \in Type, t # "longlong", NEW signed \in BOOLEAN, NEW n \in Int
  PROVE  /\ signed => /\ -(2^^(W - 1)) <= Read(t, signed, n)
                      /\ Read(t, signed, n) < 2^^(W - 1)
         /\ ~signed => Read(t, signed, n) \in Nat /\ Read(t, signed, n) < B
  <1>1. PICK k \in Nat : k = Bits(t) /\ k > 0 /\ k <= W
    BY BitsAre
  <1>2. PICK c \in Int : c = Read(t, signed, n)
    BY ReadIs
  <1>3. W \in Nat /\ k - 1 \in Nat /\ W - 1 \in Nat /\ k - 1 <= W - 1
    BY <1>1, NumbersAssumption
  <1>4. 2^^(k - 1) <= 2^^(W - 1) /\ 2^^k <= B
    BY <1>1, <1>3, PowersGrow, TwoPowers
  <1>5. PICK p \in Nat, q \in Nat, m \in Nat : p = 2^^(k - 1) /\ q = 2^^(W - 1) /\ m = 2^^k
    BY <1>3, TwoPowers
  <1>6. CASE signed
    <2>1. -p <= c /\ c < p
      BY <1>1, <1>2, <1>5, <1>6, ReadIs
    <2>2. p <= q
      BY <1>4, <1>5
    <2>3. -q <= c /\ c < q
      BY <2>1, <2>2
    <2>4. QED BY <1>2, <1>5, <1>6, <2>3
  <1>7. CASE ~signed
    <2>1. c \in Nat /\ c < m
      BY <1>1, <1>2, <1>5, <1>7, ReadIs
    <2>2. QED BY <1>2, <1>4, <1>5, <1>7, <2>1, BaseFacts
  <1>8. QED BY <1>6, <1>7

\* a fixnum
LEMMA ReadFixnum ==
  ASSUME build \in Builds, NEW t \in Type, NEW signed \in BOOLEAN, NEW n \in Int,
         Bits(t) < W - FxShift
  PROVE  Converts(t, Read(t, signed, n), Fix(Read(t, signed, n)))
  <1>1. PICK k \in Nat : k = Bits(t) /\ k > 0 /\ k < W - FxShift
    BY BitsAre
  <1>2. PICK c \in Int : c = Read(t, signed, n)
    BY ReadIs
  <1>3. PICK p \in Nat, m \in Nat : p = 2^^(k - 1) /\ m = 2^^k /\ m = 2 * p
    BY <1>1, HalfPower, TwoPowers
  <1>4. -m <= c /\ c < m
    <2>1. signed => -p <= c /\ c < p
      BY <1>1, <1>2, <1>3, ReadIs
    <2>2. ~signed => c \in Nat /\ c < m
      BY <1>1, <1>2, <1>3, ReadIs
    <2>3. QED BY <1>3, <2>1, <2>2
  <1>5. FitsFixnum(c)
    BY <1>1, <1>3, <1>4, FixnumBits
  <1>6. QED BY <1>2, <1>5, FixIs, VerifiedConverts

\* ffi_to_scheme_value_cast converts what is read
LEMMA FfiToSchemeIs ==
  ASSUME build \in Builds, NEW t \in Type, NEW signed \in BOOLEAN, NEW n \in Int
  PROVE  Converts(t, Read(t, signed, n), FfiToScheme(t, signed, n))
  <1>1. PICK c \in Int : c = Read(t, signed, n)
    BY ReadIs
  <1>2. CASE t # "longlong"
    <2>1. FfiToScheme(t, signed, n) = IF signed THEN s_to_number(c) ELSE u_to_number(c)
      BY <1>1, <1>2 DEF FfiToScheme, Read
    <2>2. CASE signed
      BY <1>1, <1>2, <2>1, <2>2, ReadWord, SToNumberIs, VerifiedConverts
    <2>3. CASE ~signed
      BY <1>1, <1>2, <2>1, <2>3, ReadWord, UToNumberIs, VerifiedConverts
    <2>4. QED BY <2>2, <2>3
  <1>3. CASE t = "longlong"
    <2>1. FfiToScheme(t, signed, n) = IF signed THEN sll_to_number(c) ELSE ull_to_number(c)
      BY <1>1, <1>3 DEF FfiToScheme, Read
    <2>2. Bits(t) = build.longlong
      BY <1>3, BitsAre
    <2>3. CASE signed
      BY <1>1, <1>3, <2>1, <2>2, <2>3, ReadIs, SllToNumberIs
    <2>4. CASE ~signed
      BY <1>1, <1>3, <2>1, <2>2, <2>4, ReadIs, UllToNumberIs
    <2>5. QED BY <2>3, <2>4
  <1>4. QED BY <1>2, <1>3

\* so do ikrt_ref_int and its kin
LEMMA ToNumberIs ==
  ASSUME build \in Builds, NEW t \in Type, NEW signed \in BOOLEAN, NEW n \in Int
  PROVE  Converts(t, Read(t, signed, n), ToNumber(t, signed, n))
  <1>1. PICK c \in Int : c = Read(t, signed, n)
    BY ReadIs
  <1>2. CASE t \in {"char", "short"} \/ (t = "int" /\ build.longlong = W)
    <2>1. ToNumber(t, signed, n) = Fix(c)
      BY <1>1, <1>2 DEF ToNumber, Read
    <2>2. Bits(t) < W - FxShift
      BY <1>2, BitsAre
    <2>3. QED BY <1>1, <2>1, <2>2, ReadFixnum
  <1>3. CASE ~(t \in {"char", "short"} \/ (t = "int" /\ build.longlong = W))
    <2>1. ToNumber(t, signed, n) = FfiToScheme(t, signed, n)
      <3>1. CASE t = "longlong"
        BY <1>3, <3>1 DEF ToNumber, FfiToScheme
      <3>2. CASE t # "longlong"
        BY <1>3, <3>2 DEF ToNumber, FfiToScheme
      <3>3. QED BY <3>1, <3>2
    <2>2. QED BY <2>1, FfiToSchemeIs
  <1>4. QED BY <1>2, <1>3

-----------------------------------------------------------------------------
(* A record passed by value *)

\* the fields of a record of n fields
Fields(n) == [1 .. n -> Type]

\* a record of fields has the bits of each
LEMMA FieldsAre ==
  ASSUME build \in Builds, NEW n \in Nat, NEW ts \in Fields(n)
  PROVE  /\ Len(ts) = n
         /\ \A i \in 1 .. n : ts[i] \in Type /\ Bits(ts[i]) \in Nat /\ Bits(ts[i]) > 0
  BY BitsAre DEF Fields

\* where the code puts the fields: one after the other
LEMMA FieldOffsetIs ==
  ASSUME build \in Builds, NEW n \in Nat, NEW ts \in Fields(n)
  PROVE  /\ FieldOffset(ts)[1] = 0
         /\ \A i \in 1 .. n : /\ FieldOffset(ts)[i] \in Nat
                              /\ i + 1 \in 1 .. n => FieldOffset(ts)[i + 1] = FieldOffset(ts)[i] + Bits(ts[i])
  <1> DEFINE F(q) == [i \in 1 .. Len(ts) + 1 |-> IF i = 1 THEN 0 ELSE q[i - 1] + Bits(ts[i - 1])]
  <1>1. Len(ts) = n /\ \A i \in 1 .. n : Bits(ts[i]) \in Nat
    BY FieldsAre
  <1>2. PICK step : step = [i \in 1 .. n |-> [v \in Nat |-> v + Bits(ts[i])]]
    OBVIOUS
  <1>3. step \in [1 .. n -> [Nat -> Nat]]
    <2>1. ASSUME NEW i \in 1 .. n PROVE [v \in Nat |-> v + Bits(ts[i])] \in [Nat -> Nat]
      BY <1>1
    <2>2. QED BY <1>2, <2>1
  <1>4. PICK g : CountsUp(n, Nat, 0, step, g)
    BY <1>3, CountedUp
  <1>5. /\ g \in [0 .. n -> Nat] /\ g[0] = 0
        /\ \A i \in 1 .. n : g[i] = g[i - 1] + Bits(ts[i])
    <2>1. g \in [0 .. n -> Nat] /\ g[0] = 0 /\ \A i \in 1 .. n : g[i] = step[i][g[i - 1]]
      BY <1>4 DEF CountsUp
    <2>2. \A i \in 1 .. n : i - 1 \in 0 .. n /\ g[i - 1] \in Nat
      BY <2>1
    <2>3. QED BY <1>2, <2>1, <2>2
  <1>6. PICK h : h = [i \in 1 .. n + 1 |-> g[i - 1]]
    OBVIOUS
  <1>7. h = F(h)
    <2>1. ASSUME NEW i \in 1 .. n + 1
          PROVE  h[i] = IF i = 1 THEN 0 ELSE h[i - 1] + Bits(ts[i - 1])
      <3>1. CASE i = 1
        BY <1>5, <1>6, <3>1
      <3>2. CASE i # 1
        <4>1. PICK j \in 1 .. n : j = i - 1
          BY <3>2
        <4>2. h[i] = g[j] /\ h[j] = g[j - 1] /\ g[j] = g[j - 1] + Bits(ts[j])
          BY <1>5, <1>6, <4>1
        <4>3. QED BY <3>2, <4>1, <4>2
      <3>3. QED BY <3>1, <3>2
    <2>2. QED BY <1>1, <1>6, <2>1
  <1>8. PICK q : q = FieldOffset(ts)
    OBVIOUS
  <1>9. q = F(q)
    <2>1. q = CHOOSE f : f = F(f)
      BY <1>8 DEF FieldOffset
    <2> HIDE DEF F
    <2>2. \E f : f = F(f)
      BY <1>7
    <2>3. QED BY <2>1, <2>2
  <1>10. \A i \in 1 .. n + 1 : q[i] = IF i = 1 THEN 0 ELSE q[i - 1] + Bits(ts[i - 1])
    BY <1>1, <1>9
  <1>11. q[1] = 0
    BY <1>10
  <1>12. \A i \in 1 .. n : q[i + 1] = q[i] + Bits(ts[i])
    <2> TAKE i \in 1 .. n
    <2>1. i + 1 \in 1 .. n + 1 /\ i + 1 # 1 /\ i + 1 - 1 = i
      OBVIOUS
    <2>2. q[i + 1] = q[i + 1 - 1] + Bits(ts[i + 1 - 1])
      BY <1>10, <2>1
    <2>3. QED BY <2>1, <2>2
  <1>13. \A i \in 1 .. n : q[i] \in Nat
    <2>1. PICK T : T = {i \in Nat : i \in 1 .. n => q[i] \in Nat}
      OBVIOUS
    <2>2. ASSUME NEW i \in Nat, i \in T PROVE i + 1 \in T
      <3>1. CASE i = 0
        BY <1>11, <2>1, <3>1
      <3>2. CASE i \in 1 .. n
        <4>1. q[i] \in Nat /\ Bits(ts[i]) \in Nat /\ q[i + 1] = q[i] + Bits(ts[i])
          BY <1>1, <1>12, <2>1, <2>2, <3>2
        <4>2. q[i + 1] \in Nat
          BY <4>1
        <4>3. QED BY <2>1, <4>2
      <3>3. CASE i > n
        BY <2>1, <3>3
      <3>4. QED BY <3>1, <3>2, <3>3
    <2>3. 0 \in T
      BY <2>1
    <2>4. \A i \in Nat : i \in T
      BY <2>2, <2>3, AllNumbers
    <2>5. QED BY <2>1, <2>4
  <1>14. QED BY <1>8, <1>11, <1>12, <1>13

\* C's layout, of types with the sizes b
StartIn(b, ts) ==
  LET start[i \in 1 .. Len(ts)] ==
        IF i = 1 THEN 0
        ELSE LET end == start[i - 1] + b[ts[i - 1]] IN end + ((-end) % b[ts[i]])
  IN  start

\* in a record without padding C has the fields where the code puts them
LEMMA StartIsOffset ==
  ASSUME build \in Builds, NEW n \in Nat, NEW ts \in Fields(n),
         \A i \in 2 .. Len(ts) : StartIn(build, ts)[i] = StartIn(build, ts)[i - 1] + build[ts[i - 1]]
  PROVE  \A i \in 1 .. n : StartIn(build, ts)[i] = FieldOffset(ts)[i]
  <1> DEFINE E(q, i) == IF i = 1 THEN 0
                        ELSE LET end == q[i - 1] + build[ts[i - 1]] IN end + ((-end) % build[ts[i]])
             F(q) == [i \in 1 .. Len(ts) |-> E(q, i)]
  <1>1. /\ Len(ts) = n
        /\ \A i \in 1 .. n : build[ts[i]] \in Nat /\ build[ts[i]] > 0 /\ Bits(ts[i]) = build[ts[i]]
    BY FieldsAre DEF Bits
  <1>2. PICK step : step = [i \in 1 .. n |-> [v \in Nat |->
                       v + build[ts[i]] + IF i + 1 \in 1 .. n THEN (-(v + build[ts[i]])) % build[ts[i + 1]] ELSE 0]]
    OBVIOUS
  <1>3. step \in [1 .. n -> [Nat -> Nat]]
    <2>1. ASSUME NEW i \in 1 .. n, NEW v \in Nat
          PROVE  v + build[ts[i]] + (IF i + 1 \in 1 .. n THEN (-(v + build[ts[i]])) % build[ts[i + 1]] ELSE 0) \in Nat
      <3>1. PICK a \in Nat : a = build[ts[i]]
        BY <1>1
      <3>2. CASE i + 1 \in 1 .. n
        <4>1. PICK b \in Nat : b = build[ts[i + 1]] /\ b > 0
          BY <1>1, <3>2
        <4>2. PICK c \in Int : c = -(v + a)
          OBVIOUS
        <4>3. b > 0
          BY <4>1
        <4>4. c % b \in Nat
          BY <4>3, DivisionFacts
        <4>5. QED BY <3>1, <3>2, <4>1, <4>2, <4>4
      <3>3. CASE ~(i + 1 \in 1 .. n)
        BY <3>1, <3>3
      <3>4. QED BY <3>2, <3>3
    <2>2. QED BY <1>2, <2>1
  <1>4. PICK g : CountsUp(n, Nat, 0, step, g)
    BY <1>3, CountedUp
  <1>5. PICK h : h = [i \in 1 .. n |-> g[i - 1]]
    OBVIOUS
  <1>6. h = F(h)
    <2>1. ASSUME NEW i \in 1 .. n
          PROVE  h[i] = IF i = 1 THEN 0
                        ELSE (h[i - 1] + build[ts[i - 1]]) + ((-(h[i - 1] + build[ts[i - 1]])) % build[ts[i]])
      <3>1. g \in [0 .. n -> Nat] /\ g[0] = 0 /\ \A j \in 1 .. n : g[j] = step[j][g[j - 1]]
        BY <1>4 DEF CountsUp
      <3>2. CASE i = 1
        BY <1>5, <3>1, <3>2
      <3>3. CASE i # 1
        <4>1. PICK j \in 1 .. n : j = i - 1 /\ j + 1 = i
          BY <3>3
        <4>2. h[i] = g[j] /\ h[j] = g[j - 1] /\ g[j] = step[j][g[j - 1]]
          BY <1>5, <3>1, <4>1
        <4>3. g[j - 1] \in Nat
          BY <3>1, <4>1
        <4>4. step[j][g[j - 1]] = g[j - 1] + build[ts[j]] + ((-(g[j - 1] + build[ts[j]])) % build[ts[j + 1]])
          BY <1>2, <4>1, <4>3
        <4>5. QED BY <3>3, <4>1, <4>2, <4>4
      <3>4. QED BY <3>2, <3>3
    <2>2. \A i \in 1 .. n : h[i] = E(h, i)
      BY <2>1
    <2> HIDE DEF E
    <2>3. h = [i \in 1 .. n |-> h[i]]
      BY <1>5
    <2>4. h = [i \in 1 .. n |-> E(h, i)]
      BY <2>2, <2>3
    <2>5. QED BY <1>1, <2>4
  <1>7. PICK q : q = StartIn(build, ts)
    OBVIOUS
  <1>8. q = F(q)
    <2>1. q = CHOOSE f : f = F(f)
      BY <1>7 DEF StartIn
    <2> HIDE DEF F
    <2>2. \E f : f = F(f)
      BY <1>6
    <2>3. QED BY <2>1, <2>2
  <1>9. n > 0 => q[1] = 0
    BY <1>1, <1>8
  <1>10. PICK at : at = FieldOffset(ts)
    OBVIOUS
  <1>11. /\ at[1] = 0
         /\ \A i \in 1 .. n : i + 1 \in 1 .. n => at[i + 1] = at[i] + build[ts[i]]
    <2>1. /\ FieldOffset(ts)[1] = 0
          /\ \A i \in 1 .. n : /\ FieldOffset(ts)[i] \in Nat
                               /\ i + 1 \in 1 .. n => FieldOffset(ts)[i + 1] = FieldOffset(ts)[i] + Bits(ts[i])
      BY FieldOffsetIs
    <2>2. at[1] = 0 /\ \A i \in 1 .. n : i + 1 \in 1 .. n => at[i + 1] = at[i] + Bits(ts[i])
      BY <1>10, <2>1
    <2>3. \A i \in 1 .. n : Bits(ts[i]) = build[ts[i]]
      BY <1>1
    <2>4. QED BY <2>2, <2>3
  <1>12. \A i \in Nat : i \in 1 .. n => q[i] = at[i]
    <2>1. PICK T : T = {i \in Nat : i \in 1 .. n => q[i] = at[i]}
      OBVIOUS
    <2>2. ASSUME NEW i \in Nat, i \in T PROVE i + 1 \in T
      <3>1. CASE i = 0
        BY <1>9, <1>11, <2>1, <3>1
      <3>2. CASE i \in 1 .. n /\ i + 1 \in 1 .. n
        <4>1. q[i] = at[i] /\ at[i + 1] = at[i] + build[ts[i]]
          BY <1>11, <2>1, <2>2, <3>2
        <4>2. i + 1 \in 2 .. Len(ts) /\ i + 1 - 1 = i
          BY <1>1, <3>2
        <4>3. q[i + 1] = q[i + 1 - 1] + build[ts[i + 1 - 1]]
          BY <1>7, <4>2
        <4>4. QED BY <2>1, <4>1, <4>2, <4>3
      <3>3. CASE ~(i + 1 \in 1 .. n)
        BY <2>1, <3>3
      <3>4. QED BY <3>1, <3>2, <3>3
    <2>3. 0 \in T
      BY <2>1
    <2>4. \A i \in Nat : i \in T
      BY <2>2, <2>3, AllNumbers
    <2>5. QED BY <2>1, <2>4
  <1>13. QED BY <1>7, <1>10, <1>12

\* bits below that are not replaced
LEMMA BitsBelow ==
  ASSUME NEW a \in Int, NEW b \in Int, NEW c \in Nat, NEW o \in Nat, NEW n \in Nat,
         o + n <= c, a % 2^^c = b % 2^^c
  PROVE  (a \div 2^^o) % 2^^n = (b \div 2^^o) % 2^^n
  <1>1. a % 2^^(o + n) = b % 2^^(o + n)
    BY FewerBits
  <1>2. PICK p \in Nat, m \in Nat : p = 2^^o /\ m = 2^^n
    BY TwoPowers
  <1>3. p > 0 /\ m > 0 /\ 2^^(o + n) = p * m
    BY <1>2, TwoPowers, PowerOfSum
  <1>4. PICK z \in Nat : z = p * m /\ z > 0
    <2>1. p * m \in Nat /\ p * m > 0
      BY <1>3
    <2>2. QED BY <2>1
  <1>5. PICK k \in Int : a = b + z * k
    <2>1. a % z = b % z
      BY <1>1, <1>3, <1>4
    <2>2. z > 0
      BY <1>4
    <2>3. QED BY <2>1, <2>2, SameBy
  <1>6. PICK j \in Int : j = m * k
    OBVIOUS
  <1>7. a = b + p * j
    BY <1>4, <1>5, <1>6
  <1>8. a \div p = (b \div p) + j
    <2>1. p > 0
      BY <1>3
    <2>2. (b + p * j) \div p = (b \div p) + j
      BY <2>1, RemainderOfSum
    <2>3. QED BY <1>7, <2>2
  <1>9. PICK d \in Int, e \in Int : d = a \div p /\ e = b \div p
    <2>1. p > 0
      BY <1>3
    <2>2. a \div p \in Int /\ b \div p \in Int
      BY <2>1, DivisionFacts
    <2>3. QED BY <2>2
  <1>10. d = e + m * k
    BY <1>6, <1>8, <1>9
  <1>11. d % m = e % m
    <2>1. m > 0
      BY <1>3
    <2>2. \E i \in Int : d = e + m * i
      BY <1>10
    <2>3. QED BY <2>1, <2>2, SameOf
  <1>12. QED BY <1>2, <1>9, <1>11

\* what C gets: the fields written one after the other
Buffer(ts, v) ==
  LET at == FieldOffset(ts)
      buf[i \in 0 .. Len(ts)] ==
        IF i = 0 THEN 0 ELSE Replace(buf[i - 1], at[i], Bits(ts[i]), Extract(ts[i], v))
  IN  buf[Len(ts)]

\* m has the first j fields of ts, each with the low bits of v, and nothing of them
\* is where the next one goes
Written(n, ts, at, v, j, m) ==
  /\ m \in Int
  /\ \A i \in 1 .. j : /\ j + 1 \in 1 .. n => at[i] + Bits(ts[i]) <= at[j + 1]
                      /\ (m \div 2^^at[i]) % 2^^Bits(ts[i]) = Value(v) % 2^^Bits(ts[i])

\* the buffer of a record holds each argument at the offset of its field
LEMMA BufferHolds ==
  ASSUME build \in Builds, NEW n \in Nat, NEW ts \in Fields(n), NEW v \in Held, ~NegatedLong(v)
  PROVE  /\ Buffer(ts, v) \in Int
         /\ \A i \in 1 .. n :
              (Buffer(ts, v) \div 2^^FieldOffset(ts)[i]) % 2^^Bits(ts[i]) = Value(v) % 2^^Bits(ts[i])
  <1>1. PICK at : at = FieldOffset(ts)
    OBVIOUS
  <1> DEFINE F(q) == [i \in 0 .. Len(ts) |->
                        IF i = 0 THEN 0 ELSE Replace(q[i - 1], at[i], Bits(ts[i]), Extract(ts[i], v))]
  <1>2. /\ Len(ts) = n /\ \A i \in 1 .. n : ts[i] \in Type /\ Bits(ts[i]) \in Nat
    BY FieldsAre
  <1>3. /\ \A i \in 1 .. n : at[i] \in Nat
        /\ \A i \in 1 .. n : i + 1 \in 1 .. n => at[i + 1] = at[i] + Bits(ts[i])
    BY <1>1, FieldOffsetIs
  <1>4. \A i \in 1 .. n : /\ Extract(ts[i], v) \in Int
                          /\ Extract(ts[i], v) % 2^^Bits(ts[i]) = Value(v) % 2^^Bits(ts[i])
    BY <1>2, ExtractIs
  <1>5. PICK step : step = [i \in 1 .. n |-> [m \in Int |-> Replace(m, at[i], Bits(ts[i]), Extract(ts[i], v))]]
    OBVIOUS
  <1>6. step \in [1 .. n -> [Int -> Int]]
    <2>1. ASSUME NEW i \in 1 .. n, NEW m \in Int
          PROVE  Replace(m, at[i], Bits(ts[i]), Extract(ts[i], v)) \in Int
      BY <1>2, <1>3, <1>4, ReplaceIs
    <2>2. QED BY <1>5, <2>1
  <1>7. PICK g : CountsUp(n, Int, 0, step, g)
    <2>1. 0 \in Int
      OBVIOUS
    <2>2. QED BY <1>6, <2>1, CountedUp
  <1>8. /\ g \in [0 .. n -> Int] /\ g[0] = 0
        /\ \A i \in 1 .. n : g[i] = Replace(g[i - 1], at[i], Bits(ts[i]), Extract(ts[i], v))
    <2>1. g \in [0 .. n -> Int] /\ g[0] = 0 /\ \A i \in 1 .. n : g[i] = step[i][g[i - 1]]
      BY <1>7 DEF CountsUp
    <2>2. \A i \in 1 .. n : i - 1 \in 0 .. n /\ g[i - 1] \in Int
      BY <2>1
    <2>3. QED BY <1>5, <2>1, <2>2
  <1>9. g = F(g)
    <2>1. \A i \in 0 .. n :
            g[i] = IF i = 0 THEN 0 ELSE Replace(g[i - 1], at[i], Bits(ts[i]), Extract(ts[i], v))
      BY <1>8
    <2>2. QED BY <1>2, <1>8, <2>1
  <1>10. PICK q : q = CHOOSE f : f = F(f)
    OBVIOUS
  <1>11. q = F(q)
    <2> HIDE DEF F
    <2>1. \E f : f = F(f)
      BY <1>9
    <2>2. QED BY <1>10, <2>1
  <1>12. Buffer(ts, v) = q[n]
    BY <1>1, <1>2, <1>10 DEF Buffer
  <1>13. \A i \in 0 .. n : q[i] = IF i = 0 THEN 0 ELSE Replace(q[i - 1], at[i], Bits(ts[i]), Extract(ts[i], v))
    BY <1>2, <1>11
  <1>14. q[0] = 0 /\ \A j \in Nat : j + 1 \in 1 .. n =>
           q[j + 1] = Replace(q[j], at[j + 1], Bits(ts[j + 1]), Extract(ts[j + 1], v))
    <2>1. q[0] = 0
      BY <1>13
    <2>2. ASSUME NEW j \in Nat, j + 1 \in 1 .. n
          PROVE  q[j + 1] = Replace(q[j], at[j + 1], Bits(ts[j + 1]), Extract(ts[j + 1], v))
      <3>1. j + 1 \in 0 .. n /\ j + 1 # 0 /\ j + 1 - 1 = j
        BY <2>2
      <3>2. q[j + 1] = Replace(q[j + 1 - 1], at[j + 1], Bits(ts[j + 1]), Extract(ts[j + 1], v))
        BY <1>13, <3>1
      <3>3. QED BY <3>1, <3>2
    <2>3. QED BY <2>1, <2>2
  <1>15. PICK T : T = {j \in Nat : j <= n => Written(n, ts, at, v, j, q[j])}
    OBVIOUS
  <1>16. \A j \in Nat : j \in T
    <2>2. 0 \in T
      <3>1. Written(n, ts, at, v, 0, q[0])
        BY <1>14 DEF Written
      <3>2. QED BY <1>15, <3>1
    <2>3. ASSUME NEW j \in Nat, j \in T PROVE j + 1 \in T
      <3>1. CASE j + 1 \in 1 .. n
        <4>1. /\ q[j] \in Int
              /\ \A i \in 1 .. j : /\ at[i] + Bits(ts[i]) <= at[j + 1]
                                   /\ (q[j] \div 2^^at[i]) % 2^^Bits(ts[i]) = Value(v) % 2^^Bits(ts[i])
          BY <1>15, <2>3, <3>1 DEF Written
        <4>2. PICK c \in Nat, b \in Nat, e \in Int, m \in Int :
                c = at[j + 1] /\ b = Bits(ts[j + 1]) /\ e = Extract(ts[j + 1], v) /\ m = q[j]
          BY <1>2, <1>3, <1>4, <3>1, <4>1
        <4>3. PICK r : r = q[j + 1] /\ r = Replace(m, c, b, e)
          BY <1>14, <3>1, <4>2
        <4>4. r \in Int /\ r % 2^^c = m % 2^^c /\ (r \div 2^^c) % 2^^b = e % 2^^b
          BY <4>3, ReplaceIs
        <4>5. ASSUME NEW i \in 1 .. j + 1
              PROVE  (r \div 2^^at[i]) % 2^^Bits(ts[i]) = Value(v) % 2^^Bits(ts[i])
          <5>1. CASE i = j + 1
            BY <1>4, <3>1, <4>2, <4>4, <5>1
          <5>2. CASE i # j + 1
            <6>1. i \in 1 .. j /\ i \in 1 .. n
              BY <3>1, <5>2
            <6>2. at[i] \in Nat /\ Bits(ts[i]) \in Nat /\ at[i] + Bits(ts[i]) <= c
              BY <1>2, <1>3, <4>1, <4>2, <6>1
            <6>3. (r \div 2^^at[i]) % 2^^Bits(ts[i]) = (m \div 2^^at[i]) % 2^^Bits(ts[i])
              BY <4>4, <6>2, BitsBelow
            <6>4. (m \div 2^^at[i]) % 2^^Bits(ts[i]) = Value(v) % 2^^Bits(ts[i])
              BY <4>1, <4>2, <6>1
            <6>5. QED BY <6>3, <6>4
          <5>3. QED BY <5>1, <5>2
        <4>6. ASSUME NEW i \in 1 .. j + 1, j + 1 + 1 \in 1 .. n
              PROVE  at[i] + Bits(ts[i]) <= at[j + 1 + 1]
          <5>1. at[j + 1 + 1] = c + b
            BY <1>3, <3>1, <4>2, <4>6
          <5>2. CASE i = j + 1
            BY <4>2, <5>1, <5>2
          <5>3. CASE i # j + 1
            <6>1. i \in 1 .. j /\ i \in 1 .. n
              BY <3>1, <5>3
            <6>2. at[i] \in Nat /\ Bits(ts[i]) \in Nat /\ at[i] + Bits(ts[i]) <= c
              BY <1>2, <1>3, <4>1, <4>2, <6>1
            <6>3. QED BY <5>1, <6>2
          <5>4. QED BY <5>2, <5>3
        <4>7. Written(n, ts, at, v, j + 1, q[j + 1])
          BY <4>3, <4>4, <4>5, <4>6 DEF Written
        <4>8. QED BY <1>15, <4>7
      <3>2. CASE ~(j + 1 \in 1 .. n)
        <4>1. ~(j + 1 <= n)
          BY <3>2
        <4>2. QED BY <1>15, <4>1
      <3>3. QED BY <3>1, <3>2
    <2>4. QED BY <2>2, <2>3, AllNumbers
  <1>17. /\ q[n] \in Int
         /\ \A i \in 1 .. n : (q[n] \div 2^^at[i]) % 2^^Bits(ts[i]) = Value(v) % 2^^Bits(ts[i])
    <2>1. Written(n, ts, at, v, n, q[n])
      BY <1>15, <1>16
    <2>2. QED BY <2>1 DEF Written
  <1>18. QED BY <1>1, <1>12, <1>17

\* the record is laid out as C expects it, or needs padding
Laid(b, ts, buf, v) ==
  LET start == StartIn(b, ts)
      padded == \E i \in 2 .. Len(ts) : start[i] # start[i - 1] + b[ts[i - 1]]
  IN  padded \/ \A i \in 1 .. Len(ts) : (buf \div 2^^start[i] - Value(v)) % 2^^b[ts[i]] = 0

\* so the record is laid out as the property says
LEMMA BufferLaid ==
  ASSUME build \in Builds, NEW n \in Nat, NEW ts \in Fields(n), NEW v \in Held, ~NegatedLong(v)
  PROVE  Laid(build, ts, Buffer(ts, v), v)
  <1>1. PICK start : start = StartIn(build, ts)
    OBVIOUS
  <1>2. SUFFICES ASSUME \A i \in 2 .. Len(ts) : start[i] = start[i - 1] + build[ts[i - 1]]
                 PROVE  \A i \in 1 .. Len(ts) :
                          (Buffer(ts, v) \div 2^^start[i] - Value(v)) % 2^^build[ts[i]] = 0
    BY <1>1 DEF Laid
  <1>3. Len(ts) = n
    BY FieldsAre
  <1>4. \A i \in 1 .. n : start[i] = FieldOffset(ts)[i]
    BY <1>1, <1>2, StartIsOffset
  <1>5. ASSUME NEW i \in 1 .. n
        PROVE  (Buffer(ts, v) \div 2^^start[i] - Value(v)) % 2^^build[ts[i]] = 0
    <2>1. PICK o \in Nat, b \in Nat : o = start[i] /\ b = build[ts[i]]
      BY <1>4, FieldsAre, FieldOffsetIs DEF Bits
    <2>2. PICK p \in Nat, m \in Nat : p = 2^^o /\ m = 2^^b
      BY TwoPowers
    <2>3. p > 0 /\ m > 0
      BY <2>2, TwoPowers
    <2>4. PICK a \in Int, z \in Int : a = Buffer(ts, v) /\ z = Value(v)
      BY BufferHolds, NumberIs DEF Held
    <2>5. (a \div p) % m = z % m
      BY <1>4, <2>1, <2>2, <2>4, BufferHolds DEF Bits
    <2>6. a \div p \in Int
      BY <2>3, DivisionFacts
    <2>7. (a \div p - z) % m = 0
      BY <2>3, <2>5, <2>6, SameRemainder
    <2>8. QED BY <2>1, <2>2, <2>4, <2>7
  <1>6. QED BY <1>3, <1>5

-----------------------------------------------------------------------------
(* Integers to and from C *)

\* The integer is a number, the pointer a word, and what the last operation
\* moved is still where it was moved to.
ForeignInvariant ==
  /\ build \in Builds
  /\ reg \in Held
  /\ mem \in Int
  /\ ptr \in 0 .. B - 1
  /\ did.op = "pointer->integer" => reg = s_to_number(Signed(ptr, W))
  /\ did.op = "set-pointer" => mem % B = ptr

\* what every step keeps and does
ForeignKept ==
  /\ ForeignInvariant'
  /\ LoadedExact'
  /\ RecordLaidOut'
  /\ LowBitsStored
  /\ PointerKept

\* pointer-set-c-...!
LEMMA PointerSetKeeps ==
  ASSUME ForeignInvariant, PointerSet
  PROVE  ForeignKept
  <1>1. PICK t \in Type :
          /\ mem' = Replace(mem, 0, Bits(t), Extract(t, reg))
          /\ did' = [op |-> "set", type |-> t]
          /\ build' = build /\ reg' = reg /\ ptr' = ptr
    BY DEF PointerSet
  <1>2. build \in Builds /\ reg \in Held /\ mem \in Int /\ ptr \in 0 .. B - 1
    BY DEF ForeignInvariant
  <1>3. PICK k \in Nat, e \in Int : k = Bits(t) /\ e = Extract(t, reg)
    BY <1>2, BitsAre, ExtractIs
  <1>4. PICK m \in Int : m = mem'
    BY <1>1, <1>2, <1>3, ReplaceIs
  <1>5. 2^^0 = 1 /\ m \div 1 = m /\ mem \div 1 = mem
    BY <1>2, TwoPowers
  <1>6. /\ (m \div 2^^0) % 2^^k = e % 2^^k
        /\ (m \div 2^^0) \div 2^^k = (mem \div 2^^0) \div 2^^k
    BY <1>1, <1>2, <1>3, <1>4, ReplaceIs
  <1>7. m % 2^^k = e % 2^^k /\ m \div 2^^k = mem \div 2^^k
    BY <1>5, <1>6
  <1>8. LowBitsStored
    <2>1. (t = "longlong" /\ NegatedLong(reg)) \/ e % 2^^k = Value(reg) % 2^^k
      BY <1>2, <1>3, ExtractIs
    <2>2. (t = "longlong" /\ NegatedLong(reg)) \/ (m - Value(reg)) % 2^^k = 0
      <3>1. PICK p \in Nat, w \in Int : p = 2^^k /\ p > 0 /\ w = Value(reg)
        BY <1>2, TwoPowers, NumberIs DEF Held
      <3>2. m % p = e % p
        BY <1>7, <3>1
      <3>3. (t = "longlong" /\ NegatedLong(reg)) \/ m % p = w % p
        BY <2>1, <3>1, <3>2
      <3>4. (t = "longlong" /\ NegatedLong(reg)) \/ (m - w) % p = 0
        BY <3>1, <3>3, SameRemainder
      <3>5. QED BY <3>1, <3>4
    <2>3. did'.type = t
      BY <1>1
    <2>4. QED BY <1>3, <1>4, <1>7, <2>2, <2>3 DEF LowBitsStored
  <1>9. did'.op = "set"
    BY <1>1
  <1>10. ForeignInvariant'
    BY <1>1, <1>2, <1>4, <1>9 DEF ForeignInvariant
  <1>11. LoadedExact' /\ RecordLaidOut' /\ PointerKept
    BY <1>9 DEF LoadedExact, RecordLaidOut, PointerKept
  <1>12. QED BY <1>8, <1>10, <1>11 DEF ForeignKept

\* what is read and how it is kept
LEMMA RefKeeps ==
  ASSUME ForeignInvariant, NEW t \in Type, NEW signed \in BOOLEAN,
         Converts(t, Read(t, signed, mem), reg'),
         did' = [op |-> "ref", type |-> t, signed |-> signed],
         build' = build, mem' = mem, ptr' = ptr
  PROVE  ForeignKept
  <1>1. build \in Builds /\ reg \in Held /\ mem \in Int /\ ptr \in 0 .. B - 1
    BY DEF ForeignInvariant
  <1>2. reg' \in Held /\ Value(reg') = Read(t, signed, mem) /\ (Verified(reg') \/ LeadingZero(t, reg'))
    BY DEF Converts
  <1>3. did'.op = "ref" /\ did'.type = t /\ did'.signed = signed
    OBVIOUS
  <1>4. PICK k \in Nat : k = Bits(t) /\ k > 0
    BY <1>1, BitsAre
  <1>5. PICK c \in Int : c = Read(t, signed, mem) /\ (c - mem) % 2^^k = 0
    BY <1>1, <1>4, ReadIs
  <1>6. PICK h \in Nat, p \in Nat : h = 2^^(k - 1) /\ p = 2^^k /\ p = 2 * h
    BY <1>4, HalfPower, TwoPowers
  <1>7. PICK low \in Int : low = IF signed THEN -h ELSE 0
    OBVIOUS
  <1>8. low <= c /\ c < low + p
    <2>1. signed => -h <= c /\ c < h
      BY <1>1, <1>4, <1>5, <1>6, ReadIs
    <2>2. ~signed => c \in Nat /\ c < p
      BY <1>1, <1>4, <1>5, <1>6, ReadIs
    <2>3. QED BY <1>6, <1>7, <2>1, <2>2
  <1>9. k = build'[t]
    BY <1>4 DEF Bits
  <1>10. LeadingZero(t, reg') <=>
           build'.longlong > W /\ t = "longlong" /\ ~IsFix(reg') /\ Len(reg'.limbs) = 2 /\ reg'.limbs[2] = 0
    BY DEF LeadingZero
  <1>11. LoadedExact'
    <2>1. (Value(reg') - mem') % 2^^k = 0
      BY <1>2, <1>5
    <2>2. low <= Value(reg') /\ Value(reg') < low + 2^^k
      BY <1>2, <1>5, <1>6, <1>8
    <2>3. low = IF did'.signed THEN -(2^^(k - 1)) ELSE 0
      BY <1>3, <1>6, <1>7
    <2>4. k = build'[did'.type]
      BY <1>3, <1>9
    <2>5. Verified(reg') \/
            (build'.longlong > W /\ did'.type = "longlong" /\ ~IsFix(reg') /\ Len(reg'.limbs) = 2 /\ reg'.limbs[2] = 0)
      BY <1>2, <1>3, <1>10
    <2>6. QED BY <2>1, <2>2, <2>3, <2>4, <2>5 DEF LoadedExact, Bits, LeadingZero
  <1>12. ForeignInvariant'
    BY <1>1, <1>2, <1>3 DEF ForeignInvariant
  <1>13. RecordLaidOut' /\ LowBitsStored /\ PointerKept
    BY <1>3 DEF RecordLaidOut, LowBitsStored, PointerKept
  <1>14. QED BY <1>11, <1>12, <1>13 DEF ForeignKept

\* pointer-ref-c-...
LEMMA PointerRefKeeps ==
  ASSUME ForeignInvariant, PointerRef
  PROVE  ForeignKept
  <1>1. PICK t \in Type, signed \in BOOLEAN :
          /\ reg' = ToNumber(t, signed, mem)
          /\ did' = [op |-> "ref", type |-> t, signed |-> signed]
          /\ build' = build /\ mem' = mem /\ ptr' = ptr
    BY DEF PointerRef
  <1>2. Converts(t, Read(t, signed, mem), reg')
    BY <1>1, ToNumberIs DEF ForeignInvariant
  <1>3. QED BY <1>1, <1>2, RefKeeps

\* a call returns
LEMMA CallReturnsKeeps ==
  ASSUME ForeignInvariant, CallReturns
  PROVE  ForeignKept
  <1>1. PICK t \in Type, signed \in BOOLEAN :
          /\ reg' = FfiToScheme(t, signed, mem)
          /\ did' = [op |-> "ref", type |-> t, signed |-> signed]
          /\ build' = build /\ mem' = mem /\ ptr' = ptr
    BY DEF CallReturns
  <1>2. Converts(t, Read(t, signed, mem), reg')
    BY <1>1, FfiToSchemeIs DEF ForeignInvariant
  <1>3. QED BY <1>1, <1>2, RefKeeps

\* words
LEMMA WordIs ==
  ASSUME NEW n \in Int
  PROVE  Word(n) \in 0 .. B - 1 /\ Word(n) % B = n % B /\ (n \in 0 .. B - 1 => n % B = n)
  <1>1. B \in Nat /\ B > 0
    BY BaseFacts
  <1>2. n % B \in Nat /\ n % B < B
    BY <1>1, DivisionFacts
  <1>3. (n % B) % B = n % B
    BY <1>1, RemainderOnce
  <1>4. n \in 0 .. B - 1 => n % B = n
    BY <1>1
  <1>5. QED BY <1>1, <1>2, <1>3, <1>4 DEF Word

\* the number made of a pointer
LEMMA PointerNumber ==
  ASSUME NEW p \in 0 .. B - 1
  PROVE  /\ s_to_number(Signed(p, W)) \in Held /\ Verified(s_to_number(Signed(p, W)))
         /\ Value(s_to_number(Signed(p, W))) \in Int
         /\ Value(s_to_number(Signed(p, W))) % B = p
  <1>1. W \in Nat /\ W > 0 /\ p \in Int
    BY NumbersAssumption, BaseFacts
  <1>2. PICK s \in Int : /\ s = Signed(p, W) /\ -(2^^(W - 1)) <= s /\ s < 2^^(W - 1)
                         /\ s % B = p % B
    <2>1. /\ Signed(p, W) \in Int /\ -(2^^(W - 1)) <= Signed(p, W) /\ Signed(p, W) < 2^^(W - 1)
          /\ Signed(p, W) % 2^^W = p % 2^^W
      BY <1>1, SignedIs
    <2>2. QED BY <2>1, TwoPowers
  <1>3. s_to_number(s) \in Number /\ Verified(s_to_number(s)) /\ Value(s_to_number(s)) = s
    BY <1>2, SToNumberIs
  <1>4. p % B = p
    BY <1>1, WordIs
  <1>5. QED BY <1>2, <1>3, <1>4, VerifiedHeld

\* integer->pointer
LEMMA IntegerToPointerKeeps ==
  ASSUME ForeignInvariant, IntegerToPointer
  PROVE  ForeignKept
  <1>1. /\ ptr' = Word(ExtractNum(reg)) /\ did'.op = "integer->pointer"
        /\ build' = build /\ reg' = reg /\ mem' = mem
    BY DEF IntegerToPointer
  <1>2. build \in Builds /\ reg \in Held /\ mem \in Int /\ ptr \in 0 .. B - 1
    BY DEF ForeignInvariant
  <1>3. PICK e \in Int, v \in Int : e = ExtractNum(reg) /\ v = Value(reg) /\ e % B = v % B
    BY <1>2, ExtractNumIs, NumberIs DEF Held
  <1>4. ptr' \in 0 .. B - 1 /\ ptr' % B = v % B /\ ptr' = v % B
    BY <1>1, <1>3, WordIs DEF Word
  <1>5. B \in Nat /\ B > 0
    BY BaseFacts
  <1>6. (v - ptr') % B = 0
    <2>1. ptr' \in Int
      BY <1>4, <1>5
    <2>2. QED BY <1>4, <1>5, <2>1, SameRemainder
  <1>7. did.op = "pointer->integer" => ptr' = ptr
    <2>1. ASSUME did.op = "pointer->integer" PROVE ptr' = ptr
      <3>1. reg = s_to_number(Signed(ptr, W))
        BY <2>1 DEF ForeignInvariant
      <3>2. v % B = ptr
        BY <1>2, <1>3, <3>1, PointerNumber
      <3>3. QED BY <1>4, <3>2
    <2>2. QED BY <2>1
  <1>8. PointerKept
    BY <1>1, <1>3, <1>6, <1>7 DEF PointerKept
  <1>9. ForeignInvariant'
    BY <1>1, <1>2, <1>4 DEF ForeignInvariant
  <1>10. LoadedExact' /\ RecordLaidOut' /\ LowBitsStored
    BY <1>1 DEF LoadedExact, RecordLaidOut, LowBitsStored
  <1>11. QED BY <1>8, <1>9, <1>10 DEF ForeignKept

\* pointer->integer
LEMMA PointerToIntegerKeeps ==
  ASSUME ForeignInvariant, PointerToInteger
  PROVE  ForeignKept
  <1>1. /\ reg' = s_to_number(Signed(ptr, W)) /\ did'.op = "pointer->integer"
        /\ build' = build /\ mem' = mem /\ ptr' = ptr
    BY DEF PointerToInteger
  <1>2. build \in Builds /\ reg \in Held /\ mem \in Int /\ ptr \in 0 .. B - 1
    BY DEF ForeignInvariant
  <1>3. reg' \in Held /\ Verified(reg') /\ Value(reg') \in Int /\ Value(reg') % B = ptr
    BY <1>1, <1>2, PointerNumber
  <1>4. (Value(reg') - ptr) % B = 0
    <2>1. B \in Nat /\ B > 0
      BY BaseFacts
    <2>2. ptr \in Int
      BY <1>2, <2>1
    <2>3. ptr % B = ptr
      BY <1>2, <2>2, WordIs
    <2>4. QED BY <1>3, <2>1, <2>2, <2>3, SameRemainder
  <1>5. PointerKept
    BY <1>1, <1>3, <1>4 DEF PointerKept
  <1>6. ForeignInvariant'
    BY <1>1, <1>2, <1>3 DEF ForeignInvariant
  <1>7. LoadedExact' /\ RecordLaidOut' /\ LowBitsStored
    BY <1>1 DEF LoadedExact, RecordLaidOut, LowBitsStored
  <1>8. QED BY <1>5, <1>6, <1>7 DEF ForeignKept

\* pointer-set-c-pointer!
LEMMA SetPointerKeeps ==
  ASSUME ForeignInvariant, SetPointer
  PROVE  ForeignKept
  <1>1. /\ mem' = Replace(mem, 0, W, ptr) /\ did'.op = "set-pointer"
        /\ build' = build /\ reg' = reg /\ ptr' = ptr
    BY DEF SetPointer
  <1>2. build \in Builds /\ reg \in Held /\ mem \in Int /\ ptr \in 0 .. B - 1
    BY DEF ForeignInvariant
  <1>3. W \in Nat /\ ptr \in Int /\ 2^^0 = 1 /\ 2^^W = B
    BY <1>2, NumbersAssumption, BaseFacts, TwoPowers
  <1>4. mem' \in Int /\ (mem' \div 2^^0) % 2^^W = ptr % 2^^W
    BY <1>1, <1>2, <1>3, ReplaceIs
  <1>5. PICK m \in Int : m = mem' /\ m \div 1 = m
    BY <1>4
  <1>6. mem' % B = ptr
    <2>1. m % B = ptr % B
      BY <1>3, <1>4, <1>5
    <2>2. QED BY <1>2, <1>3, <1>5, <2>1, WordIs
  <1>7. ForeignInvariant'
    BY <1>1, <1>2, <1>4, <1>6 DEF ForeignInvariant
  <1>8. LoadedExact' /\ RecordLaidOut' /\ LowBitsStored /\ PointerKept
    BY <1>1 DEF LoadedExact, RecordLaidOut, LowBitsStored, PointerKept
  <1>9. QED BY <1>7, <1>8 DEF ForeignKept

\* pointer-ref-c-pointer
LEMMA RefPointerKeeps ==
  ASSUME ForeignInvariant, RefPointer
  PROVE  ForeignKept
  <1>1. /\ ptr' = mem % B /\ did'.op = "ref-pointer"
        /\ build' = build /\ reg' = reg /\ mem' = mem
    BY DEF RefPointer
  <1>2. /\ build \in Builds /\ reg \in Held /\ mem \in Int
        /\ did.op = "set-pointer" => mem % B = ptr
    BY DEF ForeignInvariant
  <1>3. ptr' \in 0 .. B - 1
    BY <1>1, <1>2, WordIs DEF Word
  <1>4. ForeignInvariant'
    BY <1>1, <1>2, <1>3 DEF ForeignInvariant
  <1>5. PointerKept
    BY <1>1, <1>2 DEF PointerKept
  <1>6. LoadedExact' /\ RecordLaidOut' /\ LowBitsStored
    BY <1>1 DEF LoadedExact, RecordLaidOut, LowBitsStored
  <1>7. QED BY <1>4, <1>5, <1>6 DEF ForeignKept

\* a record is passed by value
LEMMA PassRecordKeeps ==
  ASSUME ForeignInvariant, PassRecord
  PROVE  ForeignKept
  <1>0. PICK ts \in UNION {Fields(n) : n \in 1 .. MaxFields} :
          /\ did' = [op |-> "record", types |-> ts, buf |-> Buffer(ts, reg)]
          /\ build' = build /\ reg' = reg /\ mem' = mem /\ ptr' = ptr
    BY DEF PassRecord, Fields, Buffer
  <1>1. PICK n \in 1 .. MaxFields : ts \in Fields(n)
    BY <1>0
  <1>2. build \in Builds /\ reg \in Held /\ mem \in Int /\ ptr \in 0 .. B - 1
    BY DEF ForeignInvariant
  <1>3. did'.op = "record" /\ did'.types = ts /\ did'.buf = Buffer(ts, reg)
    BY <1>0
  <1>4. n \in Nat
    BY ForeignAssumption
  <1>5. ~NegatedLong(reg) => Laid(build, ts, Buffer(ts, reg), reg)
    BY <1>1, <1>2, <1>4, BufferLaid
  <1>6. ~NegatedLong(reg)' => Laid(build', did'.types, did'.buf, reg')
    <2>1. NegatedLong(reg)' <=> NegatedLong(reg)
      BY <1>0 DEF NegatedLong
    <2>2. QED BY <1>0, <1>3, <1>5, <2>1
  <1>7. RecordLaidOut'
    BY <1>6 DEF RecordLaidOut, Laid, StartIn, Bits
  <1>8. ForeignInvariant'
    BY <1>0, <1>2, <1>3 DEF ForeignInvariant
  <1>9. LoadedExact' /\ LowBitsStored /\ PointerKept
    BY <1>3 DEF LoadedExact, LowBitsStored, PointerKept
  <1>10. QED BY <1>7, <1>8, <1>9 DEF ForeignKept

-----------------------------------------------------------------------------
(* Theorems *)

\* the start
LEMMA ForeignStarts ==
  ASSUME ForeignInit
  PROVE  ForeignInvariant /\ LoadedExact /\ RecordLaidOut
  <1>1. /\ build \in Builds /\ reg \in Integers0 /\ mem = 0 /\ ptr = 0 /\ did.op = "none"
    BY DEF ForeignInit
  <1>2. reg \in Held
    BY <1>1, ForeignAssumption, VerifiedHeld
  <1>3. ptr \in 0 .. B - 1
    BY <1>1, BaseFacts
  <1>4. QED BY <1>1, <1>2, <1>3 DEF ForeignInvariant, LoadedExact, RecordLaidOut

\* every step
LEMMA ForeignSteps ==
  ASSUME ForeignInvariant, ForeignNext
  PROVE  ForeignKept \/ UNCHANGED fvars
  <1>1. CASE PointerSet
    BY <1>1, PointerSetKeeps
  <1>2. CASE PointerRef
    BY <1>2, PointerRefKeeps
  <1>3. CASE CallReturns
    BY <1>3, CallReturnsKeeps
  <1>4. CASE IntegerToPointer
    BY <1>4, IntegerToPointerKeeps
  <1>5. CASE PointerToInteger
    BY <1>5, PointerToIntegerKeeps
  <1>6. CASE SetPointer
    BY <1>6, SetPointerKeeps
  <1>7. CASE RefPointer
    BY <1>7, RefPointerKeeps
  <1>8. CASE PassRecord
    BY <1>8, PassRecordKeeps
  <1>9. CASE UNCHANGED fvars
    BY <1>9
  <1>10. QED BY <1>1, <1>2, <1>3, <1>4, <1>5, <1>6, <1>7, <1>8, <1>9 DEF ForeignNext

\* a step of nothing
LEMMA ForeignStutters ==
  ASSUME ForeignInvariant, LoadedExact, RecordLaidOut, UNCHANGED fvars
  PROVE  ForeignInvariant' /\ LoadedExact' /\ RecordLaidOut'
  <1>1. build' = build /\ reg' = reg /\ mem' = mem /\ ptr' = ptr /\ did' = did /\ ops' = ops
    BY DEF fvars
  <1>2. ForeignInvariant'
    BY <1>1 DEF ForeignInvariant
  <1>3. LoadedExact'
    BY <1>1 DEF LoadedExact, Bits, LeadingZero
  <1>4. RecordLaidOut'
    <2>1. did.op = "record" /\ ~NegatedLong(reg) => Laid(build, did.types, did.buf, reg)
      BY DEF RecordLaidOut, Laid, StartIn, Bits
    <2>2. NegatedLong(reg)' <=> NegatedLong(reg)
      BY <1>1 DEF NegatedLong
    <2>3. did'.op = "record" /\ ~NegatedLong(reg)' => Laid(build', did'.types, did'.buf, reg')
      BY <1>1, <2>1, <2>2
    <2>4. QED BY <2>3 DEF RecordLaidOut, Laid, StartIn, Bits
  <1>5. QED BY <1>2, <1>3, <1>4

\* the invariant, and with it the two properties of what was moved
LEMMA ForeignInductive ==
  ForeignSpec => [](ForeignInvariant /\ LoadedExact /\ RecordLaidOut)
  <1>1. ForeignInit => ForeignInvariant /\ LoadedExact /\ RecordLaidOut
    BY ForeignStarts
  <1>2. /\ ForeignInvariant /\ LoadedExact /\ RecordLaidOut
        /\ [ForeignNext]_fvars
        => (ForeignInvariant /\ LoadedExact /\ RecordLaidOut)'
    BY ForeignSteps, ForeignStutters DEF ForeignKept
  <1>3. QED BY <1>1, <1>2, PTL DEF ForeignSpec

\* What is read from memory or comes back from C is the number in range that
\* has these bits, in its one representation (pointer-ref-c-..., the results of
\* a foreign call: LoadedExact).
THEOREM IntegersAreLoaded == ForeignSpec => []LoadedExact
  BY ForeignInductive, PTL

\* C finds the fields of a record where its own layout puts them when that needs
\* no padding (scheme_to_ffi_record_value_cast: RecordLaidOut).
THEOREM RecordsAreLaidOut == ForeignSpec => []RecordLaidOut
  BY ForeignInductive, PTL

\* Memory takes the low bits of what is stored in it and nothing else, and a
\* pointer survives the way through integers and memory, at every step
\* (pointer-set-c-...!, integer->pointer, pointer->integer: StoredModulo).
THEOREM BitsAreStored == ForeignSpec => StoredModulo
  <1>1. ForeignInvariant /\ [ForeignNext]_fvars => [LowBitsStored /\ PointerKept]_fvars
    BY ForeignSteps DEF ForeignKept
  <1>2. QED BY <1>1, ForeignInductive, PTL DEF ForeignSpec, StoredModulo

=============================================================================
