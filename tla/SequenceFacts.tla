----------------------------- MODULE SequenceFacts -----------------------------
(* Facts about numbers and sequences that the proofs about several           *)
(* components rest on.                                                       *)
(*                                                                           *)
(* A fact about what a recursive function computes is proved here and in the *)
(* modules that use this one from least elements: were it false, there would *)
(* be a least number for which it is (LeastNumber), and one below it.        *)
EXTENDS Integers, Sequences, SequencesExt, FiniteSetsExt, Lists, SequenceTheorems,
        FiniteSetTheorems, FunctionTheorems, WellFoundedInduction, TLAPS

\* a set of natural numbers has a least element
LEMMA LeastNumber ==
  ASSUME NEW T, T \subseteq Nat, T # {}
  PROVE  \E x \in T : \A y \in T : x <= y
  <1>1. IsWellFoundedOn(OpToRel(<, Nat), Nat)
    BY NatLessThanWellFounded
  <1>2. PICK x \in T : \A y \in T : ~(<<y, x>> \in OpToRel(<, Nat))
    BY <1>1, WFMin
  <1>3. ASSUME NEW y \in T PROVE x <= y
    <2>1. ASSUME y < x PROVE FALSE
      <3>1. <<y, x>> \in Nat \X Nat
        OBVIOUS
      <3>2. <<y, x>> \in OpToRel(<, Nat)
        BY <2>1, <3>1 DEF OpToRel
      <3>3. QED BY <1>2, <3>2
    <2>2. x \in Nat /\ y \in Nat
      OBVIOUS
    <2>3. QED BY <2>1, <2>2
  <1>4. QED BY <1>3

\* and a greatest one, if it is bounded
LEMMA GreatestNumber ==
  ASSUME NEW b \in Nat, NEW T, T \subseteq 0 .. b, T # {}
  PROVE  \E x \in T : \A y \in T : y <= x
  <1> DEFINE D == {b - x : x \in T}
  <1>1. D \subseteq Nat /\ D # {}
    <2>1. \A x \in T : x \in Int /\ 0 <= x /\ x <= b
      OBVIOUS
    <2>2. \A x \in T : b - x \in Nat
      BY <2>1
    <2>3. QED BY <2>2
  <1>2. PICK d \in D : \A e \in D : d <= e
    <2> HIDE DEF D
    <2>1. QED BY <1>1, LeastNumber
  <1>3. PICK x \in T : d = b - x
    OBVIOUS
  <1>4. ASSUME NEW y \in T PROVE y <= x
    <2>1. b - y \in D
      OBVIOUS
    <2>2. b - x <= b - y
      BY <1>2, <1>3, <2>1
    <2>3. x \in 0 .. b /\ y \in 0 .. b
      OBVIOUS
    <2>4. QED BY <2>2, <2>3
  <1>5. QED BY <1>4

\* Min and Max are in their sets and bound them
LEMMA MinIsLeast ==
  ASSUME NEW T, T \subseteq Nat, T # {}
  PROVE  Min(T) \in T /\ \A y \in T : Min(T) <= y
  <1>1. \E x \in T : \A y \in T : x <= y
    BY LeastNumber
  <1>2. QED BY <1>1 DEF Min

\* what CHOOSE takes for the maximum of a bounded set is it
LEMMA MaxIsGreatest ==
  ASSUME NEW b \in Nat, NEW T, T \subseteq 0 .. b, T # {}
  PROVE  Max(T) \in T /\ \A y \in T : y <= Max(T)
  <1>1. \E x \in T : \A y \in T : y <= x
    BY GreatestNumber
  <1>2. \E x \in T : \A y \in T : x >= y
    <2>1. \A x \in T, y \in T : x \in Int /\ y \in Int
      OBVIOUS
    <2>2. QED BY <1>1, <2>1
  <1>3. Max(T) \in T /\ \A y \in T : Max(T) >= y
    BY <1>2 DEF Max
  <1>4. \A y \in T : y \in Int
    OBVIOUS
  <1>5. QED BY <1>3, <1>4

-----------------------------------------------------------------------------
(* Lists: an element before a sequence *)

\* a sequence with an element put in front
LEMMA ConsFacts ==
  ASSUME NEW S, NEW x \in S, NEW s \in Seq(S)
  PROVE  /\ <<x>> \o s \in Seq(S) /\ Len(<<x>> \o s) = Len(s) + 1
         /\ (<<x>> \o s)[1] = x
         /\ \A i \in 1 .. Len(s) : (<<x>> \o s)[i + 1] = s[i]
         /\ <<x>> \o s # << >>
         /\ Head(<<x>> \o s) = x /\ Tail(<<x>> \o s) = s
  OBVIOUS

\* a sequence is its head before its tail
LEMMA HeadBeforeTail ==
  ASSUME NEW S, NEW s \in Seq(S), s # << >>
  PROVE  /\ Head(s) \in S /\ Head(s) = s[1] /\ Tail(s) \in Seq(S)
         /\ s = <<Head(s)>> \o Tail(s)
         /\ Len(Tail(s)) = Len(s) - 1 /\ Len(s) >= 1
  OBVIOUS

\* t is the end of s
Ends(t, s) ==
  /\ Len(t) <= Len(s)
  /\ \A i \in 1 .. Len(t) : t[i] = s[Len(s) - Len(t) + i]

\* a sequence is an end of itself
LEMMA EndsItself ==
  ASSUME NEW S, NEW s \in Seq(S)
  PROVE  Ends(s, s)
  BY DEF Ends

\* an end of an end is an end
LEMMA EndsTransitive ==
  ASSUME NEW S, NEW s \in Seq(S), NEW t \in Seq(S), NEW u \in Seq(S), Ends(s, t), Ends(t, u)
  PROVE  Ends(s, u)
  <1>1. Len(s) <= Len(t) /\ Len(t) <= Len(u) /\ Len(s) \in Nat /\ Len(t) \in Nat /\ Len(u) \in Nat
    BY DEF Ends
  <1>2. ASSUME NEW i \in 1 .. Len(s) PROVE s[i] = u[Len(u) - Len(s) + i]
    <2>1. Len(t) - Len(s) + i \in 1 .. Len(t)
      BY <1>1
    <2>2. s[i] = t[Len(t) - Len(s) + i]
      BY DEF Ends
    <2>3. t[Len(t) - Len(s) + i] = u[Len(u) - Len(t) + (Len(t) - Len(s) + i)]
      BY <2>1 DEF Ends
    <2>4. Len(u) - Len(t) + (Len(t) - Len(s) + i) = Len(u) - Len(s) + i
      BY <1>1
    <2>5. QED BY <2>2, <2>3, <2>4
  <1>3. QED BY <1>1, <1>2 DEF Ends

\* the tail is an end
LEMMA TailEnds ==
  ASSUME NEW S, NEW s \in Seq(S), s # << >>
  PROVE  Ends(Tail(s), s)
  BY DEF Ends

\* the end of a sequence that is not all of it is the end of its tail
LEMMA EndsTail ==
  ASSUME NEW S, NEW s \in Seq(S), NEW t \in Seq(S), Ends(t, s), t # s
  PROVE  s # << >> /\ Ends(t, Tail(s)) /\ Len(t) < Len(s)
  <1>1. Len(t) # Len(s)
    <2>1. ASSUME Len(t) = Len(s) PROVE FALSE
      <3>1. Len(s) \in Nat
        OBVIOUS
      <3>2. \A i \in 1 .. Len(t) : t[i] = s[Len(s) - Len(t) + i] /\ Len(s) - Len(t) + i = i
        BY <2>1, <3>1 DEF Ends
      <3>3. \A i \in 1 .. Len(t) : t[i] = s[i]
        BY <3>2
      <3>4. QED BY <2>1, <3>3, SeqEqual
    <2>2. QED BY <2>1
  <1>2. Len(t) < Len(s) /\ Len(t) \in Nat /\ Len(s) \in Nat
    BY <1>1 DEF Ends
  <1>3. s # << >>
    BY <1>2
  <1>4. Len(Tail(s)) = Len(s) - 1 /\ \A i \in 1 .. Len(s) - 1 : Tail(s)[i] = s[i + 1]
    BY <1>3
  <1>5. ASSUME NEW i \in 1 .. Len(t) PROVE t[i] = Tail(s)[Len(Tail(s)) - Len(t) + i]
    <2>1. t[i] = s[Len(s) - Len(t) + i]
      BY DEF Ends
    <2>2. Len(s) - 1 - Len(t) + i \in 1 .. Len(s) - 1 /\ Len(s) - 1 - Len(t) + i + 1 = Len(s) - Len(t) + i
      BY <1>2
    <2>3. QED BY <1>4, <2>1, <2>2
  <1>6. Len(t) <= Len(Tail(s))
    BY <1>2, <1>4
  <1>7. QED BY <1>2, <1>3, <1>5, <1>6 DEF Ends

\* the last n elements
LEMMA LastElements ==
  ASSUME NEW S, NEW s \in Seq(S), NEW n \in 0 .. Len(s)
  PROVE  /\ SubSeq(s, Len(s) - n + 1, Len(s)) \in Seq(S)
         /\ Len(SubSeq(s, Len(s) - n + 1, Len(s))) = n
         /\ \A i \in 1 .. n : SubSeq(s, Len(s) - n + 1, Len(s))[i] = s[Len(s) - n + i]
         /\ Ends(SubSeq(s, Len(s) - n + 1, Len(s)), s)
  <1> DEFINE m == Len(s) - n + 1
             r == SubSeq(s, m, Len(s))
  <1>1. m \in Int /\ Len(s) \in Int /\ n \in Nat /\ \A i \in m .. Len(s) : s[i] \in S
    OBVIOUS
  <1>2. /\ r \in Seq(S)
        /\ Len(r) = IF m <= Len(s) THEN Len(s) - m + 1 ELSE 0
        /\ \A i \in 1 .. Len(s) - m + 1 : r[i] = s[m + i - 1]
    <2> HIDE DEF m
    <2>1. QED BY <1>1, SubSeqProperties
  <1>3. Len(s) - m + 1 = n /\ (m <= Len(s) <=> n >= 1)
    BY <1>1
  <1>4. Len(r) = n
    <2> HIDE DEF m, r
    <2>1. QED BY <1>1, <1>2, <1>3
  <1>5. \A i \in 1 .. n : r[i] = s[Len(s) - n + i]
    <2> TAKE i \in 1 .. n
    <2>1. m + i - 1 = Len(s) - n + i
      BY <1>1
    <2>2. r[i] = s[m + i - 1]
      BY <1>2, <1>3
    <2>3. QED BY <2>1, <2>2
  <1>6. Ends(r, s)
    <2>1. Len(r) <= Len(s)
      BY <1>4
    <2>2. QED BY <1>4, <1>5, <2>1 DEF Ends
  <1>7. QED BY <1>2, <1>4, <1>5, <1>6

\* equal by their lengths: two ends of one sequence
LEMMA EndsEqual ==
  ASSUME NEW S, NEW s \in Seq(S), NEW t \in Seq(S), NEW u \in Seq(S),
         Ends(t, s), Ends(u, s), Len(t) = Len(u)
  PROVE  t = u
  <1>1. \A i \in 1 .. Len(t) : t[i] = u[i]
    BY DEF Ends
  <1>2. QED BY <1>1, SeqEqual

\* what an end holds, the sequence holds
LEMMA EndsHolds ==
  ASSUME NEW S, NEW s \in Seq(S), NEW t \in Seq(S), Ends(t, s)
  PROVE  ToSet(t) \subseteq ToSet(s)
  <1>1. DOMAIN t = 1 .. Len(t) /\ DOMAIN s = 1 .. Len(s) /\ Len(t) \in Nat /\ Len(s) \in Nat
    OBVIOUS
  <1>2. ASSUME NEW i \in DOMAIN t PROVE \E j \in DOMAIN s : t[i] = s[j]
    <2>1. i \in 1 .. Len(t) /\ Len(t) <= Len(s)
      BY <1>1 DEF Ends
    <2>2. Len(s) - Len(t) + i \in 1 .. Len(s)
      BY <1>1, <2>1
    <2>3. t[i] = s[Len(s) - Len(t) + i]
      BY <2>1 DEF Ends
    <2>4. QED BY <1>1, <2>2, <2>3
  <1>3. QED BY <1>2 DEF ToSet

\* the end longer by one
LEMMA LongerEnd ==
  ASSUME NEW S, NEW s \in Seq(S), NEW t \in Seq(S), Ends(t, s), t # s
  PROVE  \A u : u = SubSeq(s, Len(s) - Len(t) - 1 + 1, Len(s)) =>
           /\ u \in Seq(S) /\ u # << >> /\ Ends(u, s) /\ Tail(u) = t
           /\ Head(u) \in S
  <1> SUFFICES ASSUME NEW u, u = SubSeq(s, Len(s) - Len(t) - 1 + 1, Len(s))
               PROVE  /\ u \in Seq(S) /\ u # << >> /\ Ends(u, s) /\ Tail(u) = t
                      /\ Head(u) \in S
    OBVIOUS
  <1>1. Len(t) < Len(s) /\ Len(t) \in Nat /\ Len(s) \in Nat
    BY EndsTail
  <1> DEFINE n == Len(t) + 1
  <1>2. n \in 0 .. Len(s) /\ Len(s) - n + 1 = Len(s) - Len(t) - 1 + 1 /\ n >= 1 /\ n - 1 = Len(t)
    BY <1>1
  <1>3. u \in Seq(S) /\ Len(u) = n /\ Ends(u, s)
    <2> HIDE DEF n
    <2>1. QED BY <1>2, LastElements
  <1>4. u # << >>
    BY <1>2, <1>3
  <1>5. Tail(u) \in Seq(S) /\ Len(Tail(u)) = Len(t) /\ Head(u) \in S
    BY <1>2, <1>3, <1>4, HeadBeforeTail
  <1>6. Ends(Tail(u), u)
    BY <1>3, <1>4, TailEnds
  <1>7. Ends(Tail(u), s)
    BY <1>3, <1>5, <1>6, EndsTransitive
  <1>8. Tail(u) = t
    BY <1>5, <1>7, EndsEqual
  <1>9. QED BY <1>3, <1>4, <1>5, <1>8

-----------------------------------------------------------------------------
(* Recursion: a function on E whose value at a place of D is made of that at *)
(* the next place.  The modules define such functions f[i \in E] == ...; that *)
(* there is one needs every path to end, that is, to be grounded.            *)

\* g is defined along next on D and is base elsewhere
Along(D, E, next, base, step, g) ==
  \A i \in E : g[i] = IF i \in D THEN step[i][g[next[i]]] ELSE base[i]

\* every set of places has one whose next is outside
Grounded(D, next) == \A S \in SUBSET D : S # {} => \E i \in S : next[i] \notin S
Falls(D, E, next) == D \subseteq E /\ next \in [D -> E] /\ Grounded(D, next)

\* two that are defined so agree
LEMMA AlongUnique ==
  ASSUME NEW D, NEW E, NEW next, Falls(D, E, next),
         NEW C, C \subseteq E, \A i \in C \cap D : next[i] \in C, NEW g, NEW h,
         \A i \in C \ D : g[i] = h[i],
         \A i \in C \cap D : g[next[i]] = h[next[i]] => g[i] = h[i]
  PROVE  \A i \in C : g[i] = h[i]
  <1> DEFINE S == {i \in C \cap D : g[i] # h[i]}
  <1>1. S \in SUBSET D
    OBVIOUS
  <1>2. ASSUME S # {} PROVE FALSE
    <2>1. PICK i \in S : next[i] \notin S
      BY <1>1, <1>2 DEF Falls, Grounded
    <2>2. next[i] \in C /\ g[next[i]] = h[next[i]]
      BY <2>1
    <2>3. QED BY <2>1, <2>2
  <1>3. QED BY <1>2

\* g is so defined on C, which next does not leave
Partly(D, E, next, base, step, C, g) ==
  /\ C \subseteq E
  /\ \A i \in C \cap D : next[i] \in C
  /\ \A i \in C : g[i] = IF i \in D THEN step[i][g[next[i]]] ELSE base[i]

\* two parts agree where both are defined
LEMMA PartsAgree ==
  ASSUME NEW D, NEW E, NEW next, Falls(D, E, next),
         NEW base, NEW step, NEW C, NEW g, Partly(D, E, next, base, step, C, g),
         NEW C2, NEW h, Partly(D, E, next, base, step, C2, h),
         NEW i, i \in C, i \in C2
  PROVE  g[i] = h[i]
  <1> DEFINE S == {j \in (C \cap C2) \cap D : g[j] # h[j]}
  <1>1. S \in SUBSET D
    OBVIOUS
  <1>2. ASSUME S # {} PROVE FALSE
    <2>1. PICK k \in S : next[k] \notin S
      BY <1>1, <1>2 DEF Falls, Grounded
    <2>2. next[k] \in C /\ next[k] \in C2 /\ next[k] \in E /\ k \in D /\ k \in C /\ k \in C2
      BY <2>1 DEF Partly, Falls
    <2>3. g[next[k]] = h[next[k]]
      BY <2>1, <2>2 DEF Partly
    <2>4. g[k] = step[k][g[next[k]]] /\ h[k] = step[k][h[next[k]]]
      BY <2>2 DEF Partly
    <2>5. QED BY <2>1, <2>3, <2>4
  <1>3. CASE i \notin D
    BY <1>3 DEF Partly
  <1>4. CASE i \in D
    BY <1>2, <1>4
  <1>5. QED BY <1>3, <1>4

\* there is a function so defined
LEMMA AlongExists ==
  ASSUME NEW D, NEW E, NEW next, Falls(D, E, next),
         NEW V, NEW base \in [E -> V], NEW step \in [D -> [V -> V]]
  PROVE  \E g \in [E -> V] : Along(D, E, next, base, step, g)
  <1> DEFINE Part(C, g) == Partly(D, E, next, base, step, C, g)
             P == {i \in E : \E C \in SUBSET E, g \in [E -> V] : i \in C /\ Part(C, g)}
             of(i) == CHOOSE x \in (SUBSET E) \X [E -> V] : i \in x[1] /\ Part(x[1], x[2])
             G == [i \in E |-> IF i \in P THEN of(i)[2][i] ELSE base[i]]
  <1>1. D \subseteq E /\ next \in [D -> E] /\ Grounded(D, next)
    BY DEF Falls
  <1>2. ASSUME NEW i \in P
        PROVE  of(i)[1] \in SUBSET E /\ of(i)[2] \in [E -> V] /\ i \in of(i)[1] /\ Part(of(i)[1], of(i)[2])
    <2>1. PICK C \in SUBSET E, g \in [E -> V] : i \in C /\ Part(C, g)
      OBVIOUS
    <2> DEFINE y == <<C, g>>
    <2>2. y \in (SUBSET E) \X [E -> V] /\ y[1] = C /\ y[2] = g
      OBVIOUS
    <2> HIDE DEF Part, y
    <2>3. \E x \in (SUBSET E) \X [E -> V] : i \in x[1] /\ Part(x[1], x[2])
      BY <2>1, <2>2
    <2>4. of(i) \in (SUBSET E) \X [E -> V] /\ i \in of(i)[1] /\ Part(of(i)[1], of(i)[2])
      BY <2>3
    <2>5. QED BY <2>4
  <1>3. ASSUME NEW C \in SUBSET E, NEW g \in [E -> V], Part(C, g)
        PROVE  \A i \in C : i \in P /\ G[i] = g[i]
    <2> SUFFICES ASSUME NEW i \in C PROVE i \in P /\ G[i] = g[i]
      OBVIOUS
    <2>1. i \in P
      BY <1>3
    <2>2. G[i] = of(i)[2][i]
      BY <2>1
    <2> HIDE DEF Part, G, P
    <2> DEFINE C2 == of(i)[1]
               h == of(i)[2]
    <2>3. C2 \in SUBSET E /\ i \in C2 /\ Part(C2, h)
      BY <2>1, <1>2
    <2>4. G[i] = h[i]
      BY <2>2
    <2> HIDE DEF of, C2, h
    <2>5. g[i] = h[i]
      BY <1>3, <2>3, PartsAgree DEF Part
    <2>6. QED BY <2>1, <2>4, <2>5
  <1>4. G \in [E -> V]
    <2>1. ASSUME NEW i \in P PROVE of(i)[2][i] \in V
      <3>1. of(i)[2] \in [E -> V] /\ i \in E
        BY <1>2
      <3> HIDE DEF of
      <3>2. QED BY <3>1
    <2> HIDE DEF of, P
    <2>2. QED BY <2>1
  <1>5. ASSUME NEW i \in P PROVE /\ i \in D => next[i] \in P
                                 /\ G[i] = IF i \in D THEN step[i][G[next[i]]] ELSE base[i]
    <2>1. PICK C \in SUBSET E, g \in [E -> V] : i \in C /\ Part(C, g)
      OBVIOUS
    <2>2. \A j \in C : j \in P /\ G[j] = g[j]
      <3> HIDE DEF Part, P, G
      <3>1. QED BY <2>1, <1>3
    <2>3. i \in D => next[i] \in C
      BY <2>1 DEF Partly
    <2>4. g[i] = IF i \in D THEN step[i][g[next[i]]] ELSE base[i]
      BY <2>1 DEF Partly
    <2> HIDE DEF G, P
    <2>5. QED BY <2>1, <2>2, <2>3, <2>4
  <1>6. ASSUME NEW i \in E, i \in D => next[i] \in P PROVE i \in P
    <2> DEFINE C == P \cup {i}
               h == [j \in E |-> IF j \in P THEN G[j] ELSE IF i \in D THEN step[i][G[next[i]]] ELSE base[i]]
    <2>1. CASE i \in P
      BY <2>1
    <2>2. CASE i \notin P
      <3>1. C \in SUBSET E /\ i \in C
        OBVIOUS
      <3>2. \A j \in C \cap D : next[j] \in P /\ next[j] # i
        <4> HIDE DEF P, G
        <4>1. QED BY <1>1, <1>5, <1>6, <2>2
      <3>3. h \in [E -> V]
        <4>1. i \in D => step[i][G[next[i]]] \in V
          <5> HIDE DEF G
          <5>1. QED BY <1>1, <1>4
        <4> HIDE DEF G, P
        <4>2. QED BY <1>4, <4>1
      <3>4. \A j \in P : h[j] = G[j]
        OBVIOUS
      <3>5. h[i] = IF i \in D THEN step[i][G[next[i]]] ELSE base[i]
        BY <2>2
      <3>6. ASSUME NEW j \in C PROVE h[j] = IF j \in D THEN step[j][h[next[j]]] ELSE base[j]
        <4>1. CASE j = i
          <5>1. i \in D => h[next[i]] = G[next[i]]
            BY <3>4, <1>6
          <5> HIDE DEF h, G, P
          <5>2. QED BY <4>1, <5>1, <3>5
        <4>2. CASE j \in P
          <5>1. h[j] = G[j] /\ (j \in D => h[next[j]] = G[next[j]])
            BY <3>4, <4>2, <1>5
          <5>2. G[j] = IF j \in D THEN step[j][G[next[j]]] ELSE base[j]
            BY <4>2, <1>5
          <5> HIDE DEF h, G, P
          <5>3. QED BY <5>1, <5>2
        <4>3. QED BY <4>1, <4>2
      <3> HIDE DEF h, G, P
      <3>7. Part(C, h)
        BY <3>1, <3>2, <3>3, <3>6 DEF Partly
      <3> HIDE DEF Part, C
      <3>8. QED BY <3>1, <3>3, <3>7 DEF P
    <2>3. QED BY <2>1, <2>2
  <1>7. P = E
    <2> DEFINE S == D \ P
    <2>1. S \in SUBSET D
      OBVIOUS
    <2>2. \A i \in E \ D : i \in P
      BY <1>6
    <2> HIDE DEF P
    <2>3. ASSUME S # {} PROVE FALSE
      <3>1. PICK i \in S : next[i] \notin S
        BY <1>1, <2>1, <2>3 DEF Grounded
      <3>2. next[i] \in E /\ next[i] \in P
        BY <1>1, <3>1, <2>2
      <3>3. i \in E /\ i \notin P /\ i \in D
        BY <1>1, <3>1
      <3>4. QED BY <3>2, <3>3, <1>6
    <2>4. P \subseteq E
      BY DEF P
    <2>5. QED BY <2>2, <2>3, <2>4
  <1> HIDE DEF P, G
  <1>8. \A i \in E : G[i] = IF i \in D THEN step[i][G[next[i]]] ELSE base[i]
    BY <1>5, <1>7
  <1>9. QED BY <1>4, <1>8 DEF Along

-----------------------------------------------------------------------------
(* Counting up, and what Only keeps of a sequence. *)

\* counting up to n falls
LEMMA CountingFalls ==
  ASSUME NEW n \in Nat
  PROVE  Falls(1 .. n, 0 .. n, [i \in 1 .. n |-> i - 1])
  <1> DEFINE next == [i \in 1 .. n |-> i - 1]
  <1>1. next \in [1 .. n -> 0 .. n]
    OBVIOUS
  <1>2. ASSUME NEW S \in SUBSET (1 .. n), S # {} PROVE \E i \in S : next[i] \notin S
    <2>1. S \subseteq Nat
      OBVIOUS
    <2>2. PICK i \in S : \A j \in S : i <= j
      BY <1>2, <2>1, LeastNumber
    <2>3. next[i] = i - 1 /\ i \in Int
      OBVIOUS
    <2>4. QED BY <2>2, <2>3
  <1>3. QED BY <1>1, <1>2 DEF Falls, Grounded

\* g is b at 0, and step[i] of what it is at i - 1 at i
CountsUp(n, V, b, step, g) ==
  /\ g \in [0 .. n -> V]
  /\ g[0] = b
  /\ \A i \in 1 .. n : g[i] = step[i][g[i - 1]]

\* there is a function that counts up so
LEMMA CountedUp ==
  ASSUME NEW n \in Nat, NEW V, NEW b \in V, NEW step \in [1 .. n -> [V -> V]]
  PROVE  \E g : CountsUp(n, V, b, step, g)
  <1> DEFINE D == 1 .. n
             E == 0 .. n
             next == [i \in 1 .. n |-> i - 1]
             base == [i \in 0 .. n |-> b]
  <1>1. base \in [E -> V] /\ step \in [D -> [V -> V]]
    OBVIOUS
  <1>2. PICK g \in [E -> V] : Along(D, E, next, base, step, g)
    <2>1. Falls(D, E, next)
      BY CountingFalls
    <2> HIDE DEF next, base, D, E
    <2>2. QED BY <1>1, <2>1, AlongExists
  <1>3. g[0] = b
    BY <1>2 DEF Along
  <1>4. ASSUME NEW i \in 1 .. n PROVE g[i] = step[i][g[i - 1]]
    <2>1. g[i] = step[i][g[next[i]]] /\ next[i] = i - 1
      BY <1>2 DEF Along
    <2>2. QED BY <2>1
  <1>5. QED BY <1>2, <1>3, <1>4 DEF CountsUp

\* what Only(s, S) computes is g
OnlyBy(X, s, S, g) ==
  /\ g \in [0 .. Len(s) -> Seq(X)]
  /\ g[0] = << >>
  /\ \A i \in 1 .. Len(s) : g[i] = IF s[i] \in S THEN Append(g[i - 1], s[i]) ELSE g[i - 1]
  /\ Only(s, S) = g[Len(s)]

\* it computes something
LEMMA OnlyUnfolds ==
  ASSUME NEW X, NEW s \in Seq(X), NEW S
  PROVE  \E g : OnlyBy(X, s, S, g)
  <1> DEFINE n == Len(s)
             F(g) == [i \in 0 .. n |-> IF i = 0 THEN << >>
                        ELSE IF s[i] \in S THEN Append(g[i - 1], s[i]) ELSE g[i - 1]]
             step == [i \in 1 .. n |-> [o \in Seq(X) |-> IF s[i] \in S THEN Append(o, s[i]) ELSE o]]
  <1>1. n \in Nat /\ \A i \in 1 .. n : s[i] \in X
    OBVIOUS
  <1>2. step \in [1 .. n -> [Seq(X) -> Seq(X)]]
    <2>1. ASSUME NEW i \in 1 .. n, NEW o \in Seq(X)
          PROVE  (IF s[i] \in S THEN Append(o, s[i]) ELSE o) \in Seq(X)
      <3>1. s[i] \in X
        BY <1>1
      <3>2. Append(o, s[i]) \in Seq(X)
        BY <3>1
      <3>3. QED BY <3>2
    <2>2. QED BY <2>1
  <1>3. << >> \in Seq(X)
    OBVIOUS
  <1> DEFINE V == Seq(X)
             none == << >>
  <1>4. PICK g : CountsUp(n, V, none, step, g)
    <2> HIDE DEF n, step, V, none
    <2>1. QED BY <1>1, <1>2, <1>3, CountedUp DEF V, none
  <1>5. \A i \in 1 .. n : g[i] = IF s[i] \in S THEN Append(g[i - 1], s[i]) ELSE g[i - 1]
    <2>1. \A i \in 1 .. n : i - 1 \in 0 .. n
      BY <1>1
    <2>2. \A i \in 1 .. n : g[i - 1] \in Seq(X)
      BY <1>4, <2>1 DEF CountsUp
    <2>3. QED BY <1>4, <2>2 DEF CountsUp
  <1>6. g = F(g)
    <2>1. \A i \in 0 .. n : i # 0 => i \in 1 .. n
      BY <1>1
    <2>2. \A i \in 0 .. n : g[i] = F(g)[i]
      BY <1>4, <1>5, <2>1 DEF CountsUp
    <2>3. g = [i \in 0 .. n |-> g[i]]
      BY <1>4 DEF CountsUp
    <2>4. QED BY <2>2, <2>3
  <1>7. ASSUME NEW h, h = F(h) PROVE h[n] = g[n]
    <2>1. h[0] = << >> /\ \A i \in 1 .. n : h[i] = IF s[i] \in S THEN Append(h[i - 1], s[i]) ELSE h[i - 1]
      <3>1. \A i \in 0 .. n : h[i] = F(h)[i]
        BY <1>7
      <3>2. 0 \in 0 .. n /\ \A i \in 1 .. n : i \in 0 .. n /\ i # 0
        BY <1>1
      <3>3. QED BY <3>1, <3>2
    <2> DEFINE T == {i \in 0 .. n : h[i] # g[i]}
    <2>2. T \subseteq Nat
      OBVIOUS
    <2>3. ASSUME T # {} PROVE FALSE
      <3>1. PICK i \in T : \A j \in T : i <= j
        BY <2>2, <2>3, LeastNumber
      <3>2. i # 0
        BY <1>4, <2>1 DEF CountsUp
      <3>3. i \in 1 .. n /\ i - 1 \in 0 .. n /\ ~(i <= i - 1)
        BY <3>2, <1>1
      <3>4. h[i - 1] = g[i - 1]
        BY <3>1, <3>3
      <3>5. h[i] = g[i]
        BY <2>1, <1>5, <3>3, <3>4
      <3>6. QED BY <3>5
    <2>4. QED BY <2>3, <1>1
  <1>8. Only(s, S) = g[n]
    <2> DEFINE c == CHOOSE h : h = F(h)
    <2>1. c = F(c)
      BY <1>6
    <2>2. Only(s, S) = c[n]
      BY Zenon DEF Only
    <2> HIDE DEF c, F
    <2>3. QED BY <1>7, <2>1, <2>2
  <1>9. QED BY <1>4, <1>5, <1>8 DEF CountsUp, OnlyBy

\* o takes the elements of s that are in S, f being where from
PicksBy(o, s, S, f) ==
  /\ f \in [1 .. Len(o) -> 1 .. Len(s)]
  /\ \A k \in 1 .. Len(o) : o[k] = s[f[k]] /\ o[k] \in S
  /\ \A j, k \in 1 .. Len(o) : j < k => f[j] < f[k]
  /\ \A j \in 1 .. Len(s) : s[j] \in S => \E k \in 1 .. Len(o) : f[k] = j

\* Only takes the elements in S, each once and in order
LEMMA OnlyPicks ==
  ASSUME NEW X, NEW s \in Seq(X), NEW S
  PROVE  /\ Only(s, S) \in Seq(X)
         /\ \E f : PicksBy(Only(s, S), s, S, f)
  <1> DEFINE n == Len(s)
             Upto(i, o, f) == /\ f \in [1 .. Len(o) -> 1 .. i]
                              /\ \A k \in 1 .. Len(o) : o[k] = s[f[k]] /\ o[k] \in S
                              /\ \A j, k \in 1 .. Len(o) : j < k => f[j] < f[k]
                              /\ \A j \in 1 .. i : s[j] \in S => \E k \in 1 .. Len(o) : f[k] = j
  <1>0. PICK g : OnlyBy(X, s, S, g)
    BY OnlyUnfolds
  <1>1. /\ g \in [0 .. n -> Seq(X)]
        /\ g[0] = << >>
        /\ \A i \in 1 .. n : g[i] = IF s[i] \in S THEN Append(g[i - 1], s[i]) ELSE g[i - 1]
        /\ Only(s, S) = g[n]
    BY <1>0 DEF OnlyBy
  <1>2. n \in Nat /\ \A i \in 1 .. n : s[i] \in X
    OBVIOUS
  <1>3. \E f : Upto(0, g[0], f)
    <2>1. Upto(0, << >>, << >>)
      OBVIOUS
    <2>2. g[0] = << >>
      BY <1>1
    <2> HIDE DEF Upto
    <2>3. QED BY <2>1, <2>2
  <1>4. ASSUME NEW i \in 1 .. n, NEW f, Upto(i - 1, g[i - 1], f)
        PROVE  \E h : Upto(i, g[i], h)
    <2> DEFINE o == g[i - 1]
               l == Len(o)
    <2>1. i - 1 \in 0 .. n /\ i \in Int /\ i - 1 \in Int
      BY <1>2
    <2>2. o \in Seq(X) /\ l \in Nat
      <3>1. o \in Seq(X)
        BY <1>1, <2>1
      <3>2. QED BY <3>1
    <2>3. g[i] = IF s[i] \in S THEN Append(o, s[i]) ELSE o
      BY <1>1
    <2>4. /\ f \in [1 .. l -> 1 .. i - 1]
          /\ \A k \in 1 .. l : o[k] = s[f[k]] /\ o[k] \in S
          /\ \A j, k \in 1 .. l : j < k => f[j] < f[k]
          /\ \A j \in 1 .. i - 1 : s[j] \in S => \E k \in 1 .. l : f[k] = j
      BY <1>4
    <2>5. CASE s[i] \notin S
      <3>1. f \in [1 .. l -> 1 .. i]
        <4> HIDE DEF l
        <4>1. \A k \in 1 .. l : f[k] \in 1 .. i - 1
          BY <2>4
        <4>2. \A k \in 1 .. l : f[k] \in 1 .. i
          BY <2>1, <4>1
        <4>3. QED BY <2>4, <4>2
      <3>2. ASSUME NEW j \in 1 .. i, s[j] \in S PROVE \E k \in 1 .. l : f[k] = j
        <4>1. j # i
          BY <2>5, <3>2
        <4>2. j \in 1 .. i - 1
          BY <2>1, <4>1
        <4>3. QED BY <2>4, <3>2, <4>2
      <3>3. g[i] = o
        BY <2>3, <2>5
      <3> HIDE DEF o
      <3>4. Upto(i, o, f)
        BY <3>1, <3>2, <2>4
      <3>5. QED BY <3>3, <3>4
    <2>6. CASE s[i] \in S
      <3> DEFINE q == Append(o, s[i])
                 h == [k \in 1 .. l + 1 |-> IF k = l + 1 THEN i ELSE f[k]]
      <3>1. g[i] = q
        BY <2>3, <2>6
      <3>2. q \in Seq(X) /\ Len(q) = l + 1 /\ q[l + 1] = s[i] /\ \A k \in 1 .. l : q[k] = o[k]
        <4>1. s[i] \in X
          BY <1>2
        <4> HIDE DEF o
        <4>2. QED BY <2>2, <4>1
      <3>3. \A k \in 1 .. l + 1 : k # l + 1 => k \in 1 .. l
        BY <2>2
      <3>4. \A k \in 1 .. l : h[k] = f[k] /\ f[k] \in 1 .. i - 1 /\ k \in 1 .. l + 1
        <4> HIDE DEF l
        <4>1. \A k \in 1 .. l : k \in 1 .. l + 1 /\ k # l + 1
          BY <2>2
        <4>2. QED BY <4>1, <2>4
      <3>5. h[l + 1] = i /\ l + 1 \in 1 .. l + 1
        <4> HIDE DEF l
        <4>1. QED BY <2>2
      <3>6. h \in [1 .. l + 1 -> 1 .. i]
        <4> HIDE DEF l
        <4>1. ASSUME NEW k \in 1 .. l + 1 PROVE (IF k = l + 1 THEN i ELSE f[k]) \in 1 .. i
          <5>1. CASE k = l + 1
            BY <5>1, <2>1
          <5>2. CASE k # l + 1
            <6>1. f[k] \in 1 .. i - 1
              BY <5>2, <3>3, <3>4
            <6>2. QED BY <5>2, <6>1, <2>1
          <5>3. QED BY <5>1, <5>2
        <4>2. QED BY <4>1
      <3>7. \A k \in 1 .. l + 1 : q[k] = s[h[k]] /\ q[k] \in S
        <4> HIDE DEF l, o, q, h
        <4>1. QED BY <2>4, <2>6, <3>2, <3>3, <3>4, <3>5
      <3>8. ASSUME NEW j \in 1 .. l + 1, NEW k \in 1 .. l + 1, j < k PROVE h[j] < h[k]
        <4> HIDE DEF l, o, q, h
        <4>1. j \in 1 .. l
          BY <3>8, <2>2
        <4>2. CASE k = l + 1
          BY <4>1, <4>2, <3>4, <3>5, <2>1
        <4>3. CASE k # l + 1
          BY <4>1, <4>3, <3>3, <3>4, <2>4, <3>8
        <4>4. QED BY <4>2, <4>3
      <3>9. ASSUME NEW j \in 1 .. i, s[j] \in S PROVE \E k \in 1 .. l + 1 : h[k] = j
        <4> HIDE DEF l, o, q, h
        <4>1. CASE j = i
          BY <4>1, <3>5
        <4>2. CASE j # i
          <5>1. j \in 1 .. i - 1
            BY <4>2, <2>1
          <5>2. QED BY <5>1, <3>9, <2>4, <3>4
        <4>3. QED BY <4>1, <4>2
      <3> HIDE DEF q, h, l, o
      <3>10. Upto(i, q, h)
        BY <3>2, <3>6, <3>7, <3>8, <3>9
      <3>11. QED BY <3>1, <3>10
    <2>7. QED BY <2>5, <2>6
  <1> DEFINE T == {i \in 0 .. n : ~ \E f : Upto(i, g[i], f)}
  <1>5. T = {}
    <2>1. T \subseteq Nat
      OBVIOUS
    <2> HIDE DEF Upto
    <2>2. ASSUME T # {} PROVE FALSE
      <3>1. PICK i \in T : \A j \in T : i <= j
        BY <2>1, <2>2, LeastNumber
      <3>2. i # 0
        BY <1>3
      <3>3. i \in 1 .. n /\ i - 1 \in 0 .. n /\ ~(i <= i - 1)
        BY <3>2, <1>2
      <3>4. \E f : Upto(i - 1, g[i - 1], f)
        BY <3>1, <3>3
      <3>5. QED BY <3>3, <3>4, <1>4
    <2>3. QED BY <2>2
  <1>6. PICK f : Upto(n, g[n], f)
    <2> HIDE DEF Upto
    <2>1. QED BY <1>5, <1>2
  <1>7. PicksBy(Only(s, S), s, S, f)
    BY <1>1, <1>6 DEF PicksBy
  <1>8. Only(s, S) \in Seq(X)
    BY <1>1, <1>2
  <1>9. QED BY <1>7, <1>8

\* s holds nothing twice
Once(s) == \A i, j \in 1 .. Len(s) : s[i] = s[j] => i = j

\* the indices of a sequence
LEMMA ElementHeld ==
  ASSUME NEW X, NEW s \in Seq(X)
  PROVE  /\ DOMAIN s = 1 .. Len(s) /\ Len(s) \in Nat
         /\ ToSet(s) = {s[i] : i \in 1 .. Len(s)}
         /\ ToSet(s) \subseteq X
         /\ \A x : x \in ToSet(s) <=> \E i \in 1 .. Len(s) : s[i] = x
  <1>1. DOMAIN s = 1 .. Len(s) /\ Len(s) \in Nat /\ \A i \in 1 .. Len(s) : s[i] \in X
    OBVIOUS
  <1>2. ToSet(s) = {s[i] : i \in 1 .. Len(s)}
    BY <1>1 DEF ToSet
  <1>3. QED BY <1>1, <1>2

\* as many as there are places, if nothing is held twice
LEMMA OnceCounted ==
  ASSUME NEW X, NEW s \in Seq(X), Once(s)
  PROVE  IsFiniteSet(ToSet(s)) /\ Cardinality(ToSet(s)) = Len(s)
  <1> DEFINE n == Len(s)
             T == ToSet(s)
  <1>1. n \in Nat /\ T = {s[i] : i \in 1 .. n}
    BY ElementHeld
  <1>2. s \in [1 .. n -> T]
    BY <1>1
  <1>3. \A x \in T : \E i \in 1 .. n : s[i] = x
    BY <1>1
  <1>4. \A i, j \in 1 .. n : s[i] = s[j] => i = j
    BY DEF Once
  <1>5. s \in Bijection(1 .. n, T)
    <2> HIDE DEF n, T
    <2>1. QED BY <1>2, <1>3, <1>4, Fun_IsBij
  <1>6. ExistsBijection(1 .. n, T)
    BY <1>5 DEF ExistsBijection
  <1>7. IsFiniteSet(T)
    <2> HIDE DEF n, T
    <2>1. QED BY <1>1, <1>6, FS_NatBijection
  <1>8. Cardinality(T) = n
    <2> HIDE DEF n, T
    <2>1. QED BY <1>1, <1>6, FS_CountingElements
  <1>9. QED BY <1>7, <1>8

=============================================================================
