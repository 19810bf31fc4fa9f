---------------------------- MODULE TablesProofs ----------------------------
(***************************************************************************)
(* Proofs about Symbols and HashTable: vectors of lists, of symbols under  *)
(* the hash of their names, of gensyms under that of their unique strings  *)
(* and of buckets under the addresses of their keys.  The first part is    *)
(* about such vectors, whatever they hold; then come the symbols, the      *)
(* gensyms and the hash tables, each with its inductive invariant.         *)
(***************************************************************************)
EXTENDS Symbols, HashTable, SequenceFacts, FiniteSetTheorems, FunctionTheorems, TLAPS

-----------------------------------------------------------------------------
(* Lists that hold nothing twice *)

\* a sequence that holds nothing is empty
LEMMA HoldsNothing ==
  ASSUME NEW X, NEW s \in Seq(X)
  PROVE  ToSet(s) = {} <=> s = << >>
  <1>1. Len(s) \in Nat /\ \A x : x \in ToSet(s) <=> \E i \in 1 .. Len(s) : s[i] = x
    BY ElementHeld
  <1>2. ASSUME s # << >> PROVE ToSet(s) # {}
    <2>1. 1 \in 1 .. Len(s)
      BY <1>2
    <2>2. QED BY <1>1, <2>1
  <1>3. ASSUME s = << >> PROVE ToSet(s) = {}
    <2>1. Len(s) = 0
      BY <1>3
    <2>2. QED BY <1>1, <2>1
  <1>4. QED BY <1>2, <1>3

\* and one that holds x alone, once, is <<x>>
LEMMA HoldsOne ==
  ASSUME NEW X, NEW s \in Seq(X), NEW x, Once(s), ToSet(s) = {x}
  PROVE  s = <<x>>
  <1>1. Len(s) \in Nat /\ \A y : y \in {x} <=> \E i \in 1 .. Len(s) : s[i] = y
    BY ElementHeld
  <1>2. PICK i \in 1 .. Len(s) : s[i] = x
    BY <1>1
  <1>3. Len(s) >= 1
    BY <1>1, <1>2
  <1>4. ASSUME Len(s) >= 2 PROVE FALSE
    <2>1. 1 \in 1 .. Len(s) /\ 2 \in 1 .. Len(s)
      BY <1>1, <1>4
    <2>2. s[1] = x /\ s[2] = x
      BY <1>1, <2>1
    <2>3. QED BY <2>1, <2>2 DEF Once
  <1>5. Len(s) = 1
    <2>1. PICK n \in Nat : n = Len(s)
      BY <1>1
    <2>2. ~(n >= 2) /\ n >= 1
      BY <1>3, <1>4, <2>1
    <2>3. n = 1
      BY <2>2
    <2>4. QED BY <2>1, <2>3
  <1>6. s[1] = x
    BY <1>2, <1>5
  <1>7. QED BY <1>5, <1>6

\* what Only leaves
LEMMA OnlyHolds ==
  ASSUME NEW X, NEW s \in Seq(X), NEW S
  PROVE  /\ Only(s, S) \in Seq(X)
         /\ ToSet(Only(s, S)) = ToSet(s) \cap S
         /\ Once(s) => Once(Only(s, S))
  <1> DEFINE o == Only(s, S)
  <1>1. o \in Seq(X)
    BY OnlyPicks
  <1>2. PICK f : PicksBy(o, s, S, f)
    BY OnlyPicks
  <1> HIDE DEF o
  <1>3. /\ Len(o) \in Nat /\ Len(s) \in Nat
        /\ f \in [1 .. Len(o) -> 1 .. Len(s)]
        /\ \A k \in 1 .. Len(o) : o[k] = s[f[k]] /\ o[k] \in S
        /\ \A j, k \in 1 .. Len(o) : j < k => f[j] < f[k]
        /\ \A j \in 1 .. Len(s) : s[j] \in S => \E k \in 1 .. Len(o) : f[k] = j
    BY <1>1, <1>2 DEF PicksBy
  <1>4. /\ \A x : x \in ToSet(o) <=> \E i \in 1 .. Len(o) : o[i] = x
        /\ \A x : x \in ToSet(s) <=> \E i \in 1 .. Len(s) : s[i] = x
    BY <1>1, ElementHeld
  <1>5. ToSet(o) = ToSet(s) \cap S
    <2>1. ASSUME NEW x \in ToSet(o) PROVE x \in ToSet(s) \cap S
      <3>1. PICK i \in 1 .. Len(o) : o[i] = x
        BY <1>4
      <3>2. f[i] \in 1 .. Len(s) /\ x = s[f[i]] /\ x \in S
        BY <1>3, <3>1
      <3>3. QED BY <1>4, <3>2
    <2>2. ASSUME NEW x \in ToSet(s) \cap S PROVE x \in ToSet(o)
      <3>1. PICK j \in 1 .. Len(s) : s[j] = x
        BY <1>4
      <3>2. PICK k \in 1 .. Len(o) : f[k] = j
        BY <1>3, <3>1
      <3>3. o[k] = x
        BY <1>3, <3>1, <3>2
      <3>4. QED BY <1>4, <3>3
    <2>3. QED BY <2>1, <2>2
  <1>6. ASSUME Once(s) PROVE Once(o)
    <2>1. ASSUME NEW j \in 1 .. Len(o), NEW k \in 1 .. Len(o), o[j] = o[k] PROVE j = k
      <3>1. f[j] \in 1 .. Len(s) /\ f[k] \in 1 .. Len(s) /\ s[f[j]] = s[f[k]]
        BY <1>3, <2>1
      <3>2. f[j] = f[k]
        BY <1>6, <3>1 DEF Once
      <3>3. ~(j < k) /\ ~(k < j)
        BY <1>3, <3>1, <3>2
      <3>4. j \in Int /\ k \in Int
        OBVIOUS
      <3>5. QED BY <3>3, <3>4
    <2>2. QED BY <2>1 DEF Once
  <1>7. QED BY <1>1, <1>5, <1>6 DEF o

\* one more in front
LEMMA PutOnce ==
  ASSUME NEW X, NEW s \in Seq(X), NEW x \in X
  PROVE  /\ <<x>> \o s \in Seq(X) /\ ToSet(<<x>> \o s) = ToSet(s) \cup {x}
         /\ Once(s) /\ x \notin ToSet(s) => Once(<<x>> \o s)
  <1> DEFINE t == <<x>> \o s
  <1>1. /\ t \in Seq(X) /\ Len(t) = Len(s) + 1 /\ t[1] = x
        /\ \A i \in 1 .. Len(s) : t[i + 1] = s[i]
    BY ConsFacts
  <1> HIDE DEF t
  <1>2. /\ Len(s) \in Nat /\ Len(t) \in Nat
        /\ \A y : y \in ToSet(t) <=> \E i \in 1 .. Len(t) : t[i] = y
        /\ \A y : y \in ToSet(s) <=> \E i \in 1 .. Len(s) : s[i] = y
    BY <1>1, ElementHeld
  <1>3. ASSUME NEW i \in 1 .. Len(t) PROVE i = 1 \/ (i - 1 \in 1 .. Len(s) /\ t[i] = s[i - 1])
    <2>1. i = 1 \/ i - 1 \in 1 .. Len(s)
      BY <1>1, <1>2
    <2>2. ASSUME i - 1 \in 1 .. Len(s) PROVE t[i] = s[i - 1]
      <3>1. t[(i - 1) + 1] = s[i - 1]
        BY <1>1, <2>2
      <3>2. (i - 1) + 1 = i
        OBVIOUS
      <3>3. QED BY <3>1, <3>2
    <2>3. QED BY <2>1, <2>2
  <1>4. 1 \in 1 .. Len(t) /\ \A i \in 1 .. Len(s) : i + 1 \in 1 .. Len(t)
    BY <1>1, <1>2
  <1>5. ToSet(t) = ToSet(s) \cup {x}
    <2>1. ASSUME NEW y \in ToSet(t) PROVE y \in ToSet(s) \cup {x}
      <3>1. PICK i \in 1 .. Len(t) : t[i] = y
        BY <1>2
      <3>2. QED BY <3>1, <1>1, <1>2, <1>3
    <2>2. ASSUME NEW y \in ToSet(s) \cup {x} PROVE y \in ToSet(t)
      <3>1. CASE y = x
        BY <3>1, <1>1, <1>2, <1>4
      <3>2. CASE y \in ToSet(s)
        BY <3>2, <1>1, <1>2, <1>4
      <3>3. QED BY <3>1, <3>2
    <2>3. QED BY <2>1, <2>2
  <1>6. ASSUME Once(s), x \notin ToSet(s) PROVE Once(t)
    <2>1. ASSUME NEW i \in 1 .. Len(t), NEW j \in 1 .. Len(t), t[i] = t[j] PROVE i = j
      <3>1. CASE i = 1 /\ j # 1
        <4>1. j - 1 \in 1 .. Len(s) /\ s[j - 1] = x
          BY <3>1, <2>1, <1>1, <1>3
        <4>2. QED BY <4>1, <1>2, <1>6
      <3>2. CASE j = 1 /\ i # 1
        <4>1. i - 1 \in 1 .. Len(s) /\ s[i - 1] = x
          BY <3>2, <2>1, <1>1, <1>3
        <4>2. QED BY <4>1, <1>2, <1>6
      <3>3. CASE i # 1 /\ j # 1
        <4>1. i - 1 \in 1 .. Len(s) /\ j - 1 \in 1 .. Len(s) /\ s[i - 1] = s[j - 1]
          BY <3>3, <2>1, <1>3
        <4>2. i - 1 = j - 1
          BY <4>1, <1>6 DEF Once
        <4>3. i \in Int /\ j \in Int
          OBVIOUS
        <4>4. QED BY <4>2, <4>3
      <3>4. QED BY <3>1, <3>2, <3>3
    <2>2. QED BY <2>1 DEF Once
  <1>7. QED BY <1>1, <1>5, <1>6 DEF t

\* one sequence after another
LEMMA JoinOnce ==
  ASSUME NEW X, NEW s \in Seq(X), NEW t \in Seq(X)
  PROVE  /\ s \o t \in Seq(X) /\ ToSet(s \o t) = ToSet(s) \cup ToSet(t)
         /\ Once(s) /\ Once(t) /\ ToSet(s) \cap ToSet(t) = {} => Once(s \o t)
  <1> DEFINE u == s \o t
  <1>1. /\ u \in Seq(X) /\ Len(u) = Len(s) + Len(t)
        /\ \A i \in 1 .. Len(s) : u[i] = s[i]
        /\ \A i \in 1 .. Len(t) : u[Len(s) + i] = t[i]
    <2>1. Len(s) \in Nat /\ Len(t) \in Nat
      OBVIOUS
    <2>2. /\ u \in Seq(X) /\ Len(u) = Len(s) + Len(t)
          /\ \A i \in 1 .. Len(s) + Len(t) : u[i] = IF i <= Len(s) THEN s[i] ELSE t[i - Len(s)]
      BY ConcatProperties
    <2>3. ASSUME NEW i \in 1 .. Len(s) PROVE u[i] = s[i]
      <3>1. i \in 1 .. Len(s) + Len(t) /\ i <= Len(s)
        BY <2>1
      <3>2. QED BY <2>2, <3>1
    <2>4. ASSUME NEW i \in 1 .. Len(t) PROVE u[Len(s) + i] = t[i]
      <3>1. Len(s) + i \in 1 .. Len(s) + Len(t) /\ ~(Len(s) + i <= Len(s)) /\ Len(s) + i - Len(s) = i
        BY <2>1
      <3>2. u[Len(s) + i] = t[Len(s) + i - Len(s)]
        BY <2>2, <3>1
      <3>3. QED BY <3>1, <3>2
    <2>5. QED BY <2>2, <2>3, <2>4
  <1> HIDE DEF u
  <1>2. /\ Len(s) \in Nat /\ Len(t) \in Nat /\ Len(u) \in Nat
        /\ \A y : y \in ToSet(u) <=> \E i \in 1 .. Len(u) : u[i] = y
        /\ \A y : y \in ToSet(s) <=> \E i \in 1 .. Len(s) : s[i] = y
        /\ \A y : y \in ToSet(t) <=> \E i \in 1 .. Len(t) : t[i] = y
    BY <1>1, ElementHeld
  <1>3. ASSUME NEW i \in 1 .. Len(u)
        PROVE  \/ i \in 1 .. Len(s) /\ u[i] = s[i]
               \/ i - Len(s) \in 1 .. Len(t) /\ u[i] = t[i - Len(s)]
    <2>1. CASE i <= Len(s)
      <3>1. i \in 1 .. Len(s)
        BY <2>1, <1>2
      <3>2. QED BY <3>1, <1>1
    <2>2. CASE ~(i <= Len(s))
      <3>1. i - Len(s) \in 1 .. Len(t) /\ Len(s) + (i - Len(s)) = i
        BY <2>2, <1>1, <1>2
      <3>2. u[Len(s) + (i - Len(s))] = t[i - Len(s)]
        BY <3>1, <1>1
      <3>3. QED BY <3>1, <3>2
    <2>3. QED BY <2>1, <2>2
  <1>4. /\ \A i \in 1 .. Len(s) : i \in 1 .. Len(u)
        /\ \A i \in 1 .. Len(t) : Len(s) + i \in 1 .. Len(u)
    BY <1>1, <1>2
  <1>5. ToSet(u) = ToSet(s) \cup ToSet(t)
    <2>1. ASSUME NEW y \in ToSet(u) PROVE y \in ToSet(s) \cup ToSet(t)
      <3>1. PICK i \in 1 .. Len(u) : u[i] = y
        BY <1>2
      <3>2. QED BY <3>1, <1>2, <1>3
    <2>2. ASSUME NEW y \in ToSet(s) \cup ToSet(t) PROVE y \in ToSet(u)
      <3>1. CASE y \in ToSet(s)
        BY <3>1, <1>1, <1>2, <1>4
      <3>2. CASE y \in ToSet(t)
        BY <3>2, <1>1, <1>2, <1>4
      <3>3. QED BY <3>1, <3>2
    <2>3. QED BY <2>1, <2>2
  <1>6. ASSUME Once(s), Once(t), ToSet(s) \cap ToSet(t) = {} PROVE Once(u)
    <2>1. ASSUME NEW i \in 1 .. Len(u), NEW j \in 1 .. Len(u), u[i] = u[j] PROVE i = j
      <3> DEFINE k == i - Len(s)
                 l == j - Len(s)
      <3>1. i \in Int /\ j \in Int /\ Len(s) \in Int
        BY <1>2
      <3>2. CASE i \in 1 .. Len(s) /\ u[i] = s[i] /\ j \in 1 .. Len(s) /\ u[j] = s[j]
        BY <3>2, <2>1, <1>6 DEF Once
      <3>3. CASE k \in 1 .. Len(t) /\ u[i] = t[k] /\ l \in 1 .. Len(t) /\ u[j] = t[l]
        <4>1. k = l
          BY <3>3, <2>1, <1>6 DEF Once
        <4>2. QED BY <4>1, <3>1
      <3>4. CASE i \in 1 .. Len(s) /\ u[i] = s[i] /\ l \in 1 .. Len(t) /\ u[j] = t[l]
        <4> HIDE DEF l
        <4>1. u[i] \in ToSet(s) /\ u[i] \in ToSet(t)
          BY <3>4, <2>1, <1>2
        <4>2. QED BY <4>1, <1>6
      <3>5. CASE j \in 1 .. Len(s) /\ u[j] = s[j] /\ k \in 1 .. Len(t) /\ u[i] = t[k]
        <4> HIDE DEF k
        <4>1. u[j] \in ToSet(s) /\ u[j] \in ToSet(t)
          BY <3>5, <2>1, <1>2
        <4>2. QED BY <4>1, <1>6
      <3>6. QED BY <1>3, <3>2, <3>3, <3>4, <3>5
    <2>2. QED BY <2>1 DEF Once
  <1>7. QED BY <1>1, <1>5, <1>6 DEF u

\* all but the first
LEMMA TailOnce ==
  ASSUME NEW X, NEW s \in Seq(X), s # << >>, Once(s)
  PROVE  /\ Tail(s) \in Seq(X) /\ Once(Tail(s)) /\ Head(s) \in X
         /\ ToSet(s) = ToSet(Tail(s)) \cup {Head(s)} /\ Head(s) \notin ToSet(Tail(s))
         /\ Len(Tail(s)) = Len(s) - 1 /\ Len(s) \in Nat
  <1>1. /\ Head(s) \in X /\ Head(s) = s[1] /\ Tail(s) \in Seq(X)
        /\ s = <<Head(s)>> \o Tail(s)
        /\ Len(Tail(s)) = Len(s) - 1 /\ Len(s) >= 1 /\ Len(s) \in Nat
    BY HeadBeforeTail
  <1> DEFINE t == Tail(s)
             x == Head(s)
  <1>2. t \in Seq(X) /\ x \in X /\ s = <<x>> \o t /\ s[1] = x /\ Len(t) = Len(s) - 1
    BY <1>1
  <1> HIDE DEF t, x
  <1>3. ToSet(s) = ToSet(t) \cup {x}
    BY <1>2, PutOnce
  <1>4. /\ Len(t) \in Nat /\ \A i \in 1 .. Len(t) : s[i + 1] = t[i]
    BY <1>2, ConsFacts
  <1>5. \A i \in 1 .. Len(t) : i + 1 \in 1 .. Len(s) /\ i \in Int
    BY <1>2, <1>4, <1>1
  <1>6. Once(t)
    <2>1. ASSUME NEW i \in 1 .. Len(t), NEW j \in 1 .. Len(t), t[i] = t[j] PROVE i = j
      <3>1. i + 1 = j + 1
        BY <1>4, <1>5, <2>1 DEF Once
      <3>2. QED BY <3>1, <1>5
    <2>2. QED BY <2>1 DEF Once
  <1>7. x \notin ToSet(t)
    <2>1. ASSUME x \in ToSet(t) PROVE FALSE
      <3>1. PICK i \in 1 .. Len(t) : t[i] = x
        BY <1>2, <2>1, ElementHeld
      <3>2. s[i + 1] = s[1] /\ 1 \in 1 .. Len(s)
        BY <1>1, <1>2, <1>4, <3>1
      <3>3. i + 1 = 1
        BY <1>5, <3>2 DEF Once
      <3>4. QED BY <3>3, <1>5
    <2>2. QED BY <2>1
  <1>8. QED BY <1>1, <1>3, <1>6, <1>7 DEF t, x

-----------------------------------------------------------------------------
(* Vectors of such lists *)

\* all that the lists of v hold
Elements(v) == UNION {ToSet(v[i]) : i \in DOMAIN v}
\* v is n lists over X that hold nothing twice, alone or together
Tidy(X, n, v) ==
  /\ n \in Nat \ {0} /\ v \in [0 .. n - 1 -> Seq(X)]
  /\ \A i \in 0 .. n - 1 : Once(v[i])
  /\ \A i, j \in 0 .. n - 1 : i # j => ToSet(v[i]) \cap ToSet(v[j]) = {}

\* the number of lists
LEMMA CountLists ==
  ASSUME NEW n \in Nat
  PROVE  Cardinality(0 .. n - 1) = n /\ IsFiniteSet(0 .. n - 1)
  <1>1. 0 \in Int /\ n - 1 \in Int
    OBVIOUS
  <1>2. Cardinality(0 .. n - 1) = (IF 0 > n - 1 THEN 0 ELSE n - 1 - 0 + 1) /\ IsFiniteSet(0 .. n - 1)
    BY <1>1, FS_Interval
  <1>3. QED BY <1>2

\* what Joined computes
JoinedBy(X, n, v, g) ==
  /\ g \in [0 .. n -> Seq(X)]
  /\ g[0] = << >>
  /\ \A i \in 1 .. n : g[i] = g[i - 1] \o v[i - 1]
  /\ Joined(v) = g[n]

\* it computes something
LEMMA JoinedUnfolds ==
  ASSUME NEW X, NEW n \in Nat, NEW v \in [0 .. n - 1 -> Seq(X)]
  PROVE  \E g : JoinedBy(X, n, v, g)
  <1> DEFINE F(g) == [i \in 0 .. n |-> IF i = 0 THEN << >> ELSE g[i - 1] \o v[i - 1]]
             step == [i \in 1 .. n |-> [o \in Seq(X) |-> o \o v[i - 1]]]
             V == Seq(X)
             none == << >>
  <1>1. \A i \in 1 .. n : i - 1 \in 0 .. n - 1 /\ i - 1 \in 0 .. n
    OBVIOUS
  <1>2. step \in [1 .. n -> [Seq(X) -> Seq(X)]]
    <2>1. ASSUME NEW i \in 1 .. n, NEW o \in Seq(X) PROVE o \o v[i - 1] \in Seq(X)
      <3>1. PICK w \in Seq(X) : w = v[i - 1]
        BY <1>1
      <3>2. o \o w \in Seq(X)
        OBVIOUS
      <3>3. QED BY <3>1, <3>2
    <2>2. QED BY <2>1
  <1>3. << >> \in Seq(X)
    OBVIOUS
  <1>4. PICK g : CountsUp(n, V, none, step, g)
    <2> HIDE DEF step, V, none
    <2>1. QED BY <1>2, <1>3, CountedUp DEF V, none
  <1>5. \A i \in 1 .. n : g[i] = g[i - 1] \o v[i - 1]
    <2>1. \A i \in 1 .. n : g[i - 1] \in Seq(X)
      BY <1>4, <1>1 DEF CountsUp
    <2>2. \A i \in 1 .. n : g[i] = step[i][g[i - 1]]
      BY <1>4 DEF CountsUp
    <2>3. QED BY <2>1, <2>2
  <1>6. g = F(g)
    <2>1. \A i \in 0 .. n : i # 0 => i \in 1 .. n
      OBVIOUS
    <2>2. \A i \in 0 .. n : g[i] = F(g)[i]
      BY <1>4, <1>5, <2>1 DEF CountsUp
    <2>3. g = [i \in 0 .. n |-> g[i]]
      BY <1>4 DEF CountsUp
    <2>4. QED BY <2>2, <2>3
  <1>7. ASSUME NEW h, h = F(h) PROVE h[n] = g[n]
    <2>1. h[0] = << >> /\ \A i \in 1 .. n : h[i] = h[i - 1] \o v[i - 1]
      <3>1. \A i \in 0 .. n : h[i] = F(h)[i]
        BY <1>7
      <3>2. 0 \in 0 .. n /\ \A i \in 1 .. n : i \in 0 .. n /\ i # 0
        OBVIOUS
      <3>3. QED BY <3>1, <3>2
    <2> DEFINE T == {i \in 0 .. n : h[i] # g[i]}
    <2>2. T \subseteq Nat
      OBVIOUS
    <2>3. ASSUME T # {} PROVE FALSE
      <3>1. PICK i \in T : \A j \in T : i <= j
        BY <2>2, <2>3, LeastNumber
      <3>2. i # 0
        BY <1>4, <2>1 DEF CountsUp
      <3>3. i \in 1 .. n /\ i - 1 \in 0 .. n /\ ~(i <= i - 1)
        BY <3>2
      <3>4. h[i - 1] = g[i - 1]
        BY <3>1, <3>3
      <3>5. h[i] = g[i]
        BY <2>1, <1>5, <3>3, <3>4
      <3>6. QED BY <3>5
    <2>4. n \in 0 .. n
      OBVIOUS
    <2>5. QED BY <2>3, <2>4
  <1>8. Joined(v) = g[n]
    <2> DEFINE c == CHOOSE h : h = F(h)
    <2>1. c = F(c)
      BY <1>6
    <2>2. Joined(v) = c[n]
      <3>1. DOMAIN v = 0 .. n - 1
        OBVIOUS
      <3>2. Cardinality(DOMAIN v) = n
        BY <3>1, CountLists
      <3>3. QED BY <3>2, Zenon DEF Joined
    <2> HIDE DEF c, F
    <2>3. QED BY <1>7, <2>1, <2>2
  <1>9. QED BY <1>4, <1>5, <1>8 DEF CountsUp, JoinedBy

\* Joined holds what the lists hold, each once
LEMMA JoinedHolds ==
  ASSUME NEW X, NEW n, NEW v, Tidy(X, n, v)
  PROVE  /\ Joined(v) \in Seq(X) /\ Once(Joined(v)) /\ ToSet(Joined(v)) = Elements(v)
         /\ IsFiniteSet(Elements(v)) /\ Cardinality(Elements(v)) = Len(Joined(v))
         /\ Elements(v) \subseteq X
  <1>1. /\ n \in Nat /\ v \in [0 .. n - 1 -> Seq(X)] /\ DOMAIN v = 0 .. n - 1
        /\ \A i \in 0 .. n - 1 : Once(v[i])
        /\ \A i, j \in 0 .. n - 1 : i # j => ToSet(v[i]) \cap ToSet(v[j]) = {}
    BY DEF Tidy
  <1>2. PICK g : JoinedBy(X, n, v, g)
    BY <1>1, JoinedUnfolds
  <1>3. /\ g \in [0 .. n -> Seq(X)] /\ g[0] = << >>
        /\ \A i \in 1 .. n : g[i] = g[i - 1] \o v[i - 1]
        /\ Joined(v) = g[n]
    BY <1>2 DEF JoinedBy
  <1> DEFINE Upto(i) == UNION {ToSet(v[j]) : j \in 0 .. i - 1}
             T == {i \in 0 .. n : ~(Once(g[i]) /\ ToSet(g[i]) = Upto(i))}
  <1>4. ASSUME NEW i \in 1 .. n, Once(g[i - 1]), ToSet(g[i - 1]) = Upto(i - 1)
        PROVE  Once(g[i]) /\ ToSet(g[i]) = Upto(i)
    <2>1. i - 1 \in 0 .. n /\ i - 1 \in 0 .. n - 1 /\ i \in Int /\ i - 1 \in Int
      BY <1>1
    <2>2. PICK a \in Seq(X) : a = g[i - 1]
      BY <1>3, <2>1
    <2>3. PICK b \in Seq(X) : b = v[i - 1]
      BY <1>1, <2>1
    <2>4. Once(a) /\ Once(b) /\ ToSet(a) = Upto(i - 1)
      BY <1>1, <1>4, <2>1, <2>2, <2>3
    <2>5. ToSet(a) \cap ToSet(b) = {}
      <3>1. ASSUME NEW x \in ToSet(a), x \in ToSet(b) PROVE FALSE
        <4>1. PICK j \in 0 .. (i - 1) - 1 : x \in ToSet(v[j])
          BY <2>4
        <4>2. j \in 0 .. n - 1 /\ j # i - 1
          BY <1>1, <2>1
        <4>3. x \in ToSet(v[i - 1])
          BY <3>1, <2>3
        <4>4. QED BY <1>1, <2>1, <4>1, <4>2, <4>3
      <3>2. QED BY <3>1
    <2>6. g[i] = a \o b
      BY <1>3, <2>2, <2>3
    <2>7. Once(a \o b) /\ ToSet(a \o b) = ToSet(a) \cup ToSet(b)
      BY <2>4, <2>5, JoinOnce
    <2>8. Upto(i - 1) \cup ToSet(v[i - 1]) = Upto(i)
      <3>1. 0 .. i - 1 = (0 .. (i - 1) - 1) \cup {i - 1}
        BY <2>1
      <3>2. QED BY <3>1
    <2>9. QED BY <2>3, <2>4, <2>6, <2>7, <2>8
  <1>5. T = {}
    <2>1. T \subseteq Nat
      OBVIOUS
    <2>2. 0 \notin T
      <3>1. Once(g[0])
        BY <1>3 DEF Once
      <3>2. ToSet(g[0]) = {}
        BY <1>3 DEF ToSet
      <3>3. Upto(0) = {}
        OBVIOUS
      <3>4. QED BY <3>1, <3>2, <3>3
    <2> HIDE DEF Upto
    <2>3. ASSUME T # {} PROVE FALSE
      <3>1. PICK i \in T : \A j \in T : i <= j
        BY <2>1, <2>3, LeastNumber
      <3>2. i # 0
        BY <2>2
      <3>3. i \in 1 .. n /\ i - 1 \in 0 .. n /\ ~(i <= i - 1)
        BY <3>2, <1>1
      <3>4. Once(g[i - 1]) /\ ToSet(g[i - 1]) = Upto(i - 1)
        BY <3>1, <3>3
      <3>5. QED BY <3>3, <3>4, <1>4
    <2>4. QED BY <2>3
  <1>6. n \in 0 .. n
    BY <1>1
  <1>7. Once(g[n]) /\ ToSet(g[n]) = Upto(n)
    BY <1>5, <1>6
  <1>8. Upto(n) = Elements(v)
    BY <1>1 DEF Elements
  <1> HIDE DEF Upto
  <1>9. Joined(v) \in Seq(X) /\ Once(Joined(v)) /\ ToSet(Joined(v)) = Elements(v)
    BY <1>3, <1>6, <1>7, <1>8
  <1>10. QED BY <1>9, OnceCounted, ElementHeld

\* what Spread computes
SpreadBy(X, n, s, v, place, g) ==
  /\ g \in [0 .. Len(s) -> [0 .. n - 1 -> Seq(X)]]
  /\ g[0] = v
  /\ \A k \in 1 .. Len(s) : g[k] = [g[k - 1] EXCEPT ![place[s[k]]] = <<s[k]>> \o @]
  /\ Spread(s, v, place) = g[Len(s)]

\* it computes something
LEMMA SpreadUnfolds ==
  ASSUME NEW X, NEW n \in Nat, NEW s \in Seq(X), NEW v \in [0 .. n - 1 -> Seq(X)], NEW place
  PROVE  \E g : SpreadBy(X, n, s, v, place, g)
  <1> DEFINE m == Len(s)
             V == [0 .. n - 1 -> Seq(X)]
             F(g) == [k \in 0 .. m |-> IF k = 0 THEN v
                        ELSE [g[k - 1] EXCEPT ![place[s[k]]] = <<s[k]>> \o @]]
             step == [k \in 1 .. m |-> [w \in V |-> [w EXCEPT ![place[s[k]]] = <<s[k]>> \o @]]]
  <1>1. m \in Nat /\ \A k \in 1 .. m : s[k] \in X
    OBVIOUS
  <1>2. step \in [1 .. m -> [V -> V]]
    <2>1. ASSUME NEW k \in 1 .. m, NEW w \in V PROVE [w EXCEPT ![place[s[k]]] = <<s[k]>> \o @] \in V
      <3>1. PICK x \in X : x = s[k]
        BY <1>1
      <3>2. \A i \in 0 .. n - 1 : <<x>> \o w[i] \in Seq(X)
        OBVIOUS
      <3>3. [w EXCEPT ![place[x]] = <<x>> \o @] \in V
        BY <3>2
      <3>4. QED BY <3>1, <3>3
    <2> HIDE DEF V, m
    <2>2. QED BY <2>1
  <1>3. v \in V
    OBVIOUS
  <1>4. PICK g : CountsUp(m, V, v, step, g)
    <2> HIDE DEF step, V, m
    <2>1. QED BY <1>1, <1>2, <1>3, CountedUp
  <1> HIDE DEF V
  <1>5. \A k \in 1 .. m : g[k] = [g[k - 1] EXCEPT ![place[s[k]]] = <<s[k]>> \o @]
    <2>1. \A k \in 1 .. m : k - 1 \in 0 .. m
      BY <1>1
    <2>2. \A k \in 1 .. m : g[k - 1] \in V
      BY <1>4, <2>1 DEF CountsUp
    <2>3. \A k \in 1 .. m : g[k] = step[k][g[k - 1]]
      BY <1>4 DEF CountsUp
    <2>4. QED BY <2>2, <2>3
  <1>6. g = F(g)
    <2>1. \A k \in 0 .. m : k # 0 => k \in 1 .. m
      BY <1>1
    <2>2. g[0] = v
      BY <1>4 DEF CountsUp
    <2>3. \A k \in 0 .. m : g[k] = F(g)[k]
      BY <1>5, <2>1, <2>2
    <2>4. g = [k \in 0 .. m |-> g[k]]
      BY <1>4 DEF CountsUp
    <2>5. QED BY <2>3, <2>4
  <1>7. ASSUME NEW h, h = F(h) PROVE h[m] = g[m]
    <2>1. h[0] = v /\ \A k \in 1 .. m : h[k] = [h[k - 1] EXCEPT ![place[s[k]]] = <<s[k]>> \o @]
      <3>1. \A k \in 0 .. m : h[k] = F(h)[k]
        BY <1>7
      <3>2. 0 \in 0 .. m /\ \A k \in 1 .. m : k \in 0 .. m /\ k # 0
        BY <1>1
      <3>3. QED BY <3>1, <3>2
    <2> DEFINE T == {k \in 0 .. m : h[k] # g[k]}
    <2>2. T \subseteq Nat
      BY <1>1
    <2> HIDE DEF m
    <2>3. ASSUME T # {} PROVE FALSE
      <3>1. PICK k \in T : \A j \in T : k <= j
        BY <2>2, <2>3, LeastNumber
      <3>2. k # 0
        BY <1>4, <2>1 DEF CountsUp
      <3>3. k \in 1 .. m /\ k - 1 \in 0 .. m /\ ~(k <= k - 1)
        BY <3>2, <1>1
      <3>4. h[k - 1] = g[k - 1]
        BY <3>1, <3>3
      <3>5. h[k] = g[k]
        BY <2>1, <1>5, <3>3, <3>4
      <3>6. QED BY <3>5
    <2>4. m \in 0 .. m
      BY <1>1
    <2>5. QED BY <2>3, <2>4
  <1>8. Spread(s, v, place) = g[m]
    <2> DEFINE c == CHOOSE h : h = F(h)
    <2>1. c = F(c)
      BY <1>6
    <2>2. Spread(s, v, place) = c[m]
      BY Zenon DEF Spread
    <2> HIDE DEF c, F
    <2>3. QED BY <1>7, <2>1, <2>2
  <1>9. QED BY <1>4, <1>5, <1>8 DEF CountsUp, SpreadBy, V

\* x at the front of list i
Put(v, i, x) == [v EXCEPT ![i] = <<x>> \o @]

\* one more at the front of a list
LEMMA PutTidy ==
  ASSUME NEW X, NEW n, NEW v, Tidy(X, n, v), NEW i \in 0 .. n - 1, NEW x \in X, x \notin Elements(v),
         NEW w, w = Put(v, i, x)
  PROVE  /\ Tidy(X, n, w) /\ Elements(w) = Elements(v) \cup {x}
         /\ ToSet(w[i]) = ToSet(v[i]) \cup {x}
         /\ \A j \in 0 .. n - 1 : j # i => ToSet(w[j]) = ToSet(v[j])
  <1>1. /\ n \in Nat \ {0} /\ v \in [0 .. n - 1 -> Seq(X)] /\ DOMAIN v = 0 .. n - 1
        /\ \A j \in 0 .. n - 1 : Once(v[j])
        /\ \A j, k \in 0 .. n - 1 : j # k => ToSet(v[j]) \cap ToSet(v[k]) = {}
    BY DEF Tidy
  <1>2. PICK s \in Seq(X) : s = v[i]
    BY <1>1
  <1>3. \A j \in 0 .. n - 1 : x \notin ToSet(v[j])
    BY <1>1 DEF Elements
  <1>4. PICK t \in Seq(X) : t = <<x>> \o s
    BY PutOnce
  <1>5. Once(t) /\ ToSet(t) = ToSet(s) \cup {x}
    BY <1>1, <1>2, <1>3, <1>4, PutOnce
  <1>6. /\ w \in [0 .. n - 1 -> Seq(X)] /\ DOMAIN w = 0 .. n - 1
        /\ w[i] = t /\ \A j \in 0 .. n - 1 : j # i => w[j] = v[j]
    BY <1>1, <1>2, <1>4 DEF Put
  <1>7. ToSet(w[i]) = ToSet(v[i]) \cup {x} /\ \A j \in 0 .. n - 1 : j # i => ToSet(w[j]) = ToSet(v[j])
    BY <1>2, <1>5, <1>6
  <1>8. Elements(w) = Elements(v) \cup {x}
    <2>1. ASSUME NEW y \in Elements(w) PROVE y \in Elements(v) \cup {x}
      <3>1. PICK j \in 0 .. n - 1 : y \in ToSet(w[j])
        BY <1>6, <2>1 DEF Elements
      <3>2. y \in ToSet(v[j]) \cup {x}
        BY <1>7, <3>1
      <3>3. QED BY <1>1, <3>2 DEF Elements
    <2>2. ASSUME NEW y \in Elements(v) \cup {x} PROVE y \in Elements(w)
      <3>1. CASE y = x
        BY <1>6, <1>7, <3>1 DEF Elements
      <3>2. CASE y \in Elements(v)
        <4>1. PICK j \in 0 .. n - 1 : y \in ToSet(v[j])
          BY <1>1, <3>2 DEF Elements
        <4>2. y \in ToSet(w[j])
          BY <1>7, <4>1
        <4>3. QED BY <1>6, <4>2 DEF Elements
      <3>3. QED BY <2>2, <3>1, <3>2
    <2>3. QED BY <2>1, <2>2
  <1>9. Tidy(X, n, w)
    <2>1. \A j \in 0 .. n - 1 : Once(w[j])
      BY <1>1, <1>5, <1>6
    <2>2. ASSUME NEW j \in 0 .. n - 1, NEW k \in 0 .. n - 1, j # k
          PROVE  ToSet(w[j]) \cap ToSet(w[k]) = {}
      <3>1. ToSet(v[j]) \cap ToSet(v[k]) = {}
        BY <1>1, <2>2
      <3>2. x \notin ToSet(v[j]) /\ x \notin ToSet(v[k])
        BY <1>3
      <3>3. CASE j = i
        <4>1. ToSet(w[j]) = ToSet(v[j]) \cup {x} /\ ToSet(w[k]) = ToSet(v[k])
          BY <1>7, <2>2, <3>3
        <4>2. QED BY <3>1, <3>2, <4>1
      <3>4. CASE k = i
        <4>1. ToSet(w[k]) = ToSet(v[k]) \cup {x} /\ ToSet(w[j]) = ToSet(v[j])
          BY <1>7, <2>2, <3>4
        <4>2. QED BY <3>1, <3>2, <4>1
      <3>5. CASE j # i /\ k # i
        BY <1>7, <3>1, <3>5
      <3>6. QED BY <3>3, <3>4, <3>5
    <2>3. QED BY <1>1, <1>6, <2>1, <2>2 DEF Tidy
  <1>10. QED BY <1>7, <1>8, <1>9

\* the lists of w hold what is in S of those of v
Narrowed(X, n, v, S, w) ==
  /\ w \in [0 .. n - 1 -> Seq(X)]
  /\ \A j \in 0 .. n - 1 : Once(w[j]) /\ ToSet(w[j]) = ToSet(v[j]) \cap S

\* what is kept of each list
LEMMA KeptTidy ==
  ASSUME NEW X, NEW n, NEW v, Tidy(X, n, v), NEW w, NEW S, Narrowed(X, n, v, S, w)
  PROVE  Tidy(X, n, w) /\ Elements(w) = Elements(v) \cap S
  <1>0. /\ w \in [0 .. n - 1 -> Seq(X)]
        /\ \A j \in 0 .. n - 1 : Once(w[j]) /\ ToSet(w[j]) = ToSet(v[j]) \cap S
    BY DEF Narrowed
  <1>1. /\ n \in Nat \ {0} /\ v \in [0 .. n - 1 -> Seq(X)] /\ DOMAIN v = 0 .. n - 1 /\ DOMAIN w = 0 .. n - 1
        /\ \A j, k \in 0 .. n - 1 : j # k => ToSet(v[j]) \cap ToSet(v[k]) = {}
    BY <1>0 DEF Tidy
  <1>2. Elements(w) = Elements(v) \cap S
    BY <1>0, <1>1 DEF Elements
  <1>3. \A j, k \in 0 .. n - 1 : j # k => ToSet(w[j]) \cap ToSet(w[k]) = {}
    BY <1>0, <1>1
  <1>4. QED BY <1>0, <1>1, <1>2, <1>3 DEF Tidy

\* n lists that hold nothing
LEMMA EmptyTidy ==
  ASSUME NEW X, NEW n \in Nat \ {0}
  PROVE  \A v : v = [i \in 0 .. n - 1 |-> << >>] => Tidy(X, n, v) /\ Elements(v) = {} /\ Joined(v) = << >>
                                                    /\ \A i \in 0 .. n - 1 : ToSet(v[i]) = {}
  <1> SUFFICES ASSUME NEW v, v = [i \in 0 .. n - 1 |-> << >>]
               PROVE  Tidy(X, n, v) /\ Elements(v) = {} /\ Joined(v) = << >>
                      /\ \A i \in 0 .. n - 1 : ToSet(v[i]) = {}
    OBVIOUS
  <1>1. << >> \in Seq(X) /\ Once(<< >>) /\ ToSet(<< >>) = {}
    BY DEF Once, ToSet
  <1>2. v \in [0 .. n - 1 -> Seq(X)] /\ DOMAIN v = 0 .. n - 1 /\ \A i \in 0 .. n - 1 : v[i] = << >>
    BY <1>1
  <1>3. \A i \in 0 .. n - 1 : ToSet(v[i]) = {} /\ Once(v[i])
    BY <1>1, <1>2
  <1>4. Elements(v) = {}
    BY <1>2, <1>3 DEF Elements
  <1>5. Tidy(X, n, v)
    BY <1>2, <1>3 DEF Tidy
  <1>6. Joined(v) = << >>
    <2>1. Joined(v) \in Seq(X) /\ ToSet(Joined(v)) = Elements(v)
      <3> HIDE DEF Elements
      <3>1. QED BY <1>5, JoinedHolds
    <2>2. QED BY <1>4, <2>1, HoldsNothing
  <1>7. QED BY <1>3, <1>4, <1>5, <1>6

\* Spread puts each element in its list
LEMMA SpreadHolds ==
  ASSUME NEW X, NEW n \in Nat \ {0}, NEW s \in Seq(X), Once(s),
         NEW place, \A x \in ToSet(s) : place[x] \in 0 .. n - 1,
         NEW v, v = [i \in 0 .. n - 1 |-> << >>], NEW w, w = Spread(s, v, place)
  PROVE  /\ Tidy(X, n, w) /\ Elements(w) = ToSet(s)
         /\ \A i \in 0 .. n - 1 : \A x \in ToSet(w[i]) : place[x] = i
  <1>1. Tidy(X, n, v) /\ Elements(v) = {} /\ \A i \in 0 .. n - 1 : ToSet(v[i]) = {}
    BY EmptyTidy
  <1>2. v \in [0 .. n - 1 -> Seq(X)]
    BY <1>1 DEF Tidy
  <1>3. PICK g : SpreadBy(X, n, s, v, place, g)
    BY <1>2, SpreadUnfolds
  <1> DEFINE m == Len(s)
             Upto(k) == {s[j] : j \in 1 .. k}
             Good(k, u) == /\ Tidy(X, n, u) /\ Elements(u) = Upto(k)
                           /\ \A i \in 0 .. n - 1 : \A x \in ToSet(u[i]) : place[x] = i
             T == {k \in 0 .. m : ~Good(k, g[k])}
  <1>4. /\ g \in [0 .. m -> [0 .. n - 1 -> Seq(X)]] /\ g[0] = v
        /\ \A k \in 1 .. m : g[k] = [g[k - 1] EXCEPT ![place[s[k]]] = <<s[k]>> \o @]
        /\ Spread(s, v, place) = g[m]
    BY <1>3 DEF SpreadBy
  <1>5. m \in Nat /\ ToSet(s) = Upto(m) /\ \A k \in 1 .. m : s[k] \in X /\ s[k] \in ToSet(s)
    BY ElementHeld
  <1>6. ASSUME NEW k \in 1 .. m, Good(k - 1, g[k - 1]) PROVE Good(k, g[k])
    <2>1. PICK z : z = g[k - 1]
      OBVIOUS
    <2>2. /\ Tidy(X, n, z) /\ Elements(z) = Upto(k - 1)
          /\ \A i \in 0 .. n - 1 : \A x \in ToSet(z[i]) : place[x] = i
      BY <1>6, <2>1
    <2>3. PICK x \in X : x = s[k]
      BY <1>5
    <2>4. PICK i \in 0 .. n - 1 : i = place[x]
      BY <1>5, <2>3
    <2>5. PICK u : u = Put(z, i, x)
      OBVIOUS
    <2>6. u = g[k]
      BY <1>4, <2>1, <2>3, <2>4, <2>5 DEF Put
    <2>7. x \notin Upto(k - 1)
      <3>1. ASSUME NEW j \in 1 .. k - 1, s[j] = s[k] PROVE FALSE
        <4>1. j \in 1 .. m /\ j # k
          BY <1>5
        <4>2. QED BY <3>1, <4>1 DEF Once
      <3>2. QED BY <3>1, <2>3
    <2>8. Upto(k) = Upto(k - 1) \cup {x}
      <3>1. 1 .. k = (1 .. k - 1) \cup {k}
        BY <1>5
      <3>2. QED BY <3>1, <2>3
    <2> HIDE DEF Upto
    <2>9. /\ Tidy(X, n, u) /\ Elements(u) = Elements(z) \cup {x}
          /\ ToSet(u[i]) = ToSet(z[i]) \cup {x}
          /\ \A j \in 0 .. n - 1 : j # i => ToSet(u[j]) = ToSet(z[j])
      <3>1. Tidy(X, n, z) /\ x \notin Elements(z)
        BY <2>2, <2>7
      <3> HIDE DEF Good, T, m
      <3>2. PICK e, j : e = n /\ j = i
        OBVIOUS
      <3>3. Tidy(X, e, z) /\ j \in 0 .. e - 1 /\ x \in X /\ u = Put(z, j, x)
        BY <2>5, <3>1, <3>2
      <3>4. /\ Tidy(X, e, u) /\ Elements(u) = Elements(z) \cup {x}
            /\ ToSet(u[j]) = ToSet(z[j]) \cup {x}
            /\ \A h \in 0 .. e - 1 : h # j => ToSet(u[h]) = ToSet(z[h])
        BY <3>1, <3>3, PutTidy
      <3>5. QED BY <3>2, <3>4
    <2>10. \A j \in 0 .. n - 1 : \A y \in ToSet(u[j]) : place[y] = j
      BY <2>2, <2>4, <2>9
    <2>11. QED BY <2>2, <2>6, <2>8, <2>9, <2>10
  <1>7. Good(0, g[0])
    <2>1. Upto(0) = {}
      OBVIOUS
    <2> HIDE DEF Upto
    <2>2. QED BY <1>1, <1>4, <2>1
  <1> HIDE DEF Good
  <1>8. T = {}
    <2>1. T \subseteq Nat
      BY <1>5
    <2> HIDE DEF m
    <2>2. ASSUME T # {} PROVE FALSE
      <3>1. PICK k \in T : \A j \in T : k <= j
        BY <2>1, <2>2, LeastNumber
      <3>2. k # 0
        BY <1>7
      <3>3. k \in 1 .. m /\ k - 1 \in 0 .. m /\ ~(k <= k - 1)
        BY <3>2, <1>5
      <3>4. Good(k - 1, g[k - 1])
        BY <3>1, <3>3
      <3>5. QED BY <3>3, <3>4, <1>6
    <2>3. QED BY <2>2
  <1>9. Good(m, g[m])
    BY <1>8, <1>5
  <1>10. QED BY <1>4, <1>5, <1>9 DEF Good

\* list i without x
Take(v, i, x) == [v EXCEPT ![i] = Only(@, ToSet(@) \ {x})]

\* one less
LEMMA TakeTidy ==
  ASSUME NEW X, NEW n, NEW v, Tidy(X, n, v), NEW i \in 0 .. n - 1, NEW x, x \in ToSet(v[i]),
         NEW w, w = Take(v, i, x)
  PROVE  /\ Tidy(X, n, w) /\ Elements(w) = Elements(v) \ {x}
         /\ \A j \in 0 .. n - 1 : ToSet(w[j]) = ToSet(v[j]) \ {x}
  <1>1. /\ v \in [0 .. n - 1 -> Seq(X)] /\ DOMAIN v = 0 .. n - 1
        /\ \A j \in 0 .. n - 1 : v[j] \in Seq(X) /\ Once(v[j])
        /\ \A j, k \in 0 .. n - 1 : j # k => ToSet(v[j]) \cap ToSet(v[k]) = {}
    BY DEF Tidy
  <1>3. PICK list \in Seq(X) : list = v[i] /\ Once(list)
    BY <1>1
  <1> DEFINE S == ToSet(list) \ {x}
             K == Elements(v) \ {x}
  <1>4. PICK o \in Seq(X) : o = Only(list, S)
    BY OnlyHolds
  <1>5. ToSet(o) = ToSet(list) \ {x} /\ Once(o)
    <2>1. ToSet(o) = ToSet(list) \cap S /\ Once(o)
      BY <1>3, <1>4, OnlyHolds
    <2>2. QED BY <2>1
  <1>6. /\ w \in [0 .. n - 1 -> Seq(X)] /\ w[i] = o
        /\ \A j \in 0 .. n - 1 : j # i => w[j] = v[j]
    BY <1>1, <1>3, <1>4 DEF Take
  <1>7. \A j \in 0 .. n - 1 : j # i => x \notin ToSet(v[j])
    BY <1>1
  <1>8. ASSUME NEW j \in 0 .. n - 1
        PROVE  Once(w[j]) /\ ToSet(w[j]) = ToSet(v[j]) \ {x}
    <2>2. CASE j = i
      BY <1>3, <1>5, <1>6, <2>2
    <2>3. CASE j # i
      <3>1. w[j] = v[j] /\ x \notin ToSet(v[j]) /\ Once(v[j])
        BY <1>1, <1>6, <1>7, <2>3
      <3>2. QED BY <3>1
    <2>4. QED BY <2>2, <2>3
  <1>9. \A j \in 0 .. n - 1 : Once(w[j]) /\ ToSet(w[j]) = ToSet(v[j]) \cap K
    <2>1. \A j \in 0 .. n - 1 : ToSet(v[j]) \subseteq Elements(v)
      BY <1>1 DEF Elements
    <2> HIDE DEF Elements
    <2>2. ASSUME NEW j \in 0 .. n - 1 PROVE ToSet(v[j]) \ {x} = ToSet(v[j]) \cap K
      BY <2>1
    <2>3. QED BY <1>8, <2>2
  <1>10. Tidy(X, n, w) /\ Elements(w) = Elements(v) \cap K
    <2>1. w \in [0 .. n - 1 -> Seq(X)]
      BY <1>6
    <2>2. Narrowed(X, n, v, K, w)
      BY <1>9, <2>1 DEF Narrowed
    <2> HIDE DEF K
    <2>3. QED BY <2>2, KeptTidy
  <1>11. QED BY <1>8, <1>10

-----------------------------------------------------------------------------
(* Tables of symbols: vectors of lists under the hash of a name *)

\* v is n lists of the members of T, each in the list of its name, and no two have a name
TableOf(X, n, v, T, names) ==
  /\ Tidy(X, n, v) /\ Elements(v) = T
  /\ \A s \in T : names[s] \in Names
  /\ \A i \in 0 .. n - 1 : \A s \in ToSet(v[i]) : Index(names[s], n) = i
  /\ \A s, r \in T : names[s] = names[r] => s = r

\* the remainder is the number of a list
LEMMA IndexInRange ==
  ASSUME NEW m \in Names, NEW n \in Nat \ {0}
  PROVE  Index(m, n) \in 0 .. n - 1
  <1>1. PICK h \in Nat : h = Hash[m]
    BY SymbolsAssumption
  <1>2. h % n \in 0 .. n - 1
    OBVIOUS
  <1>3. QED BY <1>1, <1>2 DEF Index

\* what TableOf says of the places
LEMMA TablePlaces ==
  ASSUME NEW X, NEW n, NEW v, NEW T, NEW names, TableOf(X, n, v, T, names)
  PROVE  /\ n \in Nat \ {0} /\ v \in [0 .. n - 1 -> Seq(X)] /\ DOMAIN v = 0 .. n - 1
         /\ T \subseteq X /\ IsFiniteSet(T) /\ Cardinality(T) = Len(Joined(v)) /\ ChainCount(v) = n
         /\ \A s \in T : names[s] \in Names /\ Index(names[s], n) \in 0 .. n - 1
         /\ \A s \in T : s \in ToSet(v[Index(names[s], n)])
         /\ \A i \in 0 .. n - 1 : v[i] \in Seq(X) /\ Once(v[i])
         /\ \A i \in 0 .. n - 1 : \A s \in ToSet(v[i]) : s \in T /\ Index(names[s], n) = i
  <1>1. /\ n \in Nat \ {0} /\ v \in [0 .. n - 1 -> Seq(X)] /\ DOMAIN v = 0 .. n - 1
        /\ Elements(v) = T /\ \A s \in T : names[s] \in Names
        /\ \A i \in 0 .. n - 1 : v[i] \in Seq(X) /\ Once(v[i])
        /\ \A i \in 0 .. n - 1 : \A s \in ToSet(v[i]) : Index(names[s], n) = i
        /\ Tidy(X, n, v)
    BY DEF TableOf, Tidy
  <1>2. T \subseteq X /\ IsFiniteSet(T) /\ Cardinality(T) = Len(Joined(v))
    BY <1>1, JoinedHolds
  <1>3. ChainCount(v) = n
    BY <1>1, CountLists DEF ChainCount
  <1>4. \A s \in T : Index(names[s], n) \in 0 .. n - 1
    BY <1>1, IndexInRange
  <1>5. ASSUME NEW s \in T PROVE s \in ToSet(v[Index(names[s], n)])
    <2>1. PICK i \in 0 .. n - 1 : s \in ToSet(v[i])
      BY <1>1 DEF Elements
    <2>2. QED BY <1>1, <2>1
  <1>6. \A i \in 0 .. n - 1 : \A s \in ToSet(v[i]) : s \in T
    BY <1>1 DEF Elements
  <1>7. QED BY <1>1, <1>2, <1>3, <1>4, <1>5, <1>6

\* those of a list that have the name m
Matches(list, names, m) == Only(list, {s \in ToSet(list) : names[s] = m})
\* o is the member of T that has it, or empty if there is none
Found(o, T, names, m) ==
  /\ o = << >> => \A s \in T : names[s] # m
  /\ \A s \in T : names[s] = m => o = <<s>>
  /\ o # << >> => \E s \in T : names[s] = m /\ o = <<s>> /\ Head(o) = s

\* the search of a list finds the one of the name, if there is one
LEMMA TableFinds ==
  ASSUME NEW X, NEW n, NEW v, NEW T, NEW names, TableOf(X, n, v, T, names), NEW m \in Names,
         NEW list, list = v[Index(m, n)]
  PROVE  Found(Matches(list, names, m), T, names, m)
  <1>0. PICK o : o = Matches(list, names, m)
    OBVIOUS
  <1>1. /\ n \in Nat \ {0}
        /\ \A s \in T : s \in ToSet(v[Index(names[s], n)])
        /\ \A i \in 0 .. n - 1 : v[i] \in Seq(X) /\ Once(v[i])
        /\ \A i \in 0 .. n - 1 : \A s \in ToSet(v[i]) : s \in T
    BY TablePlaces
  <1>2. Index(m, n) \in 0 .. n - 1
    BY <1>1, IndexInRange
  <1>3. list \in Seq(X) /\ Once(list) /\ \A s \in ToSet(list) : s \in T
    BY <1>1, <1>2
  <1> DEFINE S == {s \in ToSet(list) : names[s] = m}
  <1>4. o \in Seq(X) /\ ToSet(o) = ToSet(list) \cap S /\ Once(o)
    BY <1>0, <1>3, OnlyHolds DEF Matches
  <1>5. ToSet(o) = S
    BY <1>4
  <1>6. \A s, r \in T : names[s] = names[r] => s = r
    BY DEF TableOf
  <1>7. ASSUME NEW s \in T, names[s] = m PROVE o = <<s>>
    <2>1. S = {s}
      BY <1>1, <1>3, <1>6, <1>7
    <2>2. QED BY <1>4, <1>5, <2>1, HoldsOne
  <1>8. ASSUME o # << >> PROVE \E s \in T : names[s] = m
    <2>1. S # {}
      BY <1>4, <1>5, <1>8, HoldsNothing
    <2>2. QED BY <1>3, <2>1
  <1>9. \A s : <<s>> # << >> /\ Head(<<s>>) = s
    OBVIOUS
  <1>10. Found(o, T, names, m)
    BY <1>7, <1>8, <1>9 DEF Found
  <1>11. QED BY <1>0, <1>10

\* names that agree on what is in the table
LEMMA TableRenamed ==
  ASSUME NEW X, NEW n, NEW v, NEW T, NEW names, TableOf(X, n, v, T, names),
         NEW others, \A s \in T : others[s] = names[s]
  PROVE  TableOf(X, n, v, T, others)
  <1>1. \A i \in 0 .. n - 1 : \A s \in ToSet(v[i]) : s \in T
    BY TablePlaces
  <1>2. QED BY <1>1 DEF TableOf

\* one more, of a name that is not there
LEMMA TablePut ==
  ASSUME NEW X, NEW n, NEW v, NEW T, NEW names, TableOf(X, n, v, T, names),
         NEW x \in X, x \notin T, names[x] \in Names, \A s \in T : names[s] # names[x],
         NEW i, i = Index(names[x], n), NEW w, w = Put(v, i, x)
  PROVE  TableOf(X, n, w, T \cup {x}, names)
  <1>1. /\ n \in Nat \ {0} /\ Tidy(X, n, v) /\ Elements(v) = T
        /\ \A j \in 0 .. n - 1 : \A s \in ToSet(v[j]) : s \in T /\ Index(names[s], n) = j
    BY TablePlaces DEF TableOf
  <1>2. i \in 0 .. n - 1
    BY <1>1, IndexInRange
  <1>40. Tidy(X, n, v) /\ x \notin Elements(v)
    BY <1>1
  <1>4. Tidy(X, n, w) /\ Elements(w) = T \cup {x}
    <2>1. Tidy(X, n, w) /\ Elements(w) = Elements(v) \cup {x}
      BY <1>2, <1>40, PutTidy
    <2>2. QED BY <1>1, <2>1
  <1>5. /\ ToSet(w[i]) = ToSet(v[i]) \cup {x}
        /\ \A j \in 0 .. n - 1 : j # i => ToSet(w[j]) = ToSet(v[j])
    BY <1>2, <1>40, PutTidy
  <1>6. ASSUME NEW j \in 0 .. n - 1, NEW s \in ToSet(w[j]) PROVE Index(names[s], n) = j
    <2>1. CASE j = i
      BY <1>1, <1>2, <1>5, <1>6, <2>1
    <2>2. CASE j # i
      BY <1>1, <1>5, <1>6, <2>2
    <2>3. QED BY <2>1, <2>2
  <1>7. \A s \in T \cup {x} : names[s] \in Names
    BY TablePlaces
  <1>8. \A s, r \in T \cup {x} : names[s] = names[r] => s = r
    BY DEF TableOf
  <1>9. QED BY <1>1, <1>4, <1>6, <1>7, <1>8 DEF TableOf

\* one less
LEMMA TableTake ==
  ASSUME NEW X, NEW n, NEW v, NEW T, NEW names, TableOf(X, n, v, T, names), NEW x \in T,
         NEW i, i = Index(names[x], n), NEW w, w = Take(v, i, x)
  PROVE  TableOf(X, n, w, T \ {x}, names)
  <1>1. /\ Tidy(X, n, v) /\ Elements(v) = T
        /\ i \in 0 .. n - 1 /\ x \in ToSet(v[i])
        /\ \A j \in 0 .. n - 1 : \A s \in ToSet(v[j]) : s \in T /\ Index(names[s], n) = j
    <2>1. Tidy(X, n, v) /\ Elements(v) = T
      BY DEF TableOf
    <2>2. /\ i \in 0 .. n - 1 /\ x \in ToSet(v[i])
          /\ \A j \in 0 .. n - 1 : \A s \in ToSet(v[j]) : s \in T /\ Index(names[s], n) = j
      BY TablePlaces
    <2>3. QED BY <2>1, <2>2
  <1>2. Tidy(X, n, w) /\ Elements(w) = Elements(v) \ {x}
    BY <1>1, TakeTidy
  <1>3. \A j \in 0 .. n - 1 : ToSet(w[j]) = ToSet(v[j]) \ {x}
    BY <1>1, TakeTidy
  <1>4. \A j \in 0 .. n - 1 : \A s \in ToSet(w[j]) : Index(names[s], n) = j
    BY <1>1, <1>3
  <1>5. /\ \A s \in T \ {x} : names[s] \in Names
        /\ \A s, r \in T \ {x} : names[s] = names[r] => s = r
    BY DEF TableOf
  <1>6. QED BY <1>1, <1>2, <1>4, <1>5 DEF TableOf

\* extend-table
LEMMA TableExtended ==
  ASSUME NEW n, NEW v, NEW T, NEW names, TableOf(Symbol, n, v, T, names),
         NEW w, w = ExtendSymbolTable(v, names)
  PROVE  TableOf(Symbol, 2 * n, w, T, names)
  <1>1. n \in Nat \ {0} /\ Tidy(Symbol, n, v) /\ Elements(v) = T /\ ChainCount(v) = n
        /\ T \subseteq Symbol /\ \A s \in T : names[s] \in Names
    BY TablePlaces DEF TableOf
  <1>2. PICK m \in Nat \ {0} : m = 2 * n
    BY <1>1
  <1>3. PICK z : z = [i \in 0 .. m - 1 |-> << >>]
    OBVIOUS
  <1>4. PICK place : place = [s \in Symbol |-> Index(names[s], m)]
    OBVIOUS
  <1>5. PICK l : l = Joined(v)
    OBVIOUS
  <1>6. w = Spread(l, z, place)
    BY <1>1, <1>2, <1>3, <1>4, <1>5 DEF ExtendSymbolTable
  <1>7. l \in Seq(Symbol) /\ Once(l) /\ ToSet(l) = T
    BY <1>1, <1>5, JoinedHolds
  <1>8. \A s \in T : place[s] = Index(names[s], m)
    BY <1>1, <1>4
  <1>9. \A s \in ToSet(l) : place[s] \in 0 .. m - 1
    BY <1>1, <1>2, <1>7, <1>8, IndexInRange
  <1> DEFINE X == Symbol
  <1>10. l \in Seq(X)
    BY <1>7
  <1> HIDE DEF X
  <1>11. /\ Tidy(X, m, w) /\ Elements(w) = ToSet(l)
         /\ \A i \in 0 .. m - 1 : \A s \in ToSet(w[i]) : place[s] = i
    BY <1>2, <1>3, <1>6, <1>7, <1>9, <1>10, SpreadHolds, SMTT(30)
  <1>12. \A i \in 0 .. m - 1 : \A s \in ToSet(w[i]) : s \in T
    <2>1. DOMAIN w = 0 .. m - 1
      BY <1>11 DEF Tidy
    <2>2. QED BY <1>7, <1>11, <2>1 DEF Elements
  <1>13. \A i \in 0 .. m - 1 : \A s \in ToSet(w[i]) : Index(names[s], m) = i
    BY <1>8, <1>11, <1>12
  <1>14. \A s, r \in T : names[s] = names[r] => s = r
    BY DEF TableOf
  <1>15. TableOf(X, m, w, T, names)
    BY <1>1, <1>7, <1>11, <1>13, <1>14 DEF TableOf
  <1>16. QED BY <1>2, <1>15 DEF X

\* a Scheme table of the symbols it guards and others
SchemeTable(t, T, names) ==
  /\ TableOf(Symbol, ChainCount(t.chains), t.chains, T, names)
  /\ t.len = Cardinality(T)

\* intern-symbol!
LEMMA InternsOne ==
  ASSUME NEW t, NEW T, NEW names, SchemeTable(t, T, names),
         NEW s \in Symbol, s \notin T, names[s] \in Names, \A r \in T : names[r] # names[s],
         NEW u, u = InternSymbol(t, s, names)
  PROVE  SchemeTable(u, T \cup {s}, names) /\ u.guarded = t.guarded \cup {s}
  <1>1. PICK n : n = ChainCount(t.chains)
    OBVIOUS
  <1>2. PICK c : c = t.chains
    OBVIOUS
  <1>3. TableOf(Symbol, n, c, T, names) /\ t.len = Cardinality(T)
    BY <1>1, <1>2 DEF SchemeTable
  <1>40. PICK i : i = Index(names[s], n)
    OBVIOUS
  <1>4. PICK v : v = Put(c, i, s)
    OBVIOUS
  <1> DEFINE X == Symbol
  <1>5. TableOf(Symbol, n, v, T \cup {s}, names)
    <2>1. TableOf(X, n, c, T, names) /\ s \in X
      BY <1>3
    <2> HIDE DEF X
    <2>2. TableOf(X, n, v, T \cup {s}, names)
      BY <1>4, <1>40, <2>1, TablePut
    <2>3. QED BY <2>2 DEF X
  <1>6. ChainCount(v) = n /\ n \in Nat \ {0} /\ IsFiniteSet(T)
    <2>1. TableOf(X, n, v, T \cup {s}, names) /\ TableOf(X, n, c, T, names)
      BY <1>3, <1>5
    <2> HIDE DEF X
    <2>2. QED BY <2>1, TablePlaces
  <1>7. PICK e : e = ExtendSymbolTable(v, names)
    OBVIOUS
  <1>8. TableOf(Symbol, 2 * n, e, T \cup {s}, names)
    <2> DEFINE K == T \cup {s}
    <2>1. TableOf(Symbol, n, v, K, names)
      BY <1>5
    <2> HIDE DEF K
    <2>2. TableOf(Symbol, 2 * n, e, K, names)
      BY <1>7, <2>1, TableExtended
    <2>3. QED BY <2>2 DEF K
  <1>9. ChainCount(e) = 2 * n
    <2> DEFINE K == T \cup {s}
               k == 2 * n
    <2>1. TableOf(X, k, e, K, names)
      BY <1>8
    <2> HIDE DEF X, K, k
    <2>2. ChainCount(e) = k
      BY <2>1, TablePlaces
    <2>3. QED BY <2>2 DEF k
  <1>10. /\ u.chains = (IF t.len + 1 = ChainCount(v) - 1 THEN e ELSE v)
         /\ u.len = t.len + 1 /\ u.guarded = t.guarded \cup {s}
    BY <1>1, <1>2, <1>4, <1>40, <1>7 DEF InternSymbol, Put
  <1>11. TableOf(Symbol, ChainCount(u.chains), u.chains, T \cup {s}, names)
    BY <1>5, <1>6, <1>8, <1>9, <1>10
  <1>12. Cardinality(T \cup {s}) = Cardinality(T) + 1
    BY <1>6, FS_AddElement
  <1>13. QED BY <1>3, <1>10, <1>11, <1>12 DEF SchemeTable

-----------------------------------------------------------------------------
(* Symbols *)

\* what the variables are
SymbolsTypes ==
  /\ nameOf \in [Symbol -> Names \cup {NoName}]
  /\ held \cup valued \cup weakly \subseteq Live
  /\ guarded \subseteq Symbol /\ queue \in Seq(Symbol) /\ seeking \in Symbol \cup {Broken}

\* all symbols are in the C table
BeforeHandover ==
  /\ TableOf(Symbol, CBuckets, ctable, Live, nameOf)
  /\ chains = [i \in 0 .. FirstLength - 1 |-> << >>] /\ len = 0
  /\ guarded = {} /\ queue = << >> /\ seeking = Broken /\ recovered = {}

\* the symbols of the Scheme table are those that the guardian has, or has delivered to
\* nobody as yet
Interneds == guarded \cup ToSet(queue)
\* they are in its lists, each once, under the hashes of their names
SchemeWhole ==
  /\ TableOf(Symbol, ChainCount(chains), chains, Interneds, nameOf)
  /\ len = Cardinality(Interneds)
  /\ guarded \cap ToSet(queue) = {} /\ Once(queue)
  /\ seeking # Broken => seeking \in Interneds
\* what the program can tell from another symbol of its name is there
SchemeKept ==
  /\ held \ recovered \subseteq guarded
  /\ valued \ recovered \subseteq Interneds

\* the invariant: all symbols are in the C table, or the Scheme table has those that matter
SymbolsInv ==
  /\ SymbolsTypes
  /\ ctable # Gone => BeforeHandover
  /\ ctable = Gone => SchemeWhole /\ SchemeKept

\* a table is not Gone
LEMMA TableThere ==
  ASSUME NEW X, NEW n, NEW v, NEW T, NEW names, TableOf(X, n, v, T, names)
  PROVE  v # Gone
  <1>1. n \in Nat \ {0} /\ DOMAIN v = 0 .. n - 1
    BY TablePlaces
  <1>2. 0 \in DOMAIN v
    BY <1>1
  <1>3. 0 \notin DOMAIN << >>
    OBVIOUS
  <1>4. QED BY <1>2, <1>3 DEF Gone

\* n lists of nothing are a table
LEMMA TableEmpty ==
  ASSUME NEW X, NEW n \in Nat \ {0}, NEW names, NEW v, v = [i \in 0 .. n - 1 |-> << >>]
  PROVE  TableOf(X, n, v, {}, names) /\ ChainCount(v) = n /\ Len(Joined(v)) = 0
  <1>1. Tidy(X, n, v) /\ Elements(v) = {} /\ Joined(v) = << >> /\ \A i \in 0 .. n - 1 : ToSet(v[i]) = {}
    BY EmptyTidy
  <1>2. TableOf(X, n, v, {}, names)
    BY <1>1 DEF TableOf
  <1>3. QED BY <1>1, <1>2, TablePlaces

\* initialize-symbol-table! interns the symbols of the C table
LEMMA InternsAll ==
  ASSUME NEW s \in Seq(Symbol), Once(s), SchemeTable(SymbolTable, {}, nameOf), guarded = {}, chains \in [0 .. FirstLength - 1 -> Seq(Symbol)], len = 0,
         \A x \in ToSet(s) : nameOf[x] \in Names,
         \A x, y \in ToSet(s) : nameOf[x] = nameOf[y] => x = y,
         NEW u, u = Interned(s)
  PROVE  SchemeTable(u, ToSet(s), nameOf) /\ u.guarded = ToSet(s)
  <1> DEFINE n == Len(s)
             b == SymbolTable
             Vectors == UNION {[0 .. k - 1 -> Seq(Symbol)] : k \in Nat}
             Tables == [chains : Vectors, len : Nat, guarded : SUBSET Symbol]
             Good(t) == SchemeTable(t, t.guarded, nameOf) /\ t.guarded \subseteq ToSet(s)
             V == {t \in Tables : Good(t)}
             Next(t, x) == IF x \in t.guarded THEN t ELSE InternSymbol(t, x, nameOf)
             step == [k \in 1 .. n |-> [t \in V |-> Next(t, s[k])]]
             F(g) == [k \in 0 .. n |-> IF k = 0 THEN SymbolTable ELSE InternSymbol(g[k - 1], s[k], nameOf)]
  <1>1. n \in Nat /\ \A k \in 1 .. n : s[k] \in Symbol /\ s[k] \in ToSet(s)
    BY ElementHeld
  <1>2. ASSUME NEW t \in V, NEW x \in ToSet(s), x \notin t.guarded
        PROVE  InternSymbol(t, x, nameOf) \in V /\ InternSymbol(t, x, nameOf).guarded = t.guarded \cup {x}
    <2>1. PICK w : w = InternSymbol(t, x, nameOf)
      OBVIOUS
    <2>2. PICK T : T = t.guarded
      OBVIOUS
    <2>3. SchemeTable(t, T, nameOf) /\ T \subseteq ToSet(s) /\ x \in Symbol
      BY <2>2, ElementHeld
    <2>4. nameOf[x] \in Names /\ \A r \in T : nameOf[r] # nameOf[x]
      BY <2>2, <2>3, <1>2
    <2>5. x \notin T
      BY <1>2, <2>2
    <2>6. SchemeTable(w, T \cup {x}, nameOf) /\ w.guarded = t.guarded \cup {x}
      <3> DEFINE fresh == x \in Symbol /\ x \notin T /\ nameOf[x] \in Names
                          /\ \A r \in T : nameOf[r] # nameOf[x]
      <3>1. fresh /\ SchemeTable(t, T, nameOf)
        BY <2>3, <2>4, <2>5
      <3> HIDE DEF V, step, F, Good, Tables, Vectors, Next, b, n
      <3>2. QED BY <2>1, <3>1, InternsOne, SMTT(30)
    <2>7. Good(w)
      BY <2>2, <2>3, <2>6
    <2>8. w \in Tables
      <3> DEFINE K == T \cup {x}
                 m == ChainCount(w.chains)
                 c == w.chains
      <3>1. TableOf(Symbol, m, c, K, nameOf) /\ w.len = Cardinality(K)
        BY <2>6 DEF SchemeTable
      <3> HIDE DEF K, m, c
      <3>2. m \in Nat \ {0} /\ c \in [0 .. m - 1 -> Seq(Symbol)] /\ K \subseteq Symbol /\ IsFiniteSet(K)
        BY <3>1, TablePlaces
      <3>3. w.len \in Nat
        BY <3>1, <3>2, FS_CardinalityType
      <3>4. w.guarded \subseteq Symbol
        BY <2>2, <2>6, <3>2 DEF K
      <3>5. w = [chains |-> w.chains, len |-> w.len, guarded |-> w.guarded]
        BY <2>1 DEF InternSymbol
      <3>6. w.chains \in Vectors
        BY <3>2 DEF c
      <3> HIDE DEF Vectors
      <3>7. QED BY <3>3, <3>4, <3>5, <3>6
    <2>9. QED BY <2>1, <2>6, <2>7, <2>8
  <1> HIDE DEF Good
  <1>3. b \in V
    <2>1. b = [chains |-> chains, len |-> len, guarded |-> guarded]
      BY DEF SymbolTable
    <2>2. b \in Tables
      <3>1. chains \in Vectors
        BY SymbolsAssumption
      <3> HIDE DEF Vectors
      <3>2. QED BY <2>1, <3>1
    <2>3. b.guarded = {}
      BY <2>1
    <2> HIDE DEF b
    <2>4. Good(b)
      BY <2>3 DEF Good, b
    <2>5. QED BY <2>2, <2>4
  <1> HIDE DEF V
  <1>4. step \in [1 .. n -> [V -> V]]
    <2>1. ASSUME NEW k \in 1 .. n, NEW t \in V PROVE Next(t, s[k]) \in V
      <3>1. s[k] \in ToSet(s)
        BY <1>1
      <3>2. CASE s[k] \in t.guarded
        BY <3>2
      <3>3. CASE s[k] \notin t.guarded
        BY <1>2, <3>1, <3>3
      <3>4. QED BY <3>2, <3>3
    <2> HIDE DEF Next
    <2>2. QED BY <2>1
  <1>5. PICK g : CountsUp(n, V, b, step, g)
    <2> HIDE DEF step, b, n
    <2>1. QED BY <1>1, <1>3, <1>4, CountedUp
  <1>6. /\ g \in [0 .. n -> V] /\ g[0] = b
        /\ \A k \in 1 .. n : g[k] = Next(g[k - 1], s[k])
    <2>1. \A k \in 1 .. n : k - 1 \in 0 .. n
      BY <1>1
    <2>2. g \in [0 .. n -> V] /\ g[0] = b /\ \A k \in 1 .. n : g[k] = step[k][g[k - 1]]
      BY <1>5 DEF CountsUp
    <2>3. \A k \in 1 .. n : g[k - 1] \in V
      BY <2>1, <2>2
    <2> HIDE DEF Next
    <2>4. QED BY <2>2, <2>3
  <1> DEFINE Upto(k) == {s[j] : j \in 1 .. k}
  <1>7. ASSUME NEW k \in 1 .. n, g[k - 1].guarded = Upto(k - 1)
        PROVE  g[k].guarded = Upto(k) /\ g[k] = InternSymbol(g[k - 1], s[k], nameOf)
    <2>1. k - 1 \in 0 .. n /\ g[k - 1] \in V
      BY <1>1, <1>6
    <2>2. s[k] \notin Upto(k - 1)
      <3>1. ASSUME NEW j \in 1 .. k - 1, s[j] = s[k] PROVE FALSE
        <4>1. j \in 1 .. n /\ j # k
          BY <1>1
        <4>2. QED BY <3>1, <4>1 DEF Once
      <3>2. QED BY <3>1
    <2>3. g[k] = InternSymbol(g[k - 1], s[k], nameOf)
      BY <1>6, <1>7, <2>2
    <2>4. Upto(k) = Upto(k - 1) \cup {s[k]}
      <3>1. 1 .. k = (1 .. k - 1) \cup {k}
        BY <1>1
      <3>2. QED BY <3>1
    <2> HIDE DEF Upto
    <2>5. g[k].guarded = g[k - 1].guarded \cup {s[k]}
      <3>1. s[k] \in ToSet(s) /\ s[k] \notin g[k - 1].guarded
        BY <1>1, <1>7, <2>2
      <3>2. QED BY <1>2, <2>1, <2>3, <3>1
    <2>6. QED BY <1>7, <2>3, <2>4, <2>5
  <1> DEFINE Z == {k \in 0 .. n : g[k].guarded # Upto(k)}
  <1>8. Z = {}
    <2>1. Z \subseteq Nat
      BY <1>1
    <2>2. g[0].guarded = {} /\ Upto(0) = {}
      BY <1>6 DEF SymbolTable
    <2> HIDE DEF n, Upto
    <2>3. ASSUME Z # {} PROVE FALSE
      <3>1. PICK k \in Z : \A j \in Z : k <= j
        BY <2>1, <2>3, LeastNumber
      <3>2. k # 0
        BY <2>2
      <3>3. k \in 1 .. n /\ k - 1 \in 0 .. n /\ ~(k <= k - 1)
        BY <3>2, <1>1
      <3>4. g[k - 1].guarded = Upto(k - 1)
        BY <3>1, <3>3
      <3>5. QED BY <3>1, <3>3, <3>4, <1>7
    <2>4. QED BY <2>3
  <1>9. \A k \in 1 .. n : g[k] = InternSymbol(g[k - 1], s[k], nameOf)
    <2>1. \A k \in 1 .. n : k - 1 \in 0 .. n
      BY <1>1
    <2> HIDE DEF n, Upto
    <2>2. \A k \in 1 .. n : g[k - 1].guarded = Upto(k - 1)
      BY <1>8, <2>1
    <2>3. QED BY <1>7, <2>2
  <1>10. g = F(g)
    <2>1. \A k \in 0 .. n : k # 0 => k \in 1 .. n
      BY <1>1
    <2>2. \A k \in 0 .. n : g[k] = F(g)[k]
      BY <1>6, <1>9, <2>1
    <2>3. g = [k \in 0 .. n |-> g[k]]
      BY <1>6
    <2>4. QED BY <2>2, <2>3
  <1>11. ASSUME NEW h, h = F(h) PROVE h[n] = g[n]
    <2>1. h[0] = b /\ \A k \in 1 .. n : h[k] = InternSymbol(h[k - 1], s[k], nameOf)
      <3>1. \A k \in 0 .. n : h[k] = F(h)[k]
        BY <1>11
      <3>2. 0 \in 0 .. n /\ \A k \in 1 .. n : k \in 0 .. n /\ k # 0
        BY <1>1
      <3>3. QED BY <3>1, <3>2
    <2> DEFINE T == {k \in 0 .. n : h[k] # g[k]}
    <2>2. T \subseteq Nat
      BY <1>1
    <2> HIDE DEF n
    <2>3. ASSUME T # {} PROVE FALSE
      <3>1. PICK k \in T : \A j \in T : k <= j
        BY <2>2, <2>3, LeastNumber
      <3>2. k # 0
        BY <1>6, <2>1
      <3>3. k \in 1 .. n /\ k - 1 \in 0 .. n /\ ~(k <= k - 1)
        BY <3>2, <1>1
      <3>4. h[k - 1] = g[k - 1]
        BY <3>1, <3>3
      <3>5. h[k] = g[k]
        BY <2>1, <1>9, <3>3, <3>4
      <3>6. QED BY <3>5
    <2>4. n \in 0 .. n
      BY <1>1
    <2>5. QED BY <2>3, <2>4
  <1>12. u = g[n]
    <2> DEFINE c == CHOOSE h : h = F(h)
    <2>1. c = F(c)
      BY <1>10
    <2>2. Interned(s) = c[n]
      BY Zenon DEF Interned
    <2> HIDE DEF c, F
    <2>3. QED BY <1>11, <2>1, <2>2
  <1>13. g[n] \in V /\ g[n].guarded = Upto(n)
    BY <1>1, <1>6, <1>8
  <1>14. Upto(n) = ToSet(s)
    BY ElementHeld
  <1> HIDE DEF Upto
  <1>15. SchemeTable(u, u.guarded, nameOf)
    BY <1>12, <1>13 DEF V, Good
  <1>16. QED BY <1>12, <1>13, <1>14, <1>15

\* at first both tables are empty
LEMMA SymbolsInvInit == SymbolsInit => SymbolsInv
  <1> SUFFICES ASSUME SymbolsInit PROVE SymbolsInv
    OBVIOUS
  <1>1. /\ ctable = [i \in 0 .. CBuckets - 1 |-> << >>]
        /\ nameOf = [s \in Symbol |-> NoName] /\ chains = [i \in 0 .. FirstLength - 1 |-> << >>]
        /\ len = 0 /\ guarded = {} /\ queue = << >> /\ valued = {} /\ seeking = Broken
        /\ held = {} /\ weakly = {} /\ recovered = {}
    BY DEF SymbolsInit
  <1>2. Live = {}
    BY <1>1 DEF Live
  <1>3. CBuckets \in Nat \ {0}
    BY SymbolsAssumption
  <1> DEFINE X == Symbol
  <1>4. TableOf(X, CBuckets, ctable, {}, nameOf)
    <2> HIDE DEF X
    <2>1. QED BY <1>1, <1>3, TableEmpty
  <1>5. ctable # Gone
    <2> HIDE DEF X
    <2>1. QED BY <1>4, TableThere
  <1>6. BeforeHandover
    BY <1>1, <1>2, <1>4 DEF BeforeHandover
  <1>7. SymbolsTypes
    BY <1>1, <1>2 DEF SymbolsTypes
  <1>8. QED BY <1>5, <1>6, <1>7 DEF SymbolsInv

\* a symbol that there is not as yet
LEMMA NewSymbolIsNew ==
  ASSUME Live # Symbol
  PROVE  NewSymbol \in Symbol /\ NewSymbol \notin Live
  <1>1. Symbol \ Live # {} /\ Symbol \ Live \subseteq Nat
    BY SymbolsAssumption DEF Symbol, Live
  <1>2. NewSymbol \in Symbol \ Live
    <2> DEFINE S == Symbol \ Live
    <2>1. S # {} /\ S \subseteq Nat
      BY <1>1
    <2> HIDE DEF S
    <2>2. Min(S) \in S
      BY <2>1, MinIsLeast
    <2>3. QED BY <2>2 DEF S, NewSymbol
  <1>3. QED BY <1>2

\* ik_make_symbol and $make-symbol
LEMMA MakesSymbol ==
  ASSUME SymbolsTypes, NEW x \in Symbol, x \notin Live, NEW n \in Names,
         nameOf' = [nameOf EXCEPT ![x] = n]
  PROVE  /\ nameOf' \in [Symbol -> Names \cup {NoName}]
         /\ Live' = Live \cup {x} /\ nameOf'[x] = n
         /\ \A s \in Live : nameOf'[s] = nameOf[s]
  <1>1. nameOf \in [Symbol -> Names \cup {NoName}]
    BY DEF SymbolsTypes
  <1>2. n # NoName
    BY SymbolsAssumption
  <1>3. QED BY <1>1, <1>2 DEF Live

\* ikrt_string_to_symbol
LEMMA CInternKeeps ==
  ASSUME SymbolsInv, NEW n \in Names, CIntern(n)
  PROVE  SymbolsInv'
  <1> DEFINE X == Symbol
             list == ctable[Index(n, CBuckets)]
             o == Only(list, {s \in ToSet(list) : nameOf[s] = n})
  <1>1. SymbolsTypes /\ BeforeHandover /\ ctable # Gone
    BY DEF SymbolsInv, CIntern
  <1>2. UNCHANGED <<chains, len, guarded, queue, valued, seeking, weakly, recovered>>
    BY DEF CIntern
  <1>3. TableOf(X, CBuckets, ctable, Live, nameOf)
    BY <1>1 DEF BeforeHandover
  <1>4. /\ o = << >> => \A s \in Live : nameOf[s] # n
        /\ o # << >> => \E s \in Live : nameOf[s] = n /\ o = <<s>> /\ Head(o) = s
    <2>1. PICK l : l = list
      OBVIOUS
    <2>3. l = ctable[Index(n, CBuckets)]
      BY <2>1
    <2>4. Matches(l, nameOf, n) = o
      BY <2>1 DEF Matches
    <2> HIDE DEF list, o, X
    <2>5. Found(Matches(l, nameOf, n), Live, nameOf, n)
      BY <1>3, <2>3, TableFinds
    <2>6. QED BY <2>4, <2>5 DEF Found
  <1>5. o = Named(ctable[Index(n, CBuckets)], n)
    BY DEF Named
  <1> HIDE DEF o
  <1>6. CASE o # << >> /\ held' = held \cup {Head(o)} /\ UNCHANGED <<ctable, nameOf>>
    <2>1. Head(o) \in Live /\ Live' = Live
      BY <1>4, <1>6 DEF Live
    <2>2. SymbolsTypes'
      BY <1>1, <1>2, <1>6, <2>1 DEF SymbolsTypes
    <2>3. BeforeHandover'
      BY <1>1, <1>2, <1>6, <2>1 DEF BeforeHandover
    <2>4. ctable' # Gone
      BY <1>1, <1>6
    <2>5. QED BY <2>2, <2>3, <2>4 DEF SymbolsInv
  <1>7. CASE /\ o = << >> /\ Live # Symbol
             /\ ctable' = [ctable EXCEPT ![Index(n, CBuckets)] = <<NewSymbol>> \o @]
             /\ nameOf' = [nameOf EXCEPT ![NewSymbol] = n]
             /\ held' = held \cup {NewSymbol}
    <2>1. PICK x : x = NewSymbol
      OBVIOUS
    <2>2. x \in X /\ x \notin Live
      BY <1>7, <2>1, NewSymbolIsNew
    <2>3. /\ nameOf' \in [Symbol -> Names \cup {NoName}]
          /\ Live' = Live \cup {x} /\ nameOf'[x] = n
          /\ \A s \in Live : nameOf'[s] = nameOf[s]
      BY <1>1, <1>7, <2>1, <2>2, MakesSymbol
    <2>4. PICK i : i = Index(n, CBuckets)
      OBVIOUS
    <2>5. ctable' = Put(ctable, i, x)
      BY <1>7, <2>1, <2>4 DEF Put
    <2>6. TableOf(X, CBuckets, ctable', Live \cup {x}, nameOf')
      <3> HIDE DEF X
      <3>1. TableOf(X, CBuckets, ctable, Live, nameOf')
        BY <1>3, <2>3, TableRenamed
      <3>2. nameOf'[x] \in Names /\ \A s \in Live : nameOf'[s] # nameOf'[x]
        BY <1>4, <1>7, <2>3
      <3>3. i = Index(nameOf'[x], CBuckets)
        BY <2>3, <2>4
      <3>4. QED BY <2>2, <2>5, <3>1, <3>2, <3>3, TablePut
    <2>7. ctable' # Gone
      <3> DEFINE T == Live \cup {x}
      <3>1. TableOf(X, CBuckets, ctable', T, nameOf')
        BY <2>6
      <3> HIDE DEF X, T
      <3>2. QED BY <3>1, TableThere
    <2>8. BeforeHandover'
      BY <1>1, <1>2, <2>3, <2>6 DEF BeforeHandover
    <2>9. SymbolsTypes'
      <3>1. held' \cup valued' \cup weakly' \subseteq Live'
        BY <1>1, <1>2, <1>7, <2>1, <2>3 DEF SymbolsTypes
      <3>2. guarded' \subseteq Symbol /\ queue' \in Seq(Symbol) /\ seeking' \in Symbol \cup {Broken}
        BY <1>1, <1>2 DEF SymbolsTypes
      <3>3. QED BY <2>3, <3>1, <3>2 DEF SymbolsTypes
    <2>10. QED BY <2>7, <2>8, <2>9 DEF SymbolsInv
  <1>8. \/ o # << >> /\ held' = held \cup {Head(o)} /\ UNCHANGED <<ctable, nameOf>>
        \/ /\ o = << >> /\ Live # Symbol
           /\ ctable' = [ctable EXCEPT ![Index(n, CBuckets)] = <<NewSymbol>> \o @]
           /\ nameOf' = [nameOf EXCEPT ![NewSymbol] = n]
           /\ held' = held \cup {NewSymbol}
    BY <1>5 DEF CIntern
  <1>9. QED BY <1>6, <1>7, <1>8

\* initialize-symbol-table!
LEMMA HandoverKeeps ==
  ASSUME SymbolsInv, Handover
  PROVE  SymbolsInv'
  <1> DEFINE X == Symbol
  <1>1. SymbolsTypes /\ BeforeHandover /\ ctable # Gone
    BY DEF SymbolsInv, Handover
  <1>2. ctable' = Gone /\ UNCHANGED <<queue, nameOf, valued, seeking, held, weakly, recovered>>
    BY DEF Handover
  <1>3. PICK s : s = Joined(ctable)
    OBVIOUS
  <1>4. PICK u : u = Interned(s)
    OBVIOUS
  <1>5. chains' = u.chains /\ len' = u.len /\ guarded' = u.guarded
    BY <1>3, <1>4 DEF Handover, SetSymbolTable
  <1>6. TableOf(X, CBuckets, ctable, Live, nameOf)
    BY <1>1 DEF BeforeHandover
  <1>7. s \in Seq(X) /\ Once(s) /\ ToSet(s) = Live
    <2>1. Tidy(X, CBuckets, ctable) /\ Elements(ctable) = Live
      BY <1>6 DEF TableOf
    <2> HIDE DEF X
    <2>2. QED BY <1>3, <2>1, JoinedHolds
  <1>8. SchemeTable(SymbolTable, {}, nameOf)
    <2>1. FirstLength \in Nat \ {0} /\ chains = [i \in 0 .. FirstLength - 1 |-> << >>] /\ len = 0
      BY <1>1, SymbolsAssumption DEF BeforeHandover
    <2>2. TableOf(X, FirstLength, chains, {}, nameOf) /\ ChainCount(chains) = FirstLength
      <3> HIDE DEF X
      <3>1. QED BY <2>1, TableEmpty
    <2>3. SymbolTable.chains = chains /\ SymbolTable.len = len
      BY DEF SymbolTable
    <2>4. Cardinality({}) = 0
      BY FS_EmptySet
    <2>5. QED BY <2>1, <2>2, <2>3, <2>4 DEF SchemeTable
  <1>9. /\ \A x \in Live : nameOf[x] \in Names
        /\ \A x, y \in Live : nameOf[x] = nameOf[y] => x = y
    BY <1>6 DEF TableOf
  <1>10. SchemeTable(u, Live, nameOf) /\ u.guarded = Live
    <2>1. /\ \A x \in ToSet(s) : nameOf[x] \in Names
          /\ \A x, y \in ToSet(s) : nameOf[x] = nameOf[y] => x = y
      BY <1>7, <1>9
    <2>2. guarded = {} /\ len = 0 /\ chains \in [0 .. FirstLength - 1 -> Seq(Symbol)] /\ s \in Seq(Symbol)
      BY <1>1, <1>7 DEF BeforeHandover
    <2>3. SchemeTable(u, ToSet(s), nameOf) /\ u.guarded = ToSet(s)
      BY <1>4, <1>7, <1>8, <2>1, <2>2, InternsAll
    <2>4. QED BY <1>7, <2>3
  <1>11. queue' = << >> /\ ToSet(queue') = {} /\ Once(queue') /\ seeking' = Broken
    BY <1>1, <1>2 DEF BeforeHandover, ToSet, Once
  <1>12. Interneds' = Live /\ Live' = Live
    BY <1>2, <1>5, <1>10, <1>11 DEF Interneds, Live
  <1>13. SchemeWhole'
    <2>1. TableOf(Symbol, ChainCount(chains'), chains', Live, nameOf') /\ len' = Cardinality(Live)
      BY <1>2, <1>5, <1>10 DEF SchemeTable
    <2>2. QED BY <1>11, <1>12, <2>1 DEF SchemeWhole
  <1>14. SchemeKept'
    BY <1>1, <1>2, <1>5, <1>10, <1>12 DEF SymbolsTypes, SchemeKept
  <1>15. SymbolsTypes'
    <2>1. Live \subseteq Symbol
      BY DEF Live
    <2>2. QED BY <1>1, <1>2, <1>5, <1>10, <1>12, <2>1 DEF SymbolsTypes
  <1>16. QED BY <1>2, <1>13, <1>14, <1>15 DEF SymbolsInv

\* what the table holds is there
LEMMA InternedsLive ==
  ASSUME SymbolsTypes, SchemeWhole
  PROVE  Interneds \subseteq Live /\ \A s \in Live : nameOf[s] \in Names
  <1>1. \A s \in Interneds : nameOf[s] \in Names /\ s \in Symbol
    BY DEF SchemeWhole, TableOf, SymbolsTypes, Interneds, ToSet
  <1>2. QED BY <1>1, SymbolsAssumption DEF Live, SymbolsTypes

\* string->symbol up to bleed-guardian
LEMMA LookupKeeps ==
  ASSUME SymbolsInv, NEW n \in Names, Lookup(n)
  PROVE  SymbolsInv'
  <1> DEFINE X == Symbol
             list == chains[Index(n, ChainCount(chains))]
             o == Only(list, {s \in ToSet(list) : nameOf[s] = n})
  <1>1. SymbolsTypes /\ SchemeWhole /\ SchemeKept /\ ctable = Gone /\ ctable' = Gone
    BY DEF SymbolsInv, Lookup
  <1>2. UNCHANGED <<queue, valued, held, weakly, recovered>>
    BY DEF Lookup
  <1>3. PICK k : k = ChainCount(chains)
    OBVIOUS
  <1>4. TableOf(X, k, chains, Interneds, nameOf) /\ len = Cardinality(Interneds)
    BY <1>1, <1>3 DEF SchemeWhole
  <1>5. /\ o = << >> => \A s \in Interneds : nameOf[s] # n
        /\ o # << >> => \E s \in Interneds : nameOf[s] = n /\ o = <<s>> /\ Head(o) = s
    <2>1. PICK l : l = list
      OBVIOUS
    <2>3. l = chains[Index(n, k)]
      BY <1>3, <2>1
    <2>4. Matches(l, nameOf, n) = o
      BY <2>1 DEF Matches
    <2> HIDE DEF list, o, X
    <2>5. Found(Matches(l, nameOf, n), Interneds, nameOf, n)
      BY <1>4, <2>3, TableFinds
    <2>6. QED BY <2>4, <2>5 DEF Found
  <1>6. o = Named(chains[Index(n, ChainCount(chains))], n)
    BY DEF Named
  <1>7. Interneds \subseteq Live
    BY <1>1, InternedsLive
  <1>70. Interneds \subseteq Symbol /\ Live \subseteq Symbol
    BY <1>7 DEF Live
  <1> HIDE DEF o
  <1>8. CASE o # << >> /\ seeking' = Head(o) /\ UNCHANGED <<chains, len, guarded, nameOf>>
    <2>1. Interneds' = Interneds /\ Live' = Live
      BY <1>2, <1>8 DEF Live, Interneds
    <2>2. seeking' \in Interneds /\ seeking' \in Symbol
      BY <1>5, <1>8, <1>70
    <2>3. SymbolsTypes'
      BY <1>1, <1>2, <1>8, <2>1, <2>2 DEF SymbolsTypes
    <2>4. SchemeWhole'
      BY <1>1, <1>2, <1>8, <2>1, <2>2 DEF SchemeWhole
    <2>5. SchemeKept'
      BY <1>1, <1>2, <1>8, <2>1 DEF SchemeKept
    <2>6. QED BY <1>1, <2>3, <2>4, <2>5 DEF SymbolsInv
  <1>9. CASE /\ o = << >> /\ Live # Symbol
             /\ seeking' = NewSymbol
             /\ nameOf' = [nameOf EXCEPT ![NewSymbol] = n]
             /\ SetSymbolTable(InternSymbol(SymbolTable, NewSymbol, nameOf'))
    <2>1. PICK x : x = NewSymbol
      OBVIOUS
    <2>2. x \in X /\ x \notin Live
      BY <1>9, <2>1, NewSymbolIsNew
    <2>3. /\ nameOf' \in [Symbol -> Names \cup {NoName}]
          /\ Live' = Live \cup {x} /\ nameOf'[x] = n
          /\ \A s \in Live : nameOf'[s] = nameOf[s]
      BY <1>1, <1>9, <2>1, <2>2, MakesSymbol
    <2>4. PICK t : t = SymbolTable
      OBVIOUS
    <2>5. PICK u : u = InternSymbol(t, x, nameOf')
      OBVIOUS
    <2>6. chains' = u.chains /\ len' = u.len /\ guarded' = u.guarded
      BY <1>9, <2>1, <2>4, <2>5 DEF SetSymbolTable
    <2>7. t.chains = chains /\ t.len = len /\ t.guarded = guarded
      BY <2>4 DEF SymbolTable
    <2>8. SchemeTable(t, Interneds, nameOf')
      <3>1. TableOf(X, k, chains, Interneds, nameOf')
        <4>1. \A s \in Interneds : nameOf'[s] = nameOf[s]
          BY <1>7, <2>3
        <4> HIDE DEF X
        <4>2. QED BY <1>4, <4>1, TableRenamed
      <3>2. QED BY <1>3, <1>4, <2>7, <3>1 DEF SchemeTable
    <2>9. x \notin Interneds /\ nameOf'[x] \in Names /\ \A r \in Interneds : nameOf'[r] # nameOf'[x] /\ x \in Symbol
      BY <1>5, <1>7, <1>9, <2>2, <2>3
    <2>90. x \in Symbol
      BY <2>2
    <2>10. SchemeTable(u, Interneds \cup {x}, nameOf') /\ u.guarded = t.guarded \cup {x}
      <3> HIDE DEF X
      <3>1. QED BY <2>5, <2>8, <2>9, <2>90, InternsOne
    <2>11. Interneds' = Interneds \cup {x} /\ guarded' = guarded \cup {x}
      BY <1>2, <2>6, <2>7, <2>10 DEF Interneds
    <2>12. SchemeWhole'
      <3>1. TableOf(Symbol, ChainCount(chains'), chains', Interneds', nameOf') /\ len' = Cardinality(Interneds')
        BY <2>6, <2>10, <2>11 DEF SchemeTable
      <3>2. guarded' \cap ToSet(queue') = {}
        BY <1>1, <1>2, <2>9, <2>11 DEF SchemeWhole, Interneds
      <3>3. Once(queue')
        BY <1>1, <1>2 DEF SchemeWhole
      <3>4. seeking' \in Interneds'
        BY <1>9, <2>1, <2>11
      <3>5. QED BY <3>1, <3>2, <3>3, <3>4 DEF SchemeWhole
    <2>13. SchemeKept'
      BY <1>1, <1>2, <2>11 DEF SchemeKept
    <2>14. SymbolsTypes'
      <3>1. held' \cup valued' \cup weakly' \subseteq Live'
        BY <1>1, <1>2, <2>3 DEF SymbolsTypes
      <3>2. guarded' \subseteq Symbol /\ queue' \in Seq(Symbol) /\ seeking' \in Symbol
        BY <1>1, <1>2, <1>9, <2>1, <2>90, <2>11 DEF SymbolsTypes
      <3>3. QED BY <2>3, <3>1, <3>2 DEF SymbolsTypes
    <2>15. QED BY <1>1, <2>12, <2>13, <2>14 DEF SymbolsInv
  <1>10. \/ o # << >> /\ seeking' = Head(o) /\ UNCHANGED <<chains, len, guarded, nameOf>>
         \/ /\ o = << >> /\ Live # Symbol
            /\ seeking' = NewSymbol
            /\ nameOf' = [nameOf EXCEPT ![NewSymbol] = n]
            /\ SetSymbolTable(InternSymbol(SymbolTable, NewSymbol, nameOf'))
    BY <1>6 DEF Lookup
  <1>11. QED BY <1>8, <1>9, <1>10

\* the head of the queue is in the table, and not guarded
LEMMA QueueHead ==
  ASSUME SymbolsTypes, SchemeWhole, queue # << >>
  PROVE  /\ Head(queue) \in Symbol /\ Head(queue) \notin guarded
         /\ Tail(queue) \in Seq(Symbol) /\ Once(Tail(queue))
         /\ ToSet(queue) = ToSet(Tail(queue)) \cup {Head(queue)}
         /\ Head(queue) \notin ToSet(Tail(queue))
         /\ Head(queue) \in Interneds
  <1>1. queue \in Seq(Symbol) /\ Once(queue) /\ guarded \cap ToSet(queue) = {}
    BY DEF SymbolsTypes, SchemeWhole
  <1>2. PICK q \in Seq(Symbol) : q = queue
    BY <1>1
  <1>3. /\ Tail(q) \in Seq(Symbol) /\ Once(Tail(q)) /\ Head(q) \in Symbol
        /\ ToSet(q) = ToSet(Tail(q)) \cup {Head(q)} /\ Head(q) \notin ToSet(Tail(q))
    <2> DEFINE X == Symbol
    <2>1. q \in Seq(X) /\ q # << >> /\ Once(q)
      BY <1>1, <1>2
    <2> HIDE DEF X
    <2>2. /\ Tail(q) \in Seq(X) /\ Once(Tail(q)) /\ Head(q) \in X
          /\ ToSet(q) = ToSet(Tail(q)) \cup {Head(q)} /\ Head(q) \notin ToSet(Tail(q))
      BY <2>1, TailOnce
    <2>3. QED BY <2>2 DEF X
  <1>4. QED BY <1>1, <1>2, <1>3 DEF Interneds

\* bleed-guardian registers the head of the queue anew
LEMMA ReguardsHead ==
  ASSUME SymbolsTypes, SchemeWhole, SchemeKept, queue # << >>,
         queue' = Tail(queue), Reguard(Head(queue)), nameOf' = nameOf
  PROVE  /\ Interneds' = Interneds /\ guarded' = guarded \cup {Head(queue)}
         /\ guarded' \cap ToSet(queue') = {} /\ Once(queue') /\ queue' \in Seq(Symbol)
         /\ chains' = chains /\ len' = len /\ guarded' \subseteq Symbol
         /\ TableOf(Symbol, ChainCount(chains'), chains', Interneds', nameOf')
         /\ len' = Cardinality(Interneds')
  <1>1. PICK h : h = Head(queue)
    OBVIOUS
  <1>2. PICK t : t = Tail(queue)
    OBVIOUS
  <1>3. /\ h \in Symbol /\ h \notin guarded /\ t \in Seq(Symbol) /\ Once(t)
        /\ ToSet(queue) = ToSet(t) \cup {h} /\ h \notin ToSet(t)
    BY <1>1, <1>2, QueueHead
  <1>4. queue' = t /\ guarded' = guarded \cup {h} /\ chains' = chains /\ len' = len
    BY <1>1, <1>2 DEF Reguard
  <1>5. Interneds' = Interneds
    BY <1>3, <1>4 DEF Interneds
  <1>6. guarded' \cap ToSet(queue') = {}
    BY <1>3, <1>4 DEF SchemeWhole
  <1>7. guarded' \subseteq Symbol
    BY <1>3, <1>4 DEF SymbolsTypes
  <1>8. QED BY <1>1, <1>3, <1>4, <1>5, <1>6, <1>7 DEF SchemeWhole

\* bleed-guardian
LEMMA BleedKeeps ==
  ASSUME SymbolsInv, Bleed
  PROVE  SymbolsInv'
  <1>1. ctable = Gone
    BY DEF SymbolsInv, BeforeHandover, Bleed
  <1>2. SymbolsTypes /\ SchemeWhole /\ SchemeKept /\ ctable' = Gone /\ UNCHANGED <<nameOf, valued, weakly>>
        /\ seeking # Broken
    BY <1>1 DEF SymbolsInv, Bleed
  <1>3. Live' = Live /\ seeking \in Interneds /\ Interneds \subseteq Live /\ Live \subseteq Symbol
    BY <1>2, InternedsLive DEF Live, SchemeWhole
  <1>4. CASE queue = << >> /\ Return /\ UNCHANGED <<chains, len, guarded, queue, recovered>>
    <2>1. ToSet(queue) = {}
      BY <1>4 DEF ToSet
    <2>2. Interneds' = Interneds /\ Interneds = guarded
      BY <1>4, <2>1 DEF Interneds
    <2>3. held' = held \cup {seeking} /\ seeking' = Broken
      BY <1>4 DEF Return
    <2>4. SymbolsTypes'
      BY <1>2, <1>3, <1>4, <2>3 DEF SymbolsTypes
    <2>5. SchemeWhole'
      BY <1>2, <1>4, <2>2, <2>3 DEF SchemeWhole
    <2>6. SchemeKept'
      BY <1>2, <1>3, <1>4, <2>2, <2>3 DEF SchemeKept
    <2>7. QED BY <1>2, <2>4, <2>5, <2>6 DEF SymbolsInv
  <1>5. CASE queue # << >> /\ queue' = Tail(queue) /\ Reguard(Head(queue))
    <2>1. PICK h : h = Head(queue)
      OBVIOUS
    <2>2. /\ Interneds' = Interneds /\ guarded' = guarded \cup {h}
          /\ guarded' \cap ToSet(queue') = {} /\ Once(queue') /\ queue' \in Seq(Symbol)
          /\ guarded' \subseteq Symbol
          /\ TableOf(Symbol, ChainCount(chains'), chains', Interneds', nameOf')
          /\ len' = Cardinality(Interneds')
      BY <1>2, <1>5, <2>1, ReguardsHead
    <2>3. recovered' = recovered \ {h}
      BY <1>5, <2>1 DEF Reguard
    <2>4. h \in Interneds
      BY <1>2, <1>5, <2>1, QueueHead
    <2>5. CASE h = seeking /\ Return
      <3>1. held' = held \cup {seeking} /\ seeking' = Broken
        BY <2>5 DEF Return
      <3>2. SymbolsTypes'
        BY <1>2, <1>3, <2>2, <3>1 DEF SymbolsTypes
      <3>3. SchemeWhole'
        BY <2>2, <3>1 DEF SchemeWhole
      <3>4. SchemeKept'
        BY <1>2, <2>2, <2>3, <2>4, <2>5, <3>1 DEF SchemeKept
      <3>5. QED BY <1>2, <3>2, <3>3, <3>4 DEF SymbolsInv
    <2>6. CASE UNCHANGED <<held, seeking>>
      <3>1. SymbolsTypes'
        BY <1>2, <1>3, <2>2, <2>6 DEF SymbolsTypes
      <3>2. SchemeWhole'
        BY <1>3, <2>2, <2>6 DEF SchemeWhole
      <3>3. SchemeKept'
        BY <1>2, <2>2, <2>3, <2>4, <2>6 DEF SchemeKept
      <3>4. QED BY <1>2, <3>1, <3>2, <3>3 DEF SymbolsInv
    <2>7. (h = seeking /\ Return) \/ UNCHANGED <<held, seeking>>
      BY <1>5, <2>1 DEF Bleed
    <2>8. QED BY <2>5, <2>6, <2>7
  <1>6. CASE /\ queue # << >> /\ queue' = Tail(queue) /\ Head(queue) # seeking
             /\ Dead(Head(queue)) /\ Unintern(Head(queue)) /\ UNCHANGED recovered
             /\ UNCHANGED <<held, seeking>>
    <2>1. PICK h : h = Head(queue)
      OBVIOUS
    <2>2. PICK t : t = Tail(queue)
      OBVIOUS
    <2>3. /\ h \in Symbol /\ h \notin guarded /\ t \in Seq(Symbol) /\ Once(t)
          /\ ToSet(queue) = ToSet(t) \cup {h} /\ h \notin ToSet(t) /\ h \in Interneds
      BY <1>2, <1>6, <2>1, <2>2, QueueHead
    <2>4. queue' = t /\ guarded' = guarded /\ len' = len - 1 /\ h \notin valued /\ h # seeking
      BY <1>6, <2>1, <2>2 DEF Unintern, Dead
    <2>5. Interneds' = Interneds \ {h}
      BY <2>3, <2>4 DEF Interneds
    <2>6. PICK n : n = ChainCount(chains)
      OBVIOUS
    <2>7. PICK i : i = Index(nameOf[h], n)
      OBVIOUS
    <2>8. chains' = Take(chains, i, h)
      BY <1>6, <2>1, <2>6, <2>7 DEF Unintern, Take
    <2> DEFINE X == Symbol
    <2>9. TableOf(X, n, chains, Interneds, nameOf) /\ len = Cardinality(Interneds)
      BY <1>2, <2>6 DEF SchemeWhole
    <2>10. TableOf(X, n, chains', Interneds \ {h}, nameOf) /\ IsFiniteSet(Interneds)
      <3> HIDE DEF X
      <3>1. TableOf(X, n, chains', Interneds \ {h}, nameOf)
        BY <2>3, <2>7, <2>8, <2>9, TableTake
      <3>2. IsFiniteSet(Interneds)
        BY <2>9, TablePlaces
      <3>3. QED BY <3>1, <3>2
    <2>11. ChainCount(chains') = n
      <3> DEFINE T == Interneds \ {h}
      <3>1. TableOf(X, n, chains', T, nameOf)
        BY <2>10
      <3> HIDE DEF X, T
      <3>2. QED BY <3>1, TablePlaces
    <2>12. len' = Cardinality(Interneds')
      <3>1. Cardinality(Interneds \ {h}) = Cardinality(Interneds) - 1
        BY <2>3, <2>10, FS_RemoveElement
      <3>2. QED BY <2>4, <2>5, <2>9, <3>1
    <2>13. SchemeWhole'
      <3>1. guarded' \cap ToSet(queue') = {}
        BY <1>2, <2>3, <2>4 DEF SchemeWhole
      <3>2. TableOf(Symbol, ChainCount(chains'), chains', Interneds', nameOf')
        BY <1>2, <2>5, <2>10, <2>11
      <3>3. seeking' \in Interneds'
        BY <1>3, <1>6, <2>4, <2>5
      <3>4. QED BY <2>3, <2>4, <2>12, <3>1, <3>2, <3>3 DEF SchemeWhole
    <2>14. SchemeKept'
      BY <1>2, <1>6, <2>3, <2>4, <2>5 DEF SchemeKept
    <2>15. SymbolsTypes'
      BY <1>2, <1>3, <1>6, <2>3, <2>4 DEF SymbolsTypes
    <2>16. QED BY <1>2, <2>13, <2>14, <2>15 DEF SymbolsInv
  <1>7. QED BY <1>4, <1>5, <1>6 DEF Bleed

\* what the program does to symbols leaves the tables alone
LEMMA ProgramKeeps ==
  ASSUME SymbolsInv, UNCHANGED <<ctable, chains, len, guarded, queue, nameOf, seeking>>,
         held' \cup valued' \cup weakly' \subseteq Live,
         ctable # Gone => recovered' = recovered,
         held' \ recovered' \subseteq (held \ recovered) \cup guarded,
         valued' \ recovered' \subseteq (held \ recovered) \cup (valued \ recovered)
  PROVE  SymbolsInv'
  <1>1. Live' = Live /\ Interneds' = Interneds
    BY DEF Live, Interneds
  <1>2. SymbolsTypes'
    BY <1>1 DEF SymbolsInv, SymbolsTypes
  <1>3. ASSUME ctable # Gone PROVE BeforeHandover'
    BY <1>1, <1>3 DEF SymbolsInv, BeforeHandover
  <1>4. ASSUME ctable = Gone PROVE SchemeWhole' /\ SchemeKept'
    <2>1. SchemeWhole /\ SchemeKept
      BY <1>4 DEF SymbolsInv
    <2>2. SchemeWhole'
      BY <1>1, <2>1 DEF SchemeWhole
    <2>3. SchemeKept'
      BY <1>1, <2>1 DEF SchemeKept, Interneds
    <2>4. QED BY <2>2, <2>3
  <1>5. QED BY <1>2, <1>3, <1>4 DEF SymbolsInv

\* the steps of the program
LEMMA ProgramSteps ==
  ASSUME SymbolsInv, NEW s \in Symbol, Drop(s) \/ SetValue(s) \/ KeepWeakly(s) \/ TakeWeak(s)
  PROVE  SymbolsInv'
  <1>1. held \cup valued \cup weakly \subseteq Live
    BY DEF SymbolsInv, SymbolsTypes
  <1>2. CASE Drop(s)
    BY <1>1, <1>2, ProgramKeeps DEF Drop
  <1>3. CASE SetValue(s)
    BY <1>1, <1>3, ProgramKeeps DEF SetValue
  <1>4. CASE KeepWeakly(s)
    BY <1>1, <1>4, ProgramKeeps DEF KeepWeakly
  <1>5. CASE TakeWeak(s)
    <2>1. /\ UNCHANGED <<ctable, chains, len, guarded, queue, nameOf, seeking>>
          /\ UNCHANGED <<valued, weakly>> /\ held' = held \cup {s} /\ s \in weakly
          /\ recovered' = IF ctable = Gone /\ s \notin guarded THEN recovered \cup {s} ELSE recovered
      BY <1>5 DEF TakeWeak
    <2>2. ctable # Gone => recovered' = recovered
      BY <2>1
    <2>3. CASE ctable = Gone
      <3>1. held' \ recovered' \subseteq (held \ recovered) \cup guarded
        BY <2>1, <2>3
      <3>2. valued' \ recovered' \subseteq valued \ recovered
        BY <2>1
      <3>3. QED BY <1>1, <2>1, <2>2, <3>1, <3>2, ProgramKeeps
    <2>4. CASE ctable # Gone
      <3>1. Live' = Live
        BY <2>1 DEF Live
      <3>2. SymbolsTypes'
        BY <1>1, <2>1, <3>1 DEF SymbolsInv, SymbolsTypes
      <3>3. BeforeHandover'
        BY <2>1, <2>4, <3>1 DEF SymbolsInv, BeforeHandover
      <3>4. QED BY <2>1, <2>4, <3>2, <3>3 DEF SymbolsInv
    <2>5. QED BY <2>3, <2>4
  <1>6. QED BY <1>2, <1>3, <1>4, <1>5

\* a collection
LEMMA CollectSymbolKeeps ==
  ASSUME SymbolsInv, NEW s \in Symbol, CollectSymbol(s)
  PROVE  SymbolsInv'
  <1>1. SymbolsTypes /\ s \in Live /\ ~Reached(s) /\ UNCHANGED <<ctable, len, seeking, held>>
    BY DEF SymbolsInv, CollectSymbol
  <1>2. ctable = Gone
    <2>1. ASSUME ctable # Gone PROVE FALSE
      <3> DEFINE X == Symbol
      <3>1. TableOf(X, CBuckets, ctable, Live, nameOf)
        BY <2>1 DEF SymbolsInv, BeforeHandover
      <3>2. PICK i : i = Index(nameOf[s], CBuckets)
        OBVIOUS
      <3>3. i \in DOMAIN ctable /\ ctable[i] \in Seq(X) /\ s \in ToSet(ctable[i])
        <4> HIDE DEF X
        <4>1. QED BY <1>1, <3>1, <3>2, TablePlaces
      <3>4. Contains(ctable[i], s)
        <4> HIDE DEF X
        <4>1. PICK l \in Seq(X) : l = ctable[i]
          BY <3>3
        <4>2. \E j \in 1 .. Len(l) : l[j] = s
          BY <3>3, <4>1, ElementHeld
        <4>3. QED BY <4>1, <4>2 DEF Contains
      <3>5. InCTable(s)
        BY <2>1, <3>3, <3>4 DEF InCTable
      <3>6. QED BY <1>1, <3>5 DEF Reached
    <2>2. QED BY <2>1
  <1>3. SchemeWhole /\ SchemeKept /\ ctable' = Gone
    BY <1>1, <1>2 DEF SymbolsInv
  <1>4. s \notin held /\ s # seeking /\ s \notin ToSet(queue)
    <2>1. queue \in Seq(Symbol)
      BY <1>1 DEF SymbolsTypes
    <2>2. \A x : x \in ToSet(queue) <=> \E j \in 1 .. Len(queue) : queue[j] = x
      <3> DEFINE X == Symbol
      <3>1. PICK q \in Seq(X) : q = queue
        BY <2>1
      <3> HIDE DEF X
      <3>2. QED BY <3>1, ElementHeld
    <2>3. QED BY <1>1, <2>2 DEF Reached, Contains
  <1>5. CASE /\ s \in guarded /\ guarded' = guarded \ {s} /\ queue' = Append(queue, s)
             /\ UNCHANGED <<chains, nameOf, valued, weakly, recovered>>
    <2>1. PICK q \in Seq(Symbol) : q = queue
      BY <1>1 DEF SymbolsTypes
    <2>2. Append(q, s) \in Seq(Symbol) /\ ToSet(Append(q, s)) = ToSet(q) \cup {s} /\ Once(Append(q, s))
      <3>1. Once(q) /\ s \notin ToSet(q)
        BY <1>3, <1>4, <2>1 DEF SchemeWhole
      <3>2. Append(q, s) = q \o <<s>> /\ <<s>> \in Seq(Symbol) /\ ToSet(<<s>>) = {s} /\ Once(<<s>>)
        BY DEF ToSet, Once
      <3>3. PICK w \in Seq(Symbol) : w = <<s>>
        BY <3>2
      <3> DEFINE X == Symbol
      <3>4. q \in Seq(X) /\ w \in Seq(X)
        OBVIOUS
      <3>5. Once(w) /\ ToSet(q) \cap ToSet(w) = {} /\ ToSet(w) = {s}
        BY <3>1, <3>2, <3>3
      <3> HIDE DEF X
      <3>6. q \o w \in Seq(X) /\ ToSet(q \o w) = ToSet(q) \cup ToSet(w) /\ Once(q \o w)
        BY <3>1, <3>4, <3>5, JoinOnce
      <3>7. QED BY <3>2, <3>3, <3>5, <3>6 DEF X
    <2>3. Interneds' = Interneds /\ Live' = Live
      BY <1>5, <2>1, <2>2 DEF Interneds, Live
    <2>4. SchemeWhole'
      <3>1. guarded' \cap ToSet(queue') = {} /\ Once(queue')
        BY <1>3, <1>5, <2>1, <2>2 DEF SchemeWhole
      <3>2. QED BY <1>1, <1>3, <1>5, <2>3, <3>1 DEF SchemeWhole
    <2>5. SchemeKept'
      BY <1>1, <1>3, <1>4, <1>5, <2>3 DEF SchemeKept
    <2>6. SymbolsTypes'
      BY <1>1, <1>5, <2>1, <2>2, <2>3 DEF SymbolsTypes
    <2>7. QED BY <1>3, <2>4, <2>5, <2>6 DEF SymbolsInv
  <1>6. CASE /\ s \notin guarded
             /\ chains' = [i \in DOMAIN chains |-> [j \in DOMAIN chains[i] |->
                                                      IF chains[i][j] = s THEN Broken ELSE chains[i][j]]]
             /\ nameOf' = [nameOf EXCEPT ![s] = NoName]
             /\ valued' = valued \ {s} /\ weakly' = weakly \ {s} /\ recovered' = recovered \ {s}
             /\ UNCHANGED <<guarded, queue>>
    <2> DEFINE X == Symbol
               n == ChainCount(chains)
    <2>1. Interneds' = Interneds /\ s \notin Interneds
      BY <1>4, <1>6 DEF Interneds
    <2>2. TableOf(X, n, chains, Interneds, nameOf)
      BY <1>3 DEF SchemeWhole
    <2> HIDE DEF n
    <2>3. /\ n \in Nat \ {0} /\ chains \in [0 .. n - 1 -> Seq(X)] /\ DOMAIN chains = 0 .. n - 1
          /\ \A i \in 0 .. n - 1 : chains[i] \in Seq(X)
          /\ \A i \in 0 .. n - 1 : \A r \in ToSet(chains[i]) : r \in Interneds
      <3> HIDE DEF X
      <3>1. QED BY <2>2, TablePlaces
    <2>4. ASSUME NEW i \in DOMAIN chains
          PROVE  [j \in DOMAIN chains[i] |-> IF chains[i][j] = s THEN Broken ELSE chains[i][j]] = chains[i]
      <3>1. PICK l \in Seq(X) : l = chains[i]
        BY <2>3
      <3>2. \A j \in DOMAIN l : l[j] # s
        BY <2>1, <2>3, <3>1 DEF ToSet
      <3>3. l = [j \in DOMAIN l |-> l[j]]
        OBVIOUS
      <3>4. QED BY <3>1, <3>2, <3>3
    <2>5. chains' = chains
      <3>1. chains' = [i \in DOMAIN chains |-> chains[i]]
        BY <1>6, <2>4
      <3>2. chains = [i \in DOMAIN chains |-> chains[i]]
        BY <2>3
      <3>3. QED BY <3>1, <3>2
    <2>6. nameOf \in [Symbol -> Names \cup {NoName}]
      BY <1>1 DEF SymbolsTypes
    <2>7. /\ nameOf' \in [Symbol -> Names \cup {NoName}] /\ Live' = Live \ {s}
          /\ \A r \in Interneds : nameOf'[r] = nameOf[r]
      <3>1. \A r \in Symbol : nameOf'[r] = IF r = s THEN NoName ELSE nameOf[r]
        BY <1>6, <2>6
      <3>2. Interneds \subseteq Symbol
        BY <1>1, <1>3, InternedsLive DEF Live
      <3>3. QED BY <1>6, <2>1, <2>6, <3>1, <3>2 DEF Live
    <2>8. TableOf(X, n, chains, Interneds, nameOf')
      <3> HIDE DEF X
      <3>1. QED BY <2>2, <2>7, TableRenamed
    <2>9. SchemeWhole'
      BY <1>1, <1>3, <1>6, <2>1, <2>5, <2>8 DEF SchemeWhole, n
    <2>10. SchemeKept'
      BY <1>1, <1>3, <1>4, <1>6, <2>1 DEF SchemeKept
    <2>11. SymbolsTypes'
      <3>1. held' \cup valued' \cup weakly' \subseteq Live'
        BY <1>1, <1>4, <1>6, <2>7 DEF SymbolsTypes
      <3>2. guarded' \subseteq Symbol /\ queue' \in Seq(Symbol) /\ seeking' \in Symbol \cup {Broken}
        BY <1>1, <1>6 DEF SymbolsTypes
      <3>3. QED BY <2>7, <3>1, <3>2 DEF SymbolsTypes
    <2>12. QED BY <1>3, <2>9, <2>10, <2>11 DEF SymbolsInv
  <1>7. QED BY <1>5, <1>6 DEF CollectSymbol

\* every step keeps the invariant
LEMMA SymbolsSteps ==
  ASSUME SymbolsInv, [SymbolsNext]_yvars
  PROVE  SymbolsInv'
  <1>1. CASE Handover \/ Bleed
    BY <1>1, HandoverKeeps, BleedKeeps
  <1>2. ASSUME NEW n \in Names, CIntern(n) \/ Lookup(n) PROVE SymbolsInv'
    BY <1>2, CInternKeeps, LookupKeeps
  <1>3. ASSUME NEW s \in Symbol,
               Drop(s) \/ SetValue(s) \/ KeepWeakly(s) \/ TakeWeak(s) \/ CollectSymbol(s)
        PROVE  SymbolsInv'
    BY <1>3, ProgramSteps, CollectSymbolKeeps
  <1>4. CASE UNCHANGED yvars
    <2>1. Live' = Live /\ Interneds' = Interneds
      BY <1>4 DEF yvars, Live, Interneds
    <2>2. QED BY <1>4, <2>1 DEF yvars, SymbolsInv, SymbolsTypes, BeforeHandover, SchemeWhole, SchemeKept
  <1>5. QED BY <1>1, <1>2, <1>3, <1>4 DEF SymbolsNext

-----------------------------------------------------------------------------
(* Gensyms *)

\* the gensyms that have a unique string
Ustrung == {g \in Gensym : ustring[g] \in Names}
\* they are in the table, and no two have one string
GensymsInv ==
  /\ ustring \in [Gensym -> Names \cup {Unnamed, NoGensym}]
  /\ TableOf(Gensym, CBuckets, gtable, Ustrung, ustring)

\* at first there is none
LEMMA GensymsInvInit == GensymsInit => GensymsInv
  <1> SUFFICES ASSUME GensymsInit PROVE GensymsInv
    OBVIOUS
  <1>1. gtable = [i \in 0 .. CBuckets - 1 |-> << >>] /\ ustring = [g \in Gensym |-> NoGensym]
    BY DEF GensymsInit
  <1>2. Ustrung = {}
    BY <1>1, SymbolsAssumption DEF Ustrung
  <1>3. CBuckets \in Nat \ {0}
    BY SymbolsAssumption
  <1> DEFINE X == Gensym
  <1>4. TableOf(X, CBuckets, gtable, {}, ustring)
    <2> HIDE DEF X
    <2>1. QED BY <1>1, <1>3, TableEmpty
  <1>5. QED BY <1>1, <1>2, <1>4 DEF GensymsInv

\* the search for a string
LEMMA GensymsFound ==
  ASSUME GensymsInv, NEW n \in Names
  PROVE  Found(GensymsNamed(n), Ustrung, ustring, n)
  <1> DEFINE X == Gensym
  <1>1. PICK l : l = gtable[Index(n, CBuckets)]
    OBVIOUS
  <1>2. Matches(l, ustring, n) = GensymsNamed(n)
    BY <1>1 DEF Matches, GensymsNamed
  <1>3. TableOf(X, CBuckets, gtable, Ustrung, ustring)
    BY DEF GensymsInv
  <1> HIDE DEF X
  <1>4. Found(Matches(l, ustring, n), Ustrung, ustring, n)
    BY <1>1, <1>3, TableFinds
  <1>5. QED BY <1>2, <1>4

\* gensym
LEMMA MakeGensymKeeps ==
  ASSUME GensymsInv, NEW g \in Gensym, MakeGensym(g)
  PROVE  GensymsInv'
  <1>1. /\ ustring[g] = NoGensym /\ ustring' = [ustring EXCEPT ![g] = Unnamed] /\ gtable' = gtable
        /\ ustring \in [Gensym -> Names \cup {Unnamed, NoGensym}]
    BY DEF MakeGensym, GensymsInv
  <1>2. /\ ustring' \in [Gensym -> Names \cup {Unnamed, NoGensym}]
        /\ Ustrung' = Ustrung /\ \A h \in Ustrung : ustring'[h] = ustring[h]
    BY <1>1, SymbolsAssumption DEF Ustrung
  <1> DEFINE X == Gensym
  <1>3. TableOf(X, CBuckets, gtable, Ustrung, ustring)
    BY DEF GensymsInv
  <1>4. TableOf(X, CBuckets, gtable, Ustrung, ustring')
    <2> HIDE DEF X
    <2>1. QED BY <1>2, <1>3, TableRenamed
  <1>5. QED BY <1>1, <1>2, <1>4 DEF GensymsInv

\* the gensym g gets the unique string n
NamesGensym(g, n) ==
  ustring' = [ustring EXCEPT ![g] = n] /\ gtable' = Put(gtable, Index(n, CBuckets), g)

\* gensym->unique-string and intern_unique_string
LEMMA GensymNamed ==
  ASSUME GensymsInv, NEW g \in Gensym, NEW n \in Names,
         ustring[g] \notin Names, GensymsNamed(n) = << >>, NamesGensym(g, n)
  PROVE  GensymsInv'
  <1>1. ustring \in [Gensym -> Names \cup {Unnamed, NoGensym}]
    BY DEF GensymsInv
  <1>2. /\ ustring' \in [Gensym -> Names \cup {Unnamed, NoGensym}]
        /\ Ustrung' = Ustrung \cup {g} /\ \A h \in Ustrung : ustring'[h] = ustring[h]
        /\ ustring'[g] = n /\ g \notin Ustrung
    BY <1>1 DEF Ustrung, NamesGensym
  <1>3. \A h \in Ustrung : ustring[h] # n
    BY GensymsFound DEF Found
  <1>4. PICK i : i = Index(n, CBuckets)
    OBVIOUS
  <1>5. gtable' = Put(gtable, i, g)
    BY <1>4 DEF NamesGensym
  <1>6. i = Index(ustring'[g], CBuckets)
    BY <1>2, <1>4
  <1> DEFINE X == Gensym
  <1>7. TableOf(X, CBuckets, gtable, Ustrung, ustring) /\ g \in X
    BY DEF GensymsInv
  <1>8. TableOf(X, CBuckets, gtable', Ustrung \cup {g}, ustring')
    <2>1. ustring'[g] \in Names /\ \A h \in Ustrung : ustring'[h] # ustring'[g]
      BY <1>2, <1>3
    <2> HIDE DEF X
    <2>2. TableOf(X, CBuckets, gtable, Ustrung, ustring')
      BY <1>2, <1>7, TableRenamed
    <2>3. QED BY <1>2, <1>5, <1>6, <1>7, <2>1, <2>2, TablePut
  <1>9. QED BY <1>2, <1>8 DEF GensymsInv

\* ikrt_unintern_gensym
LEMMA UninternGensymKeeps ==
  ASSUME GensymsInv, NEW g \in Gensym, UninternGensym(g)
  PROVE  GensymsInv'
  <1>1. /\ ustring \in [Gensym -> Names \cup {Unnamed, NoGensym}] /\ ustring[g] \in Names
        /\ ustring' = [ustring EXCEPT ![g] = Unnamed]
    BY DEF GensymsInv, UninternGensym
  <1>2. /\ ustring' \in [Gensym -> Names \cup {Unnamed, NoGensym}]
        /\ Ustrung' = Ustrung \ {g} /\ \A h \in Ustrung \ {g} : ustring'[h] = ustring[h]
        /\ g \in Ustrung
    BY <1>1, SymbolsAssumption DEF Ustrung
  <1>3. PICK i : i = Index(ustring[g], CBuckets)
    OBVIOUS
  <1>4. gtable' = Take(gtable, i, g)
    BY <1>3 DEF UninternGensym, Take
  <1> DEFINE X == Gensym
             T == Ustrung \ {g}
  <1>5. TableOf(X, CBuckets, gtable, Ustrung, ustring)
    BY DEF GensymsInv
  <1>6. TableOf(X, CBuckets, gtable', T, ustring')
    <2> HIDE DEF X
    <2>1. TableOf(X, CBuckets, gtable', Ustrung \ {g}, ustring)
      BY <1>2, <1>3, <1>4, <1>5, TableTake
    <2>2. TableOf(X, CBuckets, gtable', T, ustring) /\ \A h \in T : ustring'[h] = ustring[h]
      BY <1>2, <2>1
    <2> HIDE DEF T
    <2>3. QED BY <2>2, TableRenamed
  <1>7. QED BY <1>2, <1>6 DEF GensymsInv

\* every step keeps the invariant
LEMMA GensymsSteps ==
  ASSUME GensymsInv, [GensymsNext]_uvars
  PROVE  GensymsInv'
  <1>0. Names \cap {NoName, Unnamed, NoGensym} = {}
    BY SymbolsAssumption
  <1>1. ASSUME NEW g \in Gensym, MakeGensym(g) \/ UninternGensym(g) PROVE GensymsInv'
    BY <1>1, MakeGensymKeeps, UninternGensymKeeps
  <1>2. ASSUME NEW g \in Gensym, NEW n \in Names, NameGensym(g, n) \/ InternGensym(g, n)
        PROVE  GensymsInv'
    <2>1. /\ GensymsNamed(n) = << >> /\ ustring' = [ustring EXCEPT ![g] = n]
          /\ gtable' = [gtable EXCEPT ![Index(n, CBuckets)] = <<g>> \o @]
          /\ ustring[g] = Unnamed \/ ustring[g] = NoGensym
      BY <1>2 DEF NameGensym, InternGensym
    <2>2. ustring[g] \notin Names
      BY <1>0, <2>1
    <2>3. NamesGensym(g, n)
      BY <2>1 DEF NamesGensym, Put
    <2>4. QED BY <2>1, <2>2, <2>3, GensymNamed
  <1>3. CASE UNCHANGED uvars
    <2>1. Ustrung' = Ustrung
      BY <1>3 DEF uvars, Ustrung
    <2>2. QED BY <1>3, <2>1 DEF uvars, GensymsInv
  <1>4. QED BY <1>1, <1>2, <1>3 DEF GensymsNext

\* what a search of the table meets
LEMMA TableWhole ==
  ASSUME NEW X, NEW n, NEW v, NEW T, NEW names, TableOf(X, n, v, T, names),
         NEW i \in DOMAIN v, NEW j \in DOMAIN v[i]
  PROVE  /\ v[i][j] \in T /\ Index(names[v[i][j]], ChainCount(v)) = i
         /\ \A k \in 1 .. j - 1 : names[v[i][k]] # names[v[i][j]]
  <1>1. /\ DOMAIN v = 0 .. n - 1 /\ ChainCount(v) = n
        /\ \A l \in 0 .. n - 1 : v[l] \in Seq(X) /\ Once(v[l])
        /\ \A l \in 0 .. n - 1 : \A s \in ToSet(v[l]) : s \in T /\ Index(names[s], n) = l
    BY TablePlaces
  <1>2. PICK l \in Seq(X) : l = v[i] /\ Once(l)
    BY <1>1
  <1>3. j \in 1 .. Len(l) /\ Len(l) \in Nat
    BY <1>2
  <1>4. \A k \in 1 .. Len(l) : l[k] \in ToSet(l)
    BY <1>2, ElementHeld
  <1>5. \A k \in 1 .. Len(l) : l[k] \in T /\ Index(names[l[k]], n) = i
    BY <1>1, <1>2, <1>4
  <1>6. ASSUME NEW k \in 1 .. j - 1, names[l[k]] = names[l[j]] PROVE FALSE
    <2>1. k \in 1 .. Len(l) /\ k # j
      BY <1>3
    <2>2. l[k] = l[j]
      BY <1>3, <1>5, <1>6, <2>1 DEF TableOf
    <2>3. QED BY <1>2, <1>3, <2>1, <2>2 DEF Once
  <1>7. QED BY <1>1, <1>2, <1>3, <1>5, <1>6

\* what the invariant says of the lists that string->symbol searches
LEMMA WholeChains == SymbolsInv => ChainsWhole
  <1> SUFFICES ASSUME SymbolsInv PROVE ChainsWhole
    OBVIOUS
  <1> DEFINE X == Symbol
  <1>1. CASE ctable # Gone
    <2>1. chains = [i \in 0 .. FirstLength - 1 |-> << >>]
      BY <1>1 DEF SymbolsInv, BeforeHandover
    <2>2. \A i \in DOMAIN chains : DOMAIN chains[i] = {}
      BY <2>1
    <2>3. QED BY <1>1, <2>2 DEF ChainsWhole
  <1>2. CASE ctable = Gone
    <2>1. PICK n : n = ChainCount(chains)
      OBVIOUS
    <2>2. TableOf(X, n, chains, Interneds, nameOf) /\ len = Cardinality(Interneds)
      BY <1>2, <2>1 DEF SymbolsInv, SchemeWhole
    <2>3. Interneds \subseteq Symbol
      BY <1>2, InternedsLive DEF SymbolsInv, Live
    <2>4. Broken \notin Interneds
      BY <2>3 DEF Symbol, Broken
    <2>5. len = Len(Joined(chains))
      <3> HIDE DEF X
      <3>1. QED BY <2>2, TablePlaces
    <2>6. ASSUME NEW i \in DOMAIN chains, NEW j \in DOMAIN chains[i]
          PROVE  /\ chains[i][j] # Broken
                 /\ Index(nameOf[chains[i][j]], ChainCount(chains)) = i
                 /\ \A k \in 1 .. j - 1 : nameOf[chains[i][k]] # nameOf[chains[i][j]]
      <3> HIDE DEF X
      <3>1. /\ chains[i][j] \in Interneds
            /\ Index(nameOf[chains[i][j]], ChainCount(chains)) = i
            /\ \A k \in 1 .. j - 1 : nameOf[chains[i][k]] # nameOf[chains[i][j]]
        BY <2>2, TableWhole
      <3>2. QED BY <2>4, <3>1
    <2>7. QED BY <2>5, <2>6 DEF ChainsWhole
  <1>3. QED BY <1>1, <1>2

\* what the invariants say of the symbols that the program can tell from others
LEMMA KeptSymbols == SymbolsInv /\ GensymsInv => SymbolsKept
  <1> SUFFICES ASSUME SymbolsInv, GensymsInv PROVE SymbolsKept
    OBVIOUS
  <1>1. ASSUME ctable = Gone, NEW s \in (held \cup valued) \ recovered
        PROVE  Contains(chains[Index(nameOf[s], ChainCount(chains))], s)
    <2> DEFINE X == Symbol
    <2>1. PICK n : n = ChainCount(chains)
      OBVIOUS
    <2>2. TableOf(X, n, chains, Interneds, nameOf)
      BY <1>1, <2>1 DEF SymbolsInv, SchemeWhole
    <2>3. s \in Interneds
      BY <1>1 DEF SymbolsInv, SchemeKept, Interneds
    <2>4. s \in ToSet(chains[Index(nameOf[s], n)])
      <3> HIDE DEF X
      <3>1. QED BY <2>2, <2>3, TablePlaces
    <2>5. QED BY <2>1, <2>4 DEF Contains, ToSet
  <1>2. ASSUME NEW g \in Gensym, ustring[g] \in Names PROVE GensymsNamed(ustring[g]) = <<g>>
    <2>1. g \in Ustrung
      BY <1>2 DEF Ustrung
    <2>2. PICK n \in Names : n = ustring[g]
      BY <1>2
    <2>3. Found(GensymsNamed(n), Ustrung, ustring, n)
      BY GensymsFound
    <2>4. QED BY <2>1, <2>2, <2>3 DEF Found
  <1>3. QED BY <1>1, <1>2 DEF SymbolsKept

\* Whatever the symbols, their hash and the lengths of the tables: the list that
\* string->symbol searches holds no broken reference, no symbol under the wrong index and
\* no two of a name, whenever a collection comes, and symbol-table-length is their number.
THEOREM ChainsAreWhole == SymbolsSpec => []ChainsWhole
  <1>1. SymbolsInit => SymbolsInv
    BY SymbolsInvInit
  <1>2. SymbolsInv /\ [SymbolsNext]_yvars => SymbolsInv'
    BY SymbolsSteps
  <1>3. SymbolsInv => ChainsWhole
    BY WholeChains
  <1>4. QED BY <1>1, <1>2, <1>3, PTL DEF SymbolsSpec

\* Whatever those are: a symbol that the program refers to or that has a value or a
\* property is found again by its name, and a gensym by its unique string.
THEOREM SymbolsAreKept == SymbolsSpec /\ GensymsSpec => []SymbolsKept
  <1>1. SymbolsInit => SymbolsInv
    BY SymbolsInvInit
  <1>2. SymbolsInv /\ [SymbolsNext]_yvars => SymbolsInv'
    BY SymbolsSteps
  <1>3. GensymsInit => GensymsInv
    BY GensymsInvInit
  <1>4. GensymsInv /\ [GensymsNext]_uvars => GensymsInv'
    BY GensymsSteps
  <1>5. SymbolsInv /\ GensymsInv => SymbolsKept
    BY KeptSymbols
  <1>6. QED BY <1>1, <1>2, <1>3, <1>4, <1>5, PTL DEF SymbolsSpec, GensymsSpec

-----------------------------------------------------------------------------
(* Hash tables *)

\* the list of the key k among n, by its address
Slot(addr, k, n) == addr[k] % n

\* the buckets tc and those of the lists vec are where an address says or will be put there:
\* a bucket that the collector is to track is in the list of the address of its key, and the
\* others that are linked wait on the tconc
InPlace(vec, tc, bs, addr) ==
  /\ Tidy(Bucket, VectorSize(vec), vec)
  /\ tc \in Seq(Bucket) /\ Once(tc)
  /\ DOMAIN bs \subseteq Bucket /\ bs \in [DOMAIN bs -> Buckets]
  /\ Elements(vec) \cup ToSet(tc) \subseteq DOMAIN bs
  /\ \A b \in DOMAIN bs : bs[b].linked <=> b \in Elements(vec)
  /\ \A b \in ToSet(tc) : ~bs[b].tracked
  /\ \A b, c \in Elements(vec) : bs[b].key = bs[c].key => b = c
  /\ \A b \in Elements(vec) :
       IF bs[b].tracked THEN b \in ToSet(vec[Slot(addr, bs[b].key, VectorSize(vec))]) ELSE b \in ToSet(tc)

\* an address gives the number of a list
LEMMA SlotInRange ==
  ASSUME NEW addr \in [Keys -> Address], NEW k \in Keys, NEW n \in Nat \ {0}
  PROVE  Slot(addr, k, n) \in 0 .. n - 1
  <1>1. PICK a \in Nat : a = addr[k]
    BY HashTableAssumption DEF Address
  <1>2. a % n \in 0 .. n - 1
    OBVIOUS
  <1>3. QED BY <1>1, <1>2 DEF Slot

\* unlink!
LEMMA UnlinkTidy ==
  ASSUME NEW X, NEW n, NEW v, Tidy(X, n, v), NEW b, NEW w, w = Unlink(v, b)
  PROVE  /\ Tidy(X, n, w) /\ Elements(w) = Elements(v) \ {b} /\ DOMAIN w = DOMAIN v
         /\ \A j \in 0 .. n - 1 : ToSet(w[j]) = ToSet(v[j]) \ {b}
  <1>1. /\ n \in Nat \ {0} /\ v \in [0 .. n - 1 -> Seq(X)] /\ DOMAIN v = 0 .. n - 1
        /\ \A j \in 0 .. n - 1 : v[j] \in Seq(X) /\ Once(v[j])
    BY DEF Tidy
  <1>2. DOMAIN w = 0 .. n - 1 /\ w = [j \in 0 .. n - 1 |-> w[j]]
        /\ \A j \in 0 .. n - 1 : w[j] = Only(v[j], ToSet(v[j]) \ {b})
    BY <1>1 DEF Unlink
  <1>3. ASSUME NEW j \in 0 .. n - 1
        PROVE  w[j] \in Seq(X) /\ Once(w[j]) /\ ToSet(w[j]) = ToSet(v[j]) \ {b}
    <2>1. PICK l \in Seq(X) : l = v[j] /\ Once(l)
      BY <1>1
    <2>2. PICK S : S = ToSet(l) \ {b}
      OBVIOUS
    <2>3. PICK o : o = Only(l, S)
      OBVIOUS
    <2>4. o \in Seq(X) /\ ToSet(o) = ToSet(l) \cap S /\ Once(o)
      BY <2>1, <2>3, OnlyHolds
    <2>5. w[j] = o
      BY <1>2, <2>1, <2>2, <2>3
    <2>6. QED BY <2>1, <2>2, <2>4, <2>5
  <1>4. w \in [0 .. n - 1 -> Seq(X)]
    BY <1>2, <1>3
  <1> DEFINE K == Elements(v) \ {b}
  <1>5. \A j \in 0 .. n - 1 : ToSet(w[j]) = ToSet(v[j]) \cap K
    BY <1>1, <1>3 DEF Elements
  <1> HIDE DEF K
  <1>6. Narrowed(X, n, v, K, w)
    BY <1>3, <1>4, <1>5 DEF Narrowed
  <1>7. Tidy(X, n, w) /\ Elements(w) = Elements(v) \cap K
    BY <1>6, KeptTidy
  <1>8. QED BY <1>1, <1>2, <1>3, <1>7 DEF K

\* the number of lists is that of the vector
LEMMA TidySize ==
  ASSUME NEW X, NEW n, NEW v, Tidy(X, n, v)
  PROVE  VectorSize(v) = n /\ n \in Nat \ {0} /\ DOMAIN v = 0 .. n - 1
  <1>1. n \in Nat \ {0} /\ DOMAIN v = 0 .. n - 1
    BY DEF Tidy
  <1>2. QED BY <1>1, CountLists DEF VectorSize

\* bt is bs but for tracked of the bucket b
OtherMark(bs, bt, b) ==
  /\ bt \in [DOMAIN bs -> Buckets]
  /\ \A c \in DOMAIN bs : bt[c].key = bs[c].key /\ bt[c].gen = bs[c].gen /\ bt[c].linked = bs[c].linked
  /\ \A c \in DOMAIN bs \ {b} : bt[c].tracked = bs[c].tracked
  /\ bt[b].tracked

\* v and bt are what re-add! makes of vec and bs
Readded(vec, tc, bs, v, bt, addr) ==
  InPlace(v, Tail(tc), bt, addr) /\ Elements(v) = Elements(vec) /\ VectorSize(v) = VectorSize(vec)

\* re-add! of the bucket that has come off the tconc
LEMMA ReAddInPlace ==
  ASSUME NEW addr \in [Keys -> Address], NEW vec, NEW tc, NEW bs, InPlace(vec, tc, bs, addr),
         tc # << >>, NEW b, b = Head(tc), bs[b].linked,
         NEW bt, OtherMark(bs, bt, b),
         NEW w, w = Unlink(vec, b), NEW i, i = Slot(addr, bs[b].key, VectorSize(w)),
         NEW v, v = Put(w, i, b)
  PROVE  Readded(vec, tc, bs, v, bt, addr)
  <1>1. PICK n : n = VectorSize(vec)
    OBVIOUS
  <1> DEFINE X == Bucket
  <1>2. Tidy(X, n, vec) /\ tc \in Seq(X) /\ Once(tc)
    BY <1>1 DEF InPlace
  <1>3. PICK q : q = Tail(tc)
    OBVIOUS
  <1>4. q \in Seq(X) /\ Once(q) /\ b \in X /\ ToSet(tc) = ToSet(q) \cup {b} /\ b \notin ToSet(q)
    <2> HIDE DEF X
    <2>1. QED BY <1>2, <1>3, TailOnce
  <1>5. /\ Tidy(X, n, w) /\ Elements(w) = Elements(vec) \ {b}
        /\ \A j \in 0 .. n - 1 : ToSet(w[j]) = ToSet(vec[j]) \ {b}
    <2> HIDE DEF X
    <2>1. Tidy(X, n, w)
      BY <1>2, UnlinkTidy
    <2>2. Elements(w) = Elements(vec) \ {b}
      BY <1>2, UnlinkTidy
    <2>3. \A j \in 0 .. n - 1 : ToSet(w[j]) = ToSet(vec[j]) \ {b}
      BY <1>2, UnlinkTidy
    <2>4. QED BY <2>1, <2>2, <2>3
  <1>6. VectorSize(w) = n /\ n \in Nat \ {0}
    <2> HIDE DEF X
    <2>1. QED BY <1>5, TidySize
  <1>7. /\ DOMAIN bs \subseteq Bucket /\ bs \in [DOMAIN bs -> Buckets]
        /\ Elements(vec) \cup ToSet(tc) \subseteq DOMAIN bs
        /\ \A c \in DOMAIN bs : bs[c].linked <=> c \in Elements(vec)
        /\ \A c \in ToSet(tc) : ~bs[c].tracked
        /\ \A c, d \in Elements(vec) : bs[c].key = bs[d].key => c = d
        /\ \A c \in Elements(vec) :
             IF bs[c].tracked THEN c \in ToSet(vec[Slot(addr, bs[c].key, n)]) ELSE c \in ToSet(tc)
    BY <1>1 DEF InPlace
  <1>8. b \in DOMAIN bs /\ b \in Elements(vec) /\ \A c \in DOMAIN bs : bs[c].key \in Keys
    BY <1>4, <1>7 DEF Buckets
  <1>9. i = Slot(addr, bs[b].key, n) /\ i \in 0 .. n - 1
    BY <1>6, <1>8, SlotInRange
  <1>10. /\ Tidy(X, n, v) /\ Elements(v) = Elements(w) \cup {b}
         /\ ToSet(v[i]) = ToSet(w[i]) \cup {b}
         /\ \A j \in 0 .. n - 1 : j # i => ToSet(v[j]) = ToSet(w[j])
    <2>1. b \notin Elements(w)
      BY <1>5
    <2> HIDE DEF X
    <2>2. Tidy(X, n, v) /\ Elements(v) = Elements(w) \cup {b}
      BY <1>4, <1>5, <1>9, <2>1, PutTidy
    <2>3. Tidy(X, n, w) /\ b \in X /\ b \notin Elements(w) /\ i \in 0 .. n - 1
      BY <1>4, <1>5, <1>9, <2>1
    <2>4. /\ ToSet(v[i]) = ToSet(w[i]) \cup {b}
          /\ \A j \in 0 .. n - 1 : j # i => ToSet(v[j]) = ToSet(w[j])
      BY <2>3, PutTidy
    <2>5. QED BY <2>2, <2>4
  <1>11. Elements(v) = Elements(vec)
    <2>1. Elements(v) = (Elements(vec) \ {b}) \cup {b} /\ b \in Elements(vec)
      BY <1>5, <1>8, <1>10
    <2>2. QED BY <2>1
  <1>12. VectorSize(v) = n
    <2> HIDE DEF X
    <2>1. QED BY <1>10, TidySize
  <1>13. /\ bt \in [DOMAIN bs -> Buckets] /\ DOMAIN bt = DOMAIN bs
         /\ \A c \in DOMAIN bs : bt[c].key = bs[c].key /\ bt[c].linked = bs[c].linked
         /\ \A c \in DOMAIN bs \ {b} : bt[c].tracked = bs[c].tracked
         /\ bt[b].tracked
    BY DEF OtherMark
  <1>14. ASSUME NEW c \in Elements(v)
         PROVE  IF bt[c].tracked THEN c \in ToSet(v[Slot(addr, bt[c].key, n)]) ELSE c \in ToSet(q)
    <2>0. c \in Elements(vec) /\ c \in DOMAIN bs
      BY <1>7, <1>11
    <2>1. CASE c = b
      BY <1>9, <1>10, <1>13, <2>0, <2>1
    <2>2. CASE c # b /\ bs[c].tracked
      <3>1. PICK j : j = Slot(addr, bs[c].key, n)
        OBVIOUS
      <3>2. j \in 0 .. n - 1
        BY <1>6, <1>8, <2>0, <3>1, SlotInRange
      <3>3. c \in ToSet(vec[j])
        BY <1>7, <2>0, <2>2, <3>1
      <3>4. c \in ToSet(w[j])
        BY <1>5, <2>2, <3>2, <3>3
      <3>5. c \in ToSet(v[j])
        BY <1>10, <3>2, <3>4
      <3>6. bt[c].tracked /\ j = Slot(addr, bt[c].key, n)
        BY <1>13, <2>0, <2>2, <3>1
      <3>7. QED BY <3>5, <3>6
    <2>3. CASE c # b /\ ~bs[c].tracked
      <3>1. c \in ToSet(q) /\ ~bt[c].tracked
        BY <1>4, <1>7, <1>13, <2>0, <2>3
      <3>2. QED BY <3>1
    <2>4. QED BY <2>1, <2>2, <2>3
  <1>15. /\ Elements(v) \cup ToSet(q) \subseteq DOMAIN bt
         /\ \A c \in DOMAIN bt : bt[c].linked <=> c \in Elements(v)
    BY <1>4, <1>7, <1>11, <1>13
  <1>16. \A c \in ToSet(q) : ~bt[c].tracked
    BY <1>4, <1>7, <1>13
  <1>17. \A c, d \in Elements(v) : bt[c].key = bt[d].key => c = d
    BY <1>7, <1>11, <1>13
  <1>18. Tidy(Bucket, n, v) /\ q \in Seq(Bucket) /\ Once(q)
    BY <1>4, <1>10
  <1>19. DOMAIN bt \subseteq Bucket /\ bt \in [DOMAIN bt -> Buckets]
    BY <1>7, <1>13
  <1>20. InPlace(v, q, bt, addr)
    BY <1>12, <1>14, <1>15, <1>16, <1>17, <1>18, <1>19 DEF InPlace
  <1>21. QED BY <1>1, <1>3, <1>11, <1>12, <1>20 DEF Readded

\* a bucket that has been taken out and comes off the tconc
LEMMA DropInPlace ==
  ASSUME NEW addr, NEW vec, NEW tc, NEW bs, InPlace(vec, tc, bs, addr),
         tc # << >>, ~bs[Head(tc)].linked
  PROVE  InPlace(vec, Tail(tc), bs, addr)
  <1>1. PICK b : b = Head(tc)
    OBVIOUS
  <1>2. PICK q : q = Tail(tc)
    OBVIOUS
  <1> DEFINE X == Bucket
  <1>3. tc \in Seq(X) /\ Once(tc)
    BY DEF InPlace
  <1>4. q \in Seq(X) /\ Once(q) /\ ToSet(tc) = ToSet(q) \cup {b} /\ b \notin ToSet(q)
    <2> HIDE DEF X
    <2>1. QED BY <1>1, <1>2, <1>3, TailOnce
  <1>5. b \notin Elements(vec)
    BY <1>1, <1>4 DEF InPlace
  <1>6. InPlace(vec, q, bs, addr)
    BY <1>4, <1>5 DEF InPlace
  <1>7. QED BY <1>2, <1>6

\* a table as the lookups have it
Whole(t) ==
  /\ t = [vec |-> t.vec, tc |-> t.tc, bs |-> t.bs]
  /\ InPlace(t.vec, t.tc, t.bs, address)

\* bt are the buckets bs but for what is tracked
SameBuckets(bs, bt) ==
  /\ DOMAIN bt = DOMAIN bs
  /\ \A c \in DOMAIN bs : bt[c].key = bs[c].key /\ bt[c].gen = bs[c].gen

\* u holds what t does
SameTable(t, u) ==
  /\ Elements(u.vec) = Elements(t.vec) /\ VectorSize(u.vec) = VectorSize(t.vec)
  /\ SameBuckets(t.bs, u.bs)

\* the bucket b is tracked again
Tracked(bs, b) == [bs EXCEPT ![b] = [@ EXCEPT !.tracked = TRUE]]

\* re-add!, as a record
LEMMA ReAddUnfolds ==
  ASSUME NEW v, NEW q, NEW bs, DOMAIN bs \subseteq Bucket, bs \in [DOMAIN bs -> Buckets],
         NEW b \in DOMAIN bs,
         NEW w, w = Unlink(v, b), NEW i, i = Slot(address, bs[b].key, VectorSize(w)),
         NEW z, z = Put(w, i, b), NEW bt, bt = Tracked(bs, b)
  PROVE  ReAdd([vec |-> v, tc |-> q, bs |-> bs], b) = [vec |-> z, tc |-> q, bs |-> bt]
  <1> DEFINE t == [vec |-> v, tc |-> q, bs |-> bs]
  <1>1. t.vec = v /\ t.bs = bs
    OBVIOUS
  <1>2. ReAdd(t, b) = [t EXCEPT !.vec = z, !.bs = bt]
    <2>1. z = [w EXCEPT ![address[bs[b].key] % VectorSize(w)] = <<b>> \o @]
      BY DEF Put, Slot
    <2>2. ReAdd(t, b) = [t EXCEPT !.vec = [w EXCEPT ![address[bs[b].key] % VectorSize(w)] = <<b>> \o @],
                                  !.bs[b].tracked = TRUE]
      BY <1>1 DEF ReAdd, ListOf
    <2>3. \A y : [t EXCEPT !.vec = y, !.bs[b].tracked = TRUE] = [t EXCEPT !.vec = y, !.bs = bt]
      BY DEF Tracked
    <2>4. QED BY <2>1, <2>2, <2>3
  <1>3. QED BY <1>2

\* its mark
LEMMA TrackedMark ==
  ASSUME NEW bs, bs \in [DOMAIN bs -> Buckets], NEW b \in DOMAIN bs, NEW bt, bt = Tracked(bs, b)
  PROVE  OtherMark(bs, bt, b)
  <1>1. /\ DOMAIN bt = DOMAIN bs /\ bt = [c \in DOMAIN bs |-> bt[c]]
        /\ bt[b] = [bs[b] EXCEPT !.tracked = TRUE]
        /\ \A c \in DOMAIN bs \ {b} : bt[c] = bs[c]
    BY DEF Tracked
  <1>2. \A c \in DOMAIN bs : bs[c] \in Buckets
    OBVIOUS
  <1>3. bt[b] \in Buckets /\ bt[b].key = bs[b].key /\ bt[b].gen = bs[b].gen /\ bt[b].linked = bs[b].linked
        /\ bt[b].tracked
    BY <1>1, <1>2 DEF Buckets
  <1>4. \A c \in DOMAIN bs : bt[c] \in Buckets
    BY <1>1, <1>2, <1>3
  <1>5. bt \in [DOMAIN bs -> Buckets]
    BY <1>1, <1>4
  <1>6. QED BY <1>1, <1>3, <1>5 DEF OtherMark

\* one bucket of the tconc, in rehash-lookup
Round(u, x) ==
  LET b == Head(u.tc)
      popped == [u EXCEPT !.tc = Tail(@)]
  IN IF popped.bs[b].linked
     THEN [found |-> IF u.bs[b].key = x THEN <<b>> ELSE << >>, table |-> ReAdd(popped, b)]
     ELSE [found |-> << >>, table |-> popped]

\* every bucket stays, and the one of the key is found
LEMMA RoundKeeps ==
  ASSUME address \in [Keys -> Address], NEW u, Whole(u), u.tc # << >>, NEW x, NEW r, r = Round(u, x)
  PROVE  /\ Whole(r.table) /\ r.table.tc = Tail(u.tc) /\ SameTable(u, r.table)
         /\ r.found = IF Head(u.tc) \in Elements(u.vec) /\ u.bs[Head(u.tc)].key = x
                      THEN <<Head(u.tc)>> ELSE << >>
         /\ r = [found |-> r.found, table |-> r.table]
  <1>1. PICK v, tc, bs : u = [vec |-> v, tc |-> tc, bs |-> bs]
    BY DEF Whole
  <1>2. u.vec = v /\ u.tc = tc /\ u.bs = bs /\ tc # << >>
    BY <1>1
  <1>3. InPlace(v, tc, bs, address)
    BY <1>2 DEF Whole
  <1>4. PICK b : b = Head(tc)
    OBVIOUS
  <1>5. PICK q : q = Tail(tc)
    OBVIOUS
  <1>6. /\ DOMAIN bs \subseteq Bucket /\ bs \in [DOMAIN bs -> Buckets]
        /\ b \in DOMAIN bs
        /\ bs[b].linked <=> b \in Elements(v)
    <2>1. tc \in Seq(Bucket) /\ ToSet(tc) \subseteq DOMAIN bs
      BY <1>3 DEF InPlace
    <2>2. b \in ToSet(tc)
      <3>1. tc # << >> => 1 \in 1 .. Len(tc)
        BY <2>1
      <3>2. QED BY <1>2, <1>4, <2>1, <3>1, ElementHeld
    <2>3. QED BY <1>3, <2>1, <2>2 DEF InPlace
  <1>7. PICK p : p = [vec |-> v, tc |-> q, bs |-> bs]
    OBVIOUS
  <1>8. r = IF bs[b].linked THEN [found |-> IF bs[b].key = x THEN <<b>> ELSE << >>, table |-> ReAdd(p, b)]
            ELSE [found |-> << >>, table |-> p]
    <2>1. [u EXCEPT !.tc = Tail(@)] = p
      <3>1. [[vec |-> v, tc |-> tc, bs |-> bs] EXCEPT !.tc = q] = [vec |-> v, tc |-> q, bs |-> bs]
        OBVIOUS
      <3>2. [u EXCEPT !.tc = q] = p
        BY <1>1, <1>7, <3>1
      <3>3. Tail(u.tc) = q
        BY <1>2, <1>5
      <3>4. QED BY <3>2, <3>3, Zenon
    <2>2. p.bs = bs
      BY <1>7
    <2>3. QED BY <1>2, <1>4, <2>1, <2>2 DEF Round
  <1>9. CASE bs[b].linked
    <2>1. PICK w : w = Unlink(v, b)
      OBVIOUS
    <2>2. PICK i : i = Slot(address, bs[b].key, VectorSize(w))
      OBVIOUS
    <2>3. PICK z : z = Put(w, i, b)
      OBVIOUS
    <2>4. PICK bt : bt = Tracked(bs, b)
      OBVIOUS
    <2>5. ReAdd(p, b) = [vec |-> z, tc |-> q, bs |-> bt]
      BY <1>6, <1>7, <2>1, <2>2, <2>3, <2>4, ReAddUnfolds
    <2>6. OtherMark(bs, bt, b)
      BY <1>6, <2>4, TrackedMark
    <2>7. InPlace(z, Tail(tc), bt, address) /\ Elements(z) = Elements(v) /\ VectorSize(z) = VectorSize(v)
      <3>1. Readded(v, tc, bs, z, bt, address)
        BY <1>2, <1>3, <1>4, <1>9, <2>1, <2>2, <2>3, <2>6, ReAddInPlace
      <3>2. QED BY <3>1 DEF Readded
    <2>8. r.found = (IF bs[b].key = x THEN <<b>> ELSE << >>) /\ r.table = [vec |-> z, tc |-> q, bs |-> bt]
          /\ r = [found |-> r.found, table |-> r.table]
      BY <1>8, <1>9, <2>5
    <2>9. r.table.vec = z /\ r.table.tc = q /\ r.table.bs = bt
      BY <2>8
    <2>10. Whole(r.table)
      BY <1>5, <2>7, <2>8, <2>9 DEF Whole
    <2>11. SameTable(u, r.table)
      BY <1>2, <2>6, <2>7, <2>9 DEF SameTable, SameBuckets, OtherMark
    <2>12. r.found = IF b \in Elements(v) /\ bs[b].key = x THEN <<b>> ELSE << >>
      BY <1>6, <1>9, <2>8
    <2>13. QED BY <1>2, <1>4, <1>5, <2>8, <2>9, <2>10, <2>11, <2>12
  <1>10. CASE ~bs[b].linked
    <2>1. InPlace(v, Tail(tc), bs, address)
      BY <1>2, <1>3, <1>4, <1>10, DropInPlace
    <2>2. r.found = << >> /\ r.table = p /\ r = [found |-> r.found, table |-> r.table]
      BY <1>8, <1>10
    <2>3. r.table.vec = v /\ r.table.tc = q /\ r.table.bs = bs /\ r.table = [vec |-> v, tc |-> q, bs |-> bs]
      BY <1>7, <2>2
    <2>4. Whole(r.table)
      BY <1>5, <2>1, <2>3 DEF Whole
    <2>5. SameTable(u, r.table)
      BY <1>2, <2>3 DEF SameTable, SameBuckets
    <2>6. b \notin Elements(v)
      BY <1>6, <1>10
    <2>7. QED BY <1>2, <1>4, <1>5, <2>2, <2>3, <2>4, <2>5, <2>6
  <1>11. QED BY <1>9, <1>10

\* r is what a lookup of x may come to that begins with the table t: it has found the
\* bucket of x, or that bucket has not come off the tconc
Walked(t, x, r) ==
  /\ r = [found |-> r.found, table |-> r.table]
  /\ Whole(r.table) /\ SameTable(t, r.table)
  /\ r.found = << >> =>
       \A b \in Elements(t.vec) : t.bs[b].key = x /\ b \in ToSet(t.tc) => b \in ToSet(r.table.tc)
  /\ r.found # << >> => \E b \in Elements(t.vec) : t.bs[b].key = x /\ r.found = <<b>>

\* one round more
LEMMA WalkedOn ==
  ASSUME address \in [Keys -> Address], NEW t, NEW x, NEW r, Walked(t, x, r),
         r.found = << >>, r.table.tc # << >>, NEW s, s = Round(r.table, x)
  PROVE  Walked(t, x, s) /\ s.table.tc = Tail(r.table.tc)
  <1>1. PICK u : u = r.table
    OBVIOUS
  <1>2. Whole(u) /\ u.tc # << >> /\ s = Round(u, x) /\ SameTable(t, u)
    BY <1>1 DEF Walked
  <1>3. PICK b : b = Head(u.tc)
    OBVIOUS
  <1>4. /\ Whole(s.table) /\ s.table.tc = Tail(u.tc) /\ SameTable(u, s.table)
        /\ s.found = IF b \in Elements(u.vec) /\ u.bs[b].key = x THEN <<b>> ELSE << >>
        /\ s = [found |-> s.found, table |-> s.table]
    BY <1>2, <1>3, RoundKeeps
  <1>5. /\ Elements(u.vec) = Elements(t.vec) /\ VectorSize(u.vec) = VectorSize(t.vec)
        /\ DOMAIN u.bs = DOMAIN t.bs
        /\ \A c \in DOMAIN t.bs : u.bs[c].key = t.bs[c].key /\ u.bs[c].gen = t.bs[c].gen
    BY <1>2 DEF SameTable, SameBuckets
  <1>6. /\ Elements(s.table.vec) = Elements(u.vec) /\ VectorSize(s.table.vec) = VectorSize(u.vec)
        /\ DOMAIN s.table.bs = DOMAIN u.bs
        /\ \A c \in DOMAIN u.bs : s.table.bs[c].key = u.bs[c].key /\ s.table.bs[c].gen = u.bs[c].gen
    BY <1>4 DEF SameTable, SameBuckets
  <1>7. SameTable(t, s.table)
    BY <1>5, <1>6 DEF SameTable, SameBuckets
  <1>8. Elements(u.vec) \subseteq DOMAIN u.bs /\ u.tc \in Seq(Bucket) /\ Once(u.tc)
    BY <1>2 DEF Whole, InPlace
  <1>9. ASSUME s.found # << >> PROVE \E c \in Elements(t.vec) : t.bs[c].key = x /\ s.found = <<c>>
    <2>1. b \in Elements(u.vec) /\ u.bs[b].key = x /\ s.found = <<b>>
      BY <1>4, <1>9
    <2>2. QED BY <1>5, <1>8, <2>1
  <1>10. ASSUME s.found = << >>, NEW c \in Elements(t.vec), t.bs[c].key = x, c \in ToSet(t.tc)
         PROVE  c \in ToSet(s.table.tc)
    <2>1. c \in ToSet(u.tc)
      BY <1>1, <1>10 DEF Walked
    <2>2. c \in Elements(u.vec) /\ u.bs[c].key = x
      BY <1>5, <1>8, <1>10
    <2>3. c # b
      <3>1. <<b>> # << >>
        OBVIOUS
      <3>2. QED BY <1>4, <1>10, <2>2, <3>1
    <2>4. ToSet(u.tc) = ToSet(Tail(u.tc)) \cup {b}
      <3> DEFINE X == Bucket
      <3>1. PICK q \in Seq(X) : q = u.tc /\ q # << >> /\ Once(q)
        BY <1>2, <1>8
      <3> HIDE DEF X
      <3>2. ToSet(q) = ToSet(Tail(q)) \cup {Head(q)}
        BY <3>1, TailOnce
      <3>3. QED BY <1>3, <3>1, <3>2
    <2>5. QED BY <1>4, <2>1, <2>3, <2>4
  <1>11. Walked(t, x, s)
    BY <1>4, <1>7, <1>9, <1>10 DEF Walked
  <1>12. QED BY <1>1, <1>4, <1>11

\* where the results are
Results ==
  [found : Seq(Bucket),
   table : [vec : UNION {[0 .. k - 1 -> Seq(Bucket)] : k \in Nat}, tc : Seq(Bucket),
            bs : UNION {[B -> Buckets] : B \in SUBSET Bucket}]]

\* they are there
LEMMA WalkedResults ==
  ASSUME NEW t, NEW x, NEW r, Walked(t, x, r)
  PROVE  r \in Results
  <1> DEFINE Vectors == UNION {[0 .. k - 1 -> Seq(Bucket)] : k \in Nat}
             Maps == UNION {[B -> Buckets] : B \in SUBSET Bucket}
  <1>1. PICK u : u = r.table
    OBVIOUS
  <1>2. /\ Tidy(Bucket, VectorSize(u.vec), u.vec) /\ u.tc \in Seq(Bucket)
        /\ DOMAIN u.bs \subseteq Bucket /\ u.bs \in [DOMAIN u.bs -> Buckets]
        /\ u = [vec |-> u.vec, tc |-> u.tc, bs |-> u.bs]
        /\ Elements(u.vec) \subseteq DOMAIN u.bs
    BY <1>1 DEF Walked, Whole, InPlace
  <1>3. u.vec \in Vectors
    BY <1>2 DEF Tidy
  <1>4. u.bs \in Maps
    BY <1>2
  <1>5. r.found \in Seq(Bucket)
    <2>1. CASE r.found = << >>
      BY <2>1
    <2>2. CASE r.found # << >>
      <3>1. PICK b \in Elements(t.vec) : r.found = <<b>>
        BY <2>2 DEF Walked
      <3>2. b \in Bucket
        BY <1>1, <1>2, <3>1 DEF Walked, SameTable
      <3>3. QED BY <3>1, <3>2
    <2>3. QED BY <2>1, <2>2
  <1>6. r = [found |-> r.found, table |-> u]
    BY <1>1 DEF Walked
  <1> HIDE DEF Vectors, Maps
  <1>7. u \in [vec : Vectors, tc : Seq(Bucket), bs : Maps]
    BY <1>2, <1>3, <1>4
  <1> DEFINE T == [vec : Vectors, tc : Seq(Bucket), bs : Maps]
  <1> HIDE DEF T
  <1>8. r \in [found : Seq(Bucket), table : T]
    BY <1>5, <1>6, <1>7 DEF T
  <1>9. QED BY <1>8 DEF Results, T, Vectors, Maps

\* what rehash-lookup comes to: it gives up only when the tconc is empty
Rehashed(t, x, r) == Walked(t, x, r) /\ (r.found = << >> => r.table.tc = << >>)

\* rehash-lookup
LEMMA RehashFinds ==
  ASSUME address \in [Keys -> Address], NEW t, Whole(t), NEW x, NEW r, r = RehashLookup(t, x)
  PROVE  Rehashed(t, x, r)
  <1> DEFINE n == Len(t.tc)
             b == [found |-> << >>, table |-> t]
             V == {z \in Results : Walked(t, x, z)}
             Step(z) == IF z.found # << >> \/ z.table.tc = << >> THEN z ELSE Round(z.table, x)
             step == [k \in 1 .. n |-> [z \in V |-> Step(z)]]
             F(g) == [k \in 0 .. n |->
                        IF k = 0 THEN [found |-> << >>, table |-> t]
                        ELSE IF g[k - 1].found # << >> THEN g[k - 1] ELSE Round(g[k - 1].table, x)]
  <1>1. t.tc \in Seq(Bucket) /\ n \in Nat
    <2>1. t.tc \in Seq(Bucket)
      BY DEF Whole, InPlace
    <2>2. QED BY <2>1
  <1>2. b \in V
    <2>1. SameTable(t, t)
      BY DEF SameTable, SameBuckets
    <2>2. b.found = << >> /\ b.table = t /\ b = [found |-> b.found, table |-> b.table]
      OBVIOUS
    <2> HIDE DEF b
    <2>3. Walked(t, x, b)
      BY <2>1, <2>2 DEF Walked
    <2>4. QED BY <2>3, WalkedResults
  <1>3. step \in [1 .. n -> [V -> V]]
    <2>1. ASSUME NEW z \in V PROVE Step(z) \in V
      <3>1. CASE z.found # << >> \/ z.table.tc = << >>
        BY <3>1
      <3>2. CASE z.found = << >> /\ z.table.tc # << >>
        <4>1. PICK s : s = Round(z.table, x)
          OBVIOUS
        <4>2. Walked(t, x, z)
          OBVIOUS
        <4>3. Walked(t, x, s)
          BY <3>2, <4>1, <4>2, WalkedOn
        <4>4. s \in V
          BY <4>3, WalkedResults
        <4>5. QED BY <3>2, <4>1, <4>4
      <3>3. QED BY <3>1, <3>2
    <2> HIDE DEF Step, V
    <2>2. QED BY <2>1
  <1> HIDE DEF V
  <1>4. PICK g : CountsUp(n, V, b, step, g)
    <2> HIDE DEF step, b, n
    <2>1. QED BY <1>1, <1>2, <1>3, CountedUp
  <1>5. /\ g \in [0 .. n -> V] /\ g[0] = b
        /\ \A k \in 1 .. n : g[k] = Step(g[k - 1])
    <2>1. \A k \in 1 .. n : k - 1 \in 0 .. n
      BY <1>1
    <2>2. g \in [0 .. n -> V] /\ g[0] = b /\ \A k \in 1 .. n : g[k] = step[k][g[k - 1]]
      BY <1>4 DEF CountsUp
    <2>3. \A k \in 1 .. n : g[k - 1] \in V
      BY <2>1, <2>2
    <2> HIDE DEF Step
    <2>4. QED BY <2>2, <2>3
  <1>6. \A k \in 0 .. n : Walked(t, x, g[k])
    BY <1>5 DEF V
  <1> DEFINE Left(k) == g[k].found = << >> => Len(g[k].table.tc) = n - k
  <1>7. ASSUME NEW k \in 1 .. n, Left(k - 1)
        PROVE  Left(k) /\ g[k] = IF g[k - 1].found # << >> THEN g[k - 1] ELSE Round(g[k - 1].table, x)
    <2>1. CASE g[k - 1].found # << >>
      BY <1>5, <2>1
    <2>2. CASE g[k - 1].found = << >>
      <3>1. k - 1 \in 0 .. n /\ k \in Nat
        BY <1>1
      <3>2. PICK z : z = g[k - 1]
        OBVIOUS
      <3>3. Walked(t, x, z)
        BY <1>6, <3>1, <3>2
      <3>4. PICK q \in Seq(Bucket) : q = z.table.tc
        BY <3>3 DEF Walked, Whole, InPlace
      <3>5. Len(q) = n - (k - 1)
        BY <1>7, <2>2, <3>2, <3>4
      <3>6. q # << >> /\ Len(Tail(q)) = n - k
        <4>1. Len(q) >= 1
          BY <1>1, <3>1, <3>5
        <4>2. q # << >> /\ Len(Tail(q)) = Len(q) - 1
          BY <3>4, <4>1
        <4>3. QED BY <1>1, <3>1, <3>5, <4>2
      <3>7. PICK s : s = Round(z.table, x)
        OBVIOUS
      <3>8. s.table.tc = Tail(z.table.tc)
        BY <2>2, <3>2, <3>3, <3>4, <3>6, <3>7, WalkedOn
      <3>9. g[k] = s
        BY <1>5, <2>2, <3>2, <3>4, <3>6, <3>7
      <3>10. QED BY <2>2, <3>2, <3>4, <3>6, <3>7, <3>8, <3>9
    <2>3. QED BY <2>1, <2>2
  <1>8. \A k \in 0 .. n : Left(k)
    <2> DEFINE Z == {k \in 0 .. n : ~Left(k)}
    <2>1. Z \subseteq Nat
      BY <1>1
    <2>2. Left(0)
      BY <1>1, <1>5
    <2> HIDE DEF n, Left
    <2>3. ASSUME Z # {} PROVE FALSE
      <3>1. PICK k \in Z : \A j \in Z : k <= j
        BY <2>1, <2>3, LeastNumber
      <3>2. k # 0
        BY <2>2
      <3>3. k \in 1 .. n /\ k - 1 \in 0 .. n /\ ~(k <= k - 1)
        BY <3>2, <1>1
      <3>4. Left(k - 1)
        BY <3>1, <3>3
      <3>5. QED BY <3>1, <3>3, <3>4, <1>7
    <2>4. QED BY <2>3
  <1>9. \A k \in 1 .. n :
          g[k] = IF g[k - 1].found # << >> THEN g[k - 1] ELSE Round(g[k - 1].table, x)
    <2>1. \A k \in 1 .. n : k - 1 \in 0 .. n
      BY <1>1
    <2> HIDE DEF n, Left
    <2>2. \A k \in 1 .. n : Left(k - 1)
      BY <1>8, <2>1
    <2>3. QED BY <1>7, <2>2
  <1>10. g = F(g)
    <2>1. \A k \in 0 .. n : k # 0 => k \in 1 .. n
      BY <1>1
    <2>2. \A k \in 0 .. n : g[k] = F(g)[k]
      BY <1>5, <1>9, <2>1
    <2>3. g = [k \in 0 .. n |-> g[k]]
      BY <1>5
    <2>4. QED BY <2>2, <2>3
  <1>11. ASSUME NEW h, h = F(h) PROVE h[n] = g[n]
    <2>1. h[0] = b /\ \A k \in 1 .. n :
            h[k] = IF h[k - 1].found # << >> THEN h[k - 1] ELSE Round(h[k - 1].table, x)
      <3>1. \A k \in 0 .. n : h[k] = F(h)[k]
        BY <1>11
      <3>2. 0 \in 0 .. n /\ \A k \in 1 .. n : k \in 0 .. n /\ k # 0
        BY <1>1
      <3>3. QED BY <3>1, <3>2
    <2> DEFINE T == {k \in 0 .. n : h[k] # g[k]}
    <2>2. T \subseteq Nat
      BY <1>1
    <2> HIDE DEF n
    <2>3. ASSUME T # {} PROVE FALSE
      <3>1. PICK k \in T : \A j \in T : k <= j
        BY <2>2, <2>3, LeastNumber
      <3>2. k # 0
        BY <1>5, <2>1
      <3>3. k \in 1 .. n /\ k - 1 \in 0 .. n /\ ~(k <= k - 1)
        BY <3>2, <1>1
      <3>4. h[k - 1] = g[k - 1]
        BY <3>1, <3>3
      <3>5. h[k] = g[k]
        BY <2>1, <1>9, <3>3, <3>4
      <3>6. QED BY <3>1, <3>5
    <2>4. n \in 0 .. n
      BY <1>1
    <2>5. QED BY <2>3, <2>4
  <1>12. r = g[n]
    <2> DEFINE c == CHOOSE h : h = F(h)
    <2>1. c = F(c)
      BY <1>10
    <2>2. r = c[n]
      BY Zenon DEF RehashLookup, Round
    <2> HIDE DEF c, F
    <2>3. QED BY <1>11, <2>1, <2>2
  <1>13. n \in 0 .. n
    BY <1>1
  <1>14. Walked(t, x, r)
    BY <1>6, <1>12, <1>13
  <1>15. r.found = << >> => Len(r.table.tc) = 0
    <2>1. r.found = << >> => Len(r.table.tc) = n - n
      BY <1>8, <1>12, <1>13
    <2>2. QED BY <1>1, <2>1
  <1>16. r.table.tc \in Seq(Bucket)
    BY <1>14 DEF Walked, Whole, InPlace
  <1>17. r.found = << >> => r.table.tc = << >>
    BY <1>15, <1>16
  <1>18. QED BY <1>14, <1>17 DEF Rehashed

\* the bucket of x is the only one of the list o, if it is not empty
Alone(t, x, o) == \E b \in Elements(t.vec) : t.bs[b].key = x /\ o = <<b>> /\ Head(o) = b

\* direct-lookup finds the bucket unless it waits on the tconc
LEMMA DirectFinds ==
  ASSUME address \in [Keys -> Address], NEW t, Whole(t), NEW x \in Keys, NEW o, o = Direct(t, x)
  PROVE  /\ o # << >> => Alone(t, x, o)
         /\ o = << >> => \A b \in Elements(t.vec) : t.bs[b].key = x => b \in ToSet(t.tc)
  <1> DEFINE X == Bucket
  <1>1. PICK v : v = t.vec
    OBVIOUS
  <1>2. PICK n : n = VectorSize(v)
    OBVIOUS
  <1>3. /\ Tidy(X, n, v) /\ Elements(v) \subseteq DOMAIN t.bs
        /\ \A b, c \in Elements(v) : t.bs[b].key = t.bs[c].key => b = c
        /\ \A b \in Elements(v) :
             IF t.bs[b].tracked THEN b \in ToSet(v[Slot(address, t.bs[b].key, n)]) ELSE b \in ToSet(t.tc)
    BY <1>1, <1>2 DEF Whole, InPlace
  <1>4. PICK i : i = Slot(address, x, n)
    OBVIOUS
  <1>5. n \in Nat \ {0} /\ DOMAIN v = 0 .. n - 1 /\ \A j \in 0 .. n - 1 : v[j] \in Seq(X) /\ Once(v[j])
    BY <1>3 DEF Tidy
  <1>6. i \in 0 .. n - 1
    BY <1>4, <1>5, SlotInRange
  <1>7. PICK list \in Seq(X) : list = v[i] /\ Once(list)
    BY <1>5, <1>6
  <1>8. ToSet(list) \subseteq Elements(v)
    BY <1>5, <1>6, <1>7 DEF Elements
  <1>9. PICK S : S = {b \in ToSet(list) : t.bs[b].key = x}
    OBVIOUS
  <1>10. o = Only(list, S)
    <2>1. ListOf(t.vec, x) = i
      BY <1>1, <1>2, <1>4 DEF ListOf, Slot
    <2>2. QED BY <1>1, <1>7, <1>9, <2>1 DEF Direct
  <1>11. o \in Seq(X) /\ ToSet(o) = ToSet(list) \cap S /\ Once(o)
    BY <1>7, <1>10, OnlyHolds
  <1>12. ToSet(o) = S
    BY <1>9, <1>11
  <1>13. ASSUME o # << >> PROVE Alone(t, x, o)
    <2>1. S # {}
      BY <1>11, <1>12, <1>13, HoldsNothing
    <2>2. PICK b : b \in S
      BY <2>1
    <2>3. S = {b}
      BY <1>3, <1>8, <1>9, <2>2
    <2>4. o = <<b>>
      BY <1>11, <1>12, <2>3, HoldsOne
    <2>5. Head(<<b>>) = b
      OBVIOUS
    <2>6. QED BY <1>1, <1>8, <1>9, <2>2, <2>4, <2>5 DEF Alone
  <1>14. ASSUME o = << >>, NEW b \in Elements(v), t.bs[b].key = x PROVE b \in ToSet(t.tc)
    <2>1. S = {}
      BY <1>11, <1>12, <1>14, HoldsNothing
    <2>2. ~(t.bs[b].tracked /\ b \in ToSet(list))
      BY <1>9, <1>14, <2>1
    <2>3. QED BY <1>3, <1>4, <1>7, <1>14, <2>2
  <1>15. QED BY <1>1, <1>13, <1>14

\* what a lookup comes to: it finds the bucket of x exactly if there is one, and leaves the
\* tconc empty if there is not
Gotten(t, x, r) ==
  /\ Whole(r.table) /\ SameTable(t, r.table)
  /\ r.found = << >> => r.table.tc = << >> /\ \A b \in Elements(t.vec) : t.bs[b].key # x
  /\ r.found # << >> => Alone(t, x, r.found)

\* get-bucket
LEMMA BucketGotten ==
  ASSUME address \in [Keys -> Address], NEW t, Whole(t), NEW x \in Keys, NEW r, r = GetBucket(t, x)
  PROVE  Gotten(t, x, r)
  <1>1. PICK o : o = Direct(t, x)
    OBVIOUS
  <1>2. /\ o # << >> => Alone(t, x, o)
        /\ o = << >> => \A b \in Elements(t.vec) : t.bs[b].key = x => b \in ToSet(t.tc)
    BY <1>1, DirectFinds
  <1>3. CASE o # << >>
    <2>1. r.found = o /\ r.table = t
      BY <1>1, <1>3 DEF GetBucket
    <2>2. SameTable(t, t)
      BY DEF SameTable, SameBuckets
    <2>3. QED BY <1>2, <1>3, <2>1, <2>2 DEF Gotten
  <1>4. CASE o = << >>
    <2>1. r = RehashLookup(t, x)
      BY <1>1, <1>4 DEF GetBucket
    <2>2. Rehashed(t, x, r)
      BY <2>1, RehashFinds
    <2>3. ASSUME r.found = << >>, NEW b \in Elements(t.vec), t.bs[b].key = x PROVE FALSE
      <3>1. b \in ToSet(r.table.tc) /\ r.table.tc = << >>
        BY <1>2, <1>4, <2>2, <2>3 DEF Rehashed, Walked
      <3>2. ToSet(<< >>) = {}
        BY DEF ToSet
      <3>3. QED BY <3>1, <3>2
    <2>4. ASSUME r.found # << >> PROVE Alone(t, x, r.found)
      <3>1. PICK b \in Elements(t.vec) : t.bs[b].key = x /\ r.found = <<b>>
        BY <2>2, <2>4 DEF Rehashed, Walked
      <3>2. Head(<<b>>) = b
        OBVIOUS
      <3>3. QED BY <3>1, <3>2 DEF Alone
    <2>5. QED BY <2>2, <2>3, <2>4 DEF Gotten, Rehashed, Walked
  <1>5. QED BY <1>3, <1>4

\* the keys of the linked buckets
KeysOf(vec, bs) == {bs[b].key : b \in Elements(vec)}

\* what the variables are
HashTableTypes ==
  /\ address \in [Keys -> Address] /\ keyGen \in [Keys -> Gens]
  /\ stored \subseteq Keys

\* the buckets are in place, no younger than their keys, and those that are linked have the
\* keys that the table is to hold
HashTableWhole ==
  /\ InPlace(vector, tconc, buckets, address)
  /\ DOMAIN buckets = Elements(vector) \cup ToSet(tconc)
  /\ \A b \in DOMAIN buckets : buckets[b].gen <= keyGen[buckets[b].key]
  /\ stored = KeysOf(vector, buckets)
  /\ count = Cardinality(Elements(vector))

\* a key that is about to be added is not there, and then no bucket that was taken out is kept
Adding ==
  doing.op = "adding" =>
    /\ doing = [op |-> "adding", key |-> doing.key, pv |-> doing.pv]
    /\ doing.key \in Keys \ stored /\ DOMAIN buckets = Elements(vector)

\* the invariant
HashTableInv == HashTableTypes /\ HashTableWhole /\ Adding

\* the buckets that are kept once a lookup, or a removal, is done
LEMMA KeptInPlace ==
  ASSUME NEW addr, NEW vec, NEW tc, NEW bs, InPlace(vec, tc, bs, addr),
         NEW t, t = [vec |-> vec, tc |-> tc, bs |-> bs], NEW kept, kept = Kept(t)
  PROVE  /\ InPlace(vec, tc, kept, addr)
         /\ DOMAIN kept = Elements(vec) \cup ToSet(tc) /\ DOMAIN kept \subseteq DOMAIN bs
         /\ \A b \in DOMAIN kept : kept[b] = bs[b]
  <1>1. t.vec = vec /\ t.tc = tc /\ t.bs = bs
    OBVIOUS
  <1>2. PICK used : used = Elements(vec) \cup ToSet(tc)
    OBVIOUS
  <1>3. kept = [b \in DOMAIN bs \cap used |-> bs[b]]
    BY <1>1, <1>2 DEF Kept, Elements
  <1>4. used \subseteq DOMAIN bs /\ DOMAIN bs \subseteq Bucket /\ bs \in [DOMAIN bs -> Buckets]
    BY <1>2 DEF InPlace
  <1>5. DOMAIN kept = used /\ \A b \in used : kept[b] = bs[b]
    BY <1>3, <1>4
  <1>6. kept \in [used -> Buckets]
    <2>1. \A b \in used : bs[b] \in Buckets
      BY <1>4
    <2>2. kept = [b \in used |-> kept[b]]
      BY <1>3, <1>5
    <2>3. QED BY <1>5, <2>1, <2>2
  <1>7. InPlace(vec, tc, kept, addr)
    <2>1. DOMAIN kept \subseteq Bucket /\ kept \in [DOMAIN kept -> Buckets]
      BY <1>4, <1>5, <1>6
    <2>2. Elements(vec) \subseteq used /\ ToSet(tc) \subseteq used
      BY <1>2
    <2>3. \A b \in DOMAIN kept : kept[b].linked <=> b \in Elements(vec)
      BY <1>4, <1>5 DEF InPlace
    <2>4. \A b \in ToSet(tc) : ~kept[b].tracked
      BY <1>5, <2>2 DEF InPlace
    <2>5. \A b, c \in Elements(vec) : kept[b].key = kept[c].key => b = c
      BY <1>5, <2>2 DEF InPlace
    <2>6. \A b \in Elements(vec) :
            IF kept[b].tracked THEN b \in ToSet(vec[Slot(addr, kept[b].key, VectorSize(vec))]) ELSE b \in ToSet(tc)
      BY <1>5, <2>2 DEF InPlace
    <2>7. Elements(vec) \cup ToSet(tc) \subseteq DOMAIN kept
      BY <1>2, <1>5
    <2>8. Tidy(Bucket, VectorSize(vec), vec) /\ tc \in Seq(Bucket) /\ Once(tc)
      BY DEF InPlace
    <2>9. QED BY <2>1, <2>3, <2>4, <2>5, <2>6, <2>7, <2>8 DEF InPlace
  <1>8. QED BY <1>2, <1>4, <1>5, <1>7

\* at first nothing is there
LEMMA HashTableInvInit == HashTableInit => HashTableInv
  <1> SUFFICES ASSUME HashTableInit PROVE HashTableInv
    OBVIOUS
  <1>1. /\ vector = EmptyVector(FirstSize) /\ count = 0 /\ tconc = << >> /\ buckets = << >>
        /\ address \in [Keys -> Address] /\ keyGen \in [Keys -> Gens] /\ doing = Idle /\ stored = {}
    BY DEF HashTableInit
  <1>2. FirstSize \in Nat \ {0}
    BY HashTableAssumption
  <1> DEFINE X == Bucket
  <1>3. Tidy(X, FirstSize, vector) /\ Elements(vector) = {}
    <2>1. vector = [i \in 0 .. FirstSize - 1 |-> << >>]
      BY <1>1 DEF EmptyVector
    <2> HIDE DEF X
    <2>2. QED BY <1>2, <2>1, EmptyTidy
  <1>4. VectorSize(vector) = FirstSize
    <2> HIDE DEF X
    <2>1. QED BY <1>3, TidySize
  <1>5. DOMAIN buckets = {} /\ buckets \in [DOMAIN buckets -> Buckets]
    <2>1. << >> \in Seq(Buckets) /\ Len(<< >>) = 0
      OBVIOUS
    <2>2. << >> \in [1 .. 0 -> Buckets]
      BY <2>1
    <2>3. QED BY <1>1, <2>2
  <1>6. tconc \in Seq(Bucket) /\ ToSet(tconc) = {} /\ Once(tconc)
    BY <1>1 DEF ToSet, Once
  <1>7. InPlace(vector, tconc, buckets, address)
    BY <1>3, <1>4, <1>5, <1>6 DEF InPlace
  <1>8. Cardinality(Elements(vector)) = 0
    BY <1>3, FS_EmptySet
  <1>9. HashTableWhole
    BY <1>1, <1>3, <1>5, <1>6, <1>7, <1>8 DEF HashTableWhole, KeysOf
  <1>10. Adding
    BY <1>1 DEF Adding, Idle
  <1>11. QED BY <1>1, <1>9, <1>10 DEF HashTableInv, HashTableTypes

\* what a lookup finds out
LEMMA LookupFinds ==
  ASSUME HashTableInv, NEW x \in Keys, NEW r, r = GetBucket(TheTable, x)
  PROVE  Gotten(TheTable, x, r) /\ (r.found # << >> <=> x \in stored)
  <1>1. PICK t : t = TheTable
    OBVIOUS
  <1>2. t.vec = vector /\ t.tc = tconc /\ t.bs = buckets /\ t = [vec |-> t.vec, tc |-> t.tc, bs |-> t.bs]
    BY <1>1 DEF TheTable
  <1>3. Whole(t) /\ address \in [Keys -> Address]
    BY <1>2 DEF HashTableInv, HashTableTypes, HashTableWhole, Whole
  <1>4. Gotten(t, x, r)
    BY <1>1, <1>3, BucketGotten
  <1>5. x \in stored <=> \E b \in Elements(vector) : buckets[b].key = x
    BY DEF HashTableInv, HashTableWhole, KeysOf
  <1>6. r.found # << >> <=> \E b \in Elements(vector) : buckets[b].key = x
    BY <1>2, <1>4 DEF Gotten, Alone
  <1>7. QED BY <1>1, <1>4, <1>5, <1>6

\* a table that holds what the present one does may take its place
LEMMA SameWhole ==
  ASSUME HashTableInv, NEW u, Whole(u), SameTable(TheTable, u), SetHashTable(u),
         UNCHANGED <<count, address, keyGen, stored>>
  PROVE  HashTableWhole' /\ HashTableTypes' /\ Elements(vector') = Elements(vector)
  <1>1. PICK v, q, bs : u = [vec |-> v, tc |-> q, bs |-> bs] /\ v = u.vec /\ q = u.tc /\ bs = u.bs
    BY DEF Whole
  <1>2. InPlace(v, q, bs, address)
    BY <1>1 DEF Whole
  <1>3. PICK kept : kept = Kept(u)
    OBVIOUS
  <1>4. vector' = v /\ tconc' = q /\ buckets' = kept
    BY <1>1, <1>3 DEF SetHashTable
  <1>5. /\ InPlace(v, q, kept, address)
        /\ DOMAIN kept = Elements(v) \cup ToSet(q) /\ DOMAIN kept \subseteq DOMAIN bs
        /\ \A b \in DOMAIN kept : kept[b] = bs[b]
    BY <1>1, <1>2, <1>3, KeptInPlace
  <1>6. /\ Elements(v) = Elements(vector) /\ DOMAIN bs = DOMAIN buckets
        /\ \A c \in DOMAIN buckets : bs[c].key = buckets[c].key /\ bs[c].gen = buckets[c].gen
    BY <1>1 DEF SameTable, SameBuckets, TheTable
  <1>7. /\ DOMAIN buckets = Elements(vector) \cup ToSet(tconc)
        /\ \A b \in DOMAIN buckets : buckets[b].gen <= keyGen[buckets[b].key]
        /\ stored = KeysOf(vector, buckets) /\ count = Cardinality(Elements(vector))
    BY DEF HashTableInv, HashTableWhole
  <1>8. \A b \in DOMAIN kept : kept[b].key = buckets[b].key /\ kept[b].gen = buckets[b].gen
    BY <1>5, <1>6
  <1>9. \A b \in DOMAIN kept : kept[b].gen <= keyGen[kept[b].key]
    BY <1>5, <1>6, <1>7, <1>8
  <1>10. KeysOf(v, kept) = KeysOf(vector, buckets)
    BY <1>5, <1>6, <1>8 DEF KeysOf
  <1>11. HashTableWhole'
    BY <1>4, <1>5, <1>6, <1>7, <1>9, <1>10 DEF HashTableWhole
  <1>12. HashTableTypes'
    BY DEF HashTableInv, HashTableTypes
  <1>13. QED BY <1>4, <1>6, <1>11, <1>12

\* hashtable-ref
LEMMA RefKeyKeeps ==
  ASSUME HashTableInv, NEW x \in Keys, RefKey(x)
  PROVE  HashTableInv'
  <1>1. PICK r : r = GetBucket(TheTable, x)
    OBVIOUS
  <1>2. Whole(r.table) /\ SameTable(TheTable, r.table)
    BY <1>1, LookupFinds DEF Gotten
  <1>3. SetHashTable(r.table) /\ UNCHANGED <<count, address, keyGen, stored>>
    BY <1>1 DEF RefKey
  <1>4. HashTableWhole' /\ HashTableTypes'
    <2>1. PICK u : u = r.table
      OBVIOUS
    <2>2. QED BY <1>2, <1>3, <2>1, SameWhole
  <1>5. Adding'
    BY DEF RefKey, Adding, Idle
  <1>6. QED BY <1>4, <1>5 DEF HashTableInv

\* put-hash! up to the allocation
LEMMA PutKeyKeeps ==
  ASSUME HashTableInv, NEW x \in Keys, PutKey(x)
  PROVE  HashTableInv'
  <1>1. PICK r : r = GetBucket(TheTable, x)
    OBVIOUS
  <1>2. Gotten(TheTable, x, r) /\ (r.found # << >> <=> x \in stored)
    BY <1>1, LookupFinds
  <1>3. PICK u : u = r.table
    OBVIOUS
  <1>4. Whole(u) /\ SameTable(TheTable, u)
    BY <1>2, <1>3 DEF Gotten
  <1>5. /\ SetHashTable(u) /\ UNCHANGED <<count, address, keyGen, stored>>
        /\ doing' = IF r.found # << >> THEN Idle ELSE [op |-> "adding", key |-> x, pv |-> address[x]]
    BY <1>1, <1>3 DEF PutKey
  <1>6. HashTableWhole' /\ HashTableTypes'
    BY <1>4, <1>5, SameWhole
  <1>7. CASE r.found # << >>
    <2>1. Adding'
      BY <1>5, <1>7 DEF Adding, Idle
    <2>2. QED BY <1>6, <2>1 DEF HashTableInv
  <1>8. CASE r.found = << >>
    <2>1. doing' = [op |-> "adding", key |-> x, pv |-> address[x]]
      BY <1>5, <1>8
    <2>2. x \in Keys \ stored'
      BY <1>2, <1>5, <1>8
    <2>3. tconc' = << >>
      BY <1>2, <1>3, <1>5, <1>8 DEF Gotten, SetHashTable
    <2>4. ToSet(<< >>) = {}
      BY DEF ToSet
    <2>5. DOMAIN buckets' = Elements(vector')
      BY <1>6, <2>3, <2>4 DEF HashTableWhole
    <2>6. Adding'
      BY <2>1, <2>2, <2>5 DEF Adding
    <2>7. QED BY <1>6, <2>6 DEF HashTableInv
  <1>9. QED BY <1>7, <1>8

\* hashtable-clear!
LEMMA ClearTableKeeps ==
  ASSUME HashTableInv, ClearTable
  PROVE  HashTableInv'
  <1> DEFINE X == Bucket
  <1>1. PICK n : n = VectorSize(vector)
    OBVIOUS
  <1>2. PICK v : v = EmptyVector(n)
    OBVIOUS
  <1>3. PICK t : t = [vec |-> v, tc |-> << >>, bs |-> buckets]
    OBVIOUS
  <1>4. InPlace(vector, tconc, buckets, address)
    BY DEF HashTableInv, HashTableWhole
  <1>5. n \in Nat \ {0}
    BY <1>1, <1>4 DEF InPlace, Tidy
  <1>6. Tidy(X, n, v) /\ Elements(v) = {}
    <2>1. v = [i \in 0 .. n - 1 |-> << >>]
      BY <1>2 DEF EmptyVector
    <2> HIDE DEF X
    <2>2. QED BY <1>5, <2>1, EmptyTidy
  <1>7. VectorSize(v) = n
    <2> HIDE DEF X
    <2>1. QED BY <1>6, TidySize
  <1>8. vector' = v /\ tconc' = << >> /\ buckets' = Kept(t)
    BY <1>1, <1>2, <1>3 DEF ClearTable, SetHashTable
  <1>9. ToSet(<< >>) = {} /\ << >> \in Seq(Bucket) /\ Once(<< >>)
    BY DEF ToSet, Once
  <1>10. buckets' = [b \in {} |-> buckets[b]]
    <2>1. t.vec = v /\ t.tc = << >> /\ t.bs = buckets
      BY <1>3
    <2>2. UNION {ToSet(v[i]) : i \in DOMAIN v} = {}
      BY <1>6 DEF Elements
    <2>3. QED BY <1>8, <1>9, <2>1, <2>2 DEF Kept
  <1>11. DOMAIN buckets' = {} /\ buckets' \in [DOMAIN buckets' -> Buckets]
    BY <1>10
  <1>12. InPlace(vector', tconc', buckets', address')
    BY <1>6, <1>7, <1>8, <1>9, <1>11 DEF InPlace
  <1>13. count' = 0 /\ stored' = {} /\ UNCHANGED <<address, keyGen, doing>> /\ doing = Idle
    BY DEF ClearTable
  <1>14. Cardinality(Elements(vector')) = 0 /\ KeysOf(vector', buckets') = {}
    BY <1>6, <1>8, FS_EmptySet DEF KeysOf
  <1>15. HashTableWhole'
    BY <1>6, <1>8, <1>9, <1>11, <1>12, <1>13, <1>14 DEF HashTableWhole
  <1>16. HashTableTypes' /\ Adding'
    BY <1>13 DEF HashTableInv, HashTableTypes, Adding, Idle
  <1>17. QED BY <1>15, <1>16 DEF HashTableInv

\* what the state says of the buckets
LEMMA WholeBuckets ==
  ASSUME HashTableInv
  PROVE  /\ IsFiniteSet(Elements(vector)) /\ Elements(vector) \subseteq DOMAIN buckets
         /\ \A b \in DOMAIN buckets : buckets[b] \in Buckets /\ buckets[b].key \in Keys
         /\ Cardinality(Elements(vector)) = Len(Joined(vector))
         /\ Cardinality(stored) = Cardinality(Elements(vector)) /\ IsFiniteSet(stored)
         /\ VectorSize(vector) \in Nat \ {0}
  <1> DEFINE X == Bucket
  <1>1. PICK n : n = VectorSize(vector)
    OBVIOUS
  <1>2. /\ Tidy(X, n, vector) /\ Elements(vector) \subseteq DOMAIN buckets
        /\ buckets \in [DOMAIN buckets -> Buckets]
        /\ \A b, c \in Elements(vector) : buckets[b].key = buckets[c].key => b = c
        /\ stored = KeysOf(vector, buckets)
    BY <1>1 DEF HashTableInv, HashTableWhole, InPlace
  <1>3. IsFiniteSet(Elements(vector)) /\ Cardinality(Elements(vector)) = Len(Joined(vector))
    <2> HIDE DEF X
    <2>1. QED BY <1>2, JoinedHolds
  <1>4. n \in Nat \ {0}
    <2> HIDE DEF X
    <2>1. QED BY <1>2, TidySize
  <1>5. \A b \in DOMAIN buckets : buckets[b] \in Buckets /\ buckets[b].key \in Keys
    BY <1>2 DEF Buckets
  <1>6. PICK E : E = Elements(vector)
    OBVIOUS
  <1> DEFINE f == [b \in E |-> buckets[b].key]
  <1>7. f \in Bijection(E, stored)
    <2>1. f \in [E -> stored] /\ \A b, c \in E : f[b] = f[c] => b = c
      BY <1>2, <1>6 DEF KeysOf
    <2>2. \A k \in stored : \E b \in E : f[b] = k
      BY <1>2, <1>6 DEF KeysOf
    <2> HIDE DEF f
    <2>3. f \in Injection(E, stored) /\ f \in Surjection(E, stored)
      BY <2>1, <2>2 DEF Injection, IsInjective, Surjection
    <2>4. QED BY <2>3 DEF Bijection
  <1>8. IsFiniteSet(stored) /\ Cardinality(stored) = Cardinality(E)
    <2> HIDE DEF f
    <2>1. ExistsBijection(E, stored)
      BY <1>7 DEF ExistsBijection
    <2>2. QED BY <1>3, <1>6, <2>1, FS_Bijection
  <1>9. QED BY <1>1, <1>2, <1>3, <1>4, <1>5, <1>6, <1>8

\* there are buckets enough: each linked one has a key of its own
LEMMA FreshBucket ==
  ASSUME HashTableInv, doing.op = "adding"
  PROVE  Min(Bucket \ DOMAIN buckets) \in Bucket \ DOMAIN buckets
  <1> DEFINE S == Bucket \ DOMAIN buckets
  <1>1. PICK k \in Nat : k = Cardinality(Keys)
    BY HashTableAssumption, FS_CardinalityType
  <1>2. Bucket = 1 .. 2 * k /\ Bucket \subseteq Nat
    BY <1>1 DEF Bucket
  <1>3. Cardinality(Bucket) = 2 * k /\ IsFiniteSet(Bucket)
    <2>1. PICK m \in Nat : m = 2 * k
      BY <1>1
    <2>2. Cardinality(1 .. m) = (IF 1 > m THEN 0 ELSE m - 1 + 1) /\ IsFiniteSet(1 .. m)
      BY <2>1, FS_Interval
    <2>3. QED BY <1>2, <2>1, <2>2
  <1>4. doing.key \in Keys /\ doing.key \notin stored /\ DOMAIN buckets = Elements(vector)
    BY DEF HashTableInv, Adding
  <1>5. stored \subseteq Keys \ {doing.key}
    BY <1>4 DEF HashTableInv, HashTableTypes
  <1>6. Cardinality(stored) <= k /\ k > 0
    <2>1. stored \in SUBSET Keys
      BY <1>5
    <2>2. Cardinality(stored) <= k
      BY <1>1, <2>1, HashTableAssumption, FS_Subset
    <2>3. k # 0
      BY <1>1, <1>4, HashTableAssumption, FS_EmptySet
    <2>4. QED BY <1>1, <2>2, <2>3
  <1>7. ASSUME S = {} PROVE FALSE
    <2>1. Bucket \in SUBSET Elements(vector)
      BY <1>4, <1>7
    <2>2. Cardinality(Bucket) <= Cardinality(Elements(vector))
      BY <2>1, WholeBuckets, FS_Subset
    <2>3. PICK m \in Nat : m = Cardinality(stored)
      BY WholeBuckets, FS_CardinalityType
    <2>4. 2 * k <= m
      BY <1>3, <2>2, <2>3, WholeBuckets
    <2>5. QED BY <1>1, <1>6, <2>3, <2>4
  <1>8. S \subseteq Nat
    BY <1>2
  <1> HIDE DEF S
  <1>9. Min(S) \in S
    BY <1>7, <1>8, MinIsLeast
  <1>10. QED BY <1>9 DEF S

\* a new bucket of the key k at the front of its list
LEMMA NewInPlace ==
  ASSUME NEW addr \in [Keys -> Address], NEW vec, NEW tc, NEW bs, InPlace(vec, tc, bs, addr),
         NEW b \in Bucket, b \notin DOMAIN bs, NEW bt, bt \in [DOMAIN bs \cup {b} -> Buckets],
         \A c \in DOMAIN bs : bt[c] = bs[c], bt[b].tracked, bt[b].linked,
         \A c \in Elements(vec) : bs[c].key # bt[b].key,
         NEW i, i = Slot(addr, bt[b].key, VectorSize(vec)), NEW v, v = Put(vec, i, b)
  PROVE  InPlace(v, tc, bt, addr) /\ Elements(v) = Elements(vec) \cup {b}
  <1> DEFINE X == Bucket
  <1>1. PICK n : n = VectorSize(vec)
    OBVIOUS
  <1>2. /\ Tidy(X, n, vec) /\ tc \in Seq(Bucket) /\ Once(tc)
        /\ DOMAIN bs \subseteq Bucket /\ Elements(vec) \cup ToSet(tc) \subseteq DOMAIN bs
        /\ \A c \in DOMAIN bs : bs[c].linked <=> c \in Elements(vec)
        /\ \A c \in ToSet(tc) : ~bs[c].tracked
        /\ \A c, d \in Elements(vec) : bs[c].key = bs[d].key => c = d
        /\ \A c \in Elements(vec) :
             IF bs[c].tracked THEN c \in ToSet(vec[Slot(addr, bs[c].key, n)]) ELSE c \in ToSet(tc)
    BY <1>1 DEF InPlace
  <1>3. bs \in [DOMAIN bs -> Buckets]
    BY DEF InPlace
  <1>4. (\A c \in DOMAIN bs : bs[c].key \in Keys) /\ bt[b].key \in Keys
    <2>1. \A c \in DOMAIN bs : bs[c] \in Buckets
      BY <1>3
    <2>2. bt[b] \in Buckets
      OBVIOUS
    <2>3. QED BY <2>1, <2>2 DEF Buckets
  <1>5. n \in Nat \ {0}
    <2> HIDE DEF X
    <2>1. QED BY <1>2, TidySize
  <1>6. i = Slot(addr, bt[b].key, n) /\ i \in 0 .. n - 1
    BY <1>1, <1>4, <1>5, SlotInRange
  <1>7. b \in X /\ b \notin Elements(vec) /\ b \notin ToSet(tc)
    BY <1>2
  <1>8. /\ Tidy(X, n, v) /\ Elements(v) = Elements(vec) \cup {b}
        /\ ToSet(v[i]) = ToSet(vec[i]) \cup {b}
        /\ \A j \in 0 .. n - 1 : j # i => ToSet(v[j]) = ToSet(vec[j])
    <2> HIDE DEF X
    <2>1. Tidy(X, n, v) /\ Elements(v) = Elements(vec) \cup {b}
      BY <1>2, <1>6, <1>7, PutTidy
    <2>2. /\ ToSet(v[i]) = ToSet(vec[i]) \cup {b}
          /\ \A j \in 0 .. n - 1 : j # i => ToSet(v[j]) = ToSet(vec[j])
      BY <1>2, <1>6, <1>7, PutTidy
    <2>3. QED BY <2>1, <2>2
  <1>9. VectorSize(v) = n
    <2> HIDE DEF X
    <2>1. QED BY <1>8, TidySize
  <1>10. DOMAIN bt = DOMAIN bs \cup {b} /\ bt \in [DOMAIN bt -> Buckets]
    OBVIOUS
  <1>11. ASSUME NEW c \in Elements(v)
         PROVE  IF bt[c].tracked THEN c \in ToSet(v[Slot(addr, bt[c].key, n)]) ELSE c \in ToSet(tc)
    <2>1. CASE c = b
      BY <1>6, <1>8, <2>1
    <2>2. CASE c # b
      <3>1. c \in Elements(vec) /\ bt[c] = bs[c]
        BY <1>2, <1>8, <2>2
      <3>2. PICK j : j = Slot(addr, bs[c].key, n)
        OBVIOUS
      <3>3. j \in 0 .. n - 1
        BY <1>2, <1>4, <1>5, <3>1, <3>2, SlotInRange
      <3>4. ToSet(vec[j]) \subseteq ToSet(v[j])
        BY <1>8, <3>3
      <3>5. QED BY <1>2, <3>1, <3>2, <3>4
    <2>3. QED BY <2>1, <2>2
  <1>12. /\ Elements(v) \cup ToSet(tc) \subseteq DOMAIN bt
         /\ DOMAIN bt \subseteq Bucket
         /\ \A c \in DOMAIN bt : bt[c].linked <=> c \in Elements(v)
    BY <1>2, <1>8, <1>10
  <1>13. \A c \in ToSet(tc) : ~bt[c].tracked
    BY <1>2
  <1>14. \A c, d \in Elements(v) : bt[c].key = bt[d].key => c = d
    BY <1>2, <1>8
  <1>15. InPlace(v, tc, bt, addr)
    BY <1>2, <1>8, <1>9, <1>10, <1>11, <1>12, <1>13, <1>14 DEF InPlace
  <1>16. QED BY <1>8, <1>15

\* put-hash! from the new bucket on
LEMMA FinishPutKeeps ==
  ASSUME HashTableInv, FinishPut
  PROVE  HashTableInv'
  <1>1. doing.op = "adding"
    BY DEF FinishPut
  <1>2. PICK b : b = Min(Bucket \ DOMAIN buckets)
    OBVIOUS
  <1>3. b \in Bucket /\ b \notin DOMAIN buckets
    BY <1>1, <1>2, FreshBucket
  <1>4. PICK k : k = doing.key
    OBVIOUS
  <1>5. k \in Keys /\ k \notin stored /\ DOMAIN buckets = Elements(vector)
    BY <1>1, <1>4 DEF HashTableInv, Adding
  <1>6. PICK new : new = [key |-> k, gen |-> 0, tracked |-> TRUE, linked |-> TRUE]
    OBVIOUS
  <1>7. PICK i : i = Slot(address, k, VectorSize(vector))
    OBVIOUS
  <1>8. PICK v : v = Put(vector, i, b)
    OBVIOUS
  <1>9. PICK bt : bt = [c \in DOMAIN buckets \cup {b} |-> IF c = b THEN new ELSE buckets[c]]
    OBVIOUS
  <1>10. /\ vector' = v /\ buckets' = bt /\ count' = count + 1 /\ stored' = stored \cup {k}
         /\ UNCHANGED <<tconc, address, keyGen>>
         /\ doing' = IF count > VectorSize(vector) THEN [op |-> "enlarging"] ELSE Idle
    BY <1>2, <1>4, <1>6, <1>7, <1>8, <1>9 DEF FinishPut, AddressNow, Slot, Put
  <1>11. new \in Buckets /\ new.key = k /\ new.gen = 0 /\ new.tracked /\ new.linked
    BY <1>5, <1>6, HashTableAssumption DEF Buckets, Gens
  <1>12. /\ InPlace(vector, tconc, buckets, address) /\ address \in [Keys -> Address]
         /\ keyGen \in [Keys -> Gens] /\ stored \subseteq Keys
         /\ DOMAIN buckets = Elements(vector) \cup ToSet(tconc)
         /\ \A c \in DOMAIN buckets : buckets[c].gen <= keyGen[buckets[c].key]
         /\ stored = KeysOf(vector, buckets) /\ count = Cardinality(Elements(vector))
    BY DEF HashTableInv, HashTableTypes, HashTableWhole
  <1>13. /\ bt \in [DOMAIN buckets \cup {b} -> Buckets] /\ DOMAIN bt = DOMAIN buckets \cup {b}
         /\ bt[b] = new /\ \A c \in DOMAIN buckets : bt[c] = buckets[c]
    BY <1>3, <1>9, <1>11, WholeBuckets
  <1>14. \A c \in Elements(vector) : buckets[c].key # k
    BY <1>5, <1>12 DEF KeysOf
  <1>15. InPlace(v, tconc, bt, address) /\ Elements(v) = Elements(vector) \cup {b}
    <2>1. PICK vec, tc, bs, addr : vec = vector /\ tc = tconc /\ bs = buckets /\ addr = address
      OBVIOUS
    <2>2. addr \in [Keys -> Address] /\ InPlace(vec, tc, bs, addr) /\ b \in Bucket /\ b \notin DOMAIN bs
      BY <1>3, <1>12, <2>1
    <2>3. bt \in [DOMAIN bs \cup {b} -> Buckets] /\ (\A c \in DOMAIN bs : bt[c] = bs[c])
          /\ bt[b].tracked /\ bt[b].linked
      BY <1>11, <1>13, <2>1
    <2>4. \A c \in Elements(vec) : bs[c].key # bt[b].key
      BY <1>11, <1>13, <1>14, <2>1
    <2>5. i = Slot(addr, bt[b].key, VectorSize(vec)) /\ v = Put(vec, i, b)
      BY <1>7, <1>8, <1>11, <1>13, <2>1
    <2>6. InPlace(v, tc, bt, addr)
      BY <2>2, <2>3, <2>4, <2>5, NewInPlace
    <2>7. Elements(v) = Elements(vec) \cup {b}
      BY <2>2, <2>3, <2>4, <2>5, NewInPlace
    <2>8. QED BY <2>1, <2>6, <2>7
  <1>16. DOMAIN bt = Elements(v) \cup ToSet(tconc)
    BY <1>12, <1>13, <1>15
  <1>17. \A c \in DOMAIN bt : bt[c].gen <= keyGen[bt[c].key]
    <2>1. 0 <= keyGen[k]
      BY <1>5, <1>12 DEF Gens
    <2>2. QED BY <1>11, <1>12, <1>13, <2>1
  <1>18. KeysOf(v, bt) = KeysOf(vector, buckets) \cup {k}
    BY <1>5, <1>11, <1>13, <1>15 DEF KeysOf
  <1>19. Cardinality(Elements(v)) = count + 1
    <2>1. PICK E : E = Elements(vector)
      OBVIOUS
    <2>2. IsFiniteSet(E) /\ b \notin E
      BY <1>3, <1>5, <2>1, WholeBuckets
    <2>3. Cardinality(E \cup {b}) = Cardinality(E) + 1
      BY <2>2, FS_AddElement
    <2>4. QED BY <1>12, <1>15, <2>1, <2>3
  <1>20. HashTableWhole'
    BY <1>10, <1>12, <1>15, <1>16, <1>17, <1>18, <1>19 DEF HashTableWhole
  <1>21. HashTableTypes'
    BY <1>5, <1>10, <1>12 DEF HashTableTypes
  <1>22. doing'.op # "adding"
    BY <1>10 DEF Idle
  <1>23. QED BY <1>20, <1>21, <1>22 DEF HashTableInv, Adding

\* enlarge-table
LEMMA EnlargeTableKeeps ==
  ASSUME HashTableInv, EnlargeTable
  PROVE  HashTableInv'
  <1> DEFINE X == Bucket
  <1>1. PICK n : n = VectorSize(vector)
    OBVIOUS
  <1>2. /\ Tidy(X, n, vector) /\ tconc \in Seq(Bucket) /\ Once(tconc)
        /\ DOMAIN buckets \subseteq Bucket /\ buckets \in [DOMAIN buckets -> Buckets]
        /\ Elements(vector) \cup ToSet(tconc) \subseteq DOMAIN buckets
        /\ \A c \in DOMAIN buckets : buckets[c].linked <=> c \in Elements(vector)
        /\ \A c \in ToSet(tconc) : ~buckets[c].tracked
        /\ \A c, d \in Elements(vector) : buckets[c].key = buckets[d].key => c = d
        /\ \A c \in Elements(vector) : ~buckets[c].tracked => c \in ToSet(tconc)
    BY <1>1 DEF HashTableInv, HashTableWhole, InPlace
  <1>3. address \in [Keys -> Address]
    BY DEF HashTableInv, HashTableTypes
  <1>4. PICK m \in Nat \ {0} : m = 2 * n
    BY <1>1, WholeBuckets
  <1>5. PICK z : z = [i \in 0 .. m - 1 |-> << >>]
    OBVIOUS
  <1>6. VectorSize(z) = m
    BY <1>4, <1>5, CountLists DEF VectorSize
  <1>7. PICK place : place = [b \in DOMAIN buckets |-> Slot(address, buckets[b].key, m)]
    OBVIOUS
  <1>8. PICK l : l = Joined(vector)
    OBVIOUS
  <1>9. l \in Seq(X) /\ Once(l) /\ ToSet(l) = Elements(vector)
    <2> HIDE DEF X
    <2>1. QED BY <1>2, <1>8, JoinedHolds
  <1>10. PICK w : w = Spread(l, z, place)
    OBVIOUS
  <1>11. vector' = w /\ UNCHANGED <<count, tconc, buckets, address, keyGen, stored>> /\ doing' = Idle
    <2>1. EmptyVector(2 * VectorSize(vector)) = z
      BY <1>1, <1>4, <1>5 DEF EmptyVector
    <2>2. [b \in DOMAIN buckets |-> ListOf(z, buckets[b].key)] = place
      BY <1>6, <1>7 DEF ListOf, Slot
    <2>3. QED BY <1>8, <1>10, <2>1, <2>2 DEF EnlargeTable
  <1>12. \A b \in ToSet(l) : b \in DOMAIN buckets /\ place[b] \in 0 .. m - 1
    <2>1. \A b \in DOMAIN buckets : place[b] \in 0 .. m - 1
      BY <1>3, <1>7, WholeBuckets, SlotInRange
    <2>2. QED BY <1>2, <1>9, <2>1
  <1>13. /\ Tidy(X, m, w) /\ Elements(w) = Elements(vector)
         /\ \A i \in 0 .. m - 1 : \A b \in ToSet(w[i]) : place[b] = i
    <2>1. l \in Seq(X) /\ Once(l) /\ \A b \in ToSet(l) : place[b] \in 0 .. m - 1
      BY <1>9, <1>12
    <2> HIDE DEF X
    <2>2. /\ Tidy(X, m, w) /\ Elements(w) = ToSet(l)
          /\ \A i \in 0 .. m - 1 : \A b \in ToSet(w[i]) : place[b] = i
      BY <1>4, <1>5, <1>10, <2>1, SpreadHolds
    <2>3. QED BY <1>9, <2>2
  <1>14. VectorSize(w) = m /\ DOMAIN w = 0 .. m - 1
    <2> HIDE DEF X
    <2>1. QED BY <1>13, TidySize
  <1>15. ASSUME NEW b \in Elements(w)
         PROVE  IF buckets[b].tracked THEN b \in ToSet(w[Slot(address, buckets[b].key, m)]) ELSE b \in ToSet(tconc)
    <2>1. PICK i \in 0 .. m - 1 : b \in ToSet(w[i])
      BY <1>14 DEF Elements
    <2>2. b \in DOMAIN buckets /\ place[b] = i
      BY <1>2, <1>13, <2>1
    <2>3. i = Slot(address, buckets[b].key, m)
      BY <1>7, <2>2
    <2>4. QED BY <1>2, <1>13, <2>1, <2>3
  <1>16. InPlace(w, tconc, buckets, address)
    BY <1>2, <1>13, <1>14, <1>15 DEF InPlace
  <1>17. KeysOf(w, buckets) = KeysOf(vector, buckets)
    BY <1>13 DEF KeysOf
  <1>18. HashTableWhole'
    BY <1>11, <1>13, <1>16, <1>17 DEF HashTableInv, HashTableWhole
  <1>19. HashTableTypes' /\ Adding'
    BY <1>11 DEF HashTableInv, HashTableTypes, Adding, Idle
  <1>20. QED BY <1>18, <1>19 DEF HashTableInv

\* the bucket b is no longer linked
Unlinked(bs, b) == [bs EXCEPT ![b] = [@ EXCEPT !.linked = FALSE]]

\* that bucket is otherwise as it was, and so are the others
LEMMA UnlinkedMark ==
  ASSUME NEW bs, bs \in [DOMAIN bs -> Buckets], NEW b \in DOMAIN bs, NEW bt, bt = Unlinked(bs, b)
  PROVE  /\ bt \in [DOMAIN bs -> Buckets] /\ ~bt[b].linked
         /\ \A c \in DOMAIN bs :
              bt[c].key = bs[c].key /\ bt[c].gen = bs[c].gen /\ bt[c].tracked = bs[c].tracked
         /\ \A c \in DOMAIN bs \ {b} : bt[c].linked = bs[c].linked
  <1>1. /\ DOMAIN bt = DOMAIN bs /\ bt = [c \in DOMAIN bs |-> bt[c]]
        /\ bt[b] = [bs[b] EXCEPT !.linked = FALSE]
        /\ \A c \in DOMAIN bs \ {b} : bt[c] = bs[c]
    BY DEF Unlinked
  <1>2. \A c \in DOMAIN bs : bs[c] \in Buckets
    OBVIOUS
  <1>3. bt[b] \in Buckets /\ bt[b].key = bs[b].key /\ bt[b].gen = bs[b].gen /\ bt[b].tracked = bs[b].tracked
        /\ ~bt[b].linked
    BY <1>1, <1>2 DEF Buckets
  <1>4. \A c \in DOMAIN bs : bt[c] \in Buckets
    BY <1>1, <1>2, <1>3
  <1>5. bt \in [DOMAIN bs -> Buckets]
    BY <1>1, <1>4
  <1>6. QED BY <1>1, <1>3, <1>5

\* unlink! of del-hash leaves the others in place, and takes the bucket out for good
LEMMA RemovedInPlace ==
  ASSUME NEW addr \in [Keys -> Address], NEW vec, NEW tc, NEW bs, InPlace(vec, tc, bs, addr),
         NEW b \in Elements(vec), NEW bt, bt = Unlinked(bs, b), NEW w, w = Unlink(vec, b)
  PROVE  InPlace(w, tc, bt, addr) /\ Elements(w) = Elements(vec) \ {b}
  <1> DEFINE X == Bucket
  <1>1. PICK n : n = VectorSize(vec)
    OBVIOUS
  <1>2. /\ Tidy(X, n, vec) /\ tc \in Seq(Bucket) /\ Once(tc)
        /\ DOMAIN bs \subseteq Bucket /\ bs \in [DOMAIN bs -> Buckets]
        /\ Elements(vec) \cup ToSet(tc) \subseteq DOMAIN bs
        /\ \A c \in DOMAIN bs : bs[c].linked <=> c \in Elements(vec)
        /\ \A c \in ToSet(tc) : ~bs[c].tracked
        /\ \A c, d \in Elements(vec) : bs[c].key = bs[d].key => c = d
        /\ \A c \in Elements(vec) :
             IF bs[c].tracked THEN c \in ToSet(vec[Slot(addr, bs[c].key, n)]) ELSE c \in ToSet(tc)
    BY <1>1 DEF InPlace
  <1>3. b \in DOMAIN bs /\ \A c \in DOMAIN bs : bs[c].key \in Keys
    BY <1>2 DEF Buckets
  <1>4. /\ bt \in [DOMAIN bs -> Buckets] /\ DOMAIN bt = DOMAIN bs /\ ~bt[b].linked
        /\ \A c \in DOMAIN bs : bt[c].key = bs[c].key /\ bt[c].tracked = bs[c].tracked
        /\ \A c \in DOMAIN bs \ {b} : bt[c].linked = bs[c].linked
    BY <1>2, <1>3, UnlinkedMark
  <1>5. /\ Tidy(X, n, w) /\ Elements(w) = Elements(vec) \ {b}
        /\ \A j \in 0 .. n - 1 : ToSet(w[j]) = ToSet(vec[j]) \ {b}
    <2> HIDE DEF X
    <2>1. Tidy(X, n, w)
      BY <1>2, UnlinkTidy
    <2>2. Elements(w) = Elements(vec) \ {b}
      BY <1>2, UnlinkTidy
    <2>3. \A j \in 0 .. n - 1 : ToSet(w[j]) = ToSet(vec[j]) \ {b}
      BY <1>2, UnlinkTidy
    <2>4. QED BY <2>1, <2>2, <2>3
  <1>6. VectorSize(w) = n /\ n \in Nat \ {0}
    <2> HIDE DEF X
    <2>1. QED BY <1>5, TidySize
  <1>7. ASSUME NEW c \in Elements(w)
        PROVE  IF bt[c].tracked THEN c \in ToSet(w[Slot(addr, bt[c].key, n)]) ELSE c \in ToSet(tc)
    <2>1. c \in Elements(vec) /\ c # b /\ c \in DOMAIN bs
      BY <1>2, <1>5
    <2>2. PICK j : j = Slot(addr, bs[c].key, n)
      OBVIOUS
    <2>3. j \in 0 .. n - 1
      BY <1>3, <1>6, <2>1, <2>2, SlotInRange
    <2>4. ToSet(w[j]) = ToSet(vec[j]) \ {b}
      BY <1>5, <2>3
    <2>5. QED BY <1>2, <1>4, <2>1, <2>2, <2>4
  <1>8. /\ DOMAIN bt \subseteq Bucket /\ bt \in [DOMAIN bt -> Buckets]
        /\ Elements(w) \cup ToSet(tc) \subseteq DOMAIN bt
        /\ \A c \in DOMAIN bt : bt[c].linked <=> c \in Elements(w)
    BY <1>2, <1>4, <1>5
  <1>9. /\ \A c \in ToSet(tc) : ~bt[c].tracked
        /\ \A c, d \in Elements(w) : bt[c].key = bt[d].key => c = d
    BY <1>2, <1>4, <1>5
  <1>10. InPlace(w, tc, bt, addr)
    BY <1>2, <1>5, <1>6, <1>7, <1>8, <1>9 DEF InPlace
  <1>11. QED BY <1>5, <1>10

\* unlink! of del-hash, as a record
LEMMA RemovedUnfolds ==
  ASSUME NEW v, NEW q, NEW bs, NEW b, NEW w, w = Unlink(v, b), NEW bt, bt = Unlinked(bs, b)
  PROVE  Removed([vec |-> v, tc |-> q, bs |-> bs], b) = [vec |-> w, tc |-> q, bs |-> bt]
  <1> DEFINE t == [vec |-> v, tc |-> q, bs |-> bs]
  <1>1. t.vec = v /\ t.bs = bs
    OBVIOUS
  <1>2. Removed(t, b) = [t EXCEPT !.vec = w, !.bs = bt]
    <2>1. Removed(t, b) = [t EXCEPT !.vec = Unlink(v, b), !.bs[b].linked = FALSE]
      BY <1>1 DEF Removed
    <2>2. \A y : [t EXCEPT !.vec = y, !.bs[b].linked = FALSE] = [t EXCEPT !.vec = y, !.bs = bt]
      BY DEF Unlinked
    <2>3. QED BY <2>1, <2>2
  <1>3. QED BY <1>2

\* hashtable-delete!
LEMMA DeleteKeyKeeps ==
  ASSUME HashTableInv, NEW x \in Keys, DeleteKey(x)
  PROVE  HashTableInv'
  <1>1. PICK r : r = GetBucket(TheTable, x)
    OBVIOUS
  <1>2. Gotten(TheTable, x, r) /\ (r.found # << >> <=> x \in stored)
    BY <1>1, LookupFinds
  <1>3. PICK u : u = r.table
    OBVIOUS
  <1>4. Whole(u) /\ SameTable(TheTable, u)
    BY <1>2, <1>3 DEF Gotten
  <1>5. stored' = stored \ {x} /\ UNCHANGED <<address, keyGen, doing>> /\ doing = Idle
    BY DEF DeleteKey
  <1>6. /\ address \in [Keys -> Address] /\ keyGen \in [Keys -> Gens] /\ stored \subseteq Keys
        /\ DOMAIN buckets = Elements(vector) \cup ToSet(tconc)
        /\ \A c \in DOMAIN buckets : buckets[c].gen <= keyGen[buckets[c].key]
        /\ stored = KeysOf(vector, buckets) /\ count = Cardinality(Elements(vector))
    BY DEF HashTableInv, HashTableTypes, HashTableWhole
  <1>7. CASE r.found = << >> /\ SetHashTable(u) /\ UNCHANGED count
    <2>1. UNCHANGED <<count, address, keyGen, stored>>
      BY <1>2, <1>5, <1>7
    <2>2. HashTableWhole' /\ HashTableTypes'
      BY <1>4, <1>7, <2>1, SameWhole
    <2>3. Adding'
      BY <1>5 DEF Adding, Idle
    <2>4. QED BY <2>2, <2>3 DEF HashTableInv
  <1>8. CASE r.found # << >> /\ SetHashTable(Removed(u, Head(r.found))) /\ count' = count - 1
    <2>1. PICK v, q, bs : u = [vec |-> v, tc |-> q, bs |-> bs] /\ v = u.vec /\ q = u.tc /\ bs = u.bs
      BY <1>4 DEF Whole
    <2>2. InPlace(v, q, bs, address)
      BY <1>4, <2>1 DEF Whole
    <2>3. /\ Elements(v) = Elements(vector) /\ DOMAIN bs = DOMAIN buckets
          /\ \A c \in DOMAIN buckets : bs[c].key = buckets[c].key /\ bs[c].gen = buckets[c].gen
      BY <1>4, <2>1 DEF SameTable, SameBuckets, TheTable
    <2>4. PICK b \in Elements(vector) : buckets[b].key = x /\ Head(r.found) = b
      BY <1>2, <1>8 DEF Gotten, Alone, TheTable
    <2>5. PICK w : w = Unlink(v, b)
      OBVIOUS
    <2>6. PICK bt : bt = Unlinked(bs, b)
      OBVIOUS
    <2>7. PICK t : t = [vec |-> w, tc |-> q, bs |-> bt]
      OBVIOUS
    <2>8. Removed(u, Head(r.found)) = t
      <3>1. Removed([vec |-> v, tc |-> q, bs |-> bs], b) = [vec |-> w, tc |-> q, bs |-> bt]
        BY <2>5, <2>6, RemovedUnfolds
      <3>2. QED BY <2>1, <2>4, <2>7, <3>1
    <2>9. PICK kept : kept = Kept(t)
      OBVIOUS
    <2>10. vector' = w /\ tconc' = q /\ buckets' = kept
      BY <1>8, <2>7, <2>8, <2>9 DEF SetHashTable
    <2>11. InPlace(w, q, bt, address) /\ Elements(w) = Elements(v) \ {b}
      <3>1. PICK addr : addr = address
        OBVIOUS
      <3>2. addr \in [Keys -> Address] /\ InPlace(v, q, bs, addr) /\ b \in Elements(v)
        BY <1>6, <2>2, <2>3, <3>1
      <3>3. InPlace(w, q, bt, addr)
        BY <2>5, <2>6, <3>2, RemovedInPlace
      <3>4. Elements(w) = Elements(v) \ {b}
        BY <2>5, <2>6, <3>2, RemovedInPlace
      <3>5. QED BY <3>1, <3>3, <3>4
    <2>12. /\ InPlace(w, q, kept, address)
           /\ DOMAIN kept = Elements(w) \cup ToSet(q) /\ DOMAIN kept \subseteq DOMAIN bt
           /\ \A c \in DOMAIN kept : kept[c] = bt[c]
      BY <2>7, <2>9, <2>11, KeptInPlace
    <2>13. DOMAIN bt = DOMAIN bs /\ \A c \in DOMAIN bs : bt[c].key = bs[c].key /\ bt[c].gen = bs[c].gen
      <3>1. bs \in [DOMAIN bs -> Buckets] /\ b \in DOMAIN bs
        BY <2>2, <2>3, <2>4 DEF InPlace
      <3>2. bt \in [DOMAIN bs -> Buckets]
        BY <2>6, <3>1, UnlinkedMark
      <3>3. \A c \in DOMAIN bs : bt[c].key = bs[c].key /\ bt[c].gen = bs[c].gen /\ bt[c].tracked = bs[c].tracked
        BY <2>6, <3>1, UnlinkedMark
      <3>4. QED BY <3>2, <3>3
    <2>14. \A c \in DOMAIN kept :
             c \in DOMAIN buckets /\ kept[c].key = buckets[c].key /\ kept[c].gen = buckets[c].gen
      BY <2>3, <2>12, <2>13
    <2>15. \A c \in DOMAIN kept : kept[c].gen <= keyGen[kept[c].key]
      BY <1>6, <2>14
    <2>16. KeysOf(w, kept) = KeysOf(vector, buckets) \ {x}
      <3>1. \A c, d \in Elements(vector) : buckets[c].key = buckets[d].key => c = d
        BY DEF HashTableInv, HashTableWhole, InPlace
      <3>2. Elements(w) = Elements(vector) \ {b} /\ Elements(w) \subseteq DOMAIN kept
        BY <2>3, <2>11, <2>12
      <3>3. KeysOf(w, kept) = {buckets[c].key : c \in Elements(vector) \ {b}}
        BY <2>14, <3>2 DEF KeysOf
      <3>4. \A c \in Elements(vector) \ {b} : buckets[c].key # x
        BY <2>4, <3>1
      <3>5. QED BY <2>4, <3>3, <3>4 DEF KeysOf
    <2>17. Cardinality(Elements(w)) = count - 1
      <3>1. PICK E : E = Elements(vector)
        OBVIOUS
      <3>2. IsFiniteSet(E) /\ b \in E
        BY <2>4, <3>1, WholeBuckets
      <3>3. Cardinality(E \ {b}) = Cardinality(E) - 1
        BY <3>2, FS_RemoveElement
      <3>4. QED BY <1>6, <2>3, <2>11, <3>1, <3>3
    <2>18. HashTableWhole'
      BY <1>5, <1>6, <1>8, <2>10, <2>12, <2>15, <2>16, <2>17 DEF HashTableWhole
    <2>19. HashTableTypes' /\ Adding'
      BY <1>5, <1>6 DEF HashTableTypes, Adding, Idle
    <2>20. QED BY <2>18, <2>19 DEF HashTableInv
  <1>9. QED BY <1>1, <1>3, <1>7, <1>8 DEF DeleteKey

\* an order of the elements of a finite set holds each once
LEMMA OrderHolds ==
  ASSUME NEW S, IsFiniteSet(S), NEW o \in SetToSeqs(S)
  PROVE  o \in Seq(S) /\ Once(o) /\ ToSet(o) = S
  <1>1. PICK n \in Nat : n = Cardinality(S)
    BY FS_CardinalityType
  <1>2. o \in [1 .. n -> S] /\ \A i, j \in 1 .. n : i # j => o[i] # o[j]
    BY <1>1 DEF SetToSeqs
  <1>3. o \in Seq(S) /\ Len(o) = n /\ Once(o)
    BY <1>2 DEF Once
  <1>4. PICK T : T = ToSet(o)
    OBVIOUS
  <1>5. T \in SUBSET S
    BY <1>3, <1>4, ElementHeld
  <1>6. Cardinality(T) = n
    BY <1>3, <1>4, OnceCounted
  <1>7. T = S
    BY <1>1, <1>5, <1>6, FS_Subset
  <1>8. QED BY <1>3, <1>4, <1>7

\* the generation after a collection of those up to g
MovedOn(g, h) == IF h <= g THEN Min({g + 1, TopGen}) ELSE h

\* it is one, and older or as old if it was
LEMMA MovesOn ==
  ASSUME NEW g \in Gens, NEW h \in Gens
  PROVE  /\ MovedOn(g, h) \in Gens
         /\ \A k \in Gens : h <= k => MovedOn(g, h) <= MovedOn(g, k)
  <1> DEFINE S == {g + 1, TopGen}
  <1>1. g \in Nat /\ g <= TopGen /\ TopGen \in Nat /\ \A k \in Gens : k \in Nat /\ k <= TopGen
    BY HashTableAssumption DEF Gens
  <1>2. S \subseteq Nat /\ S # {}
    BY <1>1
  <1> HIDE DEF S
  <1>3. PICK m : m = Min(S)
    OBVIOUS
  <1>4. m \in S /\ \A y \in S : m <= y
    BY <1>2, <1>3, MinIsLeast
  <1>5. m \in Nat /\ m <= TopGen /\ m <= g + 1
    BY <1>2, <1>4 DEF S
  <1>6. \A k : MovedOn(g, k) = IF k <= g THEN m ELSE k
    BY <1>3 DEF MovedOn, S
  <1>7. MovedOn(g, h) \in Gens
    BY <1>1, <1>5, <1>6 DEF Gens
  <1>8. ASSUME NEW k \in Gens, h <= k PROVE MovedOn(g, h) <= MovedOn(g, k)
    BY <1>1, <1>5, <1>6, <1>8
  <1>9. QED BY <1>7, <1>8

\* a collection: keys move, and the buckets whose keys did wait on the tconc
LEMMA CollectTableKeeps ==
  ASSUME HashTableInv, NEW g \in Gens, CollectTable(g)
  PROVE  HashTableInv'
  <1>1. /\ address \in [Keys -> Address] /\ keyGen \in [Keys -> Gens] /\ stored \subseteq Keys
        /\ DOMAIN buckets = Elements(vector) \cup ToSet(tconc)
        /\ \A c \in DOMAIN buckets : buckets[c].gen <= keyGen[buckets[c].key]
        /\ stored = KeysOf(vector, buckets) /\ count = Cardinality(Elements(vector))
    BY DEF HashTableInv, HashTableTypes, HashTableWhole
  <1>2. /\ Tidy(Bucket, VectorSize(vector), vector) /\ tconc \in Seq(Bucket) /\ Once(tconc)
        /\ DOMAIN buckets \subseteq Bucket /\ buckets \in [DOMAIN buckets -> Buckets]
        /\ \A c \in DOMAIN buckets : buckets[c].linked <=> c \in Elements(vector)
        /\ \A c \in ToSet(tconc) : ~buckets[c].tracked
        /\ \A c, d \in Elements(vector) : buckets[c].key = buckets[d].key => c = d
        /\ \A c \in Elements(vector) :
             IF buckets[c].tracked THEN c \in ToSet(vector[Slot(address, buckets[c].key, VectorSize(vector))])
             ELSE c \in ToSet(tconc)
    BY DEF HashTableInv, HashTableWhole, InPlace
  <1>3. \A c \in DOMAIN buckets : buckets[c].key \in Keys /\ buckets[c].gen \in Gens
    BY <1>2 DEF Buckets
  <1>4. PICK P : P = Pushed(g)
    OBVIOUS
  <1>5. P = {c \in DOMAIN buckets : buckets[c].gen <= g /\ buckets[c].tracked /\ keyGen[buckets[c].key] <= g}
    BY <1>4 DEF Pushed
  <1>6. PICK a \in [Keys -> Address] : address' = a /\ \A x \in Keys : keyGen[x] > g => a[x] = address[x]
    BY DEF CollectTable
  <1>7. keyGen' = [x \in Keys |-> MovedOn(g, keyGen[x])]
    BY DEF CollectTable, MovedOn
  <1>8. PICK order \in SetToSeqs(P) : tconc' = tconc \o order
    BY <1>4 DEF CollectTable
  <1>9. UNCHANGED <<vector, count, doing, stored>>
    BY DEF CollectTable
  <1>10. PICK bt : bt = buckets'
    OBVIOUS
  <1>11. bt = [b \in DOMAIN buckets |->
                 [buckets[b] EXCEPT !.gen = MovedOn(g, @), !.tracked = @ /\ b \notin P]]
    BY <1>4, <1>10 DEF CollectTable, MovedOn
  <1>12. /\ DOMAIN bt = DOMAIN buckets
         /\ \A c \in DOMAIN buckets :
              /\ bt[c].key = buckets[c].key /\ bt[c].linked = buckets[c].linked
              /\ bt[c].gen = MovedOn(g, buckets[c].gen)
              /\ bt[c].tracked <=> buckets[c].tracked /\ c \notin P
         /\ bt \in [DOMAIN bt -> Buckets]
    <2>1. DOMAIN bt = DOMAIN buckets
      BY <1>11
    <2>2. ASSUME NEW c \in DOMAIN buckets
          PROVE  /\ bt[c] \in Buckets
                 /\ bt[c].key = buckets[c].key /\ bt[c].linked = buckets[c].linked
                 /\ bt[c].gen = MovedOn(g, buckets[c].gen)
                 /\ bt[c].tracked <=> buckets[c].tracked /\ c \notin P
      <3>1. PICK m : m = MovedOn(g, buckets[c].gen)
        OBVIOUS
      <3>2. m \in Gens
        BY <1>3, <3>1, MovesOn
      <3>3. PICK z \in BOOLEAN : z = (buckets[c].tracked /\ c \notin P)
        OBVIOUS
      <3>4. bt[c] = [buckets[c] EXCEPT !.gen = m, !.tracked = z]
        BY <1>11, <3>1, <3>3
      <3>5. buckets[c] \in [key : Keys, gen : Gens, tracked : BOOLEAN, linked : BOOLEAN]
        BY <1>2 DEF Buckets
      <3>6. bt[c] \in Buckets /\ bt[c].key = buckets[c].key /\ bt[c].linked = buckets[c].linked
            /\ bt[c].gen = m /\ bt[c].tracked = z
        BY <3>2, <3>4, <3>5 DEF Buckets
      <3>7. QED BY <3>1, <3>3, <3>6
    <2>3. bt = [c \in DOMAIN bt |-> bt[c]]
      BY <1>11
    <2>4. QED BY <2>1, <2>2, <2>3
  <1>13. order \in Seq(Bucket) /\ Once(order) /\ ToSet(order) = P
    <2>1. IsFiniteSet(P)
      <3>1. PICK k \in Nat : k = 2 * Cardinality(Keys)
        BY HashTableAssumption, FS_CardinalityType
      <3>2. IsFiniteSet(1 .. k)
        BY <3>1, FS_Interval
      <3>3. P \in SUBSET (1 .. k)
        BY <1>2, <1>5, <3>1 DEF Bucket
      <3>4. QED BY <3>2, <3>3, FS_Subset
    <2>2. order \in Seq(P) /\ Once(order) /\ ToSet(order) = P
      BY <2>1, OrderHolds
    <2>3. P \subseteq Bucket
      BY <1>2, <1>5
    <2>4. QED BY <2>2, <2>3
  <1>14. tconc' \in Seq(Bucket) /\ Once(tconc') /\ ToSet(tconc') = ToSet(tconc) \cup P
    <2> DEFINE X == Bucket
    <2>1. PICK q : q = tconc
      OBVIOUS
    <2>2. q \in Seq(X) /\ Once(q) /\ order \in Seq(X) /\ Once(order)
      BY <1>2, <1>13, <2>1
    <2>3. ToSet(q) \cap ToSet(order) = {}
      BY <1>2, <1>5, <1>13, <2>1
    <2>4. PICK o : o = q \o order
      OBVIOUS
    <2>5. o \in Seq(X) /\ ToSet(o) = ToSet(q) \cup ToSet(order) /\ Once(o)
      <3> HIDE DEF X
      <3>1. q \o order \in Seq(X) /\ ToSet(q \o order) = ToSet(q) \cup ToSet(order)
        BY <2>2, JoinOnce
      <3>2. Once(q \o order)
        BY <2>2, <2>3, JoinOnce
      <3>3. QED BY <2>4, <3>1, <3>2
    <2>6. QED BY <1>8, <1>13, <2>1, <2>4, <2>5
  <1>15. \A c \in ToSet(tconc') : ~bt[c].tracked
    <2>1. ToSet(tconc) \subseteq DOMAIN buckets /\ P \subseteq DOMAIN buckets
      BY <1>1, <1>5
    <2>2. QED BY <1>2, <1>12, <1>14, <2>1
  <1>16. ASSUME NEW c \in Elements(vector)
         PROVE  IF bt[c].tracked THEN c \in ToSet(vector[Slot(a, bt[c].key, VectorSize(vector))])
                ELSE c \in ToSet(tconc')
    <2>0. c \in DOMAIN buckets
      BY <1>1
    <2>1. CASE ~bt[c].tracked
      BY <1>2, <1>12, <1>14, <2>0, <2>1
    <2>2. CASE bt[c].tracked
      <3>1. buckets[c].tracked /\ c \notin P /\ bt[c].key = buckets[c].key
        BY <1>12, <2>0, <2>2
      <3>2. PICK k \in Keys : k = buckets[c].key
        BY <1>3, <2>0
      <3>3. keyGen[k] > g
        <4>1. buckets[c].gen \in Nat /\ keyGen[k] \in Nat /\ g \in Nat
          BY <1>1, <1>3, <2>0 DEF Gens
        <4>2. buckets[c].gen <= keyGen[k]
          BY <1>1, <2>0, <3>2
        <4>3. ~(buckets[c].gen <= g) \/ ~(keyGen[k] <= g)
          BY <1>5, <2>0, <3>1, <3>2
        <4>4. QED BY <4>1, <4>2, <4>3
      <3>4. Slot(a, k, VectorSize(vector)) = Slot(address, k, VectorSize(vector))
        BY <1>6, <3>3 DEF Slot
      <3>5. c \in ToSet(vector[Slot(address, k, VectorSize(vector))])
        BY <1>2, <3>1, <3>2
      <3>6. QED BY <2>2, <3>1, <3>2, <3>4, <3>5
    <2>3. QED BY <2>1, <2>2
  <1>17. \A c, d \in Elements(vector) : bt[c].key = bt[d].key => c = d
    BY <1>1, <1>2, <1>12
  <1>18. DOMAIN bt = Elements(vector) \cup ToSet(tconc')
    BY <1>1, <1>5, <1>12, <1>14
  <1>19. InPlace(vector, tconc', bt, a)
    <2>1. \A c \in DOMAIN bt : bt[c].linked <=> c \in Elements(vector)
      BY <1>2, <1>12
    <2>2. DOMAIN bt \subseteq Bucket /\ bt \in [DOMAIN bt -> Buckets]
      BY <1>2, <1>12
    <2>3. Elements(vector) \cup ToSet(tconc') \subseteq DOMAIN bt
      BY <1>18
    <2>4. Tidy(Bucket, VectorSize(vector), vector)
      BY <1>2
    <2>5. QED BY <1>14, <1>15, <1>16, <1>17, <2>1, <2>2, <2>3, <2>4 DEF InPlace
  <1>20. keyGen' \in [Keys -> Gens]
    BY <1>1, <1>7, MovesOn
  <1>21. \A c \in DOMAIN bt : bt[c].gen <= keyGen'[bt[c].key]
    <2>1. ASSUME NEW c \in DOMAIN bt PROVE bt[c].gen <= keyGen'[bt[c].key]
      <3>1. PICK k \in Keys : k = buckets[c].key /\ bt[c].key = k
        BY <1>3, <1>12
      <3>2. PICK h \in Gens : h = buckets[c].gen /\ bt[c].gen = MovedOn(g, h)
        BY <1>3, <1>12
      <3>3. h <= keyGen[k] /\ keyGen[k] \in Gens
        BY <1>1, <1>12, <3>1, <3>2
      <3>4. keyGen'[k] = MovedOn(g, keyGen[k])
        BY <1>7
      <3>5. MovedOn(g, h) <= MovedOn(g, keyGen[k])
        BY <3>3, MovesOn
      <3>6. QED BY <3>1, <3>2, <3>4, <3>5
    <2>2. QED BY <2>1
  <1>22. KeysOf(vector, bt) = KeysOf(vector, buckets)
    BY <1>1, <1>12 DEF KeysOf
  <1>23. HashTableWhole'
    BY <1>1, <1>6, <1>9, <1>10, <1>18, <1>19, <1>21, <1>22 DEF HashTableWhole
  <1>24. HashTableTypes'
    BY <1>1, <1>6, <1>9, <1>20 DEF HashTableTypes
  <1>25. Adding'
    BY <1>9, <1>10, <1>12 DEF HashTableInv, Adding
  <1>26. QED BY <1>23, <1>24, <1>25 DEF HashTableInv

\* every step keeps the invariant
LEMMA HashTableSteps ==
  ASSUME HashTableInv, [HashTableNext]_hvars
  PROVE  HashTableInv'
  <1>1. CASE FinishPut \/ EnlargeTable \/ ClearTable
    BY <1>1, FinishPutKeeps, EnlargeTableKeeps, ClearTableKeeps
  <1>2. ASSUME NEW x \in Keys, RefKey(x) \/ PutKey(x) \/ DeleteKey(x) PROVE HashTableInv'
    BY <1>2, RefKeyKeeps, PutKeyKeeps, DeleteKeyKeeps
  <1>3. ASSUME NEW g \in Gens, CollectTable(g) PROVE HashTableInv'
    BY <1>3, CollectTableKeeps
  <1>4. CASE UNCHANGED hvars
    BY <1>4 DEF hvars, HashTableInv, HashTableTypes, HashTableWhole, Adding
  <1>5. QED BY <1>1, <1>2, <1>3, <1>4 DEF HashTableNext

\* Whatever the keys, their addresses and the generations: hashtable-ref finds a key exactly
\* if it has been put in the table and not taken out since, wherever collections have moved it.
THEOREM KeysAreFound == HashTableSpec => []KeysFound
  <1>1. HashTableInit => HashTableInv
    BY HashTableInvInit
  <1>2. HashTableInv /\ [HashTableNext]_hvars => HashTableInv'
    BY HashTableSteps
  <1>3. HashTableInv => KeysFound
    <2>1. ASSUME HashTableInv, NEW x \in Keys
          PROVE  (GetBucket(TheTable, x).found # << >>) <=> x \in stored
      <3>1. PICK r : r = GetBucket(TheTable, x)
        OBVIOUS
      <3>2. r.found # << >> <=> x \in stored
        BY <2>1, <3>1, LookupFinds
      <3>3. QED BY <3>1, <3>2
    <2>2. QED BY <2>1 DEF KeysFound
  <1>4. QED BY <1>1, <1>2, <1>3, PTL DEF HashTableSpec

\* Whatever those are: each key of the table has one bucket in the lists, and hasht-count is
\* their number.
THEOREM KeysAreCounted == HashTableSpec => []CountedOnce
  <1>1. HashTableInit => HashTableInv
    BY HashTableInvInit
  <1>2. HashTableInv /\ [HashTableNext]_hvars => HashTableInv'
    BY HashTableSteps
  <1>3. HashTableInv => CountedOnce
    <2>1. ASSUME HashTableInv PROVE CountedOnce
      <3>1. PICK E : E = Elements(vector)
        OBVIOUS
      <3>2. UNION {ToSet(vector[i]) : i \in DOMAIN vector} = E
        BY <3>1 DEF Elements
      <3>3. count = Cardinality(E) /\ stored = {buckets[b].key : b \in E}
        BY <2>1, <3>1 DEF HashTableInv, HashTableWhole, KeysOf
      <3>4. Cardinality(E) = Len(Joined(vector)) /\ Cardinality(stored) = Cardinality(E)
        BY <2>1, <3>1, WholeBuckets
      <3>5. QED BY <3>2, <3>3, <3>4 DEF CountedOnce
    <2>2. QED BY <2>1
  <1>4. QED BY <1>1, <1>2, <1>3, PTL DEF HashTableSpec

=============================================================================
