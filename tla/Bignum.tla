------------------------------- MODULE Bignum -------------------------------
(***************************************************************************)
(* Exact integers of the Ikarus runtime (src/src/ikarus-numerics.c).       *)
(*                                                                         *)
(* The representation is that of module Numbers.  The arithmetic on limbs  *)
(* that the code takes from GMP (operators named Mpn...) is external and is *)
(* given by the naturals it computes; everything the code does itself on   *)
(* limbs (complements with their carries, shifts, trimming, the choice     *)
(* between fixnum and bignum) is written limb by limb.                     *)
(*                                                                         *)
(* One behaviour: the program holds two integers, applies one operation of *)
(* (rnrs arithmetic) to them, looks at the result, and may go on with      *)
(* another operation.  What ik_safe_alloc returns is not cleared, so a     *)
(* limb the code never writes holds any value.                             *)
(***************************************************************************)
EXTENDS Numbers

CONSTANTS
  MaxLimbs,   \* bound: limbs of the first operand
  MaxLimbs2,  \* bound: limbs of the operands of an operation on two integers
  LimbSample, \* bound: the limbs operands are made of
  LimbSample2,\* bound: the same for an operation on two integers
  MaxShift,   \* bound: shift amounts tried
  Precisions  \* the bits of a flonum's mantissa: less than a word in a build for
              \* 64 bits, between one and two words in a build for 32 bits

ASSUME BignumAssumption ==
  /\ MaxLimbs \in Nat /\ MaxLimbs2 \in Nat /\ MaxShift \in Nat
  /\ LimbSample \subseteq 0 .. 2^^W - 1 /\ LimbSample2 \subseteq LimbSample
  /\ MaxLimbs2 <= MaxLimbs
  \* the breakpoint has a bit below it, in one word or in two
  /\ \A p \in Precisions :
       p \in Nat /\ 0 < p /\ p + 2 <= IF p < W THEN W ELSE 2 * W

VARIABLES
  x, y,     \* the program's two operands
  op,       \* the operation last applied, "none" before it
  result    \* what it returned

vars == <<x, y, op, result>>

-----------------------------------------------------------------------------
(* GMP *)

MpnAdd(s1, s2) == LimbsOf(NatOf(s1) + NatOf(s2), Len(s1))
MpnAddCarry(s1, s2) == (NatOf(s1) + NatOf(s2)) \div B^^Len(s1)
MpnSub(s1, s2) == LimbsOf(NatOf(s1) - NatOf(s2), Len(s1))
MpnMul(s1, s2) == LimbsOf(NatOf(s1) * NatOf(s2), Len(s1) + Len(s2))
MpnQuotient(s1, s2) == LimbsOf(NatOf(s1) \div NatOf(s2), Len(s1) - Len(s2) + 1)
MpnRemainder(s1, s2) == LimbsOf(NatOf(s1) % NatOf(s2), Len(s2))
FloorSqrt(n) == CHOOSE s \in 0 .. n : s * s <= n /\ (s + 1) * (s + 1) > n

-----------------------------------------------------------------------------
(* Sums and differences of magnitudes *)

\* |b| + n with the sign neg: the carry becomes a limb of its own
Grow(b, n, neg) ==
  LET s == <<n>> IN
  Big(neg, MpnAdd(b.limbs, s)
             \o (IF MpnAddCarry(b.limbs, s) > 0 THEN <<1>> ELSE <<>>))

\* |b| - n with the sign neg: n is one limb, so at most one limb falls away
Shrink(b, n, neg) ==
  LET r == MpnSub(b.limbs, <<n>>)
      size == IF r[Len(r)] # 0 THEN Len(r) ELSE Len(r) - 1
  IN  IF size = 0 THEN Fix(0)
      ELSE IF size = 1 /\ r[1] <= Limit(neg) THEN Fix(IF neg THEN -r[1] ELSE r[1])
      ELSE Big(neg, SubSeq(r, 1, size))

-----------------------------------------------------------------------------
(* Addition and subtraction *)

FxFxPlus(a, b) == FromLong(a.int + b.int)
FxFxMinus(a, b) == FromLong(a.int - b.int)

FxBnPlus(a, b) ==
  IF a.int = 0 THEN b
  ELSE IF (a.int > 0) # b.neg THEN Grow(b, Magnitude(a.int), b.neg)
  ELSE Shrink(b, Magnitude(a.int), b.neg)

BnNegate(b) ==
  IF b.limbs = <<most_positive_fixnum + 1>> /\ ~b.neg
  THEN Fix(-b.limbs[1]) ELSE Big(~b.neg, b.limbs)

FxBnMinus(a, b) ==
  IF a.int = 0 THEN BnNegate(b)
  ELSE IF (a.int > 0) = b.neg THEN Grow(b, Magnitude(a.int), ~b.neg)
  ELSE Shrink(b, Magnitude(a.int), ~b.neg)

BnFxMinus(b, a) ==
  IF a.int = 0 THEN b
  ELSE IF (a.int < 0) # b.neg THEN Grow(b, Magnitude(a.int), b.neg)
  ELSE Shrink(b, Magnitude(a.int), b.neg)

\* |a| + |b| with the sign neg.  The carry is stored in the limb after the
\* last limb of a, which is the last of the sum only if a is the longer;
\* "rest" is what the limb after the sum held before.
BnBnGrow(a, b, neg, rest) ==
  LET longer == IF Len(a.limbs) > Len(b.limbs) THEN a ELSE b
      shorter == IF Len(a.limbs) > Len(b.limbs) THEN b ELSE a
      sum == MpnAdd(longer.limbs, shorter.limbs)
  IN  IF MpnAddCarry(longer.limbs, shorter.limbs) = 0 THEN Big(neg, sum)
      ELSE Big(neg, [Append(sum, rest) EXCEPT ![Len(a.limbs) + 1] = 1])

\* limbs of a and b left when equal leading limbs are dropped (0 if none is)
Unequal(a, b) ==
  IF Len(a) # Len(b) THEN Len(a)
  ELSE LET d == {i \in DOMAIN a : a[i] # b[i]} IN
       IF d = {} THEN 0 ELSE CHOOSE i \in d : \A j \in d : j <= i

\* |a| - |b|, with the sign aneg if |a| is the larger and bneg if not
BnBnShrink(a, b, aneg, bneg) ==
  LET k == Unequal(a.limbs, b.limbs)
      m == Len(a.limbs)
      n == Len(b.limbs)
      bLarger == m < n \/ (m = n /\ b.limbs[k] > a.limbs[k])
  IN  IF k = 0 THEN Fix(0)
      ELSE IF bLarger THEN Normalize(MpnSub(b.limbs, a.limbs), bneg)
      ELSE Normalize(MpnSub(a.limbs, b.limbs), aneg)

BnBnPlus(a, b, rest) ==
  IF a.neg = b.neg THEN BnBnGrow(a, b, a.neg, rest)
  ELSE BnBnShrink(a, b, a.neg, b.neg)

BnBnMinusSign(a, b, rest) ==    \* wrong: the sign of a when |b| is larger
  IF a.neg # b.neg THEN BnBnGrow(a, b, a.neg, rest)
  ELSE BnBnShrink(a, b, a.neg, b.neg)

BnBnMinus(a, b, rest) ==
  IF a.neg # b.neg THEN BnBnGrow(a, b, a.neg, rest)
  ELSE BnBnShrink(a, b, a.neg, ~b.neg)

\* binary+ and binary- of the Scheme side
PlusOf(a, b, rest) ==
  CASE IsFix(a) /\ IsFix(b) -> FxFxPlus(a, b)
    [] IsFix(a) /\ ~IsFix(b) -> FxBnPlus(a, b)
    [] ~IsFix(a) /\ IsFix(b) -> FxBnPlus(b, a)
    [] OTHER -> BnBnPlus(a, b, rest)
MinusOf(a, b, rest) ==
  CASE IsFix(a) /\ IsFix(b) -> FxFxMinus(a, b)
    [] IsFix(a) /\ ~IsFix(b) -> FxBnMinus(a, b)
    [] ~IsFix(a) /\ IsFix(b) -> BnFxMinus(a, b)
    [] OTHER -> BnBnMinus(a, b, rest)

-----------------------------------------------------------------------------
(* Multiplication, division, square root, comparison *)

FxFxMult(a, b) ==
  LET p == MpnMul(<<Magnitude(a.int)>>, <<Magnitude(b.int)>>)
      neg == (a.int < 0) # (b.int < 0)
  IN  IF p[2] # 0 THEN Big(neg, p)
      ELSE IF p[1] <= Limit(neg) THEN Fix(IF neg THEN -p[1] ELSE p[1])
      ELSE Big(neg, <<p[1]>>)
FxBnMult(a, b) ==
  IF a.int = 0 THEN Fix(0)
  ELSE Normalize(MpnMul(b.limbs, <<Magnitude(a.int)>>), (a.int < 0) # b.neg)
BnBnMult(a, b) == Normalize(MpnMul(a.limbs, b.limbs), a.neg # b.neg)
TimesOf(a, b) ==
  CASE IsFix(a) /\ IsFix(b) -> FxFxMult(a, b)
    [] IsFix(a) /\ ~IsFix(b) -> FxBnMult(a, b)
    [] ~IsFix(a) /\ IsFix(b) -> FxBnMult(b, a)
    [] OTHER -> BnBnMult(a, b)

\* <<quotient, remainder>>, rounded towards zero
BnBnDivRem(a, b) ==
  IF Len(a.limbs) < Len(b.limbs) THEN <<Fix(0), a>>
  ELSE <<Normalize(MpnQuotient(a.limbs, b.limbs), a.neg # b.neg),
         Normalize(MpnRemainder(a.limbs, b.limbs), a.neg)>>
BnFxDivRem(a, b) ==
  LET d == <<Magnitude(b.int)>>
      r == MpnRemainder(a.limbs, d)[1]
  IN  <<Normalize(MpnQuotient(a.limbs, d), a.neg # (b.int < 0)),
        Fix(IF a.neg THEN -r ELSE r)>>
FxQuotient(a, b) ==
  LET q == Magnitude(a) \div Magnitude(b) IN IF (a < 0) # (b < 0) THEN -q ELSE q
DivRemOf(a, b) ==
  CASE IsFix(a) /\ IsFix(b) /\ b.int = -1 -> <<FxFxMinus(Fix(0), a), Fix(0)>>
    [] IsFix(a) /\ IsFix(b) /\ b.int # -1 ->
         LET q == FxQuotient(a.int, b.int) IN <<Fix(q), Fix(a.int - q * b.int)>>
    [] IsFix(a) /\ ~IsFix(b) -> <<Fix(0), a>>
    [] ~IsFix(a) /\ IsFix(b) -> BnFxDivRem(a, b)
    [] OTHER -> BnBnDivRem(a, b)

\* modulo of a bignum: the remainder is moved to the divisor's side whenever
\* the signs differ
BnFxModuloSign(a, b) ==    \* wrong: the sign of the dividend decides
  LET m == MpnRemainder(a.limbs, <<Magnitude(b.int)>>)[1] IN
  CASE a.neg /\ b.int < 0 -> Fix(-m)
    [] ~a.neg /\ b.int < 0 -> Fix(m)
    [] a.neg /\ b.int > 0 -> Fix(-m)
    [] OTHER -> Fix(m)
BnFxModulo(a, b) ==
  LET m == MpnRemainder(a.limbs, <<Magnitude(b.int)>>)[1] IN
  CASE a.neg /\ b.int < 0 -> Fix(-m)
    [] ~a.neg /\ b.int < 0 -> Fix(b.int + m)
    [] a.neg /\ b.int > 0 -> Fix(b.int - m)
    [] OTHER -> Fix(m)
ModuloOf(a, b, rest) ==
  CASE IsFix(a) /\ IsFix(b) ->
         LET m == a.int % Magnitude(b.int) IN
         Fix(IF b.int < 0 /\ m # 0 THEN m + b.int ELSE m)
    [] IsFix(a) /\ ~IsFix(b) ->
         IF (a.int < 0) # b.neg THEN FxBnPlus(a, b) ELSE a
    [] ~IsFix(a) /\ IsFix(b) -> BnFxModulo(a, b)
    [] OTHER -> LET r == DivRemOf(a, b)[2] IN
                IF a.neg = b.neg THEN r ELSE PlusOf(b, r, rest)

BnSqrtFullRoom(a) ==    \* wrong: a root of as many limbs as half the operand, rounded down
  LET s == FloorSqrt(NatOf(a.limbs))
      r == NatOf(a.limbs) - s * s
  IN  <<Normalize(LimbsOf(s, Len(a.limbs) \div 2), FALSE),
        IF r = 0 THEN Fix(0) ELSE Normalize(LimbsOf(r, Len(a.limbs)), FALSE)>>

\* <<root, rest>> of a positive bignum (ikrt_exact_bignum_sqrt)
BnSqrt(a) ==
  LET s == FloorSqrt(NatOf(a.limbs))
      r == NatOf(a.limbs) - s * s
  IN  <<Normalize(LimbsOf(s, (Len(a.limbs) + 1) \div 2), FALSE),
        IF r = 0 THEN Fix(0) ELSE Normalize(LimbsOf(r, Len(a.limbs)), FALSE)>>
SqrtOf(a) ==
  IF IsFix(a) THEN LET s == FloorSqrt(a.int) IN <<Fix(s), Fix(a.int - s * s)>>
  ELSE BnSqrt(a)

BnBnCompMagnitude(a, b) ==    \* wrong: negative numbers are ordered like positive ones
  LET k == Unequal(a.limbs, b.limbs)
      aLess == Len(a.limbs) < Len(b.limbs)
               \/ (Len(a.limbs) = Len(b.limbs) /\ k > 0 /\ a.limbs[k] < b.limbs[k])
  IN  CASE a.neg /\ ~b.neg -> -1
        [] ~a.neg /\ b.neg -> 1
        [] a.neg = b.neg /\ k = 0 -> 0
        [] OTHER -> IF aLess THEN -1 ELSE 1

\* ikrt_bnbncomp: -1, 0 or 1
BnBnComp(a, b) ==
  LET k == Unequal(a.limbs, b.limbs)
      aLess == Len(a.limbs) < Len(b.limbs)
               \/ (Len(a.limbs) = Len(b.limbs) /\ k > 0 /\ a.limbs[k] < b.limbs[k])
  IN  CASE a.neg /\ ~b.neg -> -1
        [] ~a.neg /\ b.neg -> 1
        [] a.neg = b.neg /\ k = 0 -> 0
        [] OTHER -> IF aLess # a.neg THEN -1 ELSE 1

-----------------------------------------------------------------------------
(* Bitwise operations.  A negative bignum is turned into two's complement  *)
(* limb by limb, combined, and turned back.                                *)

\* the n lowest limbs of -s, or of ~s if the carry is 0 (bits_compliment and
\* its variants); the carry survives only limbs that are 0
LimbAt(s, i) == IF i <= Len(s) THEN s[i] ELSE 0
AllZero(s, n) == \A i \in 1 .. n : LimbAt(s, i) = 0
ComplementNoCarry(s, n, carry) ==    \* wrong: the carry stops at the first limb
  [i \in 1 .. n |-> (B - 1 - LimbAt(s, i) + IF i = 1 THEN carry ELSE 0) % B]
Complement(s, n, carry) ==
  [i \in 1 .. n |->
     (B - 1 - LimbAt(s, i) + IF AllZero(s, i - 1) THEN carry ELSE 0) % B]
Negate(s, n) == Complement(s, n, 1)

\* the limbs of s with op applied to the first Len(t) of them
AndLimbs(s, t) == [i \in DOMAIN s |-> IF i <= Len(t) THEN LimbAnd(s[i], t[i]) ELSE s[i]]
OrLimbs(s, t) == [i \in DOMAIN s |-> IF i <= Len(t) THEN LimbOr(s[i], t[i]) ELSE s[i]]

BnLogNot(a) ==
  LET n == Len(a.limbs)
      ones == {i \in 1 .. n : \A j \in 1 .. i : a.limbs[j] = B - 1}
      k == IF ones = {} THEN 0 ELSE CHOOSE i \in ones : \A j \in ones : j <= i
      z == CHOOSE i \in 1 .. n : a.limbs[i] # 0 /\ AllZero(a.limbs, i - 1)
  IN  IF a.neg
      THEN Normalize([i \in 1 .. n |-> CASE i < z -> B - 1
                                         [] i = z -> a.limbs[i] - 1
                                         [] i > z -> a.limbs[i]], FALSE)
      ELSE IF k = n THEN Big(TRUE, [i \in 1 .. n + 1 |-> IF i > n THEN 1 ELSE 0])
      ELSE Big(TRUE, [i \in 1 .. n |-> CASE i <= k -> 0
                                         [] i = k + 1 -> a.limbs[i] + 1
                                         [] i > k + 1 -> a.limbs[i]])

FxAnd(m, n) == LET u == AndBits(m, n, W) IN IF 2 * u >= B THEN u - B ELSE u
FxOr(m, n) == m + n - FxAnd(m, n)
LowLimb(b) == Word(IF b.neg THEN -b.limbs[1] ELSE b.limbs[1])
SetLow(s, l) == [s EXCEPT ![1] = l]

FxBnLogAnd(a, b) ==
  LET n == Len(b.limbs)
      s == Negate(b.limbs, n + 1)
  IN  IF a.int >= 0 THEN Fix(LimbAnd(a.int, LowLimb(b)))
      ELSE IF a.int = -1 THEN b
      ELSE IF b.neg
      THEN Normalize(Negate(SetLow(s, LimbAnd(s[1], Word(a.int))), n + 1), TRUE)
      ELSE Big(FALSE, SetLow(b.limbs, LimbAnd(b.limbs[1], Word(a.int))))

\* both positive: from the highest limbs in common down to the first that is
\* not 0; the test for a fixnum leaves out the largest one
PosAnd(s, t) ==
  LET n == IF Len(s) < Len(t) THEN Len(s) ELSE Len(t)
      r == Trim([i \in 1 .. n |-> LimbAnd(s[i], t[i])])
  IN  IF r = <<>> THEN Fix(0)
      ELSE IF Len(r) = 1 /\ r[1] < most_positive_fixnum THEN Fix(r[1])
      ELSE Big(FALSE, r)

\* a positive, b negative
MixedAnd(a, b) ==
  LET t == Negate(b.limbs, Len(b.limbs)) IN
  Normalize([i \in DOMAIN a.limbs |-> IF i <= Len(t) THEN LimbAnd(a.limbs[i], t[i])
                                      ELSE a.limbs[i]], FALSE)
\* both negative, a not the shorter
NegAnd(a, b) ==
  LET n == Len(a.limbs) + 1
      s == AndLimbs(Negate(a.limbs, n), Negate(b.limbs, Len(b.limbs)))
  IN  Normalize(Negate(s, n), TRUE)
BnBnLogAnd(a, b) ==
  CASE a.neg /\ b.neg ->
         IF Len(a.limbs) >= Len(b.limbs) THEN NegAnd(a, b) ELSE NegAnd(b, a)
    [] a.neg /\ ~b.neg -> MixedAnd(b, a)
    [] ~a.neg /\ b.neg -> MixedAnd(a, b)
    [] OTHER -> PosAnd(a.limbs, b.limbs)

SignedLimb(l) == IF 2 * l >= B THEN l - B ELSE l
FxBnLogOr(a, b) ==
  LET n == Len(b.limbs)
      s == Negate(b.limbs, n + 1)
  IN  IF a.int < 0 THEN Fix(SignedLimb(LimbOr(Word(a.int), LowLimb(b))))
      ELSE IF a.int = 0 THEN b
      ELSE IF b.neg
      THEN Normalize(Negate(SetLow(s, LimbOr(s[1], a.int)), n + 1), TRUE)
      ELSE Big(FALSE, SetLow(b.limbs, LimbOr(b.limbs[1], a.int)))

\* a positive, b negative: at most as long as b
MixedOr(a, b) ==
  LET n == Len(b.limbs) IN Normalize(Negate(OrLimbs(Negate(b.limbs, n), a.limbs), n), TRUE)
\* both negative, a not the shorter
NegOr(a, b) ==
  LET n == Len(a.limbs)
      s == [i \in 1 .. n |-> LimbOr(Negate(a.limbs, n)[i], Negate(b.limbs, n)[i])]
  IN  Normalize(Negate(s, n), TRUE)
BnBnLogOr(a, b) ==
  CASE a.neg /\ b.neg ->
         IF Len(a.limbs) >= Len(b.limbs) THEN NegOr(a, b) ELSE NegOr(b, a)
    [] a.neg /\ ~b.neg -> MixedOr(b, a)
    [] ~a.neg /\ b.neg -> MixedOr(a, b)
    [] OTHER -> Normalize(IF Len(a.limbs) >= Len(b.limbs) THEN OrLimbs(a.limbs, b.limbs)
                          ELSE OrLimbs(b.limbs, a.limbs), FALSE)

AndOf(a, b) ==
  CASE IsFix(a) /\ IsFix(b) -> Fix(FxAnd(a.int, b.int))
    [] IsFix(a) /\ ~IsFix(b) -> FxBnLogAnd(a, b)
    [] ~IsFix(a) /\ IsFix(b) -> FxBnLogAnd(b, a)
    [] OTHER -> BnBnLogAnd(a, b)
OrOf(a, b) ==
  CASE IsFix(a) /\ IsFix(b) -> Fix(FxOr(a.int, b.int))
    [] IsFix(a) /\ ~IsFix(b) -> FxBnLogOr(a, b)
    [] ~IsFix(a) /\ IsFix(b) -> FxBnLogOr(b, a)
    [] OTHER -> BnBnLogOr(a, b)
NotOf(a) == IF IsFix(a) THEN Fix(-a.int - 1) ELSE BnLogNot(a)

-----------------------------------------------------------------------------
(* Shifts and length.  A shift moves whole limbs and then bits.            *)

CopyShiftingRight(s, m) ==
  [i \in DOMAIN s |-> (s[i] \div 2^^m) + ((LimbAt(s, i + 1) * 2^^(W - m)) % B)]
CopyShiftingLeft(s, m) ==
  [i \in 1 .. Len(s) + 1 |->
     ((LimbAt(s, i) * 2^^m) % B) + IF i = 1 THEN 0 ELSE s[i - 1] \div 2^^(W - m)]

FillTopNone(s, m) == s    \* wrong: zeros come in from the left

\* the sign bits that come in from the left of a negative number
FillTop(s, m) == [s EXCEPT ![Len(s)] = LimbOr(@, B - 2^^(W - m))]

BignumShiftRight(a, m) ==
  LET whole == m \div W
      bits == m % W
      n == Len(a.limbs) - whole
      high == SubSeq(a.limbs, whole + 1, Len(a.limbs))
      carry == IF AllZero(a.limbs, whole) THEN 1 ELSE 0    \* bits_carry
      s == Complement(high, n, carry)
  IN  IF n <= 0 THEN Fix(IF a.neg THEN -1 ELSE 0)
      ELSE IF ~a.neg
      THEN Normalize(IF bits = 0 THEN high ELSE CopyShiftingRight(high, bits), FALSE)
      ELSE IF bits = 0 THEN Normalize(Negate(s, n), TRUE)
      ELSE Normalize(Negate(FillTop(CopyShiftingRight(s, bits), bits), n), TRUE)

Zeros(n) == [i \in 1 .. n |-> 0]
FixnumShiftLeft(a, m) ==
  Normalize(Zeros(m \div W) \o CopyShiftingLeft(<<Magnitude(a.int)>>, m % W), a.int < 0)
BignumShiftLeft(a, m) ==
  Normalize(Zeros(m \div W) \o IF m % W = 0 THEN a.limbs
                               ELSE CopyShiftingLeft(a.limbs, m % W), a.neg)
ShiftRightOf(a, m) ==
  IF m = 0 THEN a
  ELSE IF IsFix(a) THEN Fix(a.int \div 2^^m) ELSE BignumShiftRight(a, m)
ShiftLeftOf(a, m) ==
  IF m = 0 THEN a
  ELSE IF IsFix(a) THEN FixnumShiftLeft(a, m) ELSE BignumShiftLeft(a, m)

\* binary-bitwise-xor: the low bits as fixnums, the rest shifted out and back
FxWidth == W - FxShift
FxXor(m, n) == m + n - 2 * FxAnd(m, n)
LowBits(a) == AndOf(a, Fix(most_positive_fixnum)).int
FxBnXor(a, b) ==
  LET low == FxAnd(FxXor(a.int, LowBits(b)), most_positive_fixnum)
      high == ShiftRightOf(IF a.int >= 0 THEN b ELSE NotOf(b), FxWidth - 1)
  IN  OrOf(Fix(low), ShiftLeftOf(high, FxWidth - 1))
FxOrBnXor(a, b) ==
  CASE IsFix(a) /\ IsFix(b) -> Fix(FxXor(a.int, b.int))
    [] IsFix(a) /\ ~IsFix(b) -> FxBnXor(a, b)
    [] OTHER -> FxBnXor(b, a)
\* two bignums: shifted right together until one is a fixnum
XorOf(a, b) ==
  LET m == FxWidth - 1
      sh[k \in 0 .. (MaxLimbs + 2) * W] ==
        IF k = 0 THEN <<a, b>>
        ELSE <<ShiftRightOf(sh[k - 1][1], m), ShiftRightOf(sh[k - 1][2], m)>>
      one(k) == IsFix(sh[k][1]) \/ IsFix(sh[k][2])
      n == CHOOSE k \in DOMAIN sh : one(k) /\ \A j \in 0 .. k - 1 : ~one(j)
      low(k) == FxXor(LowBits(sh[k][1]), LowBits(sh[k][2]))
      r[k \in 0 .. n] ==
        IF k = n THEN FxOrBnXor(sh[n][1], sh[n][2])
        ELSE OrOf(Fix(FxAnd(low(k), most_positive_fixnum)), ShiftLeftOf(r[k + 1], m))
  IN  r[0]

LimbLength(l) == CHOOSE k \in 0 .. W : l < 2^^k /\ (k = 0 \/ 2^^(k - 1) <= l)
BignumLengthOdd(a) ==    \* wrong: -2^k counted like 2^k
  (Len(a.limbs) - 1) * W + LimbLength(a.limbs[Len(a.limbs)])
BignumLength(a) ==
  LET n == Len(a.limbs)
      k == LimbLength(a.limbs[n])
      power == a.limbs[n] = 2^^(k - 1) /\ AllZero(a.limbs, n - 1)
  IN  (n - 1) * W + k - IF a.neg /\ power THEN 1 ELSE 0
LengthOf(a) ==
  IF IsFix(a) THEN LimbLength(IF a.int < 0 THEN -a.int - 1 ELSE a.int)
  ELSE BignumLength(a)

-----------------------------------------------------------------------------
(* Conversion to flonums and to decimal digits.  A flonum is given by the  *)
(* integer it stands for.                                                  *)

\* what the processor does with an integer: nearest, ties to even
FlRound(n, precision) ==
  LET k == CHOOSE i \in 0 .. (MaxLimbs + 3) * W : n < 2^^i /\ (i = 0 \/ 2^^(i - 1) <= n)
      unit == IF k <= precision THEN 1 ELSE 2^^(k - precision)
      q == n \div unit
      r == n % unit
      up == 2 * r > unit \/ (2 * r = unit /\ q % 2 = 1)
  IN  IF up THEN (q + 1) * unit ELSE q * unit

NudgeNoBelow(l, spare, below) ==    \* wrong: limbs that were cut off are not looked at
  LET mask == 2^^spare - 1
      low == LimbAnd(l, mask)
      half == (mask + 1) \div 2
      odd == (l \div 2^^spare) % 2 = 1
  IN  IF low > half \/ (low = half /\ odd) THEN LimbOr(l, mask) ELSE l

\* the low bits of a word, at the breakpoint or on either side of it: all
\* ones make the processor round up
Nudge(l, spare, below) ==
  LET mask == 2^^spare - 1
      low == LimbAnd(l, mask)
      half == (mask + 1) \div 2
      odd == (l \div 2^^spare) % 2 = 1
  IN  IF low > half \/ (low = half /\ (below \/ odd)) THEN LimbOr(l, mask) ELSE l

\* ikrt_bignum_to_flonum64 (a mantissa is shorter than a word): the top word decides
Flonum64(s, more, precision) ==
  LET n == Len(s)
      bc == LimbLength(s[n])
      hi == IF bc < W THEN ((s[n] * 2^^(W - bc)) % B) + s[n - 1] \div 2^^bc ELSE s[n]
      below == ~((s[n - 1] * 2^^(W - bc)) % B = 0 /\ AllZero(s, n - 2) /\ more = 0)
  IN  IF n = 1 THEN FlRound(s[1], precision)
      ELSE FlRound(Nudge(hi, W - precision, below), precision) * 2^^(bc + W * (n - 1) - W)

\* ikrt_bignum_to_flonum with smaller words: the two top words decide
Flonum32(s, more, precision) ==
  LET n == Len(s)
      bc == LimbLength(s[n])
      Joined(i) == IF bc < W THEN ((s[i] * 2^^(W - bc)) % B) + s[i - 1] \div 2^^bc ELSE s[i]
      below == ~((s[n - 2] * 2^^(W - bc)) % B = 0 /\ AllZero(s, n - 3) /\ more = 0)
      mi == Nudge(Joined(n - 1), 2 * W - precision, below)
  IN  IF n = 1 THEN FlRound(s[1], precision)
      ELSE IF n = 2 THEN FlRound(s[2] * B + s[1], precision)
      ELSE FlRound(Joined(n) * B + mi, precision) * 2^^(bc + W * (n - 1) - 2 * W)

BignumToFlonum(a, more, precision) ==
  LET f == IF W > precision THEN Flonum64(a.limbs, more, precision) ELSE Flonum32(a.limbs, more, precision)
  IN  IF a.neg THEN -f ELSE f

DigitsOf(n) ==
  LET k == CHOOSE i \in 1 .. n + 1 : n < 10^^i /\ (i = 1 \/ 10^^(i - 1) <= n)
  IN  [i \in 1 .. k |-> (n \div 10^^(k - i)) % 10]
max_digits_per_limb == Len(DigitsOf(B - 1))
ToDecimalShort(a) ==    \* wrong: room for the digits that fit a limb entirely
  [neg |-> a.neg, digits |-> DigitsOf(NatOf(a.limbs)),
   room |-> Len(a.limbs) * (max_digits_per_limb - 1)]

\* ikrt_bignum_to_bytevector: room is the size of the buffer for the digits
ToDecimal(a) == [neg |-> a.neg, digits |-> DigitsOf(NatOf(a.limbs)),
                 room |-> Len(a.limbs) * max_digits_per_limb]

-----------------------------------------------------------------------------
(* The program *)

Bignums(k, limbs) ==
  {r \in {Big(neg, s) : neg \in BOOLEAN, s \in UNION {[1 .. i -> limbs] : i \in 1 .. k}} :
     Verified(r)}
Fixnums == {Fix(n) : n \in -most_negative_fixnum .. most_positive_fixnum}
Operand == Fixnums \cup Bignums(MaxLimbs, LimbSample)
Operand2 == Fixnums \cup Bignums(MaxLimbs2, LimbSample2)
Shift == 0 .. MaxShift

Init ==
  /\ \/ x \in Operand2 /\ y \in Operand2
     \/ x \in Operand /\ y = Fix(0)
  /\ op = "none"
  /\ result = Fix(0)

Return(name, r) ==
  /\ op = "none"
  /\ op' = name
  /\ result' = r
  /\ UNCHANGED <<x, y>>

Add == \E rest \in LimbSample2 : Return("+", PlusOf(x, y, rest))
Subtract == \E rest \in LimbSample2 : Return("-", MinusOf(x, y, rest))
Multiply == Return("*", TimesOf(x, y))
Divide == y # Fix(0) /\ Return("quotient+remainder", DivRemOf(x, y))
Modulo == y # Fix(0) /\ Return("modulo", ModuloOf(x, y, 0))
And == Return("bitwise-and", AndOf(x, y))
Ior == Return("bitwise-ior", OrOf(x, y))
Xor == Return("bitwise-xor", XorOf(x, y))
Compare == ~IsFix(x) /\ ~IsFix(y) /\ Return("compare", Fix(BnBnComp(x, y)))

\* operations on one integer, or on one and a shift amount
Not == y = Fix(0) /\ Return("bitwise-not", NotOf(x))
Length == y = Fix(0) /\ Return("bitwise-length", Fix(LengthOf(x)))
Sqrt == Value(x) >= 0 /\ y = Fix(0) /\ Return("exact-integer-sqrt", SqrtOf(x))
ShiftRight == \E m \in Shift : y = Fix(0) /\ Return("shift-right", <<m, ShiftRightOf(x, m)>>)
ShiftLeft == \E m \in Shift : y = Fix(0) /\ Return("shift-left", <<m, ShiftLeftOf(x, m)>>)
Decimal == ~IsFix(x) /\ y = Fix(0) /\ Return("number->string", ToDecimal(x))
\* only sqrt of a large number asks for more than the bits it passes
Inexact == \E more \in {0, 1}, precision \in Precisions :
  /\ ~IsFix(x) /\ y = Fix(0)
  /\ more = 1 => Len(x.limbs) > 2 /\ ~x.neg
  /\ Return("inexact", <<more, precision, BignumToFlonum(x, more, precision)>>)

\* the program goes on with the result if it is an operand, else with x
Continue ==
  /\ op # "none"
  /\ op' = "none"
  /\ x' = IF op \in {"+", "-", "*", "bitwise-and", "bitwise-ior"} /\ result \in Operand2
          THEN result ELSE x
  /\ result' = Fix(0)
  /\ UNCHANGED y

Next ==
  \/ Add \/ Subtract \/ Multiply \/ Divide \/ Modulo
  \/ And \/ Ior \/ Xor \/ Not
  \/ ShiftRight \/ ShiftLeft \/ Length
  \/ Sqrt \/ Compare \/ Inexact \/ Decimal
  \/ Continue

Spec == Init /\ [][Next]_vars

-----------------------------------------------------------------------------
(* Properties.  X and Y are the integers the operands stand for.           *)

X == Value(x)
Y == Value(y)

(* Where the code goes wrong: excepted by name in the properties below. *)
\* the carry of a sum is stored at the length of the first operand
CarryMisplaced ==
  /\ ~IsFix(x) /\ ~IsFix(y)
  /\ (op = "+" /\ x.neg = y.neg) \/ (op = "-" /\ x.neg # y.neg)
  /\ Len(x.limbs) < Len(y.limbs)
  /\ MpnAddCarry(y.limbs, x.limbs) > 0
\* the greatest fixnum comes back from "and" as a bignum
GreatestFixnumBig == op = "bitwise-and" /\ result = Big(FALSE, <<most_positive_fixnum>>)
\* the least fixnum divided by its negation, a bignum
LeastByItsNegation == x = Fix(-most_negative_fixnum) /\ y = Big(FALSE, <<most_negative_fixnum>>)
\* modulo of a multiple of a divisor of the other sign, one of them a bignum
MultipleOfOther == ~(IsFix(x) /\ IsFix(y)) /\ X % Magnitude(Y) = 0 /\ (X < 0) # (Y < 0)
\* shifted by whole limbs, the magnitude rounds up to a power of the base
LimbLost(m) ==
  /\ X < 0 /\ ~IsFix(x) /\ m % W = 0 /\ m # 0
  /\ \E n \in 1 .. MaxLimbs : X \div 2^^m = -(B^^n) /\ n = Len(x.limbs) - m \div W

\* The order of bignums is that of the integers.
OrderRight ==
  op = "compare" => CASE X < Y -> result = Fix(-1)
                      [] X = Y -> result = Fix(0)
                      [] X > Y -> result = Fix(1)
\* Sums, differences and products are those of the integers, whatever the
\* signs and lengths of the operands, and the order is theirs (binary+,
\* binary-, binary*, ikrt_bnbncomp).
ArithmeticExact ==
  /\ op = "+" /\ ~CarryMisplaced => Value(result) = X + Y
  /\ op = "-" /\ ~CarryMisplaced => Value(result) = X - Y
  /\ op = "*" => Value(result) = X * Y
  /\ OrderRight

\* Quotient and remainder recompose the dividend, the remainder is smaller than
\* the divisor and on the dividend's side (quotient+remainder).
QuotientRight ==
  op = "quotient+remainder" =>
    LET q == Value(result[1])
        r == Value(result[2])
    IN  /\ X = q * Y + r
        /\ Magnitude(r) < Magnitude(Y)
        /\ r # 0 => (r < 0) = (X < 0)
\* modulo is congruent to the dividend, smaller than the divisor and on the
\* divisor's side (modulo, ikrt_bnfx_modulo).
ModuloRight ==
  op = "modulo" =>
    LET r == Value(result) IN
    /\ (X - r) % Magnitude(Y) = 0
    /\ Magnitude(r) < Magnitude(Y)
    /\ r # 0 => (r < 0) = (Y < 0)
\* The root is the largest whose square fits, and the rest is what is left.
RootRight ==
  op = "exact-integer-sqrt" =>
    LET s == Value(result[1]) IN
    /\ s * s <= X /\ X < (s + 1) * (s + 1)
    /\ s * s + Value(result[2]) = X
\* All three, but for the cases where the code goes wrong.
DivisionExact ==
  /\ QuotientRight \/ LeastByItsNegation
  /\ ModuloRight \/ MultipleOfOther
  /\ RootRight

\* Every integer comes back in its one representation: a fixnum if it fits, a
\* bignum without leading zero limbs if not (verify_bignum).  eqv?, the tests
\* for zero and every fast path for fixnums rely on it.
ResultVerified ==
  CASE op \in {"+", "-", "*", "modulo", "bitwise-and", "bitwise-ior", "bitwise-xor",
               "bitwise-not"} -> Verified(result)
    [] op \in {"quotient+remainder", "exact-integer-sqrt"} ->
         Verified(result[1]) /\ Verified(result[2])
    [] op \in {"shift-right", "shift-left"} -> Verified(result[2])
    [] OTHER -> TRUE
\* A sum or a difference, seen alone, comes back in its one representation
\* (verify_bignum, which ikrt_bnbnplus and ikrt_bnbnminus apply to it).
SumVerified == op \in {"+", "-"} => Verified(result)
AllVerified == ResultVerified \/ CarryMisplaced \/ GreatestFixnumBig

\* Bitwise operations act on the two's complement of any width that holds both
\* operands, and the length is the least such width without the sign.
Width == (MaxLimbs + 1) * W
BitwiseRight ==
  LET both == AndBits(X, Y, Width)
      low == Value(result) % 2^^Width
  IN  /\ op = "bitwise-and" => low = both
      /\ op = "bitwise-ior" => low = (X + Y - both) % 2^^Width
      /\ op = "bitwise-xor" => low = (X + Y - 2 * both) % 2^^Width
      /\ op = "bitwise-not" => Value(result) = -X - 1
      /\ op = "bitwise-length" =>
           LET k == Value(result) IN
           /\ -(2^^k) <= X /\ X < 2^^k
           /\ k = 0 \/ ~(-(2^^(k - 1)) <= X /\ X < 2^^(k - 1))

\* A shift to the right is the floor of a division by a power of two, for
\* negative numbers too: what is shifted out and what is left make up the number.
ShiftRightFloor ==
  op = "shift-right" =>
    X = (X % 2^^result[1]) + Value(result[2]) * 2^^result[1]
\* Bitwise operations and, but for one case, shifts are exact; a shift to the
\* left is a product.
BitsExact ==
  /\ BitwiseRight
  /\ (op = "shift-right" => LimbLost(result[1])) \/ ShiftRightFloor
  /\ op = "shift-left" => Value(result[2]) = X * 2^^result[1]

\* A bignum becomes the nearest flonum, the even one if two are equally near;
\* with more bits to come it is rounded as if half a unit were added below.
InexactRight ==
  op = "inexact" =>
    LET n == IF result[1] = 1 THEN FlRound(2 * Magnitude(X) + 1, result[2]) \div 2
             ELSE FlRound(Magnitude(X), result[2])
    IN  result[3] = IF X < 0 THEN -n ELSE n

\* The digits stand for the number and fit the buffer the code allocates.
DecimalRight ==
  op = "number->string" =>
    LET ds == result.digits
        n[i \in 0 .. Len(ds)] == IF i = 0 THEN 0 ELSE 10 * n[i - 1] + ds[i]
    IN  /\ X = IF result.neg THEN -n[Len(ds)] ELSE n[Len(ds)]
        /\ Len(ds) <= result.room
\* What leaves the integers stands for the number that it came from: a flonum
\* is the nearest, a numeral is exact (ikrt_bignum_to_flonum,
\* ikrt_bignum_to_bytevector).
ConversionExact == InexactRight /\ DecimalRight

=============================================================================
