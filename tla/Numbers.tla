------------------------------ MODULE Numbers ------------------------------
(***************************************************************************)
(* The representation of exact integers (src/src/ikarus-data.h and the     *)
(* first pages of ikarus-numerics.c), shared by the modules that compute   *)
(* with them (Bignum) and that move them to and from C (Foreign).          *)
(*                                                                         *)
(* An exact integer is a fixnum, a tagged machine word, or a bignum, a     *)
(* sign and a sequence of limbs, least significant first.  Words and limbs *)
(* have W bits, as in the code.                                            *)
(***************************************************************************)
EXTENDS Integers, Sequences

\* powers, as a recursive function, about which there can be proofs
Powers(b) == LET p[n \in Nat] == IF n = 0 THEN 1 ELSE b * p[n - 1] IN p
b ^^ n == Powers(b)[n]

CONSTANTS
  W,          \* mp_bits_per_limb, the bits of a word
  FxShift     \* fx_shift, the tag bits of a fixnum

ASSUME NumbersAssumption ==
  W \in Nat /\ FxShift \in Nat /\ 0 < FxShift /\ FxShift + 1 < W

-----------------------------------------------------------------------------
(* Words, limbs and numbers *)

B == 2^^W
Limb == 0 .. B - 1
most_positive_fixnum == 2^^(W - FxShift - 1) - 1
\* the code's most_negative_fixnum is the magnitude
most_negative_fixnum == most_positive_fixnum + 1
Magnitude(n) == IF n < 0 THEN -n ELSE n

Fix(n) == [tag |-> "fixnum", int |-> n]
Big(neg, limbs) == [tag |-> "bignum", neg |-> neg, limbs |-> limbs]
IsFix(r) == r.tag = "fixnum"
FitsFixnum(n) == -most_negative_fixnum <= n /\ n <= most_positive_fixnum
Limit(neg) == IF neg THEN most_negative_fixnum ELSE most_positive_fixnum

\* the natural that limbs stand for, and the n lowest limbs of a natural
NatOf(limbs) ==
  LET low[i \in 0 .. Len(limbs)] ==
        IF i = 0 THEN 0 ELSE low[i - 1] + limbs[i] * B^^(i - 1)
  IN  low[Len(limbs)]
LimbsOf(n, k) == [i \in 1 .. k |-> (n \div B^^(i - 1)) % B]

\* exact integers, whether or not verify_bignum would accept them
Number == [tag : {"fixnum"}, int : Int] \cup [tag : {"bignum"}, neg : BOOLEAN, limbs : Seq(Limb)]

\* the integer a number stands for
Value(r) == IF IsFix(r) THEN r.int
            ELSE IF r.neg THEN -NatOf(r.limbs) ELSE NatOf(r.limbs)

\* what verify_bignum accepts: no leading zero limb, no fixnum in disguise
Verified(r) ==
  IF IsFix(r) THEN FitsFixnum(r.int)
  ELSE LET n == Len(r.limbs) IN
       n > 0 /\ r.limbs[n] # 0 /\ (n = 1 => r.limbs[1] > Limit(r.neg))

\* the lowest k bits of two integers in two's complement, combined
BitOf(n, i) == (n \div 2^^i) % 2
AndBits(a, b, k) ==
  LET low[i \in 0 .. k] ==
        IF i = 0 THEN 0
        ELSE low[i - 1] + 2^^(i - 1) * BitOf(a, i - 1) * BitOf(b, i - 1)
  IN  low[k]
AndTable == [p \in Limb \X Limb |-> AndBits(p[1], p[2], W)]
LimbAnd(a, b) == AndTable[<<a, b>>]
LimbOr(a, b) == a + b - LimbAnd(a, b)
Word(n) == n % B    \* a long int seen as an unsigned long

-----------------------------------------------------------------------------
(* From limbs to a number *)

Trim(limbs) ==
  LET top == {i \in DOMAIN limbs : limbs[i] # 0}
      n == IF top = {} THEN 0 ELSE CHOOSE i \in top : \A j \in top : j <= i
  IN  SubSeq(limbs, 1, n)

NormalizeBelow(limbs, neg) ==    \* wrong: the last fixnum of either sign becomes a bignum
  LET t == Trim(limbs) IN
  IF t = <<>> THEN Fix(0)
  ELSE IF Len(t) = 1 /\ t[1] < Limit(neg) THEN Fix(IF neg THEN -t[1] ELSE t[1])
  ELSE Big(neg, t)

\* normalize_bignum
Normalize(limbs, neg) ==
  LET t == Trim(limbs) IN
  IF t = <<>> THEN Fix(0)
  ELSE IF Len(t) = 1 /\ t[1] <= Limit(neg) THEN Fix(IF neg THEN -t[1] ELSE t[1])
  ELSE Big(neg, t)

\* one limb or a fixnum (ikrt_fxfxplus, ikrt_fxfxminus)
FromLong(r) == IF FitsFixnum(r) THEN Fix(r) ELSE Big(r < 0, <<Magnitude(r)>>)

=============================================================================
