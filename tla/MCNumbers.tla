----------------------------- MODULE MCNumbers -----------------------------
(* Instances of Bignum and Foreign for TLC, words of 4 bits of which 1 is a *)
(* tag.  The two share the representation of integers and no state, so a    *)
(* behaviour is one of either.                                              *)
EXTENDS Bignum, Foreign

VARIABLE unit   \* "bignum" or "foreign"

\* zero, one, the values on both sides of the sign bit, and all ones
Ends == {0, 1, 2^^(W - 1) - 1, 2^^(W - 1), 2^^W - 1}
\* and the other combinations of the two lowest bits with the highest
More == Ends \cup {2^^(W - 1) + 1, 2^^(W - 1) + 2, 2}

\* a build for 64 bits and one for 32 bits
TwoBuilds ==
  {[char |-> 1, short |-> 2, int |-> 2, long |-> W, longlong |-> W],
   [char |-> 1, short |-> 2, int |-> W, long |-> W, longlong |-> 2 * W]}
StartIntegers == Fixnums \cup Bignums(2, Ends) \cup Bignums(3, {0, 2^^W - 1})

MCInit ==
  \/ unit = "bignum" /\ Init
     /\ build \in {b \in TwoBuilds : b.longlong = W} /\ reg = Fix(0) /\ mem = 0 /\ ptr = 0
     /\ did = [op |-> "none"] /\ ops = 0
  \/ unit = "foreign" /\ ForeignInit
     /\ x = Fix(0) /\ y = Fix(0) /\ op = "none" /\ result = Fix(0)
MCNext ==
  \/ unit = "bignum" /\ Next /\ UNCHANGED <<fvars, unit>>
  \/ unit = "foreign" /\ ForeignNext /\ UNCHANGED <<vars, unit>>
MCSpec == MCInit /\ [][MCNext]_<<vars, fvars, unit>>

=============================================================================
