------------------------------- MODULE Foreign -------------------------------
(***************************************************************************)
(* Integers on their way to and from C: the accessors of (ikarus foreign)  *)
(* and pointers (src/src/ikarus-pointers.c), and the arguments and results *)
(* of a foreign call (the conversions of src/src/ikarus-ffi.c).            *)
(*                                                                         *)
(* A Scheme program holds one integer and one pointer to a block of C      *)
(* memory, seen as one number of 2W bits whose low bits are at the         *)
(* pointer (the code runs on little-endian processors).  What it writes    *)
(* with one accessor it may read with another.  The sizes of the C types   *)
(* are those of the build.                                                 *)
(***************************************************************************)
EXTENDS Numbers

CONSTANTS
  Builds,     \* each a record of the bits of char, short, int, long, longlong
  Integers0,  \* bound: the integers a program starts with
  MaxFields,  \* bound: fields of a record passed by value
  MaxOps      \* bound: operations of a program

ASSUME ForeignAssumption ==
  /\ MaxFields \in Nat /\ MaxOps \in Nat
  /\ Integers0 \subseteq {v \in Number : Verified(v)}
  /\ \A b \in Builds :
       /\ b.long = W /\ b.longlong \in {W, 2 * W}
       /\ b.char \in 1 .. b.short /\ b.short \in 1 .. b.int /\ b.int \in 1 .. W
       \* what is read as a short is a fixnum, with or without its sign
       /\ b.short < W - FxShift
       \* wordsize 8: so is what is read as an int
       /\ b.longlong = W => b.int < W - FxShift

VARIABLES
  build,   \* the sizes of the C types
  reg,     \* the integer the program holds
  mem,     \* the C memory at the program's pointer
  ptr,     \* the address in a pointer object
  did,     \* the last operation, with what it worked on
  ops      \* the operations so far

fvars == <<build, reg, mem, ptr, did, ops>>

Type == {"char", "short", "int", "long", "longlong"}
Bits(t) == build[t]

\* the low k bits as a signed number
Signed(n, k) == IF n % 2^^k >= 2^^(k - 1) THEN (n % 2^^k) - 2^^k ELSE n % 2^^k

-----------------------------------------------------------------------------
(* Integers to C *)

ExtractNumUnsigned(v) ==    \* wrong: the sign of a bignum is not looked at
  IF IsFix(v) THEN v.int ELSE Signed(v.limbs[1], W)

\* extract_num, integer_to_long: a fixnum, or the first limb with its sign
ExtractNum(v) ==
  IF IsFix(v) THEN v.int
  ELSE Signed(IF v.neg THEN -v.limbs[1] ELSE v.limbs[1], W)

ExtractLongLongOneLimb(v) ==    \* wrong: longer bignums lose their second limb
  IF IsFix(v) THEN v.int ELSE IF v.neg THEN -v.limbs[1] ELSE v.limbs[1]

\* extract_num_longlong: a bignum of one limb is widened, else as many limbs
\* as a long long has.  The negative one is widened as a signed long.
ExtractLongLong(v) ==
  LET k == build.longlong
      low == NatOf(SubSeq(v.limbs, 1, IF k > W /\ Len(v.limbs) > 1 THEN 2 ELSE 1))
  IN  IF IsFix(v) THEN v.int
      ELSE IF v.limbs = <<low>> /\ v.neg THEN Signed(-Signed(low, W), W)
      ELSE Signed(IF v.neg THEN -low ELSE low, k)

Extract(t, v) == IF t = "longlong" THEN ExtractLongLong(v) ELSE ExtractNum(v)

\* n bits at an offset replaced by those of v
Replace(m, offset, n, v) ==
  m - ((m \div 2^^offset) % 2^^n) * 2^^offset + (v % 2^^n) * 2^^offset

-----------------------------------------------------------------------------
(* C to integers *)

\* s_to_number: fixed and unfixed again, the number must be the same
s_to_number(n) == FromLong(n)

u_to_numberShift(n) ==    \* wrong: one bit of tag, as if there were no sign
  IF n <= (B - 1) \div 2^^FxShift THEN Fix(n) ELSE Big(FALSE, <<n>>)
u_to_number(n) ==
  IF n <= (B - 1) \div 2^^(FxShift + 1) THEN Fix(n) ELSE Big(FALSE, <<n>>)

sll_to_number(n) ==
  IF Signed(n, W) = n THEN s_to_number(n)
  ELSE Big(n < 0, LimbsOf(Magnitude(n), build.longlong \div W))
ull_to_number(n) ==
  IF n % B = n THEN u_to_number(n)
  ELSE Normalize(LimbsOf(n, build.longlong \div W), FALSE)

\* ikrt_ref_char .. ikrt_ref_ulonglong
ToNumber(t, signed, n) ==
  LET s == Signed(n, Bits(t))
      u == n % 2^^Bits(t)
  IN  CASE t \in {"char", "short"} -> Fix(IF signed THEN s ELSE u)
        [] t = "int" /\ build.longlong = W -> Fix(IF signed THEN s ELSE u)
        [] t = "longlong" -> IF signed THEN sll_to_number(s) ELSE ull_to_number(u)
        [] OTHER -> IF signed THEN s_to_number(s) ELSE u_to_number(u)

\* the same of a foreign call's result or a callback's argument: the cast of
\* the short types goes through the long ones (ffi_to_scheme_value_cast)
FfiToScheme(t, signed, n) ==
  LET s == Signed(n, Bits(t))
      u == n % 2^^Bits(t)
  IN  CASE t # "longlong" -> IF signed THEN s_to_number(s) ELSE u_to_number(u)
        [] OTHER -> IF signed THEN sll_to_number(s) ELSE ull_to_number(u)

-----------------------------------------------------------------------------
(* The program's operations *)

\* pointer-set-c-char! .. pointer-set-c-long-long!
PointerSet == \E t \in Type :
  /\ mem' = Replace(mem, 0, Bits(t), Extract(t, reg))
  /\ did' = [op |-> "set", type |-> t]
  /\ UNCHANGED <<build, reg, ptr>>

\* pointer-ref-c-signed-char .. pointer-ref-c-unsigned-long-long
PointerRef == \E t \in Type, signed \in BOOLEAN :
  /\ reg' = ToNumber(t, signed, mem)
  /\ did' = [op |-> "ref", type |-> t, signed |-> signed]
  /\ UNCHANGED <<build, mem, ptr>>

\* a C function returns what is in memory, or calls back with it
CallReturns == \E t \in Type, signed \in BOOLEAN :
  /\ reg' = FfiToScheme(t, signed, mem)
  /\ did' = [op |-> "ref", type |-> t, signed |-> signed]
  /\ UNCHANGED <<build, mem, ptr>>

\* integer->pointer: ikrt_fx_to_pointer, ikrt_bn_to_pointer, make_pointer
IntegerToPointer ==
  /\ ptr' = Word(ExtractNum(reg))
  /\ did' = [op |-> "integer->pointer"]
  /\ UNCHANGED <<build, reg, mem>>
\* pointer->integer: ikrt_pointer_to_int
PointerToInteger ==
  /\ reg' = s_to_number(Signed(ptr, W))
  /\ did' = [op |-> "pointer->integer"]
  /\ UNCHANGED <<build, mem, ptr>>
\* pointer-set-c-pointer!, pointer-ref-c-pointer
SetPointer ==
  /\ mem' = Replace(mem, 0, W, ptr)
  /\ did' = [op |-> "set-pointer"]
  /\ UNCHANGED <<build, reg, ptr>>
RefPointer ==
  /\ ptr' = mem % B
  /\ did' = [op |-> "ref-pointer"]
  /\ UNCHANGED <<build, reg, mem>>

FieldOffsetWords(ts) == [i \in 1 .. Len(ts) |-> (i - 1) * W]   \* wrong: a word for every field

\* where each field of a record goes: one after the other
FieldOffset(ts) ==
  LET at[i \in 1 .. Len(ts) + 1] == IF i = 1 THEN 0 ELSE at[i - 1] + Bits(ts[i - 1])
  IN  at

\* a record of fields that all hold the integer is passed by value
\* (scheme_to_ffi_record_value_cast); what C finds at the argument is kept.
\* Nothing else changes, so it is tried on the first integer only.
PassRecord == \E ts \in UNION {[1 .. n -> Type] : n \in 1 .. MaxFields} :
  /\ ops = 0
  /\ LET at == FieldOffset(ts)
         buf[i \in 0 .. Len(ts)] ==
           IF i = 0 THEN 0 ELSE Replace(buf[i - 1], at[i], Bits(ts[i]), Extract(ts[i], reg))
     IN  /\ did' = [op |-> "record", types |-> ts, buf |-> buf[Len(ts)]]
         /\ UNCHANGED <<build, reg, mem, ptr>>

ForeignInit ==
  /\ build \in Builds
  /\ reg \in Integers0
  /\ mem = 0
  /\ ptr = 0
  /\ did = [op |-> "none"]
  /\ ops = 0

ForeignNext ==
  \/ /\ ops < MaxOps
     /\ ops' = ops + 1
     /\ \/ PointerSet \/ PointerRef \/ CallReturns
        \/ IntegerToPointer \/ PointerToInteger
        \/ SetPointer \/ RefPointer
        \/ PassRecord
  \/ ops = MaxOps /\ UNCHANGED fvars    \* the program is done

ForeignSpec == ForeignInit /\ [][ForeignNext]_fvars

-----------------------------------------------------------------------------
(* Properties *)

(* Where the code goes wrong, only where a long long is longer than a word. *)
\* the negation of one limb as a long overflows it
NegatedLong(v) ==
  build.longlong > W /\ ~IsFix(v) /\ v.neg /\ Len(v.limbs) = 1 /\ v.limbs[1] > B \div 2
\* a magnitude of one limb that is no long gets two limbs
LeadingZero(t, v) ==
  build.longlong > W /\ t = "longlong" /\ ~IsFix(v) /\ Len(v.limbs) = 2 /\ v.limbs[2] = 0

\* An accessor stores the low bits of the two's complement of its integer, be
\* it a fixnum or a bignum of any length, and touches no other byte
\* (pointer-set-c-...!).
LowBitsStored ==
  did'.op = "set" =>
    LET k == Bits(did'.type) IN
    /\ (mem' - Value(reg)) % 2^^k = 0 \/ (did'.type = "longlong" /\ NegatedLong(reg))
    /\ mem' \div 2^^k = mem \div 2^^k

\* A pointer made from the integer of a pointer is that pointer, whatever the
\* sign and size of the address, and memory keeps a pointer whole
\* (integer->pointer, pointer->integer).
PointerKept ==
  /\ did.op = "pointer->integer" /\ did'.op = "integer->pointer" => ptr' = ptr
  /\ did.op = "set-pointer" /\ did'.op = "ref-pointer" => ptr' = ptr
  /\ did'.op = "pointer->integer" => (Value(reg') - ptr) % B = 0 /\ Verified(reg')
  /\ did'.op = "integer->pointer" => (Value(reg) - ptr') % B = 0

\* Memory takes what is stored in it and pointers survive the way through
\* integers and memory, at every step.
StoredModulo == [][LowBitsStored /\ PointerKept]_fvars

\* What is read is the number in range that has these bits, in its one
\* representation, by an accessor or from a call (pointer-ref-c-...).
LoadedExact ==
  did.op = "ref" =>
    LET k == Bits(did.type)
        low == IF did.signed THEN -(2^^(k - 1)) ELSE 0
    IN  /\ (Value(reg) - mem) % 2^^k = 0
        /\ low <= Value(reg) /\ Value(reg) < low + 2^^k
        /\ Verified(reg) \/ LeadingZero(did.type, reg)

\* C finds each field of a record where its own layout puts it, when that
\* needs no padding: the code has none.
RecordLaidOut ==
  did.op = "record" /\ ~NegatedLong(reg) =>
    LET ts == did.types
        start[i \in 1 .. Len(ts)] ==    \* C's layout: the next multiple of the size
          IF i = 1 THEN 0
          ELSE LET end == start[i - 1] + Bits(ts[i - 1]) IN
               end + ((-end) % Bits(ts[i]))
        padded == \E i \in 2 .. Len(ts) : start[i] # start[i - 1] + Bits(ts[i - 1])
    IN  padded \/ \A i \in 1 .. Len(ts) :
                    (did.buf \div 2^^start[i] - Value(reg)) % 2^^Bits(ts[i]) = 0

=============================================================================
