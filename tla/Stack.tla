-------------------------------- MODULE Stack --------------------------------
(***************************************************************************)
(* The control stack of Ikarus as it is built (src/src/ikarus-exec.c,      *)
(* ikarus-enter.S, ikarus-ffi.c, ik_stack_overflow in ikarus-runtime.c and *)
(* the code for call/cc and continuations in the compiler).                *)
(*                                                                         *)
(* Frames are words in an area that grows down from frame_base.  The word  *)
(* below frame_base holds the underflow handler.  Capturing a continuation *)
(* seals the frames where they are: a continuation object points at them   *)
(* and frame_base moves below them.  A return that runs into the underflow *)
(* handler is taken to ik_exec_code, which splits the first frame off the  *)
(* next continuation, copies it back to the stack and returns into it.     *)
(* When the area is full the whole of it becomes a continuation and a new  *)
(* area is mapped.  A collection copies the frames of live continuations   *)
(* to the heap.                                                            *)
(*                                                                         *)
(* A foreign call seals the stack and pushes a system continuation, which  *)
(* remembers where the C stack was; a callback runs ik_exec_code above the *)
(* C function, until the underflow loop meets the system continuation.     *)
(*                                                                         *)
(* What is below frame_pointer is cleared here, and a continuation that    *)
(* nobody refers to is dropped at once: neither is ever read.              *)
(***************************************************************************)
EXTENDS Integers, Sequences, SequencesExt, FiniteSets

CONSTANTS
  FrameSize,  \* return points, each with the size of its frame in words;
              \* 0 if the size is in the frame itself
  Value,      \* what frames hold
  Results,    \* bound: the values returned together, a set of sequences
  Slot,       \* places where the program keeps a continuation
  AreaSize,   \* words of a stack area (STAKSIZE)
  Redline,    \* pcb->frame_redline
  Ids,        \* bound: continuation objects in use at once
  Areas,      \* bound: stack areas in use at once
  MaxFrames,  \* bound: frames that wait at once
  MaxNesting  \* bound: foreign calls at once

Dynamic == 3  \* the size of a frame that says its own

ASSUME StackAssumption ==
  /\ Ids \subseteq Nat \ {0} /\ IsFiniteSet(Ids)
  /\ Areas \subseteq Nat \ {0} /\ Areas # {}
  /\ AreaSize \in Nat /\ Redline \in 0 .. AreaSize
  /\ MaxFrames \in Nat /\ MaxNesting \in Nat
  \* a frame, a handler, the frame of the check and two values fit below the redline
  /\ \A r \in DOMAIN FrameSize : FrameSize[r] \in Nat /\ 2 * FrameSize[r] + 3 <= Redline
  /\ 2 * Dynamic + 3 <= Redline
  /\ \A vs \in Results : vs \in Seq(ToSet(vs)) /\ Len(vs) <= 2
  /\ \E vs \in Results : Len(vs) = 1

VARIABLES
  blocks,         \* the words of stack areas and of frames copied to the heap
  stack_base,     \* the area in use
  frame_base,     \* pcb->frame_base
  frame_pointer,  \* the stack register, or pcb->frame_pointer while C runs
  conts,          \* continuation objects
  next_k,         \* pcb->next_k, 0 for none
  cstack,         \* the C stack: activations of ik_exec_code and of foreign calls
  system_stack,   \* pcb->system_stack: how much of it there is when Scheme runs
  slots,          \* the program's continuations, -1 for none
  argc,           \* the number of values on their way
  pc              \* who runs, and what comes next

svars == <<blocks, stack_base, frame_base, frame_pointer, conts, next_k,
           cstack, system_stack, slots, argc, pc>>
memory == <<blocks, stack_base, frame_base>>
c_side == <<cstack, system_stack>>

-----------------------------------------------------------------------------
(* Words, frames and continuations *)

Junk == [w |-> "junk"]
UnderflowHandler == [w |-> "underflow"]
Rp(r) == [w |-> "rp", rp |-> r]
Val(v) == [w |-> "value", v |-> v]

\* the words of a frame: the return point first
FrameOf(r, v) ==
  IF FrameSize[r] = 0
  THEN <<Rp(r), [w |-> "size", size |-> Dynamic]>> \o [i \in 1 .. Dynamic - 2 |-> Val(v)]
  ELSE <<Rp(r)>> \o [i \in 1 .. FrameSize[r] - 1 |-> Val(v)]
Frames == {FrameOf(r, v) : r \in DOMAIN FrameSize, v \in Value}
MarkOf(k) == <<[w |-> "mark", k |-> k]>>

framesizeStatic(ws) ==    \* wrong: a frame that says its own size is taken for a word
  IF FrameSize[ws[1].rp] = 0 THEN 1 ELSE FrameSize[ws[1].rp]
\* the size of the first frame in a row of words
framesize(ws) == IF FrameSize[ws[1].rp] = 0 THEN ws[2].size ELSE FrameSize[ws[1].rp]

\* words top .. end - 1 of a block
Words(b, top, end) == [i \in 1 .. end - top |-> b[top + i - 1]]
ContWords(k) == Words(blocks[conts[k].block], conts[k].top, conts[k].top + conts[k].size)

\* the frames in a row of words, as collect_stack finds them; Mismatch if they
\* do not match up
Mismatch == <<[w |-> "mismatch"]>>
NoCont == << <<[w |-> "none"]>> >>
Split(ws) ==
  LET from[i \in 1 .. Len(ws) + AreaSize] ==
        IF i = Len(ws) + 1 THEN <<>>
        ELSE IF i > Len(ws) \/ ws[i].w # "rp" THEN <<Mismatch>>
        ELSE LET size == framesize(SubSeq(ws, i, Len(ws))) IN
             IF i + size > Len(ws) + 1 THEN <<Mismatch>>
             ELSE <<SubSeq(ws, i, i + size - 1)>> \o from[i + size]
  IN  from[1]
Matches(fs) == \A i \in DOMAIN fs : fs[i] # Mismatch

\* the frames and system continuations from k on
Chain(k) ==
  LET from[i \in DOMAIN conts \cup {0}] ==
        IF i = 0 THEN <<>>
        ELSE IF conts[i].tag = "system" THEN <<MarkOf(i)>> \o from[conts[i].next]
        ELSE Split(ContWords(i)) \o from[conts[i].next]
  IN  from[k]
FirstSystem(k) ==
  LET from[i \in DOMAIN conts \cup {0}] ==
        IF i = 0 \/ conts[i].tag = "system" THEN i ELSE from[conts[i].next]
  IN  from[k]

\* what the program can still reach, from the given roots
Reach(cs, roots) ==
  LET from[i \in DOMAIN cs \cup {0, -1}] == IF i <= 0 THEN {} ELSE {i} \cup from[cs[i].next]
  IN  UNION {from[i] : i \in roots}
Reachable(cs, k, ss) == Restrict(cs, Reach(cs, {k} \cup {ss[s] : s \in Slot}))
UsedBlocks(cs, a) == {a} \cup {cs[i].block : i \in {j \in DOMAIN cs : cs[j].tag = "k"}}

\* conts', next_k', slots' and blocks' once what became unreachable is dropped
Refer(bs, a, cs, k, ss) ==
  /\ next_k' = k
  /\ slots' = ss
  /\ conts' = Reachable(cs, k, ss)
  /\ blocks' = Restrict(bs, UsedBlocks(conts', a))

FreeAreas == {<<"area", n>> : n \in Areas} \ DOMAIN blocks
Free(used) == CHOOSE i \in Ids \ used : \A j \in Ids \ used : i <= j
\* the calls of foreign functions on the C stack, and the last of them below i
Calls == {i \in DOMAIN cstack : cstack[i].in = "C"}
Caller(i) ==
  LET below == {j \in Calls : j < i} IN IF below = {} THEN 0 ELSE cstack[Max(below)].k
ForeignDepth == Cardinality(Calls)
\* the bound Ids leaves room for n more continuation objects
Room(n) == Cardinality(DOMAIN conts) + n <= Cardinality(Ids)

\* f, but x at i
Also(f, i, x) == [j \in DOMAIN f \cup {i} |-> IF j = i THEN x ELSE f[j]]
\* words written into the stack area
Write(b, at, ws) == [i \in DOMAIN b |-> IF i >= at /\ i < at + Len(ws) THEN ws[i - at + 1] ELSE b[i]]
Clear(b, below) == [i \in DOMAIN b |-> IF i < below THEN Junk ELSE b[i]]
Push(b, ws) == Write(b, frame_pointer - Len(ws), ws)

\* the values on their way are below the return point, the first one highest
Below(vs) == Reverse([i \in DOMAIN vs |-> Val(vs[i])])
Got == LET ws == Reverse(Words(blocks[stack_base], frame_pointer - argc, frame_pointer))
       IN  [i \in DOMAIN ws |-> ws[i].v]

\* frames and marks that wait, the top frame first; below the handler there
\* are none
Stack == IF frame_pointer < frame_base - 1
         THEN Words(blocks[stack_base], frame_pointer, frame_base - 1) ELSE <<>>
Waiting == Split(Stack) \o Chain(next_k)

-----------------------------------------------------------------------------
(* Scheme code *)

StackInit ==
  /\ stack_base = <<"area", CHOOSE a \in Areas : TRUE>>
  /\ blocks = [b \in {stack_base} |-> [i \in 0 .. AreaSize - 1 |->
                                        IF i = AreaSize - 1 THEN UnderflowHandler ELSE Junk]]
  /\ frame_base = AreaSize
  /\ frame_pointer = AreaSize - 1
  /\ conts = <<>>
  /\ next_k = 0
  /\ cstack = <<[in |-> "ik_exec_code", k |-> 0]>>
  /\ system_stack = 1
  /\ slots = [s \in Slot |-> -1]
  /\ argc = 0
  /\ pc = "scheme"

MustGrowNot(fp) == fp < 1    \* wrong: the check leaves no room for what comes before the next
MustGrow(fp) == fp < Redline
\* a call that is not a tail call; with too little room below, the check at the
\* entry of a procedure is such a call too, of ik_stack_overflow
Call == \E f \in Frames :
  /\ pc = "scheme" /\ Len(Waiting) < MaxFrames
  /\ MustGrow(frame_pointer) => FreeAreas # {}
  /\ pc' = IF MustGrow(frame_pointer) THEN "overflow" ELSE "scheme"
  /\ blocks' = [blocks EXCEPT ![stack_base] = Push(@, f)]
  /\ frame_pointer' = frame_pointer - Len(f)
  /\ UNCHANGED <<stack_base, frame_base, conts, next_k, c_side, slots, argc>>

\* the values go below the return point: the handler or that of a frame
Return == \E vs \in Results :
  /\ pc = "scheme"
  /\ blocks' = [blocks EXCEPT ![stack_base] = Push(@, Below(vs))]
  /\ argc' = Len(vs)
  /\ pc' = IF frame_pointer = frame_base - 1 THEN "underflow" ELSE "reenter"
  /\ UNCHANGED <<stack_base, frame_base, frame_pointer, conts, next_k, c_side, slots>>
\* ret: the frame is gone, the values are its code's
Resume ==
  LET fp == frame_pointer + framesize(Stack) IN
  /\ pc = "reenter"
  /\ pc' = "scheme"
  /\ frame_pointer' = fp
  /\ argc' = 0
  /\ blocks' = [blocks EXCEPT ![stack_base] = Clear(@, fp)]
  /\ UNCHANGED <<stack_base, frame_base, conts, next_k, c_side, slots>>

SealedSizeWithHandler(size) == size + 1    \* wrong: the handler counted as part of the frames
SealedSize(size) == size
Sealed(top, size, next) ==
  [tag |-> "k", block |-> stack_base, top |-> top, size |-> SealedSize(size), next |-> next]
\* what follows a seal at fp: frame_base moves down to fp, with the handler below it
Handler(b, fp) == Write(b, fp - 1, <<UnderflowHandler>>)

\* call/cc ($seal-frame-and-call, or $current-frame at the base)
Capture == \E s \in Slot :
  /\ pc = "scheme" /\ Room(MaxFrames + 2)
  /\ IF frame_pointer = frame_base - 1
     THEN /\ Refer(blocks, stack_base, conts, next_k, [slots EXCEPT ![s] = next_k])
          /\ UNCHANGED <<frame_base, frame_pointer>>
     ELSE /\ LET k == Free(DOMAIN conts)
                 size == frame_base - 1 - frame_pointer
             IN  Refer([blocks EXCEPT ![stack_base] = Handler(@, frame_pointer)], stack_base,
                       Also(conts, k, Sealed(frame_pointer, size, next_k)), k,
                       [slots EXCEPT ![s] = k])
          /\ frame_base' = frame_pointer
          /\ frame_pointer' = frame_pointer - 1
  /\ UNCHANGED <<stack_base, c_side, argc, pc>>

\* the code of a continuation, called with values.  Across a foreign call the
\* code goes on in the same way, with a C stack that is not the continuation's:
\* that is not followed here.
Throw == \E s \in Slot, vs \in Results :
  /\ pc = "scheme" /\ slots[s] # -1
  /\ IF FirstSystem(slots[s]) = FirstSystem(next_k)
     THEN /\ pc' = "underflow"
          /\ argc' = Len(vs)
          /\ frame_pointer' = frame_base - 1
          /\ Refer([blocks EXCEPT ![stack_base] =
                       Write(Clear(@, frame_base - 1), frame_base - 1 - Len(vs), Below(vs))],
                   stack_base, conts, slots[s], slots)
     ELSE pc' = "across" /\ UNCHANGED <<argc, frame_pointer, blocks, conts, next_k, slots>>
  /\ UNCHANGED <<stack_base, frame_base, c_side>>

\* ik_stack_overflow; it returns into the handler of the new area, with one value
StackOverflow ==
  LET k == Free(DOMAIN conts)
      a == CHOOSE b \in FreeAreas : TRUE
      new == [i \in 0 .. AreaSize - 1 |->
                CASE i = AreaSize - 1 -> UnderflowHandler
                  [] i = AreaSize - 2 -> Below(CHOOSE vs \in Results : Len(vs) = 1)[1]
                  [] OTHER -> Junk]
  IN
  /\ pc = "overflow" /\ Room(1)
  /\ Refer(Also(blocks, a, new), a,
           Also(conts, k, Sealed(frame_pointer, frame_base - frame_pointer - 1, next_k)), k, slots)
  /\ stack_base' = a
  /\ frame_base' = AreaSize
  /\ frame_pointer' = AreaSize - 1
  /\ argc' = 1
  /\ pc' = "underflow"
  /\ UNCHANGED c_side

-----------------------------------------------------------------------------
(* ik_exec_code: one turn of its loop, C stack back at system_stack *)

\* no continuation left: the program's value is returned to main
Finish ==
  /\ pc = "underflow" /\ next_k = 0
  /\ pc' = "done"
  /\ UNCHANGED <<memory, frame_pointer, conts, next_k, c_side, slots, argc>>

\* a system continuation: ik_exec_code returns to the callback, and that to C
UnderflowToC ==
  /\ pc = "underflow" /\ next_k # 0 /\ conts[next_k].tag = "system"
  /\ cstack' = SubSeq(cstack, 1, system_stack - 1)
  /\ frame_pointer' = frame_base
  /\ argc' = 0
  /\ pc' = "c"
  /\ blocks' = [blocks EXCEPT ![stack_base] = Clear(@, frame_base - 1)]
  /\ UNCHANGED <<stack_base, frame_base, conts, next_k, system_stack, slots>>

\* the first frame of the continuation is split off and copied back
Underflow ==
  LET k == conts[next_k]
      ws == ContWords(next_k)
      size == framesize(ws)
      nk == Free(DOMAIN conts)
      rest == [k EXCEPT !.top = @ + size, !.size = @ - size]
      fbase == frame_base - 1
      vs == Words(blocks[stack_base], fbase - argc, fbase)
      moved(b) == Write(b, fbase - size - argc, vs)     \* memmove, then memcpy
      after == IF size < k.size
               THEN Also([conts EXCEPT ![next_k].size = size, ![next_k].next = nk], nk, rest)
               ELSE conts
  IN
  /\ pc = "underflow" /\ next_k # 0 /\ k.tag = "k"
  /\ size < k.size => Room(1)
  /\ IF size > k.size
     THEN pc' = "dead" /\ UNCHANGED <<blocks, conts, next_k, slots, frame_pointer>>
     ELSE /\ pc' = "reenter"
          /\ frame_pointer' = fbase - size
          /\ Refer([blocks EXCEPT ![stack_base] =
                       Write(moved(@), fbase - size, SubSeq(ws, 1, size))],
                   stack_base, after, after[next_k].next, slots)
  /\ UNCHANGED <<stack_base, frame_base, c_side, argc>>

-----------------------------------------------------------------------------
(* Foreign calls *)

\* ikrt_ffi_call up to the call: the frame of the foreign call and those above
\* are sealed, then a system continuation is pushed
ForeignCall == \E f \in Frames :
  LET k == Free(DOMAIN conts)
      sk == Free(DOMAIN conts \cup {k})
      fp == frame_pointer - Len(f)
  IN
  /\ pc = "scheme" /\ Room(MaxFrames + 2) /\ ~MustGrow(frame_pointer)
  /\ Len(Waiting) + 1 < MaxFrames /\ ForeignDepth < MaxNesting
  /\ Refer([blocks EXCEPT ![stack_base] = Handler(Push(@, f), fp)], stack_base,
           Also(Also(conts, k, Sealed(fp, frame_base - 1 - fp, next_k)),
                sk, [tag |-> "system", top |-> system_stack, next |-> k]),
           sk, slots)
  /\ frame_base' = fp
  /\ frame_pointer' = fp - 1
  /\ cstack' = Append(SubSeq(cstack, 1, system_stack), [in |-> "C", k |-> sk])
  /\ pc' = "c"
  /\ UNCHANGED <<stack_base, system_stack, argc>>

\* C calls back: the arguments are converted with frame_pointer at frame_base ...
CallBack ==
  /\ pc = "c"
  /\ pc' = "arguments"
  /\ frame_pointer' = frame_base
  /\ UNCHANGED <<memory, conts, next_k, c_side, slots, argc>>
\* ... and ik_exec_code enters Scheme
Enter ==
  /\ pc = "arguments"
  /\ pc' = "scheme"
  /\ frame_pointer' = frame_base - 1
  /\ blocks' = [blocks EXCEPT ![stack_base] = Handler(@, frame_base)]
  /\ cstack' = Append(cstack, [in |-> "ik_exec_code", k |-> next_k])
  /\ system_stack' = Len(cstack')
  /\ UNCHANGED <<stack_base, frame_base, conts, next_k, slots, argc>>

\* the C function returns; the value is converted with frame_pointer as it is ...
ForeignResult ==
  /\ pc = "c"
  /\ pc' = "result"
  /\ UNCHANGED <<memory, frame_pointer, conts, next_k, c_side, slots, argc>>
RestoredNot(sk) == system_stack    \* wrong: the C stack of the callback is kept
Restored(sk) == sk.top
\* ... and ikrt_ffi_call returns it to Scheme, that is into the handler
ForeignReturn == \E vs \in {rs \in Results : Len(rs) = 1} :
  /\ pc = "result"
  /\ IF next_k = 0 \/ conts[next_k].tag # "system"
     THEN pc' = "dead" /\ UNCHANGED <<blocks, frame_pointer, conts, next_k, c_side, slots, argc>>
     ELSE /\ pc' = "underflow"
          /\ frame_pointer' = frame_base - 1
          /\ argc' = 1
          /\ system_stack' = Restored(conts[next_k])
          /\ cstack' = SubSeq(cstack, 1, Len(cstack) - 1)
          /\ Refer([blocks EXCEPT ![stack_base] = Write(@, frame_base - 2, Below(vs))],
                   stack_base, conts, conts[next_k].next, slots)
  /\ UNCHANGED <<stack_base, frame_base>>

-----------------------------------------------------------------------------
(* A collection: of Scheme code, or of C that converts a value *)

Collect ==
  LET live == {i \in DOMAIN conts : conts[i].tag = "k"}
      top == frame_pointer
      end == frame_base - 1
      \* collect_stack of the stack and of the frames of each continuation
      match == top <= end /\ Matches(Split(Stack))
               /\ \A i \in live : Matches(Split(ContWords(i)))
      kept(b) == [i \in DOMAIN b |-> IF i <= end THEN b[i] ELSE Junk]
  IN
  /\ pc \in {"scheme", "arguments", "result"}
  /\ IF ~match
     THEN pc' = "dead" /\ UNCHANGED <<blocks, conts>>
     ELSE /\ conts' = [i \in DOMAIN conts |->
                         IF i \in live THEN [conts[i] EXCEPT !.block = <<"heap", i>>, !.top = 1]
                         ELSE conts[i]]
          /\ blocks' = Also([b \in {<<"heap", i>> : i \in live} |-> ContWords(b[2])],
                            stack_base, kept(blocks[stack_base]))
          /\ UNCHANGED pc
  /\ UNCHANGED <<stack_base, frame_base, frame_pointer, next_k, c_side, slots, argc>>

StackNext ==
  \/ Call \/ Return \/ Resume
  \/ Capture \/ Throw \/ StackOverflow
  \/ Finish \/ UnderflowToC \/ Underflow
  \/ ForeignCall \/ CallBack \/ Enter \/ ForeignResult \/ ForeignReturn
  \/ Collect
  \/ pc \in {"done", "dead", "across"} /\ UNCHANGED svars    \* the program has ended

StackSpec == StackInit /\ [][StackNext]_svars

-----------------------------------------------------------------------------
(* Properties *)

\* Everything stays within its area: what ik_stack_overflow must ensure.
WithinArea ==
  /\ stack_base \in DOMAIN blocks
  /\ frame_base \in 0 .. AreaSize
  /\ frame_pointer \in argc .. frame_base
  /\ next_k \in DOMAIN conts \cup {0}
  /\ system_stack \in 1 .. Len(cstack) + 1

\* The frames of the stack and of every continuation match up, at every moment
\* a collection may come (collect_stack exits otherwise), but for the two
\* conversions that allocate with frame_pointer at frame_base.
FramesMatch ==
  /\ frame_pointer = frame_base => pc \in {"c", "arguments", "result", "dead"}
  /\ Matches(Split(Stack))
  /\ \A i \in DOMAIN conts : conts[i].tag = "k" => Matches(Split(ContWords(i)))

\* The foreign calls on the C stack are those of the system continuations on
\* the chain, in the same order, each with as much of the C stack as it was
\* called on: C functions return in the order they were called, to Scheme code
\* that is still there (ikrt_ffi_call, generic_callback, ik_exec_code).
CStackMatches ==
  pc \notin {"dead", "across"} =>
    /\ FirstSystem(next_k) = Caller(Len(cstack) + 1)
    /\ \A i \in Calls :
         LET k == conts[cstack[i].k] IN
         /\ k.tag = "system" /\ k.top = i - 1 /\ cstack[i - 1].in = "ik_exec_code"
         /\ FirstSystem(k.next) = Caller(i)
    /\ pc \in {"scheme", "underflow", "reenter", "overflow"} =>
         system_stack = Len(cstack) /\ cstack[system_stack].in = "ik_exec_code"

\* Frames and values are those of a plain list, whatever is sealed, split,
\* copied or moved (module Control).
ctl == Waiting
saved == [s \in Slot |-> IF slots[s] = -1 THEN NoCont ELSE Chain(slots[s])]
where == CASE pc \in {"scheme", "overflow"} -> "scheme"
           [] pc \in {"underflow", "reenter"} -> "returning"
           [] pc \in {"c", "arguments", "result"} -> "c"
           [] OTHER -> pc
got == IF where = "returning" THEN Got ELSE <<>>
Abstract == INSTANCE Control WITH Frame <- Frames, Mark <- {MarkOf(i) : i \in Ids}
ImplementsControl == Abstract!CtlSpec

=============================================================================
