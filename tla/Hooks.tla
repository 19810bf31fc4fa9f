-------------------------------- MODULE Hooks --------------------------------
(***************************************************************************)
(* Allocation and the hooks that run after a collection                    *)
(* (src/scheme/ikarus.collect.ss, ik_collect_check and the end of          *)
(* ik_collect in src/src/ikarus-collect.c).                                *)
(*                                                                         *)
(* Code that finds too little room calls do-overflow, which collects and   *)
(* then runs the hooks, which allocate as well, may cause collections of   *)
(* their own, and must leave the room the call was made for.  Room is      *)
(* counted from the allocation pointer to the redline; the area goes on    *)
(* behind the redline for the objects whose size is not tested.            *)
(***************************************************************************)
EXTENDS Integers, Sequences

CONSTANTS
  HeapRoom,      \* IK_HEAPSIZE
  Small,         \* the greatest size for which only the redline is tested, one page
  Sizes,         \* of allocations
  KeySize,       \* of a gensym
  MaxCollections

ASSUME HooksAssumption ==
  /\ HeapRoom \in Nat /\ Small \in Nat /\ KeySize \in Nat /\ Sizes \subseteq Nat
  /\ Small < HeapRoom /\ KeySize <= Small

VARIABLES
  room,          \* allocation_redline - allocation_pointer
  collectKey,    \* pcb->collect_key: the number of collections when it was made, or NoKey
  hooked,        \* post-gc-hooks is not empty
  calls,         \* calls of do-overflow, the innermost last
  collections,
  misled,        \* ik_collect_check took a pointer behind the redline for room
  missed         \* do-overflow returned after a collection the hooks did not see

gvars == <<room, collectKey, hooked, calls, collections, misled, missed>>

NoKey == -1

HooksInit ==
  /\ room \in {0, HeapRoom} /\ collectKey = NoKey /\ hooked \in BOOLEAN
  /\ calls = << >> /\ collections = 0 /\ misled = FALSE /\ missed = FALSE

Call == calls[Len(calls)]
Outer == SubSeq(calls, 1, Len(calls) - 1)
InCall(at) == calls # << >> /\ Call.at = at
GoOn(at) == calls' = Append(Outer, [Call EXCEPT !.at = at])

\* parameterize: no hooks inside a hook
HooksOn == hooked /\ \A i \in DOMAIN calls : calls[i].at # "hooks"

\* alloc-check: a small size needs the pointer not to be behind the redline
RoomFor(n) == IF n <= Small THEN room >= 0 ELSE room >= n
Overflow(n) == calls' = Append(calls, [n |-> n, at |-> "collect", key |-> NoKey, round |-> 0])

-----------------------------------------------------------------------------
(* The program and the hooks *)

\* the program, or a hook, allocates
Allocate(n) ==
  /\ calls = << >> \/ InCall("hooks")
  /\ \/ RoomFor(n) /\ room' = room - n /\ UNCHANGED calls
     \/ ~RoomFor(n) /\ Overflow(n) /\ UNCHANGED room
  /\ UNCHANGED <<collectKey, hooked, collections, misled, missed>>

\* it calls collect
CollectNow ==
  /\ calls = << >> \/ InCall("hooks")
  /\ Overflow(Small)
  /\ UNCHANGED <<room, collectKey, hooked, collections, misled, missed>>

\* the program sets post-gc-hooks; what a hook sets is gone when the hooks have run
SetHooks ==
  /\ calls = << >>
  /\ hooked' = ~hooked
  /\ UNCHANGED <<room, collectKey, calls, collections, misled, missed>>

\* a hook leaves by an error or a continuation, to the program
Escape ==
  /\ InCall("hooks")
  /\ calls' = << >>
  /\ UNCHANGED <<room, collectKey, hooked, collections, misled, missed>>

-----------------------------------------------------------------------------
(* do-overflow and do-post-gc *)

\* room after a collection: the area is kept if it has more than the call asks for
NewRoom(n) == IF HeapRoom <= n THEN n ELSE HeapRoom

\* ik_collect
Collected(n) ==
  /\ collections < MaxCollections
  /\ room' = NewRoom(n)
  /\ collectKey' = NoKey
  /\ collections' = collections + 1

\* do-overflow returns, and what it was called for is allocated
OverflowReturns ==
  /\ calls' = Outer
  /\ room' = room - Call.n

Collect ==
  /\ InCall("collect")
  /\ Collected(Call.n)
  /\ calls' = Append(Outer, [Call EXCEPT !.at = IF HooksOn THEN "key" ELSE "return"])
  /\ UNCHANGED <<hooked, misled, missed>>

ReturnNow ==
  /\ InCall("return")
  /\ OverflowReturns
  /\ UNCHANGED <<collectKey, hooked, collections, misled, missed>>

\* collect-key, at the start of do-post-gc and after the hooks: a gensym is made when a
\* collection took the last one away, and making it may collect
MakeKey ==
  /\ InCall("key") \/ InCall("key after")
  /\ collectKey = NoKey
  /\ \/ RoomFor(KeySize) /\ room' = room - KeySize /\ collectKey' = collections /\ UNCHANGED calls
     \/ ~RoomFor(KeySize) /\ Overflow(KeySize) /\ UNCHANGED <<room, collectKey>>
  /\ UNCHANGED <<hooked, collections, misled, missed>>

StartHooks ==
  /\ InCall("key") /\ collectKey # NoKey
  /\ calls' = Append(Outer, [Call EXCEPT !.at = "hooks", !.key = collectKey, !.round = collections])
  /\ UNCHANGED <<room, collectKey, hooked, collections, misled, missed>>

HooksReturn ==
  /\ InCall("hooks")
  /\ GoOn("key after")
  /\ UNCHANGED <<room, collectKey, hooked, collections, misled, missed>>

SameKeyAlways == TRUE    \* wrong: the hooks are not run again
\* eq? k0 (collect-key)
SameKey == Call.key = collectKey

\* the hooks caused a collection: they are run again
RunAgain ==
  /\ InCall("key after") /\ collectKey # NoKey /\ ~SameKey
  /\ GoOn("key")
  /\ UNCHANGED <<room, collectKey, hooked, collections, misled, missed>>

\* ik_collect_check: a signed and an unsigned number are compared as unsigned ones, so a
\* pointer behind the redline counts as room for anything
Enough(n) == room < 0 \/ room >= n
CheckRoom ==
  /\ InCall("key after") /\ collectKey # NoKey /\ SameKey
  /\ \/ /\ Enough(Call.n)
        /\ OverflowReturns
        /\ misled' = (misled \/ (room < 0))
        /\ missed' = (missed \/ Call.round # collections)
        /\ UNCHANGED <<collectKey, collections>>
     \/ ~Enough(Call.n) /\ Collected(Call.n) /\ GoOn("key") /\ UNCHANGED <<misled, missed>>
  /\ UNCHANGED hooked

HooksNext ==
  \/ \E n \in Sizes : Allocate(n)
  \/ CollectNow \/ SetHooks \/ Escape
  \/ Collect \/ ReturnNow \/ MakeKey \/ StartHooks \/ HooksReturn \/ RunAgain \/ CheckRoom

HooksSpec == HooksInit /\ [][HooksNext]_gvars

-----------------------------------------------------------------------------
(* Properties *)

\* Nothing is allocated further behind the redline than an object whose size is not
\* tested, whatever hooks allocate and collect between a call of do-overflow and the
\* allocation it was made for; and then the hooks have seen the last collection.  But
\* ik_collect_check may be misled, when small objects of a hook end behind the redline.
RoomKept ==
  /\ ~misled => room >= -Small
  /\ ~missed

=============================================================================
