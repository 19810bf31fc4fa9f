------------------------------- MODULE Heap --------------------------------
(***************************************************************************)
(* What the Ikarus collector promises to a Scheme program: a graph of      *)
(* objects with identity, in which garbage collection can be noticed only  *)
(* through weak pairs and guardians.                                       *)
(*                                                                         *)
(*   - an object the program can reach keeps its identity and its fields;  *)
(*   - the car of a weak pair becomes the broken-weak-pointer object only  *)
(*     when its referent is not reachable through strong pointers;         *)
(*   - a guarded object is delivered to its guardian only when the program *)
(*     cannot reach it, once per registration, intact, at the end of the   *)
(*     guardian's queue.                                                   *)
(*                                                                         *)
(* The state of an object nobody can reach is kept at Nil, so that dropping *)
(* it is not a step.                                                       *)
(***************************************************************************)
EXTENDS Integers, Sequences, FiniteSets, Reachability

CONSTANTS Object, KindOf, Root, Entry, Nil, Bwp

Immediate == {Nil, Bwp}
Tconcs == {o \in Object : KindOf[o] = "tconc"}
Weaks == {o \in Object : KindOf[o] = "weak"}
Data == {o \in Object : KindOf[o] \in {"pair", "weak", "vector"}}

VARIABLE
  heap   \* root:       the program's variables
         \* field:      the two fields of each object
         \* tqueue:     per guardian, the objects delivered and not yet taken
         \* registered: registrations <<entry, guardian, object>>
         \* condemned:  registrations whose object was found unreachable

-----------------------------------------------------------------------------
(* Reachability *)

Elements(seq) == {seq[i] : i \in DOMAIN seq}
Guarded(regs, o) == {c[3] : c \in {d \in regs : d[2] = o}}
Variables(h) == {h.root[r] : r \in Root}

\* what the program can get at without reading a weak car, and what else the
\* registrations in regs would give it
StrongWith(h, regs) ==
  Reach(Variables(h),
        [o \in Object |->
           IF o \in Tconcs THEN Elements(h.tqueue[o]) \cup Guarded(regs, o)
           ELSE IF o \in Weaks THEN {h.field[o].cdr}
           ELSE {h.field[o].car, h.field[o].cdr}])

\* what it may still get at, through weak pairs or guardians
Retained(h) ==
  Reach(Variables(h),
        [o \in Object |->
           IF o \in Tconcs
           THEN Elements(h.tqueue[o]) \cup Guarded(h.registered \cup h.condemned, o)
           ELSE {h.field[o].car, h.field[o].cdr}])

Blank == [car |-> Nil, cdr |-> Nil]

\* k is g with everything out of reach blanked.  (\E x \in {e} : P(x) is P(e),
\* with e evaluated once.)
Becomes(k, g) ==
  \E h \in {g} :
    /\ k.root = h.root
    /\ \E keep \in {Retained(h)} :
         k = [root |-> h.root,
              field |-> [o \in Object |-> IF o \in keep THEN h.field[o] ELSE Blank],
              tqueue |-> [o \in Tconcs |-> IF o \in keep THEN h.tqueue[o] ELSE <<>>],
              registered |-> {c \in h.registered : c[2] \in keep},
              condemned |-> {c \in h.condemned : c[2] \in keep}]

-----------------------------------------------------------------------------
(* The program *)

Handles(h) == Variables(h) \cup {Nil}

Allocate(h, k, r) ==
  \E o \in Data \ Retained(h), u, v \in Handles(h) :
    Becomes(k, [h EXCEPT !.root[r] = o, !.field[o] = [car |-> u, cdr |-> v]])

SetField(h, k, r) ==
  /\ h.root[r] \in Data
  /\ \E f \in {"car", "cdr"}, v \in Handles(h) :
       Becomes(k, [h EXCEPT !.field[h.root[r]][f] = v])

Load(h, k, r) ==
  \E q \in Root, f \in {"car", "cdr"} :
    /\ h.root[q] \in Data
    /\ Becomes(k, [h EXCEPT !.root[r] = h.field[h.root[q]][f]])

Drop(h, k, r) == Becomes(k, [h EXCEPT !.root[r] = Nil])

MakeGuardian(h, k, r) ==
  \E o \in Tconcs \ Retained(h) : Becomes(k, [h EXCEPT !.root[r] = o])

Register(h, k, r) ==
  /\ h.root[r] \in Tconcs
  /\ \E e \in Entry, v \in Handles(h) :
       /\ \A c \in h.registered \cup h.condemned : c[1] # e
       /\ Becomes(k, [h EXCEPT !.registered = @ \cup {<<e, h.root[r], v>>}])

Dequeue(h, k, r) ==
  LET tc == h.root[r] IN
  /\ tc \in Tconcs
  /\ h.tqueue[tc] # <<>>
  /\ \E q \in Root :
       Becomes(k, [h EXCEPT !.root[q] = Head(h.tqueue[tc]), !.tqueue[tc] = Tail(@)])

Program(h, k) ==
  \E r \in Root : \/ Allocate(h, k, r) \/ SetField(h, k, r) \/ Load(h, k, r) \/ Drop(h, k, r)
                  \/ MakeGuardian(h, k, r) \/ Register(h, k, r) \/ Dequeue(h, k, r)

-----------------------------------------------------------------------------
(* The collector *)

\* these guarded objects are found out of the program's reach
Condemn(h, k) ==
  \E S \in SUBSET h.registered :
    /\ \A c \in S : c[3] \in Object \ StrongWith(h, {})
    /\ Becomes(k, [h EXCEPT !.registered = @ \ S, !.condemned = @ \cup S])

\* a guardian out of the program's reach gives up its registrations
Abandon(h, k) ==
  \E S \in SUBSET h.registered :
    /\ \A c \in S : c[2] \notin StrongWith(h, h.condemned)
    /\ Becomes(k, [h EXCEPT !.registered = @ \ S])

BreakWeakPairs(h, k) ==
  LET strong == StrongWith(h, h.condemned)
      loose == {o \in Weaks : h.field[o].car \in Object \ strong}
  IN
  \E W \in SUBSET loose :
    Becomes(k, [h EXCEPT !.field =
              [o \in Object |-> IF o \in W THEN [@[o] EXCEPT !.car = Bwp] ELSE @[o]]])

Deliver(h, k) ==
  \E c \in h.condemned :
    Becomes(k, [h EXCEPT !.condemned = @ \ {c}, !.tqueue[c[2]] = Append(@, c[3])])

Collector(h, k) == Condemn(h, k) \/ Abandon(h, k) \/ BreakWeakPairs(h, k) \/ Deliver(h, k)

Init ==
  heap = [root |-> [r \in Root |-> Nil],
          field |-> [o \in Object |-> Blank],
          tqueue |-> [o \in Tconcs |-> <<>>],
          registered |-> {},
          condemned |-> {}]

\* h and k are the heap before and after; []_heap allows the rest to change nothing
Next == heap' # heap /\ \E h \in {heap}, k \in {heap'} : Program(h, k) \/ Collector(h, k)

Spec == Init /\ [][Next]_heap
=============================================================================
