------------------------------- MODULE Winders -------------------------------
(***************************************************************************)
(* dynamic-wind and call/cc (scheme/ikarus.control.ss).  `winders' lists   *)
(* the extents of dynamic-wind that the running code is in, innermost      *)
(* first.  A continuation keeps the list of the place where it was         *)
(* captured; before it is entered, do-wind calls the `out' thunks of the   *)
(* extents to be left and the `in' thunks of those to be entered, one at a *)
(* time.  Thunks are code like any other: they may enter further extents,  *)
(* capture continuations and leave by one.                                 *)
(*                                                                         *)
(* Lists are compared with eq?; a pair of the list is its name here, and   *)
(* lists of the same names are the same list.  Of the frames that wait     *)
(* only those of this library are kept: code that waits for a value is     *)
(* taken as going on when it gets one.                                     *)
(***************************************************************************)
EXTENDS Integers, Sequences, SequencesExt, FiniteSets, FiniteSetsExt, Functions

CONSTANTS
  Extent,     \* names for pairs of the list, a set of numbers
  Place,       \* places where the program keeps a continuation
  MaxWaiting, \* bound: frames of this library that wait at once
  MaxWindings \* bound: throws under way at once, those in continuations counted

ASSUME WindersAssumption == Extent \subseteq Nat /\ MaxWaiting \in Nat /\ MaxWindings \in Nat

VARIABLES
  winders,  \* the list
  frames,   \* what waits, innermost first
  kept,     \* [k, save] of each slot, or none
  entered   \* of each extent, its `in's completed less its `out's begun

wvars == <<winders, frames, kept, entered>>

NoPlace == [k |-> <<>>, save |-> << -1 >>]

\* The tail of `winders' that common-tail finds: the lists are cut to the
\* same length, then to where they are the same.
list_tail(ls, n) == SubSeq(ls, n + 1, Len(ls))
CommonTailNone(x, y) == <<>>    \* wrong: no extent is shared
CommonTail(x, y) ==
  LET suffix(n) == list_tail(x, Len(x) - n) IN
  suffix(Max({n \in 0 .. Min({Len(x), Len(y)}) : suffix(n) = list_tail(y, Len(y) - n)}))

\* the extents named in a row of frames, at any depth
Names(fs) ==
  UNION {CASE fs[i].at = "body" -> {fs[i].id}
           [] fs[i].at \in {"unwind", "rewind"} ->
                ToSet(fs[i].ls) \cup ToSet(fs[i].from) \cup ToSet(fs[i].new) \cup fs[i].names
           [] OTHER -> {} : i \in DOMAIN fs}
Windings(fs) ==
  SumFunction([i \in DOMAIN fs |->
                 IF fs[i].at \in {"unwind", "rewind"} THEN 1 + fs[i].within ELSE 0])
UsedExtents == ToSet(winders) \cup Names(frames)
          \cup UNION {Names(kept[s].k) \cup ToSet(kept[s].save) : s \in Place}
FreeExtents == Extent \ UsedExtents

Change(id, by) == entered' = [entered EXCEPT ![id] = @ + by]

-----------------------------------------------------------------------------

WindersInit ==
  /\ winders = <<>>
  /\ frames = <<>>
  /\ kept = [s \in Place |-> NoPlace]
  /\ entered = [e \in Extent |-> 0]

\* (in), to begin with
DynamicWind ==
  /\ Len(frames) < MaxWaiting
  /\ frames' = <<[at |-> "in"]>> \o frames
  /\ UNCHANGED <<winders, kept, entered>>

\* in has returned: the body is called
InReturns ==
  /\ frames # <<>> /\ frames[1].at = "in" /\ FreeExtents # {}
  /\ LET id == Min(FreeExtents) IN
       /\ winders' = <<id>> \o winders
       /\ frames' = <<[at |-> "body", id |-> id]>> \o Tail(frames)
       /\ Change(id, 1)
  /\ UNCHANGED kept

LeaveNot(ls) == ls    \* wrong: the extent stays on the list while its out runs
Leave(ls) == Tail(ls)
\* the body has returned: out is called, out of its extent
BodyReturns ==
  /\ frames # <<>> /\ frames[1].at = "body"
  /\ winders' = Leave(winders)
  /\ frames' = <<[at |-> "out"]>> \o Tail(frames)
  /\ Change(frames[1].id, -1)
  /\ UNCHANGED kept
OutReturns ==
  /\ frames # <<>> /\ frames[1].at = "out"
  /\ frames' = Tail(frames)
  /\ UNCHANGED <<winders, kept, entered>>

\* call/cc
KeepPlace == \E s \in Place :
  /\ kept' = [kept EXCEPT ![s] = [k |-> frames, save |-> winders]]
  /\ UNCHANGED <<winders, frames, entered>>

\* rewind*: its recursion runs from the outermost extent to be entered, the
\* one below ls, to new; then the continuation k is entered
RewindEarly(f, ls) == <<Head(f.new)>> \o ls    \* wrong: the extent joins the list before its in runs
Rewinding(f, ls) == ls
Rewind(f, ls, rest) ==
  IF ls = f.new
  THEN frames' = f.k /\ winders' = ls
  ELSE /\ winders' = Rewinding(f, ls)
       /\ frames' = <<[f EXCEPT !.at = "rewind",
                                !.ls = list_tail(f.new, Len(f.new) - Len(ls) - 1)]>> \o rest

\* unwind* and then rewind*
Wind(f, ls, rest) ==
  IF ls # f.tail
  THEN /\ winders' = Leave(ls)
       /\ frames' = <<[f EXCEPT !.ls = Tail(ls)]>> \o rest
       /\ Change(Head(ls), -1)
  ELSE Rewind(f, ls, rest) /\ UNCHANGED entered

\* a continuation is called: do-wind unless the list is the same
GoToPlace == \E s \in Place :
  /\ kept[s] # NoPlace
  /\ LET new == kept[s].save IN
     IF new = winders
     THEN frames' = kept[s].k /\ UNCHANGED <<winders, entered>>
     ELSE /\ Len(frames) < MaxWaiting
          /\ Windings(frames) + Windings(kept[s].k) < MaxWindings
          /\ Wind([at |-> "unwind", ls |-> winders, tail |-> CommonTail(new, winders),
                   new |-> new, from |-> winders, k |-> kept[s].k, names |-> Names(kept[s].k),
                   within |-> Windings(kept[s].k)],
                  winders, frames)
  /\ UNCHANGED kept

\* a thunk that do-wind called has returned
UnwindReturns ==
  /\ frames # <<>> /\ frames[1].at = "unwind"
  /\ Wind(frames[1], frames[1].ls, Tail(frames))
  /\ UNCHANGED kept
RewindReturns ==
  /\ frames # <<>> /\ frames[1].at = "rewind"
  /\ Rewind(frames[1], frames[1].ls, Tail(frames))
  /\ Change(Head(frames[1].ls), 1)
  /\ UNCHANGED kept

WindersNext ==
  \/ DynamicWind \/ InReturns \/ BodyReturns \/ OutReturns
  \/ KeepPlace \/ GoToPlace \/ UnwindReturns \/ RewindReturns

WindersSpec == WindersInit /\ [][WindersNext]_wvars

-----------------------------------------------------------------------------
(* Properties *)

\* The list is that of the extents of the code that runs, by what waits for
\* it: whatever was thrown, from bodies and from thunks, the list is neither
\* ahead of nor behind the frames.
Extents(fs) ==
  LET from[i \in 1 .. Len(fs) + 1] ==
        IF i > Len(fs) THEN <<>>
        ELSE CASE fs[i].at = "body" -> <<fs[i].id>> \o from[i + 1]
               [] fs[i].at = "unwind" -> fs[i].ls
               [] fs[i].at = "rewind" -> Tail(fs[i].ls)
               [] OTHER -> from[i + 1]
  IN  from[1]
WindersFollow == winders = Extents(frames)

\* in and out alternate: an extent on the list has been entered once more
\* than left, any other as often; so no out begins before an in is complete,
\* and no thunk runs twice in a row.
InOutAlternate ==
  /\ \A e \in Extent : entered[e] = IF e \in ToSet(winders) THEN 1 ELSE 0
  /\ IsInjective(winders)

\* A throw leaves and enters nothing that both places are in: while it runs
\* a thunk, and whatever that does short of throwing elsewhere, the extents
\* of both places stay entered.
SharedExtentsStay ==
  \A i \in DOMAIN frames :
    (frames[i].at \in {"unwind", "rewind"}
       /\ \A j \in 1 .. i - 1 : frames[j].at \notin {"unwind", "rewind"})
    => ToSet(frames[i].new) \cap ToSet(frames[i].from) \subseteq ToSet(winders)

=============================================================================
