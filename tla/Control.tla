------------------------------- MODULE Control -------------------------------
(***************************************************************************)
(* What the control stack of Ikarus promises, whatever it is made of: the  *)
(* frames that wait for a value form a list, the innermost first.  A call  *)
(* adds a frame, a return takes one away and hands it the values, call/cc  *)
(* keeps the list as it is and a continuation puts it back.                *)
(*                                                                         *)
(* A foreign call adds a mark to the list: C waits there, or runs.  From C *)
(* a callback runs Scheme above the mark and returns to it.  A             *)
(* continuation captured above one mark and invoked above another would    *)
(* have to unwind or revive C frames; the code does not, and nothing is    *)
(* promised of a program that does it ("across").                          *)
(*                                                                         *)
(* The detailed specification is module Stack.                             *)
(***************************************************************************)
EXTENDS Integers, Sequences

CONSTANTS
  Frame,    \* frames, with their return points and what they hold
  Results,  \* the values returned together, a set of sequences
  Mark,     \* names of foreign calls, none of them a frame
  Slot,     \* places where a program keeps a continuation
  NoCont    \* what a slot holds at first

VARIABLES
  ctl,      \* the frames and marks that wait, innermost first
  saved,    \* the continuation each slot holds, or none
  where,    \* who runs: "scheme", "returning", "c", or how the program ended
  got       \* the values on their way

cvars == <<ctl, saved, where, got>>

\* the innermost mark, if there is one
Boundary(c) == {c[i] : i \in {j \in DOMAIN c : c[j] \in Mark /\ \A h \in 1 .. j - 1 : c[h] \notin Mark}}

CtlInit ==
  /\ ctl = <<>>
  /\ saved = [s \in Slot |-> NoCont]
  /\ where = "scheme"
  /\ got = <<>>

\* a procedure calls another, which will return to frame f
Call == \E f \in Frame :
  /\ where = "scheme"
  /\ ctl' = <<f>> \o ctl
  /\ UNCHANGED <<saved, where, got>>

\* values are on their way to the innermost frame ...
Return == \E vs \in Results :
  /\ where = "scheme"
  /\ where' = "returning"
  /\ got' = vs
  /\ UNCHANGED <<ctl, saved>>
\* ... and arrive: at a frame, at C (one value, or none), or at the end
Arrive ==
  /\ where = "returning"
  /\ IF ctl = <<>> THEN where' = "done" /\ UNCHANGED ctl
     ELSE IF Head(ctl) \in Mark THEN where' = "c" /\ UNCHANGED ctl
     ELSE where' = "scheme" /\ ctl' = Tail(ctl)
  /\ got' = <<>>
  /\ UNCHANGED saved

Capture == \E s \in Slot :
  /\ where = "scheme"
  /\ saved' = [saved EXCEPT ![s] = ctl]
  /\ UNCHANGED <<ctl, where, got>>
Throw == \E s \in Slot, vs \in Results :
  /\ where = "scheme" /\ saved[s] # NoCont
  /\ IF Boundary(saved[s]) = Boundary(ctl)
     THEN ctl' = saved[s] /\ where' = "returning" /\ got' = vs
     ELSE where' = "across" /\ UNCHANGED <<ctl, got>>
  /\ UNCHANGED saved

ForeignCall == \E f \in Frame, m \in Mark :
  /\ where = "scheme"
  /\ \A c \in {ctl} \cup {saved[s] : s \in {t \in Slot : saved[t] # NoCont}} :
       \A i \in DOMAIN c : c[i] # m
  /\ ctl' = <<m, f>> \o ctl
  /\ where' = "c"
  /\ UNCHANGED <<saved, got>>
CallBack ==
  /\ where = "c"
  /\ where' = "scheme"
  /\ UNCHANGED <<ctl, saved, got>>
ForeignReturn == \E vs \in {rs \in Results : Len(rs) = 1} :
  /\ where = "c"
  /\ ctl' = Tail(ctl)
  /\ where' = "returning"
  /\ got' = vs
  /\ UNCHANGED saved
\* the process may exit where a foreign call converts a value
Die == where = "c" /\ where' = "dead" /\ UNCHANGED <<ctl, saved, got>>

CtlNext ==
  \/ Call \/ Return \/ Arrive
  \/ Capture \/ Throw
  \/ ForeignCall \/ CallBack \/ ForeignReturn \/ Die

CtlSpec == CtlInit /\ [][CtlNext]_cvars

=============================================================================
