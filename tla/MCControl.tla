------------------------------ MODULE MCControl ------------------------------
(* Instances of Stack and Winders for TLC, of which a behaviour is one.      *)
(* Stack is run twice: with continuations and one foreign call at a time,    *)
(* and, without the former, with foreign calls within callbacks.             *)
EXTENDS Stack, Winders

VARIABLE unit   \* "continuations", "callbacks" or "winders"

Sizes == [plain |-> 1, apply |-> 0]
MCResults == {<<1>>, <<1, 2>>}
MCIds == 1 .. 8

MCInit == unit \in {"continuations", "callbacks", "winders"} /\ StackInit /\ WindersInit
MCNext ==
  /\ UNCHANGED unit
  /\ \/ /\ unit = "continuations"
        /\ StackNext
        /\ Len(Waiting') <= 2 /\ ForeignDepth' <= 1
        /\ UNCHANGED wvars
     \/ /\ unit = "callbacks"
        /\ StackNext
        /\ UNCHANGED <<slots, wvars>>
     \/ /\ unit = "winders"
        /\ WindersNext
        /\ UNCHANGED svars
MCSpec == MCInit /\ [][MCNext]_<<svars, wvars, unit>>

=============================================================================
