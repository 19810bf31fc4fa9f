--------------------------------- MODULE Lists ---------------------------------
(* The loops over lists, and over vectors of lists, of the run time's tables, *)
(* as recursive functions, about which there can be proofs.  The lists of a   *)
(* vector are numbered from 0.                                                *)
EXTENDS Integers, Sequences, FiniteSets

\* the elements of s that are in S, in the order they have there
Only(s, S) ==
  LET from[i \in 0 .. Len(s)] ==
        IF i = 0 THEN << >> ELSE IF s[i] \in S THEN Append(from[i - 1], s[i]) ELSE from[i - 1]
  IN from[Len(s)]

\* the lists of v, one after the other
Joined(v) ==
  LET upto[i \in 0 .. Cardinality(DOMAIN v)] == IF i = 0 THEN << >> ELSE upto[i - 1] \o v[i - 1]
  IN upto[Cardinality(DOMAIN v)]

\* v, after each element of s in turn was put at the front of the list of its place
Spread(s, v, place) ==
  LET after[k \in 0 .. Len(s)] ==
        IF k = 0 THEN v ELSE [after[k - 1] EXCEPT ![place[s[k]]] = <<s[k]>> \o @]
  IN after[Len(s)]

================================================================================
