----------------------------- MODULE Reachability -----------------------------
(* What there is to be reached in a graph, as a recursive function, about    *)
(* which there can be proofs.                                                *)
EXTENDS FiniteSets

\* the nodes one comes to from those in S, if next[x] are those that x leads to
Reach(S, next) ==
  LET Close[T \in SUBSET DOMAIN next] ==
        LET more == (UNION {next[x] : x \in T}) \cap DOMAIN next
        IN  IF more \subseteq T THEN T ELSE Close[T \cup more]
  IN  Close[S \cap DOMAIN next]

===============================================================================
