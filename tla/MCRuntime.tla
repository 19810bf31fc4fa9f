----------------------------- MODULE MCRuntime -----------------------------
(* Instances of parts of the run time for TLC, of which a behaviour is one.  *)
(* They share no state.                                                      *)
EXTENDS Code, Pages, Symbols, HashTable, Fasl, Ports, Libraries, Hooks

CONSTANT Units   \* those that are run
VARIABLE unit

others == <<ovars, lvars, gvars>>    \* variables whose first states are few
rvars == <<cvars, pvars, yvars, uvars, hvars, avars, others, unit>>

\* two names in a list of the first table, and apart in the second
MCHash == [n \in Names |-> CASE n = "a" -> 0 [] n = "b" -> 4 [] n = "c" -> 1]
MCShapes ==
  {<<"pair", "pair", "pair">>,
   <<"vector", "pair", "string">>,
   <<"pair", "pair", "symbol", "string">>,
   <<"procedure", "code", "vector", "pair">>,
   <<"vector", "procedure", "code", "vector">>,
   <<"pair", "code", "empty", "code", "empty">>,
   <<"pair", "rtd", "gensym", "symbol", "string", "string">>}

MCWidths == <<1, 3, 2, 2>>
\* a refers to c, which only b imports, and its compiled file tells by c whether it is
\* stale; b needs c for a transformer alone; d and e import each other
Lib(imp, vis, inv, guard) == [imp |-> imp, vis |-> vis, inv |-> inv, guard |-> guard]
MCFile == [l \in Library |->
  CASE l = "a" -> Lib(<<"b">>, << >>, <<"c", "b">>, <<"c">>)
    [] l = "b" -> Lib(<<"c">>, <<"c">>, << >>, << >>)
    [] l = "c" -> Lib(<< >>, << >>, << >>, << >>)
    [] l = "d" -> Lib(<<"c", "e">>, << >>, <<"e">>, << >>)
    [] l = "e" -> Lib(<<"d">>, << >>, << >>, << >>)]

\* the instances that are not run stay in a first state
MCInit ==
  /\ unit \in Units
  /\ IF unit = "code" THEN CodeInit
     ELSE /\ large = FALSE /\ pageGen = 0 /\ pageDirty = << >> /\ start = << >> /\ vec = << >>
          /\ obj = << >> /\ annotation = << >> /\ lost = {}
  /\ IF unit = "pages" THEN PagesInit
     ELSE m = (CHOOSE x \in FirstPcbs : TRUE) /\ gc = Off /\ pageOps = 0
  /\ SymbolsInit /\ GensymsInit /\ PortsInit /\ LibrariesInit
  /\ IF unit = "hashtable" THEN HashTableInit
     ELSE /\ vector = EmptyVector(FirstSize) /\ count = 0 /\ tconc = << >> /\ buckets = << >>
          /\ address = [x \in Keys |-> 0] /\ keyGen = [x \in Keys |-> 0]
          /\ doing = Idle /\ stored = {}
  /\ IF unit = "hooks" THEN HooksInit
     ELSE /\ room = 0 /\ collectKey = NoKey /\ hooked = FALSE /\ calls = << >>
          /\ collections = 0 /\ misled = FALSE /\ missed = FALSE
  /\ IF unit = "fasl" THEN FaslInit
     ELSE graph = << >> /\ reader = "C" /\ tokens = << >> /\ loaded = ReaderInit /\ results = << >>

MCNext ==
  /\ UNCHANGED unit
  /\ \/ unit = "code" /\ CodeNext /\ UNCHANGED <<pvars, yvars, uvars, hvars, avars, others>>
     \/ unit = "pages" /\ PagesNext /\ UNCHANGED <<cvars, yvars, uvars, hvars, avars, others>>
     \/ unit = "symbols" /\ SymbolsNext /\ UNCHANGED <<cvars, pvars, uvars, hvars, avars, others>>
     \/ unit = "gensyms" /\ GensymsNext /\ UNCHANGED <<cvars, pvars, yvars, hvars, avars, others>>
     \/ unit = "hashtable" /\ HashTableNext /\ UNCHANGED <<cvars, pvars, yvars, uvars, avars, others>>
     \/ unit = "fasl" /\ FaslNext /\ UNCHANGED <<cvars, pvars, yvars, uvars, hvars, others>>
     \/ /\ UNCHANGED <<cvars, pvars, yvars, uvars, hvars, avars>>
        /\ \/ unit = "ports" /\ PortsNext /\ UNCHANGED <<lvars, gvars>>
           \/ unit = "libraries" /\ LibrariesNext /\ UNCHANGED <<ovars, gvars>>
           \/ unit = "hooks" /\ HooksNext /\ UNCHANGED <<ovars, lvars>>
MCSpec == MCInit /\ [][MCNext]_rvars

=============================================================================
