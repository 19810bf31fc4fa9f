------------------------------- MODULE Symbols -------------------------------
(***************************************************************************)
(* Symbols (src/src/ikarus-symbol-table.c,                                 *)
(* src/scheme/ikarus.symbol-table.ss, ikarus.symbols.ss).                  *)
(*                                                                         *)
(* While the boot files are loaded the table of symbols is a C vector of   *)
(* lists.  initialize-symbol-table! moves it to a Scheme table whose lists *)
(* are made of weak pairs, and whose guardian hands the symbols that       *)
(* nothing else refers to back to string->symbol, which drops those that   *)
(* have neither a value nor properties.  A collection may come between any *)
(* two steps of string->symbol that allocate.                              *)
(*                                                                         *)
(* Gensyms are in a C table of their own, by their unique strings, from    *)
(* the moment one is written or read; they stay there.                     *)
(***************************************************************************)
EXTENDS Integers, Sequences, FiniteSets, SequencesExt, FiniteSetsExt, Lists

CONSTANTS
  Names,         \* strings
  Hash,          \* their hash
  MaxSymbols,    \* symbols that exist at a time
  CBuckets,      \* NUM_OF_BUCKETS, a power of two
  FirstLength,   \* the length of the first Scheme table, a power of two
  MaxGensyms     \* gensyms made

VARIABLES
  ctable,        \* the C table: lists of symbols, or Gone once it is handed over
  chains,        \* the Scheme table: lists of weak references, Broken or not
  len,           \* symbol-table-length
  guarded,       \* symbols registered with the guardian of the table
  queue,         \* symbols the guardian is to deliver, in order
  nameOf,        \* the name of each symbol, or NoName if there is no such symbol
  valued,        \* symbols with a value or a property
  seeking,       \* the symbol string->symbol is about to return, or Broken
  held,          \* symbols the program refers to
  weakly,        \* symbols the program refers to through weak pairs of its own
  recovered      \* symbols taken from such a pair after the guardian let go of them

VARIABLES
  gtable,        \* the table of gensyms: lists of gensyms
  ustring        \* the unique string of each: one of Names, Unnamed as yet, or NoGensym

NoName == "none"
Unnamed == "unnamed"
NoGensym == "no gensym"

ASSUME SymbolsAssumption ==
  /\ Names \cap {NoName, Unnamed, NoGensym} = {} /\ Hash \in [Names -> Nat]
  /\ MaxSymbols \in Nat /\ MaxGensyms \in Nat
  /\ CBuckets \in Nat \ {0} /\ FirstLength \in Nat \ {0}

uvars == <<gtable, ustring>>
yvars == <<ctable, chains, len, guarded, queue, nameOf, valued, seeking, held, weakly, recovered>>

Symbol == 1 .. MaxSymbols
Broken == 0
Gone == << >>
Index(n, size) == Hash[n] % size
ChainCount(v) == Cardinality(DOMAIN v)
Live == {s \in Symbol : nameOf[s] # NoName}

SymbolsInit ==
  /\ ctable = [i \in 0 .. CBuckets - 1 |-> << >>]
  /\ chains = [i \in 0 .. FirstLength - 1 |-> << >>]
  /\ len = 0 /\ guarded = {} /\ queue = << >>
  /\ nameOf = [s \in Symbol |-> NoName]
  /\ valued = {} /\ seeking = Broken
  /\ held = {} /\ weakly = {} /\ recovered = {}

\* $make-symbol and ik_make_symbol: neither a value nor properties
NewSymbol == Min(Symbol \ Live)
Named(list, n) == Only(list, {s \in ToSet(list) : nameOf[s] = n})

-----------------------------------------------------------------------------
(* The C table *)

\* ikrt_string_to_symbol, intern_string
CIntern(n) ==
  /\ ctable # Gone
  /\ LET i == Index(n, CBuckets)
         found == Named(ctable[i], n)
     IN \/ found # << >> /\ held' = held \cup {Head(found)} /\ UNCHANGED <<ctable, nameOf>>
        \/ /\ found = << >> /\ Live # Symbol
           /\ ctable' = [ctable EXCEPT ![i] = <<NewSymbol>> \o @]
           /\ nameOf' = [nameOf EXCEPT ![NewSymbol] = n]
           /\ held' = held \cup {NewSymbol}
  /\ UNCHANGED <<chains, len, guarded, queue, valued, seeking, weakly, recovered>>

-----------------------------------------------------------------------------
(* The Scheme table *)

SymbolTable == [chains |-> chains, len |-> len, guarded |-> guarded]

\* extend-table: every pair is moved, in order, to the front of its new list
ExtendSymbolTable(v, names) ==
  LET n2 == 2 * ChainCount(v)
  IN Spread(Joined(v), [i \in 0 .. n2 - 1 |-> << >>], [s \in Symbol |-> Index(names[s], n2)])

\* intern-symbol!
InternSymbol(t, s, names) ==
  LET v == [t.chains EXCEPT ![Index(names[s], ChainCount(t.chains))] = <<s>> \o @]
  IN [chains |-> IF t.len + 1 = ChainCount(v) - 1 THEN ExtendSymbolTable(v, names) ELSE v,
      len |-> t.len + 1,
      guarded |-> t.guarded \cup {s}]

SetSymbolTable(t) == chains' = t.chains /\ len' = t.len /\ guarded' = t.guarded

\* the table after the symbols of the list s are interned, one after the other
Interned(s) ==
  LET after[k \in 0 .. Len(s)] ==
        IF k = 0 THEN SymbolTable ELSE InternSymbol(after[k - 1], s[k], nameOf)
  IN after[Len(s)]

\* initialize-symbol-table!, ikrt_get_symbol_table
Handover ==
  /\ ctable # Gone
  /\ SetSymbolTable(Interned(Joined(ctable)))
  /\ ctable' = Gone
  /\ UNCHANGED <<queue, nameOf, valued, seeking, held, weakly, recovered>>

\* string->symbol up to bleed-guardian: lookup, chain-lookup, intern
Lookup(n) ==
  /\ ctable = Gone /\ seeking = Broken
  /\ LET found == Named(chains[Index(n, ChainCount(chains))], n)
     IN \/ found # << >> /\ seeking' = Head(found) /\ UNCHANGED <<chains, len, guarded, nameOf>>
        \/ /\ found = << >> /\ Live # Symbol
           /\ seeking' = NewSymbol
           /\ nameOf' = [nameOf EXCEPT ![NewSymbol] = n]
           /\ SetSymbolTable(InternSymbol(SymbolTable, NewSymbol, nameOf'))
  /\ UNCHANGED <<ctable, queue, valued, held, weakly, recovered>>

DeadWhatever(s) == TRUE   \* wrong: values and properties are lost
\* dead?
Dead(s) == s \notin valued

\* unintern
Unintern(s) ==
  /\ chains' = [chains EXCEPT ![Index(nameOf[s], ChainCount(chains))] = Only(@, ToSet(@) \ {s})]
  /\ len' = len - 1
  /\ UNCHANGED guarded

ReguardNot(s) == UNCHANGED <<chains, len, guarded, recovered>>    \* wrong
Reguard(s) ==
  /\ guarded' = guarded \cup {s}
  /\ recovered' = recovered \ {s}
  /\ UNCHANGED <<chains, len>>

Return == held' = held \cup {seeking} /\ seeking' = Broken

\* one round of the loop of bleed-guardian
Bleed ==
  /\ seeking # Broken
  /\ \/ queue = << >> /\ Return /\ UNCHANGED <<chains, len, guarded, queue, recovered>>
     \/ /\ queue # << >>
        /\ queue' = Tail(queue)
        /\ \/ Head(queue) = seeking /\ Reguard(Head(queue)) /\ Return
           \/ /\ Head(queue) # seeking
              /\ IF Dead(Head(queue)) THEN Unintern(Head(queue)) /\ UNCHANGED recovered
                 ELSE Reguard(Head(queue))
              /\ UNCHANGED <<held, seeking>>
  /\ UNCHANGED <<ctable, nameOf, valued, weakly>>

-----------------------------------------------------------------------------
(* The program and the collector *)

Drop(s) ==
  /\ s \in held
  /\ held' = held \ {s}
  /\ UNCHANGED <<ctable, chains, len, guarded, queue, nameOf, valued, seeking, weakly, recovered>>

\* $set-symbol-value!, putprop, and back: remprop of the last property
SetValue(s) ==
  /\ s \in held
  /\ \/ s \notin valued /\ valued' = valued \cup {s}
     \/ s \in valued /\ valued' = valued \ {s}
  /\ UNCHANGED <<ctable, chains, len, guarded, queue, nameOf, seeking, held, weakly, recovered>>

\* a weak pair of the program, or a guardian of its own that has delivered; one at a
\* time, to bound the states
KeepWeakly(s) ==
  /\ s \in held /\ weakly = {}
  /\ weakly' = {s}
  /\ UNCHANGED <<ctable, chains, len, guarded, queue, nameOf, valued, seeking, held, recovered>>

TakeWeak(s) ==
  /\ s \in weakly \ held
  /\ held' = held \cup {s}
  /\ recovered' = IF ctable = Gone /\ s \notin guarded THEN recovered \cup {s} ELSE recovered
  /\ UNCHANGED <<ctable, chains, len, guarded, queue, nameOf, valued, seeking, weakly>>

InCTable(s) == ctable # Gone /\ \E i \in DOMAIN ctable : Contains(ctable[i], s)
Reached(s) == s \in held \/ s = seeking \/ Contains(queue, s) \/ InCTable(s)

\* a collection of the generation of a symbol that nothing refers to: the guardian
\* keeps it, or the weak references to it are broken
CollectSymbol(s) ==
  /\ s \in Live /\ ~Reached(s)
  /\ \/ /\ s \in guarded
        /\ guarded' = guarded \ {s}
        /\ queue' = Append(queue, s)
        /\ UNCHANGED <<chains, nameOf, valued, weakly, recovered>>
     \/ /\ s \notin guarded
        /\ chains' = [i \in DOMAIN chains |-> [j \in DOMAIN chains[i] |-> IF chains[i][j] = s THEN Broken ELSE chains[i][j]]]
        /\ nameOf' = [nameOf EXCEPT ![s] = NoName]
        /\ valued' = valued \ {s} /\ weakly' = weakly \ {s} /\ recovered' = recovered \ {s}
        /\ UNCHANGED <<guarded, queue>>
  /\ UNCHANGED <<ctable, len, seeking, held>>

SymbolsNext ==
  \/ Handover \/ Bleed
  \/ \E n \in Names : CIntern(n) \/ Lookup(n)
  \/ \E s \in Symbol : Drop(s) \/ SetValue(s) \/ KeepWeakly(s) \/ TakeWeak(s) \/ CollectSymbol(s)

SymbolsSpec == SymbolsInit /\ [][SymbolsNext]_yvars

-----------------------------------------------------------------------------
(* Gensyms *)

Gensym == 1 .. MaxGensyms
GensymsNamed(n) ==
  LET list == gtable[Index(n, CBuckets)] IN Only(list, {g \in ToSet(list) : ustring[g] = n})

GensymsInit ==
  /\ gtable = [i \in 0 .. CBuckets - 1 |-> << >>]
  /\ ustring = [g \in Gensym |-> NoGensym]

\* gensym
MakeGensym(g) ==
  /\ ustring[g] = NoGensym
  /\ ustring' = [ustring EXCEPT ![g] = Unnamed]
  /\ UNCHANGED gtable

\* gensym->unique-string, ikrt_intern_gensym: names are tried until one is not in the
\* table, where another session may have put it
NameGensym(g, n) ==
  /\ ustring[g] = Unnamed /\ GensymsNamed(n) = << >>
  /\ ustring' = [ustring EXCEPT ![g] = n]
  /\ gtable' = [gtable EXCEPT ![Index(n, CBuckets)] = <<g>> \o @]

\* ikrt_strings_to_gensym, intern_unique_string, for the reader and the fasl reader, of
\* a name that is not in the table
InternGensym(g, n) ==
  /\ ustring[g] = NoGensym /\ GensymsNamed(n) = << >>
  /\ ustring' = [ustring EXCEPT ![g] = n]
  /\ gtable' = [gtable EXCEPT ![Index(n, CBuckets)] = <<g>> \o @]

\* ikrt_unintern_gensym
UninternGensym(g) ==
  /\ ustring[g] \in Names
  /\ Contains(gtable[Index(ustring[g], CBuckets)], g)
  /\ ustring' = [ustring EXCEPT ![g] = Unnamed]
  /\ gtable' = [gtable EXCEPT ![Index(ustring[g], CBuckets)] = Only(@, ToSet(@) \ {g})]

GensymsNext ==
  \E g \in Gensym :
    \/ MakeGensym(g) \/ UninternGensym(g)
    \/ \E n \in Names : NameGensym(g, n) \/ InternGensym(g, n)

GensymsSpec == GensymsInit /\ [][GensymsNext]_uvars

-----------------------------------------------------------------------------
(* Properties *)

\* A list string->symbol searches holds no broken reference (symbol->string of one is
\* an error), no symbol under the wrong index and no two of a name, and
\* symbol-table-length is their number, whenever a collection comes
ChainsWhole ==
  /\ \A i \in DOMAIN chains : \A j \in DOMAIN chains[i] :
       /\ chains[i][j] # Broken
       /\ Index(nameOf[chains[i][j]], ChainCount(chains)) = i
       /\ \A k \in 1 .. j - 1 : nameOf[chains[i][k]] # nameOf[chains[i][j]]
  /\ ctable = Gone => len = Len(Joined(chains))

\* Reading the name of a symbol that the program refers to, or that has a value or
\* property, gives that symbol: string->symbol finds it, and of a gensym the unique
\* string finds it and no other.  The exception: a symbol that the program took from a
\* weak pair of its own when the guardian had let go of it is dropped all the same.
SymbolsKept ==
  /\ ctable = Gone =>
       \A s \in ((held \cup valued) \ recovered) :
         Contains(chains[Index(nameOf[s], ChainCount(chains))], s)
  /\ \A g \in Gensym : ustring[g] \in Names => GensymsNamed(ustring[g]) = <<g>>

=============================================================================
