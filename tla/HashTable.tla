------------------------------ MODULE HashTable ------------------------------
(***************************************************************************)
(* Hash tables of eq? keys (src/scheme/ikarus.hash-tables.ss) and what the *)
(* collector does for them (src/src/ikarus-collect.c, the tcbuckets of     *)
(* add_object and gc_add_tconcs).                                          *)
(*                                                                         *)
(* A key hashes to its address.  When the collector copies a bucket whose  *)
(* key moves, it puts the bucket on the tconc of its table, and a lookup   *)
(* that fails takes buckets off the tconc and adds them anew until it      *)
(* finds the key.  Collections may come wherever the table allocates: for  *)
(* a new bucket and for a larger vector.                                   *)
(***************************************************************************)
EXTENDS Integers, Sequences, FiniteSets, SequencesExt, FiniteSetsExt, Lists

CONSTANTS
  Keys,        \* objects used as keys; the program always refers to them
  FirstSize,   \* the length of the first vector, a power of two (32)
  LastSize,    \* the addresses, of which a table uses the low bits
  TopGen       \* the oldest generation

VARIABLES
  vector,      \* hasht-vec: lists of buckets
  count,       \* hasht-count
  tconc,       \* hasht-tc: buckets in order
  buckets,     \* the buckets that are in the table or on the tconc
  address,     \* pointer-value of each key
  keyGen,      \* the generation of each key
  doing,       \* the operation under way: none, adding a key, or enlarging
  stored       \* the keys that the table is to hold

ASSUME HashTableAssumption ==
  /\ IsFiniteSet(Keys)
  /\ FirstSize \in Nat \ {0} /\ LastSize \in Nat \ {0} /\ TopGen \in Nat

hvars == <<vector, count, tconc, buckets, address, keyGen, doing, stored>>

Gens == 0 .. TopGen
Address == 0 .. LastSize - 1
Bucket == 1 .. 2 * Cardinality(Keys)
\* tracked: the first word is the tconc of the table, not the length of a vector;
\* linked: tcbucket-next is not #f
Buckets == [key : Keys, gen : Gens, tracked : BOOLEAN, linked : BOOLEAN]
Idle == [op |-> "none"]

TheTable == [vec |-> vector, tc |-> tconc, bs |-> buckets]
VectorSize(v) == Cardinality(DOMAIN v)
EmptyVector(n) == [i \in 0 .. n - 1 |-> << >>]
ListOf(v, x) == address[x] % VectorSize(v)

HashTableInit ==
  /\ vector = EmptyVector(FirstSize) /\ count = 0 /\ tconc = << >>
  /\ buckets = << >>
  /\ address \in [Keys -> Address]
  /\ keyGen \in [Keys -> Gens]
  /\ doing = Idle /\ stored = {}

-----------------------------------------------------------------------------
(* Lookup *)

Unlink(v, b) == [i \in DOMAIN v |-> Only(v[i], ToSet(v[i]) \ {b})]

\* re-add!
ReAdd(t, b) ==
  LET v == Unlink(t.vec, b)
  IN [t EXCEPT !.vec = [v EXCEPT ![ListOf(v, t.bs[b].key)] = <<b>> \o @], !.bs[b].tracked = TRUE]

\* direct-lookup: the bucket of x in the list x hashes to, if any
Direct(t, x) ==
  LET list == t.vec[ListOf(t.vec, x)] IN Only(list, {b \in ToSet(list) : t.bs[b].key = x})

\* rehash-lookup: buckets come off the tconc up to the one of x
RehashLookup(t, x) ==
  LET Next(u) ==
        LET b == Head(u.tc)
            popped == [u EXCEPT !.tc = Tail(@)]
        IN IF popped.bs[b].linked
           THEN [found |-> IF u.bs[b].key = x THEN <<b>> ELSE << >>, table |-> ReAdd(popped, b)]
           ELSE [found |-> << >>, table |-> popped]
      after[i \in 0 .. Len(t.tc)] ==
        IF i = 0 THEN [found |-> << >>, table |-> t]
        ELSE IF after[i - 1].found # << >> THEN after[i - 1] ELSE Next(after[i - 1].table)
  IN after[Len(t.tc)]

\* get-bucket, and the lookup of put-hash!
GetBucket(t, x) ==
  IF Direct(t, x) # << >> THEN [found |-> Direct(t, x), table |-> t] ELSE RehashLookup(t, x)

\* what neither a list nor the tconc refers to is garbage
Kept(t) ==
  LET used == (UNION {ToSet(t.vec[i]) : i \in DOMAIN t.vec}) \cup ToSet(t.tc)
  IN [b \in DOMAIN t.bs \cap used |-> t.bs[b]]
SetHashTable(t) == vector' = t.vec /\ tconc' = t.tc /\ buckets' = Kept(t)

\* hashtable-ref and hashtable-contains?
RefKey(x) ==
  /\ doing = Idle
  /\ SetHashTable(GetBucket(TheTable, x).table)
  /\ UNCHANGED <<count, address, keyGen, doing, stored>>

-----------------------------------------------------------------------------
(* Change *)

\* put-hash! up to the allocation of a bucket; pv is pointer-value at its start
PutKey(x) ==
  /\ doing = Idle
  /\ LET g == GetBucket(TheTable, x)
     IN /\ SetHashTable(g.table)
        /\ doing' = IF g.found # << >> THEN Idle ELSE [op |-> "adding", key |-> x, pv |-> address[x]]
  /\ UNCHANGED <<count, address, keyGen, stored>>

AddressFirst(x, pv) == pv   \* wrong: a collection may have moved the key
\* the address by which put-hash! adds the new bucket
AddressNow(x, pv) == address[x]

\* put-hash! from the new bucket on
FinishPut ==
  /\ doing.op = "adding"
  /\ LET b == Min(Bucket \ DOMAIN buckets)
         slot == AddressNow(doing.key, doing.pv) % VectorSize(vector)
         new == [key |-> doing.key, gen |-> 0, tracked |-> TRUE, linked |-> TRUE]
     IN /\ vector' = [vector EXCEPT ![slot] = <<b>> \o @]
        /\ buckets' = [c \in DOMAIN buckets \cup {b} |-> IF c = b THEN new ELSE buckets[c]]
  /\ count' = count + 1
  /\ stored' = stored \cup {doing.key}
  /\ doing' = IF count > VectorSize(vector) THEN [op |-> "enlarging"] ELSE Idle
  /\ UNCHANGED <<tconc, address, keyGen>>

\* enlarge-table, once the larger vector is made
EnlargeTable ==
  /\ doing.op = "enlarging"
  /\ LET larger == EmptyVector(2 * VectorSize(vector))
     IN vector' = Spread(Joined(vector), larger, [b \in DOMAIN buckets |-> ListOf(larger, buckets[b].key)])
  /\ doing' = Idle
  /\ UNCHANGED <<count, tconc, buckets, address, keyGen, stored>>

RemovedLinked(t, b) == [t EXCEPT !.vec = Unlink(@, b)]   \* wrong: it can be added anew
\* unlink! of del-hash
Removed(t, b) == [t EXCEPT !.vec = Unlink(@, b), !.bs[b].linked = FALSE]

\* hashtable-delete!
DeleteKey(x) ==
  /\ doing = Idle
  /\ LET g == GetBucket(TheTable, x)
     IN \/ g.found = << >> /\ SetHashTable(g.table) /\ UNCHANGED count
        \/ g.found # << >> /\ SetHashTable(Removed(g.table, Head(g.found))) /\ count' = count - 1
  /\ stored' = stored \ {x}
  /\ UNCHANGED <<address, keyGen, doing>>

\* hashtable-clear!: with a tconc of its own for what is added from now on
ClearTable ==
  /\ doing = Idle
  /\ SetHashTable([vec |-> EmptyVector(VectorSize(vector)), tc |-> << >>, bs |-> buckets])
  /\ count' = 0 /\ stored' = {}
  /\ UNCHANGED <<address, keyGen, doing>>

-----------------------------------------------------------------------------
(* Collection *)

\* the buckets that add_object finds to be tcbuckets, whose keys will be moved
Pushed(g) == {b \in DOMAIN buckets : buckets[b].gen <= g /\ buckets[b].tracked /\ keyGen[buckets[b].key] <= g}

\* a collection of the generations up to g: keys and buckets move, and gc_add_tconcs
\* puts the buckets on the tconc in the order in which they were copied
CollectTable(g) ==
  LET MovedOn(h) == IF h <= g THEN Min({g + 1, TopGen}) ELSE h
  IN /\ \E a \in [Keys -> Address] :
          /\ \A x \in Keys : keyGen[x] > g => a[x] = address[x]
          /\ address' = a
     /\ keyGen' = [x \in Keys |-> MovedOn(keyGen[x])]
     /\ \E order \in SetToSeqs(Pushed(g)) : tconc' = tconc \o order
     /\ buckets' = [b \in DOMAIN buckets |->
                      [buckets[b] EXCEPT !.gen = MovedOn(@), !.tracked = @ /\ b \notin Pushed(g)]]
     /\ UNCHANGED <<vector, count, doing, stored>>

HashTableNext ==
  \/ FinishPut \/ EnlargeTable \/ ClearTable
  \/ \E x \in Keys : RefKey(x) \/ PutKey(x) \/ DeleteKey(x)
  \/ \E g \in Gens : CollectTable(g)

HashTableSpec == HashTableInit /\ [][HashTableNext]_hvars

-----------------------------------------------------------------------------
(* Properties *)

\* hashtable-ref finds a key exactly if it has been put in the table and not taken out
\* since, wherever collections have moved it, however often, and whenever they came.
KeysFound ==
  doing = Idle => \A x \in Keys : (GetBucket(TheTable, x).found # << >>) <=> x \in stored

\* Each key has one bucket in the lists, and hasht-count is their number: get-keys and
\* get-entries walk the lists until they have met that many.
CountedOnce ==
  LET linked == UNION {ToSet(vector[i]) : i \in DOMAIN vector}
  IN /\ count = Len(Joined(vector))
     /\ {buckets[b].key : b \in linked} = stored
     /\ Cardinality(stored) = count

=============================================================================
