------------------------- MODULE CollectorInvariant -------------------------
(***************************************************************************)
(* The inductive invariant of Collector: what ik_collect relies on between *)
(* any two of its steps.                                                   *)
(*                                                                         *)
(* While a collection runs the pages fall into three parts: those it       *)
(* evacuates ("left"), those it fills (new) and the older ones it keeps.   *)
(* The heart of the invariant is that a location outside the left pages    *)
(* which still leads into them is Pending: some later phase is bound to    *)
(* visit it.  Between collections nothing is left, and the remembered set  *)
(* is what makes the next collection start with that property.             *)
(***************************************************************************)
EXTENDS Collector

\* the phases in which the pages of the collected generations are being left
Tracing == {"scan_dirty_pages", "roots", "collect_loop", "guardians",
            "final_list", "hold_list", "deallocate_unused_pages"}

\* the phases with the old heap pages still mapped and everything else gone
Settling == {"fix_new_pages", "gc_finalize_guardians"}

\* the page's live objects are to be, or have been, moved elsewhere
Left(p) ==
  \/ phase \in Tracing /\ Collected(p)
  \/ phase \in Settling /\ type[p] = "mainheap"

LeftLoc(l) == l \in Field /\ Left(PageOf[l[1]])

\* l leads to an object on a page that is left
Stale(l) == ref[l] \in Addr /\ Left(PageOf[ref[l]])

\* scan_dirty_pages has still to finish with the card of l
CardAhead(l) ==
  /\ phase = "scan_dirty_pages"
  /\ PageOf[l[1]] \in scan \cup page
  /\ IsDirty(PageOf[l[1]], CardOf[l[1]])

\* entries handle_guardians has still to sort, deliver or hold
Unsorted == pend_hold \cup pend_final \cup UNION {protected[g] : g \in 0 .. collect_gen}

\* a later step of the collection visits l
Pending(l) ==
  \/ l \in todo \cup queue
  \/ l \in RootLoc /\ phase = "scan_dirty_pages"
  \/ l \in Field /\ CardAhead(l) /\ PageOf[l[1]] \in scan
  \/ /\ l \in Field /\ IsWeakCar(l) /\ new[PageOf[l[1]]]
     /\ phase \notin {"deallocate_unused_pages", "fix_new_pages"}
  \/ /\ l \in EntriesOf(Unsorted)
     /\ phase \in {"scan_dirty_pages", "roots", "collect_loop", "guardians", "final_list"}

-----------------------------------------------------------------------------
(* Pages *)

\* Free addresses hold nothing, holes have no objects, the main heap is
\* generation 0, a large vector is alone on its page.
PagesInv ==
  /\ \A a \in Addr : Free(a) => Car(a) = Nil /\ Cdr(a) = Nil
  /\ \A a \in Addr : Allocated(a) => type[PageOf[a]] # "hole"
  /\ \A p \in Page : type[p] = "mainheap" => gen[p] = 0 /\ ~new[p]
  /\ \A a, b \in Addr :
       Allocated(a) /\ Allocated(b) /\ PageOf[a] = PageOf[b] /\ type[PageOf[a]] = "large"
         => a = b

\* New pages exist only during a collection, in the target generation.
NewInv ==
  \A p \in Page : new[p] => /\ phase \in Tracing \cup {"fix_new_pages"}
                            /\ gen[p] = NextGen(collect_gen)

\* After deallocate_unused_pages only the main heap is left.
UnmappedInv ==
  phase = "fix_new_pages" =>
    \A p \in Page : type[p] \in Scannable => ~Collected(p)

-----------------------------------------------------------------------------
(* The phases *)

PhaseInv ==
  /\ phase # "scan_dirty_pages" => scan = {} /\ page = {}
  /\ \A p, q \in page : p = q
  /\ \A p \in page : ~Collected(p) /\ p \notin scan
  /\ \A l \in queue : l \in Field /\ new[PageOf[l[1]]]
  /\ phase \in {"mutator", "deallocate_unused_pages"} \cup Settling => queue = {}
  /\ phase = "guardians" => queue = {}
  /\ \A l \in todo :
       \/ phase = "scan_dirty_pages" /\ l \in Field /\ PageOf[l[1]] \in page /\ CardAhead(l)
       \/ phase = "roots" /\ l \in RootLoc
       \/ phase = "final_list" /\ l \in EntriesOf(forward_list)
       \/ phase = "hold_list" /\ l \in EntriesOf(protected[HoldGen])

-----------------------------------------------------------------------------
(* Pointers *)

\* Forwarding pointers are found only on pages that are left, and lead to
\* new pages.
ForwardInv ==
  /\ \A l \in Loc : ref[l] = Forward => l \in Field /\ l[2] = "car" /\ LeftLoc(l)
  /\ phase \in Tracing =>
       \A a \in Addr : Forwarded(a) => /\ Cdr(a) \in Addr /\ new[PageOf[Cdr(a)]]
                                       /\ type[PageOf[a]] # "large"

\* Every pointer leads to an object; those on pages that are left may
\* dangle once unused pages are unmapped.
ValidInv ==
  \A l \in Loc : ref[l] \in Addr /\ (phase \in Settling => ~LeftLoc(l)) => Allocated(ref[l])

StaleInv == \A l \in Loc : Stale(l) /\ ~LeftLoc(l) => Pending(l)

RememberedInv ==
  \A l \in Field :
    LET a == l[1] IN
    /\ ref[l] \in Addr /\ GenOf(ref[l]) < GenOf(a)
    /\ ~Left(PageOf[a]) /\ ~new[PageOf[a]]
    => GenOf(ref[l]) \in dirty[PageOf[a]][CardOf[a]] \/ CardAhead(l)

\* An object has one address, but for the old ones its copies were made from.
CopyInv ==
  \A a, b \in Addr :
    Allocated(a) /\ object[a] = object[b] /\ ~Forwarded(a) /\ ~Forwarded(b) => a = b

-----------------------------------------------------------------------------
(* Guardians *)

\* The pair of e is not in a generation older than those collected.
NotOlder(e) ==
  LET x == ref[<<e, "entry">>] IN
  x \in Addr /\ (Collected(PageOf[x]) \/ new[PageOf[x]])

ListsInv ==
  /\ \A g, h \in Gen : g # h => protected[g] \cap protected[h] = {}
  /\ Registered \cap (pend_hold \cup pend_final \cup forward_list) = {}
  /\ pend_hold \cap pend_final = {}
  /\ (pend_hold \cup pend_final) \cap forward_list = {}
  /\ \A e \in Entry : e \notin Registered \cup pend_hold \cup pend_final \cup forward_list
       => ref[<<e, "entry">>] = Nil
  /\ phase \notin {"guardians", "final_list"} => pend_hold = {} /\ pend_final = {}
  /\ phase \in {"mutator", "scan_dirty_pages", "roots", "collect_loop"} => forward_list = {}
  /\ phase \in {"guardians", "final_list"} => \A g \in Gen : g <= collect_gen => protected[g] = {}
  /\ phase = "hold_list" =>
       \A g \in Gen : g <= collect_gen /\ g # HoldGen => protected[g] = {}

EntriesInv ==
  /\ \A g \in Gen : \A e \in protected[g] :
       LET x == ref[<<e, "entry">>] IN
       /\ x \in Addr
       /\ \/ GenOf(x) = g
          \/ /\ NotOlder(e) /\ phase \in Tracing \ {"deallocate_unused_pages"}
             /\ g <= collect_gen \/ (g = HoldGen /\ phase = "hold_list")
  /\ phase \in Tracing => \A e \in pend_hold \cup pend_final \cup forward_list : NotOlder(e)

-----------------------------------------------------------------------------

\* The invariant of the collector and the program it serves.
IInv ==
  /\ TypeOK
  /\ PagesInv /\ NewInv /\ UnmappedInv
  /\ PhaseInv
  /\ ForwardInv /\ ValidInv /\ StaleInv /\ RememberedInv
  /\ CopyInv /\ WeakPairsApart
  /\ ListsInv /\ EntriesInv

=============================================================================
