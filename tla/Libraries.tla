------------------------------ MODULE Libraries ------------------------------
(***************************************************************************)
(* The library manager (src/scheme/psyntax.library-manager.ss), and what   *)
(* the expander (psyntax.expander.ss) asks of it: libraries are found and  *)
(* installed once, from source or from a compiled file, and their code is  *)
(* run when code that refers to them is run, or a transformer that does.   *)
(* All of this is recursive, and the code of a library may itself import   *)
(* and evaluate, and may handle the errors of that, while the library is   *)
(* between two states.                                                     *)
(*                                                                         *)
(* To import a library is not to need it: the expander collects those      *)
(* whose bindings the code refers to, the list inv* of the library, and    *)
(* those that transformers refer to, the list vis*.  A library may be      *)
(* imported and be in neither, and one that is not imported may be in      *)
(* both, when another exports its bindings or a macro brings them in.      *)
(***************************************************************************)
EXTENDS Integers, Sequences, FiniteSets, SequencesExt

CONSTANTS
  Library,       \* names of libraries
  File,          \* what expanding the file of each collects
  MaxImports     \* imports by programs and by code that is run

ASSUME LibrariesAssumption ==
  File \in [Library -> [imp : Seq(Library),     \* those that import forms name
                        vis : Seq(Library),     \* those that transformers refer to
                        inv : Seq(Library),     \* those that the expanded body refers to
                        guard : Seq(Library)]]  \* those that stale-when refers to

\* what is installed once l has found what it imports, and those what they import: the
\* libraries whose bindings its code, and what macros make of it, can refer to
Closed(S) == \A l \in S : ToSet(File[l].imp) \subseteq S
InReach ==
  [l \in Library |->
     {k \in Library : \A S \in SUBSET Library :
        ToSet(File[l].imp) \subseteq S /\ Closed(S) => k \in S}]

\* all that install-library looks up
Requires(l) == UNION {ToSet(File[l].imp), ToSet(File[l].vis), ToSet(File[l].inv), ToSet(File[l].guard)}
ASSUME ReferencesAssumption == \A l \in Library : Requires(l) \subseteq InReach[l]

VARIABLES
  collection,    \* current-library-collection
  invokeState,   \* library-invoke-state
  visitState,    \* library-visit-state
  stack,         \* the calls that have not returned
  starts,        \* how often the code of each library was started
  finished,      \* libraries whose code returned
  imported

lvars == <<collection, invokeState, visitState, stack, starts, finished, imported>>

\* the states of a library: a procedure to call, one of the two that raise, and #t
ToInvoke == "code"
Circular == "circularity detected"
Unreturned == "first invoke did not return"
Invoked == "invoked"

Frame(do, l, todo, was) == [do |-> do, lib |-> l, todo |-> todo, was |-> was]
Top == stack[Len(stack)]
AtCall(do) == stack # << >> /\ Top.do = do
Caller == SubSeq(stack, 1, Len(stack) - 1)

LibrariesInit ==
  /\ collection = {}
  /\ invokeState = [l \in Library |-> ToInvoke]
  /\ visitState = [l \in Library |-> ToInvoke]
  /\ stack = << >>
  /\ starts = [l \in Library |-> 0] /\ finished = {} /\ imported = 0

\* an error leaves every call up to code that may handle it, which is at the bottom or
\* the code of a library
Running == {"invoking", "visiting"}
RaiseFrom(s) ==
  \E n \in 0 .. Len(s) :
    /\ n > 0 => s[n].do \in Running
    /\ \A i \in n + 1 .. Len(s) : s[i].do \notin Running
    /\ stack' = SubSeq(s, 1, n)

-----------------------------------------------------------------------------
(* Finding *)

\* external-pending-libraries
FindPending == {stack[i].lib : i \in {j \in DOMAIN stack : stack[j].do \in {"find", "load"}}}

\* find-library-by-name of a library that is not installed: its file is read, and in a
\* compiled one (try-load-from-file) are all the libraries that must be found
Source(l) == Frame("find", l, File[l].imp, ToInvoke)
Compiled(l) == Frame("load", l, File[l].imp \o File[l].vis \o File[l].inv \o File[l].guard, ToInvoke)
FindExternal(l) ==
  \/ l \in FindPending /\ RaiseFrom(stack)
  \/ l \notin FindPending /\ \E f \in {Source(l), Compiled(l)} : stack' = Append(stack, f)

\* the libraries that a file names, one after the other
FindImport ==
  /\ AtCall("find") \/ AtCall("load")
  /\ Top.todo # << >>
  /\ IF Head(Top.todo) \in collection
     THEN stack' = Append(Caller, [Top EXCEPT !.todo = Tail(@)])
     ELSE FindExternal(Head(Top.todo))
  /\ UNCHANGED <<collection, invokeState, visitState, starts, finished, imported>>

\* a compiled file that is stale, or was made with another version of a library it names
Stale ==
  /\ AtCall("load")
  /\ stack' = Append(Caller, Source(Top.lib))
  /\ UNCHANGED <<collection, invokeState, visitState, starts, finished, imported>>

\* what is run before a file is installed: the transformers of one that is expanded, or
\* the guard of a compiled one, and what they refer to
RunFirst(f) == IF f.do = "find" THEN ToSet(File[f.lib].vis) ELSE ToSet(File[f.lib].guard)

\* install-library, when the file is expanded or loaded: find-library-by-spec/die fails,
\* the library is there by now, or it is installed
Install ==
  /\ AtCall("find") \/ AtCall("load")
  /\ Top.todo = << >> /\ \A l \in RunFirst(Top) : invokeState[l] = Invoked
  /\ \/ ~(Requires(Top.lib) \subseteq collection) /\ RaiseFrom(stack) /\ UNCHANGED collection
     \/ Top.lib \in collection /\ RaiseFrom(stack) /\ UNCHANGED collection
     \/ /\ Requires(Top.lib) \subseteq collection /\ Top.lib \notin collection
        /\ collection' = collection \cup {Top.lib}
        /\ stack' = Caller
  /\ UNCHANGED <<invokeState, visitState, starts, finished, imported>>

-----------------------------------------------------------------------------
(* Invoking and visiting *)

EnterInvoke(s, l) ==
  IF invokeState[l] = Invoked THEN stack' = s /\ UNCHANGED invokeState
  ELSE /\ invokeState' = [invokeState EXCEPT ![l] = Circular]
       /\ stack' = Append(s, Frame("invoke", l, File[l].inv, invokeState[l]))

EnterVisit(s, l) ==
  IF visitState[l] = Invoked THEN stack' = s /\ UNCHANGED visitState
  ELSE /\ visitState' = [visitState EXCEPT ![l] = Circular]
       /\ stack' = Append(s, Frame("visit", l, File[l].vis, visitState[l]))

\* invoke-library and visit-library, which both invoke what the code refers to
InvokeRequired ==
  /\ (AtCall("invoke") \/ AtCall("visit")) /\ Top.todo # << >>
  /\ EnterInvoke(Append(Caller, [Top EXCEPT !.todo = Tail(@)]), Head(Top.todo))
  /\ UNCHANGED <<collection, visitState, starts, finished, imported>>

WhileRunningInvoked == Invoked      \* wrong: the state says that the code has returned
WhileRunning == Unreturned

\* and then the procedure that was its state: its code, or one that raises
InvokeCode ==
  /\ AtCall("invoke") /\ Top.todo = << >>
  /\ invokeState' = [invokeState EXCEPT ![Top.lib] = WhileRunning]
  /\ \/ /\ Top.was = ToInvoke
        /\ stack' = Append(Caller, [Top EXCEPT !.do = "invoking"])
        /\ starts' = [starts EXCEPT ![Top.lib] = @ + 1]
     \/ Top.was # ToInvoke /\ RaiseFrom(stack) /\ UNCHANGED starts
  /\ UNCHANGED <<collection, visitState, finished, imported>>
VisitCode ==
  /\ AtCall("visit") /\ Top.todo = << >>
  /\ visitState' = [visitState EXCEPT ![Top.lib] = WhileRunning]
  /\ \/ Top.was = ToInvoke /\ stack' = Append(Caller, [Top EXCEPT !.do = "visiting"])
     \/ Top.was # ToInvoke /\ RaiseFrom(stack)
  /\ UNCHANGED <<collection, invokeState, starts, finished, imported>>

CodeReturns ==
  /\ \/ /\ AtCall("invoking")
        /\ invokeState' = [invokeState EXCEPT ![Top.lib] = Invoked]
        /\ finished' = finished \cup {Top.lib}
        /\ UNCHANGED visitState
     \/ /\ AtCall("visiting")
        /\ visitState' = [visitState EXCEPT ![Top.lib] = Invoked]
        /\ UNCHANGED <<invokeState, finished>>
  /\ stack' = Caller
  /\ UNCHANGED <<collection, starts, imported>>

-----------------------------------------------------------------------------
(* Programs and the expander *)

\* a program (compile-r6rs-top-level), or code of a library (environment and eval),
\* imports a library
Import(l) ==
  /\ stack = << >> \/ AtCall("invoking") \/ AtCall("visiting")
  /\ imported < MaxImports /\ imported' = imported + 1
  /\ stack' = Append(stack, Frame("import", l, << >>, ToInvoke))
  /\ UNCHANGED <<collection, invokeState, visitState, starts, finished>>

\* it is found, and installed if it was not; what is to be evaluated is expanded, and
\* then what its code refers to is invoked, or nothing is evaluated (environment)
FindImported ==
  /\ AtCall("import") /\ Top.lib \notin collection
  /\ FindExternal(Top.lib)
  /\ UNCHANGED <<collection, invokeState, visitState, starts, finished, imported>>
Expanded ==
  /\ AtCall("import") /\ Top.lib \in collection
  /\ stack' = Append(Caller, [Top EXCEPT !.do = "evaluate"])
  /\ UNCHANGED <<collection, invokeState, visitState, starts, finished, imported>>
Evaluated ==
  /\ AtCall("evaluate")
  /\ stack' = Caller
  /\ UNCHANGED <<collection, invokeState, visitState, starts, finished, imported>>

\* the body of a file, when what it imports is found, or an expression is expanded
Expanding(l) ==
  \/ AtCall("find") /\ Top.todo = << >> /\ l \in InReach[Top.lib]
  \/ AtCall("import") /\ Top.lib \in collection /\ l \in InReach[Top.lib] \cup {Top.lib}

\* it uses a macro of l, or asks for a compile-time value (chi-global-macro, do-macro-call)
VisitForMacro(l) ==
  /\ Expanding(l) /\ EnterVisit(stack, l)
  /\ UNCHANGED <<collection, invokeState, starts, finished, imported>>

\* a transformer in it refers to l (expand-transformer), a compiled file has l in its
\* guard-req*, or the code to be evaluated refers to l: invoke-req*
InvokeReferred(l) ==
  /\ \/ Expanding(l)
     \/ AtCall("load") /\ Top.todo = << >> /\ l \in ToSet(File[Top.lib].guard)
     \/ AtCall("evaluate") /\ l \in InReach[Top.lib] \cup {Top.lib}
  /\ EnterInvoke(stack, l)
  /\ UNCHANGED <<collection, visitState, starts, finished, imported>>

\* code raises an error, or a file is not there or cannot be expanded
LibraryFails ==
  /\ stack # << >> /\ Top.do \notin {"invoke", "visit"}
  /\ RaiseFrom(Caller)
  /\ UNCHANGED <<collection, invokeState, visitState, starts, finished, imported>>

LibrariesNext ==
  \/ FindImport \/ Stale \/ Install \/ InvokeRequired \/ InvokeCode \/ VisitCode \/ CodeReturns
  \/ FindImported \/ Expanded \/ Evaluated \/ LibraryFails
  \/ \E l \in Library : Import(l) \/ VisitForMacro(l) \/ InvokeReferred(l)

LibrariesSpec == LibrariesInit /\ [][LibrariesNext]_lvars

-----------------------------------------------------------------------------
(* Properties *)

\* Whatever fails on the way and is tried again, also from code that is being invoked or
\* expanded: the code of a library starts once at most, and only when the code of every
\* library it refers to has returned, and a library is visited only when the code of
\* those its transformers refer to has; one counts as invoked exactly when its code has
\* returned.  What an installed library imports and refers to is installed, and for a
\* file whose imports are found install-library finds all of it
\* (find-library-by-spec/die).
InvokedInOrder ==
  /\ \A l \in Library :
       /\ starts[l] <= 1
       /\ starts[l] = 1 => ToSet(File[l].inv) \subseteq finished
       /\ visitState[l] \in {Unreturned, Invoked} => ToSet(File[l].vis) \subseteq finished
       /\ invokeState[l] = Invoked <=> l \in finished
  /\ \A l \in collection : Requires(l) \subseteq collection
  /\ (AtCall("find") \/ AtCall("load")) /\ Top.todo = << >> => Requires(Top.lib) \subseteq collection

=============================================================================
