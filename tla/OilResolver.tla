----------------------------- MODULE OilResolver ----------------------------
(***************************************************************************)
(* The package index and the dependency resolver of Oil                    *)
(* (system/oil/src/system/registry/mod.rs).  The recursion of              *)
(* visit_install_deps is written out as a stack of calls, so that each     *)
(* call, each loop iteration and each return is a step.                    *)
(***************************************************************************)
EXTENDS Naturals, Sequences

CONSTANTS
  Names,     \* package names and the names packages provide
  Indexes,   \* the package lists considered
  Requests,  \* the sequences of root names considered
  Skips      \* the sets of installed names considered

\* parse_dep_name of a dependency that has only a version: "".
NoName == ""

Package == [name : Names, provides : SUBSET Names, depends : Seq(Names \union {NoName})]

ASSUME ResolverAssumption ==
  /\ NoName \notin Names
  /\ Indexes \subseteq Seq(Package)
  /\ Requests \subseteq Seq(Names)
  /\ Skips \subseteq SUBSET Names

VARIABLES
  packages,   \* the list the index is built on, in registry order
  roots,      \* the names asked for
  skip,       \* the names with an entry in installed.json
  stack,      \* the open calls of visit_install_deps, outermost first
  nextRoot,   \* the root to visit next
  visiting,   \* names of the packages whose dependencies are being visited
  scheduled,  \* names of the packages in order
  order,      \* the result so far
  outcome     \* "open", or how resolve_install_order returned

input == <<packages, roots, skip>>
vars == <<input, stack, nextRoot, visiting, scheduled, order, outcome>>

-----------------------------------------------------------------------------
(* The index                                                               *)

Positions == DOMAIN packages
NameOf(i) == packages[i].name

First(S) == CHOOSE i \in S : \A j \in S : i <= j

\* PackageIndex::new and find: a package's own name wins over a provided one,
\* and the first in the list wins over later ones.
Called(n) == {i \in Positions : NameOf(i) = n}
Providing(n) == {i \in Positions : n \in packages[i].provides}
Found(n) == Called(n) \union Providing(n) # {}
Find(n) == IF Called(n) # {} THEN First(Called(n)) ELSE First(Providing(n))

\* The dependencies visit_install_deps goes into.
Counts(n) == n # NoName /\ n \notin skip
Depends(i) == {packages[i].depends[k] : k \in DOMAIN packages[i].depends}
Needs(i) == {n \in Depends(i) : Counts(n)}

-----------------------------------------------------------------------------
Init ==
  /\ packages \in Indexes
  /\ roots \in Requests
  /\ skip \in Skips
  /\ stack = <<>>
  /\ nextRoot = 1
  /\ visiting = {}
  /\ scheduled = {}
  /\ order = <<>>
  /\ outcome = "open"

Frame(i) == [pkg |-> i, next |-> 1]
Top == stack[Len(stack)]
Below == SubSeq(stack, 1, Len(stack) - 1)
Advanced == [stack EXCEPT ![Len(stack)].next = @ + 1]

Fail(how) ==
  /\ outcome' = how
  /\ UNCHANGED <<stack, visiting>>

\* Fault: a package that is already scheduled is entered again.
FaultCallAgain(n, calls) ==
  CASE n \in skip -> stack' = calls /\ UNCHANGED <<visiting, outcome>>
    [] n \notin skip /\ ~Found(n) -> Fail("not found")
    [] n \notin skip /\ Found(n) /\ NameOf(Find(n)) \in visiting -> Fail("circular")
    [] OTHER -> /\ stack' = Append(calls, Frame(Find(n)))
                /\ visiting' = visiting \union {NameOf(Find(n))}
                /\ UNCHANGED outcome

\* Fault: a package that is still being visited counts as scheduled.
FaultCallUnchecked(n, calls) ==
  CASE n \in skip \/ (Found(n) /\ NameOf(Find(n)) \in visiting \union scheduled) ->
         stack' = calls /\ UNCHANGED <<visiting, outcome>>
    [] n \notin skip /\ ~Found(n) -> Fail("not found")
    [] OTHER -> /\ stack' = Append(calls, Frame(Find(n)))
                /\ visiting' = visiting \union {NameOf(Find(n))}
                /\ UNCHANGED outcome

\* Fault: a package that is still being visited is entered again.
FaultCallEndless(n, calls) ==
  CASE n \in skip \/ (Found(n) /\ NameOf(Find(n)) \in scheduled) ->
         stack' = calls /\ UNCHANGED <<visiting, outcome>>
    [] n \notin skip /\ ~Found(n) -> Fail("not found")
    [] OTHER -> /\ stack' = Append(calls, Frame(Find(n)))
                /\ visiting' = visiting \union {NameOf(Find(n))}
                /\ UNCHANGED outcome

\* The beginning of visit_install_deps(n), called from the frames "calls".
Call(n, calls) ==
  CASE n \in skip \/ (Found(n) /\ NameOf(Find(n)) \in scheduled) ->
         stack' = calls /\ UNCHANGED <<visiting, outcome>>
    [] n \notin skip /\ ~Found(n) -> Fail("not found")
    [] n \notin skip /\ Found(n) /\ NameOf(Find(n)) \in visiting \ scheduled ->
         Fail("circular")
    [] OTHER -> /\ stack' = Append(calls, Frame(Find(n)))
                /\ visiting' = visiting \union {NameOf(Find(n))}
                /\ UNCHANGED outcome

\* resolve_install_order's loop over the roots.
VisitRoot ==
  /\ outcome = "open" /\ stack = <<>> /\ nextRoot <= Len(roots)
  /\ Call(roots[nextRoot], stack)
  /\ nextRoot' = nextRoot + 1
  /\ UNCHANGED <<input, scheduled, order>>

\* Fault: the loop does not advance over an empty name.
FaultVisitDep ==
  /\ outcome = "open" /\ stack # <<>>
  /\ Top.next <= Len(packages[Top.pkg].depends)
  /\ LET dep == packages[Top.pkg].depends[Top.next]
     IN  IF dep = NoName
         THEN UNCHANGED <<stack, visiting, outcome>>
         ELSE Call(dep, Advanced)
  /\ UNCHANGED <<input, nextRoot, scheduled, order>>

\* The loop over a package's dependencies.
VisitDep ==
  /\ outcome = "open" /\ stack # <<>>
  /\ Top.next <= Len(packages[Top.pkg].depends)
  /\ LET dep == packages[Top.pkg].depends[Top.next]
     IN  IF dep = NoName
         THEN stack' = Advanced /\ UNCHANGED <<visiting, outcome>>
         ELSE Call(dep, Advanced)
  /\ UNCHANGED <<input, nextRoot, scheduled, order>>

\* Fault: the last dependency is not visited.
FaultLeave ==
  /\ outcome = "open" /\ stack # <<>>
  /\ Top.next >= Len(packages[Top.pkg].depends)
  /\ stack' = Below
  /\ visiting' = visiting \ {NameOf(Top.pkg)}
  /\ scheduled' = scheduled \union {NameOf(Top.pkg)}
  /\ order' = Append(order, Top.pkg)
  /\ UNCHANGED <<input, nextRoot, outcome>>

\* All dependencies are visited: the package goes into the order.
Leave ==
  /\ outcome = "open" /\ stack # <<>>
  /\ Top.next > Len(packages[Top.pkg].depends)
  /\ stack' = Below
  /\ visiting' = visiting \ {NameOf(Top.pkg)}
  /\ scheduled' = scheduled \union {NameOf(Top.pkg)}
  /\ order' = Append(order, Top.pkg)
  /\ UNCHANGED <<input, nextRoot, outcome>>

Return ==
  /\ outcome = "open" /\ stack = <<>> /\ nextRoot > Len(roots)
  /\ outcome' = "ok"
  /\ UNCHANGED <<input, stack, nextRoot, visiting, scheduled, order>>

Next == VisitRoot \/ VisitDep \/ Leave \/ Return

Spec == Init /\ [][Next]_vars

\* The resolver is one sequential call: it runs until it returns.
FairSpec == Spec /\ WF_vars(Next)

-----------------------------------------------------------------------------
TypeOK ==
  /\ packages \in Seq(Package) /\ roots \in Seq(Names) /\ skip \subseteq Names
  /\ stack \in Seq([pkg : Positions, next : Nat \ {0}])
  /\ nextRoot \in 1..(Len(roots) + 1)
  /\ visiting \subseteq Names
  /\ scheduled \subseteq Names
  /\ order \in Seq(Positions)
  /\ outcome \in {"open", "ok", "not found", "circular"}

\* The packages a request leads to: the least set with the packages found for
\* the roots that holds what its members need.
Roots == {n \in {roots[k] : k \in DOMAIN roots} : n \notin skip}
Closed(S) ==
  /\ \A n \in Roots : Found(n) => Find(n) \in S
  /\ \A i \in S : \A n \in Needs(i) : Found(n) => Find(n) \in S
Needed == {i \in Positions : \A S \in SUBSET Positions : Closed(S) => i \in S}

NamesFound(S) == {NameOf(Find(n)) : n \in {m \in S : Found(m)}}

\* The promise made to the caller, in terms of this index and request.
Plan == INSTANCE InstallPlan WITH
          nameOf <- [i \in Positions |-> NameOf(i)],
          needs <- [i \in Positions |-> NamesFound(Needs(i))],
          eligible <- Needed,
          missing <- {i \in Needed : \E n \in Needs(i) : ~Found(n)},
          lost <- (\E n \in Roots : ~Found(n)),
          goal <- NamesFound(Roots)

\* The resolver keeps the promise: it schedules nothing the request does not
\* lead to, nothing twice and nothing before what it needs, succeeds only with
\* everything planned, and refuses only when something is really missing or
\* really waits for itself.
KeepsPromise == Plan!Spec

\* An order is returned only when no package of it waits for itself, however
\* names are provided: the depth-first check misses no cycle.
NoCycleMissed ==
  outcome = "ok" =>
    \A T \in SUBSET {order[k] : k \in DOMAIN order} : ~Plan!Cyclic(T)

\* "dependencies before dependents", for every dependency that is not skipped.
DepsBeforeDependents ==
  \A k \in DOMAIN order : \A n \in Needs(order[k]) :
    Found(n) /\ \E j \in 1..(k - 1) : NameOf(order[j]) = NameOf(Find(n))

\* Every step brings the end closer, whatever cycles and double names the index
\* has: it returns, or enters a package of a name that was never entered, or
\* else goes on to the next root, closes a call, or goes on in the list of the
\* same call. Each of these has an end while those before it stand still: the
\* recursion of visit_install_deps ends.
Unvisited == {NameOf(i) : i \in Positions} \ (visiting \union scheduled)
GoesOn ==
  \/ nextRoot < nextRoot' /\ nextRoot' <= Len(roots) + 1
  \/ nextRoot' = nextRoot /\ Len(stack') < Len(stack)
  \/ /\ nextRoot' = nextRoot /\ Len(stack') = Len(stack)
     /\ Top'.pkg = Top.pkg
     /\ Top.next < Top'.next /\ Top'.next <= Len(packages[Top.pkg].depends) + 1
Closer ==
  [][/\ outcome = "open" /\ UNCHANGED input
     /\ \/ outcome' # "open"
        \/ Unvisited' \subseteq Unvisited /\ Unvisited' # Unvisited
        \/ Unvisited' = Unvisited /\ GoesOn]_vars

\* Whatever the index, cyclic or incomplete, the resolver returns.
Returns == <>(outcome # "open")

\* "Skips names present in `skip`": a package that has an entry is not
\* scheduled again.
InstalledAreSkipped == \A k \in DOMAIN order : NameOf(order[k]) \notin skip
=============================================================================
