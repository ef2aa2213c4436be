----------------------------- MODULE InstallPlan ----------------------------
(***************************************************************************)
(* What a caller of resolve_install_order relies on                        *)
(* (system/oil/src/system/registry/mod.rs): a plan grows by one package at *)
(* a time, each after everything it needs; it is handed out only when it   *)
(* covers what was asked for, and refused only for a reason.               *)
(***************************************************************************)
EXTENDS Naturals, Sequences

VARIABLES
  nameOf,   \* nameOf[i]: the name of candidate i; two may have the same
  needs,    \* needs[i]: the names of the packages i needs planned before it
  eligible, \* the candidates the request leads to
  missing,  \* the eligible candidates that need something nobody offers
  lost,     \* TRUE: something that was asked for is offered by nobody
  goal,     \* the names that must be planned
  order,    \* the plan: a sequence of candidates
  outcome   \* "open", or how it ended

problem == <<nameOf, needs, eligible, missing, lost, goal>>

Planned == {nameOf[order[k]] : k \in DOMAIN order}

\* Every candidate of T waits for one of T.
Cyclic(T) ==
  T # {} /\ \A i \in T : \E j \in T : nameOf[j] \in needs[i]

Init ==
  /\ order = <<>>
  /\ outcome = "open"

Schedule(i) ==
  /\ outcome = "open"
  /\ i \in eligible \ missing
  /\ nameOf[i] \notin Planned
  /\ needs[i] \subseteq Planned
  /\ order' = Append(order, i)
  /\ UNCHANGED outcome

Finish ==
  /\ outcome = "open"
  /\ goal \subseteq Planned
  /\ outcome' = "ok"
  /\ UNCHANGED order

RefuseMissing ==
  /\ outcome = "open"
  /\ lost \/ missing # {}
  /\ outcome' = "not found"
  /\ UNCHANGED order

RefuseCycle ==
  /\ outcome = "open"
  /\ \E T \in SUBSET eligible : Cyclic(T)
  /\ outcome' = "circular"
  /\ UNCHANGED order

Next ==
  /\ (\E i \in eligible : Schedule(i)) \/ Finish \/ RefuseMissing \/ RefuseCycle
  /\ UNCHANGED problem

Spec == Init /\ [][Next]_<<problem, order, outcome>>
=============================================================================
