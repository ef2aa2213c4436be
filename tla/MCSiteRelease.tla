---------------------------- MODULE MCSiteRelease ----------------------------
(* Budgets for SiteRelease.                                                *)
EXTENDS SiteRelease

\* Builds that meet and are stopped; and visits across deployments.
McBudgets ==
  {[changes |-> 3, starts |-> 2, cuts |-> 1, visits |-> 0],
   [changes |-> 2, starts |-> 0, cuts |-> 0, visits |-> 3]}
=============================================================================
