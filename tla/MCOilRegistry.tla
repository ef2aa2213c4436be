---------------------------- MODULE MCOilRegistry ----------------------------
(* Taps and budgets for OilRegistry.                                       *)
EXTENDS OilRegistry

\* cache_key writes every sign that is neither letter nor digit as a dash.
McKey == [t \in Taps |-> IF t \in {"a/b", "a-b"} THEN "a-b" ELSE t]

Budget(kinds, taps, commands, publish, expire, faults) ==
  [kinds |-> kinds, taps |-> taps, commands |-> commands, publish |-> publish,
   expire |-> expire, faults |-> faults]

\* Overlapping users of Alpine's index; of one tap's; of two taps' that share
\* a cache; and of the list.
McBudgets ==
  {Budget({"load", "update"}, {}, 3, 1, 1, 1),
   Budget({"load", "tap-update"}, {"a/b"}, 3, 1, 1, 1),
   Budget({"tap-update"}, {"a/b", "a-b"}, 2, 1, 0, 1),
   Budget({"add", "remove", "tap-update"}, {"a/b"}, 4, 0, 0, 1)}
=============================================================================
