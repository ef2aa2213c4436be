-------------------------- MODULE MCOilTransaction --------------------------
(* Small instances of OilTransaction for TLC. *)
EXTENDS OilTransaction

\* An application that depends on a library; the library's record is pinned.
McDeps == [n \in {"app", "lib"} |-> IF n = "app" THEN {"lib"} ELSE {}]
=============================================================================
