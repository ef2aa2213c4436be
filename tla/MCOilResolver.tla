---------------------------- MODULE MCOilResolver ---------------------------
(* Small package lists for OilResolver.                                    *)
EXTENDS OilResolver

MCNames == {"a", "b", "c", "v"}

\* At most two dependencies, one of which may be empty (a bare version).
MCDepends ==
  {<<>>} \union {<<n>> : n \in MCNames}
         \union {<<"a", "b">>, <<"b", "v">>, <<"v", "a">>, <<"c", "b">>, <<NoName, "c">>}

\* Three packages; "v" is only ever provided, by b, by c, by both or by none.
MCIndexes ==
  { << [name |-> "a", provides |-> {}, depends |-> da],
       [name |-> "b", provides |-> pb, depends |-> db],
       [name |-> "c", provides |-> pc, depends |-> dc] >> :
    da \in MCDepends, db \in MCDepends, dc \in MCDepends,
    pb \in {{}, {"v"}}, pc \in {{}, {"v"}} }
  \union
  \* A tap's package with the name of another, reached by what it provides.
  { << [name |-> "a", provides |-> {}, depends |-> da],
       [name |-> "b", provides |-> {"v"}, depends |-> db],
       [name |-> "a", provides |-> {"v", "c"}, depends |-> dc] >> :
    da \in MCDepends, db \in MCDepends, dc \in MCDepends }

MCRequests == {<<"a">>, <<"v", "a">>, <<"c", "a">>}
MCSkips == {{}, {"b"}, {"v"}}
=============================================================================
