---------------------------- MODULE MCStatePaths ----------------------------
(* Layouts and start states for StatePaths.                                *)
EXTENDS StatePaths

\* setup_state_paths, in its order: <<parent, owner, mode>>
Rows == <<
  <<0, "root", "0755">>,      \*  1 home
  <<0, "root", "0755">>,      \*  2 var
  <<2, "root", "0755">>,      \*  3 var/lib
  <<3, "root", "0755">>,      \*  4 var/lib/alpenglow
  <<4, "session", "0700">>,   \*  5 .../browser
  <<5, "session", "0700">>,   \*  6 .../browser/profiles
  <<5, "session", "0700">>,   \*  7 .../browser/cache
  <<5, "session", "0700">>,   \*  8 .../browser/downloads
  <<5, "session", "0700">>,   \*  9 .../browser/state
  <<5, "session", "0700">>,   \* 10 .../browser/logs
  <<5, "session", "0700">>,   \* 11 .../browser/terminal
  <<4, "session", "0700">>,   \* 12 .../files
  <<4, "session", "0700">>,   \* 13 .../system
  <<13, "session", "0700">>,  \* 14 .../system/plugins
  <<4, "root", "0755">>,      \* 15 .../oil
  <<2, "root", "0755">>,      \* 16 var/cache
  <<16, "session", "0700">>,  \* 17 var/cache/alpenglow
  <<2, "root", "0755">>,      \* 18 var/log
  <<18, "root", "0700">> >>   \* 19 var/log/alpenglow

\* The order of the real list: a parent is prepared before its children,
\* as in the small layout below; without it Recovers would not hold.
ASSUME RowsAreOrdered == \A i \in DOMAIN Rows : Rows[i][1] \in 0..(i - 1)

\* A public parent with a private child: var/cache and var/cache/alpenglow.
SmallParent == <<0, 1>>
SmallOwner == <<"root", "session">>
SmallMode == <<"0755", "0700">>
SmallBinds == <<2, 1>>
=============================================================================
