----------------------------- MODULE StatePaths -----------------------------
(***************************************************************************)
(* The preparation of the persistent /state tree at boot                   *)
(* (system/backends/appliance/scripts/mount-state-paths.sh): every path of  *)
(* a fixed layout is created, migrated from the old root-owned layout, or  *)
(* left as its owner set it, and then four of them are bound into the live *)
(* root.  Any command may fail and the power may go at any point; the next *)
(* start resumes from what is on the disk.                                 *)
(***************************************************************************)
EXTENDS Naturals, Sequences

CONSTANTS
  N,           \* number of paths of the layout; path i is handled i-th
  Parent,      \* Parent[i]: the path above i, 0 for the state root
  Owner,       \* Owner[i]: "root" (0:0) or "session" (770:770)
  Mode,        \* Mode[i]: "0700" or "0755"
  Binds,       \* the paths that are bound, in order
  TornMkdir,   \* TRUE: mkdir -m can be cut off before it has set the mode
  MaxFaults,   \* bound on failed commands and power losses
  MaxCustom    \* bound on changes the device's owner makes by hand

Paths == 1..N
Owners == {"root", "session", "user"}
Modes == {"0700", "0755"}

ASSUME LayoutAssumption ==
  /\ N \in Nat \ {0}
  /\ Parent \in [Paths -> 0..N]
  /\ Owner \in [Paths -> {"root", "session"}]
  /\ Mode \in [Paths -> Modes]
  /\ Binds \in Seq(Paths)
  /\ TornMkdir \in BOOLEAN
  /\ MaxFaults \in Nat
  /\ MaxCustom \in Nat

VARIABLES
  path,        \* path[i]: what is at path i of the state tree
  marker,      \* marker[i]: what is at the path's migration marker
  markerRoot,  \* .alpenglow-state-migrations itself
  pc,          \* the next command of setup_state_paths
  at,          \* the path, or the bind, it works on
  bound,       \* the paths bound into the live root
  given,       \* history: path[i] as the owner, or an older release, left it
  faults,      \* history: how many faults happened
  customs      \* history: how many changes were made by hand

vars == <<path, marker, markerRoot, pc, at, bound, given, faults, customs>>

-----------------------------------------------------------------------------
Dir(o, m) == [kind |-> "dir", owner |-> o, mode |-> m]
Absent == [kind |-> "none", owner |-> "root", mode |-> "0755"]
Foreign == [kind |-> "other", owner |-> "root", mode |-> "0755"] \* file or symlink
Entries == {Absent, Foreign} \union {Dir(o, m) : o \in Owners, m \in Modes}

Intended(i) == Dir(Owner[i], Mode[i])

\* The private paths as the previous mount script created them.
IsLegacy(i, entry) == Owner[i] = "session" /\ entry = Dir("root", "0755")

\* A directory with settings of its own, which the script has to leave alone.
IsCustom(i, entry) == entry.kind = "dir" /\ ~IsLegacy(i, entry)

ParentThere(i) == Parent[i] \in {0} \union {p \in Paths : path[p].kind = "dir"}

Stopped == {"off", "ready", "failed"}
Commands == {"mark", "mkdir", "chmod", "chown", "rmdir"}

Goto(step) == pc' = step /\ at' = at
Return(how) == pc' = how /\ at' = 1

\* ensure_state_dir returned 0: the next path, or the first bind.
NextPath == IF at < N THEN pc' = "ensure" /\ at' = at + 1
                      ELSE pc' = "bind" /\ at' = 1

Disk == <<path, marker, markerRoot>>
History == <<given, faults, customs>>

-----------------------------------------------------------------------------
(* The disk before the first start of this release: no marker directory    *)
(* yet, or something of that name which the script did not make.           *)
Init ==
  /\ path \in [Paths -> Entries]
  /\ \A i \in Paths : path[i].kind # "none" => ParentThere(i)
  /\ markerRoot \in {"none", "open", "other", "private"}
  /\ marker \in [Paths -> {"none", "other"}]
  /\ (\E i \in Paths : marker[i] = "other") => markerRoot = "private"
  /\ pc = "off"
  /\ at = 1
  /\ bound = {}
  /\ given = path
  /\ faults = 0
  /\ customs = 0

\* dinit starts state-mount at boot, or the operator starts it again.
Boot ==
  /\ pc \in {"off", "failed"}
  /\ Return("markers")
  /\ UNCHANGED <<Disk, bound, History>>

\* prepare_state_markers: make the marker directory, or check that it is
\* root's and private.
PrepareMarkers ==
  /\ pc = "markers"
  /\ IF markerRoot \in {"none", "private"}
     THEN markerRoot' = "private" /\ Return("ensure")
     ELSE UNCHANGED markerRoot /\ Return("failed")
  /\ UNCHANGED <<path, marker, bound, History>>

\* Fault: every private directory that is not as intended is migrated.
FaultNeedsNothing(i) ==
  /\ marker[i] = "none"
  /\ path[i].kind = "dir"
  /\ Owner[i] = "session" => path[i] = Intended(i)

NeedsNothing(i) == marker[i] = "none" /\ IsCustom(i, path[i])

\* Fault: a marker from an interrupted start is refused like a foreign one.
FaultRefused(i) == path[i].kind = "other" \/ marker[i] # "none"

Refused(i) == path[i].kind = "other" \/ marker[i] = "other"

\* Fault: an existing directory is migrated without a marker.
FaultFirstCommand(i) ==
  IF path[i].kind = "none"
  THEN IF marker[i] = "none" THEN "mark" ELSE "mkdir"
  ELSE "chmod"

\* The first command a path needs that is not known to have been done.
FirstCommand(i) ==
  CASE marker[i] = "none" -> "mark"
    [] marker[i] # "none" /\ path[i].kind = "none" -> "mkdir"
    [] OTHER -> "chmod"

\* The checks of ensure_state_dir before it changes anything.
Ensure ==
  /\ pc = "ensure"
  /\ CASE Refused(at) -> Return("failed")
       [] ~Refused(at) /\ NeedsNothing(at) -> NextPath
       [] OTHER -> Goto(FirstCommand(at))
  /\ UNCHANGED <<Disk, bound, History>>

MakeMarker ==
  /\ pc = "mark"
  /\ marker' = [marker EXCEPT ![at] = "dir"]
  /\ Goto(IF path[at].kind = "none" THEN "mkdir" ELSE "chmod")
  /\ UNCHANGED <<path, markerRoot, bound, History>>

\* mkdir -m, which fails when the parent is missing.
MakePath ==
  /\ pc = "mkdir"
  /\ IF ParentThere(at)
     THEN path' = [path EXCEPT ![at] = Dir("root", Mode[at])] /\ Goto("chmod")
     ELSE UNCHANGED path /\ Return("failed")
  /\ UNCHANGED <<marker, markerRoot, bound, History>>

\* Fault: the mode is left to mkdir -m, and only the owner is set.
FaultChmod ==
  /\ pc = "chmod"
  /\ path' = [path EXCEPT ![at].owner = Owner[at]]
  /\ Goto("chown")
  /\ UNCHANGED <<marker, markerRoot, bound, History>>

Chmod ==
  /\ pc = "chmod"
  /\ path' = [path EXCEPT ![at].mode = Mode[at]]
  /\ Goto("chown")
  /\ UNCHANGED <<marker, markerRoot, bound, History>>

Chown ==
  /\ pc = "chown"
  /\ path' = [path EXCEPT ![at].owner = Owner[at]]
  /\ Goto("rmdir")
  /\ UNCHANGED <<marker, markerRoot, bound, History>>

\* Fault: the marker stays, and the next path is handled.
FaultRemoveMarker ==
  /\ pc = "rmdir"
  /\ NextPath
  /\ UNCHANGED <<Disk, bound, History>>

RemoveMarker ==
  /\ pc = "rmdir"
  /\ marker' = [marker EXCEPT ![at] = "none"]
  /\ NextPath
  /\ UNCHANGED <<path, markerRoot, bound, History>>

\* bind_state_dir, until all binds are made.
Bind ==
  /\ pc = "bind"
  /\ IF at <= Len(Binds)
     THEN /\ bound' = bound \union {Binds[at]}
          /\ pc' = "bind"
          /\ at' = at + 1
     ELSE Return("ready") /\ UNCHANGED bound
  /\ UNCHANGED <<Disk, History>>

-----------------------------------------------------------------------------
(* Faults and the device's owner                                           *)

\* What an interrupted or failed mkdir -m may leave behind.
TornEntry ==
  \/ UNCHANGED Disk
  \/ /\ TornMkdir /\ pc = "markers" /\ markerRoot = "none"
     /\ markerRoot' = "open"
     /\ UNCHANGED <<path, marker>>
  \/ /\ TornMkdir /\ pc = "mark"
     /\ marker' = [marker EXCEPT ![at] = "dir"]
     /\ UNCHANGED <<path, markerRoot>>
  \/ /\ TornMkdir /\ pc = "mkdir" /\ ParentThere(at)
     /\ path' = [path EXCEPT ![at] = Dir("root", "0755")]
     /\ UNCHANGED <<marker, markerRoot>>

\* The current command returns an error, and so does setup_state_paths. A
\* path that needs no command is inspected with find, which may fail too.
CommandFails ==
  /\ faults < MaxFaults
  /\ pc \in Commands \union {"markers", "ensure"} \/ (pc = "bind" /\ at <= Len(Binds))
  /\ pc = "ensure" => Owner[at] = "session" /\ path[at].kind = "dir" /\ marker[at] = "none"
  /\ TornEntry
  /\ Return("failed")
  /\ faults' = faults + 1
  /\ UNCHANGED <<bound, given, customs>>

\* The machine is shut down, with the state tree ready or not.
Shutdown ==
  /\ pc \in {"ready", "failed"}
  /\ Return("off")
  /\ bound' = {}
  /\ UNCHANGED <<Disk, History>>

PowerLoss ==
  /\ faults < MaxFaults
  /\ pc # "off"
  /\ TornEntry
  /\ Return("off")
  /\ bound' = {}
  /\ faults' = faults + 1
  /\ UNCHANGED <<given, customs>>

\* Between two runs the owner gives a settled directory settings of its own.
Customize ==
  /\ pc \in Stopped
  /\ customs < MaxCustom
  /\ \E i \in Paths, o \in Owners, m \in Modes :
       /\ path[i].kind = "dir" /\ marker[i] = "none"
       /\ path' = [path EXCEPT ![i] = Dir(o, m)]
       /\ given' = [given EXCEPT ![i] = Dir(o, m)]
  /\ customs' = customs + 1
  /\ UNCHANGED <<marker, markerRoot, pc, at, bound, faults>>

Script == PrepareMarkers \/ Ensure \/ MakeMarker \/ MakePath \/ Chmod \/ Chown
            \/ RemoveMarker \/ Bind

Next == Boot \/ Script \/ Shutdown \/ CommandFails \/ PowerLoss \/ Customize

Spec == Init /\ [][Next]_vars

\* The device is booted again after a failed start, and a running script runs.
FairSpec == Spec /\ WF_vars(Script) /\ WF_vars(Boot)

-----------------------------------------------------------------------------
TypeOK ==
  /\ path \in [Paths -> Entries]
  /\ given \in [Paths -> Entries]
  /\ marker \in [Paths -> {"none", "dir", "other"}]
  /\ markerRoot \in {"none", "private", "open", "other"}
  /\ pc \in Stopped \union Commands \union {"markers", "ensure", "bind"}
  /\ at \in Nat \ {0}
  /\ pc \in Commands \union {"ensure"} => at \in Paths
  /\ pc = "bind" => at <= Len(Binds) + 1
  /\ bound \subseteq Paths
  /\ faults \in 0..MaxFaults
  /\ customs \in 0..MaxCustom

Settled(i) ==
  /\ marker[i] = "none"
  /\ path[i] = Intended(i) \/ (path[i] = given[i] /\ IsCustom(i, path[i]))

\* "All four binds are required for persistent state to be ready": by the time
\* the first bind is made every path of the layout, whatever failed in earlier
\* starts, is as intended or as its owner set it, and no marker is left.
BindsWait == pc = "bind" => \A i \in Paths : Settled(i)

\* "The root-only marker precedes any metadata change or new path creation":
\* a directory that is neither as it was found nor as intended has a marker,
\* so that the next start takes it up again although it no longer looks like
\* the old layout.
UnfinishedIsMarked ==
  \A i \in Paths :
    path[i] \notin {given[i], Intended(i)} => marker[i] = "dir"

\* "Custom existing directories and their permissions must not be reset",
\* however many starts and faults there are.
CustomKept == \A i \in Paths : IsCustom(i, given[i]) => path[i] = given[i]

\* "A failed ownership update must leave the path private": a path never
\* belongs to the session user with other permissions than the intended ones.
HandedOverPrivate ==
  \A i \in Paths :
    path[i].owner = "session" => path[i] = given[i] \/ path[i].mode = Mode[i]

\* Nothing that the script refuses is in its way.
Clear ==
  /\ markerRoot \in {"none", "private"}
  /\ \A i \in Paths : ~Refused(i)

\* "... and resume on retry": when nothing foreign is in the way, a device
\* that is started again and again gets its state tree ready, unless mkdir -m
\* was cut off at the marker root itself, which stays refused.
Recovers == Clear ~> (pc = "ready" \/ markerRoot = "open")
=============================================================================
