-------------------------- MODULE StatePathsProofs --------------------------
(***************************************************************************)
(* Proofs about StatePaths, for every layout, any number of faults and any *)
(* number of changes by hand.  One inductive invariant carries them all:   *)
(* what the disk may look like, and what the script knows at each command. *)
(***************************************************************************)
EXTENDS StatePaths, TLAPS

-----------------------------------------------------------------------------
(* The strengthening                                                       *)

\* A path with a marker was never a directory with settings of its own, and
\* it is handed over only with the intended permissions.
Taken(i) ==
  /\ ~IsCustom(i, given[i])
  /\ path[i].owner \in {"root", Owner[i]}
  /\ path[i].owner = "session" => path[i].mode = Mode[i]

DiskInv ==
  /\ \A i \in Paths : marker[i] = "dir" => Taken(i)
  /\ UnfinishedIsMarked
  /\ CustomKept
  /\ HandedOverPrivate

\* What holds of the path the script works on, at each command.
StepInv ==
  /\ pc = "mark" => /\ marker[at] = "none"
                    /\ path[at].kind \in {"none", "dir"}
                    /\ ~IsCustom(at, path[at])
  /\ pc \in {"mkdir", "chmod", "chown", "rmdir"} => marker[at] = "dir"
  /\ pc \in {"chmod", "chown", "rmdir"} => path[at].kind = "dir"
  /\ pc \in {"chown", "rmdir"} => path[at].mode = Mode[at]
  /\ pc = "rmdir" => path[at].owner = Owner[at]

\* The paths the script has gone past are settled.
ProgressInv ==
  /\ pc \in Commands \union {"ensure"} => \A i \in Paths : i < at => Settled(i)
  /\ BindsWait

IInv == TypeOK /\ DiskInv /\ StepInv /\ ProgressInv

-----------------------------------------------------------------------------
(* The shapes of a directory entry                                         *)

LEMMA EntryTypes ==
  ASSUME NEW e \in Entries
  PROVE  /\ e.kind \in {"none", "other", "dir"}
         /\ e.owner \in Owners /\ e.mode \in Modes
         /\ e.kind = "dir" => e = Dir(e.owner, e.mode)
         /\ e.kind = "dir" =>
              /\ \A m \in Modes : [e EXCEPT !.mode = m] = Dir(e.owner, m)
              /\ \A o \in Owners : [e EXCEPT !.owner = o] = Dir(o, e.mode)
         /\ e.kind # "dir" => e.owner = "root"
BY DEF Entries, Dir, Absent, Foreign, Owners, Modes

LEMMA DirTypes ==
  ASSUME NEW o \in Owners, NEW m \in Modes
  PROVE  /\ Dir(o, m) \in Entries
         /\ Dir(o, m).kind = "dir" /\ Dir(o, m).owner = o /\ Dir(o, m).mode = m
BY DEF Entries, Dir

\* An intended entry counts as a directory with settings of its own, so a
\* finished path is left alone from then on.
LEMMA IntendedIsCustom ==
  ASSUME NEW i \in Paths
  PROVE  Intended(i) \in Entries /\ IsCustom(i, Intended(i))
BY LayoutAssumption DEF Intended, IsCustom, IsLegacy, Dir, Entries, Owners, Modes

-----------------------------------------------------------------------------
(* The invariant                                                           *)

LEMMA InitIInv == Init => IInv
<1> SUFFICES ASSUME Init PROVE IInv
  OBVIOUS
<1>1. TypeOK
  BY LayoutAssumption DEF Init, TypeOK, Stopped, Commands
<1>2. DiskInv
  BY DEF Init, DiskInv, UnfinishedIsMarked, CustomKept, HandedOverPrivate
<1>3. StepInv /\ ProgressInv
  BY DEF Init, StepInv, ProgressInv, BindsWait, Commands
<1> QED
  BY <1>1, <1>2, <1>3 DEF IInv

\* A step that leaves the disk and its history alone and ends the script, or
\* starts it, keeps the invariant.
LEMMA StopIInv ==
  ASSUME IInv, UNCHANGED <<Disk, given>>,
         pc' \in Stopped \union {"markers"}, at' = 1,
         bound' \in {bound, {}}, faults' \in 0..MaxFaults, customs' \in 0..MaxCustom
  PROVE  IInv'
<1>1. TypeOK'
  BY DEF IInv, TypeOK, Disk, Stopped, Commands
<1>2. DiskInv'
  BY DEF IInv, DiskInv, UnfinishedIsMarked, CustomKept, HandedOverPrivate, Taken,
         Disk, IsCustom, IsLegacy, Intended
<1>3. StepInv' /\ ProgressInv'
  BY DEF StepInv, ProgressInv, BindsWait, Commands, Stopped
<1> QED
  BY <1>1, <1>2, <1>3 DEF IInv

\* Going on to the next path when the current one is settled.
LEMMA NextPathIInv ==
  ASSUME IInv, at \in Paths, pc \in Commands \union {"ensure"}, NextPath,
         UNCHANGED <<path, given, bound, faults, customs>>,
         markerRoot' = markerRoot,
         marker' \in [Paths -> {"none", "dir", "other"}],
         \A i \in Paths : i # at => marker'[i] = marker[i],
         marker'[at] = "none",
         path[at] = Intended(at) \/ (path[at] = given[at] /\ IsCustom(at, path[at]))
  PROVE  IInv'
<1>1. TypeOK'
  <2>1. Len(Binds) \in Nat /\ at \in 1..N /\ N \in Nat
    BY LayoutAssumption DEF Paths
  <2>2. CASE at < N
    BY <2>1, <2>2 DEF IInv, TypeOK, NextPath, Paths, Commands, Stopped
  <2>3. CASE ~(at < N)
    BY <2>1, <2>3 DEF IInv, TypeOK, NextPath, Paths, Commands, Stopped
  <2> QED
    BY <2>2, <2>3
<1>2. DiskInv'
  BY DEF IInv, DiskInv, UnfinishedIsMarked, CustomKept, HandedOverPrivate,
         Taken, IsCustom, IsLegacy, Intended
<1>3. StepInv'
  BY DEF NextPath, StepInv
<1>4. ProgressInv'
  <2>1. \A i \in Paths : i < at => Settled(i)'
    BY DEF IInv, ProgressInv, Settled, Paths
  <2>2. \A i \in Paths : i < at + 1 => Settled(i)'
    <3>1. \A i \in Paths : i < at + 1 => i < at \/ i = at
      BY LayoutAssumption DEF Paths
    <3>2. \A i \in Paths : i = at => Settled(i)'
      BY DEF Settled, IsCustom, IsLegacy, Intended
    <3> QED
      BY <2>1, <3>1, <3>2
  <2>3. ~(at < N) => \A i \in Paths : i < at + 1
    BY LayoutAssumption DEF Paths
  <2> QED
    BY <2>2, <2>3 DEF NextPath, ProgressInv, BindsWait, Commands
<1> QED
  BY <1>1, <1>2, <1>3, <1>4 DEF IInv

\* A step within the current path, which changes at most that path and its
\* marker, and what must hold there afterwards.
LEMMA PathStepIInv ==
  ASSUME IInv, at \in Paths, pc \in Commands \union {"ensure"},
         pc' \in Commands, at' = at,
         UNCHANGED <<markerRoot, bound, given, faults, customs>>,
         path' \in [Paths -> Entries],
         marker' \in [Paths -> {"none", "dir", "other"}],
         \A i \in Paths : i # at => path'[i] = path[i] /\ marker'[i] = marker[i],
         pc' = "mark" => path' = path /\ marker' = marker,
         pc' # "mark" => marker'[at] = "dir" /\ Taken(at)',
         StepInv'
  PROVE  IInv'
<1>1. TypeOK'
  BY DEF IInv, TypeOK, Commands
<1>2. DiskInv'
  <2>1. CASE pc' = "mark"
    BY <2>1 DEF IInv, DiskInv, UnfinishedIsMarked, CustomKept, HandedOverPrivate,
                Taken, IsCustom, IsLegacy, Intended
  <2>2. CASE pc' # "mark"
    <3>1. marker'[at] = "dir" /\ ~IsCustom(at, given[at])
          /\ path'[at].owner \in {"root", Owner[at]}
          /\ (path'[at].owner = "session" => path'[at].mode = Mode[at])
      BY <2>2 DEF Taken, IsCustom, IsLegacy
    <3> QED
      BY <3>1 DEF IInv, DiskInv, UnfinishedIsMarked, CustomKept, HandedOverPrivate,
                  Taken, IsCustom, IsLegacy, Intended
  <2> QED
    BY <2>1, <2>2
<1>3. ProgressInv'
  <2>1. \A i \in Paths : i < at => i # at
    BY LayoutAssumption DEF Paths
  <2>2. \A i \in Paths : i < at => Settled(i)'
    BY <2>1 DEF IInv, ProgressInv, Settled, IsCustom, IsLegacy, Intended
  <2>3. pc' # "bind"
    BY DEF Commands
  <2> QED
    BY <2>2, <2>3 DEF ProgressInv, BindsWait
<1> QED
  BY <1>1, <1>2, <1>3 DEF IInv

LEMMA BootIInv == IInv /\ Boot => IInv'
<1> SUFFICES ASSUME IInv, Boot PROVE IInv'
  OBVIOUS
<1> QED
  BY StopIInv DEF Boot, Return, Disk, History, IInv, TypeOK

LEMMA PrepareMarkersIInv == IInv /\ PrepareMarkers => IInv'
<1> SUFFICES ASSUME IInv, PrepareMarkers PROVE IInv'
  OBVIOUS
<1>1. UNCHANGED <<path, marker, given, bound, faults, customs>> /\ at' = 1
  BY DEF PrepareMarkers, Return, History
<1>2. markerRoot' \in {"none", "private", "open", "other"} /\ pc' \in {"ensure", "failed"}
  BY DEF PrepareMarkers, Return, IInv, TypeOK
<1>3. TypeOK'
  <2>1. 1 \in Paths
    BY LayoutAssumption DEF Paths
  <2> QED
    BY <1>1, <1>2, <2>1 DEF IInv, TypeOK, Stopped, Commands
<1>4. DiskInv'
  BY <1>1 DEF IInv, DiskInv, UnfinishedIsMarked, CustomKept, HandedOverPrivate, Taken,
              IsCustom, IsLegacy, Intended
<1>5. StepInv'
  BY <1>2 DEF StepInv
<1>6. ProgressInv'
  <2>1. \A i \in Paths : ~(i < 1)
    BY LayoutAssumption DEF Paths
  <2> QED
    BY <1>1, <1>2, <2>1 DEF ProgressInv, BindsWait
<1> QED
  BY <1>3, <1>4, <1>5, <1>6 DEF IInv

LEMMA EnsureIInv == IInv /\ Ensure => IInv'
<1> SUFFICES ASSUME IInv, Ensure PROVE IInv'
  OBVIOUS
<1>1. pc = "ensure" /\ at \in Paths /\ UNCHANGED <<Disk, bound, History>>
      /\ path \in [Paths -> Entries] /\ marker \in [Paths -> {"none", "dir", "other"}]
  BY DEF Ensure, IInv, TypeOK
<1>2. CASE Refused(at)
  BY <1>1, <1>2, StopIInv DEF Ensure, Return, History, Disk, Stopped, IInv, TypeOK
<1>3. CASE ~Refused(at) /\ NeedsNothing(at)
  <2>1. NextPath
    BY <1>3 DEF Ensure
  <2>2. marker[at] = "none" /\ IsCustom(at, path[at])
    BY <1>3 DEF NeedsNothing
  <2>3. path[at] = Intended(at) \/ path[at] = given[at]
    BY <1>1, <2>2 DEF IInv, DiskInv, UnfinishedIsMarked
  <2> QED
    BY <1>1, <2>1, <2>2, <2>3, NextPathIInv DEF Disk, History
<1>4. CASE ~Refused(at) /\ ~NeedsNothing(at)
  <2>1. pc' = FirstCommand(at) /\ at' = at
    BY <1>4 DEF Ensure, Goto
  <2>2. path[at].kind \in {"none", "dir"} /\ marker[at] \in {"none", "dir"}
    BY <1>1, <1>4, EntryTypes DEF Refused
  <2>3. /\ marker[at] = "none" => pc' = "mark"
        /\ marker[at] = "dir" => pc' \in {"mkdir", "chmod"}
        /\ pc' = "chmod" => path[at].kind = "dir"
        /\ pc' \in {"mark", "mkdir", "chmod"}
    BY <2>1, <2>2 DEF FirstCommand
  <2>4. marker[at] = "none" => ~IsCustom(at, path[at])
    BY <1>4 DEF NeedsNothing
  <2>5. StepInv'
    BY <1>1, <2>1, <2>2, <2>3, <2>4 DEF StepInv, Disk, IsCustom, IsLegacy
  <2>6. marker[at] = "dir" => Taken(at)
    BY <1>1 DEF IInv, DiskInv
  <2>7. pc' # "mark" => marker'[at] = "dir" /\ Taken(at)'
    BY <1>1, <2>1, <2>2, <2>3, <2>6 DEF Taken, Disk, History, IsCustom, IsLegacy
  <2> QED
    BY <1>1, <2>1, <2>3, <2>5, <2>7, PathStepIInv DEF Disk, History, Commands
<1> QED
  BY <1>2, <1>3, <1>4

\* Before the marker is made the path is as it was found: no directory, or one
\* of the old layout.  So it may be taken.
LEMMA MarkMayTake ==
  ASSUME IInv, pc = "mark"
  PROVE  at \in Paths /\ Taken(at)
<1>1. at \in Paths /\ path \in [Paths -> Entries]
  BY DEF IInv, TypeOK, Commands
<1>2. marker[at] = "none" /\ ~IsCustom(at, path[at]) /\ path[at].kind \in {"none", "dir"}
  BY DEF IInv, StepInv
<1>3. path[at] = given[at]
  BY <1>1, <1>2, IntendedIsCustom DEF IInv, DiskInv, UnfinishedIsMarked
<1>4. path[at].owner = "root"
  <2>1. CASE path[at].kind = "dir"
    <3>1. path[at] = Dir("root", "0755")
      BY <1>2, <2>1 DEF IsCustom, IsLegacy
    <3> QED
      BY <3>1, DirTypes DEF Owners, Modes
  <2>2. CASE path[at].kind # "dir"
    BY <1>1, <2>2, EntryTypes
  <2> QED
    BY <2>1, <2>2
<1> QED
  BY <1>1, <1>2, <1>3, <1>4 DEF Taken

LEMMA MakeMarkerIInv == IInv /\ MakeMarker => IInv'
<1> SUFFICES ASSUME IInv, MakeMarker PROVE IInv'
  OBVIOUS
<1>1. /\ pc = "mark" /\ at' = at /\ pc' \in {"mkdir", "chmod"}
      /\ UNCHANGED <<path, markerRoot, bound, given, faults, customs>>
      /\ marker' = [marker EXCEPT ![at] = "dir"]
  BY DEF MakeMarker, Goto, History
<1>2. at \in Paths /\ Taken(at)
  BY <1>1, MarkMayTake
<1>3. path \in [Paths -> Entries] /\ marker \in [Paths -> {"none", "dir", "other"}]
  BY DEF IInv, TypeOK
<1>4. marker'[at] = "dir" /\ Taken(at)'
  BY <1>1, <1>2, <1>3 DEF Taken, IsCustom, IsLegacy
<1>5. StepInv'
  BY <1>1, <1>4 DEF MakeMarker, Goto, IInv, StepInv
<1> QED
  BY <1>1, <1>2, <1>3, <1>4, <1>5, PathStepIInv DEF Commands

\* A command that rewrites the entry of a path that has its marker.
LEMMA EntryStepIInv ==
  ASSUME IInv, pc \in {"mkdir", "chmod", "chown"}, NEW e \in Entries,
         path' = [path EXCEPT ![at] = e],
         e.kind = "dir", e.owner \in {"root", Owner[at]},
         e.owner = "session" => e.mode = Mode[at],
         pc' \in {"chmod", "chown", "rmdir"}, at' = at,
         pc' \in {"chown", "rmdir"} => e.mode = Mode[at],
         pc' = "rmdir" => e.owner = Owner[at],
         UNCHANGED <<marker, markerRoot, bound, History>>
  PROVE  IInv'
<1>1. /\ at \in Paths /\ path \in [Paths -> Entries]
      /\ marker \in [Paths -> {"none", "dir", "other"}]
  BY DEF IInv, TypeOK, Commands
<1>2. marker[at] = "dir"
  BY DEF IInv, StepInv
<1>3. ~IsCustom(at, given[at])
  BY <1>1, <1>2 DEF IInv, DiskInv, Taken
<1>4. path' \in [Paths -> Entries] /\ path'[at] = e
  BY <1>1
<1>5. Taken(at)'
  BY <1>3, <1>4 DEF Taken, History, IsCustom, IsLegacy
<1>6. StepInv'
  BY <1>2, <1>4 DEF StepInv
<1> QED
  BY <1>1, <1>2, <1>4, <1>5, <1>6, PathStepIInv DEF Commands, History

LEMMA MakePathIInv == IInv /\ MakePath => IInv'
<1> SUFFICES ASSUME IInv, MakePath PROVE IInv'
  OBVIOUS
<1>1. CASE ParentThere(at)
  <2> DEFINE e == Dir("root", Mode[at])
  <2>1. Mode[at] \in Modes
    BY LayoutAssumption DEF MakePath, IInv, TypeOK, Commands
  <2>2. e \in Entries /\ e.kind = "dir" /\ e.owner = "root" /\ e.mode = Mode[at]
    BY <2>1, DirTypes DEF Owners
  <2>3. pc = "mkdir" /\ path' = [path EXCEPT ![at] = e] /\ pc' = "chmod" /\ at' = at
        /\ UNCHANGED <<marker, markerRoot, bound, History>>
    BY <1>1 DEF MakePath, Goto
  <2> HIDE DEF e
  <2> QED
    BY <2>2, <2>3, EntryStepIInv
<1>2. CASE ~ParentThere(at)
  BY <1>2, StopIInv DEF MakePath, Return, Disk, History, Stopped, IInv, TypeOK
<1> QED
  BY <1>1, <1>2

LEMMA ChmodIInv == IInv /\ Chmod => IInv'
<1> SUFFICES ASSUME IInv, Chmod PROVE IInv'
  OBVIOUS
<1>1. pc = "chmod" /\ at \in Paths /\ path \in [Paths -> Entries] /\ Mode[at] \in Modes
  BY LayoutAssumption DEF Chmod, IInv, TypeOK, Commands
<1>2. path[at].kind = "dir" /\ path[at].owner \in {"root", Owner[at]}
  BY <1>1 DEF IInv, StepInv, DiskInv, Taken
<1> DEFINE e == Dir(path[at].owner, Mode[at])
<1>3. e = [path[at] EXCEPT !.mode = Mode[at]]
  BY <1>1, <1>2, EntryTypes
<1>4. e \in Entries /\ e.kind = "dir" /\ e.owner = path[at].owner /\ e.mode = Mode[at]
  BY <1>1, EntryTypes, DirTypes
<1>5. path' = [path EXCEPT ![at] = e]
  BY <1>1, <1>3 DEF Chmod
<1> HIDE DEF e
<1> QED
  BY <1>1, <1>2, <1>4, <1>5, EntryStepIInv DEF Chmod, Goto

LEMMA ChownIInv == IInv /\ Chown => IInv'
<1> SUFFICES ASSUME IInv, Chown PROVE IInv'
  OBVIOUS
<1>1. pc = "chown" /\ at \in Paths /\ path \in [Paths -> Entries] /\ Owner[at] \in Owners
  BY LayoutAssumption DEF Chown, IInv, TypeOK, Commands, Owners
<1>2. path[at].kind = "dir" /\ path[at].mode = Mode[at]
  BY <1>1 DEF IInv, StepInv
<1> DEFINE e == Dir(Owner[at], path[at].mode)
<1>3. e = [path[at] EXCEPT !.owner = Owner[at]]
  BY <1>1, <1>2, EntryTypes
<1>4. e \in Entries /\ e.kind = "dir" /\ e.owner = Owner[at] /\ e.mode = Mode[at]
  BY <1>1, <1>2, EntryTypes, DirTypes
<1>5. path' = [path EXCEPT ![at] = e]
  BY <1>1, <1>3 DEF Chown
<1> HIDE DEF e
<1> QED
  BY <1>1, <1>2, <1>4, <1>5, EntryStepIInv DEF Chown, Goto

LEMMA RemoveMarkerIInv == IInv /\ RemoveMarker => IInv'
<1> SUFFICES ASSUME IInv, RemoveMarker PROVE IInv'
  OBVIOUS
<1>1. /\ pc = "rmdir" /\ at \in Paths /\ path \in [Paths -> Entries]
      /\ marker \in [Paths -> {"none", "dir", "other"}]
  BY DEF RemoveMarker, IInv, TypeOK, Commands
<1>2. path[at].kind = "dir" /\ path[at].mode = Mode[at] /\ path[at].owner = Owner[at]
  BY <1>1 DEF IInv, StepInv
<1>3. path[at] = Intended(at)
  BY <1>1, <1>2, EntryTypes DEF Intended
<1>4. marker' = [marker EXCEPT ![at] = "none"]
  BY DEF RemoveMarker
<1>5. /\ marker' \in [Paths -> {"none", "dir", "other"}] /\ marker'[at] = "none"
      /\ \A i \in Paths : i # at => marker'[i] = marker[i]
  BY <1>1, <1>4
<1> QED
  BY <1>1, <1>3, <1>5, NextPathIInv DEF RemoveMarker, History, Commands

LEMMA BindIInv == IInv /\ Bind => IInv'
<1> SUFFICES ASSUME IInv, Bind PROVE IInv'
  OBVIOUS
<1>1. /\ pc = "bind" /\ pc' \in {"bind", "ready"} /\ UNCHANGED <<Disk, History>>
      /\ Len(Binds) \in Nat
  BY LayoutAssumption DEF Bind, Return
<1>2. TypeOK'
  <2>1. CASE at <= Len(Binds)
    <3>1. Binds[at] \in Paths
      BY <2>1, <1>1, LayoutAssumption DEF IInv, TypeOK
    <3> QED
      BY <1>1, <2>1, <3>1 DEF Bind, IInv, TypeOK, Disk, History, Commands, Stopped
  <2>2. CASE ~(at <= Len(Binds))
    BY <1>1, <2>2 DEF Bind, Return, IInv, TypeOK, Disk, History, Commands, Stopped
  <2> QED
    BY <2>1, <2>2
<1>3. DiskInv'
  BY <1>1 DEF IInv, DiskInv, UnfinishedIsMarked, CustomKept, HandedOverPrivate, Taken,
              IsCustom, IsLegacy, Intended, Disk, History
<1>4. StepInv'
  BY <1>1 DEF StepInv
<1>5. \A i \in Paths : Settled(i)'
  BY <1>1 DEF IInv, ProgressInv, BindsWait, Settled, IsCustom, IsLegacy, Intended,
              Disk, History
<1>6. ProgressInv'
  BY <1>1, <1>5 DEF ProgressInv, BindsWait, Commands
<1> QED
  BY <1>2, <1>3, <1>4, <1>6 DEF IInv

-----------------------------------------------------------------------------
(* Faults and changes by hand                                              *)

\* What a half-done mkdir -m leaves behind is a state the next start expects.
LEMMA TornEntryDisk ==
  ASSUME IInv, TornEntry, given' = given
  PROVE  /\ DiskInv'
         /\ path' \in [Paths -> Entries]
         /\ marker' \in [Paths -> {"none", "dir", "other"}]
         /\ markerRoot' \in {"none", "private", "open", "other"}
<1>0. /\ path \in [Paths -> Entries] /\ marker \in [Paths -> {"none", "dir", "other"}]
      /\ markerRoot \in {"none", "private", "open", "other"}
  BY DEF IInv, TypeOK
<1>1. CASE UNCHANGED <<path, marker>> /\ markerRoot' \in {markerRoot, "open"}
  BY <1>0, <1>1 DEF IInv, DiskInv, UnfinishedIsMarked, CustomKept, HandedOverPrivate,
                    Taken, IsCustom, IsLegacy, Intended
<1>2. CASE /\ pc = "mark" /\ marker' = [marker EXCEPT ![at] = "dir"]
           /\ UNCHANGED <<path, markerRoot>>
  <2>1. at \in Paths /\ Taken(at)
    BY <1>2, MarkMayTake
  <2> QED
    BY <1>0, <1>2, <2>1 DEF IInv, DiskInv, UnfinishedIsMarked, CustomKept,
                            HandedOverPrivate, Taken, IsCustom, IsLegacy, Intended
<1>3. CASE /\ pc = "mkdir" /\ path' = [path EXCEPT ![at] = Dir("root", "0755")]
           /\ UNCHANGED <<marker, markerRoot>>
  <2>1. at \in Paths /\ marker[at] = "dir"
    BY <1>3 DEF IInv, TypeOK, StepInv, Commands
  <2>2. ~IsCustom(at, given[at])
    BY <2>1 DEF IInv, DiskInv, Taken
  <2>3. Dir("root", "0755") \in Entries /\ Dir("root", "0755").owner = "root"
    BY DirTypes DEF Owners, Modes
  <2> QED
    BY <1>0, <1>3, <2>1, <2>2, <2>3
       DEF IInv, DiskInv, UnfinishedIsMarked, CustomKept, HandedOverPrivate, Taken,
           IsCustom, IsLegacy, Intended
<1> QED
  BY <1>1, <1>2, <1>3 DEF TornEntry, Disk

\* The script stops, by an error or with the machine, wherever it is.
LEMMA FaultIInv ==
  ASSUME IInv, TornEntry, given' = given, pc' \in {"off", "failed"}, at' = 1,
         bound' \in {bound, {}}, faults' \in 0..MaxFaults, customs' = customs
  PROVE  IInv'
<1>1. TypeOK'
  BY TornEntryDisk DEF IInv, TypeOK, Stopped, Commands
<1>2. StepInv' /\ ProgressInv'
  BY DEF StepInv, ProgressInv, BindsWait, Commands
<1> QED
  BY <1>1, <1>2, TornEntryDisk DEF IInv

LEMMA OneMoreFault == TypeOK /\ faults < MaxFaults => faults + 1 \in 0..MaxFaults
BY LayoutAssumption DEF TypeOK

LEMMA CommandFailsIInv == IInv /\ CommandFails => IInv'
<1> SUFFICES ASSUME IInv, CommandFails PROVE IInv'
  OBVIOUS
<1>1. TornEntry /\ given' = given /\ pc' = "failed" /\ at' = 1 /\ bound' = bound
      /\ customs' = customs /\ faults' = faults + 1 /\ faults < MaxFaults
  BY DEF CommandFails, Return
<1> QED
  BY <1>1, FaultIInv, OneMoreFault DEF IInv

LEMMA PowerLossIInv == IInv /\ PowerLoss => IInv'
<1> SUFFICES ASSUME IInv, PowerLoss PROVE IInv'
  OBVIOUS
<1>1. TornEntry /\ given' = given /\ pc' = "off" /\ at' = 1 /\ bound' = {}
      /\ customs' = customs /\ faults' = faults + 1 /\ faults < MaxFaults
  BY DEF PowerLoss, Return
<1> QED
  BY <1>1, FaultIInv, OneMoreFault DEF IInv

LEMMA ShutdownIInv == IInv /\ Shutdown => IInv'
<1> SUFFICES ASSUME IInv, Shutdown PROVE IInv'
  OBVIOUS
<1> QED
  BY StopIInv DEF Shutdown, Return, Disk, History, Stopped, IInv, TypeOK

LEMMA CustomizeIInv == IInv /\ Customize => IInv'
<1> SUFFICES ASSUME IInv, Customize PROVE IInv'
  OBVIOUS
<1>1. PICK i \in Paths, o \in Owners, m \in Modes :
        /\ path[i].kind = "dir" /\ marker[i] = "none"
        /\ path' = [path EXCEPT ![i] = Dir(o, m)]
        /\ given' = [given EXCEPT ![i] = Dir(o, m)]
  BY DEF Customize
<1>2. /\ pc \in Stopped /\ UNCHANGED <<marker, markerRoot, pc, at, bound, faults>>
      /\ customs' = customs + 1 /\ customs < MaxCustom
  BY DEF Customize
<1>3. /\ path \in [Paths -> Entries] /\ given \in [Paths -> Entries]
      /\ marker \in [Paths -> {"none", "dir", "other"}] /\ Dir(o, m) \in Entries
  BY DirTypes DEF IInv, TypeOK
<1>4. TypeOK'
  <2>1. customs' \in 0..MaxCustom
    BY <1>2, LayoutAssumption DEF IInv, TypeOK
  <2>2. path' \in [Paths -> Entries] /\ given' \in [Paths -> Entries]
    BY <1>1, <1>3
  <2> QED
    BY <1>2, <2>1, <2>2 DEF IInv, TypeOK
<1>5. DiskInv'
  <2>1. path'[i] = given'[i] /\ marker'[i] = "none"
    BY <1>1, <1>2, <1>3
  <2>2. \A j \in Paths : j # i => /\ path'[j] = path[j] /\ given'[j] = given[j]
                                  /\ marker'[j] = marker[j]
    BY <1>1, <1>2, <1>3
  <2> QED
    BY <2>1, <2>2 DEF IInv, DiskInv, UnfinishedIsMarked, CustomKept, HandedOverPrivate,
                      Taken, IsCustom, IsLegacy, Intended
<1>6. StepInv' /\ ProgressInv'
  BY <1>2 DEF StepInv, ProgressInv, BindsWait, Commands, Stopped
<1> QED
  BY <1>4, <1>5, <1>6 DEF IInv

LEMMA StutterIInv == IInv /\ UNCHANGED vars => IInv'
BY DEF IInv, vars, TypeOK, DiskInv, UnfinishedIsMarked, CustomKept, HandedOverPrivate,
       Taken, StepInv, ProgressInv, BindsWait, Settled, IsCustom, IsLegacy, Intended

LEMMA NextIInv == IInv /\ [Next]_vars => IInv'
BY BootIInv, PrepareMarkersIInv, EnsureIInv, MakeMarkerIInv, MakePathIInv, ChmodIInv,
   ChownIInv, RemoveMarkerIInv, BindIInv, ShutdownIInv, CommandFailsIInv, PowerLossIInv,
   CustomizeIInv, StutterIInv DEF Next, Script

LEMMA Invariance == Spec => []IInv
<1> QED
  BY InitIInv, NextIInv, PTL DEF Spec

-----------------------------------------------------------------------------
(* The theorems                                                            *)

\* Every reachable state of the preparation is well typed, for any layout.
THEOREM StateTypes == Spec => []TypeOK
<1>1. IInv => TypeOK
  BY DEF IInv
<1> QED
  BY <1>1, Invariance, PTL

\* For every layout, and whatever failed or lost power before: when the first
\* bind is made every path is as intended or as its owner set it.
THEOREM NothingBoundEarly == Spec => []BindsWait
<1>1. IInv => BindsWait
  BY DEF IInv, ProgressInv
<1> QED
  BY <1>1, Invariance, PTL

\* For every layout: a path changed only in part has its marker on the disk,
\* at every point where the power may go.
THEOREM UnfinishedMarked == Spec => []UnfinishedIsMarked
<1>1. IInv => UnfinishedIsMarked
  BY DEF IInv, DiskInv
<1> QED
  BY <1>1, Invariance, PTL

\* For every layout: settings of the owner's are never reset.
THEOREM CustomSurvives == Spec => []CustomKept
<1>1. IInv => CustomKept
  BY DEF IInv, DiskInv
<1> QED
  BY <1>1, Invariance, PTL

\* For every layout: the session user never owns a path that is public and
\* was not set so by hand.
THEOREM HandOverIsPrivate == Spec => []HandedOverPrivate
<1>1. IInv => HandedOverPrivate
  BY DEF IInv, DiskInv
<1> QED
  BY <1>1, Invariance, PTL
=============================================================================
