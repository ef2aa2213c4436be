------------------------ MODULE DiskInstallerProofs ------------------------
(***************************************************************************)
(* The installer's promises for any number of drives, disks, installers    *)
(* and runs.                                                               *)
(***************************************************************************)
EXTENDS DiskInstaller, SequenceTheorems, TLAPS

(* Of the types only what the arguments need.                              *)
Slot == [path : Drives, node : Nat, cap : Capacities]
Ids == [path : Drives, node : Nat, seq : Nat] \union {NoDisk}
Runs == [path : Drives \union {""}, want : Ids, noted : Nat, out : Nat,
         expected : Nat, copied : Nat, since : Nat]

Ready(p) == pc[p] \in {"size", "copy", "verify", "sync"}
Busy(p) == pc[p] \in {"stat", "open", "check"} \/ Ready(p)

Typed ==
  /\ disks \in Seq(Slot)
  /\ at \in [Drives -> Nat]
  /\ \A n \in Drives : at[n] <= Len(disks)
  /\ image \in [size : Nat, gen : Nat]
  /\ scan \in [Drives -> [st : {"todo", "path", "done", "none"}, node : Nat, seq : Nat]]
  /\ list \subseteq [path : Drives, node : Nat, seq : Nat]
  /\ target \in Ids
  /\ pc \in [Procs -> {"idle", "scan", "stat", "open", "check", "size", "copy",
                       "verify", "sync"}]
  /\ run \in [Procs -> Runs]
  /\ \A p \in Procs : Busy(p) => run[p].path \in Drives

-----------------------------------------------------------------------------
(* What the steps do to the locals of the installers.                      *)

LEMMA GuiIsProc == Gui \in Procs
BY DEF Procs

LEMMA SizesAreNat == \A k \in 1..MaxSize : k \in Nat
OBVIOUS

LEMMA NewRunTyped ==
  ASSUME NEW n \in Drives \union {""}, NEW want \in Ids
  PROVE  NewRun(n, want) \in Runs
BY DEF NewRun, Runs, Free

LEMMA NodeTyped ==
  ASSUME Typed, NEW n \in Drives, at[n] # Free
  PROVE  at[n] \in DOMAIN disks /\ NodeAt(n) \in Nat
<1>1. at[n] \in 1..Len(disks)
  BY DEF Typed, Free
<1>2. disks \in Seq(Slot)
  BY DEF Typed
<1>3. disks[at[n]] \in Slot
  BY <1>1, <1>2, ElementOfSeq
<1> QED
  BY <1>1, <1>2, <1>3 DEF NodeAt, Slot

LEMMA FieldTyped ==
  ASSUME NEW r \in Runs, NEW i \in Nat, NEW j \in Nat
  PROVE  /\ [r EXCEPT !.noted = i] \in Runs
         /\ [r EXCEPT !.out = i] \in Runs
         /\ [r EXCEPT !.copied = i] \in Runs
         /\ [r EXCEPT !.expected = i, !.since = j] \in Runs
         /\ [r EXCEPT !.noted = i].path = r.path
         /\ [r EXCEPT !.out = i].path = r.path
         /\ [r EXCEPT !.copied = i].path = r.path
         /\ [r EXCEPT !.expected = i, !.since = j].path = r.path
BY DEF Runs

\* One field changes and the others stay.
LEMMA FieldKeeps ==
  ASSUME NEW r \in Runs, NEW i \in Nat
  PROVE  /\ [r EXCEPT !.out = i].out = i
         /\ [r EXCEPT !.noted = i].out = r.out
         /\ [r EXCEPT !.copied = i].out = r.out
         /\ [r EXCEPT !.noted = i].want = r.want
         /\ [r EXCEPT !.out = i].want = r.want
         /\ [r EXCEPT !.copied = i].want = r.want
BY DEF Runs

LEMMA SizeKeeps ==
  ASSUME NEW r \in Runs, NEW i \in Nat, NEW j \in Nat
  PROVE  /\ [r EXCEPT !.expected = i, !.since = j].out = r.out
         /\ [r EXCEPT !.expected = i, !.since = j].want = r.want
         /\ [r EXCEPT !.expected = i, !.since = j].path = r.path
BY DEF Runs

LEMMA SetRunTyped ==
  ASSUME Typed, NEW p \in Procs, pc[p] # "idle", pc[p] # "scan",
         NEW r \in Runs, r.path = run[p].path,
         run' = [run EXCEPT ![p] = r],
         NEW step \in {"open", "check", "size", "copy"},
         pc' = [pc EXCEPT ![p] = step]
  PROVE  /\ pc' \in [Procs -> {"idle", "scan", "stat", "open", "check", "size", "copy",
                               "verify", "sync"}]
         /\ run' \in [Procs -> Runs]
         /\ \A q \in Procs : Busy(q)' => run'[q].path \in Drives
BY DEF Typed, Busy, Ready

LEMMA FinishTyped ==
  ASSUME Typed, NEW p \in Procs, NEW how, Finish(p, how)
  PROVE  /\ pc' \in [Procs -> {"idle", "scan", "stat", "open", "check", "size", "copy",
                               "verify", "sync"}]
         /\ run' \in [Procs -> Runs]
         /\ \A q \in Procs : Busy(q)' => run'[q].path \in Drives
<1>1. NewRun("", NoDisk) \in Runs
  BY NewRunTyped DEF Ids
<1> QED
  BY <1>1 DEF Typed, Finish, Busy, Ready

LEMMA InitTyped == Init => Typed
<1> SUFFICES ASSUME Init PROVE Typed
  OBVIOUS
<1>1. disks \in Seq(Slot) /\ Len(disks) = 0
  BY EmptySeq DEF Init
<1>2. at \in [Drives -> Nat] /\ \A n \in Drives : at[n] <= Len(disks)
  <2>1. \A n \in Drives : at[n] = 0
    BY DEF Init, Free
  <2>2. at = [n \in Drives |-> 0]
    BY DEF Init, Free
  <2> QED
    BY <1>1, <2>1, <2>2
<1>3. run \in [Procs -> Runs]
  BY NewRunTyped DEF Init, Ids
<1>4. target \in Ids
  BY DEF Init, Ids
<1>5. image \in [size : Nat, gen : Nat]
  <2>1. image \in [size : 1..MaxSize, gen : {0}]
    BY DEF Init
  <2> QED
    BY <2>1, SizesAreNat
<1> QED
  BY <1>1, <1>2, <1>3, <1>4, <1>5 DEF Init, Typed, Unscanned, Free, Busy, Ready

LEMMA InsertTyped ==
  ASSUME Typed, NEW n \in Drives, NEW node \in Nat, Insert(n, node)
  PROVE  /\ Typed'
         /\ Len(disks') = Len(disks) + 1 /\ Len(disks) \in Nat
         /\ \A i \in 1..Len(disks) : disks'[i] = disks[i]
<1>1. disks \in Seq(Slot) /\ Len(disks) \in Nat
  BY LenProperties DEF Typed
<1>2. PICK cap \in Capacities :
        disks' = Append(disks, [path |-> n, node |-> node, cap |-> cap])
  BY DEF Insert
<1>3. [path |-> n, node |-> node, cap |-> cap] \in Slot
  BY DEF Slot
<1>4. /\ disks' \in Seq(Slot) /\ Len(disks') = Len(disks) + 1
      /\ \A i \in 1..Len(disks) : disks'[i] = disks[i]
  BY <1>1, <1>2, <1>3, AppendProperties
<1>5. at' \in [Drives -> Nat] /\ \A d \in Drives : at'[d] <= Len(disks')
  BY <1>1, <1>4 DEF Insert, Typed
<1> QED
  BY <1>1, <1>4, <1>5 DEF Insert, Typed, Busy, Ready, view, procs

LEMMA NextTyped ==
  ASSUME Typed, [Next]_vars
  PROVE  Typed'
<1>1. CASE Refresh
  BY <1>1, GuiIsProc DEF Refresh, Goto, Unscanned, Free, Typed, Busy, Ready, world
<1>2. ASSUME NEW n \in Drives, ScanPath(n) PROVE Typed'
  <2>1. at[n] # Free => NodeAt(n) \in Nat
    BY NodeTyped
  <2> QED
    BY <1>2, <2>1 DEF ScanPath, Typed, Busy, Ready, world, procs
<1>3. ASSUME NEW n \in Drives, ScanSys(n) PROVE Typed'
  BY <1>3 DEF ScanSys, Typed, Busy, Ready, world, procs
<1>4. CASE ScanEnd
  <2>1. list' \subseteq [path : Drives, node : Nat, seq : Nat]
    <3>1. \A m \in Drives : Identity(m, scan[m].node, scan[m].seq)
                               \in [path : Drives, node : Nat, seq : Nat]
      BY DEF Identity, Typed
    <3> QED
      BY <1>4, <3>1 DEF ScanEnd
  <2>2. NoDisk \in Ids
    BY DEF Ids
  <2> QED
    BY <1>4, <2>1, <2>2, GuiIsProc DEF ScanEnd, Goto, Typed, Busy, Ready, world
<1>5. ASSUME NEW d \in list, Select(d) PROVE Typed'
  BY <1>5 DEF Select, Typed, Ids, Busy, Ready, world, procs
<1>6. CASE Type
  BY <1>6 DEF Type, Typed, Busy, Ready, world, procs
<1>7. CASE Install
  <2>1. NewRun(target.path, target) \in Runs
    BY <1>7, NewRunTyped DEF Install, Typed, Ids
  <2>2. target.path \in Drives
    BY <1>7 DEF Install, Typed, Ids
  <2> QED
    BY <1>7, <2>1, <2>2, GuiIsProc DEF Install, Start, Typed, Busy, Ready, NewRun, world, view
<1>8. ASSUME NEW p \in Clis, NEW n \in Drives, RunCli(p, n) PROVE Typed'
  <2>1. NewRun(n, NoDisk) \in Runs
    BY NewRunTyped DEF Ids
  <2>2. p \in Procs
    BY DEF Procs
  <2> QED
    BY <1>8, <2>1, <2>2 DEF RunCli, Start, Typed, Busy, Ready, NewRun, world, view
<1>9. ASSUME NEW p \in Procs, Stat(p) PROVE Typed'
  <2>1. UNCHANGED <<disks, at, image, scan, list, target>>
    BY <1>9 DEF Stat, world, view
  <2>3. CASE at[run[p].path] = Free
    <3>1. Finish(p, "failed")
      BY <1>9, <2>3 DEF Stat
    <3> QED
      BY <2>1, <3>1, FinishTyped DEF Typed
  <2>4. CASE ~(at[run[p].path] = Free)
    <3>1. run[p].path \in Drives
      BY <1>9 DEF Stat, Typed, Busy
    <3>2. NodeAt(run[p].path) \in Nat
      BY <2>4, <3>1, NodeTyped
    <3>3. run[p] \in Runs
      BY DEF Typed
    <3> DEFINE r == [run[p] EXCEPT !.noted = NodeAt(run[p].path)]
    <3>4. r \in Runs /\ r.path = run[p].path
      BY <3>2, <3>3, FieldTyped
    <3>5. pc[p] = "stat" /\ pc' = [pc EXCEPT ![p] = "open"] /\ run' = [run EXCEPT ![p] = r]
      BY <1>9, <2>4 DEF Stat, Goto
    <3> HIDE DEF r
    <3> QED
      BY <2>1, <3>4, <3>5, SetRunTyped DEF Typed
  <2> QED
    BY <2>3, <2>4
<1>10. ASSUME NEW p \in Procs, OpenDisk(p) PROVE Typed'
  <2>1. UNCHANGED <<disks, at, image, scan, list, target>>
    BY <1>10 DEF OpenDisk, world, view
  <2>3. CASE at[run[p].path] = Free \/ Claimed(at[run[p].path])
    <3>1. Finish(p, "failed")
      BY <1>10, <2>3 DEF OpenDisk
    <3> QED
      BY <2>1, <3>1, FinishTyped DEF Typed
  <2>4. CASE ~(at[run[p].path] = Free \/ Claimed(at[run[p].path]))
    <3>1. run[p].path \in Drives
      BY <1>10 DEF OpenDisk, Typed, Busy
    <3>2. at[run[p].path] \in Nat
      BY <3>1 DEF Typed
    <3>3. run[p] \in Runs
      BY DEF Typed
    <3> DEFINE r == [run[p] EXCEPT !.out = at[run[p].path]]
    <3>4. r \in Runs /\ r.path = run[p].path
      BY <3>2, <3>3, FieldTyped
    <3>5. pc[p] = "open" /\ pc' = [pc EXCEPT ![p] = "check"] /\ run' = [run EXCEPT ![p] = r]
      BY <1>10, <2>4 DEF OpenDisk, Goto
    <3> HIDE DEF r
    <3> QED
      BY <2>1, <3>4, <3>5, SetRunTyped DEF Typed
  <2> QED
    BY <2>3, <2>4
<1>11. ASSUME NEW p \in Procs, Check(p) PROVE Typed'
  <2>1. UNCHANGED <<disks, at, image, scan, list, target>>
    BY <1>11 DEF Check, world, view
  <2>3. CASE ~(SameDisk(p) /\ disks[run[p].out].node = run[p].noted)
    <3>1. Finish(p, "failed")
      BY <1>11, <2>3 DEF Check
    <3> QED
      BY <2>1, <3>1, FinishTyped DEF Typed
  <2>4. CASE ~(~(SameDisk(p) /\ disks[run[p].out].node = run[p].noted))
    BY <1>11, <2>1, <2>4 DEF Check, Goto, Typed, Busy, Ready
  <2> QED
    BY <2>3, <2>4
<1>12. ASSUME NEW p \in Procs, Size(p) PROVE Typed'
  <2>1. UNCHANGED <<disks, at, image, scan, list, target>>
    BY <1>12 DEF Size, world, view
  <2>3. CASE image.size > disks[run[p].out].cap
    <3>1. Finish(p, "failed")
      BY <1>12, <2>3 DEF Size
    <3> QED
      BY <2>1, <3>1, FinishTyped DEF Typed
  <2>4. CASE ~(image.size > disks[run[p].out].cap)
    <3>1. image.size \in Nat /\ image.gen \in Nat
      BY DEF Typed
    <3>3. run[p] \in Runs
      BY DEF Typed
    <3> DEFINE r == [run[p] EXCEPT !.expected = image.size, !.since = image.gen]
    <3>4. r \in Runs /\ r.path = run[p].path
      BY <3>1, <3>3, FieldTyped
    <3>5. pc[p] = "size" /\ pc' = [pc EXCEPT ![p] = "copy"] /\ run' = [run EXCEPT ![p] = r]
      BY <1>12, <2>4 DEF Size, Goto
    <3> HIDE DEF r
    <3> QED
      BY <2>1, <3>4, <3>5, SetRunTyped DEF Typed
  <2> QED
    BY <2>3, <2>4
<1>13. ASSUME NEW p \in Procs, Copy(p) PROVE Typed'
  <2>1. UNCHANGED <<disks, at, image, scan, list, target>>
    BY <1>13 DEF Copy, world, view
  <2>2. CASE Finish(p, "failed")
    BY <2>1, <2>2, FinishTyped DEF Typed
  <2>3. CASE WriteBlock(p)
    <3>1. run[p] \in Runs
      BY DEF Typed
    <3>2. run[p].copied \in Nat
      BY <3>1 DEF Runs
    <3>3. run[p] \in Runs /\ run[p].copied + 1 \in Nat
      BY ONLY <3>1, <3>2
    <3> DEFINE r == [run[p] EXCEPT !.copied = run[p].copied + 1]
    <3>4. r \in Runs /\ r.path = run[p].path
      BY <3>3, FieldTyped
    <3>5. pc[p] = "copy" /\ UNCHANGED pc /\ run' = [run EXCEPT ![p] = r]
      BY <1>13, <2>3 DEF Copy, WriteBlock
    <3> HIDE DEF r
    <3> QED
      BY <2>1, <3>4, <3>5 DEF Typed, Busy, Ready
  <2>4. CASE Goto(p, "verify") /\ UNCHANGED run
    BY <1>13, <2>1, <2>4 DEF Copy, Goto, Typed, Busy, Ready
  <2> QED
    BY <1>13, <2>2, <2>3, <2>4 DEF Copy
<1>14. ASSUME NEW p \in Procs, Verify(p) PROVE Typed'
  <2>1. UNCHANGED <<disks, at, image, scan, list, target>>
    BY <1>14 DEF Verify, world, view
  <2>3. CASE ~(run[p].copied = run[p].expected /\ image.size <= run[p].copied)
    <3>1. Finish(p, "failed")
      BY <1>14, <2>3 DEF Verify
    <3> QED
      BY <2>1, <3>1, FinishTyped DEF Typed
  <2>4. CASE ~(~(run[p].copied = run[p].expected /\ image.size <= run[p].copied))
    BY <1>14, <2>1, <2>4 DEF Verify, Goto, Typed, Busy, Ready
  <2> QED
    BY <2>3, <2>4
<1>15. ASSUME NEW p \in Procs, Sync(p) PROVE Typed'
  <2>1. UNCHANGED <<disks, at, image, scan, list, target>>
    BY <1>15 DEF Sync, world, view
  <2> QED
    BY <1>15, <2>1, FinishTyped DEF Sync, Typed
<1>16. ASSUME NEW p \in Procs, Fail(p) PROVE Typed'
  <2>1. UNCHANGED <<disks, at, image, scan, list, target>>
    BY <1>16 DEF Fail, world, view
  <2> QED
    BY <1>16, <2>1, FinishTyped DEF Fail, Typed
<1>17. ASSUME NEW n \in Drives, Plug(n) PROVE Typed'
  <2>1. Insert(n, (Len(disks) + 1)) /\ (Len(disks) + 1) \in Nat
    BY <1>17, LenProperties DEF Plug, Typed
  <2> QED
    BY <2>1, InsertTyped
<1>18. ASSUME NEW n \in Drives, Swap(n) PROVE Typed'
  <2>1. Insert(n, NodeAt(n)) /\ NodeAt(n) \in Nat
    BY <1>18, NodeTyped DEF Swap
  <2> QED
    BY <2>1, InsertTyped
<1>19. ASSUME NEW n \in Drives, Pull(n) PROVE Typed'
  BY <1>19 DEF Pull, Free, Typed, Busy, Ready, view, procs
<1>20. ASSUME NEW n \in Drives, Mount(n) PROVE Typed'
  BY <1>20 DEF Mount, Typed, Busy, Ready, view, procs
<1>21. ASSUME NEW n \in Drives, Unmount(n) PROVE Typed'
  BY <1>21 DEF Unmount, Typed, Busy, Ready, view, procs
<1>22. CASE Rewrite
  <2>1. image' \in [size : Nat, gen : Nat]
    <3>1. image.gen + 1 \in Nat
      BY DEF Typed
    <3> QED
      BY <1>22, <3>1, SizesAreNat DEF Rewrite
  <2> QED
    BY <1>22, <2>1 DEF Rewrite, Typed, Busy, Ready, view, procs
<1>23. CASE UNCHANGED vars
  BY <1>23 DEF vars, Typed, Busy, Ready, world, view, procs
<1> QED
  BY <1>1, <1>2, <1>3, <1>4, <1>5, <1>6, <1>7, <1>8, <1>9, <1>10,
     <1>11, <1>12, <1>13, <1>14, <1>15, <1>16, <1>17, <1>18, <1>19, <1>20,
     <1>21, <1>22, <1>23
  DEF Next, Window, Inner, Outside, Procs

-----------------------------------------------------------------------------
(* Who has a disk open has it alone.                                       *)
Opened(p) == pc[p] = "check" \/ Ready(p)

AloneInv ==
  \A p \in Procs :
    /\ run[p].out # Free <=> Opened(p)
    /\ Opened(p) => run[p].out \notin mounted
    /\ \A q \in Procs \ {p} : Opened(p) => run[q].out # run[p].out

\* What happens to an installer's open disk in a step.
LEMMA FinishOut ==
  ASSUME Typed, NEW p \in Procs, NEW how, Finish(p, how)
  PROVE  /\ run'[p].out = Free /\ ~Opened(p)'
         /\ \A q \in Procs \ {p} : run'[q] = run[q] /\ pc'[q] = pc[q]
BY DEF Typed, Finish, NewRun, Opened, Ready

\* The locals of p are set to r; the others keep theirs.
Sets(p, r) ==
  /\ run'[p] = r /\ r.path = run[p].path /\ r.want = run[p].want
  /\ \A q \in Procs \ {p} : run'[q] = run[q]

LEMMA StatSets ==
  ASSUME Typed, NEW p \in Procs, Stat(p), at[run[p].path] # Free
  PROVE  /\ Sets(p, [run[p] EXCEPT !.noted = NodeAt(run[p].path)])
         /\ run'[p].out = run[p].out
         /\ pc[p] = "stat" /\ pc' = [pc EXCEPT ![p] = "open"]
<1>1. run[p].path \in Drives
  BY DEF Stat, Typed, Busy
<1>2. NodeAt(run[p].path) \in Nat
  BY <1>1, NodeTyped
<1>3. run \in [Procs -> Runs] /\ run[p] \in Runs
  BY DEF Typed
<1> DEFINE r == [run[p] EXCEPT !.noted = NodeAt(run[p].path)]
<1>4. r.path = run[p].path /\ r.out = run[p].out /\ r.want = run[p].want
  BY <1>2, <1>3, FieldTyped, FieldKeeps
<1>5. run' = [run EXCEPT ![p] = r] /\ pc[p] = "stat" /\ pc' = [pc EXCEPT ![p] = "open"]
  BY DEF Stat, Goto
<1> HIDE DEF r
<1>6. Sets(p, r) /\ run'[p].out = run[p].out
  BY <1>3, <1>4, <1>5 DEF Sets
<1> QED
  BY <1>5, <1>6 DEF r

LEMMA OpenSets ==
  ASSUME Typed, NEW p \in Procs, OpenDisk(p),
         at[run[p].path] # Free, ~Claimed(at[run[p].path])
  PROVE  /\ run[p].path \in Drives
         /\ Sets(p, [run[p] EXCEPT !.out = at[run[p].path]])
         /\ run'[p].out = at[run[p].path]
         /\ pc[p] = "open" /\ pc' = [pc EXCEPT ![p] = "check"]
<1>1. run[p].path \in Drives
  BY DEF OpenDisk, Typed, Busy
<1>2. at[run[p].path] \in Nat
  BY <1>1 DEF Typed
<1>3. run \in [Procs -> Runs] /\ run[p] \in Runs
  BY DEF Typed
<1> DEFINE r == [run[p] EXCEPT !.out = at[run[p].path]]
<1>4. r.path = run[p].path /\ r.out = at[run[p].path] /\ r.want = run[p].want
  BY <1>2, <1>3, FieldTyped, FieldKeeps
<1>5. run' = [run EXCEPT ![p] = r] /\ pc[p] = "open" /\ pc' = [pc EXCEPT ![p] = "check"]
  BY DEF OpenDisk, Goto
<1> HIDE DEF r
<1>6. Sets(p, r) /\ run'[p].out = at[run[p].path]
  BY <1>3, <1>4, <1>5 DEF Sets
<1> QED
  BY <1>1, <1>5, <1>6 DEF r

LEMMA SizeSets ==
  ASSUME Typed, NEW p \in Procs, Size(p), ~(image.size > disks[run[p].out].cap)
  PROVE  /\ Sets(p, [run[p] EXCEPT !.expected = image.size, !.since = image.gen])
         /\ run'[p].out = run[p].out
         /\ pc[p] = "size" /\ pc' = [pc EXCEPT ![p] = "copy"]
<1>2. image.size \in Nat /\ image.gen \in Nat
  BY DEF Typed
<1>3. run \in [Procs -> Runs] /\ run[p] \in Runs
  BY DEF Typed
<1> DEFINE r == [run[p] EXCEPT !.expected = image.size, !.since = image.gen]
<1>4. r.path = run[p].path /\ r.out = run[p].out /\ r.want = run[p].want
  BY <1>2, <1>3, SizeKeeps
<1>5. run' = [run EXCEPT ![p] = r] /\ pc[p] = "size" /\ pc' = [pc EXCEPT ![p] = "copy"]
  BY DEF Size, Goto
<1> HIDE DEF r
<1>6. Sets(p, r) /\ run'[p].out = run[p].out
  BY <1>3, <1>4, <1>5 DEF Sets
<1> QED
  BY <1>5, <1>6 DEF r

LEMMA WriteSets ==
  ASSUME Typed, NEW p \in Procs, WriteBlock(p)
  PROVE  /\ Sets(p, [run[p] EXCEPT !.copied = run[p].copied + 1])
         /\ run'[p].out = run[p].out
         /\ UNCHANGED pc
<1>1. run \in [Procs -> Runs] /\ run[p] \in Runs
  BY DEF Typed
<1>2. run[p].copied \in Nat
  BY <1>1 DEF Runs
<1>3. run[p].copied + 1 \in Nat
  BY ONLY <1>2
<1> DEFINE r == [run[p] EXCEPT !.copied = run[p].copied + 1]
<1>4. r.path = run[p].path /\ r.out = run[p].out /\ r.want = run[p].want
  BY <1>1, <1>3, FieldTyped, FieldKeeps
<1>5. run' = [run EXCEPT ![p] = r] /\ UNCHANGED pc
  BY DEF WriteBlock
<1> HIDE DEF r
<1>6. Sets(p, r) /\ run'[p].out = run[p].out
  BY <1>1, <1>4, <1>5 DEF Sets
<1> QED
  BY <1>5, <1>6 DEF r

LEMMA AloneStays ==
  ASSUME AloneInv, Typed,
         \A q \in Procs : run'[q].out = run[q].out /\ (Opened(q)' <=> Opened(q)),
         mounted' \subseteq mounted
  PROVE  AloneInv'
BY DEF AloneInv

LEMMA AloneFinish ==
  ASSUME AloneInv, Typed, NEW p \in Procs, NEW how, Finish(p, how), UNCHANGED mounted
  PROVE  AloneInv'
<1>1. /\ run'[p].out = Free /\ ~Opened(p)'
      /\ \A q \in Procs \ {p} : run'[q] = run[q] /\ pc'[q] = pc[q]
  BY FinishOut
<1>2. \A q \in Procs \ {p} : Opened(q)' <=> Opened(q)
  BY <1>1 DEF Opened, Ready
<1> QED
  BY <1>1, <1>2 DEF AloneInv

LEMMA NextAlone ==
  ASSUME Typed, AloneInv, [Next]_vars
  PROVE  AloneInv'
<1>1. CASE Refresh
  <2>1. \A q \in Procs : run'[q].out = run[q].out /\ (Opened(q)' <=> Opened(q))
    BY <1>1, GuiIsProc DEF Refresh, Goto, Typed, Opened, Ready
  <2>2. mounted' \subseteq mounted
    BY <1>1 DEF Refresh, world
  <2> QED
    BY <2>1, <2>2, AloneStays
<1>2. ASSUME NEW n \in Drives, ScanPath(n) PROVE AloneInv'
  <2>1. \A q \in Procs : run'[q].out = run[q].out /\ (Opened(q)' <=> Opened(q))
    BY <1>2 DEF ScanPath, procs, Typed, Opened, Ready
  <2>2. mounted' \subseteq mounted
    BY <1>2 DEF ScanPath, world
  <2> QED
    BY <2>1, <2>2, AloneStays
<1>3. ASSUME NEW n \in Drives, ScanSys(n) PROVE AloneInv'
  <2>1. \A q \in Procs : run'[q].out = run[q].out /\ (Opened(q)' <=> Opened(q))
    BY <1>3 DEF ScanSys, procs, Typed, Opened, Ready
  <2>2. mounted' \subseteq mounted
    BY <1>3 DEF ScanSys, world
  <2> QED
    BY <2>1, <2>2, AloneStays
<1>4. CASE ScanEnd
  <2>1. \A q \in Procs : run'[q].out = run[q].out /\ (Opened(q)' <=> Opened(q))
    BY <1>4, GuiIsProc DEF ScanEnd, Goto, Typed, Opened, Ready
  <2>2. mounted' \subseteq mounted
    BY <1>4 DEF ScanEnd, world
  <2> QED
    BY <2>1, <2>2, AloneStays
<1>5. ASSUME NEW d \in list, Select(d) PROVE AloneInv'
  <2>1. \A q \in Procs : run'[q].out = run[q].out /\ (Opened(q)' <=> Opened(q))
    BY <1>5 DEF Select, procs, Typed, Opened, Ready
  <2>2. mounted' \subseteq mounted
    BY <1>5 DEF Select, world
  <2> QED
    BY <2>1, <2>2, AloneStays
<1>6. CASE Type
  <2>1. \A q \in Procs : run'[q].out = run[q].out /\ (Opened(q)' <=> Opened(q))
    BY <1>6 DEF Type, procs, Typed, Opened, Ready
  <2>2. mounted' \subseteq mounted
    BY <1>6 DEF Type, world
  <2> QED
    BY <2>1, <2>2, AloneStays
<1>7. CASE Install
  <2>0. Gui \in Procs /\ run[Gui].out = Free
    BY <1>7, GuiIsProc DEF Install, AloneInv, Opened, Ready, Procs
  <2>1. \A q \in Procs : run'[q].out = run[q].out /\ (Opened(q)' <=> Opened(q))
    BY <1>7, GuiIsProc, <2>0 DEF Install, Start, NewRun, AloneInv, Typed, Opened, Ready
  <2>2. mounted' \subseteq mounted
    BY <1>7 DEF Install, world
  <2> QED
    BY <2>1, <2>2, AloneStays
<1>8. ASSUME NEW p \in Clis, NEW n \in Drives, RunCli(p, n) PROVE AloneInv'
  <2>0. p \in Procs /\ run[p].out = Free
    BY <1>8, GuiIsProc DEF RunCli, AloneInv, Opened, Ready, Procs
  <2>1. \A q \in Procs : run'[q].out = run[q].out /\ (Opened(q)' <=> Opened(q))
    BY <1>8, <2>0 DEF RunCli, Start, NewRun, AloneInv, Typed, Opened, Ready
  <2>2. mounted' \subseteq mounted
    BY <1>8 DEF RunCli, world
  <2> QED
    BY <2>1, <2>2, AloneStays
<1>9. ASSUME NEW p \in Procs, Stat(p) PROVE AloneInv'
  <2>1. UNCHANGED mounted
    BY <1>9 DEF Stat, world
  <2>3. CASE at[run[p].path] = Free
    <3>1. Finish(p, "failed")
      BY <1>9, <2>3 DEF Stat
    <3> QED
      BY <2>1, <3>1, AloneFinish
  <2>4. CASE ~(at[run[p].path] = Free)
    <3>1. \A q \in Procs : run'[q].out = run[q].out
      BY <1>9, <2>4, StatSets DEF Sets
    <3>2. \A q \in Procs : Opened(q)' <=> Opened(q)
      BY <1>9, <2>4, StatSets DEF Opened, Ready, Typed
    <3> QED
      BY <2>1, <3>1, <3>2, AloneStays
  <2> QED
    BY <2>3, <2>4
<1>10. ASSUME NEW p \in Procs, OpenDisk(p) PROVE AloneInv'
  <2>1. UNCHANGED mounted
    BY <1>10 DEF OpenDisk, world
  <2>3. CASE at[run[p].path] = Free \/ Claimed(at[run[p].path])
    <3>1. Finish(p, "failed")
      BY <1>10, <2>3 DEF OpenDisk
    <3> QED
      BY <2>1, <3>1, AloneFinish
  <2>4. CASE ~(at[run[p].path] = Free \/ Claimed(at[run[p].path]))
    <3> DEFINE i == at[run[p].path]
    <3>1. /\ i # Free /\ i \notin mounted
          /\ \A q \in Procs : run[q].out # i
      BY <2>4 DEF Claimed
    <3>2. run'[p].out = i /\ Opened(p)'
      BY <1>10, <2>4, OpenSets DEF Typed, Opened
    <3>3. \A q \in Procs \ {p} : run'[q] = run[q] /\ pc'[q] = pc[q]
      BY <1>10, <2>4 DEF OpenDisk, Goto, Typed
    <3>4. \A q \in Procs \ {p} : Opened(q)' <=> Opened(q)
      BY <3>3 DEF Opened, Ready
    <3> HIDE DEF i
    <3> QED
      BY <2>1, <3>1, <3>2, <3>3, <3>4 DEF AloneInv
  <2> QED
    BY <2>3, <2>4
<1>11. ASSUME NEW p \in Procs, Check(p) PROVE AloneInv'
  <2>1. UNCHANGED mounted
    BY <1>11 DEF Check, world
  <2>3. CASE ~(SameDisk(p) /\ disks[run[p].out].node = run[p].noted)
    <3>1. Finish(p, "failed")
      BY <1>11, <2>3 DEF Check
    <3> QED
      BY <2>1, <3>1, AloneFinish
  <2>4. CASE ~(~(SameDisk(p) /\ disks[run[p].out].node = run[p].noted))
    <3>1. \A q \in Procs : run'[q].out = run[q].out /\ (Opened(q)' <=> Opened(q))
      BY <1>11, <2>4 DEF Check, Goto, Typed, Runs, Opened, Ready
    <3> QED
      BY <2>1, <3>1, AloneStays
  <2> QED
    BY <2>3, <2>4
<1>12. ASSUME NEW p \in Procs, Size(p) PROVE AloneInv'
  <2>1. UNCHANGED mounted
    BY <1>12 DEF Size, world
  <2>3. CASE image.size > disks[run[p].out].cap
    <3>1. Finish(p, "failed")
      BY <1>12, <2>3 DEF Size
    <3> QED
      BY <2>1, <3>1, AloneFinish
  <2>4. CASE ~(image.size > disks[run[p].out].cap)
    <3>1. \A q \in Procs : run'[q].out = run[q].out
      BY <1>12, <2>4, SizeSets DEF Sets
    <3>2. \A q \in Procs : Opened(q)' <=> Opened(q)
      BY <1>12, <2>4, SizeSets DEF Opened, Ready, Typed
    <3> QED
      BY <2>1, <3>1, <3>2, AloneStays
  <2> QED
    BY <2>3, <2>4
<1>13. ASSUME NEW p \in Procs, Copy(p) PROVE AloneInv'
  <2>1. UNCHANGED mounted
    BY <1>13 DEF Copy, world
  <2>2. CASE Finish(p, "failed")
    BY <2>1, <2>2, AloneFinish
  <2>3. CASE WriteBlock(p)
    <3>1. \A q \in Procs : run'[q].out = run[q].out /\ (Opened(q)' <=> Opened(q))
      BY <2>3, WriteSets DEF Sets, Opened, Ready
    <3> QED
      BY <2>1, <3>1, AloneStays
  <2>4. CASE Goto(p, "verify") /\ UNCHANGED run
    <3>1. \A q \in Procs : run'[q].out = run[q].out /\ (Opened(q)' <=> Opened(q))
      BY <1>13, <2>4 DEF Copy, Goto, Typed, Opened, Ready
    <3> QED
      BY <2>1, <3>1, AloneStays
  <2> QED
    BY <1>13, <2>2, <2>3, <2>4 DEF Copy
<1>14. ASSUME NEW p \in Procs, Verify(p) PROVE AloneInv'
  <2>1. UNCHANGED mounted
    BY <1>14 DEF Verify, world
  <2>3. CASE ~(run[p].copied = run[p].expected /\ image.size <= run[p].copied)
    <3>1. Finish(p, "failed")
      BY <1>14, <2>3 DEF Verify
    <3> QED
      BY <2>1, <3>1, AloneFinish
  <2>4. CASE ~(~(run[p].copied = run[p].expected /\ image.size <= run[p].copied))
    <3>1. \A q \in Procs : run'[q].out = run[q].out /\ (Opened(q)' <=> Opened(q))
      BY <1>14, <2>4 DEF Verify, Goto, Typed, Runs, Opened, Ready
    <3> QED
      BY <2>1, <3>1, AloneStays
  <2> QED
    BY <2>3, <2>4
<1>15. ASSUME NEW p \in Procs, Sync(p) PROVE AloneInv'
  <2>1. UNCHANGED mounted
    BY <1>15 DEF Sync, world
  <2> QED
    BY <1>15, <2>1, AloneFinish DEF Sync
<1>16. ASSUME NEW p \in Procs, Fail(p) PROVE AloneInv'
  <2>1. UNCHANGED mounted
    BY <1>16 DEF Fail, world
  <2> QED
    BY <1>16, <2>1, AloneFinish DEF Fail
<1>17. ASSUME NEW n \in Drives, Plug(n) PROVE AloneInv'
  <2>1. \A q \in Procs : run'[q].out = run[q].out /\ (Opened(q)' <=> Opened(q))
    BY <1>17 DEF Plug, Insert, procs, Typed, Opened, Ready
  <2>2. mounted' \subseteq mounted
    BY <1>17 DEF Plug, Insert
  <2> QED
    BY <2>1, <2>2, AloneStays
<1>18. ASSUME NEW n \in Drives, Swap(n) PROVE AloneInv'
  <2>1. \A q \in Procs : run'[q].out = run[q].out /\ (Opened(q)' <=> Opened(q))
    BY <1>18 DEF Swap, Insert, procs, Typed, Opened, Ready
  <2>2. mounted' \subseteq mounted
    BY <1>18 DEF Swap, Insert
  <2> QED
    BY <2>1, <2>2, AloneStays
<1>19. ASSUME NEW n \in Drives, Pull(n) PROVE AloneInv'
  <2>1. \A q \in Procs : run'[q].out = run[q].out /\ (Opened(q)' <=> Opened(q))
    BY <1>19 DEF Pull, procs, Typed, Opened, Ready
  <2>2. mounted' \subseteq mounted
    BY <1>19 DEF Pull
  <2> QED
    BY <2>1, <2>2, AloneStays
<1>20. ASSUME NEW n \in Drives, Mount(n) PROVE AloneInv'
  <2> QED
    BY <1>20 DEF Mount, Claimed, AloneInv, Opened, Ready, procs
<1>21. ASSUME NEW n \in Drives, Unmount(n) PROVE AloneInv'
  <2>1. \A q \in Procs : run'[q].out = run[q].out /\ (Opened(q)' <=> Opened(q))
    BY <1>21 DEF Unmount, procs, Typed, Opened, Ready
  <2>2. mounted' \subseteq mounted
    BY <1>21 DEF Unmount
  <2> QED
    BY <2>1, <2>2, AloneStays
<1>22. CASE Rewrite
  <2>1. \A q \in Procs : run'[q].out = run[q].out /\ (Opened(q)' <=> Opened(q))
    BY <1>22 DEF Rewrite, procs, Typed, Opened, Ready
  <2>2. mounted' \subseteq mounted
    BY <1>22 DEF Rewrite
  <2> QED
    BY <2>1, <2>2, AloneStays
<1>23. CASE UNCHANGED vars
  <2>1. UNCHANGED <<pc, run, mounted>>
    BY <1>23 DEF vars, world, procs
  <2> QED
    BY <2>1 DEF AloneInv, Opened, Ready
<1> QED
  BY <1>1, <1>2, <1>3, <1>4, <1>5, <1>6, <1>7, <1>8, <1>9, <1>10,
     <1>11, <1>12, <1>13, <1>14, <1>15, <1>16, <1>17, <1>18, <1>19, <1>20,
     <1>21, <1>22, <1>23
  DEF Next, Window, Inner, Outside, Procs

-----------------------------------------------------------------------------
\* No disk is written while a partition of it is mounted or while another
\* installer has it open, whatever is plugged and mounted in between.
THEOREM WritersAreAlone == Spec => []WritesAlone
<1>1. Init => Typed /\ AloneInv
  <2>1. Init => \A p \in Procs : run[p].out = Free /\ ~Opened(p)
    <3>1. NewRun("", NoDisk).out = Free
      BY DEF NewRun
    <3> QED
      BY <3>1 DEF Init, Opened, Ready
  <2>2. Init => AloneInv
    BY <2>1 DEF AloneInv
  <2> QED
    BY <2>2, InitTyped
<1>2. Typed /\ AloneInv /\ [Next]_vars => (Typed /\ AloneInv)'
  BY NextTyped, NextAlone
<1>3. AloneInv => WritesAlone
  BY DEF AloneInv, WritesAlone, Writing, Opened, Ready
<1> QED
  BY <1>1, <1>2, <1>3, PTL DEF Spec

-----------------------------------------------------------------------------
(* What the window knows stays true of the drive or is noticed: disks are  *)
(* numbered in the order they come, so a drive never goes back to one.     *)
Seen(n, i) == i # Free /\ i <= Len(disks) /\ (at[n] = Free \/ i <= at[n])

SeenInv ==
  /\ \A n \in Drives : Found(n) => Seen(n, scan[n].seq)
  /\ \A d \in list : Seen(d.path, d.seq)
  /\ target # NoDisk => Seen(target.path, target.seq)

ConfirmedInv ==
  Busy(Gui) =>
    /\ target # NoDisk /\ typed = target.path
    /\ run[Gui].want = target /\ run[Gui].path = target.path
    /\ pc[Gui] = "check" => /\ Seen(target.path, run[Gui].out)
                            /\ target.seq <= run[Gui].out
    /\ Ready(Gui) => run[Gui].out = target.seq

AtMoves ==
  /\ Len(disks) \in Nat /\ Len(disks') \in Nat /\ Len(disks) <= Len(disks')
  /\ \A n \in Drives : at'[n] = at[n] \/ at'[n] = Free \/ at'[n] = Len(disks) + 1

LEMMA InsertMoves ==
  ASSUME Typed, NEW n \in Drives, NEW node \in Nat, Insert(n, node)
  PROVE  AtMoves
<1>1. Len(disks') = Len(disks) + 1 /\ Len(disks) \in Nat
  BY InsertTyped
<1>2. at' = [at EXCEPT ![n] = Len(disks) + 1] /\ at \in [Drives -> Nat]
  BY DEF Insert, Typed
<1> QED
  BY <1>1, <1>2 DEF AtMoves

LEMMA AtStays ==
  ASSUME Typed, UNCHANGED disks, UNCHANGED at
  PROVE  AtMoves
BY LenProperties DEF Typed, AtMoves

LEMMA NextAt ==
  ASSUME Typed, [Next]_vars
  PROVE  AtMoves
<1>1. CASE Refresh
  BY <1>1, AtStays DEF Refresh, world
<1>2. ASSUME NEW n \in Drives, ScanPath(n) PROVE AtMoves
  BY <1>2, AtStays DEF ScanPath, world
<1>3. ASSUME NEW n \in Drives, ScanSys(n) PROVE AtMoves
  BY <1>3, AtStays DEF ScanSys, world
<1>4. CASE ScanEnd
  BY <1>4, AtStays DEF ScanEnd, world
<1>5. ASSUME NEW d \in list, Select(d) PROVE AtMoves
  BY <1>5, AtStays DEF Select, world
<1>6. CASE Type
  BY <1>6, AtStays DEF Type, world
<1>7. CASE Install
  BY <1>7, AtStays DEF Install, world
<1>8. ASSUME NEW p \in Clis, NEW n \in Drives, RunCli(p, n) PROVE AtMoves
  BY <1>8, AtStays DEF RunCli, world
<1>9. ASSUME NEW p \in Procs, Stat(p) PROVE AtMoves
  BY <1>9, AtStays DEF Stat, world
<1>10. ASSUME NEW p \in Procs, OpenDisk(p) PROVE AtMoves
  BY <1>10, AtStays DEF OpenDisk, world
<1>11. ASSUME NEW p \in Procs, Check(p) PROVE AtMoves
  BY <1>11, AtStays DEF Check, world
<1>12. ASSUME NEW p \in Procs, Size(p) PROVE AtMoves
  BY <1>12, AtStays DEF Size, world
<1>13. ASSUME NEW p \in Procs, Copy(p) PROVE AtMoves
  BY <1>13, AtStays DEF Copy, world
<1>14. ASSUME NEW p \in Procs, Verify(p) PROVE AtMoves
  BY <1>14, AtStays DEF Verify, world
<1>15. ASSUME NEW p \in Procs, Sync(p) PROVE AtMoves
  BY <1>15, AtStays DEF Sync, world
<1>16. ASSUME NEW p \in Procs, Fail(p) PROVE AtMoves
  BY <1>16, AtStays DEF Fail, world
<1>17. ASSUME NEW n \in Drives, Plug(n) PROVE AtMoves
  <2>1. Len(disks) \in Nat
    BY LenProperties DEF Typed
  <2>2. Insert(n, Len(disks) + 1) /\ Len(disks) + 1 \in Nat
    BY <1>17, <2>1 DEF Plug
  <2> QED
    BY <2>2, InsertMoves
<1>18. ASSUME NEW n \in Drives, Swap(n) PROVE AtMoves
  <2>1. Insert(n, NodeAt(n)) /\ NodeAt(n) \in Nat
    BY <1>18, NodeTyped DEF Swap
  <2> QED
    BY <2>1, InsertMoves
<1>19. ASSUME NEW n \in Drives, Pull(n) PROVE AtMoves
  <2>1. at' = [at EXCEPT ![n] = Free] /\ UNCHANGED disks
    BY <1>19 DEF Pull
  <2> QED
    BY <2>1, LenProperties DEF Typed, AtMoves
<1>20. ASSUME NEW n \in Drives, Mount(n) PROVE AtMoves
  BY <1>20, AtStays DEF Mount
<1>21. ASSUME NEW n \in Drives, Unmount(n) PROVE AtMoves
  BY <1>21, AtStays DEF Unmount
<1>22. CASE Rewrite
  BY <1>22, AtStays DEF Rewrite
<1>23. CASE UNCHANGED vars
  BY <1>23, AtStays DEF vars, world
<1> QED
  BY <1>1, <1>2, <1>3, <1>4, <1>5, <1>6, <1>7, <1>8, <1>9, <1>10,
     <1>11, <1>12, <1>13, <1>14, <1>15, <1>16, <1>17, <1>18, <1>19, <1>20,
     <1>21, <1>22, <1>23
  DEF Next, Window, Inner, Outside, Procs

LEMMA SeenStays ==
  ASSUME Typed, AtMoves, NEW n \in Drives, NEW i \in Nat, Seen(n, i)
  PROVE  Seen(n, i)'
<1>1. at'[n] = at[n] \/ at'[n] = Free \/ at'[n] = Len(disks) + 1
  BY DEF AtMoves
<1>2. Len(disks) \in Nat /\ Len(disks') \in Nat /\ Len(disks) <= Len(disks')
  BY DEF AtMoves
<1>3. at[n] \in Nat /\ i # Free /\ i <= Len(disks) /\ (at[n] = Free \/ i <= at[n])
  BY DEF Seen, Typed
<1>4. i <= Len(disks') /\ (at'[n] = Free \/ i <= at'[n])
  BY ONLY <1>1, <1>2, <1>3, i \in Nat
<1> QED
  BY <1>3, <1>4 DEF Seen

LEMMA TargetTyped ==
  ASSUME Typed, target # NoDisk
  PROVE  target.path \in Drives /\ target.seq \in Nat
BY DEF Typed, Ids

LEMMA SeenInvStays ==
  ASSUME Typed, AtMoves, SeenInv, UNCHANGED <<scan, list, target>>
  PROVE  SeenInv'
<1>1. ASSUME NEW n \in Drives, Found(n) PROVE Seen(n, scan[n].seq)'
  <2>1. scan[n].seq \in Nat
    BY DEF Typed
  <2> QED
    BY <1>1, <2>1, SeenStays DEF SeenInv
<1>2. ASSUME NEW d \in list PROVE Seen(d.path, d.seq)'
  <2>1. d.path \in Drives /\ d.seq \in Nat
    BY DEF Typed
  <2> QED
    BY <2>1, SeenStays DEF SeenInv
<1>3. target # NoDisk => Seen(target.path, target.seq)'
  BY TargetTyped, SeenStays DEF SeenInv
<1> QED
  BY <1>1, <1>2, <1>3 DEF SeenInv, Found

LEMMA SeenRest ==
  ASSUME Typed, AtMoves, SeenInv, list' = list, target' = target,
         \A n \in Drives : Found(n)' => Seen(n, scan[n].seq)'
  PROVE  SeenInv'
<1>2. ASSUME NEW d \in list PROVE Seen(d.path, d.seq)'
  <2>1. d.path \in Drives /\ d.seq \in Nat
    BY DEF Typed
  <2> QED
    BY <2>1, SeenStays DEF SeenInv
<1>3. target # NoDisk => Seen(target.path, target.seq)'
  BY TargetTyped, SeenStays DEF SeenInv
<1> QED
  BY <1>2, <1>3 DEF SeenInv

LEMMA NextSeen ==
  ASSUME Typed, AtMoves, SeenInv, [Next]_vars
  PROVE  SeenInv'
<1>1. CASE Refresh
  <2>1. list' = list /\ target' = target /\ \A n \in Drives : ~Found(n)'
    BY <1>1 DEF Refresh, Found, Unscanned
  <2> QED
    BY <2>1, SeenRest
<1>2. ASSUME NEW n \in Drives, ScanPath(n) PROVE SeenInv'
  <2>1. list' = list /\ target' = target /\ UNCHANGED <<disks, at>>
    BY <1>2 DEF ScanPath, world
  <2>2. ASSUME NEW m \in Drives, Found(m)' PROVE Seen(m, scan'[m].seq)
    BY <1>2, <2>2 DEF ScanPath, Found, Typed, SeenInv
  <2>3. \A m \in Drives : Found(m)' => Seen(m, scan[m].seq)'
    BY <2>1, <2>2 DEF Seen
  <2> QED
    BY <2>1, <2>3, SeenRest
<1>3. ASSUME NEW n \in Drives, ScanSys(n) PROVE SeenInv'
  <2>1. list' = list /\ target' = target /\ UNCHANGED <<disks, at>>
    BY <1>3 DEF ScanSys, world
  <2>2. ASSUME NEW m \in Drives, Found(m)' PROVE Seen(m, scan'[m].seq)
    <3>1. CASE m # n
      BY <1>3, <2>2, <3>1 DEF ScanSys, Found, Typed, SeenInv
    <3>2. CASE m = n
      <4>1. at[n] # Free /\ scan'[n].seq = at[n]
        BY <1>3, <2>2, <3>2 DEF ScanSys, Found, Typed
      <4>2. at[n] \in Nat /\ at[n] <= Len(disks)
        BY DEF Typed
      <4> QED
        BY <3>2, <4>1, <4>2 DEF Seen
    <3> QED
      BY <3>1, <3>2
  <2>3. \A m \in Drives : Found(m)' => Seen(m, scan[m].seq)'
    BY <2>1, <2>2 DEF Seen
  <2> QED
    BY <2>1, <2>3, SeenRest
<1>4. CASE ScanEnd
  <2>1. target' = NoDisk /\ UNCHANGED <<disks, at, scan>>
    BY <1>4 DEF ScanEnd, world
  <2>2. ASSUME NEW d \in list' PROVE Seen(d.path, d.seq)'
    <3>1. PICK n \in Drives : Found(n) /\ d = Identity(n, scan[n].node, scan[n].seq)
      BY <1>4, <2>2 DEF ScanEnd
    <3>2. d.path = n /\ d.seq = scan[n].seq
      BY <3>1 DEF Identity
    <3> QED
      BY <2>1, <3>1, <3>2 DEF SeenInv, Seen
  <2>3. \A n \in Drives : Found(n)' => Seen(n, scan[n].seq)'
    BY <2>1 DEF SeenInv, Seen, Found
  <2> QED
    BY <2>1, <2>2, <2>3 DEF SeenInv
<1>5. ASSUME NEW d \in list, Select(d) PROVE SeenInv'
  <2>1. target' = d /\ UNCHANGED <<disks, at, scan, list>>
    BY <1>5 DEF Select, world
  <2>2. Seen(d.path, d.seq)
    BY DEF SeenInv
  <2> QED
    BY <2>1, <2>2 DEF SeenInv, Seen, Found
<1>6. CASE Type
  BY <1>6, SeenInvStays DEF Type
<1>7. CASE Install
  BY <1>7, SeenInvStays DEF Install, view
<1>8. ASSUME NEW p \in Clis, NEW n \in Drives, RunCli(p, n) PROVE SeenInv'
  BY <1>8, SeenInvStays DEF RunCli, view
<1>9. ASSUME NEW p \in Procs, Stat(p) PROVE SeenInv'
  BY <1>9, SeenInvStays DEF Stat, view
<1>10. ASSUME NEW p \in Procs, OpenDisk(p) PROVE SeenInv'
  BY <1>10, SeenInvStays DEF OpenDisk, view
<1>11. ASSUME NEW p \in Procs, Check(p) PROVE SeenInv'
  BY <1>11, SeenInvStays DEF Check, view
<1>12. ASSUME NEW p \in Procs, Size(p) PROVE SeenInv'
  BY <1>12, SeenInvStays DEF Size, view
<1>13. ASSUME NEW p \in Procs, Copy(p) PROVE SeenInv'
  BY <1>13, SeenInvStays DEF Copy, view
<1>14. ASSUME NEW p \in Procs, Verify(p) PROVE SeenInv'
  BY <1>14, SeenInvStays DEF Verify, view
<1>15. ASSUME NEW p \in Procs, Sync(p) PROVE SeenInv'
  BY <1>15, SeenInvStays DEF Sync, view
<1>16. ASSUME NEW p \in Procs, Fail(p) PROVE SeenInv'
  BY <1>16, SeenInvStays DEF Fail, view
<1>17. ASSUME NEW n \in Drives, Plug(n) PROVE SeenInv'
  BY <1>17, SeenInvStays DEF Plug, Insert, view
<1>18. ASSUME NEW n \in Drives, Swap(n) PROVE SeenInv'
  BY <1>18, SeenInvStays DEF Swap, Insert, view
<1>19. ASSUME NEW n \in Drives, Pull(n) PROVE SeenInv'
  BY <1>19, SeenInvStays DEF Pull, view
<1>20. ASSUME NEW n \in Drives, Mount(n) PROVE SeenInv'
  BY <1>20, SeenInvStays DEF Mount, view
<1>21. ASSUME NEW n \in Drives, Unmount(n) PROVE SeenInv'
  BY <1>21, SeenInvStays DEF Unmount, view
<1>22. CASE Rewrite
  BY <1>22, SeenInvStays DEF Rewrite, view
<1>23. CASE UNCHANGED vars
  BY <1>23, SeenInvStays DEF vars, view
<1> QED
  BY <1>1, <1>2, <1>3, <1>4, <1>5, <1>6, <1>7, <1>8, <1>9, <1>10,
     <1>11, <1>12, <1>13, <1>14, <1>15, <1>16, <1>17, <1>18, <1>19, <1>20,
     <1>21, <1>22, <1>23
  DEF Next, Window, Inner, Outside, Procs

LEMMA ConfirmedStays ==
  ASSUME Typed, AtMoves, ConfirmedInv, UNCHANGED <<target, typed>>,
         run'[Gui] = run[Gui], pc'[Gui] = pc[Gui]
  PROVE  ConfirmedInv'
<1>1. Busy(Gui)' <=> Busy(Gui)
  BY DEF Busy, Ready
<1>2. Ready(Gui)' <=> Ready(Gui)
  BY DEF Ready
<1>3. ASSUME Busy(Gui), pc[Gui] = "check"
      PROVE  Seen(target.path, run[Gui].out)'
  <2>1. Seen(target.path, run[Gui].out) /\ target.path \in Drives
    BY <1>3, TargetTyped DEF ConfirmedInv
  <2>2. run[Gui].out \in Nat
    BY GuiIsProc DEF Typed, Runs
  <2> QED
    BY <2>1, <2>2, SeenStays DEF Seen
<1> QED
  BY <1>1, <1>2, <1>3 DEF ConfirmedInv

LEMMA ConfirmedIdle ==
  ASSUME pc'[Gui] \in {"idle", "scan"}
  PROVE  ConfirmedInv'
BY DEF ConfirmedInv, Busy, Ready

LEMMA ConfirmedFinish ==
  ASSUME Typed, NEW how, Finish(Gui, how)
  PROVE  ConfirmedInv'
BY ConfirmedIdle, GuiIsProc DEF Finish, Typed

LEMMA NextConfirmed ==
  ASSUME Typed, AtMoves, SeenInv, ConfirmedInv, [Next]_vars
  PROVE  ConfirmedInv'
<1>1. CASE Refresh
  BY <1>1, ConfirmedIdle, GuiIsProc DEF Refresh, Goto, Typed
<1>2. ASSUME NEW n \in Drives, ScanPath(n) PROVE ConfirmedInv'
  BY <1>2, ConfirmedStays DEF ScanPath, procs
<1>3. ASSUME NEW n \in Drives, ScanSys(n) PROVE ConfirmedInv'
  BY <1>3, ConfirmedStays DEF ScanSys, procs
<1>4. CASE ScanEnd
  BY <1>4, ConfirmedIdle, GuiIsProc DEF ScanEnd, Goto, Typed
<1>5. ASSUME NEW d \in list, Select(d) PROVE ConfirmedInv'
  BY <1>5, ConfirmedIdle DEF Select, procs
<1>6. CASE Type
  BY <1>6, ConfirmedIdle DEF Type, procs
<1>7. CASE Install
  <2>1. target # NoDisk /\ typed = target.path /\ UNCHANGED <<target, typed>>
    BY <1>7 DEF Install, view
  <2>2. run'[Gui] = NewRun(target.path, target) /\ pc'[Gui] = "stat"
    BY <1>7, GuiIsProc DEF Install, Start, Typed
  <2> QED
    BY <2>1, <2>2 DEF ConfirmedInv, Busy, Ready, NewRun
<1>8. ASSUME NEW p \in Clis, NEW n \in Drives, RunCli(p, n) PROVE ConfirmedInv'
  <2>1. p # Gui /\ p \in Procs
    BY InstallerAssumption DEF Procs
  <2>2. run'[Gui] = run[Gui] /\ pc'[Gui] = pc[Gui]
    BY <1>8, <2>1, GuiIsProc DEF RunCli, Start, Typed
  <2> QED
    BY <1>8, <2>2, ConfirmedStays DEF RunCli, view
<1>9. ASSUME NEW p \in Procs, Stat(p) PROVE ConfirmedInv'
  <2>1. UNCHANGED <<target, typed>>
    BY <1>9 DEF Stat, view
  <2>2. CASE p # Gui
    <3>1. run'[Gui] = run[Gui] /\ pc'[Gui] = pc[Gui]
      BY <1>9, <2>2, GuiIsProc, FinishOut DEF Stat, Goto, Typed
    <3> QED
      BY <2>1, <3>1, ConfirmedStays
  <2>3. CASE p = Gui
    <3>1. CASE at[run[Gui].path] = Free
      BY <1>9, <2>3, <3>1, ConfirmedFinish DEF Stat
    <3>2. CASE ~(at[run[Gui].path] = Free)
      <4>1. Sets(Gui, [run[Gui] EXCEPT !.noted = NodeAt(run[Gui].path)])
            /\ pc[Gui] = "stat" /\ pc' = [pc EXCEPT ![Gui] = "open"]
        BY <1>9, <2>3, <3>2, StatSets
      <4>2. run'[Gui].path = run[Gui].path /\ run'[Gui].want = run[Gui].want
        BY <4>1 DEF Sets
      <4>3. pc'[Gui] = "open"
        BY <4>1, GuiIsProc DEF Typed
      <4> QED
        BY <2>1, <4>1, <4>2, <4>3 DEF ConfirmedInv, Busy, Ready
    <3> QED
      BY <3>1, <3>2
  <2> QED
    BY <2>2, <2>3
<1>10. ASSUME NEW p \in Procs, OpenDisk(p) PROVE ConfirmedInv'
  <2>1. UNCHANGED <<target, typed>>
    BY <1>10 DEF OpenDisk, view
  <2>2. CASE p # Gui
    <3>1. run'[Gui] = run[Gui] /\ pc'[Gui] = pc[Gui]
      BY <1>10, <2>2, GuiIsProc, FinishOut DEF OpenDisk, Goto, Typed
    <3> QED
      BY <2>1, <3>1, ConfirmedStays
  <2>3. CASE p = Gui
    <3>1. CASE at[run[Gui].path] = Free \/ Claimed(at[run[Gui].path])
      BY <1>10, <2>3, <3>1, ConfirmedFinish DEF OpenDisk
    <3>2. CASE ~(at[run[Gui].path] = Free \/ Claimed(at[run[Gui].path]))
      <4>1. Sets(Gui, [run[Gui] EXCEPT !.out = at[run[Gui].path]])
            /\ run'[Gui].out = at[run[Gui].path]
            /\ pc[Gui] = "open" /\ pc' = [pc EXCEPT ![Gui] = "check"]
        BY <1>10, <2>3, <3>2, OpenSets
      <4>2. run'[Gui].path = run[Gui].path /\ run'[Gui].want = run[Gui].want
        BY <4>1 DEF Sets
      <4>3. pc'[Gui] = "check"
        BY <4>1, GuiIsProc DEF Typed
      <4>4. /\ target # NoDisk /\ typed = target.path
            /\ run[Gui].want = target /\ run[Gui].path = target.path
        BY <4>1 DEF ConfirmedInv, Busy
      <4>5. Seen(target.path, target.seq) /\ target.path \in Drives
        BY <4>4, TargetTyped DEF SeenInv
      <4>6. at[target.path] \in Nat /\ at[target.path] <= Len(disks) /\ at[target.path] # Free
        BY <3>2, <4>4, <4>5 DEF Typed
      <4>7. Seen(target.path, at[target.path]) /\ target.seq <= at[target.path]
        BY <4>5, <4>6 DEF Seen
      <4>8. UNCHANGED <<disks, at>>
        BY <1>10 DEF OpenDisk, world
      <4>9. Seen(target.path, run[Gui].out)' /\ target.seq <= run'[Gui].out
        BY <2>1, <4>1, <4>4, <4>7, <4>8 DEF Seen
      <4> QED
        BY <2>1, <4>2, <4>3, <4>4, <4>9 DEF ConfirmedInv, Busy, Ready
    <3> QED
      BY <3>1, <3>2
  <2> QED
    BY <2>2, <2>3
<1>11. ASSUME NEW p \in Procs, Check(p) PROVE ConfirmedInv'
  <2>1. UNCHANGED <<target, typed>>
    BY <1>11 DEF Check, view
  <2>2. CASE p # Gui
    <3>1. run'[Gui] = run[Gui] /\ pc'[Gui] = pc[Gui]
      BY <1>11, <2>2, GuiIsProc, FinishOut DEF Check, Goto, Typed
    <3> QED
      BY <2>1, <3>1, ConfirmedStays
  <2>3. CASE p = Gui
    <3>1. CASE ~(SameDisk(Gui) /\ disks[run[Gui].out].node = run[Gui].noted)
      BY <1>11, <2>3, <3>1, ConfirmedFinish DEF Check
    <3>2. CASE ~(~(SameDisk(Gui) /\ disks[run[Gui].out].node = run[Gui].noted))
      <4>1. pc[Gui] = "check" /\ pc'[Gui] = "size" /\ run' = run
        BY <1>11, <2>3, <3>2, GuiIsProc DEF Check, Goto, Typed
      <4>2. /\ target # NoDisk /\ typed = target.path
            /\ run[Gui].want = target /\ run[Gui].path = target.path
            /\ Seen(target.path, run[Gui].out) /\ target.seq <= run[Gui].out
        BY <4>1 DEF ConfirmedInv, Busy
      <4>3. Seen(target.path, target.seq) /\ target.path \in Drives /\ target.seq \in Nat
        BY <4>2, TargetTyped DEF SeenInv
      <4>4. at[target.path] = target.seq
        BY <3>2, <4>2 DEF SameDisk, Identity
      <4>5. run[Gui].out \in Nat
        BY GuiIsProc DEF Typed, Runs
      <4>6. run[Gui].out = target.seq
        BY <4>2, <4>3, <4>4, <4>5 DEF Seen
      <4> QED
        BY <2>1, <4>1, <4>2, <4>6 DEF ConfirmedInv, Busy, Ready
    <3> QED
      BY <3>1, <3>2
  <2> QED
    BY <2>2, <2>3
<1>12. ASSUME NEW p \in Procs, Size(p) PROVE ConfirmedInv'
  <2>1. UNCHANGED <<target, typed>>
    BY <1>12 DEF Size, view
  <2>2. CASE p # Gui
    <3>1. run'[Gui] = run[Gui] /\ pc'[Gui] = pc[Gui]
      BY <1>12, <2>2, GuiIsProc, FinishOut DEF Size, Goto, Typed
    <3> QED
      BY <2>1, <3>1, ConfirmedStays
  <2>3. CASE p = Gui
    <3>1. CASE image.size > disks[run[Gui].out].cap
      BY <1>12, <2>3, <3>1, ConfirmedFinish DEF Size
    <3>2. CASE ~(image.size > disks[run[Gui].out].cap)
      <4>1. Sets(Gui, [run[Gui] EXCEPT !.expected = image.size, !.since = image.gen])
            /\ run'[Gui].out = run[Gui].out
            /\ pc[Gui] = "size" /\ pc' = [pc EXCEPT ![Gui] = "copy"]
        BY <1>12, <2>3, <3>2, SizeSets
      <4>2. run'[Gui].path = run[Gui].path /\ run'[Gui].want = run[Gui].want
        BY <4>1 DEF Sets
      <4>3. pc'[Gui] = "copy"
        BY <4>1, GuiIsProc DEF Typed
      <4> QED
        BY <2>1, <4>1, <4>2, <4>3 DEF ConfirmedInv, Busy, Ready
    <3> QED
      BY <3>1, <3>2
  <2> QED
    BY <2>2, <2>3
<1>13. ASSUME NEW p \in Procs, Copy(p) PROVE ConfirmedInv'
  <2>1. UNCHANGED <<target, typed>>
    BY <1>13 DEF Copy, view
  <2>2. CASE p # Gui
    <3>1. CASE Finish(p, "failed")
      BY <2>1, <2>2, <3>1, FinishOut, GuiIsProc, ConfirmedStays
    <3>2. CASE WriteBlock(p)
      <4>1. run'[Gui] = run[Gui] /\ pc'[Gui] = pc[Gui]
        BY <2>2, <3>2, WriteSets, GuiIsProc DEF Sets
      <4> QED
        BY <2>1, <4>1, ConfirmedStays
    <3>3. CASE Goto(p, "verify") /\ UNCHANGED run
      <4>1. run'[Gui] = run[Gui] /\ pc'[Gui] = pc[Gui]
        BY <2>2, <3>3, GuiIsProc DEF Goto, Typed
      <4> QED
        BY <2>1, <4>1, ConfirmedStays
    <3> QED
      BY <1>13, <3>1, <3>2, <3>3 DEF Copy
  <2>3. CASE p = Gui
    <3>0. pc[Gui] = "copy"
      BY <1>13, <2>3 DEF Copy
    <3>1. CASE Finish(Gui, "failed")
      BY <3>1, ConfirmedFinish
    <3>2. CASE WriteBlock(Gui)
      <4>1. Sets(Gui, [run[Gui] EXCEPT !.copied = run[Gui].copied + 1])
            /\ run'[Gui].out = run[Gui].out /\ UNCHANGED pc
        BY <3>2, WriteSets, GuiIsProc
      <4>2. run'[Gui].path = run[Gui].path /\ run'[Gui].want = run[Gui].want
        BY <4>1 DEF Sets
      <4> QED
        BY <2>1, <3>0, <4>1, <4>2 DEF ConfirmedInv, Busy, Ready
    <3>3. CASE Goto(Gui, "verify") /\ UNCHANGED run
      <4>1. pc'[Gui] = "verify"
        BY <3>3, GuiIsProc DEF Goto, Typed
      <4> QED
        BY <2>1, <3>0, <3>3, <4>1 DEF ConfirmedInv, Busy, Ready
    <3> QED
      BY <1>13, <2>3, <3>1, <3>2, <3>3 DEF Copy
  <2> QED
    BY <2>2, <2>3
<1>14. ASSUME NEW p \in Procs, Verify(p) PROVE ConfirmedInv'
  <2>1. UNCHANGED <<target, typed>>
    BY <1>14 DEF Verify, view
  <2>2. CASE p # Gui
    <3>1. run'[Gui] = run[Gui] /\ pc'[Gui] = pc[Gui]
      BY <1>14, <2>2, GuiIsProc, FinishOut DEF Verify, Goto, Typed
    <3> QED
      BY <2>1, <3>1, ConfirmedStays
  <2>3. CASE p = Gui
    <3>1. CASE ~(run[Gui].copied = run[Gui].expected /\ image.size <= run[Gui].copied)
      BY <1>14, <2>3, <3>1, ConfirmedFinish DEF Verify
    <3>2. CASE ~(~(run[Gui].copied = run[Gui].expected /\ image.size <= run[Gui].copied))
      <4>1. pc[Gui] = "verify" /\ pc'[Gui] = "sync" /\ run' = run
        BY <1>14, <2>3, <3>2, GuiIsProc DEF Verify, Goto, Typed
      <4> QED
        BY <2>1, <4>1 DEF ConfirmedInv, Busy, Ready
    <3> QED
      BY <3>1, <3>2
  <2> QED
    BY <2>2, <2>3
<1>15. ASSUME NEW p \in Procs, Sync(p) PROVE ConfirmedInv'
  <2>1. UNCHANGED <<target, typed>>
    BY <1>15 DEF Sync, view
  <2>2. CASE p # Gui
    <3>1. run'[Gui] = run[Gui] /\ pc'[Gui] = pc[Gui]
      BY <1>15, <2>2, GuiIsProc, FinishOut DEF Sync
    <3> QED
      BY <2>1, <3>1, ConfirmedStays
  <2>3. CASE p = Gui
    BY <1>15, <2>3, ConfirmedFinish DEF Sync
  <2> QED
    BY <2>2, <2>3
<1>16. ASSUME NEW p \in Procs, Fail(p) PROVE ConfirmedInv'
  <2>1. UNCHANGED <<target, typed>>
    BY <1>16 DEF Fail, view
  <2>2. CASE p # Gui
    <3>1. run'[Gui] = run[Gui] /\ pc'[Gui] = pc[Gui]
      BY <1>16, <2>2, GuiIsProc, FinishOut DEF Fail
    <3> QED
      BY <2>1, <3>1, ConfirmedStays
  <2>3. CASE p = Gui
    BY <1>16, <2>3, ConfirmedFinish DEF Fail
  <2> QED
    BY <2>2, <2>3
<1>17. ASSUME NEW n \in Drives, Plug(n) PROVE ConfirmedInv'
  BY <1>17, ConfirmedStays DEF Plug, Insert, view, procs
<1>18. ASSUME NEW n \in Drives, Swap(n) PROVE ConfirmedInv'
  BY <1>18, ConfirmedStays DEF Swap, Insert, view, procs
<1>19. ASSUME NEW n \in Drives, Pull(n) PROVE ConfirmedInv'
  BY <1>19, ConfirmedStays DEF Pull, view, procs
<1>20. ASSUME NEW n \in Drives, Mount(n) PROVE ConfirmedInv'
  BY <1>20, ConfirmedStays DEF Mount, view, procs
<1>21. ASSUME NEW n \in Drives, Unmount(n) PROVE ConfirmedInv'
  BY <1>21, ConfirmedStays DEF Unmount, view, procs
<1>22. CASE Rewrite
  BY <1>22, ConfirmedStays DEF Rewrite, view, procs
<1>23. CASE UNCHANGED vars
  BY <1>23, ConfirmedStays DEF vars, view, procs
<1> QED
  BY <1>1, <1>2, <1>3, <1>4, <1>5, <1>6, <1>7, <1>8, <1>9, <1>10,
     <1>11, <1>12, <1>13, <1>14, <1>15, <1>16, <1>17, <1>18, <1>19, <1>20,
     <1>21, <1>22, <1>23
  DEF Next, Window, Inner, Outside, Procs

-----------------------------------------------------------------------------
\* The window overwrites only the disk it shows and whose name was typed,
\* for any number of drives and disks and however they are plugged and swapped
\* between its listing, the confirmation and the last check.
THEOREM ShownIsWritten == Spec => []OnlyConfirmedWritten
<1> DEFINE Inv == Typed /\ SeenInv /\ ConfirmedInv
<1>1. Init => Inv
  <2>1. Init => SeenInv
    <3> SUFFICES ASSUME Init PROVE SeenInv
      OBVIOUS
    <3>1. \A n \in Drives : ~Found(n)
      BY DEF Init, Found, Unscanned
    <3>2. list = {} /\ target = NoDisk
      BY DEF Init
    <3> QED
      BY <3>1, <3>2 DEF SeenInv
  <2>2. Init => ConfirmedInv
    BY GuiIsProc DEF Init, ConfirmedInv, Busy, Ready
  <2> QED
    BY <2>1, <2>2, InitTyped
<1>2. Inv /\ [Next]_vars => Inv'
  <2> SUFFICES ASSUME Inv, [Next]_vars PROVE Inv'
    OBVIOUS
  <2>1. AtMoves
    BY NextAt
  <2> QED
    BY <2>1, NextTyped, NextSeen, NextConfirmed
<1>3. Inv => OnlyConfirmedWritten
  BY DEF ConfirmedInv, OnlyConfirmedWritten, Writing, Busy, Ready
<1> QED
  BY <1>1, <1>2, <1>3, PTL DEF Spec

-----------------------------------------------------------------------------
(* All variables stay within their bounds.                                 *)
RunsTo(n) ==
  [path : Drives \union {""}, want : Identities, noted : Seqs, out : Free..n,
   expected : 0..MaxSize, copied : 0..MaxSize, since : 0..MaxGen]

WorldTypes ==
  /\ disks \in Seq([path : Drives, node : 1..MaxSeq, cap : Capacities])
  /\ Len(disks) \in 0..MaxSeq
  /\ at \in [Drives -> Free..Len(disks)]
  /\ mounted \subseteq 1..Len(disks)
  /\ image \in [size : 1..MaxSize, gen : 0..MaxGen]

ContentTypes ==
  /\ data \in [1..MaxSeq -> [1..MaxSize -> [by : Procs \union {NoOne}, gen : 0..MaxGen]]]
  /\ synced \subseteq 1..MaxSeq

ViewTypes ==
  /\ scan \in [Drives -> [st : {"todo", "path", "done", "none"}, node : Seqs, seq : Seqs]]
  /\ list \subseteq Identities /\ target \in Identities
  /\ typed \in Drives \union {""}

ProcTypes ==
  /\ pc \in [Procs -> {"idle", "scan", "stat", "open", "check", "size", "copy",
                       "verify", "sync"}]
  /\ run \in [Procs -> RunsTo(Len(disks))]
  /\ result \in [Procs -> {"none", "ok", "failed"}]
  /\ runs \in 0..MaxRuns

LEMMA BoundsAreNat ==
  MaxSize \in Nat /\ MaxSeq \in Nat /\ MaxGen \in Nat /\ MaxRuns \in Nat
BY InstallerAssumption

TypeInv == WorldTypes /\ ContentTypes /\ ViewTypes /\ ProcTypes

LEMMA TypeInvIsTypeOK == TypeInv => TypeOK
BY DEF TypeInv, TypeOK, WorldTypes, ContentTypes, ViewTypes, ProcTypes, RunsTo

LEMMA ZeroInRange ==
  ASSUME NEW n \in Nat
  PROVE  0 \in 0..n
OBVIOUS

LEMMA NextInBound ==
  ASSUME NEW n \in Nat, NEW k \in 0..n, k < n
  PROVE  k + 1 \in 0..n
OBVIOUS

LEMMA NewRunInRange ==
  ASSUME NEW n \in Drives \union {""}, NEW want \in Identities, NEW len \in Nat
  PROVE  NewRun(n, want) \in RunsTo(len)
<1>1. 0 \in 0..MaxSeq /\ 0 \in 0..len /\ 0 \in 0..MaxSize /\ 0 \in 0..MaxGen
  BY BoundsAreNat, ZeroInRange
<1> QED
  BY <1>1 DEF NewRun, RunsTo, Free, Seqs

LEMMA NoDiskTyped == NoDisk \in Identities
BY BoundsAreNat DEF NoDisk, Identity, Identities, Seqs, Free

LEMMA UnscannedTyped ==
  Unscanned \in [st : {"todo", "path", "done", "none"}, node : Seqs, seq : Seqs]
<1>1. 0 \in 0..MaxSeq
  BY BoundsAreNat
<1> QED
  BY <1>1 DEF Unscanned, Seqs, Free

LEMMA InitInRange == Init => TypeInv
<1> SUFFICES ASSUME Init PROVE TypeInv
  OBVIOUS
<1> USE BoundsAreNat
<1>1. disks = <<>> /\ Len(disks) = 0
  BY DEF Init
<1>2. WorldTypes
  <2>1. at \in [Drives -> Free..Len(disks)]
    <3>1. at = [n \in Drives |-> 0]
      BY DEF Init, Free
    <3>2. 0 \in 0..Len(disks)
      BY <1>1, ZeroInRange
    <3> QED
      BY <3>1, <3>2 DEF Free
  <2>2. disks \in Seq([path : Drives, node : 1..MaxSeq, cap : Capacities])
    BY <1>1
  <2>3. image \in [size : 1..MaxSize, gen : 0..MaxGen]
    <3>1. image \in [size : 1..MaxSize, gen : {0}]
      BY DEF Init
    <3>2. {0} \subseteq 0..MaxGen
      BY ZeroInRange
    <3> QED
      BY <3>1, <3>2
  <2>4. mounted \subseteq 1..Len(disks)
    BY DEF Init
  <2> QED
    BY <1>1, <2>1, <2>2, <2>3, <2>4 DEF WorldTypes
<1>3. ContentTypes
  <2>1. NoBlock \in [by : Procs \union {NoOne}, gen : 0..MaxGen]
    BY DEF NoBlock
  <2> QED
    BY <2>1 DEF Init, ContentTypes
<1>4. ViewTypes
  BY NoDiskTyped, UnscannedTyped DEF Init, ViewTypes
<1>5. ProcTypes
  <2>1. NewRun("", NoDisk) \in RunsTo(Len(disks))
    BY <1>1, NewRunInRange, NoDiskTyped
  <2>2. 0 \in 0..MaxRuns
    OBVIOUS
  <2>3. run \in [Procs -> RunsTo(Len(disks))]
    BY <2>1 DEF Init
  <2> QED
    BY <2>2, <2>3 DEF Init, ProcTypes
<1> QED
  BY <1>2, <1>3, <1>4, <1>5 DEF TypeInv

LEMMA LenIsNat ==
  ASSUME TypeInv
  PROVE  Len(disks) \in Nat
<1>1. Len(disks) \in 0..MaxSeq
  BY DEF TypeInv, WorldTypes
<1> QED
  BY <1>1, BoundsAreNat

\* The installers' steps leave the disks' number alone.
LEMMA FinishInRange ==
  ASSUME TypeInv, NEW p \in Procs, NEW how \in {"ok", "failed"}, Finish(p, how),
         UNCHANGED <<disks, runs>>
  PROVE  ProcTypes'
<1>1. NewRun("", NoDisk) \in RunsTo(Len(disks))
  BY LenIsNat, NewRunInRange, NoDiskTyped
<1> QED
  BY <1>1 DEF TypeInv, ProcTypes, Finish

LEMMA SetInRange ==
  ASSUME TypeInv, NEW p \in Procs, NEW r \in RunsTo(Len(disks)),
         run' = [run EXCEPT ![p] = r], NEW step \in {"open", "check", "copy"},
         Goto(p, step), UNCHANGED <<disks, runs>>
  PROVE  ProcTypes'
BY DEF TypeInv, ProcTypes, Goto

LEMMA GotoInRange ==
  ASSUME TypeInv, NEW p \in Procs, NEW step \in {"idle", "scan", "size", "verify", "sync"},
         Goto(p, step), UNCHANGED <<disks, run, runs>>
  PROVE  ProcTypes'
BY DEF TypeInv, ProcTypes, Goto

LEMMA StartInRange ==
  ASSUME TypeInv, NEW p \in Procs, NEW n \in Drives \union {""}, NEW want \in Identities,
         Start(p, NewRun(n, want)), UNCHANGED disks
  PROVE  ProcTypes'
<1>1. NewRun(n, want) \in RunsTo(Len(disks))
  BY LenIsNat, NewRunInRange
<1>2. runs' \in 0..MaxRuns
  <2>1. runs \in 0..MaxRuns /\ runs < MaxRuns /\ runs' = runs + 1
    BY DEF TypeInv, ProcTypes, Start
  <2>2. runs + 1 \in 0..MaxRuns
    BY <2>1, BoundsAreNat, NextInBound
  <2> QED
    BY <2>1, <2>2
<1> QED
  BY <1>1, <1>2 DEF TypeInv, ProcTypes, Start

LEMMA NodeInRange ==
  ASSUME TypeInv, NEW n \in Drives, at[n] # Free
  PROVE  at[n] \in Seqs /\ NodeAt(n) \in Seqs /\ NodeAt(n) \in 1..MaxSeq /\ at[n] \in 1..Len(disks)
<1>1. at[n] \in 1..Len(disks) /\ at[n] \in Seqs
  BY BoundsAreNat DEF TypeInv, WorldTypes, Free, Seqs
<1>2. disks[at[n]] \in [path : Drives, node : 1..MaxSeq, cap : Capacities]
  BY <1>1, ElementOfSeq DEF TypeInv, WorldTypes
<1> QED
  BY <1>1, <1>2, BoundsAreNat DEF NodeAt, Seqs, Free

LEMMA WindowInRange ==
  ASSUME TypeInv, Window
  PROVE  TypeInv'
<1>1. UNCHANGED <<world, contents>>
  BY DEF Window, Refresh, ScanEnd, Type, Install, ScanPath, ScanSys, Select
<1>2. WorldTypes' /\ ContentTypes'
  BY <1>1 DEF TypeInv, WorldTypes, ContentTypes, world, contents
<1>3. UNCHANGED disks
  BY <1>1 DEF world
<1>4. CASE Refresh
  <2>1. ViewTypes'
    BY <1>4, UnscannedTyped DEF Refresh, TypeInv, ViewTypes
  <2> QED
    BY <1>2, <1>3, <1>4, <2>1, GuiIsProc, GotoInRange DEF Refresh, TypeInv
<1>5. ASSUME NEW n \in Drives, ScanPath(n) PROVE TypeInv'
  <2>1. at[n] # Free => NodeAt(n) \in Seqs
    BY NodeInRange
  <2>2. scan[n] \in [st : {"todo", "path", "done", "none"}, node : Seqs, seq : Seqs]
    BY DEF TypeInv, ViewTypes
  <2>3. ViewTypes'
    BY <1>5, <2>1, <2>2 DEF ScanPath, TypeInv, ViewTypes
  <2> QED
    BY <1>2, <1>3, <1>5, <2>3 DEF ScanPath, TypeInv, ProcTypes, procs
<1>6. ASSUME NEW n \in Drives, ScanSys(n) PROVE TypeInv'
  <2>1. at[n] # Free => at[n] \in Seqs
    BY NodeInRange
  <2>2. scan[n] \in [st : {"todo", "path", "done", "none"}, node : Seqs, seq : Seqs]
    BY DEF TypeInv, ViewTypes
  <2>3. ViewTypes'
    BY <1>6, <2>1, <2>2 DEF ScanSys, TypeInv, ViewTypes
  <2> QED
    BY <1>2, <1>3, <1>6, <2>3 DEF ScanSys, TypeInv, ProcTypes, procs
<1>7. CASE ScanEnd
  <2>1. \A n \in Drives : Identity(n, scan[n].node, scan[n].seq) \in Identities
    BY DEF Identity, Identities, TypeInv, ViewTypes
  <2>2. ViewTypes'
    BY <1>7, <2>1, NoDiskTyped DEF ScanEnd, TypeInv, ViewTypes
  <2> QED
    BY <1>2, <1>3, <1>7, <2>2, GuiIsProc, GotoInRange DEF ScanEnd, TypeInv
<1>8. ASSUME NEW d \in list, Select(d) PROVE TypeInv'
  BY <1>2, <1>3, <1>8 DEF Select, TypeInv, ViewTypes, ProcTypes, procs
<1>9. CASE Type
  BY <1>2, <1>3, <1>9 DEF Type, TypeInv, ViewTypes, ProcTypes, procs
<1>10. CASE Install
  <2>1. target \in Identities /\ target.path \in Drives \union {""}
    BY DEF TypeInv, ViewTypes, Identities
  <2>2. Start(Gui, NewRun(target.path, target))
    BY <1>10 DEF Install
  <2>3. ProcTypes'
    BY <1>3, <2>1, <2>2, GuiIsProc, StartInRange
  <2> QED
    BY <1>2, <1>10, <2>3 DEF Install, TypeInv, ViewTypes, view
<1> QED
  BY <1>4, <1>5, <1>6, <1>7, <1>8, <1>9, <1>10 DEF Window

\* What a step of the installer does to its locals.
LEMMA FieldInRange ==
  ASSUME NEW len \in Nat, NEW r \in RunsTo(len)
  PROVE  /\ \A i \in Seqs : [r EXCEPT !.noted = i] \in RunsTo(len)
         /\ \A i \in Free..len : [r EXCEPT !.out = i] \in RunsTo(len)
         /\ \A i \in 0..MaxSize : [r EXCEPT !.copied = i] \in RunsTo(len)
         /\ \A i \in 0..MaxSize, g \in 0..MaxGen :
              [r EXCEPT !.expected = i, !.since = g] \in RunsTo(len)
BY DEF RunsTo

LEMMA InnerInRange ==
  ASSUME TypeInv, AloneInv, Typed, NEW p \in Procs, Inner(p)
  PROVE  TypeInv'
<1>1. UNCHANGED <<world, view, runs>>
  BY DEF Inner, Stat, OpenDisk, Check, Size, Copy, Verify, Sync, Fail
<1>2. WorldTypes' /\ ViewTypes' /\ UNCHANGED <<disks, runs>>
  BY <1>1 DEF TypeInv, WorldTypes, ViewTypes, world, view
<1>3. run[p] \in RunsTo(Len(disks)) /\ Len(disks) \in Nat
  BY DEF TypeInv, WorldTypes, ProcTypes
<1>4. UNCHANGED contents => ContentTypes'
  BY DEF contents, TypeInv, ContentTypes
<1>5. SUFFICES ContentTypes' /\ ProcTypes'
  BY <1>2 DEF TypeInv
<1>6. CASE Stat(p)
  <2>1. CASE at[run[p].path] = Free
    BY <1>2, <1>4, <1>6, <2>1, FinishInRange DEF Stat
  <2>2. CASE at[run[p].path] # Free
    <3>1. run[p].path \in Drives
      BY <1>6 DEF Stat, Typed, Busy
    <3>2. NodeAt(run[p].path) \in Seqs
      BY <2>2, <3>1, NodeInRange
    <3> DEFINE r == [run[p] EXCEPT !.noted = NodeAt(run[p].path)]
    <3>3. r \in RunsTo(Len(disks))
      BY <1>3, <3>2, FieldInRange
    <3>4. run' = [run EXCEPT ![p] = r] /\ Goto(p, "open")
      BY <1>6, <2>2 DEF Stat
    <3> HIDE DEF r
    <3> QED
      BY <1>2, <1>4, <1>6, <3>3, <3>4, SetInRange DEF Stat
  <2> QED
    BY <2>1, <2>2
<1>7. CASE OpenDisk(p)
  <2>1. CASE at[run[p].path] = Free \/ Claimed(at[run[p].path])
    BY <1>2, <1>4, <1>7, <2>1, FinishInRange DEF OpenDisk
  <2>2. CASE ~(at[run[p].path] = Free \/ Claimed(at[run[p].path]))
    <3>1. run[p].path \in Drives
      BY <1>7 DEF OpenDisk, Typed, Busy
    <3>2. at[run[p].path] \in Free..Len(disks)
      BY <3>1 DEF TypeInv, WorldTypes
    <3> DEFINE r == [run[p] EXCEPT !.out = at[run[p].path]]
    <3>3. r \in RunsTo(Len(disks))
      BY <1>3, <3>2, FieldInRange
    <3>4. run' = [run EXCEPT ![p] = r] /\ Goto(p, "check")
      BY <1>7, <2>2 DEF OpenDisk
    <3> HIDE DEF r
    <3> QED
      BY <1>2, <1>4, <1>7, <3>3, <3>4, SetInRange DEF OpenDisk
  <2> QED
    BY <2>1, <2>2
<1>8. CASE Check(p)
  BY <1>2, <1>4, <1>8, FinishInRange, GotoInRange DEF Check
<1>9. CASE Size(p)
  <2>1. CASE image.size > disks[run[p].out].cap
    BY <1>2, <1>4, <1>9, <2>1, FinishInRange DEF Size
  <2>2. CASE ~(image.size > disks[run[p].out].cap)
    <3>1. image.size \in 0..MaxSize /\ image.gen \in 0..MaxGen
      BY BoundsAreNat DEF TypeInv, WorldTypes
    <3> DEFINE r == [run[p] EXCEPT !.expected = image.size, !.since = image.gen]
    <3>2. r \in RunsTo(Len(disks))
      BY <1>3, <3>1, FieldInRange
    <3>3. run' = [run EXCEPT ![p] = r] /\ Goto(p, "copy")
      BY <1>9, <2>2 DEF Size
    <3> HIDE DEF r
    <3> QED
      BY <1>2, <1>4, <1>9, <3>2, <3>3, SetInRange DEF Size
  <2> QED
    BY <2>1, <2>2
<1>10. CASE Copy(p)
  <2>1. CASE Finish(p, "failed") /\ UNCHANGED contents
    BY <1>2, <1>4, <2>1, FinishInRange
  <2>2. CASE Goto(p, "verify") /\ UNCHANGED <<run, contents>>
    BY <1>2, <1>4, <2>2, GotoInRange
  <2>3. CASE WriteBlock(p) /\ run[p].copied < run[p].expected
    <3>1. run[p].copied \in 0..MaxSize /\ run[p].expected \in 0..MaxSize
      BY <1>3 DEF RunsTo
    <3>2. run[p].copied + 1 \in 0..MaxSize
      BY <2>3, <3>1, BoundsAreNat
    <3> DEFINE r == [run[p] EXCEPT !.copied = run[p].copied + 1]
    <3>3. r \in RunsTo(Len(disks))
      BY <1>3, <3>2, FieldInRange
    <3>4. run' = [run EXCEPT ![p] = r] /\ UNCHANGED <<pc, result>>
      BY <2>3 DEF WriteBlock
    <3>5. [by |-> p, gen |-> image.gen] \in [by : Procs \union {NoOne}, gen : 0..MaxGen]
      BY DEF TypeInv, WorldTypes
    <3>6. data' = [data EXCEPT ![run[p].out][run[p].copied + 1] = [by |-> p, gen |-> image.gen]]
          /\ synced' \subseteq synced
      BY <2>3 DEF WriteBlock
    <3> HIDE DEF r
    <3>7. ProcTypes'
      BY <1>2, <3>3, <3>4 DEF TypeInv, ProcTypes
    <3>8. ContentTypes'
      BY <3>5, <3>6 DEF TypeInv, ContentTypes
    <3> QED
      BY <3>7, <3>8
  <2> QED
    BY <1>10, <2>1, <2>2, <2>3 DEF Copy
<1>11. CASE Verify(p)
  BY <1>2, <1>4, <1>11, FinishInRange, GotoInRange DEF Verify
<1>12. CASE Sync(p)
  <2>1. run[p].out \in 1..MaxSeq
    <3>1. run[p].out # Free
      BY <1>12 DEF Sync, AloneInv, Opened, Ready
    <3>2. run[p].out \in Free..Len(disks) /\ Len(disks) \in 0..MaxSeq
      BY <1>3 DEF RunsTo, TypeInv, WorldTypes
    <3> QED
      BY <3>1, <3>2, BoundsAreNat DEF Free
  <2>2. data' = data /\ synced' \subseteq synced \union {run[p].out}
    BY <1>12 DEF Sync
  <2>3. ContentTypes'
    BY <2>1, <2>2 DEF TypeInv, ContentTypes
  <2> QED
    BY <1>2, <1>12, <2>3, FinishInRange DEF Sync
<1>13. CASE Fail(p)
  BY <1>2, <1>4, <1>13, FinishInRange DEF Fail
<1> QED
  BY <1>6, <1>7, <1>8, <1>9, <1>10, <1>11, <1>12, <1>13 DEF Inner

LEMMA InsertInRange ==
  ASSUME TypeInv, NEW n \in Drives, NEW node \in 1..MaxSeq, Insert(n, node)
  PROVE  TypeInv'
<1> DEFINE S == [path : Drives, node : 1..MaxSeq, cap : Capacities]
<1>1. disks \in Seq(S) /\ Len(disks) \in 0..MaxSeq
  BY DEF TypeInv, WorldTypes
<1>2. PICK cap \in Capacities :
        disks' = Append(disks, [path |-> n, node |-> node, cap |-> cap])
  BY DEF Insert
<1>3. [path |-> n, node |-> node, cap |-> cap] \in S
  OBVIOUS
<1>4. disks' \in Seq(S) /\ Len(disks') = Len(disks) + 1
  BY <1>1, <1>2, <1>3, AppendProperties
<1>5. Len(disks') \in 0..MaxSeq /\ Len(disks) \in Nat
  BY <1>1, <1>4, BoundsAreNat DEF Insert
<1>6. at' \in [Drives -> Free..Len(disks')]
  <2>1. at \in [Drives -> Free..Len(disks)] /\ at' = [at EXCEPT ![n] = Len(disks) + 1]
    BY DEF TypeInv, WorldTypes, Insert
  <2> QED
    BY <1>4, <1>5, <2>1 DEF Free
<1>7. mounted' \subseteq 1..Len(disks')
  <2>1. mounted' \subseteq mounted /\ mounted \subseteq 1..Len(disks)
    BY DEF TypeInv, WorldTypes, Insert
  <2> QED
    BY <1>4, <1>5, <2>1
<1>8. WorldTypes'
  BY <1>4, <1>5, <1>6, <1>7 DEF WorldTypes, TypeInv, Insert
<1>9. RunsTo(Len(disks)) \subseteq RunsTo(Len(disks'))
  <2>1. Free..Len(disks) \subseteq Free..Len(disks')
    BY <1>4, <1>5 DEF Free
  <2> QED
    BY <2>1 DEF RunsTo
<1>10. ProcTypes'
  BY <1>9 DEF Insert, procs, TypeInv, ProcTypes
<1> QED
  BY <1>8, <1>10 DEF Insert, contents, view, TypeInv, ContentTypes, ViewTypes

LEMMA OutsideInRange ==
  ASSUME TypeInv, Outside
  PROVE  TypeInv'
<1>1. ASSUME NEW n \in Drives, Plug(n) PROVE TypeInv'
  <2>1. Len(disks) + 1 \in 1..MaxSeq
    BY <1>1, BoundsAreNat DEF Plug, Insert, TypeInv, WorldTypes
  <2> QED
    BY <1>1, <2>1, InsertInRange DEF Plug
<1>2. ASSUME NEW n \in Drives, Swap(n) PROVE TypeInv'
  BY <1>2, NodeInRange, InsertInRange DEF Swap
<1>3. ASSUME UNCHANGED <<disks, contents, view, procs>>, WorldTypes' PROVE TypeInv'
  BY <1>3 DEF contents, view, procs, TypeInv, ContentTypes, ViewTypes, ProcTypes
<1>4. ASSUME NEW n \in Drives, Pull(n) PROVE TypeInv'
  <2>1. at' \in [Drives -> Free..Len(disks)]
    <3>1. Free \in Free..Len(disks)
      BY LenIsNat DEF Free
    <3> QED
      BY <1>4, <3>1 DEF Pull, TypeInv, WorldTypes
  <2>2. WorldTypes'
    BY <1>4, <2>1 DEF Pull, TypeInv, WorldTypes
  <2> QED
    BY <1>3, <1>4, <2>2 DEF Pull
<1>5. ASSUME NEW n \in Drives, Mount(n) PROVE TypeInv'
  <2>1. WorldTypes'
    BY <1>5, NodeInRange DEF Mount, TypeInv, WorldTypes
  <2> QED
    BY <1>3, <1>5, <2>1 DEF Mount
<1>6. ASSUME NEW n \in Drives, Unmount(n) PROVE TypeInv'
  <2>1. WorldTypes'
    BY <1>6 DEF Unmount, TypeInv, WorldTypes
  <2> QED
    BY <1>3, <1>6, <2>1 DEF Unmount
<1>7. CASE Rewrite
  <2>1. image' \in [size : 1..MaxSize, gen : 0..MaxGen]
    BY <1>7, BoundsAreNat DEF Rewrite, TypeInv, WorldTypes
  <2>2. WorldTypes'
    BY <1>7, <2>1 DEF Rewrite, TypeInv, WorldTypes
  <2> QED
    BY <1>3, <1>7, <2>2 DEF Rewrite
<1> QED
  BY <1>1, <1>2, <1>4, <1>5, <1>6, <1>7 DEF Outside

LEMMA NextInRange ==
  ASSUME TypeInv, Typed, AloneInv, [Next]_vars
  PROVE  TypeInv'
<1>1. ASSUME NEW p \in Clis, NEW n \in Drives, RunCli(p, n) PROVE TypeInv'
  <2>1. p \in Procs /\ UNCHANGED disks
    BY <1>1 DEF Procs, RunCli, world
  <2>2. ProcTypes'
    BY <1>1, <2>1, NoDiskTyped, StartInRange DEF RunCli
  <2> QED
    BY <1>1, <2>2 DEF RunCli, TypeInv, WorldTypes, ContentTypes, ViewTypes, world, contents, view
<1>2. CASE UNCHANGED vars
  BY <1>2 DEF vars, world, contents, view, procs,
    TypeInv, WorldTypes, ContentTypes, ViewTypes, ProcTypes
<1> QED
  BY <1>1, <1>2, WindowInRange, InnerInRange, OutsideInRange DEF Next

LEMMA TypesAndAlone == Spec => [](TypeInv /\ Typed /\ AloneInv)
<1>1. Init => TypeInv /\ Typed /\ AloneInv
  <2>1. Init => \A p \in Procs : run[p].out = Free /\ ~Opened(p)
    <3>1. NewRun("", NoDisk).out = Free
      BY DEF NewRun
    <3> QED
      BY <3>1 DEF Init, Opened, Ready
  <2> QED
    BY <2>1, InitTyped, InitInRange DEF AloneInv
<1>2. TypeInv /\ Typed /\ AloneInv /\ [Next]_vars => (TypeInv /\ Typed /\ AloneInv)'
  BY NextInRange, NextTyped, NextAlone
<1> QED
  BY <1>1, <1>2, PTL DEF Spec

\* The installer's variables keep their types and stay within their bounds.
THEOREM InstallerTypes == Spec => []TypeOK
BY TypesAndAlone, TypeInvIsTypeOK, PTL

-----------------------------------------------------------------------------
(* What an installer has copied is on its disk, from it and from no image  *)
(* older than the one it has sized.                                        *)
Whole(p) ==
  /\ ~Writing(p) => run[p].copied = 0
  /\ Writing(p) =>
       /\ run[p].since <= image.gen
       /\ \A k \in 1..run[p].copied :
            /\ data[run[p].out][k].by = p
            /\ data[run[p].out][k].gen \in run[p].since..image.gen
  /\ pc[p] = "sync" => run[p].copied = run[p].expected

WholeInv == \A p \in Procs : Whole(p)

LEMMA RunNumbers ==
  ASSUME TypeInv, NEW p \in Procs
  PROVE  /\ run[p].copied \in Nat /\ run[p].expected \in Nat
         /\ run[p].since \in Nat /\ image.gen \in Nat
<1>1. run[p] \in RunsTo(Len(disks))
  BY DEF TypeInv, ProcTypes
<1>2. run[p].copied \in 0..MaxSize /\ run[p].expected \in 0..MaxSize /\ run[p].since \in 0..MaxGen
  BY <1>1 DEF RunsTo
<1>3. image.gen \in 0..MaxGen
  BY DEF TypeInv, WorldTypes
<1> QED
  BY <1>2, <1>3

\* Nothing that leaves an installer, its disk and its image's past alone matters.
LEMMA WholeStays ==
  ASSUME TypeInv, NEW p \in Procs, Whole(p), run'[p] = run[p], pc'[p] = pc[p],
         image.gen <= image'.gen, image'.gen \in Nat,
         Writing(p) => data'[run[p].out] = data[run[p].out]
  PROVE  Whole(p)'
<1>1. run[p].since \in Nat /\ image.gen \in Nat
  BY RunNumbers
<1>2. run[p].since..image.gen \subseteq run[p].since..image'.gen
  BY <1>1
<1> QED
  BY <1>1, <1>2 DEF Whole, Writing

\* An installer that does not write yet, or no longer.
LEMMA WholeIdle ==
  ASSUME NEW p \in Procs, ~Writing(p)', run'[p].copied = 0
  PROVE  Whole(p)'
BY DEF Whole, Writing

LEMMA WholeFinish ==
  ASSUME TypeInv, NEW p \in Procs, NEW how, Finish(p, how)
  PROVE  Whole(p)'
<1>1. run'[p].copied = 0 /\ pc'[p] = "idle"
  BY DEF Finish, NewRun, TypeInv, ProcTypes
<1> QED
  BY <1>1, WholeIdle DEF Writing

\* What an installer does leaves the others' disks alone.
LEMMA OthersKept ==
  ASSUME TypeInv, AloneInv, NEW p \in Procs, Inner(p), NEW q \in Procs \ {p}
  PROVE  /\ run'[q] = run[q] /\ pc'[q] = pc[q] /\ UNCHANGED image
         /\ Writing(q) => data'[run[q].out] = data[run[q].out]
<1> USE DEF TypeInv, ProcTypes
<1>1. CASE ~Copy(p)
  <2>1. UNCHANGED <<data, image>>
    BY <1>1 DEF Inner, Stat, OpenDisk, Check, Size, Verify, Sync, Fail, world, contents
  <2>2. run'[q] = run[q] /\ pc'[q] = pc[q]
    BY <1>1 DEF Inner, Stat, OpenDisk, Check, Size, Verify, Sync, Fail, Goto, Finish
  <2> QED
    BY <2>1, <2>2
<1>2. CASE Copy(p)
  <2>1. UNCHANGED image /\ run'[q] = run[q] /\ pc'[q] = pc[q]
    BY <1>2 DEF Copy, WriteBlock, Goto, Finish, world
  <2>2. \A i \in 1..MaxSeq : i # run[p].out => data'[i] = data[i]
    BY <1>2 DEF Copy, WriteBlock, contents, ContentTypes
  <2>3. Writing(q) => run[q].out # run[p].out /\ run[q].out \in 1..MaxSeq
    <3>1. Writing(q) => Opened(q) /\ run[q].out # Free
      BY DEF AloneInv, Writing, Opened, Ready
    <3>2. Opened(p)
      BY <1>2 DEF Copy, Opened, Ready
    <3>3. run[q].out \in Free..Len(disks) /\ Len(disks) \in 0..MaxSeq
      BY DEF RunsTo, WorldTypes
    <3>4. Opened(q) => run[q].out # run[p].out
      BY DEF AloneInv
    <3> QED
      BY <3>1, <3>2, <3>3, <3>4, BoundsAreNat DEF Free
  <2> QED
    BY <2>1, <2>2, <2>3
<1> QED
  BY <1>1, <1>2

LEMMA InnerWhole ==
  ASSUME TypeInv, TypeInv', AloneInv, WholeInv, NEW p \in Procs, Inner(p)
  PROVE  WholeInv'
<1>1. image' = image
  BY DEF Inner, Stat, OpenDisk, Check, Size, Copy, Verify, Sync, Fail, world
<1>2. ASSUME NEW q \in Procs \ {p} PROVE Whole(q)'
  <2>1. image.gen \in Nat
    BY RunNumbers
  <2>2. Whole(q)
    BY DEF WholeInv
  <2> QED
    BY <1>1, <2>1, <2>2, OthersKept, WholeStays
<1>3. SUFFICES Whole(p)'
  BY <1>2 DEF WholeInv
<1>4. Whole(p)
  BY DEF WholeInv
<1>5. CASE \E how \in {"ok", "failed"} : Finish(p, how)
  BY <1>5, WholeFinish
<1>6. pc \in [Procs -> {"idle", "scan", "stat", "open", "check", "size", "copy", "verify", "sync"}]
      /\ run \in [Procs -> RunsTo(Len(disks))]
  BY DEF TypeInv, ProcTypes
<1>7. run[p] \in RunsTo(Len(disks))
  BY <1>6
<1>8. run[p].copied \in Nat /\ run[p].since \in Nat /\ image.gen \in Nat
  BY RunNumbers
<1>9. CASE \/ Stat(p) /\ Goto(p, "open")
           \/ OpenDisk(p) /\ Goto(p, "check")
           \/ Check(p) /\ Goto(p, "size") /\ UNCHANGED run
  <2>1. ~Writing(p) /\ ~Writing(p)'
    BY <1>6, <1>9 DEF Stat, OpenDisk, Check, Goto, Writing
  <2>2. run'[p].copied = run[p].copied
    BY <1>6, <1>7, <1>9 DEF Stat, OpenDisk, Goto, Finish, RunsTo
  <2> QED
    BY <1>4, <2>1, <2>2, WholeIdle DEF Whole
<1>10. CASE Size(p) /\ Goto(p, "copy")
  <2>1. run[p].copied = 0
    BY <1>4, <1>10 DEF Size, Whole, Writing
  <2>2. run' = [run EXCEPT ![p].expected = image.size, ![p].since = image.gen] /\ pc'[p] = "copy"
    BY <1>6, <1>10 DEF Size, Goto, Finish
  <2>3. run'[p].copied = 0 /\ run'[p].since = image.gen
    BY <1>6, <1>7, <2>1, <2>2 DEF RunsTo
  <2>4. Writing(p)' /\ pc'[p] # "sync"
    BY <2>2 DEF Writing
  <2>5. run'[p].since <= image'.gen /\ \A k \in 1..run'[p].copied : FALSE
    BY <1>1, <1>8, <2>3
  <2> QED
    BY <2>4, <2>5 DEF Whole
<1>11. CASE WriteBlock(p) /\ pc[p] = "copy"
  <2> DEFINE k1 == run[p].copied + 1
             r1 == [run[p] EXCEPT !.copied = k1]
  <2>1. run'[p] = r1 /\ pc' = pc
    BY <1>6, <1>11 DEF WriteBlock
  <2>2. r1.copied = k1 /\ r1.out = run[p].out /\ r1.since = run[p].since
    BY <1>7 DEF RunsTo
  <2>3. data' = [data EXCEPT ![run[p].out][k1] = [by |-> p, gen |-> image.gen]]
    BY <1>11 DEF WriteBlock
  <2>4. run[p].out \in 1..MaxSeq
    <3>1. run[p].out # Free
      BY <1>11 DEF AloneInv, Opened, Ready
    <3>2. run[p].out \in Free..Len(disks) /\ Len(disks) \in 0..MaxSeq
      BY <1>7 DEF RunsTo, TypeInv, WorldTypes
    <3> QED
      BY <3>1, <3>2, BoundsAreNat DEF Free
  <2>5. k1 \in 1..MaxSize
    <3>1. run'[p] \in RunsTo(Len(disks'))
      BY DEF TypeInv, ProcTypes
    <3>2. run'[p].copied \in 0..MaxSize
      BY <3>1 DEF RunsTo
    <3>3. run'[p].copied = run[p].copied + 1
      BY <2>1, <2>2
    <3> QED
      BY <1>8, <3>2, <3>3, BoundsAreNat
  <2>6. data \in [1..MaxSeq -> [1..MaxSize -> [by : Procs \union {NoOne}, gen : 0..MaxGen]]]
    BY DEF TypeInv, ContentTypes
  <2>7. data'[run[p].out][k1] = [by |-> p, gen |-> image.gen]
        /\ \A k \in 1..MaxSize : k # k1 => data'[run[p].out][k] = data[run[p].out][k]
    BY <2>3, <2>4, <2>5, <2>6
  <2>8. Writing(p) /\ Writing(p)' /\ pc'[p] # "sync"
    BY <1>11, <2>1 DEF Writing
  <2>9. \A k \in 1..k1 : k = k1 \/ k \in 1..run[p].copied
    BY <1>8
  <2>10. 1..run[p].copied \subseteq 1..MaxSize /\ \A k \in 1..run[p].copied : k # k1
    BY <1>8, <2>5, BoundsAreNat
  <2>11. ASSUME NEW k \in 1..k1
         PROVE  data'[run[p].out][k].by = p /\ data'[run[p].out][k].gen \in run[p].since..image.gen
    <3>1. CASE k = k1
      BY <1>4, <1>8, <2>7, <2>8, <3>1 DEF Whole
    <3>2. CASE k \in 1..run[p].copied
      BY <1>4, <2>7, <2>8, <2>10, <3>2 DEF Whole
    <3> QED
      BY <2>9, <3>1, <3>2
  <2> HIDE DEF k1, r1
  <2> QED
    BY <1>1, <1>4, <2>1, <2>2, <2>8, <2>11 DEF Whole
<1>12. CASE Copy(p) /\ Goto(p, "verify") /\ UNCHANGED <<run, contents>>
  <2>1. Writing(p) /\ Writing(p)' /\ pc'[p] = "verify" /\ UNCHANGED <<run, data>>
    BY <1>6, <1>12 DEF Copy, Goto, Writing, contents
  <2> QED
    BY <1>1, <1>4, <2>1 DEF Whole
<1>13. CASE Verify(p) /\ Goto(p, "sync") /\ UNCHANGED run
  <2>1. Writing(p) /\ Writing(p)' /\ UNCHANGED <<run, data>>
    BY <1>6, <1>13 DEF Verify, Goto, Writing, contents
  <2>2. run[p].copied = run[p].expected
    BY <1>6, <1>13 DEF Verify, Goto, Finish
  <2> QED
    BY <1>1, <1>4, <2>1, <2>2 DEF Whole
<1>14. CASE Stat(p) \/ OpenDisk(p) \/ Check(p)
  <2>1. CASE Stat(p)
    BY <1>5, <1>9, <2>1 DEF Stat
  <2>2. CASE OpenDisk(p)
    BY <1>5, <1>9, <2>2 DEF OpenDisk
  <2>3. CASE Check(p)
    BY <1>5, <1>9, <2>3 DEF Check
  <2> QED
    BY <1>14, <2>1, <2>2, <2>3
<1>15. CASE Size(p)
  BY <1>5, <1>10, <1>15 DEF Size
<1>16. CASE Copy(p)
  BY <1>5, <1>11, <1>12, <1>16 DEF Copy
<1>17. CASE Verify(p)
  BY <1>5, <1>13, <1>17 DEF Verify
<1>18. CASE Sync(p) \/ Fail(p)
  BY <1>5, <1>18 DEF Sync, Fail
<1> QED
  BY <1>14, <1>15, <1>16, <1>17, <1>18 DEF Inner

LEMMA NextWhole ==
  ASSUME TypeInv, TypeInv', AloneInv, WholeInv, [Next]_vars
  PROVE  WholeInv'
<1>1. pc \in [Procs -> {"idle", "scan", "stat", "open", "check", "size", "copy", "verify", "sync"}]
      /\ run \in [Procs -> RunsTo(Len(disks))]
  BY DEF TypeInv, ProcTypes
<1>2. image.gen \in Nat
  BY GuiIsProc, RunNumbers
<1>3. ASSUME UNCHANGED <<pc, run, data>>, image'.gen \in Nat, image.gen <= image'.gen
      PROVE  WholeInv'
  BY <1>3, WholeStays DEF WholeInv
<1>4. ASSUME NEW p \in Procs, UNCHANGED <<image, data>>, ~Writing(p)', run'[p].copied = 0,
             \A q \in Procs \ {p} : run'[q] = run[q] /\ pc'[q] = pc[q]
      PROVE  WholeInv'
  <2>1. Whole(p)'
    BY <1>4, WholeIdle
  <2>2. \A q \in Procs \ {p} : Whole(q)'
    BY <1>2, <1>4, WholeStays DEF WholeInv
  <2> QED
    BY <2>1, <2>2 DEF WholeInv
<1>5. CASE Window
  <2>1. UNCHANGED <<image, data>>
    BY <1>5 DEF Window, Refresh, ScanEnd, Type, Install, ScanPath, ScanSys, Select, world, contents
  <2>2. CASE UNCHANGED procs
    BY <1>2, <1>3, <2>1, <2>2 DEF procs
  <2>3. CASE Refresh \/ ScanEnd
    <3>1. ~Writing(Gui) /\ ~Writing(Gui)' /\ run' = run
      BY <1>1, <2>3, GuiIsProc DEF Refresh, ScanEnd, Goto, Writing
    <3>2. run[Gui].copied = 0
      BY <3>1, GuiIsProc DEF WholeInv, Whole
    <3>3. \A q \in Procs \ {Gui} : pc'[q] = pc[q]
      BY <1>1, <2>3 DEF Refresh, ScanEnd, Goto
    <3> QED
      BY <1>4, <2>1, <3>1, <3>2, <3>3, GuiIsProc
  <2>4. CASE Install
    <3>1. pc'[Gui] = "stat" /\ run'[Gui].copied = 0
      BY <1>1, <2>4, GuiIsProc DEF Install, Start, NewRun
    <3>2. \A q \in Procs \ {Gui} : run'[q] = run[q] /\ pc'[q] = pc[q]
      BY <1>1, <2>4 DEF Install, Start
    <3> QED
      BY <1>4, <2>1, <3>1, <3>2, GuiIsProc DEF Writing
  <2> QED
    BY <1>5, <2>2, <2>3, <2>4 DEF Window, Type, ScanPath, ScanSys, Select
<1>6. ASSUME NEW p \in Clis, NEW n \in Drives, RunCli(p, n) PROVE WholeInv'
  <2>1. p \in Procs /\ UNCHANGED <<image, data>>
    BY <1>6 DEF RunCli, Procs, world, contents
  <2>2. pc'[p] = "stat" /\ run'[p].copied = 0
    BY <1>1, <1>6, <2>1 DEF RunCli, Start, NewRun
  <2>3. \A q \in Procs \ {p} : run'[q] = run[q] /\ pc'[q] = pc[q]
    BY <1>1, <1>6 DEF RunCli, Start
  <2> QED
    BY <1>4, <2>1, <2>2, <2>3 DEF Writing
<1>7. CASE Outside
  <2>1. UNCHANGED <<pc, run, data>>
    BY <1>7 DEF Outside, Plug, Swap, Insert, Pull, Mount, Unmount, Rewrite, procs, contents
  <2>2. image' = image \/ Rewrite
    BY <1>7 DEF Outside, Plug, Swap, Insert, Pull, Mount, Unmount
  <2>3. image'.gen \in Nat /\ image.gen <= image'.gen
    <3>1. CASE Rewrite
      <4>1. image'.gen = image.gen + 1
        BY <3>1 DEF Rewrite
      <4> QED
        BY <1>2, <4>1
    <3> QED
      BY <1>2, <2>2, <3>1
  <2> QED
    BY <1>3, <2>1, <2>3
<1>8. CASE UNCHANGED vars
  BY <1>2, <1>3, <1>8 DEF vars, world, contents, procs
<1> QED
  BY <1>5, <1>6, <1>7, <1>8, InnerWhole DEF Next

\* What a step that reports success finds and leaves.
LEMMA SuccessStep ==
  ASSUME TypeInv, WholeInv, [Next]_vars, NEW p \in Procs, result[p] # "ok", result'[p] = "ok"
  PROVE  /\ run[p].out \in synced' /\ run[p].copied = run[p].expected
         /\ \A k \in 1..run[p].expected :
              data'[run[p].out][k].by = p /\ data'[run[p].out][k].gen \in run[p].since..image.gen
<1>1. result \in [Procs -> {"none", "ok", "failed"}]
  BY DEF TypeInv, ProcTypes
<1>2. Sync(p) /\ Finish(p, "ok")
  <2>1. ~Window
    BY <1>1 DEF Window, Refresh, ScanEnd, Type, Install, ScanPath, ScanSys, Select, procs, Goto, Start
  <2>2. ~Outside
    BY DEF Outside, Plug, Swap, Insert, Pull, Mount, Unmount, Rewrite, procs
  <2>3. \A q \in Clis, n \in Drives : ~RunCli(q, n)
    BY <1>1 DEF RunCli, Start
  <2>4. result' # result
    OBVIOUS
  <2>5. PICK q \in Procs : Inner(q)
    BY <2>1, <2>2, <2>3, <2>4 DEF Next, vars, procs
  <2>6. Sync(q) /\ Finish(q, "ok")
    BY <1>1, <2>5 DEF Inner, Stat, OpenDisk, Check, Size, Copy, WriteBlock, Verify, Sync, Fail,
      Goto, Finish
  <2>7. q = p
    BY <1>1, <2>6 DEF Finish
  <2> QED
    BY <2>6, <2>7
<1>3. pc[p] = "sync" /\ data' = data
  BY <1>2 DEF Sync
<1>4. run[p].out \in synced'
  BY <1>1, <1>2 DEF Sync, Finish
<1>5. Whole(p) /\ Writing(p)
  BY <1>3 DEF WholeInv, Writing
<1> QED
  BY <1>3, <1>4, <1>5 DEF Whole

\* A reported success means that the whole image is on the medium, written by
\* this installer alone and from no older image than the one it has sized,
\* whatever is rewritten, pulled or started meanwhile.
THEOREM SuccessMeansWhole == Spec => SuccessIsWhole
<1> DEFINE Inv == TypeInv /\ Typed /\ AloneInv
<1>1. Init => WholeInv
  <2>1. NewRun("", NoDisk).copied = 0
    BY DEF NewRun
  <2> QED
    BY <2>1 DEF Init, WholeInv, Whole, Writing
<1>2. Inv /\ Inv' /\ WholeInv /\ [Next]_vars => WholeInv'
  BY NextWhole
<1>3. Inv /\ WholeInv /\ [Next]_vars =>
        [\A p \in Procs : (result[p] # "ok" /\ result'[p] = "ok") =>
           LET r == run[p] IN
           /\ r.out \in synced'
           /\ r.copied = r.expected
           /\ \A k \in 1..r.expected :
                data'[r.out][k].by = p /\ data'[r.out][k].gen \in r.since..image.gen]_vars
  BY SuccessStep
<1> QED
  BY <1>1, <1>2, <1>3, TypesAndAlone, PTL DEF Spec, SuccessIsWhole
=============================================================================
