--------------------------- MODULE DiskInstaller ---------------------------
(***************************************************************************)
(* The disk installer (system/installer): a window in which a disk is      *)
(* listed, selected and confirmed by typing its name, a command line that  *)
(* names its disk, and the one routine that writes an image for both.      *)
(* Meanwhile disks are plugged, pulled, swapped in their drive and         *)
(* mounted, and the image file is rewritten.                               *)
(*                                                                         *)
(* A disk is known by its diskseq, which the kernel counts up whenever a   *)
(* drive gets another medium; disks[i] is the i-th.  The target is a block *)
(* device: no program passes allow_regular_file.                           *)
(***************************************************************************)
EXTENDS Naturals, Sequences

CONSTANTS
  Drives,      \* the drives' device names
  Gui,         \* the window
  Clis,        \* command lines
  Capacities,  \* the capacities disks may have, in blocks
  MaxSize,     \* bound on the image's size, in blocks
  MaxSeq,      \* bound on the number of disks
  MaxGen,      \* bound on rewrites of the image
  MaxRuns      \* bound on installations

Procs == {Gui} \union Clis
Free == 0
NoOne == "nobody"

ASSUME InstallerAssumption ==
  /\ Drives \subseteq STRING /\ "" \notin Drives
  /\ Gui \notin Clis /\ NoOne \notin Procs
  /\ Capacities \subseteq Nat
  /\ MaxSize \in Nat /\ MaxSeq \in Nat /\ MaxGen \in Nat /\ MaxRuns \in Nat

VARIABLES
  disks,    \* the disks so far: the drive, the drive's device node, the capacity
  at,       \* at[n]: the disk in drive n, or Free
  mounted,  \* disks with a mounted partition
  data,     \* data[i][k]: who wrote block k of disk i, and from which image
  synced,   \* disks whose written blocks are all on the medium
  image,    \* the source: its size, and how often it was rewritten
  scan,     \* discover_disks: what its thread for each drive has found out
  list,     \* the disks on offer
  target,   \* the identity selected, or NoDisk
  typed,    \* the confirmation
  pc,       \* pc[p]: the next step of p
  run,      \* run[p]: the locals of install_image_inner
  result,   \* result[p]: how its last run ended
  runs      \* history: installations started

world == <<disks, at, mounted, image>>
contents == <<data, synced>>
view == <<scan, list, target, typed>>
procs == <<pc, run, result, runs>>
vars == <<world, contents, view, procs>>

-----------------------------------------------------------------------------
Identity(n, node, i) == [path |-> n, node |-> node, seq |-> i]
NoDisk == Identity("", Free, Free)
NoBlock == [by |-> NoOne, gen |-> 0]

\* A drive that was plugged anew has a new device node; another medium in the
\* same drive does not change it.
NodeAt(n) == disks[at[n]].node
Attached(i) == at[disks[i].path] = i

\* O_EXCL: open elsewhere with O_EXCL, or mounted.
Claimed(i) == i \in mounted \/ \E p \in Procs : run[p].out = i

NewRun(n, want) ==
  [path |-> n, want |-> want, noted |-> Free, out |-> Free,
   expected |-> 0, copied |-> 0, since |-> 0]

Finish(p, how) ==
  /\ pc' = [pc EXCEPT ![p] = "idle"]
  /\ run' = [run EXCEPT ![p] = NewRun("", NoDisk)]
  /\ result' = [result EXCEPT ![p] = how]

Goto(p, step) == pc' = [pc EXCEPT ![p] = step] /\ UNCHANGED result

Start(p, r) ==
  /\ runs < MaxRuns
  /\ runs' = runs + 1
  /\ run' = [run EXCEPT ![p] = r]
  /\ pc' = [pc EXCEPT ![p] = "stat"]
  /\ result' = [result EXCEPT ![p] = "none"]

Found(n) == scan[n].st = "done"
Unscanned == [st |-> "todo", node |-> Free, seq |-> Free]

Init ==
  /\ disks = <<>>
  /\ at = [n \in Drives |-> Free]
  /\ mounted = {}
  /\ data = [i \in 1..MaxSeq |-> [k \in 1..MaxSize |-> NoBlock]]
  /\ synced = 1..MaxSeq
  /\ image \in [size : 1..MaxSize, gen : {0}]
  /\ scan = [n \in Drives |-> Unscanned]
  /\ list = {}
  /\ target = NoDisk
  /\ typed = ""
  /\ pc = [p \in Procs |-> IF p = Gui THEN "scan" ELSE "idle"]
  /\ run = [p \in Procs |-> NewRun("", NoDisk)]
  /\ result = [p \in Procs |-> "none"]
  /\ runs = 0

-----------------------------------------------------------------------------
(* The window: its handlers run one at a time, install included.           *)

Refresh ==
  /\ pc[Gui] = "idle"
  /\ scan' = [n \in Drives |-> Unscanned]
  /\ Goto(Gui, "scan")
  /\ UNCHANGED <<world, contents, list, target, typed, run, runs>>

\* inspect_install_disk looks at the path first and then, by device number,
\* into /sys: the drive may have another disk by then.
ScanPath(n) ==
  /\ pc[Gui] = "scan" /\ scan[n].st = "todo"
  /\ scan' = [scan EXCEPT ![n] =
       IF at[n] = Free THEN [@ EXCEPT !.st = "none"]
                       ELSE [@ EXCEPT !.st = "path", !.node = NodeAt(n)]]
  /\ UNCHANGED <<world, contents, list, target, typed, procs>>

ScanSys(n) ==
  /\ pc[Gui] = "scan" /\ scan[n].st = "path"
  /\ scan' = [scan EXCEPT ![n] =
       IF at[n] = Free THEN [@ EXCEPT !.st = "none"]
                       ELSE [@ EXCEPT !.st = "done", !.seq = at[n]]]
  /\ UNCHANGED <<world, contents, list, target, typed, procs>>

ScanEnd ==
  /\ pc[Gui] = "scan"
  /\ \A n \in Drives : scan[n].st \in {"none", "done"}
  /\ list' = {Identity(n, scan[n].node, scan[n].seq) : n \in {d \in Drives : Found(d)}}
  /\ target' = NoDisk
  /\ typed' = ""
  /\ Goto(Gui, "idle")
  /\ UNCHANGED <<world, contents, scan, run, runs>>

\* The first four have a button; which of them do makes no difference here.
Select(disk) ==
  /\ pc[Gui] = "idle"
  /\ disk \in list
  /\ target' = disk
  /\ typed' = ""
  /\ UNCHANGED <<world, contents, scan, list, procs>>

\* The input is there once a disk is selected; a text that is no drive's name
\* is as good as none.
Type ==
  /\ pc[Gui] = "idle" /\ target # NoDisk
  /\ typed' \in Drives \union {""}
  /\ UNCHANGED <<world, contents, scan, list, target, procs>>

\* install_image_to_disk: without the name only the status changes.
Install ==
  /\ pc[Gui] = "idle" /\ target # NoDisk /\ typed = target.path
  /\ Start(Gui, NewRun(target.path, target))
  /\ UNCHANGED <<world, contents, view>>

\* run_installer: the disk is whatever has the name.
RunCli(p, n) ==
  /\ pc[p] = "idle"
  /\ Start(p, NewRun(n, NoDisk))
  /\ UNCHANGED <<world, contents, view>>

-----------------------------------------------------------------------------
(* install_image_inner                                                     *)

Stat(p) ==
  /\ pc[p] = "stat"
  /\ IF at[run[p].path] = Free
     THEN Finish(p, "failed")
     ELSE Goto(p, "open") /\ run' = [run EXCEPT ![p].noted = NodeAt(run[p].path)]
  /\ UNCHANGED <<world, contents, view, runs>>

\* Fault: without O_EXCL.
FaultOpenDisk(p) ==
  /\ pc[p] = "open"
  /\ LET i == at[run[p].path]
     IN  IF i = Free THEN Finish(p, "failed")
                     ELSE Goto(p, "check") /\ run' = [run EXCEPT ![p].out = i]
  /\ UNCHANGED <<world, contents, view, runs>>

OpenDisk(p) ==
  /\ pc[p] = "open"
  /\ LET i == at[run[p].path]
     IN  IF i = Free \/ Claimed(i)
         THEN Finish(p, "failed")
         ELSE Goto(p, "check") /\ run' = [run EXCEPT ![p].out = i]
  /\ UNCHANGED <<world, contents, view, runs>>

\* Fault: the device node says it all.
FaultSameDisk(p) ==
  run[p].want # NoDisk =>
    disks[run[p].out].node = run[p].want.node

\* The window's disk: the node that is open, and what /sys has for its number now.
SameDisk(p) ==
  run[p].want # NoDisk =>
    Identity(run[p].path, disks[run[p].out].node, at[run[p].path]) = run[p].want

Check(p) ==
  /\ pc[p] = "check"
  /\ IF SameDisk(p) /\ disks[run[p].out].node = run[p].noted
     THEN Goto(p, "size") /\ UNCHANGED run
     ELSE Finish(p, "failed")
  /\ UNCHANGED <<world, contents, view, runs>>

\* The image is read to its end once, to know its size.
Size(p) ==
  /\ pc[p] = "size"
  /\ IF image.size > disks[run[p].out].cap
     THEN Finish(p, "failed")
     ELSE /\ Goto(p, "copy")
          /\ run' = [run EXCEPT ![p].expected = image.size, ![p].since = image.gen]
  /\ UNCHANGED <<world, contents, view, runs>>

WriteBlock(p) ==
  LET i == run[p].out
      k == run[p].copied + 1
  IN  /\ data' = [data EXCEPT ![i][k] = [by |-> p, gen |-> image.gen]]
      /\ synced' = synced \ {i}
      /\ run' = [run EXCEPT ![p].copied = k]
      /\ UNCHANGED <<pc, result>>

\* io::copy of at most the expected size, or up to the end of what the image
\* has become; a disk that is gone takes no more blocks.
Copy(p) ==
  /\ pc[p] = "copy"
  /\ IF run[p].copied < run[p].expected /\ run[p].copied < image.size
     THEN IF Attached(run[p].out) THEN WriteBlock(p)
                                  ELSE Finish(p, "failed") /\ UNCHANGED contents
     ELSE Goto(p, "verify") /\ UNCHANGED <<run, contents>>
  /\ UNCHANGED <<world, view, runs>>

\* Fault: a short copy passes.
FaultVerify(p) ==
  /\ pc[p] = "verify"
  /\ IF image.size <= run[p].copied
     THEN Goto(p, "sync") /\ UNCHANGED run
     ELSE Finish(p, "failed")
  /\ UNCHANGED <<world, contents, view, runs>>

Verify(p) ==
  /\ pc[p] = "verify"
  /\ IF run[p].copied = run[p].expected /\ image.size <= run[p].copied
     THEN Goto(p, "sync") /\ UNCHANGED run
     ELSE Finish(p, "failed")
  /\ UNCHANGED <<world, contents, view, runs>>

Sync(p) ==
  /\ pc[p] = "sync"
  /\ IF Attached(run[p].out)
     THEN Finish(p, "ok") /\ synced' = synced \union {run[p].out}
     ELSE Finish(p, "failed") /\ UNCHANGED synced
  /\ UNCHANGED <<world, data, view, runs>>

\* Any call may return an error, the opening of the source included.
Fail(p) ==
  /\ pc[p] \notin {"idle", "scan"}
  /\ Finish(p, "failed")
  /\ UNCHANGED <<world, contents, view, runs>>

-----------------------------------------------------------------------------
(* The world                                                               *)

Insert(n, node) ==
  /\ Len(disks) < MaxSeq
  /\ \E cap \in Capacities :
       disks' = Append(disks, [path |-> n, node |-> node, cap |-> cap])
  /\ at' = [at EXCEPT ![n] = Len(disks) + 1]
  /\ mounted' = mounted \ {at[n]}
  /\ UNCHANGED <<image, contents, view, procs>>

Plug(n) == at[n] = Free /\ Insert(n, Len(disks) + 1)
Swap(n) == at[n] # Free /\ Insert(n, NodeAt(n))

Pull(n) ==
  /\ at[n] # Free
  /\ at' = [at EXCEPT ![n] = Free]
  /\ mounted' = mounted \ {at[n]}
  /\ UNCHANGED <<disks, image, contents, view, procs>>

Mount(n) ==
  /\ at[n] # Free /\ ~Claimed(at[n])
  /\ mounted' = mounted \union {at[n]}
  /\ UNCHANGED <<disks, at, image, contents, view, procs>>

Unmount(n) ==
  /\ at[n] \in mounted
  /\ mounted' = mounted \ {at[n]}
  /\ UNCHANGED <<disks, at, image, contents, view, procs>>

\* In place, so that a reader of the open file notices.
Rewrite ==
  /\ image.gen < MaxGen
  /\ image' \in [size : 1..MaxSize, gen : {image.gen + 1}]
  /\ UNCHANGED <<disks, at, mounted, contents, view, procs>>

Window ==
  \/ Refresh \/ ScanEnd \/ Type \/ Install
  \/ \E n \in Drives : ScanPath(n) \/ ScanSys(n)
  \/ \E disk \in list : Select(disk)

Inner(p) ==
  \/ Stat(p) \/ OpenDisk(p) \/ Check(p) \/ Size(p) \/ Copy(p) \/ Verify(p)
  \/ Sync(p) \/ Fail(p)

Outside ==
  \/ \E n \in Drives : Plug(n) \/ Swap(n) \/ Pull(n) \/ Mount(n) \/ Unmount(n)
  \/ Rewrite

Next ==
  \/ Window
  \/ \E p \in Clis, n \in Drives : RunCli(p, n)
  \/ \E p \in Procs : Inner(p)
  \/ Outside

Spec == Init /\ [][Next]_vars

-----------------------------------------------------------------------------
Seqs == Free..MaxSeq
Identities == [path : Drives \union {""}, node : Seqs, seq : Seqs]

TypeOK ==
  /\ disks \in Seq([path : Drives, node : 1..MaxSeq, cap : Capacities])
  /\ at \in [Drives -> Free..Len(disks)]
  /\ mounted \subseteq 1..Len(disks)
  /\ data \in [1..MaxSeq -> [1..MaxSize -> [by : Procs \union {NoOne}, gen : 0..MaxGen]]]
  /\ synced \subseteq 1..MaxSeq
  /\ image \in [size : 1..MaxSize, gen : 0..MaxGen]
  /\ scan \in [Drives -> [st : {"todo", "path", "done", "none"}, node : Seqs, seq : Seqs]]
  /\ list \subseteq Identities
  /\ target \in Identities
  /\ typed \in Drives \union {""}
  /\ pc \in [Procs -> {"idle", "scan", "stat", "open", "check", "size", "copy",
                       "verify", "sync"}]
  /\ run \in [Procs -> [path : Drives \union {""}, want : Identities, noted : Seqs,
                        out : Free..Len(disks), expected : 0..MaxSize,
                        copied : 0..MaxSize, since : 0..MaxGen]]
  /\ result \in [Procs -> {"none", "ok", "failed"}]
  /\ runs \in 0..MaxRuns

Writing(p) == pc[p] \in {"copy", "verify", "sync"}

\* Whatever was plugged, pulled or swapped while the window listed disks, waited
\* for its user and got ready: the disk it overwrites is the one whose details
\* it shows and whose name is typed.
OnlyConfirmedWritten ==
  Writing(Gui) => run[Gui].out = target.seq /\ typed = target.path

\* An installer has its disk for itself: no partition of it is mounted, and no
\* other installer writes it.
WritesAlone ==
  \A p \in Procs : Writing(p) =>
    /\ run[p].out \notin mounted
    /\ \A q \in Procs \ {p} : run[q].out # run[p].out

\* An installation that reports success has put the whole image on the medium:
\* as many blocks as it had sized, all by itself, all from the image since then,
\* and from one image if nobody rewrote it.
SuccessIsWhole ==
  [][\A p \in Procs : (result[p] # "ok" /\ result'[p] = "ok") =>
       LET r == run[p] IN
       /\ r.out \in synced'
       /\ r.copied = r.expected
       /\ \A k \in 1..r.expected :
            data'[r.out][k].by = p /\ data'[r.out][k].gen \in r.since..image.gen]_vars
=============================================================================
