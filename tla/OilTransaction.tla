--------------------------- MODULE OilTransaction ---------------------------
(***************************************************************************)
(* The package transactions of Oil (system/oil/src/main.rs, install.rs,    *)
(* signal.rs): several `oil` processes that read and rewrite the one       *)
(* ~/.oil/installed.json without a lock, extract payloads into the one     *)
(* /usr/local, and may fail or be interrupted between any two steps.       *)
(*                                                                         *)
(* A package name stands for itself here: the index lookup by `provides`   *)
(* and how resolve_install_order finds its order are the subject of        *)
(* OilResolver; a run here is handed any order that OilResolver promises.  *)
(***************************************************************************)
EXTENDS Naturals, Sequences, FiniteSets

Lists == INSTANCE SequencesExt

CONSTANTS
  Procs,       \* oil processes; each runs one command after another
  Pkgs,        \* package names
  MaxVersion,  \* versions are 1..MaxVersion, 0 is "none"
  Deps,        \* Deps[n]: the packages n depends on
  Pinned,      \* packages whose record in the initial file has "pinned": true
  Commands,    \* the commands the operator uses
  Serial,      \* TRUE: the operator runs one command at a time
  MaxRuns      \* bound on the number of commands started

AllCommands == {"install", "install-recipe", "uninstall", "reinstall",
                "upgrade", "system-add"}

ASSUME OilAssumption ==
  /\ IsFiniteSet(Pkgs)
  /\ MaxVersion \in Nat \ {0}
  /\ Deps \in [Pkgs -> SUBSET Pkgs]
  /\ Pinned \subseteq Pkgs
  /\ Commands \subseteq AllCommands
  /\ Serial \in BOOLEAN
  /\ MaxRuns \in Nat

VARIABLES
  file,       \* ~/.oil/installed.json
  disk,       \* disk[n]: the payload of n under /usr/local
  index,      \* index[n]: the version the registry offers, 0 if it has none
  pc,         \* pc[p]: the next step of process p
  run,        \* run[p]: the locals of process p's current command
  runs,       \* history: how many commands were started
  extracted,  \* history: every <<package, version>> ever extracted to the end
  unsettled,  \* history: packages extracted by a run that did not record them
  acked       \* history: packages reported installed and not uninstalled since

vars == <<file, disk, index, pc, run, runs, extracted, unsettled, acked>>

-----------------------------------------------------------------------------
Versions == 1..MaxVersion
MaybeVersion == 0..MaxVersion

\* One entry of installed.json; version 0 means the package has no entry.
Record == [ver : MaybeVersion, pin : BOOLEAN]
NoRecord == [ver |-> 0, pin |-> FALSE]
Db == [Pkgs -> Record]
EmptyDb == [n \in Pkgs |-> NoRecord]

\* The file's contents: "empty" between the truncation and the write of
\* std::fs::write, "garbled" when a shorter text landed on a longer one.
FileOf(db) == [st |-> "ok", db |-> db]
NoText(st) == [st |-> st, db |-> EmptyDb]

\* Fault: a file that does not parse counts as an empty state.
FaultLoadable(f) == TRUE

Loadable(f) == f.st \in {"missing", "ok"}

Recorded(db) == {n \in Pkgs : db[n].ver # 0}

\* Fault: an existing entry is left as it is.
FaultMarkInsertsOnly(db, n, v) ==
  IF db[n].ver = 0 THEN [db EXCEPT ![n].ver = v] ELSE db

\* mark_installed: a new version for an existing entry, which keeps its pin,
\* or a new unpinned entry.
MarkInstalled(db, n, v) == [db EXCEPT ![n].ver = v]

\* remove / clear
Remove(db, names) == [n \in Pkgs |-> IF n \in names THEN NoRecord ELSE db[n]]

NoRun == [cmd |-> "none", dry |-> FALSE, targets |-> {}, mem |-> EmptyDb,
          idx |-> [n \in Pkgs |-> 0], order |-> <<>>, todo |-> {}, did |-> {},
          busy |-> {},
          sole |-> FALSE, snapped |-> FALSE]

Stopped == {"ok", "error", "killed"}
Running == {p \in Procs : pc[p] \notin Stopped}

-----------------------------------------------------------------------------
(* The plans                                                               *)

\* What resolve_install_order returns, as a set: the roots and everything
\* they depend on, stopping at names that already have a record.
Closed(S, db) == \A n \in S : Deps[n] \ Recorded(db) \subseteq S
Needed(roots, db) ==
  {n \in Pkgs : \A S \in SUBSET Pkgs :
                   (roots \subseteq S /\ Closed(S, db)) => n \in S}

\* No package of S waits for itself: "circular dependency involving ..."
Acyclic(S) ==
  \A T \in SUBSET S : T # {} => \E n \in T : Deps[n] \intersect T = {}

\* run_reinstall: the named packages that have an entry and are in the index.
ReinstallPlan(r, idx) ==
  {n \in r.targets : n \in Recorded(r.mem) /\ idx[n] # 0}

\* Fault: versions are compared with < instead of !=.
FaultUpgradePlan(r, idx) ==
  {n \in r.targets : n \in Recorded(r.mem) /\ r.mem[n].ver < idx[n]}

\* plan_upgrades: unpinned entries whose version is not the index's.
UpgradePlan(r, idx) ==
  {n \in r.targets : /\ n \in Recorded(r.mem)
                     /\ ~r.mem[n].pin
                     /\ idx[n] # 0
                     /\ idx[n] # r.mem[n].ver}

\* The packages a run will extract, given what it loaded and the index it saw.
PlanOf(r, idx) ==
  CASE r.cmd = "install" -> Needed(r.targets \ Recorded(r.mem), r.mem)
    [] r.cmd = "reinstall" -> ReinstallPlan(r, idx)
    [] r.cmd = "upgrade" -> UpgradePlan(r, idx)
    [] OTHER -> r.targets

\* The errors resolve_install_order returns before anything is touched.
Resolvable(r, idx) ==
  r.cmd = "install" =>
    LET plan == PlanOf(r, idx)
    IN  Acyclic(plan) /\ \A n \in plan : idx[n] # 0

\* Fault: a package is put in the order before its dependencies are visited.
FaultOrders(cmd, plan) ==
  {o \in Lists!SetToSeqs(plan) :
     cmd = "install" =>
       \A k \in DOMAIN o : \A d \in Deps[o[k]] \intersect plan :
         \E j \in k..Cardinality(plan) : o[j] = d}

\* The lists a run may go through. What resolve_install_order returns has every
\* package after those it needs; the other commands take theirs as they come.
Orders(cmd, plan) ==
  {o \in Lists!SetToSeqs(plan) :
     cmd = "install" =>
       \A k \in DOMAIN o : \A d \in Deps[o[k]] \intersect plan :
         \E j \in 1..(k - 1) : o[j] = d}

\* The package whose turn it is in the loop over the list.
IsNext(r, n) ==
  /\ n \in r.todo
  /\ \E k \in DOMAIN r.order :
       r.order[k] = n /\ \A j \in 1..(k - 1) : r.order[j] \notin r.todo

\* Fault: what an upgrade changes does not come into it.
FaultAfterPlan(r, plan) ==
  CASE r.dry /\ r.cmd # "upgrade" -> "ok"
    [] r.cmd = "upgrade" -> "next"
    [] OTHER -> "snapshot"

\* Where a run goes once its plan is known. A dry run of install and
\* install-recipe prints and returns; a dry run of upgrade, and an upgrade with
\* nothing to do, fall through to state.save() without a snapshot.
AfterPlan(r, plan) ==
  CASE r.dry /\ r.cmd # "upgrade" -> "ok"
    [] r.cmd = "upgrade" /\ (r.dry \/ plan = {}) -> "truncate"
    [] OTHER -> "snapshot"

-----------------------------------------------------------------------------
(* The steps of a command                                                  *)

Goto(p, step) == pc' = [pc EXCEPT ![p] = step]

\* The process is gone and its locals with it. Packages it extracted are
\* unsettled unless this exit follows a save that recorded them.
Exit(p, how) ==
  /\ Goto(p, how)
  /\ run' = [run EXCEPT ![p] = NoRun]
  /\ unsettled' = unsettled \union run[p].did \union run[p].busy
  /\ UNCHANGED runs

Keep(p, r, step) ==
  /\ run' = [run EXCEPT ![p] = r]
  /\ Goto(p, step)
  /\ UNCHANGED <<runs, unsettled>>

\* A new command line: `--all`, or an upgrade without names, is every package.
Start(p, cmd, dry, targets) ==
  /\ pc[p] \in Stopped
  /\ Serial => Running = {}
  /\ runs < MaxRuns
  /\ dry => cmd \in {"install", "install-recipe", "upgrade", "system-add"}
  /\ cmd \in {"install-recipe"} => \E n \in Pkgs : targets = {n}
  /\ cmd = "system-add" => targets # {}
  /\ runs' = runs + 1
  /\ run' = [run EXCEPT ![p] = [NoRun EXCEPT !.cmd = cmd, !.dry = dry,
                                             !.targets = targets]]
  /\ Goto(p, IF cmd \in {"install-recipe", "system-add"} THEN "plan"
                                                         ELSE "load")
  /\ UNCHANGED <<file, disk, index, extracted, unsettled, acked>>

\* InstallState::new() at the top of install, uninstall, reinstall and upgrade:
\* a file that does not parse is an error, a missing one is an empty state.
Load(p) ==
  /\ pc[p] = "load"
  /\ LET r == [run[p] EXCEPT !.mem = file.db]
     IN  \/ ~Loadable(file) /\ Exit(p, "error")
         \/ /\ Loadable(file)
            /\ \/ /\ \/ r.cmd = "install" /\ r.targets \subseteq Recorded(r.mem)
                     \/ r.cmd = "upgrade" /\ Recorded(r.mem) = {}
                  /\ Exit(p, "ok")
               \/ /\ r.cmd = "install" => ~(r.targets \subseteq Recorded(r.mem))
                  /\ r.cmd = "upgrade" => Recorded(r.mem) # {}
                  /\ Keep(p, r, IF r.cmd = "uninstall" THEN "snapshot"
                                                       ELSE "plan")
  /\ UNCHANGED <<file, disk, index, extracted, acked>>

\* load_registry, or Recipe::load for a recipe of any version, and the plan.
Plan(p) ==
  /\ pc[p] = "plan"
  /\ \E idx \in IF run[p].cmd = "install-recipe"
                THEN {[n \in Pkgs |-> v] : v \in Versions} ELSE {index} :
       LET plan == PlanOf(run[p], idx)
           next == AfterPlan(run[p], plan)
           list == IF run[p].dry THEN {} ELSE plan
       IN  \/ ~Resolvable(run[p], idx) /\ Exit(p, "error")
           \/ Resolvable(run[p], idx) /\ next = "ok" /\ Exit(p, "ok")
           \/ /\ Resolvable(run[p], idx) /\ next # "ok"
              /\ \E order \in Orders(run[p].cmd, list) :
                   Keep(p, [run[p] EXCEPT !.idx = idx, !.order = order, !.todo = list],
                        next)
  /\ UNCHANGED <<file, disk, index, extracted, acked>>

\* before_transaction, which warns and never fails the command. Uninstall
\* then drops its names from memory and goes straight to the save.
Snapshot(p) ==
  /\ pc[p] = "snapshot"
  /\ LET r == [run[p] EXCEPT !.snapped = TRUE]
     IN  IF r.cmd = "uninstall"
         THEN Keep(p, [r EXCEPT !.mem = Remove(@, r.targets)], "truncate")
         ELSE Keep(p, r, "next")
  /\ UNCHANGED <<file, disk, index, extracted, acked>>

\* install_package downloads and verifies into a private temporary file, then
\* extract_tracked starts to overwrite the payload under /usr/local.
BeginExtract(p, n) ==
  /\ pc[p] = "next"
  /\ IsNext(run[p], n)
  /\ run[p].idx[n] # 0
  /\ disk' = [disk EXCEPT ![n].torn = TRUE]
  /\ LET others == {q \in Procs \ {p} : n \in run[q].busy}
     IN  run' = [q \in Procs |->
           CASE q = p -> [run[p] EXCEPT !.busy = {n}, !.sole = others = {}]
             [] q \in others -> [run[q] EXCEPT !.sole = FALSE]
             [] OTHER -> run[q]]
  /\ Goto(p, "extracting")
  /\ UNCHANGED <<file, index, runs, extracted, unsettled, acked>>

\* Fault: a failed extraction is recorded all the same.
FaultEndUnchecked(p) ==
  /\ pc[p] = "extracting"
  /\ \E n \in run[p].busy :
       Keep(p, [run[p] EXCEPT !.busy = {}, !.todo = @ \ {n},
                  !.did = @ \union {n},
                  !.mem = MarkInstalled(@, n, run[p].idx[n])], "next")
  /\ UNCHANGED <<file, disk, index, extracted, acked>>

\* The extraction ends and mark_installed records it in memory only (system-add
\* marks nothing, install-recipe only after it has loaded the state). Payloads
\* that two runs wrote at the same time are left torn.
EndExtract(p) ==
  /\ pc[p] = "extracting"
  /\ \E n \in run[p].busy :
       LET v == run[p].idx[n]
           done == [run[p] EXCEPT !.busy = {}, !.todo = @ \ {n},
                                  !.did = @ \union {n}]
       IN  /\ disk' = [disk EXCEPT ![n] = [ver |-> v, torn |-> ~run[p].sole]]
           /\ extracted' = extracted \union {<<n, v>>}
           /\ IF run[p].cmd = "install-recipe"
              THEN Keep(p, done, "reload")
              ELSE Keep(p, IF run[p].cmd = "system-add" THEN done
                           ELSE [done EXCEPT !.mem = MarkInstalled(@, n, v)],
                        "next")
  /\ UNCHANGED <<file, index, acked>>

\* Nothing is left to extract: save, or return when there is nothing to save.
AllExtracted(p) ==
  /\ pc[p] = "next"
  /\ run[p].todo = {}
  /\ IF run[p].cmd = "system-add" THEN Exit(p, "ok")
                                  ELSE Keep(p, run[p], "truncate")
  /\ UNCHANGED <<file, disk, index, extracted, acked>>

\* system-add looks each name up only when its turn comes.
NotFound(p) ==
  /\ pc[p] = "next"
  /\ \E n \in run[p].todo : IsNext(run[p], n) /\ run[p].idx[n] = 0
  /\ Exit(p, "error")
  /\ UNCHANGED <<file, disk, index, extracted, acked>>

\* Fault: install-recipe saves a state that holds only its own package.
FaultReload(p) ==
  /\ pc[p] = "reload"
  /\ \E n \in run[p].did :
       Keep(p, [run[p] EXCEPT
                  !.mem = MarkInstalled(EmptyDb, n, run[p].idx[n])],
            "truncate")
  /\ UNCHANGED <<file, disk, index, extracted, acked>>

\* install-recipe loads the state only after the payload is on disk.
Reload(p) ==
  /\ pc[p] = "reload"
  /\ \/ ~Loadable(file) /\ Exit(p, "error")
     \/ /\ Loadable(file)
        /\ \E n \in run[p].did :
             Keep(p, [run[p] EXCEPT
                        !.mem = MarkInstalled(file.db, n, run[p].idx[n])],
                  "truncate")
  /\ UNCHANGED <<file, disk, index, extracted, acked>>

\* Fault: the file is opened without O_TRUNC.
FaultTruncate(p) ==
  /\ pc[p] = "truncate"
  /\ Keep(p, run[p], "write")
  /\ UNCHANGED <<file, disk, index, extracted, acked>>

\* save(): std::fs::write opens the file with O_TRUNC ...
Truncate(p) ==
  /\ pc[p] = "truncate"
  /\ file' = NoText("empty")
  /\ Keep(p, run[p], "write")
  /\ UNCHANGED <<disk, index, extracted, acked>>

\* ... and writes the text from offset 0. Over another process's text the
\* longer of the two shows through at the end.
Overlay(f, db) ==
  IF f.st \in {"missing", "empty"} \/ f = FileOf(db) THEN {FileOf(db)}
                                      ELSE {FileOf(db), NoText("garbled")}

Write(p) ==
  /\ pc[p] = "write"
  /\ file' \in Overlay(file, run[p].mem)
  /\ acked' = IF run[p].cmd = "uninstall" THEN acked \ run[p].targets
                                          ELSE acked \union run[p].did
  /\ unsettled' = unsettled \ run[p].did
  /\ Goto(p, "ok")
  /\ run' = [run EXCEPT ![p] = NoRun]
  /\ UNCHANGED <<disk, index, runs, extracted>>

-----------------------------------------------------------------------------
(* The environment                                                         *)

\* A `?` that returns an error: I/O, network, checksum, extraction. An
\* extraction that fails midway leaves what it wrote.
Fail(p) ==
  /\ pc[p] \in {"load", "plan", "snapshot", "next", "extracting", "reload",
                "truncate", "write"}
  /\ Exit(p, "error")
  /\ UNCHANGED <<file, disk, index, extracted, acked>>

\* SIGINT: the handler thread calls exit(130) wherever the main thread is.
Interrupt(p) ==
  /\ pc[p] \notin Stopped
  /\ Exit(p, "killed")
  /\ UNCHANGED <<file, disk, index, extracted, acked>>

\* The registry offers a newer version, or a new package.
NewRelease(n) ==
  /\ index[n] < MaxVersion
  /\ index' = [index EXCEPT ![n] = @ + 1]
  /\ UNCHANGED <<file, disk, pc, run, runs, extracted, unsettled, acked>>

Step(p) ==
  \/ Load(p) \/ Plan(p) \/ Snapshot(p) \/ Reload(p) \/ NotFound(p)
  \/ (\E n \in Pkgs : BeginExtract(p, n)) \/ EndExtract(p) \/ AllExtracted(p)
  \/ Truncate(p) \/ Write(p)

\* Any state file and payload that earlier, uninterrupted runs leave behind.
Init ==
  /\ \E names \in SUBSET Pkgs :
       /\ file = IF names = {} THEN NoText("missing")
                 ELSE FileOf([n \in Pkgs |->
                        IF n \in names THEN [ver |-> 1, pin |-> n \in Pinned]
                                       ELSE NoRecord])
       /\ disk = [n \in Pkgs |-> [ver |-> IF n \in names THEN 1 ELSE 0,
                                  torn |-> FALSE]]
       /\ extracted = {<<n, 1>> : n \in names}
  /\ index \in [Pkgs -> 0..1]
  /\ pc = [p \in Procs |-> "ok"]
  /\ run = [p \in Procs |-> NoRun]
  /\ runs = 0
  /\ unsettled = {}
  /\ acked = {}

Next ==
  \/ \E p \in Procs :
       \/ \E cmd \in Commands, dry \in BOOLEAN, targets \in SUBSET Pkgs :
            Start(p, cmd, dry, targets)
       \/ Step(p)
       \/ Fail(p)
       \/ Interrupt(p)
  \/ \E n \in Pkgs : NewRelease(n)

Spec == Init /\ [][Next]_vars

-----------------------------------------------------------------------------
(* Properties                                                              *)

Steps == {"load", "plan", "snapshot", "next", "extracting", "reload",
          "truncate", "write"}

RunType == [cmd : AllCommands \union {"none"}, dry : BOOLEAN,
            targets : SUBSET Pkgs, mem : Db, idx : [Pkgs -> MaybeVersion],
            order : Seq(Pkgs), todo : SUBSET Pkgs, did : SUBSET Pkgs, busy : SUBSET Pkgs,
            sole : BOOLEAN, snapped : BOOLEAN]

TypeOK ==
  /\ file \in [st : {"missing", "ok", "empty", "garbled"}, db : Db]
  /\ disk \in [Pkgs -> [ver : MaybeVersion, torn : BOOLEAN]]
  /\ index \in [Pkgs -> MaybeVersion]
  /\ pc \in [Procs -> Steps \union Stopped]
  /\ run \in [Procs -> RunType]
  /\ runs \in 0..MaxRuns
  /\ extracted \subseteq Pkgs \X MaybeVersion
  /\ unsettled \subseteq Pkgs
  /\ acked \subseteq Pkgs

\* No phantom record: whatever the interleaving, failure or interruption, an
\* entry of installed.json names a version whose payload was extracted to the
\* end at some time (run_* call install_package before mark_installed, and save
\* only what they loaded or marked).
RecordedWasExtracted ==
  \A n \in Recorded(file.db) : <<n, file.db[n].ver>> \in extracted

\* When `oil install` begins to extract a package, and from then on, all that
\* the package needs has been extracted to the end and is in the payload: by
\* itself, as its list has it, or by the commands that made the entries it
\* found, whichever failed, were interrupted or removed those entries since.
DepsInPayload ==
  \A p \in Procs : run[p].cmd = "install" =>
    \A n \in run[p].busy \union run[p].did : \A d \in Deps[n] : disk[d].ver # 0

\* "corrupt state must not load as empty" (the test in install.rs): once the
\* file does not parse and no run holds a state it loaded before, nothing ever
\* makes the file parse again. An interrupted save is final.
PastLoad == {"plan", "snapshot", "next", "extracting", "truncate", "write"}
HoldsState(p) ==
  \/ pc[p] \in {"truncate", "write"}
  \/ run[p].cmd # "install-recipe" /\ run[p].cmd # "system-add"
     /\ pc[p] \in PastLoad
Corrupt == file.st \in {"empty", "garbled"} /\ \A p \in Procs : ~HoldsState(p)
CorruptionIsFinal == [][Corrupt => Corrupt']_vars

\* With one command at a time, only an interrupted or failed save breaks the
\* file, and then it is empty: the text of two states is never mixed.
NeverGarbled == file.st # "garbled"

\* With one command at a time, between commands, every entry describes the
\* payload on disk, except for packages that an interrupted, failed or unrecorded
\* run (system-add) has touched since they were last recorded.
RestConsistent ==
  (Running = {} /\ file.st = "ok") =>
    \A n \in Recorded(file.db) \ unsettled :
      disk[n] = [ver |-> file.db[n].ver, torn |-> FALSE]

\* What a command reported as installed stays recorded until an uninstall of
\* it, so that uninstall, upgrade and outdated see it (oil-recipe-format.md
\* promises this of install-recipe).
AckedStayRecorded ==
  file.st \in {"missing", "ok"} => acked \subseteq Recorded(file.db)

\* A complete `oil upgrade` brings every unpinned entry to the version of the
\* index it saw, whatever interrupted runs left behind before it.
UpgradeReachesIndex ==
  [][\A p \in Procs :
       (/\ pc[p] = "write" /\ pc'[p] = "ok"
        /\ run[p].cmd = "upgrade" /\ ~run[p].dry /\ run[p].targets = Pkgs)
       => \A n \in Recorded(file'.db) :
            (~file'.db[n].pin /\ run[p].idx[n] # 0)
              => /\ file'.db[n].ver = run[p].idx[n]
                 /\ n \notin unsettled' => disk'[n].ver = run[p].idx[n]]_vars

\* "Oil takes a read-only snapshot of /state ... before install, uninstall,
\* reinstall, upgrade and system add" (docs/editions-and-roles.md): before a
\* payload or an entry is changed.  An upgrade that changes nothing rewrites
\* installed.json without one, and then with the entries it had.
SnapshotBeforeChange ==
  \A p \in Procs : ~run[p].snapped =>
    /\ run[p].busy \union run[p].did = {}
    /\ pc[p] = "truncate" => Recorded(run[p].mem) # {} /\ run[p].mem = file.db
=============================================================================
