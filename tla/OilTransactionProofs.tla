------------------------ MODULE OilTransactionProofs ------------------------
(***************************************************************************)
(* Proofs about OilTransaction, for any number of processes, packages,     *)
(* versions, dependencies and commands.                                    *)
(***************************************************************************)
EXTENDS OilTransaction, FiniteSetTheorems, TLAPS

-----------------------------------------------------------------------------
(* Lemmas about the operators on state files and plans                     *)

\* mark_installed, remove and clear turn a state into a state.
LEMMA DbClosed ==
  /\ EmptyDb \in Db
  /\ NoRun \in RunType
  /\ \A db \in Db, n \in Pkgs, v \in MaybeVersion : MarkInstalled(db, n, v) \in Db
  /\ \A db \in Db, S \in SUBSET Pkgs : Remove(db, S) \in Db
<1>1. EmptyDb \in Db
  BY OilAssumption DEF EmptyDb, Db, NoRecord, Record, MaybeVersion
<1>2. NoRun \in RunType
  BY <1>1, OilAssumption DEF NoRun, RunType, MaybeVersion
<1>3. ASSUME NEW db \in Db, NEW n \in Pkgs, NEW v \in MaybeVersion
      PROVE  MarkInstalled(db, n, v) \in Db
  BY <1>3 DEF MarkInstalled, Db, Record
<1>4. ASSUME NEW db \in Db, NEW S \in SUBSET Pkgs
      PROVE  Remove(db, S) \in Db
  BY <1>4, OilAssumption DEF Remove, Db, Record, NoRecord, MaybeVersion
<1> QED BY <1>1, <1>2, <1>3, <1>4

\* A plan only names packages.
LEMMA PlanIsPackages ==
  ASSUME NEW r \in RunType, NEW idx
  PROVE  PlanOf(r, idx) \in SUBSET Pkgs
<1>1. r.targets \in SUBSET Pkgs
  BY DEF RunType
<1>2. CASE r.cmd = "install"
  BY <1>2 DEF PlanOf, Needed
<1>3. CASE r.cmd = "reinstall"
  BY <1>1, <1>3 DEF PlanOf, ReinstallPlan
<1>4. CASE r.cmd = "upgrade"
  BY <1>1, <1>4 DEF PlanOf, UpgradePlan
<1>5. CASE r.cmd \notin {"install", "reinstall", "upgrade"}
  BY <1>1, <1>5 DEF PlanOf
<1> QED BY <1>2, <1>3, <1>4, <1>5

\* A list names packages of its plan only, and each of them.
LEMMA OrdersArePackages ==
  ASSUME NEW cmd, NEW plan \in SUBSET Pkgs
  PROVE  \A o \in Orders(cmd, plan) : o \in Seq(Pkgs) /\ \A k \in DOMAIN o : o[k] \in plan
<1>1. Lists!Cardinality(plan) \in Nat
  <2>1. Cardinality(plan) \in Nat
    BY OilAssumption, FS_Subset, FS_CardinalityType
  <2>2. Lists!Cardinality(plan) = Cardinality(plan)
    BY DEF Cardinality, Lists!Cardinality
  <2> QED BY <2>1, <2>2
<1>2. ASSUME NEW o \in Orders(cmd, plan)
      PROVE  o \in [1..Lists!Cardinality(plan) -> plan]
  <2>1. o \in Lists!SetToSeqs(plan)
    BY <1>2 DEF Orders
  <2> QED BY <2>1 DEF Lists!SetToSeqs
<1> QED BY <1>1, <1>2

-----------------------------------------------------------------------------
(* Type correctness                                                        *)

\* The two ways a step ends keep the process state well typed.
LocalType ==
  /\ pc \in [Procs -> Steps \union Stopped]
  /\ run \in [Procs -> RunType]
  /\ runs \in 0..MaxRuns
  /\ unsettled \subseteq Pkgs

LEMMA ExitType ==
  ASSUME TypeOK, NEW p \in Procs, NEW how \in Stopped, Exit(p, how)
  PROVE  LocalType'
BY DbClosed DEF TypeOK, LocalType, Exit, Goto, RunType

LEMMA KeepType ==
  ASSUME TypeOK, NEW p \in Procs, NEW r \in RunType, NEW step \in Steps,
         Keep(p, r, step)
  PROVE  LocalType'
BY DEF TypeOK, LocalType, Keep, Goto

\* Starting an extraction changes nothing of any run but its busy and sole
\* fields, and neither the file nor the history.
LEMMA BeginFrame ==
  ASSUME TypeOK, NEW p \in Procs, NEW n \in Pkgs, BeginExtract(p, n)
  PROVE  /\ \A q \in Procs : /\ run'[q].cmd = run[q].cmd
                             /\ run'[q].targets = run[q].targets
                             /\ run'[q].mem = run[q].mem
                             /\ run'[q].idx = run[q].idx
                             /\ run'[q].order = run[q].order
                             /\ run'[q].todo = run[q].todo
                             /\ run'[q].did = run[q].did
         /\ pc[p] = "next"
         /\ pc' = [pc EXCEPT ![p] = "extracting"]
         /\ UNCHANGED <<file, extracted>>
<1>0. \A q \in Procs : run[q] \in RunType
  BY DEF TypeOK
<1> DEFINE others == {q \in Procs \ {p} : n \in run[q].busy}
<1>1. run' = [q \in Procs |->
                IF q = p THEN [run[p] EXCEPT !.busy = {n}, !.sole = others = {}]
                ELSE IF q \in others THEN [run[q] EXCEPT !.sole = FALSE]
                ELSE run[q]]
  BY DEF BeginExtract
<1> HIDE DEF others
<1>2. ASSUME NEW q \in Procs
      PROVE  /\ run'[q].cmd = run[q].cmd
             /\ run'[q].targets = run[q].targets
             /\ run'[q].mem = run[q].mem
             /\ run'[q].idx = run[q].idx
             /\ run'[q].order = run[q].order
             /\ run'[q].todo = run[q].todo
             /\ run'[q].did = run[q].did
  <2>1. CASE q = p
    <3>1. run'[q] = [run[q] EXCEPT !.busy = {n}, !.sole = others = {}]
      BY <1>1, <2>1
    <3> QED BY <1>0, <3>1 DEF RunType
  <2>2. CASE q # p /\ q \in others
    <3>1. run'[q] = [run[q] EXCEPT !.sole = FALSE]
      BY <1>1, <2>2
    <3> QED BY <1>0, <3>1 DEF RunType
  <2>3. CASE q # p /\ q \notin others
    BY <1>1, <2>3
  <2> QED BY <2>1, <2>2, <2>3
<1>3. /\ pc[p] = "next"
      /\ pc' = [pc EXCEPT ![p] = "extracting"]
      /\ UNCHANGED <<file, extracted>>
  BY DEF BeginExtract, Goto
<1> QED BY <1>2, <1>3

LEMMA TypeInit == Init => TypeOK
<1> SUFFICES ASSUME Init PROVE TypeOK
  OBVIOUS
<1>1. PICK names \in SUBSET Pkgs :
        /\ file = IF names = {} THEN NoText("missing")
                  ELSE FileOf([n \in Pkgs |->
                         IF n \in names THEN [ver |-> 1, pin |-> n \in Pinned]
                                        ELSE NoRecord])
        /\ disk = [n \in Pkgs |-> [ver |-> IF n \in names THEN 1 ELSE 0,
                                   torn |-> FALSE]]
        /\ extracted = {<<n, 1>> : n \in names}
  BY DEF Init
<1>2. 0 \in MaybeVersion /\ 1 \in MaybeVersion
  BY OilAssumption DEF MaybeVersion
<1>3. \A n \in Pkgs : [ver |-> 1, pin |-> n \in Pinned] \in Record
                      /\ NoRecord \in Record
  BY <1>2 DEF Record, NoRecord
<1>4. file \in [st : {"missing", "ok", "empty", "garbled"}, db : Db]
  BY <1>1, <1>3, DbClosed DEF NoText, FileOf, Db
<1>5. disk \in [Pkgs -> [ver : MaybeVersion, torn : BOOLEAN]]
      /\ extracted \subseteq Pkgs \X MaybeVersion
  BY <1>1, <1>2
<1> QED BY <1>2, <1>4, <1>5, DbClosed, OilAssumption
         DEF Init, TypeOK, Stopped, MaybeVersion

LEMMA TypeStep == TypeOK /\ [Next]_vars => TypeOK'
<1> SUFFICES ASSUME TypeOK, [Next]_vars PROVE TypeOK'
  OBVIOUS
<1> USE DEF LocalType
<1>0. /\ \A p \in Procs : run[p] \in RunType
      /\ file.db \in Db
  BY DEF TypeOK
<1>1. ASSUME NEW p \in Procs, NEW cmd \in Commands, NEW dry \in BOOLEAN,
             NEW targets \in SUBSET Pkgs, Start(p, cmd, dry, targets)
      PROVE  TypeOK'
  <2>1. [NoRun EXCEPT !.cmd = cmd, !.dry = dry, !.targets = targets] \in RunType
    BY DbClosed, OilAssumption DEF RunType
  <2> QED BY <1>1, <2>1, OilAssumption DEF Start, TypeOK, Goto, Steps
<1>2. ASSUME NEW p \in Procs, Load(p) PROVE TypeOK'
  <2>1. [run[p] EXCEPT !.mem = file.db] \in RunType
    BY <1>0 DEF RunType
  <2>2. LocalType'
    BY <1>2, <2>1, ExitType, KeepType DEF Load, Stopped, Steps
  <2> QED BY <1>2, <2>2 DEF Load, TypeOK
<1>3. ASSUME NEW p \in Procs, Plan(p) PROVE TypeOK'
  <2>1. PICK idx \in [Pkgs -> MaybeVersion], order \in Seq(Pkgs) :
          \/ Exit(p, "error")
          \/ Exit(p, "ok")
          \/ /\ AfterPlan(run[p], PlanOf(run[p], idx)) # "ok"
             /\ Keep(p, [run[p] EXCEPT !.idx = idx, !.order = order,
                           !.todo = IF run[p].dry THEN {} ELSE PlanOf(run[p], idx)],
                     AfterPlan(run[p], PlanOf(run[p], idx)))
    <3>1. (IF run[p].cmd = "install-recipe"
           THEN {[n \in Pkgs |-> v] : v \in Versions} ELSE {index})
            \subseteq [Pkgs -> MaybeVersion]
      BY OilAssumption DEF TypeOK, Versions, MaybeVersion
    <3>2. \A idx : Orders(run[p].cmd, IF run[p].dry THEN {} ELSE PlanOf(run[p], idx))
                      \subseteq Seq(Pkgs)
      BY <1>0, PlanIsPackages, OrdersArePackages
    <3>3. <<>> \in Seq(Pkgs)
      OBVIOUS
    <3> QED BY <1>3, <3>1, <3>2, <3>3 DEF Plan
  <2>2. [run[p] EXCEPT !.idx = idx, !.order = order,
           !.todo = IF run[p].dry THEN {} ELSE PlanOf(run[p], idx)] \in RunType
    BY <1>0, PlanIsPackages DEF RunType
  <2>3. AfterPlan(run[p], PlanOf(run[p], idx)) \in {"ok", "truncate", "snapshot"}
    BY DEF AfterPlan
  <2>4. LocalType'
    BY <2>1, <2>2, <2>3, ExitType, KeepType DEF Stopped, Steps
  <2> QED BY <1>3, <2>4 DEF Plan, TypeOK
<1>4. ASSUME NEW p \in Procs, Snapshot(p) PROVE TypeOK'
  <2>1. [run[p] EXCEPT !.snapped = TRUE] \in RunType
    BY <1>0 DEF RunType
  <2>2. Remove(run[p].mem, run[p].targets) \in Db
    BY <1>0, DbClosed DEF RunType
  <2>3. [[run[p] EXCEPT !.snapped = TRUE] EXCEPT
           !.mem = Remove(run[p].mem, run[p].targets)] \in RunType
    BY <2>1, <2>2 DEF RunType
  <2>4. [run[p] EXCEPT !.snapped = TRUE].mem = run[p].mem
        /\ [run[p] EXCEPT !.snapped = TRUE].targets = run[p].targets
    BY <1>0 DEF RunType
  <2>5. LocalType'
    BY <1>4, <2>1, <2>3, <2>4, KeepType DEF Snapshot, Steps
  <2> QED BY <1>4, <2>5 DEF Snapshot, TypeOK
<1>5. ASSUME NEW p \in Procs, NEW n \in Pkgs, BeginExtract(p, n) PROVE TypeOK'
  <2>1. run' \in [Procs -> RunType]
    <3>1. \A q \in Procs, b \in BOOLEAN :
            /\ [run[q] EXCEPT !.busy = {n}, !.sole = b] \in RunType
            /\ [run[q] EXCEPT !.sole = b] \in RunType
      BY <1>0 DEF RunType
    <3> DEFINE others == {q \in Procs \ {p} : n \in run[q].busy}
    <3>2. run' = [q \in Procs |->
                    IF q = p THEN [run[p] EXCEPT !.busy = {n}, !.sole = others = {}]
                    ELSE IF q \in others THEN [run[q] EXCEPT !.sole = FALSE]
                    ELSE run[q]]
      BY <1>5 DEF BeginExtract
    <3>3. (others = {}) \in BOOLEAN
      OBVIOUS
    <3> HIDE DEF others
    <3> QED BY <1>0, <3>1, <3>2, <3>3
  <2>2. disk' \in [Pkgs -> [ver : MaybeVersion, torn : BOOLEAN]]
    BY <1>5 DEF BeginExtract, TypeOK
  <2> QED BY <1>5, <2>1, <2>2 DEF BeginExtract, TypeOK, Goto, Steps
<1>6. ASSUME NEW p \in Procs, EndExtract(p) PROVE TypeOK'
  <2>1. PICK n \in run[p].busy :
          /\ disk' = [disk EXCEPT ![n] = [ver |-> run[p].idx[n],
                                          torn |-> ~run[p].sole]]
          /\ extracted' = extracted \union {<<n, run[p].idx[n]>>}
          /\ \E r : /\ Keep(p, r, "reload") \/ Keep(p, r, "next")
                    /\ \/ r = [run[p] EXCEPT !.busy = {}, !.todo = @ \ {n},
                                             !.did = @ \union {n}]
                       \/ r = [[run[p] EXCEPT !.busy = {}, !.todo = @ \ {n},
                                             !.did = @ \union {n}]
                               EXCEPT !.mem = MarkInstalled(@, n, run[p].idx[n])]
    BY <1>6 DEF EndExtract
  <2>2. n \in Pkgs /\ run[p].idx[n] \in MaybeVersion /\ run[p].sole \in BOOLEAN
    BY <1>0 DEF RunType
  <2>3. [run[p] EXCEPT !.busy = {}, !.todo = @ \ {n}, !.did = @ \union {n}]
          \in RunType
    BY <1>0, <2>2 DEF RunType
  <2>4. [[run[p] EXCEPT !.busy = {}, !.todo = @ \ {n}, !.did = @ \union {n}]
           EXCEPT !.mem = MarkInstalled(@, n, run[p].idx[n])] \in RunType
    BY <2>2, <2>3, DbClosed DEF RunType
  <2>5. LocalType'
    BY <2>1, <2>3, <2>4, KeepType DEF Steps
  <2>6. disk' \in [Pkgs -> [ver : MaybeVersion, torn : BOOLEAN]]
        /\ extracted' \subseteq Pkgs \X MaybeVersion
    BY <2>1, <2>2 DEF TypeOK
  <2> QED BY <1>6, <2>5, <2>6 DEF EndExtract, TypeOK
<1>7. ASSUME NEW p \in Procs, AllExtracted(p) PROVE TypeOK'
  <2>1. LocalType'
    BY <1>0, <1>7, ExitType, KeepType DEF AllExtracted, Stopped, Steps
  <2> QED BY <1>7, <2>1 DEF AllExtracted, TypeOK
<1>8. ASSUME NEW p \in Procs, NotFound(p) \/ Fail(p) \/ Interrupt(p) PROVE TypeOK'
  <2>1. LocalType'
    BY <1>8, ExitType DEF NotFound, Fail, Interrupt, Stopped
  <2> QED BY <1>8, <2>1 DEF NotFound, Fail, Interrupt, TypeOK
<1>9. ASSUME NEW p \in Procs, Reload(p) PROVE TypeOK'
  <2>1. ASSUME NEW n \in run[p].did
        PROVE  [run[p] EXCEPT !.mem = MarkInstalled(file.db, n, run[p].idx[n])]
                 \in RunType
    <3>1. n \in Pkgs /\ run[p].idx[n] \in MaybeVersion
      BY <1>0, <2>1 DEF RunType
    <3>2. MarkInstalled(file.db, n, run[p].idx[n]) \in Db
      BY <1>0, <3>1, DbClosed
    <3> QED BY <1>0, <3>2 DEF RunType
  <2>2. LocalType'
    BY <1>9, <2>1, ExitType, KeepType DEF Reload, Stopped, Steps
  <2> QED BY <1>9, <2>2 DEF Reload, TypeOK
<1>10. ASSUME NEW p \in Procs, Truncate(p) PROVE TypeOK'
  <2>1. LocalType'
    BY <1>0, <1>10, KeepType DEF Truncate, Steps
  <2> QED BY <1>10, <2>1, DbClosed DEF Truncate, TypeOK, NoText
<1>11. ASSUME NEW p \in Procs, Write(p) PROVE TypeOK'
  <2>1. run[p].mem \in Db /\ run[p].targets \subseteq Pkgs /\ run[p].did \subseteq Pkgs
    BY <1>0 DEF RunType
  <2>2. file' \in [st : {"missing", "ok", "empty", "garbled"}, db : Db]
    BY <1>11, <2>1, DbClosed DEF Write, Overlay, FileOf, NoText
  <2> QED BY <1>11, <2>1, <2>2, DbClosed DEF Write, TypeOK, Goto, Stopped
<1>12. ASSUME NEW n \in Pkgs, NewRelease(n) PROVE TypeOK'
  <2>1. index[n] + 1 \in MaybeVersion
    BY <1>12, OilAssumption DEF NewRelease, TypeOK, MaybeVersion
  <2> QED BY <1>12, <2>1 DEF NewRelease, TypeOK
<1>13. CASE UNCHANGED vars
  BY <1>13 DEF vars, TypeOK
<1> QED
  BY <1>1, <1>2, <1>3, <1>4, <1>5, <1>6, <1>7, <1>8, <1>9, <1>10, <1>11, <1>12,
     <1>13 DEF Next, Step

\* Every reachable state is well typed.
THEOREM TypeCorrect == Spec => []TypeOK
<1>1. Init => TypeOK
  BY TypeInit
<1>2. TypeOK /\ [Next]_vars => TypeOK'
  BY TypeStep
<1> QED BY <1>1, <1>2, PTL DEF Spec

-----------------------------------------------------------------------------
(* No phantom record                                                       *)

\* The strengthening: not only the file but every state held in memory names
\* extracted payloads only, and so does what a run extracted but did not mark.
Backed(db) == \A n \in Pkgs : db[n].ver # 0 => <<n, db[n].ver>> \in extracted

BackedInv ==
  /\ Backed(file.db)
  /\ \A p \in Procs :
       /\ Backed(run[p].mem)
       /\ \A n \in run[p].did : <<n, run[p].idx[n]>> \in extracted
       /\ pc[p] \in {"load", "plan"} => run[p].did = {}

\* Exiting, or taking a step that extracts nothing and keeps the backed state,
\* preserves the part of the invariant that concerns the processes.
BackedRun(r) ==
  /\ Backed(r.mem)
  /\ \A n \in r.did : <<n, r.idx[n]>> \in extracted

LEMMA BackedEmpty == Backed(EmptyDb) /\ BackedRun(NoRun)
BY DEF Backed, BackedRun, EmptyDb, NoRecord, NoRun

LEMMA BackedExit ==
  ASSUME TypeOK, BackedInv, NEW p \in Procs, NEW how \in Stopped,
         Exit(p, how), UNCHANGED <<file, extracted>>
  PROVE  BackedInv'
BY BackedEmpty DEF TypeOK, BackedInv, BackedRun, Backed, Exit, Goto, Stopped

LEMMA BackedKeep ==
  ASSUME TypeOK, BackedInv, NEW p \in Procs, NEW r, NEW step,
         Keep(p, r, step), UNCHANGED extracted, Backed(file'.db),
         BackedRun(r), step \in {"load", "plan"} => r.did = {}
  PROVE  BackedInv'
BY DEF TypeOK, BackedInv, BackedRun, Backed, Keep, Goto

LEMMA BackedStep == TypeOK /\ BackedInv /\ [Next]_vars => BackedInv'
<1> SUFFICES ASSUME TypeOK, BackedInv, [Next]_vars PROVE BackedInv'
  OBVIOUS
<1>0. /\ \A p \in Procs : run[p] \in RunType /\ BackedRun(run[p])
      /\ file.db \in Db
  BY DEF TypeOK, BackedInv, BackedRun
<1>1. ASSUME NEW p \in Procs, NEW cmd \in Commands, NEW dry \in BOOLEAN,
             NEW targets \in SUBSET Pkgs, Start(p, cmd, dry, targets)
      PROVE  BackedInv'
  <2>1. BackedRun([NoRun EXCEPT !.cmd = cmd, !.dry = dry, !.targets = targets])
    BY BackedEmpty DEF BackedRun, Backed, NoRun
  <2> QED BY <1>1, <2>1
          DEF Start, Goto, TypeOK, BackedInv, BackedRun, Backed, NoRun
<1>2. ASSUME NEW p \in Procs, Load(p) PROVE BackedInv'
  <2>1. BackedRun([run[p] EXCEPT !.mem = file.db])
        /\ [run[p] EXCEPT !.mem = file.db].did = {}
    BY <1>0, <1>2 DEF BackedRun, BackedInv, Load, RunType
  <2> QED BY <1>2, <2>1, BackedExit, BackedKeep DEF Load, Stopped, BackedInv
<1>3. ASSUME NEW p \in Procs, Plan(p) PROVE BackedInv'
  <2>1. ASSUME NEW idx, NEW order
        PROVE  BackedRun([run[p] EXCEPT !.idx = idx, !.order = order,
                  !.todo = IF run[p].dry THEN {} ELSE PlanOf(run[p], idx)])
    BY <1>0, <1>3 DEF BackedRun, BackedInv, Plan, RunType
  <2>2. ASSUME NEW idx
        PROVE  AfterPlan(run[p], PlanOf(run[p], idx))
                 \in {"ok", "truncate", "snapshot"}
    BY DEF AfterPlan
  <2>3. \/ Exit(p, "error")
        \/ Exit(p, "ok")
        \/ \E idx, order :
                    /\ AfterPlan(run[p], PlanOf(run[p], idx)) # "ok"
                    /\ Keep(p, [run[p] EXCEPT !.idx = idx, !.order = order,
                             !.todo = IF run[p].dry THEN {}
                                      ELSE PlanOf(run[p], idx)],
                         AfterPlan(run[p], PlanOf(run[p], idx)))
    BY <1>3 DEF Plan
  <2>4. UNCHANGED <<file, extracted>> /\ Backed(file'.db)
    BY <1>3 DEF Plan, BackedInv
  <2> QED BY <2>1, <2>2, <2>3, <2>4, BackedExit, BackedKeep DEF Stopped
<1>4. ASSUME NEW p \in Procs, Snapshot(p) PROVE BackedInv'
  <2> DEFINE r == [run[p] EXCEPT !.snapped = TRUE]
  <2>1. r.mem = run[p].mem /\ r.did = run[p].did /\ r.idx = run[p].idx
        /\ r.targets = run[p].targets /\ r.cmd = run[p].cmd
    BY <1>0 DEF RunType
  <2>2. Backed(Remove(run[p].mem, run[p].targets))
    BY <1>0 DEF BackedRun, Backed, Remove, NoRecord
  <2>3. BackedRun([r EXCEPT !.mem = Remove(run[p].mem, run[p].targets)])
    BY <1>0, <2>1, <2>2 DEF BackedRun, RunType
  <2>4. BackedRun(r)
    BY <1>0, <2>1 DEF BackedRun
  <2>5. \/ Keep(p, [r EXCEPT !.mem = Remove(run[p].mem, run[p].targets)],
                "truncate")
        \/ Keep(p, r, "next")
    BY <1>4, <2>1 DEF Snapshot
  <2>6. UNCHANGED <<file, extracted>> /\ Backed(file'.db)
    BY <1>4 DEF Snapshot, BackedInv
  <2> HIDE DEF r
  <2> QED BY <2>3, <2>4, <2>5, <2>6, BackedKeep
<1>5. ASSUME NEW p \in Procs, NEW n \in Pkgs, BeginExtract(p, n)
      PROVE  BackedInv'
  BY <1>5, BeginFrame DEF TypeOK, BackedInv, Backed
<1>6. ASSUME NEW p \in Procs, EndExtract(p) PROVE BackedInv'
  <2> DEFINE done(n) == [run[p] EXCEPT !.busy = {}, !.todo = @ \ {n},
                                       !.did = @ \union {n}]
  <2> DEFINE marked(n) == [done(n) EXCEPT !.mem = MarkInstalled(@, n, run[p].idx[n])]
  <2>0. PICK n \in run[p].busy :
          /\ extracted' = extracted \union {<<n, run[p].idx[n]>>}
          /\ \/ Keep(p, done(n), "reload")
             \/ Keep(p, done(n), "next")
             \/ Keep(p, marked(n), "next")
    BY <1>6 DEF EndExtract
  <2>1. PICK r, step : /\ step \in {"reload", "next"}
                       /\ Keep(p, r, step)
                       /\ r = done(n) \/ r = marked(n)
    <3> HIDE DEF done, marked
    <3> QED BY <2>0
  <2>2. /\ done(n).mem = run[p].mem
        /\ r.did = run[p].did \union {n}
        /\ r.idx = run[p].idx
        /\ r.mem = run[p].mem
           \/ r.mem = MarkInstalled(run[p].mem, n, run[p].idx[n])
    BY <1>0, <2>1 DEF RunType
  <2>3. \A m \in Pkgs : \/ r.mem[m] = run[p].mem[m]
                        \/ m = n /\ r.mem[m].ver = run[p].idx[n]
    BY <1>0, <2>2 DEF MarkInstalled, RunType, Db, Record
  <2>4. BackedRun(r)'
    BY <1>0, <2>0, <2>1, <2>2, <2>3 DEF BackedRun, Backed
  <2>5. pc' = [pc EXCEPT ![p] = step] /\ run' = [run EXCEPT ![p] = r]
        /\ file' = file
    BY <1>6, <2>1 DEF EndExtract, Keep, Goto
  <2> QED BY <2>0, <2>1, <2>4, <2>5 DEF TypeOK, BackedInv, BackedRun, Backed
<1>7. ASSUME NEW p \in Procs, AllExtracted(p) PROVE BackedInv'
  BY <1>0, <1>7, BackedExit, BackedKeep DEF AllExtracted, Stopped, BackedInv
<1>8. ASSUME NEW p \in Procs, NotFound(p) \/ Fail(p) \/ Interrupt(p)
      PROVE  BackedInv'
  BY <1>8, BackedExit DEF NotFound, Fail, Interrupt, Stopped
<1>9. ASSUME NEW p \in Procs, Reload(p) PROVE BackedInv'
  <2>1. ASSUME NEW n \in run[p].did
        PROVE  BackedRun([run[p] EXCEPT
                            !.mem = MarkInstalled(file.db, n, run[p].idx[n])])
    <3>1. n \in Pkgs /\ <<n, run[p].idx[n]>> \in extracted
      BY <1>0, <2>1 DEF RunType, BackedRun
    <3>2. Backed(MarkInstalled(file.db, n, run[p].idx[n]))
      BY <1>0, <3>1 DEF MarkInstalled, Backed, BackedInv, Db, Record
    <3> QED BY <1>0, <3>2 DEF BackedRun, RunType
  <2> QED BY <1>9, <2>1, BackedExit, BackedKeep DEF Reload, Stopped, BackedInv
<1>10. ASSUME NEW p \in Procs, Truncate(p) PROVE BackedInv'
  <2>1. Backed(file'.db)
    BY <1>10, BackedEmpty DEF Truncate, NoText
  <2> QED BY <1>0, <1>10, <2>1, BackedKeep DEF Truncate
<1>11. ASSUME NEW p \in Procs, Write(p) PROVE BackedInv'
  <2>1. Backed(file'.db)
    BY <1>0, <1>11, BackedEmpty
       DEF Write, Overlay, FileOf, NoText, BackedRun
  <2> QED BY <1>11, <2>1, BackedEmpty
          DEF Write, Goto, TypeOK, BackedInv, BackedRun, Backed
<1>12. ASSUME NEW n \in Pkgs, NewRelease(n) PROVE BackedInv'
  BY <1>12 DEF NewRelease, BackedInv, Backed
<1>13. CASE UNCHANGED vars
  BY <1>13 DEF vars, BackedInv, Backed
<1> QED
  BY <1>1, <1>2, <1>3, <1>4, <1>5, <1>6, <1>7, <1>8, <1>9, <1>10, <1>11, <1>12,
     <1>13 DEF Next, Step

\* Every entry of installed.json names a payload that was extracted to the end.
THEOREM NoPhantomRecord == Spec => []RecordedWasExtracted
<1>1. Init => BackedInv
  BY BackedEmpty
     DEF Init, BackedInv, BackedRun, Backed, FileOf, NoText, NoRecord, NoRun
<1>2. TypeOK /\ BackedInv /\ [Next]_vars => BackedInv'
  BY BackedStep
<1>3. BackedInv => RecordedWasExtracted
  BY DEF BackedInv, Backed, RecordedWasExtracted, Recorded
<1> QED BY <1>1, <1>2, <1>3, TypeCorrect, PTL DEF Spec

-----------------------------------------------------------------------------
(* One command at a time never mixes two texts                             *)

\* A step of a process moves its own program counter only, touches the file
\* only in save(), and reaches the write only through the truncation.
LEMMA StepFrame ==
  ASSUME NEW p \in Procs, Step(p) \/ Fail(p) \/ Interrupt(p)
  PROVE  /\ pc[p] \notin Stopped
         /\ \E s : /\ pc' = [pc EXCEPT ![p] = s]
                   /\ s = "write" => Truncate(p)
         /\ Truncate(p) \/ Write(p) \/ UNCHANGED file
<1>1. CASE Load(p)
  BY <1>1 DEF Load, Exit, Keep, Goto, Stopped
<1>2. CASE Plan(p)
  <2>1. \A idx : AfterPlan(run[p], PlanOf(run[p], idx)) # "write"
    BY DEF AfterPlan
  <2>2. \/ Exit(p, "error")
        \/ Exit(p, "ok")
        \/ \E idx, r : Keep(p, r, AfterPlan(run[p], PlanOf(run[p], idx)))
    BY <1>2 DEF Plan
  <2> QED BY <1>2, <2>1, <2>2 DEF Plan, Exit, Keep, Goto, Stopped
<1>3. CASE Snapshot(p)
  BY <1>3 DEF Snapshot, Keep, Goto, Stopped
<1>4. CASE Reload(p) \/ NotFound(p) \/ AllExtracted(p)
  BY <1>4 DEF Reload, NotFound, AllExtracted, Exit, Keep, Goto, Stopped
<1>5. ASSUME NEW n \in Pkgs, BeginExtract(p, n)
      PROVE  /\ pc[p] = "next" /\ pc' = [pc EXCEPT ![p] = "extracting"]
             /\ UNCHANGED file
  BY <1>5 DEF BeginExtract, Goto
<1>6. CASE EndExtract(p)
  <2>1. pc[p] = "extracting" /\ UNCHANGED file
        /\ \E r : Keep(p, r, "reload") \/ Keep(p, r, "next")
    BY <1>6 DEF EndExtract
  <2> QED BY <2>1 DEF Keep, Goto, Stopped
<1>7. CASE Truncate(p) \/ Write(p)
  BY <1>7 DEF Truncate, Write, Keep, Goto, Stopped
<1>8. CASE Fail(p) \/ Interrupt(p)
  BY <1>8 DEF Fail, Interrupt, Exit, Goto, Stopped
<1> QED BY <1>1, <1>2, <1>3, <1>4, <1>5, <1>6, <1>7, <1>8 DEF Step, Stopped

\* The strengthening: the one running command is the only one that can be
\* between the two halves of a save, and the file is then still empty.
SerialInv ==
  /\ \A p, q \in Procs : pc[p] \notin Stopped /\ pc[q] \notin Stopped => p = q
  /\ \A p \in Procs : pc[p] = "write" => file.st = "empty"
  /\ file.st # "garbled"

LEMMA SerialStep == Serial /\ TypeOK /\ SerialInv /\ [Next]_vars => SerialInv'
<1> SUFFICES ASSUME Serial, TypeOK, SerialInv, [Next]_vars PROVE SerialInv'
  OBVIOUS
<1>1. ASSUME NEW p \in Procs, NEW cmd \in Commands, NEW dry \in BOOLEAN,
             NEW targets \in SUBSET Pkgs, Start(p, cmd, dry, targets)
      PROVE  SerialInv'
  <2>1. \A q \in Procs : pc[q] \in Stopped
    BY <1>1 DEF Start, Running
  <2>2. /\ UNCHANGED file
        /\ \/ pc' = [pc EXCEPT ![p] = "plan"]
           \/ pc' = [pc EXCEPT ![p] = "load"]
    BY <1>1 DEF Start, Goto
  <2>3. \A q \in Procs : /\ pc'[q] \notin Stopped => q = p
                         /\ pc'[q] # "write"
    BY <2>1, <2>2 DEF TypeOK, Stopped
  <2> QED BY <2>2, <2>3 DEF SerialInv
<1>2. ASSUME NEW p \in Procs, Step(p) \/ Fail(p) \/ Interrupt(p)
      PROVE  SerialInv'
  <2>1. PICK s : pc' = [pc EXCEPT ![p] = s] /\ (s = "write" => Truncate(p))
    BY <1>2, StepFrame
  <2>2. \A q \in Procs : q # p => pc'[q] = pc[q] /\ pc[q] \in Stopped
    BY <1>2, <2>1, StepFrame DEF SerialInv, TypeOK
  <2>3. CASE Truncate(p)
    BY <2>1, <2>2, <2>3 DEF SerialInv, Truncate, NoText, TypeOK, Stopped
  <2>4. CASE Write(p)
    <3>1. file' = FileOf(run[p].mem)
      BY <2>4 DEF Write, Overlay, SerialInv
    <3> QED BY <2>1, <2>2, <2>4, <3>1
            DEF SerialInv, Write, Goto, FileOf, TypeOK, Stopped
  <2>5. CASE UNCHANGED file /\ ~Truncate(p)
    BY <2>1, <2>2, <2>5 DEF SerialInv, TypeOK, Stopped
  <2> QED BY <1>2, <2>3, <2>4, <2>5, StepFrame
<1>3. ASSUME NEW n \in Pkgs, NewRelease(n) PROVE SerialInv'
  BY <1>3 DEF NewRelease, SerialInv
<1>4. CASE UNCHANGED vars
  BY <1>4 DEF vars, SerialInv
<1> QED BY <1>1, <1>2, <1>3, <1>4 DEF Next

LEMMA SerialInit == Init => SerialInv
BY DEF Init, SerialInv, FileOf, NoText, Stopped

\* As long as the operator runs one command at a time, no failure and no
\* interruption leaves a mixture of two states in installed.json.
THEOREM SerialNeverGarbles == Serial /\ Spec => []NeverGarbled
<1> SUFFICES ASSUME Serial PROVE Spec => []NeverGarbled
  OBVIOUS
<1>1. Init => SerialInv
  BY SerialInit
<1>2. TypeOK /\ SerialInv /\ [Next]_vars => SerialInv'
  BY SerialStep
<1>3. SerialInv => NeverGarbled
  BY DEF SerialInv, NeverGarbled
<1> QED BY <1>1, <1>2, <1>3, TypeCorrect, PTL DEF Spec

-----------------------------------------------------------------------------
(* A broken state file stays broken                                        *)

\* install-recipe keeps its one package on the list until it has extracted it,
\* so it saves only after it has loaded the state.
RecipeInv ==
  \A p \in Procs : run[p].cmd = "install-recipe" =>
    /\ pc[p] \in {"load", "plan"} => run[p].targets # {}
    /\ pc[p] \in {"snapshot", "next"} => run[p].todo # {}

LEMMA RecipeStep == TypeOK /\ RecipeInv /\ [Next]_vars => RecipeInv'
<1> SUFFICES ASSUME TypeOK, RecipeInv, [Next]_vars PROVE RecipeInv'
  OBVIOUS
<1>0. \A p \in Procs : run[p] \in RunType
  BY DEF TypeOK
<1> DEFINE Good(r, step) ==
      r.cmd = "install-recipe" =>
        /\ step \in {"load", "plan"} => r.targets # {}
        /\ step \in {"snapshot", "next"} => r.todo # {}
<1>a. ASSUME NEW p \in Procs, NEW r, NEW step, Good(r, step),
             pc' = [pc EXCEPT ![p] = step], run' = [run EXCEPT ![p] = r]
      PROVE  RecipeInv'
  BY <1>a DEF RecipeInv, TypeOK
<1>b. ASSUME NEW p \in Procs, NEW how \in Stopped, Exit(p, how) PROVE RecipeInv'
  <2>1. Good(NoRun, how)
    BY DEF NoRun
  <2> QED BY <1>a, <1>b, <2>1 DEF Exit, Goto
<1>c. ASSUME NEW p \in Procs, NEW r, NEW step, Good(r, step), Keep(p, r, step)
      PROVE  RecipeInv'
  BY <1>a, <1>c DEF Keep, Goto
<1>d. \A p \in Procs : Good(run[p], pc[p])
  BY DEF RecipeInv
<1>1. ASSUME NEW p \in Procs, NEW cmd \in Commands, NEW dry \in BOOLEAN,
             NEW targets \in SUBSET Pkgs, Start(p, cmd, dry, targets)
      PROVE  RecipeInv'
  <2> DEFINE r == [NoRun EXCEPT !.cmd = cmd, !.dry = dry, !.targets = targets]
  <2>1. r.cmd = cmd /\ r.targets = targets
    BY DEF NoRun
  <2>2. cmd = "install-recipe" => targets # {}
    BY <1>1 DEF Start
  <2>3. run' = [run EXCEPT ![p] = r]
        /\ \/ pc' = [pc EXCEPT ![p] = "plan"]
           \/ pc' = [pc EXCEPT ![p] = "load"]
    BY <1>1 DEF Start, Goto
  <2>4. Good(r, "plan") /\ Good(r, "load")
    BY <2>1, <2>2
  <2> HIDE DEF r, Good
  <2> QED BY <1>a, <2>3, <2>4
<1>2. ASSUME NEW p \in Procs, Load(p) PROVE RecipeInv'
  <2> DEFINE r == [run[p] EXCEPT !.mem = file.db]
  <2>1. r.cmd = run[p].cmd /\ r.targets = run[p].targets
    BY <1>0 DEF RunType
  <2>2. \/ Exit(p, "error") \/ Exit(p, "ok")
        \/ Keep(p, r, IF r.cmd = "uninstall" THEN "snapshot" ELSE "plan")
    BY <1>2 DEF Load
  <2>3. Good(r, IF r.cmd = "uninstall" THEN "snapshot" ELSE "plan")
    BY <1>2, <1>d, <2>1 DEF Load
  <2> HIDE DEF r, Good
  <2> QED BY <1>b, <1>c, <2>2, <2>3 DEF Stopped
<1>3. ASSUME NEW p \in Procs, Plan(p) PROVE RecipeInv'
  <2>1. PICK idx, order : \/ Exit(p, "error")
                   \/ Exit(p, "ok")
                   \/ /\ AfterPlan(run[p], PlanOf(run[p], idx)) # "ok"
                      /\ Keep(p, [run[p] EXCEPT !.idx = idx, !.order = order,
                                   !.todo = IF run[p].dry THEN {}
                                            ELSE PlanOf(run[p], idx)],
                              AfterPlan(run[p], PlanOf(run[p], idx)))
    BY <1>3 DEF Plan
  <2> DEFINE r == [run[p] EXCEPT !.idx = idx, !.order = order,
                     !.todo = IF run[p].dry THEN {} ELSE PlanOf(run[p], idx)]
             step == AfterPlan(run[p], PlanOf(run[p], idx))
  <2>2. r.cmd = run[p].cmd
        /\ r.todo = IF run[p].dry THEN {} ELSE PlanOf(run[p], idx)
    BY <1>0 DEF RunType
  <2>3. run[p].cmd = "install-recipe" =>
          /\ PlanOf(run[p], idx) # {}
          /\ step = IF run[p].dry THEN "ok" ELSE "snapshot"
    <3>1. run[p].cmd = "install-recipe" => PlanOf(run[p], idx) = run[p].targets
      BY DEF PlanOf
    <3>2. run[p].cmd = "install-recipe" =>
            step = IF run[p].dry THEN "ok" ELSE "snapshot"
      BY DEF AfterPlan
    <3> QED BY <1>3, <3>1, <3>2 DEF RecipeInv, Plan
  <2>4. step # "ok" => Good(r, step)
    <3>1. CASE run[p].cmd = "install-recipe" /\ ~run[p].dry
      BY <2>2, <2>3, <3>1
    <3>2. CASE run[p].cmd = "install-recipe" /\ run[p].dry
      BY <2>3, <3>2
    <3> QED BY <2>2, <3>1, <3>2
  <2> QED BY <2>1, <2>4, <1>b, <1>c DEF Stopped
<1>4. ASSUME NEW p \in Procs, Snapshot(p) PROVE RecipeInv'
  <2> DEFINE r == [run[p] EXCEPT !.snapped = TRUE]
  <2>1. r.cmd = run[p].cmd /\ r.todo = run[p].todo /\ r.targets = run[p].targets
    BY <1>0 DEF RunType
  <2>2. \A m : [r EXCEPT !.mem = m].cmd = run[p].cmd
    BY <1>0 DEF RunType
  <2>3. \/ /\ r.cmd # "uninstall"
           /\ Keep(p, r, "next")
        \/ \E m : /\ r.cmd = "uninstall"
                  /\ Keep(p, [r EXCEPT !.mem = m], "truncate")
    BY <1>4 DEF Snapshot
  <2>4. pc[p] = "snapshot"
    BY <1>4 DEF Snapshot
  <2> HIDE DEF r
  <2> QED BY <1>d, <1>c, <2>1, <2>2, <2>3, <2>4
<1>5. ASSUME NEW p \in Procs, NEW n \in Pkgs, BeginExtract(p, n)
      PROVE  RecipeInv'
  BY <1>5, BeginFrame DEF TypeOK, RecipeInv
<1>6. ASSUME NEW p \in Procs, EndExtract(p) PROVE RecipeInv'
  <2> DEFINE done(n) == [run[p] EXCEPT !.busy = {}, !.todo = @ \ {n},
                                       !.did = @ \union {n}]
  <2>1. PICK n \in run[p].busy :
          \/ Keep(p, done(n), "reload")
          \/ /\ run[p].cmd # "install-recipe"
             /\ \/ Keep(p, done(n), "next")
                \/ \E m : Keep(p, [done(n) EXCEPT !.mem = m], "next")
    BY <1>6 DEF EndExtract
  <2>2. done(n).cmd = run[p].cmd
        /\ \A m : [done(n) EXCEPT !.mem = m].cmd = run[p].cmd
    BY <1>0 DEF RunType
  <2> HIDE DEF done
  <2> QED BY <1>c, <2>1, <2>2
<1>7. ASSUME NEW p \in Procs, AllExtracted(p) PROVE RecipeInv'
  BY <1>7, <1>b, <1>c DEF AllExtracted, Stopped
<1>8. ASSUME NEW p \in Procs, NotFound(p) \/ Fail(p) \/ Interrupt(p)
      PROVE  RecipeInv'
  BY <1>8, <1>b DEF NotFound, Fail, Interrupt, Stopped
<1>9. ASSUME NEW p \in Procs, Reload(p) PROVE RecipeInv'
  BY <1>9, <1>b, <1>c DEF Reload, Stopped
<1>10. ASSUME NEW p \in Procs, Truncate(p) PROVE RecipeInv'
  BY <1>10, <1>c DEF Truncate
<1>11. ASSUME NEW p \in Procs, Write(p) PROVE RecipeInv'
  BY <1>11, <1>a DEF Write, Goto, NoRun
<1>12. ASSUME NEW n \in Pkgs, NewRelease(n) PROVE RecipeInv'
  BY <1>12 DEF NewRelease, RecipeInv
<1>13. CASE UNCHANGED vars
  BY <1>13 DEF vars, RecipeInv
<1> QED
  BY <1>1, <1>2, <1>3, <1>4, <1>5, <1>6, <1>7, <1>8, <1>9, <1>10, <1>11, <1>12,
     <1>13 DEF Next, Step

LEMMA RecipeInit == Init => RecipeInv
BY DEF Init, RecipeInv, NoRun

LEMMA CorruptStep ==
  TypeOK /\ RecipeInv /\ Corrupt /\ [Next]_vars => Corrupt'
<1> SUFFICES ASSUME TypeOK, RecipeInv, Corrupt, [Next]_vars PROVE Corrupt'
  OBVIOUS
<1> DEFINE Holds(r, step) ==
      \/ step \in {"truncate", "write"}
      \/ /\ r.cmd # "install-recipe" /\ r.cmd # "system-add"
         /\ step \in PastLoad
<1>0. /\ \A p \in Procs : run[p] \in RunType /\ ~Holds(run[p], pc[p])
      /\ ~Loadable(file)
  BY DEF Corrupt, HoldsState, TypeOK, Loadable
<1>a. ASSUME NEW p \in Procs, NEW r, NEW step, ~Holds(r, step), UNCHANGED file,
             pc' = [pc EXCEPT ![p] = step], run' = [run EXCEPT ![p] = r]
      PROVE  Corrupt'
  BY <1>a DEF Corrupt, HoldsState, TypeOK
<1>b. ASSUME NEW p \in Procs, NEW how \in Stopped, Exit(p, how), UNCHANGED file
      PROVE  Corrupt'
  <2>1. ~Holds(NoRun, how)
    BY DEF PastLoad, Stopped
  <2> QED BY <1>a, <1>b, <2>1 DEF Exit, Goto
<1>c. ASSUME NEW p \in Procs, NEW r, NEW step, ~Holds(r, step), Keep(p, r, step),
             UNCHANGED file
      PROVE  Corrupt'
  BY <1>a, <1>c DEF Keep, Goto
<1>1. ASSUME NEW p \in Procs, NEW cmd \in Commands, NEW dry \in BOOLEAN,
             NEW targets \in SUBSET Pkgs, Start(p, cmd, dry, targets)
      PROVE  Corrupt'
  <2> DEFINE r == [NoRun EXCEPT !.cmd = cmd, !.dry = dry, !.targets = targets]
             step == IF cmd \in {"install-recipe", "system-add"} THEN "plan"
                                                                 ELSE "load"
  <2>1. r.cmd = cmd
    BY DEF NoRun
  <2>2. run' = [run EXCEPT ![p] = r] /\ pc' = [pc EXCEPT ![p] = step]
        /\ UNCHANGED file
    BY <1>1 DEF Start, Goto
  <2>3. ~Holds(r, step)
    BY <2>1 DEF PastLoad
  <2> HIDE DEF r, step, Holds
  <2> QED BY <1>a, <2>2, <2>3
<1>2. ASSUME NEW p \in Procs, Load(p) PROVE Corrupt'
  BY <1>0, <1>2, <1>b DEF Load, Stopped
<1>3. ASSUME NEW p \in Procs, Plan(p) PROVE Corrupt'
  <2>1. run[p].cmd = "install-recipe" \/ run[p].cmd = "system-add"
    BY <1>0, <1>3 DEF Plan, PastLoad
  <2>2. PICK idx, order : \/ Exit(p, "error")
                   \/ Exit(p, "ok")
                   \/ /\ AfterPlan(run[p], PlanOf(run[p], idx)) # "ok"
                      /\ Keep(p, [run[p] EXCEPT !.idx = idx, !.order = order,
                                   !.todo = IF run[p].dry THEN {}
                                            ELSE PlanOf(run[p], idx)],
                              AfterPlan(run[p], PlanOf(run[p], idx)))
    BY <1>3 DEF Plan
  <2>3. AfterPlan(run[p], PlanOf(run[p], idx)) \in {"ok", "snapshot"}
    BY <2>1 DEF AfterPlan
  <2> DEFINE r == [run[p] EXCEPT !.idx = idx, !.order = order,
                     !.todo = IF run[p].dry THEN {} ELSE PlanOf(run[p], idx)]
  <2>4. ~Holds(r, "snapshot")
    BY <1>0, <2>1 DEF RunType
  <2>5. UNCHANGED file
    BY <1>3 DEF Plan
  <2> HIDE DEF r, Holds
  <2> QED BY <2>2, <2>3, <2>4, <2>5, <1>b, <1>c DEF Stopped, r
<1>4. ASSUME NEW p \in Procs, Snapshot(p) PROVE Corrupt'
  <2> DEFINE r == [run[p] EXCEPT !.snapped = TRUE]
  <2>1. r.cmd = run[p].cmd
    BY <1>0 DEF RunType
  <2>2. run[p].cmd = "install-recipe" \/ run[p].cmd = "system-add"
    BY <1>0, <1>4 DEF Snapshot, PastLoad
  <2>3. Keep(p, r, "next") /\ UNCHANGED file
    BY <1>4, <2>1, <2>2 DEF Snapshot
  <2>4. ~Holds(r, "next")
    BY <2>1, <2>2
  <2> HIDE DEF r, Holds
  <2> QED BY <1>c, <2>3, <2>4
<1>5. ASSUME NEW p \in Procs, NEW n \in Pkgs, BeginExtract(p, n)
      PROVE  Corrupt'
  BY <1>0, <1>5, BeginFrame DEF TypeOK, Corrupt, HoldsState, PastLoad
<1>6. ASSUME NEW p \in Procs, EndExtract(p) PROVE Corrupt'
  <2> DEFINE done(n) == [run[p] EXCEPT !.busy = {}, !.todo = @ \ {n},
                                       !.did = @ \union {n}]
  <2>1. run[p].cmd = "install-recipe" \/ run[p].cmd = "system-add"
    BY <1>0, <1>6 DEF EndExtract, PastLoad
  <2>2. PICK n \in run[p].busy : \/ Keep(p, done(n), "reload")
                                 \/ Keep(p, done(n), "next")
    BY <1>6, <2>1 DEF EndExtract
  <2>3. done(n).cmd = run[p].cmd
    BY <1>0 DEF RunType
  <2>4. ~Holds(done(n), "reload") /\ ~Holds(done(n), "next")
    BY <2>1, <2>3 DEF PastLoad
  <2>5. UNCHANGED file
    BY <1>6 DEF EndExtract
  <2> HIDE DEF done, Holds
  <2> QED BY <1>c, <2>2, <2>4, <2>5
<1>7. ASSUME NEW p \in Procs, AllExtracted(p) PROVE Corrupt'
  <2>1. run[p].cmd = "system-add"
    BY <1>0, <1>7 DEF AllExtracted, PastLoad, RecipeInv
  <2> QED BY <1>7, <2>1, <1>b DEF AllExtracted, Stopped
<1>8. ASSUME NEW p \in Procs, NotFound(p) \/ Fail(p) \/ Interrupt(p)
      PROVE  Corrupt'
  BY <1>8, <1>b DEF NotFound, Fail, Interrupt, Stopped
<1>9. ASSUME NEW p \in Procs, Reload(p) PROVE Corrupt'
  BY <1>0, <1>9, <1>b DEF Reload, Stopped
<1>10. ASSUME NEW p \in Procs, Truncate(p) \/ Write(p) PROVE Corrupt'
  BY <1>0, <1>10 DEF Truncate, Write
<1>11. ASSUME NEW n \in Pkgs, NewRelease(n) PROVE Corrupt'
  BY <1>11 DEF NewRelease, Corrupt, HoldsState
<1>12. CASE UNCHANGED vars
  BY <1>12 DEF vars, Corrupt, HoldsState
<1> QED
  BY <1>1, <1>2, <1>3, <1>4, <1>5, <1>6, <1>7, <1>8, <1>9, <1>10, <1>11, <1>12
     DEF Next, Step

\* A state file that does not parse is never taken for an empty one: once no
\* run holds a state loaded before, the file never parses again.
THEOREM CorruptionStays == Spec => CorruptionIsFinal
<1>1. Init => RecipeInv
  BY RecipeInit
<1>2. TypeOK /\ RecipeInv /\ [Next]_vars => RecipeInv'
  BY RecipeStep
<1>3. TypeOK /\ RecipeInv /\ [Next]_vars => [Corrupt => Corrupt']_vars
  BY CorruptStep
<1> QED BY <1>1, <1>2, <1>3, TypeCorrect, PTL DEF Spec, CorruptionIsFinal
-----------------------------------------------------------------------------
(* What a command knows at each of its steps                               *)

Loaders == {"install", "uninstall", "reinstall", "upgrade"}
Saving == {"truncate", "write"}
Planned == {"snapshot", "next", "extracting", "truncate", "write"}

\* r is at step s and has a state in memory that it will save.
Holding(r, s) ==
  s \in Saving \/ (r.cmd \in Loaders /\ s \in {"plan", "snapshot", "next", "extracting"})

\* Which command can be where, and what it has extracted by then.
Placed(r, s) ==
  /\ s \in Stopped => r = NoRun
  /\ s \notin Stopped => r.cmd \in AllCommands
  /\ s = "load" => r.cmd \in Loaders
  /\ s = "reload" => r.cmd = "install-recipe" /\ \E n \in Pkgs : r.did = {n}
  /\ r.cmd = "uninstall" => s \notin {"plan", "next", "extracting"}
  /\ r.cmd = "system-add" => s \notin Saving
  /\ r.cmd = "install-recipe" /\ s \notin {"reload"} \union Saving => r.did = {}
  /\ s \in {"load", "plan", "snapshot"} => r.did = {}
  /\ ~r.snapped => s \notin {"next", "extracting", "reload"} /\ r.did = {}

\* What is being extracted, what is left, and what is done.
Extracting(r, s) ==
  /\ s = "extracting" => \E n \in r.todo : r.busy = {n}
  /\ s # "extracting" => r.busy = {}
  /\ r.did \intersect r.todo = {}
  /\ \A n \in r.busy \union r.did : r.idx[n] # 0
  /\ Holding(r, s) => \A n \in r.did : r.mem[n].ver = r.idx[n]

\* What is left of an install's list is in order: what a package on it waits
\* for stands before it.
InOrder(r) ==
  \A k \in DOMAIN r.order : \A d \in Deps[r.order[k]] \intersect r.todo :
    \E j \in 1..(k - 1) : r.order[j] = d

\* An install's list holds, in order, all that its packages need and the state
\* lacks; what it extracts, or has extracted, needs nothing more.
Ordered(r, s) ==
  r.cmd = "install" =>
    /\ s \in {"snapshot", "next", "extracting"} =>
         /\ \A n \in r.todo : Deps[n] \subseteq Recorded(r.mem) \union r.todo
         /\ InOrder(r)
    /\ \A n \in r.busy : Deps[n] \intersect r.todo = {}
    /\ \A n \in r.did : Deps[n] \subseteq Recorded(r.mem)

\* What an upgrade has not brought to its index is on its list.
Upgraded(r, s) ==
  r.cmd = "upgrade" =>
    /\ s \in Saving => r.todo = {}
    /\ ~r.dry /\ s \in Planned => UpgradePlan(r, r.idx) \subseteq r.todo

Known(r, s) == Placed(r, s) /\ Extracting(r, s) /\ Ordered(r, s) /\ Upgraded(r, s)
KnownInv == \A p \in Procs : Known(run[p], pc[p])

\* A step of p that leaves it with what it should know keeps the invariant.
LEMMA KnownBy ==
  ASSUME TypeOK, KnownInv, NEW p \in Procs, NEW r, NEW s, Known(r, s),
         pc' = [pc EXCEPT ![p] = s], run' = [run EXCEPT ![p] = r]
  PROVE  KnownInv'
<1>1. \A q \in Procs : run'[q] = (IF q = p THEN r ELSE run[q]) /\ pc'[q] = (IF q = p THEN s ELSE pc[q])
  BY DEF TypeOK
<1> QED
  BY <1>1 DEF KnownInv

LEMMA KnownKeep ==
  ASSUME TypeOK, KnownInv, NEW p \in Procs, NEW r, NEW s, Known(r, s), Keep(p, r, s)
  PROVE  KnownInv'
BY KnownBy DEF Keep, Goto

\* A command that has ended knows nothing.
LEMMA KnownNothing == ASSUME NEW s \in Stopped PROVE Known(NoRun, s)
BY DEF Known, Placed, Extracting, Ordered, Upgraded, NoRun, Stopped, Holding, Loaders, Saving, Planned

LEMMA KnownExit ==
  ASSUME TypeOK, KnownInv, NEW p \in Procs, NEW how \in Stopped, Exit(p, how)
  PROVE  KnownInv'
BY KnownNothing, KnownBy DEF Exit, Goto

LEMMA KnownStart ==
  ASSUME TypeOK, KnownInv, NEW p \in Procs, NEW cmd \in Commands, NEW dry \in BOOLEAN,
         NEW targets \in SUBSET Pkgs, Start(p, cmd, dry, targets)
  PROVE  KnownInv'
<1> DEFINE r == [NoRun EXCEPT !.cmd = cmd, !.dry = dry, !.targets = targets]
<1> DEFINE s == IF cmd \in {"install-recipe", "system-add"} THEN "plan" ELSE "load"
<1>1. /\ r.cmd = cmd /\ r.did = {} /\ r.busy = {} /\ r.todo = {} /\ ~r.snapped
      /\ cmd \in AllCommands
  BY OilAssumption DEF NoRun
<1>2. run' = [run EXCEPT ![p] = r] /\ pc' = [pc EXCEPT ![p] = s]
  BY DEF Start, Goto
<1>3. s \in {"plan", "load"} /\ (s = "load" <=> cmd \in Loaders) /\ (s = "plan" => cmd \notin Loaders)
  BY <1>1 DEF AllCommands, Loaders
<1> HIDE DEF r, s
<1>4. Placed(r, s)
  BY <1>1, <1>3 DEF Placed, Stopped, Saving, Loaders
<1>5. Extracting(r, s) /\ Ordered(r, s) /\ Upgraded(r, s)
  BY <1>1, <1>3 DEF Extracting, Ordered, Upgraded, Saving, Planned
<1> QED
  BY <1>2, <1>4, <1>5, KnownBy DEF Known

LEMMA KnownLoad == ASSUME TypeOK, KnownInv, NEW p \in Procs, Load(p) PROVE KnownInv'
<1> DEFINE r == [run[p] EXCEPT !.mem = file.db]
<1> DEFINE s == IF r.cmd = "uninstall" THEN "snapshot" ELSE "plan"
<1>0. run[p] \in RunType /\ Known(run[p], "load")
  BY DEF TypeOK, KnownInv, Load
<1>1. /\ r.cmd = run[p].cmd /\ r.did = {} /\ r.busy = {} /\ r.todo = run[p].todo
      /\ r.snapped = run[p].snapped /\ r.cmd \in Loaders /\ r.mem = file.db
      /\ (r.cmd = "uninstall" => s = "snapshot") /\ (r.cmd # "uninstall" => s = "plan")
      /\ s \in {"snapshot", "plan"} /\ r.cmd \in AllCommands
  BY <1>0 DEF RunType, Known, Placed, Extracting, Stopped
<1>2. Exit(p, "error") \/ Exit(p, "ok") \/ Keep(p, r, s)
  BY DEF Load
<1> HIDE DEF r, s
<1>3. Placed(r, s)
  BY <1>1 DEF Placed, Stopped, Saving, Loaders
<1>4. Extracting(r, s) /\ Ordered(r, s) /\ Upgraded(r, s)
  BY <1>1 DEF Extracting, Ordered, Upgraded, Saving, Planned
<1> QED
  BY <1>2, <1>3, <1>4, KnownExit, KnownKeep DEF Known, Stopped

\* The list of an install holds all that its packages need and the state lacks.
LEMMA NeededCloses ==
  ASSUME NEW roots \in SUBSET Pkgs, NEW db
  PROVE  \A n \in Needed(roots, db) : Deps[n] \subseteq Recorded(db) \union Needed(roots, db)
<1> SUFFICES ASSUME NEW n \in Needed(roots, db), NEW m \in Deps[n], m \notin Recorded(db)
             PROVE  m \in Needed(roots, db)
  OBVIOUS
<1>1. n \in Pkgs /\ m \in Pkgs
  BY OilAssumption DEF Needed
<1>2. ASSUME NEW S \in SUBSET Pkgs, roots \subseteq S, Closed(S, db) PROVE m \in S
  <2>1. n \in S
    BY <1>2 DEF Needed
  <2> QED
    BY <1>2, <2>1 DEF Closed
<1> QED
  BY <1>1, <1>2 DEF Needed

LEMMA KnownPlan == ASSUME TypeOK, KnownInv, NEW p \in Procs, Plan(p) PROVE KnownInv'
<1>0. run[p] \in RunType /\ Known(run[p], "plan")
  BY DEF TypeOK, KnownInv, Plan
<1>1. PICK idx, order :
        \/ Exit(p, "error")
        \/ Exit(p, "ok")
        \/ /\ AfterPlan(run[p], PlanOf(run[p], idx)) # "ok"
           /\ order \in Orders(run[p].cmd, IF run[p].dry THEN {} ELSE PlanOf(run[p], idx))
           /\ Keep(p, [run[p] EXCEPT !.idx = idx, !.order = order,
                                         !.todo = IF run[p].dry THEN {} ELSE PlanOf(run[p], idx)],
                   AfterPlan(run[p], PlanOf(run[p], idx)))
  BY DEF Plan
<1>2. CASE Exit(p, "error") \/ Exit(p, "ok")
  BY <1>2, KnownExit DEF Stopped
<1> DEFINE plan == PlanOf(run[p], idx)
<1> DEFINE r == [run[p] EXCEPT !.idx = idx, !.order = order, !.todo = IF run[p].dry THEN {} ELSE plan]
<1> DEFINE s == AfterPlan(run[p], plan)
<1>3. CASE s # "ok" /\ order \in Orders(run[p].cmd, IF run[p].dry THEN {} ELSE plan) /\ Keep(p, r, s)
  <2>1. /\ r.cmd = run[p].cmd /\ r.did = {} /\ r.busy = {} /\ r.todo = (IF run[p].dry THEN {} ELSE plan)
        /\ r.snapped = run[p].snapped /\ r.cmd \in AllCommands \ {"uninstall"} /\ r.mem = run[p].mem
        /\ r.targets = run[p].targets /\ r.dry = run[p].dry /\ r.idx = idx /\ r.order = order
    BY <1>0 DEF RunType, Known, Placed, Extracting, Stopped
  <2>2. /\ s \in {"snapshot", "truncate"}
        /\ s = "truncate" <=> r.cmd = "upgrade" /\ (r.dry \/ plan = {})
        /\ r.cmd # "upgrade" => ~r.dry
    BY <1>3, <2>1 DEF AfterPlan
  <2>3. r.cmd = "install" => \A n \in r.todo : Deps[n] \subseteq Recorded(r.mem) \union r.todo
    <3>1. r.cmd = "install" => r.todo = Needed(r.targets \ Recorded(r.mem), r.mem)
      BY <2>1, <2>2 DEF PlanOf
    <3>2. r.targets \ Recorded(r.mem) \in SUBSET Pkgs
      BY <1>0, <2>1 DEF RunType
    <3> QED
      BY <3>1, <3>2, NeededCloses
  <2>9. r.cmd = "install" => InOrder(r)
    <3>1. order \in Orders(r.cmd, r.todo)
      BY <1>3, <2>1
    <3>2. r.todo \in SUBSET Pkgs
      BY <1>0, <2>1, PlanIsPackages
    <3>3. \A k \in DOMAIN order : order[k] \in r.todo
      BY <3>1, <3>2, OrdersArePackages
    <3>4. r.cmd = "install" =>
            \A k \in DOMAIN order : \A d \in Deps[order[k]] \intersect r.todo :
              \E j \in 1..(k - 1) : order[j] = d
      BY <3>1 DEF Orders
    <3> QED
      BY <2>1, <3>4 DEF InOrder
  <2>4. r.cmd = "upgrade" => plan = UpgradePlan(r, idx)
    BY <2>1 DEF PlanOf, UpgradePlan
  <2>5. r.cmd = "upgrade" /\ ~r.dry => UpgradePlan(r, r.idx) \subseteq r.todo
    BY <2>1, <2>4
  <2> HIDE DEF r, s, plan
  <2>6. Placed(r, s)
    BY <2>1, <2>2 DEF Placed, Stopped, Saving
  <2>7. Extracting(r, s) /\ Ordered(r, s)
    BY <2>1, <2>2, <2>3, <2>9 DEF Extracting, Ordered
  <2>8. Upgraded(r, s)
    BY <2>1, <2>2, <2>5 DEF Upgraded, Saving
  <2> QED
    BY <1>3, <2>6, <2>7, <2>8, KnownKeep DEF Known
<1> QED
  BY <1>1, <1>2, <1>3

LEMMA KnownSnapshot == ASSUME TypeOK, KnownInv, NEW p \in Procs, Snapshot(p) PROVE KnownInv'
<1>0. run[p] \in RunType /\ Known(run[p], "snapshot")
  BY DEF TypeOK, KnownInv, Snapshot
<1> DEFINE r == [run[p] EXCEPT !.snapped = TRUE]
<1>1. /\ r.cmd = run[p].cmd /\ r.did = {} /\ r.busy = {} /\ r.todo = run[p].todo /\ r.idx = run[p].idx
      /\ r.snapped /\ r.cmd \in AllCommands /\ r.mem = run[p].mem
      /\ r.targets = run[p].targets /\ r.dry = run[p].dry /\ r.order = run[p].order
  BY <1>0 DEF RunType, Known, Placed, Extracting, Stopped
<1>2. CASE r.cmd = "uninstall" /\ Keep(p, [r EXCEPT !.mem = Remove(@, r.targets)], "truncate")
  <2> DEFINE u == [r EXCEPT !.mem = Remove(@, r.targets)]
  <2>1. u.cmd = "uninstall" /\ u.did = {} /\ u.busy = {} /\ u.snapped
    BY <1>0, <1>1, <1>2 DEF RunType
  <2>2. Keep(p, u, "truncate")
    BY <1>2
  <2> HIDE DEF u
  <2>3. Known(u, "truncate")
    BY <2>1 DEF Known, Placed, Extracting, Ordered, Upgraded, Stopped, Saving, AllCommands
  <2> QED
    BY <2>2, <2>3, KnownKeep
<1>3. CASE r.cmd # "uninstall" /\ Keep(p, r, "next")
  <2>1. Placed(r, "next") /\ Extracting(r, "next")
    BY <1>1, <1>3 DEF Placed, Extracting, Stopped, Saving
  <2>2. Ordered(r, "next")
    BY <1>0, <1>1 DEF Known, Ordered, InOrder
  <2>3. UpgradePlan(r, r.idx) = UpgradePlan(run[p], run[p].idx)
    BY <1>1 DEF UpgradePlan
  <2>4. Upgraded(r, "next")
    BY <1>0, <1>1, <2>3 DEF Known, Upgraded, Saving, Planned
  <2> QED
    BY <1>3, <2>1, <2>2, <2>4, KnownKeep DEF Known
<1> QED
  BY <1>2, <1>3 DEF Snapshot

\* Who else extracts n is told only that it is not alone.
LEMMA KnownUnsole ==
  ASSUME NEW r \in RunType, NEW s, Known(r, s), r.busy # {}
  PROVE  Known([r EXCEPT !.sole = FALSE], s)
<1> DEFINE u == [r EXCEPT !.sole = FALSE]
<1>1. /\ u.cmd = r.cmd /\ u.did = r.did /\ u.busy = r.busy /\ u.todo = r.todo /\ u.idx = r.idx
      /\ u.snapped = r.snapped /\ u.mem = r.mem /\ u.targets = r.targets /\ u.dry = r.dry
      /\ u.order = r.order
  BY DEF RunType
<1>2. s \notin Stopped
  BY DEF Known, Placed, NoRun
<1>3. UpgradePlan(u, u.idx) = UpgradePlan(r, r.idx)
  BY <1>1 DEF UpgradePlan
<1> HIDE DEF u
<1>4. Placed(u, s) /\ Ordered(u, s) /\ Upgraded(u, s)
  BY <1>1, <1>2, <1>3 DEF Known, Placed, Ordered, InOrder, Upgraded
<1>5. Extracting(u, s)
  BY <1>1 DEF Known, Extracting, Holding
<1> QED
  BY <1>4, <1>5 DEF Known, u

LEMMA KnownBegin ==
  ASSUME TypeOK, KnownInv, NEW p \in Procs, NEW n \in Pkgs, BeginExtract(p, n)
  PROVE  KnownInv'
<1>0. run[p] \in RunType /\ Known(run[p], "next") /\ pc[p] = "next"
  BY DEF TypeOK, KnownInv, BeginExtract
<1> DEFINE others == {q \in Procs \ {p} : n \in run[q].busy}
<1>1. run' = [q \in Procs |->
                IF q = p THEN [run[p] EXCEPT !.busy = {n}, !.sole = others = {}]
                ELSE IF q \in others THEN [run[q] EXCEPT !.sole = FALSE]
                ELSE run[q]]
  BY DEF BeginExtract
<1>2. pc' = [pc EXCEPT ![p] = "extracting"] /\ pc \in [Procs -> Steps \union Stopped]
  BY DEF BeginExtract, Goto, TypeOK
<1>3. Known([run[p] EXCEPT !.busy = {n}, !.sole = others = {}], "extracting")
  <2> DEFINE u == [run[p] EXCEPT !.busy = {n}, !.sole = others = {}]
  <2>1. /\ u.cmd = run[p].cmd /\ u.did = run[p].did /\ u.busy = {n} /\ u.todo = run[p].todo
        /\ u.idx = run[p].idx /\ u.snapped = run[p].snapped /\ u.mem = run[p].mem
        /\ u.targets = run[p].targets /\ u.dry = run[p].dry /\ u.order = run[p].order
    BY <1>0 DEF RunType
  <2>2. n \in run[p].todo /\ run[p].idx[n] # 0
    BY DEF BeginExtract, IsNext
  <2>8. run[p].cmd = "install" => Deps[n] \intersect run[p].todo = {}
    <3> SUFFICES ASSUME run[p].cmd = "install", NEW d \in Deps[n] \intersect run[p].todo
                 PROVE  FALSE
      OBVIOUS
    <3>1. PICK k \in DOMAIN run[p].order :
            run[p].order[k] = n /\ \A j \in 1..(k - 1) : run[p].order[j] \notin run[p].todo
      BY DEF BeginExtract, IsNext
    <3>2. InOrder(run[p])
      BY <1>0 DEF Known, Ordered
    <3>3. PICK j \in 1..(k - 1) : run[p].order[j] = d
      BY <3>1, <3>2 DEF InOrder
    <3> QED
      BY <3>1, <3>3
  <2>3. UpgradePlan(u, u.idx) = UpgradePlan(run[p], run[p].idx)
    BY <2>1 DEF UpgradePlan
  <2> HIDE DEF u
  <2>4. Placed(u, "extracting")
    BY <1>0, <2>1 DEF Known, Placed, Stopped, Saving
  <2>5. Extracting(u, "extracting")
    BY <1>0, <2>1, <2>2 DEF Known, Extracting, Holding, Saving
  <2>6. Ordered(u, "extracting")
    BY <1>0, <2>1, <2>2, <2>8 DEF Known, Ordered, InOrder
  <2>7. Upgraded(u, "extracting")
    BY <1>0, <2>1, <2>3 DEF Known, Upgraded, Saving, Planned
  <2> QED
    BY <2>4, <2>5, <2>6, <2>7 DEF Known, u
<1>4. \A q \in others : Known([run[q] EXCEPT !.sole = FALSE], pc[q])
  BY KnownUnsole DEF TypeOK, KnownInv
<1> HIDE DEF others
<1>5. ASSUME NEW q \in Procs PROVE Known(run[q], pc[q])'
  <2>1. CASE q = p
    BY <1>1, <1>2, <1>3, <2>1
  <2>2. CASE q # p /\ q \in others
    <3>1. run'[q] = [run[q] EXCEPT !.sole = FALSE] /\ pc'[q] = pc[q]
      BY <1>1, <1>2, <2>2
    <3> QED
      BY <1>4, <2>2, <3>1
  <2>3. CASE q # p /\ q \notin others
    <3>1. run'[q] = run[q] /\ pc'[q] = pc[q]
      BY <1>1, <1>2, <2>3
    <3> QED
      BY <3>1 DEF KnownInv
  <2> QED
    BY <2>1, <2>2, <2>3
<1> QED
  BY <1>5 DEF KnownInv

LEMMA KnownEnd == ASSUME TypeOK, KnownInv, NEW p \in Procs, EndExtract(p) PROVE KnownInv'
<1>0. run[p] \in RunType /\ Known(run[p], "extracting")
  BY DEF TypeOK, KnownInv, EndExtract
<1>1. PICK n \in run[p].todo : run[p].busy = {n}
  BY <1>0 DEF Known, Extracting
<1> DEFINE v == run[p].idx[n]
<1> DEFINE done == [run[p] EXCEPT !.busy = {}, !.todo = @ \ {n}, !.did = @ \union {n}]
<1> DEFINE marked == [done EXCEPT !.mem = MarkInstalled(@, n, v)]
<1>2. /\ n \in Pkgs /\ n \notin run[p].did /\ v # 0 /\ v \in MaybeVersion
      /\ run[p].did \subseteq Pkgs /\ run[p].todo \subseteq Pkgs /\ run[p].mem \in Db
  BY <1>0, <1>1 DEF RunType, Known, Extracting
<1>3. /\ done.cmd = run[p].cmd /\ done.did = run[p].did \union {n} /\ done.busy = {}
      /\ done.todo = run[p].todo \ {n} /\ done.idx = run[p].idx /\ done.snapped = run[p].snapped
      /\ done.mem = run[p].mem /\ done.targets = run[p].targets /\ done.dry = run[p].dry
      /\ done.order = run[p].order
  BY <1>0 DEF RunType
<1>4. /\ marked.cmd = run[p].cmd /\ marked.did = run[p].did \union {n} /\ marked.busy = {}
      /\ marked.todo = run[p].todo \ {n} /\ marked.idx = run[p].idx /\ marked.snapped = run[p].snapped
      /\ marked.mem = MarkInstalled(run[p].mem, n, v) /\ marked.targets = run[p].targets
      /\ marked.dry = run[p].dry /\ marked.order = run[p].order
  BY <1>0 DEF RunType
<1>5. \/ run[p].cmd = "install-recipe" /\ Keep(p, done, "reload")
      \/ run[p].cmd = "system-add" /\ Keep(p, done, "next")
      \/ run[p].cmd \in Loaders \ {"uninstall"} /\ Keep(p, marked, "next")
  <2>1. run[p].cmd \in AllCommands \ {"uninstall"}
    BY <1>0 DEF Known, Placed, Stopped
  <2>2. \/ run[p].cmd = "install-recipe" /\ Keep(p, done, "reload")
        \/ run[p].cmd # "install-recipe" /\ Keep(p, IF run[p].cmd = "system-add" THEN done ELSE marked, "next")
    BY <1>1 DEF EndExtract
  <2> HIDE DEF done, marked, v
  <2> QED
    BY <2>1, <2>2 DEF AllCommands, Loaders
<1> HIDE DEF done, marked, v
<1>6. CASE run[p].cmd = "install-recipe" /\ Keep(p, done, "reload")
  <2>1. done.did = {n}
    BY <1>0, <1>3, <1>6 DEF Known, Placed, Saving
  <2>2. Placed(done, "reload")
    BY <1>0, <1>2, <1>3, <1>6, <2>1 DEF Known, Placed, Stopped, Saving
  <2>3. Extracting(done, "reload") /\ Ordered(done, "reload") /\ Upgraded(done, "reload")
    BY <1>2, <1>3, <1>6, <2>1 DEF Extracting, Ordered, Upgraded, Holding, Saving, Loaders, v
  <2> QED
    BY <1>6, <2>2, <2>3, KnownKeep DEF Known
<1>7. CASE run[p].cmd = "system-add" /\ Keep(p, done, "next")
  <2>1. Placed(done, "next")
    BY <1>0, <1>3, <1>7 DEF Known, Placed, Stopped, Saving
  <2>2. Extracting(done, "next") /\ Ordered(done, "next") /\ Upgraded(done, "next")
    BY <1>0, <1>1, <1>2, <1>3, <1>7 DEF Known, Extracting, Ordered, Upgraded, Holding, Saving, Loaders, v
  <2> QED
    BY <1>7, <2>1, <2>2, KnownKeep DEF Known
<1>8. CASE run[p].cmd \in Loaders \ {"uninstall"} /\ Keep(p, marked, "next")
  <2>1. /\ marked.mem[n].ver = v
        /\ \A m \in Pkgs \ {n} : marked.mem[m] = run[p].mem[m]
    BY <1>2, <1>4 DEF MarkInstalled, Db, Record
  <2>2. Recorded(marked.mem) = Recorded(run[p].mem) \union {n}
    BY <1>2, <2>1 DEF Recorded
  <2>3. Placed(marked, "next")
    BY <1>0, <1>4, <1>8 DEF Known, Placed, Stopped, Saving, Loaders
  <2>4. Extracting(marked, "next")
    BY <1>0, <1>1, <1>2, <1>4, <1>8, <2>1 DEF Known, Extracting, Holding, v
  <2>5. Ordered(marked, "next")
    <3>1. run[p].cmd = "install" =>
            /\ \A m \in run[p].todo : Deps[m] \subseteq Recorded(run[p].mem) \union run[p].todo
            /\ \A m \in run[p].did : Deps[m] \subseteq Recorded(run[p].mem)
            /\ Deps[n] \intersect run[p].todo = {}
      BY <1>0, <1>1 DEF Known, Ordered
    <3>2. run[p].cmd = "install" => InOrder(marked)
      BY <1>0, <1>4 DEF Known, Ordered, InOrder
    <3> QED
      BY <1>1, <1>4, <2>2, <3>1, <3>2 DEF Ordered
  <2>6. UpgradePlan(marked, marked.idx) \subseteq UpgradePlan(run[p], run[p].idx) \ {n}
    <3>1. marked.idx[n] = marked.mem[n].ver
      BY <1>4, <2>1 DEF v
    <3>2. n \notin UpgradePlan(marked, marked.idx)
      BY <3>1 DEF UpgradePlan
    <3>3. ASSUME NEW m \in UpgradePlan(marked, marked.idx), m # n
          PROVE  m \in UpgradePlan(run[p], run[p].idx)
      <4>1. m \in Pkgs /\ m \in Recorded(run[p].mem) /\ marked.mem[m] = run[p].mem[m]
        BY <2>1, <2>2, <3>3 DEF UpgradePlan, Recorded
      <4> QED
        BY <1>4, <3>3, <4>1 DEF UpgradePlan
    <3> QED
      BY <3>2, <3>3
  <2>7. Upgraded(marked, "next")
    BY <1>0, <1>4, <2>6 DEF Known, Upgraded, Saving, Planned
  <2> QED
    BY <1>8, <2>3, <2>4, <2>5, <2>7, KnownKeep DEF Known
<1> QED
  BY <1>5, <1>6, <1>7, <1>8

LEMMA KnownAll == ASSUME TypeOK, KnownInv, NEW p \in Procs, AllExtracted(p) PROVE KnownInv'
<1>0. run[p] \in RunType /\ Known(run[p], "next") /\ run[p].todo = {}
  BY DEF TypeOK, KnownInv, AllExtracted
<1>1. CASE run[p].cmd = "system-add" /\ Exit(p, "ok")
  BY <1>1, KnownExit DEF Stopped
<1>2. CASE run[p].cmd # "system-add" /\ Keep(p, run[p], "truncate")
  <2>1. Placed(run[p], "truncate")
    BY <1>0, <1>2 DEF Known, Placed, Stopped, Saving
  <2>2. Extracting(run[p], "truncate")
    <3>1. run[p].cmd \in Loaders \/ run[p].did = {}
      BY <1>0, <1>2 DEF Known, Placed, Stopped, Saving, AllCommands, Loaders
    <3> QED
      BY <1>0, <3>1 DEF Known, Extracting, Holding
  <2>3. Ordered(run[p], "truncate")
    BY <1>0 DEF Known, Ordered
  <2>4. Upgraded(run[p], "truncate")
    BY <1>0 DEF Known, Upgraded, Saving, Planned
  <2> QED
    BY <1>2, <2>1, <2>2, <2>3, <2>4, KnownKeep DEF Known
<1> QED
  BY <1>1, <1>2 DEF AllExtracted

LEMMA KnownReload == ASSUME TypeOK, KnownInv, NEW p \in Procs, Reload(p) PROVE KnownInv'
<1>0. run[p] \in RunType /\ Known(run[p], "reload") /\ file.db \in Db
  BY DEF TypeOK, KnownInv, Reload
<1>1. PICK n \in Pkgs : run[p].did = {n} /\ run[p].cmd = "install-recipe"
  BY <1>0 DEF Known, Placed
<1> DEFINE r == [run[p] EXCEPT !.mem = MarkInstalled(file.db, n, run[p].idx[n])]
<1>2. Exit(p, "error") \/ Keep(p, r, "truncate")
  BY <1>1 DEF Reload
<1>3. /\ r.cmd = "install-recipe" /\ r.did = {n} /\ r.busy = {} /\ r.todo = run[p].todo
      /\ r.idx = run[p].idx /\ r.snapped = run[p].snapped
      /\ r.mem = MarkInstalled(file.db, n, run[p].idx[n])
  BY <1>0, <1>1 DEF RunType, Known, Extracting
<1> HIDE DEF r
<1>4. r.mem[n].ver = run[p].idx[n]
  BY <1>0, <1>3 DEF MarkInstalled, Db, Record
<1>5. Placed(r, "truncate")
  BY <1>0, <1>3 DEF Known, Placed, Stopped, Saving, AllCommands
<1>6. Extracting(r, "truncate") /\ Ordered(r, "truncate") /\ Upgraded(r, "truncate")
  BY <1>0, <1>1, <1>3, <1>4 DEF Known, Extracting, Ordered, Upgraded
<1> QED
  BY <1>2, <1>5, <1>6, KnownExit, KnownKeep DEF Known, Stopped

LEMMA KnownStep == TypeOK /\ KnownInv /\ [Next]_vars => KnownInv'
<1> SUFFICES ASSUME TypeOK, KnownInv, [Next]_vars PROVE KnownInv'
  OBVIOUS
<1>1. ASSUME NEW p \in Procs, NotFound(p) \/ Fail(p) \/ Interrupt(p) PROVE KnownInv'
  BY <1>1, KnownExit DEF NotFound, Fail, Interrupt, Stopped
<1>2. ASSUME NEW p \in Procs, Truncate(p) PROVE KnownInv'
  <2>1. run[p] \in RunType /\ Known(run[p], "truncate") /\ Keep(p, run[p], "write")
    BY <1>2 DEF TypeOK, KnownInv, Truncate
  <2>2. Known(run[p], "write")
    BY <2>1 DEF Known, Placed, Extracting, Ordered, Upgraded, Stopped, Saving, Planned, Holding
  <2> QED
    BY <2>1, <2>2, KnownKeep
<1>3. ASSUME NEW p \in Procs, Write(p) PROVE KnownInv'
  BY <1>3, KnownNothing, KnownBy DEF Write, Goto, Stopped
<1>4. CASE (\E n \in Pkgs : NewRelease(n)) \/ UNCHANGED vars
  BY <1>4 DEF NewRelease, vars, KnownInv
<1> QED
  BY <1>1, <1>2, <1>3, <1>4, KnownStart, KnownLoad, KnownPlan, KnownSnapshot, KnownBegin, KnownEnd,
     KnownAll, KnownReload DEF Next, Step

LEMMA KnownInit == Init => KnownInv
BY KnownNothing DEF Init, KnownInv, Stopped

-----------------------------------------------------------------------------
(* What a package needs is in the payload first                            *)

\* Nothing takes a payload away: what was extracted once has a version.
LaidDown == \A n \in Pkgs, v \in MaybeVersion : <<n, v>> \in extracted /\ v # 0 => disk[n].ver # 0

LEMMA LaidBut ==
  ASSUME LaidDown, UNCHANGED extracted, \A n \in Pkgs : disk'[n].ver = disk[n].ver
  PROVE  LaidDown'
BY DEF LaidDown

LEMMA LaidStep == TypeOK /\ KnownInv /\ LaidDown /\ [Next]_vars => LaidDown'
<1> SUFFICES ASSUME TypeOK, KnownInv, LaidDown, [Next]_vars PROVE LaidDown'
  OBVIOUS
<1>1. ASSUME NEW p \in Procs, EndExtract(p) PROVE LaidDown'
  <2>1. run[p] \in RunType /\ Known(run[p], "extracting")
    BY <1>1 DEF TypeOK, KnownInv, EndExtract
  <2>2. PICK n \in run[p].busy :
          /\ disk' = [disk EXCEPT ![n] = [ver |-> run[p].idx[n], torn |-> ~run[p].sole]]
          /\ extracted' = extracted \union {<<n, run[p].idx[n]>>}
    BY <1>1 DEF EndExtract
  <2>3. n \in Pkgs /\ run[p].idx[n] # 0
    BY <2>1, <2>2 DEF RunType, Known, Extracting
  <2>4. \A m \in Pkgs : disk'[m].ver = IF m = n THEN run[p].idx[n] ELSE disk[m].ver
    BY <2>2, <2>3 DEF TypeOK
  <2> QED
    BY <2>2, <2>3, <2>4 DEF LaidDown
<1>2. ASSUME NEW p \in Procs, NEW n \in Pkgs, BeginExtract(p, n) PROVE LaidDown'
  <2>1. disk' = [disk EXCEPT ![n].torn = TRUE] /\ UNCHANGED extracted
    BY <1>2 DEF BeginExtract
  <2>2. \A m \in Pkgs : disk'[m].ver = disk[m].ver
    BY <2>1 DEF TypeOK
  <2> QED
    BY <2>1, <2>2, LaidBut
<1>3. CASE UNCHANGED <<disk, extracted>>
  BY <1>3, LaidBut
<1>4. ASSUME NEW p \in Procs,
             \/ \E cmd \in Commands, dry \in BOOLEAN, targets \in SUBSET Pkgs : Start(p, cmd, dry, targets)
             \/ Load(p) \/ Plan(p) \/ Snapshot(p) \/ Reload(p) \/ NotFound(p) \/ AllExtracted(p)
             \/ Truncate(p) \/ Write(p) \/ Fail(p) \/ Interrupt(p)
      PROVE  UNCHANGED <<disk, extracted>>
  BY <1>4 DEF Start, Load, Plan, Snapshot, Reload, NotFound, AllExtracted, Truncate, Write, Fail, Interrupt
<1>5. CASE (\E n \in Pkgs : NewRelease(n)) \/ UNCHANGED vars
  BY <1>3, <1>5 DEF NewRelease, vars
<1> QED
  BY <1>1, <1>2, <1>3, <1>4, <1>5 DEF Next, Step

\* Whatever overlaps, fails or removes entries meanwhile: when an install begins
\* to extract a package, all that the package needs was extracted to the end and
\* is in the payload. The list it goes through has every package after those it
\* needs, and an entry it found instead was made after an extraction.
THEOREM DependenciesInPayload == Spec => []DepsInPayload
<1>1. ASSUME KnownInv, NEW p \in Procs, run[p].cmd = "install",
             NEW n \in run[p].busy \union run[p].did
      PROVE  Deps[n] \subseteq Recorded(run[p].mem)
  <2>1. Known(run[p], pc[p])
    BY <1>1 DEF KnownInv
  <2>2. n \in run[p].busy => pc[p] = "extracting" /\ n \in run[p].todo
    BY <2>1 DEF Known, Extracting
  <2> QED
    BY <1>1, <2>1, <2>2 DEF Known, Ordered
<1>2. TypeOK /\ KnownInv /\ BackedInv /\ LaidDown => DepsInPayload
  <2> SUFFICES ASSUME TypeOK, KnownInv, BackedInv, LaidDown,
                      NEW p \in Procs, run[p].cmd = "install",
                      NEW n \in run[p].busy \union run[p].did, NEW d \in Deps[n]
               PROVE  disk[d].ver # 0
    BY DEF DepsInPayload
  <2>1. d \in Recorded(run[p].mem)
    BY <1>1
  <2>2. d \in Pkgs /\ run[p].mem[d].ver # 0
    BY <2>1 DEF Recorded
  <2>3. <<d, run[p].mem[d].ver>> \in extracted
    BY <2>2 DEF BackedInv, Backed
  <2>4. run[p].mem[d].ver \in MaybeVersion
    BY <2>2 DEF TypeOK, RunType, Db, Record
  <2> QED
    BY <2>2, <2>3, <2>4 DEF LaidDown
<1>3. Init => BackedInv
  BY BackedEmpty
     DEF Init, BackedInv, BackedRun, Backed, FileOf, NoText, NoRecord, NoRun
<1>4. Init => LaidDown
  BY DEF Init, LaidDown
<1> QED
  BY <1>2, <1>3, <1>4, BackedStep, LaidStep, KnownInit, KnownStep, TypeCorrect, PTL DEF Spec

-----------------------------------------------------------------------------
(* One command at a time: between commands                                 *)

Describes(payload, n, v) == payload[n] = [ver |-> v, torn |-> FALSE]

\* What a command leaves out of the state it saves.
Dropped(r, s) == IF r.cmd = "uninstall" /\ s \in Saving THEN r.targets ELSE {}

\* A state held in memory describes the payload and has what was reported.
Settled(r, s) ==
  /\ s = "extracting" => r.sole
  /\ \A n \in r.did : Describes(disk, n, r.idx[n])
  /\ Holding(r, s) =>
       /\ \A n \in Recorded(r.mem) :
            n \in unsettled \ r.did \/ n \in r.busy \/ Describes(disk, n, r.mem[n].ver)
       /\ acked \ Dropped(r, s) \subseteq Recorded(r.mem)
  /\ ~r.snapped /\ (s = "truncate" \/ (s = "plan" /\ r.cmd = "upgrade")) =>
       Recorded(r.mem) # {} /\ r.mem = file.db

\* So does the file, but for what the running command touches.
SettledFile ==
  /\ file.st # "ok" => Recorded(file.db) = {}
  /\ \A n \in Recorded(file.db) :
       \/ n \in unsettled \/ Describes(disk, n, file.db[n].ver)
       \/ \E q \in Procs : n \in run[q].did \union run[q].busy
  /\ file.st \in {"missing", "ok"} => acked \subseteq Recorded(file.db)

SettledInv == SettledFile /\ \A p \in Procs : Settled(run[p], pc[p])

\* A step of p, while nobody else runs, that leaves it and the file settled.
LEMMA SettledBy ==
  ASSUME TypeOK, KnownInv, NEW p \in Procs, \A q \in Procs \ {p} : pc[q] \in Stopped,
         NEW r, NEW s, pc' = [pc EXCEPT ![p] = s], run' = [run EXCEPT ![p] = r],
         Settled(r, s)',
         file'.st # "ok" => Recorded(file'.db) = {},
         \A n \in Recorded(file'.db) :
           n \in unsettled' \/ Describes(disk', n, file'.db[n].ver) \/ n \in r.did \union r.busy,
         file'.st \in {"missing", "ok"} => acked' \subseteq Recorded(file'.db)
  PROVE  SettledInv'
<1>1. \A q \in Procs : run'[q] = (IF q = p THEN r ELSE run[q]) /\ pc'[q] = (IF q = p THEN s ELSE pc[q])
  BY DEF TypeOK
<1>2. \A q \in Procs \ {p} : run[q] = NoRun
  BY DEF KnownInv, Known, Placed
<1>3. ASSUME NEW q \in Procs \ {p} PROVE Settled(run[q], pc[q])'
  <2>1. run'[q] = NoRun /\ pc'[q] \in Stopped
    BY <1>1, <1>2
  <2> QED
    BY <2>1 DEF Settled, Holding, Saving, Loaders, NoRun, Stopped
<1>4. Settled(run[p], pc[p])'
  BY <1>1 DEF Settled, Describes
<1>5. SettledFile'
  BY <1>1 DEF SettledFile, Recorded
<1> QED
  BY <1>3, <1>4, <1>5 DEF SettledInv

\* While p runs alone, only p is in the way of the file's being settled.
LEMMA Alone ==
  ASSUME KnownInv, SerialInv, NEW p \in Procs, pc[p] \notin Stopped
  PROVE  \A q \in Procs \ {p} : pc[q] \in Stopped /\ run[q] = NoRun
BY DEF KnownInv, Known, Placed, SerialInv

LEMMA FileBut ==
  ASSUME SettledInv, NEW p \in Procs, \A q \in Procs \ {p} : run[q] = NoRun
  PROVE  \A n \in Recorded(file.db) :
           n \in unsettled \/ Describes(disk, n, file.db[n].ver) \/ n \in run[p].did \union run[p].busy
<1>1. NoRun.did = {} /\ NoRun.busy = {}
  BY DEF NoRun
<1> QED
  BY <1>1 DEF SettledInv, SettledFile

\* A command that goes on without touching payloads, file or history.
LEMMA SettledKeep ==
  ASSUME TypeOK, KnownInv, SerialInv, SettledInv, NEW p \in Procs, pc[p] \notin Stopped,
         NEW r, NEW s, Keep(p, r, s), UNCHANGED <<file, disk, acked>>,
         r.did = run[p].did, r.busy = run[p].busy, Settled(r, s)
  PROVE  SettledInv'
<1>1. pc' = [pc EXCEPT ![p] = s] /\ run' = [run EXCEPT ![p] = r] /\ UNCHANGED unsettled
  BY DEF Keep, Goto
<1>2. Settled(r, s)'
  BY <1>1 DEF Settled, Describes
<1>3. \A n \in Recorded(file'.db) :
        n \in unsettled' \/ Describes(disk', n, file'.db[n].ver) \/ n \in r.did \union r.busy
  BY <1>1, Alone, FileBut DEF Describes
<1>4. /\ file'.st # "ok" => Recorded(file'.db) = {}
      /\ file'.st \in {"missing", "ok"} => acked' \subseteq Recorded(file'.db)
  BY DEF SettledInv, SettledFile
<1> QED
  BY <1>1, <1>2, <1>3, <1>4, Alone, SettledBy

\* What a command touched before it ended is unsettled.
LEMMA SettledExit ==
  ASSUME TypeOK, KnownInv, SerialInv, SettledInv, NEW p \in Procs, pc[p] \notin Stopped,
         NEW how \in Stopped, Exit(p, how), UNCHANGED <<file, disk, acked>>
  PROVE  SettledInv'
<1>1. /\ pc' = [pc EXCEPT ![p] = how] /\ run' = [run EXCEPT ![p] = NoRun]
      /\ unsettled' = unsettled \union run[p].did \union run[p].busy
  BY DEF Exit, Goto
<1>2. Settled(NoRun, how)'
  BY DEF Settled, Holding, Saving, Loaders, NoRun, Stopped
<1>3. \A n \in Recorded(file'.db) : n \in unsettled' \/ Describes(disk', n, file'.db[n].ver)
  BY <1>1, Alone, FileBut DEF Describes
<1>4. /\ file'.st # "ok" => Recorded(file'.db) = {}
      /\ file'.st \in {"missing", "ok"} => acked' \subseteq Recorded(file'.db)
  BY DEF SettledInv, SettledFile
<1> QED
  BY <1>1, <1>2, <1>3, <1>4, Alone, SettledBy

LEMMA SettledStart ==
  ASSUME Serial, TypeOK, KnownInv, SettledInv, NEW p \in Procs, NEW cmd \in Commands, NEW dry \in BOOLEAN,
         NEW targets \in SUBSET Pkgs, Start(p, cmd, dry, targets)
  PROVE  SettledInv'
<1>1. PICK r : r = [NoRun EXCEPT !.cmd = cmd, !.dry = dry, !.targets = targets]
  OBVIOUS
<1>2. PICK s : s = IF cmd \in {"install-recipe", "system-add"} THEN "plan" ELSE "load"
  OBVIOUS
<1>3. r.cmd = cmd /\ r.did = {} /\ r.busy = {}
  BY <1>1 DEF NoRun
<1>4. /\ run' = [run EXCEPT ![p] = r] /\ pc' = [pc EXCEPT ![p] = s]
      /\ UNCHANGED <<file, disk, unsettled, acked>>
  BY <1>1, <1>2 DEF Start, Goto
<1>5. \A q \in Procs : pc[q] \in Stopped /\ run[q] = NoRun
  BY DEF Start, Running, KnownInv, Known, Placed
<1>6. Settled(r, s)'
  BY <1>2, <1>3 DEF Settled, Holding, Saving, Loaders
<1>7. NoRun.did = {} /\ NoRun.busy = {}
  BY DEF NoRun
<1>8. \A n \in Recorded(file'.db) :
        n \in unsettled' \/ Describes(disk', n, file'.db[n].ver) \/ n \in r.did \union r.busy
  BY <1>4, <1>5, <1>7 DEF Describes, SettledInv, SettledFile
<1>9. /\ file'.st # "ok" => Recorded(file'.db) = {}
      /\ file'.st \in {"missing", "ok"} => acked' \subseteq Recorded(file'.db)
  BY <1>4 DEF SettledInv, SettledFile
<1> QED
  BY <1>4, <1>5, <1>6, <1>8, <1>9, SettledBy

LEMMA SettledLoad ==
  ASSUME TypeOK, KnownInv, SerialInv, SettledInv, NEW p \in Procs, Load(p) PROVE SettledInv'
<1>0. /\ run[p] \in RunType /\ Known(run[p], "load") /\ pc[p] \notin Stopped
      /\ UNCHANGED <<file, disk, acked>>
  BY DEF TypeOK, KnownInv, Load, Stopped
<1>1. PICK r : r = [run[p] EXCEPT !.mem = file.db]
  OBVIOUS
<1>2. PICK s : s = IF r.cmd = "uninstall" THEN "snapshot" ELSE "plan"
  OBVIOUS
<1>3. CASE Exit(p, "error") \/ Exit(p, "ok")
  BY <1>0, <1>3, SettledExit DEF Stopped
<1>4. CASE Loadable(file) /\ Keep(p, r, s) /\ (r.cmd = "upgrade" => Recorded(r.mem) # {})
  <2>1. /\ r.did = {} /\ run[p].did = {} /\ r.busy = {} /\ run[p].busy = {} /\ r.mem = file.db
    BY <1>0, <1>1 DEF RunType, Known, Placed, Extracting
  <2>2. \A n \in Recorded(r.mem) : n \in unsettled \ r.did \/ Describes(disk, n, r.mem[n].ver)
    BY <1>0, <2>1, Alone, FileBut
  <2>3. acked \subseteq Recorded(r.mem)
    BY <1>4, <2>1 DEF SettledInv, SettledFile, Loadable
  <2>4. Settled(r, s)
    BY <1>2, <1>4, <2>1, <2>2, <2>3 DEF Settled
  <2> QED
    BY <1>0, <1>4, <2>1, <2>4, SettledKeep
<1> QED
  BY <1>1, <1>2, <1>3, <1>4 DEF Load

LEMMA SettledPlan ==
  ASSUME TypeOK, KnownInv, SerialInv, SettledInv, NEW p \in Procs, Plan(p) PROVE SettledInv'
<1>0. /\ run[p] \in RunType /\ Known(run[p], "plan") /\ Settled(run[p], "plan") /\ pc[p] \notin Stopped
      /\ UNCHANGED <<file, disk, acked>>
  BY DEF TypeOK, KnownInv, SettledInv, Plan, Stopped
<1>1. PICK idx, order :
        \/ Exit(p, "error")
        \/ Exit(p, "ok")
        \/ /\ AfterPlan(run[p], PlanOf(run[p], idx)) # "ok"
           /\ Keep(p, [run[p] EXCEPT !.idx = idx, !.order = order,
                                         !.todo = IF run[p].dry THEN {} ELSE PlanOf(run[p], idx)],
                   AfterPlan(run[p], PlanOf(run[p], idx)))
  BY DEF Plan
<1>2. PICK plan : plan = PlanOf(run[p], idx)
  OBVIOUS
<1>3. PICK r : r = [run[p] EXCEPT !.idx = idx, !.order = order, !.todo = IF run[p].dry THEN {} ELSE plan]
  OBVIOUS
<1>4. PICK s : s = AfterPlan(run[p], plan)
  OBVIOUS
<1>5. CASE Exit(p, "error") \/ Exit(p, "ok")
  BY <1>0, <1>5, SettledExit DEF Stopped
<1>6. CASE s # "ok" /\ Keep(p, r, s)
  <2>1. /\ r.did = {} /\ run[p].did = {} /\ r.busy = {} /\ run[p].busy = {} /\ r.mem = run[p].mem
        /\ r.cmd = run[p].cmd /\ r.snapped = run[p].snapped /\ r.targets = run[p].targets
    BY <1>0, <1>3 DEF RunType, Known, Placed, Extracting
  <2>2. s = "snapshot" \/ (s = "truncate" /\ r.cmd = "upgrade")
    BY <1>4, <1>6, <2>1 DEF AfterPlan
  <2>3. Holding(r, s) => Holding(run[p], "plan") /\ Dropped(r, s) = Dropped(run[p], "plan")
    BY <2>1, <2>2 DEF Holding, Dropped, Saving, Loaders
  <2>4. Settled(r, s)
    BY <1>0, <2>1, <2>2, <2>3 DEF Settled
  <2> QED
    BY <1>0, <1>6, <2>1, <2>4, SettledKeep
<1> QED
  BY <1>1, <1>2, <1>3, <1>4, <1>5, <1>6

LEMMA SettledSnapshot ==
  ASSUME TypeOK, KnownInv, SerialInv, SettledInv, NEW p \in Procs, Snapshot(p) PROVE SettledInv'
<1>0. /\ run[p] \in RunType /\ Known(run[p], "snapshot") /\ Settled(run[p], "snapshot") /\ pc[p] \notin Stopped
      /\ UNCHANGED <<file, disk, acked>>
  BY DEF TypeOK, KnownInv, SettledInv, Snapshot, Stopped
<1>1. PICK r : r = [run[p] EXCEPT !.snapped = TRUE]
  OBVIOUS
<1>2. /\ r.cmd = run[p].cmd /\ r.did = {} /\ run[p].did = {} /\ r.busy = {} /\ run[p].busy = {}
      /\ r.snapped /\ r.mem = run[p].mem /\ r.targets = run[p].targets
  BY <1>0, <1>1 DEF RunType, Known, Placed, Extracting
<1>3. CASE r.cmd = "uninstall" /\ Keep(p, [r EXCEPT !.mem = Remove(@, r.targets)], "truncate")
  <2>1. PICK u : u = [r EXCEPT !.mem = Remove(@, r.targets)]
    OBVIOUS
  <2>2. /\ u.cmd = "uninstall" /\ u.did = {} /\ u.busy = {} /\ u.snapped /\ u.targets = r.targets
        /\ u.mem = Remove(r.mem, r.targets)
    BY <1>0, <1>1, <1>2, <1>3, <2>1 DEF RunType
  <2>3. \A n \in Recorded(u.mem) : n \in Recorded(r.mem) /\ u.mem[n] = r.mem[n]
    BY <2>2 DEF Recorded, Remove, NoRecord
  <2>4. Recorded(r.mem) \ r.targets \subseteq Recorded(u.mem)
    BY <2>2 DEF Recorded, Remove
  <2>5. Holding(run[p], "snapshot") /\ Dropped(run[p], "snapshot") = {} /\ Dropped(u, "truncate") = u.targets
    BY <1>2, <1>3, <2>2 DEF Holding, Dropped, Loaders, Saving
  <2>6. Settled(u, "truncate")
    BY <1>0, <1>2, <2>2, <2>3, <2>4, <2>5 DEF Settled
  <2> QED
    BY <1>0, <1>2, <1>3, <2>1, <2>2, <2>6, SettledKeep
<1>4. CASE r.cmd # "uninstall" /\ Keep(p, r, "next")
  <2>1. Holding(r, "next") => Holding(run[p], "snapshot")
    BY <1>2 DEF Holding, Loaders, Saving
  <2>2. Dropped(r, "next") = {} /\ Dropped(run[p], "snapshot") = {}
    BY DEF Dropped, Saving
  <2>3. Settled(r, "next")
    BY <1>0, <1>2, <2>1, <2>2 DEF Settled
  <2> QED
    BY <1>0, <1>2, <1>4, <2>3, SettledKeep
<1> QED
  BY <1>1, <1>3, <1>4 DEF Snapshot

LEMMA SettledBegin ==
  ASSUME TypeOK, KnownInv, SerialInv, SettledInv, NEW p \in Procs, NEW n \in Pkgs, BeginExtract(p, n)
  PROVE  SettledInv'
<1>0. /\ run[p] \in RunType /\ Known(run[p], "next") /\ Settled(run[p], "next") /\ pc[p] \notin Stopped
      /\ UNCHANGED <<file, acked, unsettled>>
  BY DEF TypeOK, KnownInv, SettledInv, BeginExtract, Stopped
<1>1. PICK r : r = [run[p] EXCEPT !.busy = {n}, !.sole = TRUE]
  OBVIOUS
<1>2. /\ r.cmd = run[p].cmd /\ r.did = run[p].did /\ run[p].busy = {} /\ r.busy = {n} /\ r.sole
      /\ r.snapped = run[p].snapped /\ r.mem = run[p].mem /\ r.idx = run[p].idx /\ r.targets = run[p].targets
  BY <1>0, <1>1 DEF RunType, Known, Extracting
<1>3. n \notin run[p].did
  BY <1>0 DEF BeginExtract, IsNext, Known, Extracting
<1>4. run' = [run EXCEPT ![p] = r] /\ pc' = [pc EXCEPT ![p] = "extracting"]
  <2> DEFINE others == {q \in Procs \ {p} : n \in run[q].busy}
  <2>1. others = {}
    BY <1>0, Alone DEF NoRun
  <2>2. run' = [q \in Procs |->
                  IF q = p THEN [run[p] EXCEPT !.busy = {n}, !.sole = others = {}]
                  ELSE IF q \in others THEN [run[q] EXCEPT !.sole = FALSE]
                  ELSE run[q]]
    BY DEF BeginExtract
  <2>3. (others = {}) = TRUE
    BY <2>1
  <2> HIDE DEF others
  <2>4. run' = [q \in Procs |-> IF q = p THEN r ELSE run[q]]
    BY <1>1, <2>1, <2>2, <2>3
  <2> QED
    BY <2>4 DEF TypeOK, BeginExtract, Goto
<1>5. \A m \in Pkgs \ {n} : disk'[m] = disk[m]
  BY DEF BeginExtract, TypeOK
<1>6. run[p].did \subseteq Pkgs /\ \A db : Recorded(db) \subseteq Pkgs
  BY <1>0 DEF RunType, Recorded
<1>7. Settled(r, "extracting")'
  <2>1. \A m \in r.did : Describes(disk', m, r.idx[m])
    BY <1>0, <1>2, <1>3, <1>5, <1>6 DEF Settled, Describes
  <2>2. Holding(r, "extracting") => Holding(run[p], "next")
    BY <1>2 DEF Holding, Loaders, Saving
  <2>3. Holding(r, "extracting") => \A m \in Recorded(r.mem) :
          m \in unsettled' \ r.did \/ m \in r.busy \/ Describes(disk', m, r.mem[m].ver)
    BY <1>0, <1>2, <1>5, <1>6, <2>2 DEF Settled, Describes
  <2>4. Dropped(r, "extracting") = {} /\ Dropped(run[p], "next") = {}
    BY DEF Dropped, Saving
  <2>5. Holding(r, "extracting") => acked' \ Dropped(r, "extracting") \subseteq Recorded(r.mem)
    BY <1>0, <1>2, <2>2, <2>4 DEF Settled
  <2> QED
    BY <1>2, <2>1, <2>3, <2>5 DEF Settled
<1>8. \A m \in Recorded(file'.db) :
        m \in unsettled' \/ Describes(disk', m, file'.db[m].ver) \/ m \in r.did \union r.busy
  BY <1>0, <1>2, <1>5, <1>6, Alone, FileBut DEF Describes
<1>9. /\ file'.st # "ok" => Recorded(file'.db) = {}
      /\ file'.st \in {"missing", "ok"} => acked' \subseteq Recorded(file'.db)
  BY <1>0 DEF SettledInv, SettledFile
<1> QED
  BY <1>0, <1>4, <1>7, <1>8, <1>9, Alone, SettledBy

LEMMA SettledEnd ==
  ASSUME TypeOK, KnownInv, SerialInv, SettledInv, NEW p \in Procs, EndExtract(p) PROVE SettledInv'
<1>0. /\ run[p] \in RunType /\ Known(run[p], "extracting") /\ Settled(run[p], "extracting") /\ pc[p] \notin Stopped
      /\ UNCHANGED <<file, acked>>
  BY DEF TypeOK, KnownInv, SettledInv, EndExtract, Stopped
<1>1. PICK n \in run[p].todo : run[p].busy = {n}
  BY <1>0 DEF Known, Extracting
<1>2. PICK v : v = run[p].idx[n]
  OBVIOUS
<1>3. /\ n \in Pkgs /\ n \notin run[p].did /\ v # 0 /\ run[p].sole
      /\ run[p].did \subseteq Pkgs /\ run[p].mem \in Db /\ \A db : Recorded(db) \subseteq Pkgs
  BY <1>0, <1>1, <1>2 DEF RunType, Known, Extracting, Settled, Recorded
<1>4. disk' = [disk EXCEPT ![n] = [ver |-> v, torn |-> FALSE]]
  BY <1>1, <1>2, <1>3 DEF EndExtract
<1>5. Describes(disk', n, v) /\ \A m \in Pkgs \ {n} : disk'[m] = disk[m]
  BY <1>3, <1>4 DEF Describes, TypeOK
<1>6. PICK done : done = [run[p] EXCEPT !.busy = {}, !.todo = @ \ {n}, !.did = @ \union {n}]
  OBVIOUS
<1>7. PICK marked : marked = [done EXCEPT !.mem = MarkInstalled(@, n, v)]
  OBVIOUS
<1>8. PICK r, s :
        /\ Keep(p, r, s)
        /\ \/ s = "reload" /\ r = done /\ run[p].cmd = "install-recipe"
           \/ s = "next" /\ r = done /\ run[p].cmd = "system-add"
           \/ s = "next" /\ r = marked /\ run[p].cmd \notin {"install-recipe", "system-add"}
  <2>1. \/ run[p].cmd = "install-recipe" /\ Keep(p, done, "reload")
        \/ run[p].cmd = "system-add" /\ Keep(p, done, "next")
        \/ run[p].cmd \notin {"install-recipe", "system-add"} /\ Keep(p, marked, "next")
    BY <1>1, <1>2, <1>6, <1>7 DEF EndExtract
  <2> QED
    BY <2>1
<1>9. /\ r.cmd = run[p].cmd /\ r.did = run[p].did \union {n} /\ r.busy = {} /\ r.idx = run[p].idx
      /\ r.snapped = run[p].snapped /\ r.targets = run[p].targets
      /\ r.cmd \notin {"install-recipe", "system-add"} => r.mem = MarkInstalled(run[p].mem, n, v)
  <2>1. /\ done.cmd = run[p].cmd /\ done.did = run[p].did \union {n} /\ done.busy = {} /\ done.idx = run[p].idx
        /\ done.snapped = run[p].snapped /\ done.targets = run[p].targets
    BY <1>0, <1>6 DEF RunType
  <2>2. /\ marked.cmd = run[p].cmd /\ marked.did = run[p].did \union {n} /\ marked.busy = {} /\ marked.idx = run[p].idx
        /\ marked.snapped = run[p].snapped /\ marked.targets = run[p].targets
        /\ marked.mem = MarkInstalled(run[p].mem, n, v)
    BY <1>0, <1>6, <1>7 DEF RunType
  <2> QED
    BY <1>8, <2>1, <2>2
<1>10. pc' = [pc EXCEPT ![p] = s] /\ run' = [run EXCEPT ![p] = r] /\ UNCHANGED unsettled
  BY <1>8 DEF Keep, Goto
<1>11. Settled(r, s)'
  <2>1. \A m \in r.did : Describes(disk', m, r.idx[m])
    BY <1>0, <1>2, <1>3, <1>5, <1>9 DEF Settled, Describes
  <2>2. ASSUME Holding(r, s)
        PROVE  /\ \A m \in Recorded(r.mem) :
                    m \in unsettled' \ r.did \/ m \in r.busy \/ Describes(disk', m, r.mem[m].ver)
               /\ acked' \ Dropped(r, s) \subseteq Recorded(r.mem)
    <3>1. r.cmd \in Loaders /\ s = "next" /\ r.mem = MarkInstalled(run[p].mem, n, v)
      BY <1>8, <1>9, <2>2 DEF Holding, Saving, Loaders
    <3>2. /\ r.mem[n].ver = v
          /\ \A m \in Pkgs \ {n} : r.mem[m] = run[p].mem[m]
      BY <1>3, <3>1 DEF MarkInstalled, Db, Record
    <3>3. Recorded(r.mem) = Recorded(run[p].mem) \union {n}
      BY <1>3, <3>2 DEF Recorded
    <3>4. Holding(run[p], "extracting") /\ Dropped(run[p], "extracting") = {} /\ Dropped(r, s) = {}
      BY <1>9, <3>1 DEF Holding, Dropped, Saving
    <3>5. ASSUME NEW m \in Recorded(r.mem)
          PROVE  m \in unsettled' \ r.did \/ Describes(disk', m, r.mem[m].ver)
      <4>1. CASE m = n
        BY <1>5, <3>2, <4>1
      <4>2. CASE m # n
        <5>1. m \in Pkgs /\ m \in Recorded(run[p].mem) /\ m \notin run[p].busy
          BY <1>1, <1>3, <3>3, <4>2
        <5>2. m \in unsettled \ run[p].did \/ Describes(disk, m, run[p].mem[m].ver)
          BY <1>0, <3>4, <5>1 DEF Settled
        <5> QED
          BY <1>5, <1>9, <1>10, <3>2, <4>2, <5>1, <5>2 DEF Describes
      <4> QED
        BY <4>1, <4>2
    <3>6. acked \subseteq Recorded(run[p].mem)
      BY <1>0, <3>4 DEF Settled
    <3> QED
      BY <1>0, <3>3, <3>4, <3>5, <3>6
  <2>3. s \in {"reload", "next"}
    BY <1>8
  <2> QED
    BY <2>1, <2>2, <2>3 DEF Settled
<1>12. \A m \in Recorded(file'.db) :
         m \in unsettled' \/ Describes(disk', m, file'.db[m].ver) \/ m \in r.did \union r.busy
  BY <1>0, <1>1, <1>3, <1>5, <1>9, <1>10, Alone, FileBut DEF Describes
<1>13. /\ file'.st # "ok" => Recorded(file'.db) = {}
       /\ file'.st \in {"missing", "ok"} => acked' \subseteq Recorded(file'.db)
  BY <1>0 DEF SettledInv, SettledFile
<1> QED
  BY <1>0, <1>10, <1>11, <1>12, <1>13, Alone, SettledBy

LEMMA SettledAll ==
  ASSUME TypeOK, KnownInv, RecipeInv, SerialInv, SettledInv, NEW p \in Procs, AllExtracted(p) PROVE SettledInv'
<1>0. /\ run[p] \in RunType /\ Known(run[p], "next") /\ Settled(run[p], "next") /\ pc[p] \notin Stopped
      /\ UNCHANGED <<file, disk, acked>>
  BY DEF TypeOK, KnownInv, SettledInv, AllExtracted, Stopped
<1>1. CASE run[p].cmd = "system-add" /\ Exit(p, "ok")
  BY <1>0, <1>1, SettledExit DEF Stopped
<1>2. CASE run[p].cmd # "system-add" /\ Keep(p, run[p], "truncate")
  <2>1. run[p].cmd \in Loaders \ {"uninstall"} /\ run[p].snapped
    <3>1. run[p].cmd # "install-recipe"
      BY DEF AllExtracted, RecipeInv
    <3> QED
      BY <1>0, <1>2, <3>1 DEF Known, Placed, Stopped, AllCommands, Loaders
  <2>2. Holding(run[p], "next") /\ Dropped(run[p], "next") = {} /\ Dropped(run[p], "truncate") = {}
    BY <2>1 DEF Holding, Dropped
  <2>3. Settled(run[p], "truncate")
    BY <1>0, <2>1, <2>2 DEF Settled
  <2> QED
    BY <1>0, <1>2, <2>3, SettledKeep
<1> QED
  BY <1>1, <1>2 DEF AllExtracted

LEMMA SettledReload ==
  ASSUME TypeOK, KnownInv, SerialInv, SettledInv, NEW p \in Procs, Reload(p) PROVE SettledInv'
<1>0. /\ run[p] \in RunType /\ Known(run[p], "reload") /\ Settled(run[p], "reload") /\ pc[p] \notin Stopped
      /\ UNCHANGED <<file, disk, acked>> /\ file.db \in Db
  BY DEF TypeOK, KnownInv, SettledInv, Reload, Stopped
<1>1. PICK n \in Pkgs : run[p].did = {n} /\ run[p].cmd = "install-recipe"
  BY <1>0 DEF Known, Placed
<1>2. PICK r : r = [run[p] EXCEPT !.mem = MarkInstalled(file.db, n, run[p].idx[n])]
  OBVIOUS
<1>3. CASE Exit(p, "error")
  BY <1>0, <1>3, SettledExit DEF Stopped
<1>4. CASE Loadable(file) /\ Keep(p, r, "truncate")
  <2>1. /\ r.cmd = "install-recipe" /\ r.did = {n} /\ r.busy = {} /\ run[p].busy = {} /\ r.idx = run[p].idx
        /\ r.snapped /\ r.mem = MarkInstalled(file.db, n, run[p].idx[n]) /\ run[p].idx[n] # 0
    BY <1>0, <1>1, <1>2 DEF RunType, Known, Extracting, Placed
  <2>2. /\ r.mem[n].ver = r.idx[n]
        /\ \A m \in Pkgs \ {n} : r.mem[m] = file.db[m]
    BY <1>0, <2>1 DEF MarkInstalled, Db, Record
  <2>3. Recorded(r.mem) = Recorded(file.db) \union {n}
    BY <2>1, <2>2 DEF Recorded
  <2>4. Describes(disk, n, r.idx[n])
    BY <1>0, <1>1, <2>1 DEF Settled
  <2>5. ASSUME NEW m \in Recorded(r.mem) PROVE m \in unsettled \ r.did \/ Describes(disk, m, r.mem[m].ver)
    <3>1. CASE m = n
      BY <2>2, <2>4, <3>1
    <3>2. CASE m # n
      <4>1. m \in Recorded(file.db) /\ m \in Pkgs
        BY <2>3, <3>2 DEF Recorded
      <4>2. m \in unsettled \/ Describes(disk, m, file.db[m].ver)
        BY <1>0, <1>1, <2>1, <3>2, <4>1, Alone, FileBut
      <4> QED
        BY <2>1, <2>2, <3>2, <4>1, <4>2
    <3> QED
      BY <3>1, <3>2
  <2>6. acked \subseteq Recorded(r.mem)
    BY <1>4, <2>3 DEF SettledInv, SettledFile, Loadable
  <2>7. Settled(r, "truncate")
    BY <2>1, <2>4, <2>5, <2>6 DEF Settled
  <2> QED
    BY <1>0, <1>1, <1>4, <2>1, <2>7, SettledKeep
<1> QED
  BY <1>1, <1>2, <1>3, <1>4 DEF Reload

LEMMA SettledTruncate ==
  ASSUME TypeOK, KnownInv, SerialInv, SettledInv, NEW p \in Procs, Truncate(p) PROVE SettledInv'
<1>0. /\ Settled(run[p], "truncate") /\ pc[p] \notin Stopped /\ UNCHANGED <<disk, acked, unsettled>>
      /\ file' = NoText("empty") /\ pc' = [pc EXCEPT ![p] = "write"] /\ run' = [run EXCEPT ![p] = run[p]]
  BY DEF SettledInv, Truncate, Stopped, Keep, Goto
<1>1. PICK r : r = run[p]
  OBVIOUS
<1>2. Settled(r, "write")'
  <2>1. Dropped(r, "write") = Dropped(r, "truncate") /\ Holding(r, "truncate")
    BY DEF Dropped, Saving, Holding
  <2> QED
    BY <1>0, <1>1, <2>1 DEF Settled, Describes
<1>3. file'.st = "empty" /\ Recorded(file'.db) = {}
  BY <1>0 DEF NoText, EmptyDb, NoRecord, Recorded
<1> QED
  BY <1>0, <1>1, <1>2, <1>3, Alone, SettledBy

\* What a save puts into the file while nobody else runs.
LEMMA SerialWrites ==
  ASSUME SerialInv, NEW p \in Procs, Write(p)
  PROVE  file' = FileOf(run[p].mem)
BY DEF SerialInv, Write, Overlay

LEMMA SettledWrite ==
  ASSUME TypeOK, KnownInv, SerialInv, SettledInv, NEW p \in Procs, Write(p) PROVE SettledInv'
<1>0. /\ Known(run[p], "write") /\ Settled(run[p], "write") /\ pc[p] \notin Stopped /\ UNCHANGED disk
      /\ pc' = [pc EXCEPT ![p] = "ok"] /\ run' = [run EXCEPT ![p] = NoRun]
      /\ unsettled' = unsettled \ run[p].did /\ run[p] \in RunType
  BY DEF KnownInv, SettledInv, Write, Stopped, Goto, TypeOK
<1>1. file'.st = "ok" /\ file'.db = run[p].mem
  BY SerialWrites DEF FileOf
<1>2. Holding(run[p], "write") /\ run[p].busy = {}
  BY <1>0 DEF Holding, Saving, Known, Extracting
<1>3. \A n \in Recorded(file'.db) : n \in unsettled' \/ Describes(disk', n, file'.db[n].ver)
  BY <1>0, <1>1, <1>2 DEF Settled, Describes
<1>4. acked' \subseteq Recorded(file'.db)
  <2>1. run[p].did \subseteq Recorded(run[p].mem)
    BY <1>0, <1>2 DEF Known, Extracting, Recorded, RunType
  <2>2. acked \ Dropped(run[p], "write") \subseteq Recorded(run[p].mem)
    BY <1>0, <1>2 DEF Settled
  <2>3. Dropped(run[p], "write") = IF run[p].cmd = "uninstall" THEN run[p].targets ELSE {}
    BY DEF Dropped, Saving
  <2> QED
    BY <1>1, <2>1, <2>2, <2>3 DEF Write
<1>5. Settled(NoRun, "ok")'
  BY DEF Settled, Holding, Saving, Loaders, NoRun
<1> QED
  BY <1>0, <1>1, <1>3, <1>4, <1>5, Alone, SettledBy

LEMMA SettledStep ==
  Serial /\ TypeOK /\ KnownInv /\ RecipeInv /\ SerialInv /\ SettledInv /\ [Next]_vars => SettledInv'
<1> SUFFICES ASSUME Serial, TypeOK, KnownInv, RecipeInv, SerialInv, SettledInv, [Next]_vars PROVE SettledInv'
  OBVIOUS
<1>1. ASSUME NEW p \in Procs, NotFound(p) \/ Fail(p) \/ Interrupt(p) PROVE SettledInv'
  <2>1. PICK how \in Stopped : Exit(p, how)
    BY <1>1 DEF NotFound, Fail, Interrupt, Stopped
  <2>2. pc[p] \notin Stopped /\ UNCHANGED <<file, disk, acked>>
    BY <1>1 DEF NotFound, Fail, Interrupt, Stopped
  <2> QED
    BY <2>1, <2>2, SettledExit
<1>2. CASE (\E n \in Pkgs : NewRelease(n)) \/ UNCHANGED vars
  BY <1>2 DEF NewRelease, vars, SettledInv, SettledFile, Settled, Describes
<1> QED
  BY <1>1, <1>2, SettledStart, SettledLoad, SettledPlan, SettledSnapshot, SettledBegin, SettledEnd,
     SettledAll, SettledReload, SettledTruncate, SettledWrite DEF Next, Step

LEMMA SettledInit == Init => SettledInv
<1> SUFFICES ASSUME Init PROVE SettledInv
  OBVIOUS
<1>1. ASSUME NEW p \in Procs PROVE Settled(run[p], pc[p])
  <2>1. run[p] = NoRun /\ pc[p] \in Stopped
    BY DEF Init, Stopped
  <2> QED
    BY <2>1 DEF Settled, Holding, Saving, Loaders, NoRun, Stopped
<1>2. SettledFile
  <2>1. PICK names \in SUBSET Pkgs :
          /\ file = IF names = {} THEN NoText("missing")
                    ELSE FileOf([n \in Pkgs |->
                           IF n \in names THEN [ver |-> 1, pin |-> n \in Pinned]
                                          ELSE NoRecord])
          /\ disk = [n \in Pkgs |-> [ver |-> IF n \in names THEN 1 ELSE 0,
                                     torn |-> FALSE]]
          /\ acked = {}
    BY DEF Init
  <2>2. CASE names = {}
    BY <2>1, <2>2 DEF SettledFile, NoText, EmptyDb, NoRecord, Recorded
  <2>3. CASE names # {}
    <3>1. PICK db : db = [n \in Pkgs |-> IF n \in names THEN [ver |-> 1, pin |-> n \in Pinned] ELSE NoRecord]
      OBVIOUS
    <3>2. file.st = "ok" /\ file.db = db
      BY <2>1, <2>3, <3>1 DEF FileOf
    <3>3. ASSUME NEW n \in Recorded(db) PROVE Describes(disk, n, db[n].ver)
      <4>1. n \in Pkgs
        BY DEF Recorded
      <4>2. n \in names
        BY <3>1, <4>1 DEF Recorded, NoRecord
      <4> QED
        BY <2>1, <3>1, <4>1, <4>2 DEF Describes
    <3> QED
      BY <2>1, <3>2, <3>3 DEF SettledFile
  <2> QED
    BY <2>2, <2>3
<1> QED
  BY <1>1, <1>2 DEF SettledInv

\* With one command at a time, between commands every entry describes the
\* payload, but for packages an unfinished or unrecorded command has touched.
THEOREM EntriesDescribe == Serial /\ Spec => []RestConsistent
<1> SUFFICES ASSUME Serial PROVE Spec => []RestConsistent
  OBVIOUS
<1>1. KnownInv /\ SettledInv => RestConsistent
  <2> SUFFICES ASSUME KnownInv, SettledInv, Running = {}, NEW n \in Recorded(file.db) \ unsettled
               PROVE  disk[n] = [ver |-> file.db[n].ver, torn |-> FALSE]
    BY DEF RestConsistent
  <2>1. \A q \in Procs : run[q].did = {} /\ run[q].busy = {}
    BY DEF KnownInv, Known, Placed, Running, NoRun
  <2> QED
    BY <2>1 DEF SettledInv, SettledFile, Describes
<1> QED
  BY <1>1, SerialInit, SerialStep, RecipeInit, RecipeStep, KnownInit, KnownStep, SettledInit, SettledStep,
     TypeCorrect, PTL DEF Spec

\* With one command at a time, what was reported installed stays recorded until
\* it is uninstalled, whatever fails or is interrupted in between.
THEOREM ReportedStays == Serial /\ Spec => []AckedStayRecorded
<1> SUFFICES ASSUME Serial PROVE Spec => []AckedStayRecorded
  OBVIOUS
<1>1. SettledInv => AckedStayRecorded
  BY DEF SettledInv, SettledFile, AckedStayRecorded
<1> QED
  BY <1>1, SerialInit, SerialStep, RecipeInit, RecipeStep, KnownInit, KnownStep, SettledInit, SettledStep,
     TypeCorrect, PTL DEF Spec

\* With one command at a time, nothing is changed before the snapshot.
THEOREM SnapshotFirst == Serial /\ Spec => []SnapshotBeforeChange
<1> SUFFICES ASSUME Serial PROVE Spec => []SnapshotBeforeChange
  OBVIOUS
<1>1. KnownInv /\ SettledInv => SnapshotBeforeChange
  BY DEF KnownInv, Known, Placed, Extracting, SettledInv, Settled, SnapshotBeforeChange
<1> QED
  BY <1>1, SerialInit, SerialStep, RecipeInit, RecipeStep, KnownInit, KnownStep, SettledInit, SettledStep,
     TypeCorrect, PTL DEF Spec

\* Only a save ends a command that is about to write.
LEMMA EndsByWriting ==
  ASSUME TypeOK, Next, NEW p \in Procs, pc[p] = "write", pc'[p] = "ok"
  PROVE  Write(p)
<1>1. ASSUME NEW q \in Procs, q # p, Step(q) \/ Fail(q) \/ Interrupt(q) PROVE FALSE
  <2>1. PICK s : pc' = [pc EXCEPT ![q] = s]
    BY <1>1, StepFrame
  <2> QED
    BY <1>1, <2>1 DEF TypeOK
<1>2. ASSUME NEW q \in Procs, NEW cmd \in Commands, NEW dry \in BOOLEAN, NEW targets \in SUBSET Pkgs,
             Start(q, cmd, dry, targets)
      PROVE  FALSE
  <2>1. PICK s : pc' = [pc EXCEPT ![q] = s] /\ pc[q] \in Stopped
    BY <1>2 DEF Start, Goto
  <2> QED
    BY <2>1 DEF TypeOK, Stopped
<1>3. ASSUME Fail(p) \/ Interrupt(p) PROVE FALSE
  BY <1>3 DEF Fail, Interrupt, Exit, Goto, TypeOK
<1>4. ASSUME NEW n \in Pkgs, NewRelease(n) PROVE FALSE
  BY <1>4 DEF NewRelease
<1>5. Step(p)
  BY <1>1, <1>2, <1>3, <1>4 DEF Next
<1> QED
  BY <1>5 DEF Step, Load, Plan, Snapshot, Reload, NotFound, BeginExtract, EndExtract, AllExtracted, Truncate

\* With one command at a time, a complete upgrade brings every entry that is
\* not pinned to its index, whatever earlier commands left.
THEOREM UpgradesReach == Serial /\ Spec => UpgradeReachesIndex
<1> SUFFICES ASSUME Serial PROVE Spec => UpgradeReachesIndex
  OBVIOUS
<1> DEFINE Reaches ==
      \A p \in Procs :
        (/\ pc[p] = "write" /\ pc'[p] = "ok"
         /\ run[p].cmd = "upgrade" /\ ~run[p].dry /\ run[p].targets = Pkgs)
        => \A n \in Recorded(file'.db) :
             (~file'.db[n].pin /\ run[p].idx[n] # 0)
               => /\ file'.db[n].ver = run[p].idx[n]
                  /\ n \notin unsettled' => disk'[n].ver = run[p].idx[n]
<1>1. TypeOK /\ KnownInv /\ SerialInv /\ SettledInv /\ [Next]_vars => [Reaches]_vars
  <2> SUFFICES ASSUME TypeOK, KnownInv, SerialInv, SettledInv, Next, NEW p \in Procs,
                      pc[p] = "write", pc'[p] = "ok",
                      run[p].cmd = "upgrade", ~run[p].dry, run[p].targets = Pkgs,
                      NEW n \in Recorded(file'.db), ~file'.db[n].pin, run[p].idx[n] # 0
               PROVE  /\ file'.db[n].ver = run[p].idx[n]
                      /\ n \notin unsettled' => disk'[n].ver = run[p].idx[n]
    OBVIOUS
  <2>1. Write(p) /\ Known(run[p], "write") /\ Settled(run[p], "write")
    BY EndsByWriting DEF KnownInv, SettledInv
  <2>2. file'.db = run[p].mem /\ disk' = disk /\ unsettled' = unsettled \ run[p].did
    <3>1. file' = FileOf(run[p].mem)
      BY <2>1, SerialWrites
    <3>2. disk' = disk /\ unsettled' = unsettled \ run[p].did
      BY <2>1 DEF Write
    <3> QED
      BY <3>1, <3>2 DEF FileOf
  <2>3. n \in Pkgs /\ UpgradePlan(run[p], run[p].idx) = {}
    BY <2>1 DEF Known, Upgraded, Saving, Planned, Recorded
  <2>4. run[p].mem[n].ver = run[p].idx[n]
    BY <2>2, <2>3 DEF UpgradePlan
  <2>5. n \in unsettled \ run[p].did \/ Describes(disk, n, run[p].mem[n].ver)
    BY <2>1, <2>2 DEF Settled, Known, Extracting, Holding, Saving
  <2> QED
    BY <2>2, <2>4, <2>5 DEF Describes
<1> QED
  BY <1>1, SerialInit, SerialStep, RecipeInit, RecipeStep, KnownInit, KnownStep, SettledInit, SettledStep,
     TypeCorrect, PTL DEF Spec, UpgradeReachesIndex
=============================================================================
