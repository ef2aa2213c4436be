-------------------------- MODULE OilRegistryProofs --------------------------
(***************************************************************************)
(* What oil's commands are answered with by the caches they share, for any *)
(* number of commands, taps, publications and faults.                      *)
(***************************************************************************)
EXTENDS OilRegistry, FiniteSetTheorems, SequenceTheorems, TLAPS

(* Control                                                                 *)

\* Which command is where, and when its threads are there.
ControlInv ==
  \A p \in Procs :
    /\ run[p].pc # "idle" => run[p].kind \in Kinds
    /\ run[p].pc \in {"remove", "unlink"} => run[p].kind = "update"
    /\ run[p].pc \in {"check", "read", "fetch", "write"} => run[p].kind \in {"load", "update"}
    /\ run[p].pc \in {"save", "list"} => run[p].kind \in {"add", "remove"}
    /\ run[p].kind \in {"add", "remove"} => run[p].tap \in Taps
    /\ run[p].pc \in {"remove", "unlink", "check", "read", "fetch"} => run[p].part = 0
    /\ run[p].pc = "write" => run[p].part < Parts
    /\ run[p].pc = "join" => run[p].kind \in Loads
    /\ \A t \in Taps :
         /\ run[p].pc # "join" => thread[p][t].pc \in Ended
         /\ run[p].pc \notin {"join", "done"} => thread[p][t].pc = "no"

\* A command that is alone is.
AloneInv == \A p, q \in Procs : run[p].alone /\ p # q => ~Busy(q)

(* Answers                                                                 *)

\* An index of both repositories that they have published.
Good(v) == \A r \in Repos : 0 < v[r] /\ v[r] <= published[r]

\* An index that a tap with the cache k has published.
From(of, k) == of.tap \in Taps /\ Key[of.tap] = k /\ 0 < of.v /\ of.v <= published[of.tap]

\* What is in the cache, and what p has got.
ApkGood == \A i \in 1..Len(apk) : apk[i] = Unwritten \/ Good(apk[i])

Got(p) ==
  /\ \A r \in Repos : run[p].got[r] <= published[r]
  /\ \/ run[p].pc = "write"
     \/ run[p].kind \in {"load", "update"} /\ run[p].pc \in {"taps", "join"}
     \/ Answers(p, {"load", "update"})
     => Good(run[p].got)

GotInv == ApkGood /\ \A p \in Procs : Got(p)

TapInv ==
  /\ \A k \in Keys : caches[k].ok => From(caches[k].of, k)
  /\ \A p \in Procs, t \in Taps :
       /\ thread[p][t].pc \in {"create", "write"} => thread[p][t].of.tap = t
       /\ thread[p][t].pc \in {"create", "write", "done"} => From(thread[p][t].of, Key[t])

(* Updates                                                                 *)

\* No index is older than what an update that ran alone has got.
NotBehind(v) == \A r \in Repos : v[r] = 0 \/ acked[r] <= v[r]

\* What p has seen: nothing older than what is acknowledged, and, alone in an
\* update, nothing older than what was published when it started.
Seer(p) ==
  /\ Busy(p) => NotBehind(run[p].got)
  /\ Busy(p) /\ run[p].kind = "load" => \A r \in Repos : run[p].floor[r] <= acked[r]
  /\ run[p].kind = "update" => \A r \in Repos : run[p].floor[r] <= published[r]
  /\ Answers(p, {"load"}) => \A r \in Repos : run[p].floor[r] <= run[p].got[r]
  /\ run[p].alone /\ run[p].kind = "update" =>
       /\ run[p].pc = "check" => Apk \notin present
       /\ run[p].pc # "read"
       /\ Busy(p) \/ Answers(p, {"update"}) =>
            \A r \in Repos : run[p].got[r] = 0 \/ run[p].floor[r] <= run[p].got[r]
       /\ run[p].pc \in {"write", "taps", "join"} =>
            \A i \in 1..Len(apk) : apk[i] \in {Unwritten, run[p].got}

SeenFiles ==
  /\ \A r \in Repos : acked[r] <= published[r]
  /\ \A i \in 1..Len(apk) : NotBehind(apk[i])

SeenInv == SeenFiles /\ \A p \in Procs : Seer(p)

\* No other tap that p knows has the cache of t.
Sole(p, t) == ~\E u \in run[p].known \ {t} : Key[u] = Key[t]

Updates == {"update", "tap-update"}

\* p waits for the threads it has started, or has been answered by them.
Joined(p) == run[p].pc = "join" \/ Answers(p, Loads)

Mender(p) ==
  /\ Joined(p) => \A t \in Taps : thread[p][t].pc = "no" <=> t \notin run[p].known
  /\ run[p].kind # "load" => \A t \in Taps : thread[p][t].pc \notin {"check", "read", "failed"}
  /\ run[p].alone /\ run[p].kind \in Updates /\ Joined(p) =>
       \A t \in run[p].known : Sole(p, t) =>
         /\ thread[p][t].pc = "write" => ~caches[Key[t]].ok
         /\ thread[p][t].pc = "done" => caches[Key[t]].ok /\ caches[Key[t]].of.tap = t

MendInv == \A p \in Procs : Mender(p)

(* The list of taps                                                        *)

KeptInv ==
  /\ TapsKept
  /\ \A p \in Procs : run[p].alone =>
       /\ run[p].kind = "remove" /\ Busy(p) => run[p].tap \notin kept
       /\ run[p].pc \in {"save", "list"} =>
            /\ kept \subseteq run[p].known
            /\ run[p].kind = "add" => run[p].tap \in run[p].known
       /\ run[p].pc = "list" => list.taps = {} /\ List \in present

-----------------------------------------------------------------------------
(* What the actions do to the commands                                     *)

\* The commands other than p go on as they were, if no longer alone.
Aside(p) ==
  \A q \in Procs \ {p} :
    /\ run'[q].pc = run[q].pc /\ run'[q].kind = run[q].kind /\ run'[q].tap = run[q].tap
    /\ run'[q].got = run[q].got /\ run'[q].known = run[q].known /\ run'[q].part = run[q].part /\ run'[q].floor = run[q].floor
    /\ run'[q].result = run[q].result /\ (run'[q].alone => run[q].alone)

\* p is the command it was, at another place.
Moved(p, pc, result) ==
  /\ run' \in [Procs -> Runs] /\ Aside(p)
  /\ run'[p].pc = pc /\ run'[p].result = result
  /\ run'[p].kind = run[p].kind /\ run'[p].tap = run[p].tap /\ run'[p].floor = run[p].floor
  /\ run'[p].alone = run[p].alone

LEMMA NoRunIs ==
  /\ NoRun \in Runs /\ NoRun.result = "none" /\ NoRun.got = Unwritten /\ NoRun.part = 0
  /\ NoRun.pc = "idle" /\ NoRun.kind = "none" /\ NoRun.alone = FALSE
BY DEF NoRun, Runs, Pcs, Parts, Unwritten, Index

LEMMA IndexTypes == Unwritten \in Index /\ \A r \in Repos : Unwritten[r] = 0
BY DEF Unwritten, Index

\* The run of p becomes r.
LEMMA Becomes ==
  ASSUME run \in [Procs -> Runs], NEW p \in Procs, NEW r \in Runs, run' = [run EXCEPT ![p] = r]
  PROVE  run' \in [Procs -> Runs] /\ Aside(p) /\ run'[p] = r
BY DEF Aside

LEMMA GotoMoves ==
  ASSUME TypeOK, NEW p \in Procs, NEW pc \in Pcs, Goto(p, pc)
  PROVE  /\ Moved(p, pc, run[p].result)
         /\ run'[p].got = run[p].got /\ run'[p].known = run[p].known /\ run'[p].part = run[p].part
<1> DEFINE r == [run[p] EXCEPT !.pc = pc]
<1>1. run[p] \in Runs /\ run \in [Procs -> Runs]
  BY DEF TypeOK
<1>2. /\ r \in Runs /\ r.pc = pc /\ r.result = run[p].result /\ r.kind = run[p].kind
      /\ r.tap = run[p].tap /\ r.floor = run[p].floor /\ r.alone = run[p].alone
      /\ r.got = run[p].got /\ r.known = run[p].known /\ r.part = run[p].part
  BY <1>1 DEF Runs
<1>3. run' = [run EXCEPT ![p] = r]
  BY DEF Goto
<1> HIDE DEF r
<1> QED
  BY <1>1, <1>2, <1>3, Becomes DEF Moved

LEMMA DoneMoves ==
  ASSUME TypeOK, NEW p \in Procs, NEW result \in {"ok", "failed"}, Done(p, result)
  PROVE  /\ Moved(p, "done", result)
         /\ run'[p].got = run[p].got /\ run'[p].known = run[p].known /\ run'[p].part = run[p].part
<1> DEFINE r == [run[p] EXCEPT !.pc = "done", !.result = result]
<1>1. run[p] \in Runs /\ run \in [Procs -> Runs]
  BY DEF TypeOK
<1>2. /\ r \in Runs /\ r.pc = "done" /\ r.result = result /\ r.kind = run[p].kind
      /\ r.tap = run[p].tap /\ r.floor = run[p].floor /\ r.alone = run[p].alone
      /\ r.got = run[p].got /\ r.known = run[p].known /\ r.part = run[p].part
  BY <1>1 DEF Runs, Pcs
<1>3. run' = [run EXCEPT ![p] = r]
  BY <1>1 DEF Done
<1> HIDE DEF r
<1> QED
  BY <1>1, <1>2, <1>3, Becomes DEF Moved

\* p has read or fetched an index.
LEMMA GotMoves ==
  ASSUME TypeOK, NEW p \in Procs, NEW got \in Index, NEW pc \in Pcs,
         run' = [run EXCEPT ![p].got = got, ![p].pc = pc]
  PROVE  /\ Moved(p, pc, run[p].result)
         /\ run'[p].got = got /\ run'[p].known = run[p].known /\ run'[p].part = run[p].part
<1> DEFINE r == [run[p] EXCEPT !.got = got, !.pc = pc]
<1>1. run[p] \in Runs /\ run \in [Procs -> Runs]
  BY DEF TypeOK
<1>2. /\ r \in Runs /\ r.pc = pc /\ r.result = run[p].result /\ r.kind = run[p].kind
      /\ r.tap = run[p].tap /\ r.floor = run[p].floor /\ r.alone = run[p].alone
      /\ r.got = got /\ r.known = run[p].known /\ r.part = run[p].part
  BY <1>1 DEF Runs
<1>3. run' = [run EXCEPT ![p] = r]
  BY <1>1
<1> HIDE DEF r
<1> QED
  BY <1>1, <1>2, <1>3, Becomes DEF Moved

\* p has read the cache, or fetches.
LEMMA ReadMoves ==
  ASSUME TypeOK, NEW p \in Procs, Read(p)
  PROVE  /\ run[p].pc = "read" /\ run'[p].known = run[p].known /\ run'[p].part = run[p].part
         /\ \/ /\ Moved(p, "taps", run[p].result) /\ run'[p].got = apk[1] /\ Apk \in present
               /\ 1 \in 1..Len(apk) /\ apk[1] # Unwritten
            \/ Moved(p, "fetch", run[p].result) /\ run'[p].got = run[p].got
<1>1. CASE Apk \in present /\ Whole
  <2>1. apk \in Seq(Index) /\ Len(apk) = 2
    BY <1>1 DEF TypeOK, FileTypes, Whole, Parts
  <2>2. 1 \in 1..Len(apk)
    BY <2>1
  <2>3. apk[1] \in Index /\ apk[1] # Unwritten
    BY <1>1, <2>1, <2>2, ElementOfSeq DEF Whole, Parts
  <2> QED
    BY <1>1, <2>2, <2>3, GotMoves DEF Read, Pcs
<1>2. CASE ~(Apk \in present /\ Whole)
  BY <1>2, GotoMoves DEF Read, Pcs
<1> QED
  BY <1>1, <1>2

\* A thread fetches the index of r.
LEMMA FetchMoves ==
  ASSUME TypeOK, NEW p \in Procs, NEW s \in Repos, Fetch(p, s)
  PROVE  /\ run[p].pc = "fetch" /\ Moved(p, "fetch", run[p].result)
         /\ run'[p].got = [run[p].got EXCEPT ![s] = published[s]] /\ run'[p].got \in Index
         /\ run'[p].known = run[p].known /\ run'[p].part = run[p].part
<1> DEFINE got == [run[p].got EXCEPT ![s] = published[s]]
<1> DEFINE r == [run[p] EXCEPT !.got = got]
<1>1. run[p] \in Runs /\ run \in [Procs -> Runs] /\ published[s] \in Nat /\ run[p].got \in Index
  BY DEF TypeOK, Runs
<1>2. got \in Index
  BY <1>1 DEF Index
<1>3. run' = [run EXCEPT ![p] = r] /\ run[p].pc = "fetch"
  BY <1>1 DEF Fetch
<1> HIDE DEF got
<1>4. /\ r \in Runs /\ r.pc = "fetch" /\ r.result = run[p].result /\ r.kind = run[p].kind
      /\ r.tap = run[p].tap /\ r.floor = run[p].floor /\ r.alone = run[p].alone
      /\ r.got = got /\ r.known = run[p].known /\ r.part = run[p].part
  BY <1>1, <1>2, <1>3 DEF Runs
<1> HIDE DEF r
<1> QED
  BY <1>1, <1>2, <1>3, <1>4, Becomes DEF Moved, got

LEMMA CreateMoves ==
  ASSUME TypeOK, NEW p \in Procs, Create(p)
  PROVE  /\ run[p].pc = "fetch" /\ Moved(p, "write", run[p].result)
         /\ run'[p].got = run[p].got /\ run'[p].known = run[p].known /\ run'[p].part = run[p].part
<1> DEFINE r == [run[p] EXCEPT !.pc = "write", !.own = TRUE]
<1>1. run[p] \in Runs /\ run \in [Procs -> Runs]
  BY DEF TypeOK
<1>2. /\ r \in Runs /\ r.pc = "write" /\ r.result = run[p].result /\ r.kind = run[p].kind
      /\ r.tap = run[p].tap /\ r.floor = run[p].floor /\ r.alone = run[p].alone
      /\ r.got = run[p].got /\ r.known = run[p].known /\ r.part = run[p].part
  BY <1>1 DEF Runs, Pcs
<1>3. run' = [run EXCEPT ![p] = r] /\ run[p].pc = "fetch"
  BY <1>1 DEF Create
<1> HIDE DEF r
<1> QED
  BY <1>1, <1>2, <1>3, Becomes DEF Moved

LEMMA UnlinkMoves ==
  ASSUME TypeOK, NEW p \in Procs, Unlink(p)
  PROVE  /\ run[p].pc = "unlink" /\ run'[p].got = run[p].got /\ run'[p].known = run[p].known /\ run'[p].part = run[p].part
         /\ \/ Moved(p, "done", "failed") /\ UNCHANGED present
            \/ Moved(p, "check", run[p].result) /\ present' = present \ {Apk}
<1>1. run[p] \in Runs /\ run \in [Procs -> Runs] /\ run[p].pc = "unlink"
  BY DEF TypeOK, Unlink
<1>2. CASE Apk \in present
  <2>1. run' = [q \in Procs |-> IF q = p THEN [run[p] EXCEPT !.pc = "check"] ELSE [run[q] EXCEPT !.own = FALSE]]
    BY <1>2 DEF Unlink
  <2>2. [run[p] EXCEPT !.pc = "check"] \in Runs
    BY <1>1 DEF Runs, Pcs
  <2>3. ASSUME NEW q \in Procs \ {p}
        PROVE  /\ run'[q] \in Runs
               /\ run'[q].pc = run[q].pc /\ run'[q].kind = run[q].kind /\ run'[q].tap = run[q].tap
               /\ run'[q].got = run[q].got /\ run'[q].known = run[q].known /\ run'[q].part = run[q].part /\ run'[q].floor = run[q].floor
               /\ run'[q].result = run[q].result /\ run'[q].alone = run[q].alone
    <3>1. run[q] \in Runs /\ run'[q] = [run[q] EXCEPT !.own = FALSE]
      BY <1>1, <2>1
    <3> QED
      BY <3>1 DEF Runs
  <2>4. run'[p] = [run[p] EXCEPT !.pc = "check"]
    BY <2>1
  <2>5. /\ run'[p].pc = "check" /\ run'[p].result = run[p].result /\ run'[p].kind = run[p].kind
        /\ run'[p].tap = run[p].tap /\ run'[p].floor = run[p].floor /\ run'[p].alone = run[p].alone
        /\ run'[p].got = run[p].got /\ run'[p].known = run[p].known /\ run'[p].part = run[p].part
    BY <1>1, <2>4 DEF Runs
  <2>6. \A q \in Procs : run'[q] \in Runs
    BY <2>2, <2>3, <2>4
  <2>7. run' \in [Procs -> Runs]
    <3>1. run' = [q \in Procs |-> run'[q]]
      BY <2>1
    <3> QED
      BY <2>6, <3>1
  <2>8. present' = present \ {Apk}
    BY <1>2 DEF Unlink
  <2> QED
    BY <1>1, <2>3, <2>5, <2>7, <2>8 DEF Moved, Aside
<1>3. CASE Apk \notin present
  BY <1>1, <1>3, DoneMoves DEF Unlink
<1> QED
  BY <1>2, <1>3

LEMMA WriteMoves ==
  ASSUME TypeOK, NEW p \in Procs, Write(p), run[p].part < Parts
  PROVE  /\ run[p].pc = "write" /\ run'[p].part = run[p].part + 1
         /\ \/ Moved(p, "write", run[p].result) /\ run'[p].part < Parts
            \/ Moved(p, "taps", run[p].result)
         /\ run'[p].got = run[p].got /\ run'[p].known = run[p].known
<1> DEFINE n == run[p].part + 1
<1> DEFINE pc == IF n = Parts THEN "taps" ELSE run[p].pc
<1> DEFINE r == [run[p] EXCEPT !.part = n, !.pc = pc]
<1>1. run[p] \in Runs /\ run \in [Procs -> Runs] /\ run[p].pc = "write" /\ run[p].part \in 0..Parts
  BY DEF TypeOK, Write, Runs
<1>2. n \in 0..Parts
  BY <1>1 DEF Parts
<1>3. run' = [run EXCEPT ![p] = r]
  BY <1>1 DEF Write
<1>4. (pc = "write" /\ n < Parts) \/ pc = "taps"
  BY <1>1, <1>2 DEF Parts
<1> HIDE DEF n, pc
<1>5. /\ r \in Runs /\ r.pc = pc /\ r.result = run[p].result /\ r.kind = run[p].kind
      /\ r.tap = run[p].tap /\ r.floor = run[p].floor /\ r.alone = run[p].alone
      /\ r.got = run[p].got /\ r.known = run[p].known /\ r.part = n
  BY <1>1, <1>2, <1>4 DEF Runs, Pcs
<1> HIDE DEF r
<1> QED
  BY <1>1, <1>3, <1>4, <1>5, Becomes DEF Moved, n

LEMMA OpenListMoves ==
  ASSUME TypeOK, ControlInv, NEW p \in Procs, OpenList(p)
  PROVE  /\ run[p].pc = "taps"
         /\ Moved(p, IF run[p].kind \in Loads THEN "join" ELSE "save", run[p].result)
         /\ run'[p].got = run[p].got /\ run'[p].known = Known(p) /\ Known(p) \subseteq Taps
<1> DEFINE pc == IF run[p].kind \in Loads THEN "join" ELSE "save"
<1> DEFINE known == Known(p)
<1> DEFINE r == [run[p] EXCEPT !.known = known, !.pc = pc]
<1>1. run[p] \in Runs /\ run \in [Procs -> Runs] /\ run[p].pc = "taps"
  BY DEF TypeOK, OpenList
<1>2. known \subseteq Taps
  <2>1. ReadList \subseteq Taps
    BY DEF ReadList, TypeOK, FileTypes
  <2>2. run[p].kind = "add" => {run[p].tap} \subseteq Taps
    BY DEF ControlInv
  <2> QED
    BY <2>1, <2>2 DEF Known
<1>3. run' = [run EXCEPT ![p] = r]
  BY <1>1 DEF OpenList
<1>4. pc \in Pcs
  BY DEF Pcs
<1> HIDE DEF pc, known
<1>5. /\ r \in Runs /\ r.pc = pc /\ r.result = run[p].result /\ r.kind = run[p].kind
      /\ r.tap = run[p].tap /\ r.floor = run[p].floor /\ r.alone = run[p].alone
      /\ r.got = run[p].got /\ r.known = known
  BY <1>1, <1>2, <1>4 DEF Runs
<1> HIDE DEF r
<1> QED
  BY <1>1, <1>2, <1>3, <1>5, Becomes DEF Moved, pc, known

\* What a new command starts with.
LEMMA StartMoves ==
  ASSUME TypeOK, NEW p \in Procs, NEW kind \in Kinds, NEW tap \in Taps \union {"none"}, Start(p, kind, tap)
  PROVE  /\ run' \in [Procs -> Runs] /\ Aside(p) /\ \A q \in Procs \ {p} : ~run'[q].alone
         /\ run[p].pc = "idle" /\ run'[p].kind = kind /\ run'[p].tap = tap /\ run'[p].result = "none"
         /\ run'[p].pc = IF kind = "load" THEN "check" ELSE IF kind = "update" THEN "remove" ELSE "taps"
         /\ run'[p].got = Unwritten /\ run'[p].part = 0
         /\ run'[p].floor = IF kind = "update" THEN [r \in Repos |-> published[r]] ELSE acked
         /\ run'[p].alone => \A q \in Procs \ {p} : ~Busy(q)
         /\ kind \in {"add", "remove"} => tap \in Taps
<1> DEFINE pc == IF kind = "load" THEN "check" ELSE IF kind = "update" THEN "remove" ELSE "taps"
<1> DEFINE floor == IF kind = "update" THEN [r \in Repos |-> published[r]] ELSE acked
<1> DEFINE alone == Others(p) = {}
<1> DEFINE r == [NoRun EXCEPT !.kind = kind, !.tap = tap, !.pc = pc, !.alone = alone, !.floor = floor]
<1>1. run \in [Procs -> Runs] /\ run[p].pc = "idle" /\ (kind \in {"add", "remove"} => tap \in Taps)
  BY DEF TypeOK, Start
<1>2. floor \in Index /\ pc \in Pcs /\ alone \in BOOLEAN
  BY DEF TypeOK, Index, Pcs
<1>3. run' = [q \in Procs |-> IF q = p THEN r ELSE [run[q] EXCEPT !.alone = FALSE]]
  BY DEF Start
<1> HIDE DEF pc, floor, alone
<1>4. /\ r \in Runs /\ r.kind = kind /\ r.tap = tap /\ r.result = "none" /\ r.pc = pc
      /\ r.got = Unwritten /\ r.part = 0 /\ r.floor = floor /\ r.alone = alone
  <2>1. NoRun \in Runs /\ NoRun.result = "none" /\ NoRun.got = Unwritten /\ NoRun.part = 0
    BY NoRunIs
  <2> QED
    BY <1>2, <2>1 DEF Runs
<1> HIDE DEF r
<1>5. ASSUME NEW q \in Procs \ {p}
      PROVE  /\ run'[q] \in Runs
             /\ run'[q].pc = run[q].pc /\ run'[q].kind = run[q].kind /\ run'[q].tap = run[q].tap
             /\ run'[q].got = run[q].got /\ run'[q].known = run[q].known /\ run'[q].part = run[q].part
             /\ run'[q].floor = run[q].floor /\ run'[q].result = run[q].result /\ ~run'[q].alone
  <2>1. run[q] \in Runs /\ run'[q] = [run[q] EXCEPT !.alone = FALSE]
    BY <1>1, <1>3
  <2> QED
    BY <2>1 DEF Runs
<1>6. run'[p] = r
  BY <1>3
<1>7. run' \in [Procs -> Runs]
  <2>1. run' = [q \in Procs |-> run'[q]]
    BY <1>3
  <2>2. \A q \in Procs : run'[q] \in Runs
    BY <1>4, <1>5, <1>6
  <2> QED
    BY <2>1, <2>2
<1>8. run'[p].alone => \A q \in Procs \ {p} : ~Busy(q)
  BY <1>4, <1>6 DEF alone, Others
<1> QED
  BY <1>1, <1>4, <1>5, <1>6, <1>7, <1>8 DEF Aside, pc, floor

LEMMA ExitMoves ==
  ASSUME TypeOK, NEW p \in Procs, Exit(p)
  PROVE  /\ run' \in [Procs -> Runs] /\ Aside(p) /\ run'[p] = NoRun
<1>1. NoRun \in Runs
  BY NoRunIs
<1>2. run' = [run EXCEPT ![p] = NoRun] /\ run \in [Procs -> Runs]
  BY DEF Exit, TypeOK
<1> QED
  BY <1>1, <1>2, Becomes

\* What a command that gives up leaves.
LEMMA GiveMoves ==
  ASSUME TypeOK, NEW p \in Procs, Give(p)
  PROVE  /\ \/ Moved(p, "idle", run[p].result)
            \/ Moved(p, "done", "failed") /\ run[p].pc \in {"fetch", "write", "list"}
         /\ run'[p].got = run[p].got /\ run'[p].known = run[p].known /\ run'[p].part = run[p].part
<1>1. "idle" \in Pcs
  BY DEF Pcs
<1> QED
  BY <1>1, GotoMoves, DoneMoves DEF Give

\* The threads other than p's for t stay as they are.
Apart(p, t) == \A q \in Procs, u \in Taps : q # p \/ u # t => thread'[q][u] = thread[q][u]

\* The thread of p for t becomes th.
LEMMA ThreadIs ==
  ASSUME thread \in [Procs -> [Taps -> Threads]], NEW p \in Procs, NEW t \in Taps, NEW th \in Threads,
         thread' = [thread EXCEPT ![p][t] = th]
  PROVE  thread' \in [Procs -> [Taps -> Threads]] /\ thread'[p][t] = th /\ Apart(p, t)
<1>1. [thread[p] EXCEPT ![t] = th] \in [Taps -> Threads]
  OBVIOUS
<1>2. thread' = [thread EXCEPT ![p] = [thread[p] EXCEPT ![t] = th]]
  OBVIOUS
<1>3. \A q \in Procs \ {p} : thread'[q] = thread[q]
  BY <1>2
<1>4. \A u \in Taps \ {t} : thread'[p][u] = thread[p][u]
  BY <1>2
<1> QED
  BY <1>1, <1>2, <1>3, <1>4 DEF Apart

LEMMA BecomeIs ==
  ASSUME TypeOK, NEW p \in Procs, NEW t \in Taps,
         NEW pc \in Ended \union {"check", "read", "fetch", "create", "write"}, Become(p, t, pc)
  PROVE  /\ thread' \in [Procs -> [Taps -> Threads]] /\ Apart(p, t)
         /\ thread'[p][t].pc = pc /\ thread'[p][t].of = thread[p][t].of
<1> DEFINE th == [thread[p][t] EXCEPT !.pc = pc]
<1>1. thread[p][t] \in Threads /\ thread \in [Procs -> [Taps -> Threads]]
  BY DEF TypeOK
<1>2. th \in Threads /\ th.pc = pc /\ th.of = thread[p][t].of
  BY <1>1 DEF Threads
<1>3. thread' = [thread EXCEPT ![p][t] = th]
  BY <1>1 DEF Become
<1> HIDE DEF th
<1> QED
  BY <1>1, <1>2, <1>3, ThreadIs

LEMMA GoneIs ==
  ASSUME TypeOK, NEW p \in Procs, NEW t \in Taps, NEW of \in TapIndex,
         NEW pc \in Ended \union {"check", "read", "fetch", "create", "write"}, Gone(p, t, pc, of)
  PROVE  /\ thread' \in [Procs -> [Taps -> Threads]] /\ Apart(p, t)
         /\ thread'[p][t].pc = pc /\ thread'[p][t].of = of
<1> DEFINE th == [pc |-> pc, of |-> of]
<1>1. th \in Threads /\ th.pc = pc /\ th.of = of
  BY DEF Threads
<1>2. thread' = [thread EXCEPT ![p][t] = th] /\ thread \in [Procs -> [Taps -> Threads]]
  BY DEF Gone, TypeOK
<1> HIDE DEF th
<1> QED
  BY <1>1, <1>2, ThreadIs

\* All threads of p are set at once.
LEMMA ThreadsAre ==
  ASSUME TypeOK, NEW p \in Procs, NEW ths \in [Taps -> Threads], thread' = [thread EXCEPT ![p] = ths]
  PROVE  /\ thread' \in [Procs -> [Taps -> Threads]] /\ thread'[p] = ths
         /\ \A q \in Procs \ {p} : thread'[q] = thread[q]
BY DEF TypeOK

LEMMA IdleIs == Idle \in Threads /\ Idle.pc = "no" /\ NoTap \in TapIndex /\ Torn \in [of : TapIndex, ok : BOOLEAN] /\ ~Torn.ok
BY DEF Idle, NoTap, Torn, TapIndex, Threads, Ended

LEMMA IdleAll ==
  ASSUME TypeOK, NEW p \in Procs, thread' = [thread EXCEPT ![p] = [t \in Taps |-> Idle]]
  PROVE  /\ thread' \in [Procs -> [Taps -> Threads]] /\ \A t \in Taps : thread'[p][t].pc = "no"
         /\ \A q \in Procs \ {p} : thread'[q] = thread[q]
<1>1. [t \in Taps |-> Idle] \in [Taps -> Threads]
  BY IdleIs
<1> QED
  BY <1>1, IdleIs, ThreadsAre

\* Whose threads OpenList starts, and where.
LEMMA OpenListThreads ==
  ASSUME TypeOK, NEW p \in Procs, OpenList(p)
  PROVE  /\ thread' \in [Procs -> [Taps -> Threads]] /\ \A q \in Procs \ {p} : thread'[q] = thread[q]
         /\ \A t \in Taps : thread'[p][t].pc =
              IF run[p].kind \notin Loads \/ t \notin Known(p) THEN "no"
              ELSE IF run[p].kind = "load" THEN "check" ELSE "fetch"
<1> DEFINE known == Known(p)
<1> DEFINE start == [Idle EXCEPT !.pc = IF run[p].kind = "load" THEN "check" ELSE "fetch"]
<1> DEFINE ths == [t \in Taps |-> IF run[p].kind \notin Loads \/ t \notin known THEN Idle ELSE start]
<1>1. start \in Threads /\ start.pc = IF run[p].kind = "load" THEN "check" ELSE "fetch"
  BY DEF Idle, Threads, NoTap, TapIndex
<1>2. thread' = [thread EXCEPT ![p] = ths]
  BY DEF OpenList
<1> HIDE DEF start, known
<1>3. ths \in [Taps -> Threads]
  BY <1>1, IdleIs
<1>4. \A t \in Taps : ths[t].pc =
              IF run[p].kind \notin Loads \/ t \notin known THEN "no"
              ELSE IF run[p].kind = "load" THEN "check" ELSE "fetch"
  BY <1>1, IdleIs
<1> HIDE DEF ths
<1> QED
  BY <1>2, <1>3, <1>4, ThreadsAre DEF known

-----------------------------------------------------------------------------
(* Types                                                                   *)

LeftTypes == [kinds : SUBSET Kinds, taps : SUBSET Taps, commands : Nat, publish : Nat,
              expire : Nat, faults : Nat]

LEMMA SpendKeeps ==
  ASSUME TypeOK, NEW what \in {"commands", "publish", "expire", "faults"}, Spend(what)
  PROVE  left' \in LeftTypes
<1>1. left \in LeftTypes /\ left[what] > 0 /\ left' = [left EXCEPT ![what] = @ - 1]
  BY DEF TypeOK, LeftTypes, Spend
<1>2. CASE what = "commands"
  <2>1. left.commands - 1 \in Nat
    BY <1>1, <1>2 DEF LeftTypes
  <2> QED
    BY <1>1, <1>2, <2>1 DEF LeftTypes
<1>3. CASE what = "publish"
  <2>1. left.publish - 1 \in Nat
    BY <1>1, <1>3 DEF LeftTypes
  <2> QED
    BY <1>1, <1>3, <2>1 DEF LeftTypes
<1>4. CASE what = "expire"
  <2>1. left.expire - 1 \in Nat
    BY <1>1, <1>4 DEF LeftTypes
  <2> QED
    BY <1>1, <1>4, <2>1 DEF LeftTypes
<1>5. CASE what = "faults"
  <2>1. left.faults - 1 \in Nat
    BY <1>1, <1>5 DEF LeftTypes
  <2> QED
    BY <1>1, <1>5, <2>1 DEF LeftTypes
<1> QED
  BY <1>2, <1>3, <1>4, <1>5

\* The budget, whatever an action takes of it.
LEMMA LeftKept ==
  ASSUME TypeOK, UNCHANGED left \/ Spend("commands") \/ Spend("publish") \/ Spend("expire") \/ Spend("faults")
  PROVE  left' \in LeftTypes
BY SpendKeeps DEF TypeOK, LeftTypes

\* What an action has to show that changes commands, threads and history.
LEMMA TypesBy ==
  ASSUME TypeOK, UNCHANGED published, FileTypes', run' \in [Procs -> Runs],
         thread' \in [Procs -> [Taps -> Threads]], acked' \in Index, kept' \subseteq Taps,
         left' \in LeftTypes
  PROVE  TypeOK'
BY DEF TypeOK, LeftTypes, Index, Runs, Threads, TapIndex

LEMMA FilesKept == ASSUME TypeOK, UNCHANGED files PROVE FileTypes'
BY DEF TypeOK, FileTypes, files

\* The cache of Alpine's index while it is written.
LEMMA WriteFile ==
  ASSUME TypeOK, NEW p \in Procs, Write(p), run[p].part < Parts
  PROVE  /\ apk' \in Seq(Index) /\ Len(apk') <= Parts
         /\ \A i \in 1..Len(apk') : apk'[i] = run[p].got \/ apk'[i] = Unwritten
                                      \/ (i \in 1..Len(apk) /\ apk'[i] = apk[i])
         /\ fresh' \in {fresh, fresh \union {Apk}} /\ UNCHANGED present
<1>1. /\ apk \in Seq(Index) /\ Len(apk) <= Parts /\ Len(apk) \in Nat
      /\ run[p].got \in Index /\ run[p].part \in 0..Parts
  BY LenProperties DEF TypeOK, FileTypes, Runs
<1>2. CASE UNCHANGED <<apk, fresh>>
  BY <1>1, <1>2 DEF Write
<1>3. CASE ~UNCHANGED <<apk, fresh>>
  <2> DEFINE n == run[p].part + 1
  <2> DEFINE old == Len(apk)
  <2> DEFINE m == IF n > old THEN n ELSE old
  <2>1. /\ apk' = [i \in 1..m |-> IF i = n THEN run[p].got ELSE IF i <= old THEN apk[i] ELSE Unwritten]
        /\ fresh' = fresh \union {Apk} /\ UNCHANGED present
    BY <1>3 DEF Write
  <2>2. n \in Nat /\ n <= Parts /\ old \in Nat /\ old <= Parts
    BY <1>1 DEF Parts
  <2> HIDE DEF n, old
  <2>3. m \in Nat /\ m <= Parts
    BY <2>2
  <2> HIDE DEF m
  <2>4. \A i \in 1..m : i <= old => i \in 1..old
    BY <2>2, <2>3
  <2>5. \A i \in 1..old : apk[i] \in Index
    BY <1>1, ElementOfSeq DEF old
  <2>6. \A i \in 1..m : apk'[i] \in Index
    BY <1>1, <2>1, <2>4, <2>5, IndexTypes
  <2>7. apk' \in Seq(Index) /\ Len(apk') = m
    <3>1. apk' \in [1..m -> Index]
      BY <2>1, <2>6
    <3> QED
      BY <2>3, <3>1, IsASeq
  <2>8. \A i \in 1..m : apk'[i] = run[p].got \/ apk'[i] = Unwritten \/ (i \in 1..old /\ apk'[i] = apk[i])
    BY <2>1, <2>4
  <2> QED
    BY <2>1, <2>3, <2>7, <2>8 DEF old
<1> QED
  BY <1>2, <1>3

\* The commands' own steps.
LEMMA TypeCommand ==
  ASSUME TypeOK, ControlInv, NEW p \in Procs,
         Remove(p) \/ Unlink(p) \/ Check(p) \/ Read(p) \/ (\E r \in Repos : Fetch(p, r)) \/ OpenList(p)
           \/ Exit(p) \/ Give(p)
  PROVE  TypeOK'
<1> USE LeftKept
<1>1. published \in [Repos \union Taps -> Nat \ {0}] /\ acked \in Index /\ kept \subseteq Taps
      /\ thread \in [Procs -> [Taps -> Threads]] /\ left \in LeftTypes /\ FileTypes
  BY DEF TypeOK, LeftTypes
<1>2. CASE Remove(p) \/ Check(p)
  <2>1. PICK pc \in Pcs : Goto(p, pc)
    BY <1>2 DEF Remove, Check, Pcs
  <2>2. UNCHANGED <<published, files, thread, acked, kept, left>>
    BY <1>2 DEF Remove, Check
  <2> QED
    BY <1>1, <2>1, <2>2, GotoMoves, FilesKept, TypesBy DEF Moved
<1>3. CASE Unlink(p)
  <2>1. run' \in [Procs -> Runs]
    BY <1>3, UnlinkMoves DEF Moved
  <2>2. FileTypes'
    BY <1>1, <1>3 DEF Unlink, FileTypes
  <2> QED
    BY <1>1, <1>3, <2>1, <2>2, TypesBy DEF Unlink
<1>4. CASE Read(p)
  <2>1. run' \in [Procs -> Runs]
    <3>1. CASE Apk \in present /\ Whole
      <4>1. apk[1] \in Index
        <5>1. apk \in Seq(Index) /\ Len(apk) = 2
          BY <1>1, <3>1 DEF FileTypes, Whole, Parts
        <5>2. 1 \in 1..Len(apk)
          BY <5>1
        <5> QED
          BY <5>1, <5>2, ElementOfSeq
      <4> QED
        BY <1>4, <3>1, <4>1, GotMoves DEF Read, Moved, Pcs
    <3>2. CASE ~(Apk \in present /\ Whole)
      BY <1>4, <3>2, GotoMoves DEF Read, Moved, Pcs
    <3> QED
      BY <3>1, <3>2
  <2>2. UNCHANGED <<published, files, thread, acked, kept, left>>
    BY <1>4 DEF Read
  <2> QED
    BY <1>1, <2>1, <2>2, FilesKept, TypesBy
<1>5. CASE \E r \in Repos : Fetch(p, r)
  <2>1. run' \in [Procs -> Runs]
    BY <1>5, FetchMoves DEF Moved
  <2>2. UNCHANGED <<published, files, thread, acked, kept, left>>
    BY <1>5 DEF Fetch
  <2> QED
    BY <1>1, <2>1, <2>2, FilesKept, TypesBy
<1>6. CASE OpenList(p)
  <2>1. run' \in [Procs -> Runs] /\ thread' \in [Procs -> [Taps -> Threads]]
    BY <1>6, OpenListMoves, OpenListThreads DEF Moved
  <2>2. UNCHANGED <<published, files, acked, kept, left>>
    BY <1>6 DEF OpenList
  <2> QED
    BY <1>1, <2>1, <2>2, FilesKept, TypesBy
<1>7. CASE Exit(p)
  <2>1. run' \in [Procs -> Runs] /\ thread' \in [Procs -> [Taps -> Threads]]
    BY <1>7, ExitMoves, IdleAll DEF Exit
  <2>2. UNCHANGED <<published, files, acked, kept, left>>
    BY <1>7 DEF Exit
  <2> QED
    BY <1>1, <2>1, <2>2, FilesKept, TypesBy
<1>8. CASE Give(p)
  <2>1. run' \in [Procs -> Runs] /\ thread' \in [Procs -> [Taps -> Threads]]
    BY <1>8, GiveMoves, IdleAll DEF Give, Moved
  <2>2. UNCHANGED <<published, files, acked>> /\ kept' \subseteq Taps
    BY <1>1, <1>8 DEF Give
  <2>3. left' \in LeftTypes
    BY <1>8 DEF Give
  <2> QED
    BY <1>1, <2>1, <2>2, <2>3, FilesKept, TypesBy
<1> QED
  BY <1>2, <1>3, <1>4, <1>5, <1>6, <1>7, <1>8

\* The steps that write a file or the history.
LEMMA TypeSave ==
  ASSUME TypeOK, ControlInv, NEW p \in Procs,
         Create(p) \/ Write(p) \/ Truncate(p) \/ Save(p) \/ Join(p)
  PROVE  TypeOK'
<1>1. published \in [Repos \union Taps -> Nat \ {0}] /\ acked \in Index /\ kept \subseteq Taps
      /\ thread \in [Procs -> [Taps -> Threads]] /\ left \in LeftTypes /\ FileTypes
      /\ run[p] \in Runs
  BY DEF TypeOK, LeftTypes
<1>2. CASE Create(p)
  <2>1. run' \in [Procs -> Runs]
    BY <1>2, CreateMoves DEF Moved
  <2>2. FileTypes'
    BY <1>1, <1>2, EmptySeq DEF Create, FileTypes, Parts
  <2> QED
    BY <1>1, <1>2, <2>1, <2>2, TypesBy DEF Create
<1>3. CASE Write(p)
  <2>1. run[p].part < Parts
    BY <1>3 DEF Write, ControlInv
  <2>2. run' \in [Procs -> Runs]
    BY <1>3, <2>1, WriteMoves DEF Moved
  <2>3. FileTypes'
    <3>1. apk' \in Seq(Index) /\ Len(apk') <= Parts /\ UNCHANGED <<caches, list, present>>
      BY <1>3, <2>1, WriteFile DEF Write
    <3>2. fresh' \subseteq {Apk} \union Keys
      BY <1>1, <1>3, <2>1, WriteFile DEF FileTypes
    <3> QED
      BY <1>1, <3>1, <3>2 DEF FileTypes
  <2> QED
    BY <1>1, <1>3, <2>2, <2>3, TypesBy DEF Write
<1>4. CASE Truncate(p)
  <2>1. run' \in [Procs -> Runs]
    BY <1>4, GotoMoves DEF Truncate, Moved, Pcs
  <2>2. FileTypes'
    BY <1>1, <1>4 DEF Truncate, FileTypes
  <2> QED
    BY <1>1, <1>4, <2>1, <2>2, TypesBy DEF Truncate
<1>5. CASE Save(p)
  <2>1. run' \in [Procs -> Runs]
    BY <1>5, DoneMoves DEF Save, Moved
  <2>2. run[p].known \subseteq Taps /\ run[p].kind = "add" => run[p].tap \in Taps
    BY <1>1 DEF Runs, ControlInv
  <2>3. FileTypes'
    BY <1>1, <1>5, <2>2 DEF Save, FileTypes, Runs
  <2>4. kept' \subseteq Taps
    BY <1>1, <1>5, <2>2 DEF Save, ControlInv
  <2> QED
    BY <1>1, <1>5, <2>1, <2>3, <2>4, TypesBy DEF Save
<1>6. CASE Join(p)
  <2>1. run' \in [Procs -> Runs]
    BY <1>6, DoneMoves DEF Join, Moved
  <2>2. acked' \in Index /\ UNCHANGED <<published, files, thread, kept, left>>
    BY <1>1, <1>6 DEF Join, Runs
  <2> QED
    BY <1>1, <2>1, <2>2, FilesKept, TypesBy
<1> QED
  BY <1>2, <1>3, <1>4, <1>5, <1>6

\* The threads' steps.
LEMMA TypeThread ==
  ASSUME TypeOK, NEW p \in Procs, NEW t \in Taps,
         TapCheck(p, t) \/ TapRead(p, t) \/ TapFetch(p, t) \/ TapFails(p, t) \/ TapCreate(p, t) \/ TapWrite(p, t)
  PROVE  TypeOK'
<1>1. published \in [Repos \union Taps -> Nat \ {0}] /\ acked \in Index /\ kept \subseteq Taps
      /\ thread \in [Procs -> [Taps -> Threads]] /\ left \in LeftTypes /\ FileTypes
      /\ run \in [Procs -> Runs] /\ Key[t] \in Keys
  BY DEF TypeOK, LeftTypes, Keys
<1>2. thread[p][t].of \in TapIndex /\ published[t] \in Nat /\ caches[Key[t]].of \in TapIndex
  BY <1>1 DEF Threads, FileTypes
<1>3. CASE TapCheck(p, t)
  <2>1. thread' \in [Procs -> [Taps -> Threads]]
    BY <1>3, BecomeIs DEF TapCheck
  <2> QED
    BY <1>1, <1>3, <2>1, FilesKept, TypesBy DEF TapCheck
<1>4. CASE TapRead(p, t)
  <2>1. thread' \in [Procs -> [Taps -> Threads]]
    BY <1>2, <1>4, BecomeIs, GoneIs DEF TapRead, Ended
  <2> QED
    BY <1>1, <1>4, <2>1, FilesKept, TypesBy DEF TapRead
<1>5. CASE TapFetch(p, t)
  <2>1. [tap |-> t, v |-> published[t]] \in TapIndex
    BY <1>2 DEF TapIndex
  <2>2. thread' \in [Procs -> [Taps -> Threads]]
    BY <1>5, <2>1, GoneIs DEF TapFetch
  <2> QED
    BY <1>1, <1>5, <2>2, FilesKept, TypesBy DEF TapFetch
<1>6. CASE TapFails(p, t)
  <2>1. thread' \in [Procs -> [Taps -> Threads]]
    BY <1>6, BecomeIs DEF TapFails, Ended
  <2>2. left' \in LeftTypes
    BY <1>6, LeftKept DEF TapFails
  <2> QED
    BY <1>1, <1>6, <2>1, <2>2, FilesKept, TypesBy DEF TapFails
<1>7. CASE TapCreate(p, t)
  <2>1. thread' \in [Procs -> [Taps -> Threads]]
    BY <1>7, BecomeIs DEF TapCreate
  <2>2. FileTypes'
    BY <1>1, <1>7, IdleIs DEF TapCreate, FileTypes
  <2> QED
    BY <1>1, <1>7, <2>1, <2>2, TypesBy DEF TapCreate
<1>8. CASE TapWrite(p, t)
  <2>1. thread' \in [Procs -> [Taps -> Threads]]
    BY <1>8, BecomeIs DEF TapWrite, Ended
  <2>2. caches' \in [Keys -> [of : TapIndex, ok : BOOLEAN]]
    <3>1. PICK c \in {Torn, [of |-> thread[p][t].of, ok |-> TRUE]} : caches' = [caches EXCEPT ![Key[t]] = c]
      BY <1>8 DEF TapWrite
    <3>2. c \in [of : TapIndex, ok : BOOLEAN]
      <4>1. [of |-> thread[p][t].of, ok |-> TRUE] \in [of : TapIndex, ok : BOOLEAN]
        BY <1>2
      <4> QED
        BY <3>1, <4>1, IdleIs
    <3> QED
      BY <1>1, <3>1, <3>2 DEF FileTypes
  <2>3. FileTypes'
    BY <1>1, <1>8, <2>2 DEF TapWrite, FileTypes
  <2> QED
    BY <1>1, <1>8, <2>1, <2>3, TypesBy DEF TapWrite
<1> QED
  BY <1>3, <1>4, <1>5, <1>6, <1>7, <1>8

\* The world's steps.
LEMMA TypeWorld ==
  ASSUME TypeOK,
         \/ \E p \in Procs, kind \in Kinds, tap \in Taps \union {"none"} : Start(p, kind, tap)
         \/ \E s \in Repos \union Taps : Publish(s)
         \/ \E f \in {Apk} \union Keys : Expire(f)
  PROVE  TypeOK'
<1>1. published \in [Repos \union Taps -> Nat \ {0}] /\ acked \in Index /\ kept \subseteq Taps
      /\ thread \in [Procs -> [Taps -> Threads]] /\ left \in LeftTypes /\ FileTypes
      /\ run \in [Procs -> Runs]
  BY DEF TypeOK, LeftTypes
<1>2. ASSUME NEW p \in Procs, NEW kind \in Kinds, NEW tap \in Taps \union {"none"}, Start(p, kind, tap)
      PROVE  TypeOK'
  <2>1. run' \in [Procs -> Runs]
    BY <1>2, StartMoves
  <2>2. left' \in LeftTypes
    BY <1>2, LeftKept DEF Start
  <2>3. UNCHANGED <<published, files, thread, acked>> /\ kept' \subseteq Taps
    BY <1>1, <1>2 DEF Start
  <2> QED
    BY <1>1, <2>1, <2>2, <2>3, FilesKept, TypesBy
<1>3. ASSUME NEW s \in Repos \union Taps, Publish(s) PROVE TypeOK'
  <2>1. left' \in LeftTypes /\ UNCHANGED <<files, run, thread, acked, kept>>
    BY <1>3, LeftKept DEF Publish
  <2>2. published' \in [Repos \union Taps -> Nat \ {0}]
    BY <1>1, <1>3 DEF Publish
  <2>3. FileTypes'
    BY <2>1, FilesKept
  <2> QED
    BY <1>1, <2>1, <2>2, <2>3 DEF TypeOK, LeftTypes, Index, Runs, Threads, TapIndex
<1>4. ASSUME NEW f \in {Apk} \union Keys, Expire(f) PROVE TypeOK'
  <2>1. left' \in LeftTypes /\ UNCHANGED <<published, run, thread, acked, kept>>
    BY <1>4, LeftKept DEF Expire
  <2>2. FileTypes'
    BY <1>1, <1>4 DEF Expire, FileTypes
  <2> QED
    BY <1>1, <2>1, <2>2, TypesBy
<1> QED
  BY <1>2, <1>3, <1>4

\* A step of a command, of one of its threads, or of the world.
LEMMA Cases ==
  ASSUME [Next]_vars
  PROVE  \/ \E p \in Procs :
              \/ Remove(p) \/ Unlink(p) \/ Check(p) \/ Read(p) \/ (\E r \in Repos : Fetch(p, r)) \/ OpenList(p)
                   \/ Exit(p) \/ Give(p)
              \/ Create(p) \/ Write(p) \/ Truncate(p) \/ Save(p) \/ Join(p)
         \/ \E p \in Procs : \E t \in Taps :
              TapCheck(p, t) \/ TapRead(p, t) \/ TapFetch(p, t) \/ TapFails(p, t) \/ TapCreate(p, t) \/ TapWrite(p, t)
         \/ \E p \in Procs, kind \in Kinds, tap \in Taps \union {"none"} : Start(p, kind, tap)
         \/ \E s \in Repos \union Taps : Publish(s)
         \/ \E f \in {Apk} \union Keys : Expire(f)
         \/ UNCHANGED vars
BY DEF Next, Command

LEMMA TypeInit == Init => TypeOK
<1> SUFFICES ASSUME Init PROVE TypeOK
  OBVIOUS
<1>1. left \in LeftTypes
  BY RegistryAssumption DEF Init, LeftTypes
<1>2. published \in [Repos \union Taps -> Nat \ {0}]
  BY DEF Init
<1>3. FileTypes
  BY <1>1, EmptySeq, IdleIs DEF Init, FileTypes, LeftTypes, Parts
<1>4. run \in [Procs -> Runs]
  BY NoRunIs DEF Init
<1>5. thread \in [Procs -> [Taps -> Threads]]
  BY IdleIs DEF Init
<1>6. acked \in Index /\ kept \subseteq Taps
  BY <1>1, IndexTypes DEF Init, LeftTypes
<1> QED
  BY <1>1, <1>2, <1>3, <1>4, <1>5, <1>6 DEF TypeOK, LeftTypes

LEMMA TypeStep == TypeOK /\ ControlInv /\ [Next]_vars => TypeOK'
<1> SUFFICES ASSUME TypeOK, ControlInv, [Next]_vars PROVE TypeOK'
  OBVIOUS
<1>1. CASE UNCHANGED vars
  BY <1>1, FilesKept DEF vars, TypeOK, LeftTypes, Index, Runs, Threads, TapIndex
<1> QED
  BY <1>1, Cases, TypeCommand, TypeSave, TypeThread, TypeWorld

-----------------------------------------------------------------------------
(* Control                                                                 *)

\* The part of ControlInv about p.
Controlled(p) ==
  /\ run[p].pc # "idle" => run[p].kind \in Kinds
  /\ run[p].pc \in {"remove", "unlink"} => run[p].kind = "update"
  /\ run[p].pc \in {"check", "read", "fetch", "write"} => run[p].kind \in {"load", "update"}
  /\ run[p].pc \in {"save", "list"} => run[p].kind \in {"add", "remove"}
  /\ run[p].kind \in {"add", "remove"} => run[p].tap \in Taps
  /\ run[p].pc \in {"remove", "unlink", "check", "read", "fetch"} => run[p].part = 0
  /\ run[p].pc = "write" => run[p].part < Parts
  /\ run[p].pc = "join" => run[p].kind \in Loads
  /\ \A t \in Taps :
       /\ run[p].pc # "join" => thread[p][t].pc \in Ended
       /\ run[p].pc \notin {"join", "done"} => thread[p][t].pc = "no"

LEMMA ControlIs == ControlInv <=> \A p \in Procs : Controlled(p)
BY DEF ControlInv, Controlled

LEMMA ControlBy ==
  ASSUME ControlInv, NEW p \in Procs, Aside(p), \A q \in Procs \ {p} : thread'[q] = thread[q], Controlled(p)'
  PROVE  ControlInv'
<1>1. \A q \in Procs : Controlled(q)
  BY ControlIs
<1>2. \A q \in Procs \ {p} : Controlled(q)'
  BY <1>1 DEF Controlled, Aside
<1>3. \A q \in Procs : Controlled(q)'
  BY <1>2
<1> QED
  BY <1>3 DEF ControlInv, Controlled

LEMMA ControlCommand ==
  ASSUME TypeOK, ControlInv, NEW p \in Procs,
         Remove(p) \/ Unlink(p) \/ Check(p) \/ Read(p) \/ (\E r \in Repos : Fetch(p, r)) \/ OpenList(p)
           \/ Exit(p) \/ Give(p)
  PROVE  ControlInv'
<1>1. Controlled(p) /\ run[p] \in Runs
  BY ControlIs DEF TypeOK
<1>2. CASE Remove(p) \/ Check(p)
  <2>1. \/ run[p].pc = "remove" /\ (Goto(p, "unlink") \/ Goto(p, "check"))
        \/ run[p].pc = "check" /\ (Goto(p, "read") \/ Goto(p, "fetch"))
    BY <1>2 DEF Remove, Check, Goto
  <2>2. \/ run[p].pc = "remove" /\ (Moved(p, "unlink", run[p].result) \/ Moved(p, "check", run[p].result))
        \/ run[p].pc = "check" /\ (Moved(p, "read", run[p].result) \/ Moved(p, "fetch", run[p].result))
    BY <2>1, GotoMoves DEF Pcs
  <2>3. run'[p].part = run[p].part
    BY <2>1, GotoMoves DEF Pcs
  <2>4. UNCHANGED thread
    BY <1>2 DEF Remove, Check
  <2>5. Controlled(p)'
    BY <1>1, <2>2, <2>3, <2>4 DEF Controlled, Moved
  <2> QED
    BY <2>2, <2>4, <2>5, ControlBy DEF Moved
<1>3. CASE Unlink(p)
  <2>1. run[p].pc = "unlink" /\ run'[p].part = run[p].part
        /\ (Moved(p, "done", "failed") \/ Moved(p, "check", run[p].result))
    BY <1>3, UnlinkMoves
  <2>2. UNCHANGED thread
    BY <1>3 DEF Unlink
  <2>3. Controlled(p)'
    BY <1>1, <2>1, <2>2 DEF Controlled, Moved, Ended
  <2> QED
    BY <2>1, <2>2, <2>3, ControlBy DEF Moved
<1>4. CASE Read(p)
  <2>1. run[p].pc = "read" /\ UNCHANGED thread /\ FileTypes
    BY <1>4 DEF Read, TypeOK
  <2>2. run'[p].part = run[p].part /\ (Moved(p, "taps", run[p].result) \/ Moved(p, "fetch", run[p].result))
    <3>1. CASE Apk \in present /\ Whole
      <4>1. apk \in Seq(Index) /\ Len(apk) = 2
        BY <2>1, <3>1 DEF FileTypes, Whole, Parts
      <4>2. 1 \in 1..Len(apk)
        BY <4>1
      <4>3. apk[1] \in Index
        BY <4>1, <4>2, ElementOfSeq
      <4> QED
        BY <1>4, <3>1, <4>3, GotMoves DEF Read, Pcs
    <3>2. CASE ~(Apk \in present /\ Whole)
      BY <1>4, <3>2, GotoMoves DEF Read, Pcs
    <3> QED
      BY <3>1, <3>2
  <2>3. Controlled(p)'
    BY <1>1, <2>1, <2>2 DEF Controlled, Moved
  <2> QED
    BY <2>1, <2>2, <2>3, ControlBy DEF Moved
<1>5. CASE \E r \in Repos : Fetch(p, r)
  <2>1. run[p].pc = "fetch" /\ Moved(p, "fetch", run[p].result) /\ run'[p].part = run[p].part
    BY <1>5, FetchMoves
  <2>2. UNCHANGED thread
    BY <1>5 DEF Fetch
  <2>3. Controlled(p)'
    BY <1>1, <2>1, <2>2 DEF Controlled, Moved
  <2> QED
    BY <2>1, <2>2, <2>3, ControlBy DEF Moved
<1>6. CASE OpenList(p)
  <2>1. run[p].pc = "taps" /\ Moved(p, IF run[p].kind \in Loads THEN "join" ELSE "save", run[p].result)
    BY <1>6, OpenListMoves
  <2>2. /\ \A q \in Procs \ {p} : thread'[q] = thread[q]
        /\ run[p].kind \notin Loads => \A t \in Taps : thread'[p][t].pc = "no"
    BY <1>6, OpenListThreads
  <2>3. run[p].kind \in Kinds
    BY <1>1, <2>1 DEF Controlled
  <2>4. Controlled(p)'
    BY <1>1, <2>1, <2>2, <2>3 DEF Controlled, Moved, Loads, Kinds, Ended
  <2> QED
    BY <2>1, <2>2, <2>4, ControlBy DEF Moved
<1>7. CASE Exit(p)
  <2>1. Aside(p) /\ run'[p] = NoRun
    BY <1>7, ExitMoves
  <2>2. (\A t \in Taps : thread'[p][t].pc = "no") /\ \A q \in Procs \ {p} : thread'[q] = thread[q]
    BY <1>7, IdleAll DEF Exit
  <2>3. Controlled(p)'
    BY <2>1, <2>2, NoRunIs DEF Controlled, Ended
  <2> QED
    BY <2>1, <2>2, <2>3, ControlBy
<1>8. CASE Give(p)
  <2>1. run[p].pc # "idle" /\ (Moved(p, "idle", run[p].result) \/ Moved(p, "done", "failed"))
    BY <1>8, GiveMoves DEF Give, Busy
  <2>2. (\A t \in Taps : thread'[p][t].pc = "no") /\ \A q \in Procs \ {p} : thread'[q] = thread[q]
    BY <1>8, IdleAll DEF Give
  <2>3. Controlled(p)'
    BY <1>1, <2>1, <2>2 DEF Controlled, Moved, Ended
  <2> QED
    BY <2>1, <2>2, <2>3, ControlBy DEF Moved
<1> QED
  BY <1>2, <1>3, <1>4, <1>5, <1>6, <1>7, <1>8

LEMMA ControlSave ==
  ASSUME TypeOK, ControlInv, NEW p \in Procs,
         Create(p) \/ Write(p) \/ Truncate(p) \/ Save(p) \/ Join(p)
  PROVE  ControlInv'
<1>1. Controlled(p) /\ UNCHANGED thread
  BY ControlIs DEF Create, Write, Truncate, Save, Join
<1>2. CASE Create(p)
  <2>1. run[p].pc = "fetch" /\ Moved(p, "write", run[p].result) /\ run'[p].part = run[p].part
    BY <1>2, CreateMoves
  <2>2. Controlled(p)'
    BY <1>1, <2>1 DEF Controlled, Moved, Parts
  <2> QED
    BY <1>1, <2>1, <2>2, ControlBy DEF Moved
<1>3. CASE Write(p)
  <2>1. run[p].part < Parts /\ run[p].pc = "write"
    BY <1>1, <1>3 DEF Write, Controlled
  <2>2. \/ Moved(p, "write", run[p].result) /\ run'[p].part < Parts
        \/ Moved(p, "taps", run[p].result)
    BY <1>3, <2>1, WriteMoves
  <2>3. Controlled(p)'
    BY <1>1, <2>1, <2>2 DEF Controlled, Moved
  <2> QED
    BY <1>1, <2>2, <2>3, ControlBy DEF Moved
<1>4. CASE Truncate(p)
  <2>1. run[p].pc = "save" /\ Moved(p, "list", run[p].result)
    BY <1>4, GotoMoves DEF Truncate, Pcs
  <2>2. Controlled(p)'
    BY <1>1, <2>1 DEF Controlled, Moved
  <2> QED
    BY <1>1, <2>1, <2>2, ControlBy DEF Moved
<1>5. CASE Save(p)
  <2>1. run[p].pc = "list" /\ Moved(p, "done", "ok")
    BY <1>5, DoneMoves DEF Save
  <2>2. Controlled(p)'
    BY <1>1, <2>1 DEF Controlled, Moved, Ended
  <2> QED
    BY <1>1, <2>1, <2>2, ControlBy DEF Moved
<1>6. CASE Join(p)
  <2>1. run[p].pc = "join" /\ Moved(p, "done", "ok") /\ \A t \in Taps : thread[p][t].pc \in Ended
    BY <1>6, DoneMoves DEF Join
  <2>2. Controlled(p)'
    BY <1>1, <2>1 DEF Controlled, Moved
  <2> QED
    BY <1>1, <2>1, <2>2, ControlBy DEF Moved
<1> QED
  BY <1>2, <1>3, <1>4, <1>5, <1>6

\* A thread that does something is one of a command that waits for it.
LEMMA ActiveJoins ==
  ASSUME ControlInv, NEW p \in Procs, NEW t \in Taps,
         TapCheck(p, t) \/ TapRead(p, t) \/ TapFetch(p, t) \/ TapFails(p, t) \/ TapCreate(p, t) \/ TapWrite(p, t)
  PROVE  run[p].pc = "join" /\ Busy(p) /\ thread[p][t].pc \notin Ended
<1>1. thread[p][t].pc \notin Ended
  BY DEF TapCheck, TapRead, TapFetch, TapFails, TapCreate, TapWrite, Ended
<1> QED
  BY <1>1 DEF ControlInv, Busy

\* What a thread's step does to the threads, and that it leaves the commands.
LEMMA ThreadSteps ==
  ASSUME TypeOK, NEW p \in Procs, NEW t \in Taps,
         TapCheck(p, t) \/ TapRead(p, t) \/ TapFetch(p, t) \/ TapFails(p, t) \/ TapCreate(p, t) \/ TapWrite(p, t)
  PROVE  Apart(p, t) /\ UNCHANGED <<run, published, apk, list, acked, kept>>
<1>1. thread[p][t].of \in TapIndex /\ caches[Key[t]].of \in TapIndex
      /\ [tap |-> t, v |-> published[t]] \in TapIndex
  BY DEF TypeOK, Threads, FileTypes, Keys, TapIndex
<1>2. Apart(p, t)
  BY <1>1, BecomeIs, GoneIs DEF TapCheck, TapRead, TapFetch, TapFails, TapCreate, TapWrite, Ended
<1> QED
  BY <1>2 DEF TapCheck, TapRead, TapFetch, TapFails, TapCreate, TapWrite, files

LEMMA ControlThread ==
  ASSUME TypeOK, ControlInv, NEW p \in Procs, NEW t \in Taps,
         TapCheck(p, t) \/ TapRead(p, t) \/ TapFetch(p, t) \/ TapFails(p, t) \/ TapCreate(p, t) \/ TapWrite(p, t)
  PROVE  ControlInv'
<1>1. run[p].pc = "join" /\ Apart(p, t) /\ UNCHANGED run
  BY ActiveJoins, ThreadSteps
<1> QED
  BY <1>1 DEF ControlInv, Apart

LEMMA ControlStart ==
  ASSUME TypeOK, ControlInv, NEW p \in Procs, NEW kind \in Kinds, NEW tap \in Taps \union {"none"},
         Start(p, kind, tap)
  PROVE  ControlInv'
<1>1. UNCHANGED thread
  BY DEF Start
<1>2. \A t \in Taps : thread[p][t].pc = "no"
  BY StartMoves DEF ControlInv
<1>3. Controlled(p)'
  <2>1. CASE kind \in {"load", "update"}
    BY <1>1, <1>2, <2>1, StartMoves DEF Controlled, Ended
  <2>2. CASE kind \notin {"load", "update"}
    BY <1>1, <1>2, <2>2, StartMoves DEF Controlled, Ended
  <2> QED
    BY <2>1, <2>2
<1> QED
  BY <1>1, <1>3, StartMoves, ControlBy

LEMMA ControlInit == Init => ControlInv
BY NoRunIs, IdleIs DEF Init, ControlInv, Ended, NoRun

LEMMA ControlStep == TypeOK /\ ControlInv /\ [Next]_vars => ControlInv'
<1> SUFFICES ASSUME TypeOK, ControlInv, [Next]_vars PROVE ControlInv'
  OBVIOUS
<1>1. CASE (\E s \in Repos \union Taps : Publish(s)) \/ (\E f \in {Apk} \union Keys : Expire(f)) \/ UNCHANGED vars
  <2>1. UNCHANGED <<run, thread>>
    BY <1>1 DEF Publish, Expire, vars
  <2> QED
    BY <2>1 DEF ControlInv
<1> QED
  BY <1>1, Cases, ControlCommand, ControlSave, ControlThread, ControlStart

LEMMA TypesHold == Spec => [](TypeOK /\ ControlInv)
<1>1. TypeOK /\ ControlInv /\ [Next]_vars => (TypeOK /\ ControlInv)'
  BY TypeStep, ControlStep
<1> QED
  BY <1>1, TypeInit, ControlInit, PTL DEF Spec

\* Every reachable state has the types of the model.
THEOREM RegistryTypes == Spec => []TypeOK
BY TypesHold, PTL

-----------------------------------------------------------------------------
(* Alpine's index                                                          *)

LEMMA GotBy ==
  ASSUME GotInv, NEW p \in Procs, Aside(p), UNCHANGED published, ApkGood', Got(p)'
  PROVE  GotInv'
BY DEF GotInv, Got, Aside, Answers, Good

\* p has nothing yet to answer with.
LEMMA GotSame ==
  ASSUME GotInv, NEW p \in Procs, Aside(p), UNCHANGED <<published, apk>>, run'[p].got = run[p].got,
         run'[p].pc \notin {"write", "taps", "join"}, run'[p].pc # "done" \/ run'[p].result # "ok"
  PROVE  GotInv'
<1>1. ApkGood' /\ Got(p)'
  BY DEF GotInv, ApkGood, Got, Answers, Good
<1> QED
  BY <1>1, GotBy

LEMMA IndexIs == ASSUME NEW v \in Index PROVE \A r \in Repos : v[r] \in Nat
BY DEF Index

LEMMA PublishedIs == ASSUME TypeOK PROVE \A r \in Repos : published[r] \in Nat
BY DEF TypeOK

LEMMA GotRead == ASSUME TypeOK, GotInv, NEW p \in Procs, Read(p) PROVE GotInv'
<1>1. UNCHANGED <<published, apk>>
  BY DEF Read, files
<1>2. CASE Apk \in present /\ Whole
  <2>1. apk \in Seq(Index) /\ Len(apk) = 2
    BY <1>2 DEF TypeOK, FileTypes, Whole, Parts
  <2>2. 1 \in 1..Len(apk)
    BY <2>1
  <2>3. apk[1] \in Index
    BY <2>1, <2>2, ElementOfSeq
  <2>4. Good(apk[1])
    <3>1. apk[1] # Unwritten
      BY <1>2, <2>2 DEF Whole, Parts
    <3> QED
      BY <2>2, <3>1 DEF GotInv, ApkGood
  <2>5. Moved(p, "taps", run[p].result) /\ run'[p].got = apk[1]
    BY <1>2, <2>3, GotMoves DEF Read, Pcs
  <2>6. ApkGood' /\ Got(p)'
    BY <1>1, <2>4, <2>5 DEF GotInv, ApkGood, Got, Good
  <2> QED
    BY <1>1, <2>5, <2>6, GotBy DEF Moved
<1>3. CASE ~(Apk \in present /\ Whole)
  BY <1>1, <1>3, GotMoves, GotoMoves, GotSame DEF Read, Moved, Pcs
<1> QED
  BY <1>2, <1>3

LEMMA GotFetch == ASSUME TypeOK, GotInv, NEW p \in Procs, NEW s \in Repos, Fetch(p, s) PROVE GotInv'
<1>1. UNCHANGED <<published, apk>>
  BY DEF Fetch, files
<1>2. Moved(p, "fetch", run[p].result) /\ run'[p].got = [run[p].got EXCEPT ![s] = published[s]]
  BY FetchMoves
<1>3. \A r \in Repos : run'[p].got[r] <= published[r]
  <2>1. run[p].got \in Index
    BY DEF TypeOK, Runs
  <2>2. \A r \in Repos : run[p].got[r] <= published[r]
    BY DEF GotInv, Got
  <2> QED
    BY <1>2, <2>1, <2>2, PublishedIs DEF Index
<1>4. Got(p)'
  BY <1>1, <1>2, <1>3 DEF Got, Moved, Answers
<1> QED
  BY <1>1, <1>2, <1>4, GotBy DEF Moved, GotInv, ApkGood, Good

LEMMA GotCreate == ASSUME TypeOK, GotInv, NEW p \in Procs, Create(p) PROVE GotInv'
<1>1. UNCHANGED published /\ apk' = <<>> /\ \A r \in Repos : run[p].got[r] # 0
  BY DEF Create
<1>2. Moved(p, "write", run[p].result) /\ run'[p].got = run[p].got
  BY CreateMoves
<1>3. Good(run[p].got)
  <2>1. \A r \in Repos : run[p].got[r] \in Nat
    BY IndexIs DEF TypeOK, Runs
  <2>2. \A r \in Repos : 0 < run[p].got[r]
    BY <1>1, <2>1
  <2> QED
    BY <2>2 DEF GotInv, Got, Good
<1>4. Got(p)'
  BY <1>1, <1>2, <1>3 DEF GotInv, Got, Good
<1>5. ApkGood'
  BY <1>1, EmptySeq DEF ApkGood
<1> QED
  BY <1>1, <1>2, <1>4, <1>5, GotBy DEF Moved

LEMMA GotWrite == ASSUME TypeOK, ControlInv, GotInv, NEW p \in Procs, Write(p) PROVE GotInv'
<1>1. run[p].part < Parts /\ run[p].pc = "write" /\ UNCHANGED published
  BY DEF Write, ControlInv
<1>2. Aside(p) /\ run'[p].got = run[p].got
  BY <1>1, WriteMoves DEF Moved
<1>3. Good(run[p].got)
  BY <1>1 DEF GotInv, Got
<1>4. \A i \in 1..Len(apk') : apk'[i] = Unwritten \/ Good(apk'[i])
  BY <1>1, <1>3, WriteFile DEF GotInv, ApkGood
<1>5. ApkGood' /\ Got(p)'
  BY <1>1, <1>2, <1>3, <1>4 DEF ApkGood, Got, GotInv, Good
<1> QED
  BY <1>1, <1>2, <1>5, GotBy

LEMMA GotRest ==
  ASSUME TypeOK, ControlInv, GotInv, NEW p \in Procs,
         Remove(p) \/ Unlink(p) \/ Check(p) \/ OpenList(p) \/ Exit(p) \/ Give(p) \/ Truncate(p) \/ Save(p) \/ Join(p)
  PROVE  GotInv'
<1>1. UNCHANGED <<published, apk>>
  BY DEF Remove, Unlink, Check, OpenList, Exit, Give, Truncate, Save, Join, files
<1>2. CASE Remove(p) \/ Check(p)
  <2>1. Goto(p, "unlink") \/ Goto(p, "check") \/ Goto(p, "read") \/ Goto(p, "fetch")
    BY <1>2 DEF Remove, Check, Goto
  <2> QED
    BY <1>1, <2>1, GotoMoves, GotSame DEF Moved, Pcs
<1>3. CASE Unlink(p)
  BY <1>1, <1>3, UnlinkMoves, GotSame DEF Moved
<1>4. CASE OpenList(p)
  <2>1. /\ run[p].pc = "taps" /\ run'[p].got = run[p].got
        /\ Moved(p, IF run[p].kind \in Loads THEN "join" ELSE "save", run[p].result)
    BY <1>4, OpenListMoves
  <2>2. ApkGood' /\ Got(p)'
    BY <1>1, <2>1 DEF GotInv, ApkGood, Got, Good, Moved, Answers
  <2> QED
    BY <1>1, <2>1, <2>2, GotBy DEF Moved
<1>5. CASE Exit(p)
  <2>1. Aside(p) /\ run'[p] = NoRun
    BY <1>5, ExitMoves
  <2>2. \A r \in Repos : run'[p].got[r] = 0 /\ 0 <= published[r]
    BY <2>1, NoRunIs, IndexTypes, PublishedIs
  <2>3. \A r \in Repos : run'[p].got[r] <= published[r]
    BY <2>2
  <2>4. ApkGood' /\ Got(p)'
    BY <1>1, <2>1, <2>3, NoRunIs DEF GotInv, ApkGood, Got, Good, Answers
  <2> QED
    BY <1>1, <2>1, <2>4, GotBy
<1>6. CASE Give(p)
  BY <1>1, <1>6, GiveMoves, GotSame DEF Moved
<1>7. CASE Truncate(p)
  BY <1>1, <1>7, GotoMoves, GotSame DEF Truncate, Moved, Pcs
<1>8. CASE Save(p)
  <2>1. run[p].pc = "list" /\ run'[p].got = run[p].got /\ Moved(p, "done", "ok")
    BY <1>8, DoneMoves DEF Save
  <2>2. run[p].kind \notin {"load", "update"}
    BY <2>1 DEF ControlInv
  <2>3. ApkGood' /\ Got(p)'
    BY <1>1, <2>1, <2>2 DEF GotInv, ApkGood, Got, Good, Moved, Answers
  <2> QED
    BY <1>1, <2>1, <2>3, GotBy DEF Moved
<1>9. CASE Join(p)
  <2>1. run[p].pc = "join" /\ run'[p].got = run[p].got /\ Moved(p, "done", "ok")
    BY <1>9, DoneMoves DEF Join
  <2>2. ApkGood' /\ Got(p)'
    BY <1>1, <2>1 DEF GotInv, ApkGood, Got, Good, Moved, Answers
  <2> QED
    BY <1>1, <2>1, <2>2, GotBy DEF Moved
<1> QED
  BY <1>2, <1>3, <1>4, <1>5, <1>6, <1>7, <1>8, <1>9

LEMMA GotStart ==
  ASSUME TypeOK, GotInv, NEW p \in Procs, NEW kind \in Kinds, NEW tap \in Taps \union {"none"},
         Start(p, kind, tap)
  PROVE  GotInv'
<1>1. UNCHANGED <<published, apk>>
  BY DEF Start, files
<1>2. \A r \in Repos : run'[p].got[r] <= published[r]
  <2>1. \A r \in Repos : run'[p].got[r] = 0 /\ published[r] \in Nat
    BY StartMoves, IndexTypes, PublishedIs
  <2> QED
    BY <2>1
<1>3. ApkGood' /\ Got(p)'
  BY <1>1, <1>2, StartMoves DEF GotInv, ApkGood, Got, Good, Answers
<1> QED
  BY <1>1, <1>3, StartMoves, GotBy

\* A publication is newer than those before it.
LEMMA PublishMoves ==
  ASSUME TypeOK, NEW s \in Repos \union Taps, Publish(s)
  PROVE  /\ \A x \in Repos \union Taps : published'[x] \in Nat /\ published[x] \in Nat /\ published[x] <= published'[x]
         /\ UNCHANGED <<files, run, thread, acked, kept>>
BY DEF TypeOK, Publish

LEMMA GotPublish == ASSUME TypeOK, GotInv, NEW s \in Repos \union Taps, Publish(s) PROVE GotInv'
<1>1. \A r \in Repos : published'[r] \in Nat /\ published[r] \in Nat /\ published[r] <= published'[r]
  BY PublishMoves
<1>2. UNCHANGED <<apk, run>>
  BY PublishMoves DEF files
<1>3. \A v \in Index : Good(v) => Good(v)'
  BY <1>1, IndexIs DEF Good
<1>4. \A p \in Procs : run[p].got \in Index
  BY DEF TypeOK, Runs
<1>5. \A p \in Procs : \A r \in Repos : run[p].got[r] <= published'[r]
  <2>1. \A p \in Procs : \A r \in Repos : run[p].got[r] <= published[r] /\ run[p].got[r] \in Nat
    BY <1>4, IndexIs DEF GotInv, Got
  <2> QED
    BY <1>1, <2>1
<1>6. \A p \in Procs : Got(p)'
  BY <1>2, <1>3, <1>4, <1>5 DEF GotInv, Got, Answers
<1>7. ApkGood'
  <2>1. \A i \in 1..Len(apk) : apk[i] \in Index
    BY ElementOfSeq DEF TypeOK, FileTypes
  <2> QED
    BY <1>2, <1>3, <2>1 DEF GotInv, ApkGood
<1> QED
  BY <1>6, <1>7 DEF GotInv

LEMMA GotInit == Init => GotInv
<1> SUFFICES ASSUME Init PROVE GotInv
  OBVIOUS
<1>1. ApkGood
  BY EmptySeq DEF Init, ApkGood
<1>2. \A p \in Procs : Got(p)
  BY NoRunIs, IndexTypes DEF Init, Got, Answers
<1> QED
  BY <1>1, <1>2 DEF GotInv

LEMMA GotStep == TypeOK /\ ControlInv /\ GotInv /\ [Next]_vars => GotInv'
<1> SUFFICES ASSUME TypeOK, ControlInv, GotInv, [Next]_vars PROVE GotInv'
  OBVIOUS
<1>1. ASSUME UNCHANGED <<published, apk, run>> PROVE GotInv'
  BY <1>1 DEF GotInv, ApkGood, Got, Answers, Good
<1>2. CASE (\E f \in {Apk} \union Keys : Expire(f)) \/ UNCHANGED vars
  BY <1>1, <1>2 DEF Expire, vars, files
<1>3. ASSUME NEW p \in Procs, NEW t \in Taps,
             TapCheck(p, t) \/ TapRead(p, t) \/ TapFetch(p, t) \/ TapFails(p, t) \/ TapCreate(p, t) \/ TapWrite(p, t)
      PROVE  GotInv'
  BY <1>1, <1>3, ThreadSteps
<1> QED
  BY <1>2, <1>3, Cases, GotRead, GotFetch, GotCreate, GotWrite, GotRest, GotStart, GotPublish

-----------------------------------------------------------------------------
(* The taps' indexes                                                       *)

\* What a thread's step has to show.
LEMMA TapBy ==
  ASSUME TapInv, NEW p \in Procs, NEW t \in Taps, Apart(p, t), UNCHANGED published,
         thread'[p][t].pc \in {"create", "write"} => thread'[p][t].of.tap = t,
         thread'[p][t].pc \in {"create", "write", "done"} => From(thread'[p][t].of, Key[t]),
         \A k \in Keys : caches'[k].ok => From(caches'[k].of, k)
  PROVE  TapInv'
BY DEF TapInv, Apart, From

LEMMA TapThreads ==
  ASSUME TypeOK, TapInv, NEW p \in Procs, NEW t \in Taps,
         TapCheck(p, t) \/ TapRead(p, t) \/ TapFetch(p, t) \/ TapFails(p, t) \/ TapCreate(p, t) \/ TapWrite(p, t)
  PROVE  TapInv'
<1>1. Apart(p, t) /\ UNCHANGED published
  BY ThreadSteps
<1>2. /\ caches[Key[t]].of \in TapIndex /\ published[t] \in Nat /\ Key[t] \in Keys
      /\ [tap |-> t, v |-> published[t]] \in TapIndex /\ caches \in [Keys -> [of : TapIndex, ok : BOOLEAN]]
  BY DEF TypeOK, FileTypes, Keys, TapIndex
<1>3. \A k \in Keys : caches[k].ok => From(caches[k].of, k)
  BY DEF TapInv
<1>4. CASE TapCheck(p, t)
  <2>1. thread'[p][t].pc \in {"read", "fetch"} /\ UNCHANGED caches
    BY <1>4, BecomeIs DEF TapCheck, files
  <2> QED
    BY <1>1, <1>3, <2>1, TapBy
<1>5. CASE TapRead(p, t)
  <2>1. UNCHANGED caches
    BY <1>5 DEF TapRead, files
  <2>2. CASE caches[Key[t]].ok
    <3>1. thread'[p][t].pc = "done" /\ thread'[p][t].of = caches[Key[t]].of
      BY <1>2, <1>5, <2>2, GoneIs DEF TapRead, Ended
    <3> QED
      BY <1>1, <1>2, <1>3, <2>1, <2>2, <3>1, TapBy
  <2>3. CASE ~caches[Key[t]].ok
    <3>1. thread'[p][t].pc = "failed"
      BY <1>5, <2>3, BecomeIs DEF TapRead, Ended
    <3> QED
      BY <1>1, <1>3, <2>1, <3>1, TapBy
  <2> QED
    BY <2>2, <2>3
<1>6. CASE TapFetch(p, t)
  <2>1. UNCHANGED caches /\ thread'[p][t].pc = "create" /\ thread'[p][t].of = [tap |-> t, v |-> published[t]]
    BY <1>2, <1>6, GoneIs DEF TapFetch, files
  <2>2. 0 < published[t]
    <3>1. published[t] \in Nat \ {0}
      BY DEF TypeOK
    <3> QED
      BY <3>1
  <2> QED
    BY <1>1, <1>2, <1>3, <2>1, <2>2, TapBy DEF From
<1>7. CASE TapFails(p, t)
  <2>1. UNCHANGED caches /\ thread'[p][t].pc = "unavailable"
    BY <1>7, BecomeIs DEF TapFails, files, Ended
  <2> QED
    BY <1>1, <1>3, <2>1, TapBy
<1>8. CASE TapCreate(p, t)
  <2>1. thread'[p][t].pc = "write" /\ thread'[p][t].of = thread[p][t].of
    BY <1>8, BecomeIs DEF TapCreate
  <2>2. thread[p][t].of.tap = t /\ From(thread[p][t].of, Key[t])
    BY <1>8 DEF TapInv, TapCreate
  <2>3. caches' = [caches EXCEPT ![Key[t]] = Torn]
    BY <1>8 DEF TapCreate
  <2>4. \A k \in Keys : caches'[k].ok => From(caches'[k].of, k)
    BY <1>2, <1>3, <2>3, IdleIs
  <2> QED
    BY <1>1, <2>1, <2>2, <2>4, TapBy
<1>9. CASE TapWrite(p, t)
  <2>1. thread'[p][t].pc = "done" /\ thread'[p][t].of = thread[p][t].of
    BY <1>9, BecomeIs DEF TapWrite, Ended
  <2>2. From(thread[p][t].of, Key[t])
    BY <1>9 DEF TapInv, TapWrite
  <2>3. PICK c \in {Torn, [of |-> thread[p][t].of, ok |-> TRUE]} : caches' = [caches EXCEPT ![Key[t]] = c]
    BY <1>9 DEF TapWrite
  <2>4. \A k \in Keys : caches'[k].ok => From(caches'[k].of, k)
    <3>1. c.ok => From(c.of, Key[t])
      BY <2>2, <2>3, IdleIs
    <3> QED
      BY <1>2, <1>3, <2>3, <3>1
  <2> QED
    BY <1>1, <2>1, <2>2, <2>4, TapBy
<1> QED
  BY <1>4, <1>5, <1>6, <1>7, <1>8, <1>9

\* What a command's step does to the taps' threads.
LEMMA TapCommands ==
  ASSUME TypeOK, TapInv, NEW p \in Procs, UNCHANGED <<published, caches>>,
         \A q \in Procs \ {p} : thread'[q] = thread[q],
         thread'[p] = thread[p] \/ \A t \in Taps : thread'[p][t].pc \notin {"create", "write", "done"}
  PROVE  TapInv'
<1>1. \A t \in Taps :
        /\ thread'[p][t].pc \in {"create", "write"} => thread'[p][t].of.tap = t
        /\ thread'[p][t].pc \in {"create", "write", "done"} => From(thread'[p][t].of, Key[t])
  BY DEF TapInv
<1>2. \A q \in Procs \ {p}, t \in Taps :
        /\ thread'[q][t].pc \in {"create", "write"} => thread'[q][t].of.tap = t
        /\ thread'[q][t].pc \in {"create", "write", "done"} => From(thread'[q][t].of, Key[t])
  BY DEF TapInv
<1> QED
  BY <1>1, <1>2 DEF TapInv, From

LEMMA TapPublish == ASSUME TypeOK, TapInv, NEW s \in Repos \union Taps, Publish(s) PROVE TapInv'
<1>1. \A x \in Taps : published'[x] \in Nat /\ published[x] \in Nat /\ published[x] <= published'[x]
  BY PublishMoves
<1>2. UNCHANGED <<caches, thread>>
  BY PublishMoves DEF files
<1>3. ASSUME NEW of \in TapIndex, NEW k, From(of, k) PROVE From(of, k)'
  BY <1>1, <1>3 DEF From, TapIndex
<1>4. \A k \in Keys : caches[k].of \in TapIndex
  BY DEF TypeOK, FileTypes
<1>5. \A p \in Procs, t \in Taps : thread[p][t].of \in TapIndex
  BY DEF TypeOK, Threads
<1> QED
  BY <1>2, <1>3, <1>4, <1>5 DEF TapInv

LEMMA TapInit == Init => TapInv
BY IdleIs DEF Init, TapInv

LEMMA TapStep == TypeOK /\ ControlInv /\ TapInv /\ [Next]_vars => TapInv'
<1> SUFFICES ASSUME TypeOK, ControlInv, TapInv, [Next]_vars PROVE TapInv'
  OBVIOUS
<1>1. ASSUME UNCHANGED <<published, caches, thread>> PROVE TapInv'
  BY <1>1 DEF TapInv, From
<1>2. CASE (\E f \in {Apk} \union Keys : Expire(f)) \/ UNCHANGED vars
  BY <1>1, <1>2 DEF Expire, vars, files
<1>3. ASSUME NEW p \in Procs,
             Remove(p) \/ Unlink(p) \/ Check(p) \/ Read(p) \/ (\E r \in Repos : Fetch(p, r))
               \/ Create(p) \/ Write(p) \/ Truncate(p) \/ Save(p) \/ Join(p)
      PROVE  TapInv'
  BY <1>1, <1>3 DEF Remove, Unlink, Check, Read, Fetch, Create, Write, Truncate, Save, Join, files
<1>4. ASSUME NEW p \in Procs, OpenList(p) PROVE TapInv'
  <2>1. UNCHANGED <<published, caches>>
    BY <1>4 DEF OpenList, files
  <2> QED
    BY <1>4, <2>1, OpenListThreads, TapCommands
<1>5. ASSUME NEW p \in Procs, Exit(p) \/ Give(p) PROVE TapInv'
  <2>1. UNCHANGED <<published, caches>> /\ thread' = [thread EXCEPT ![p] = [t \in Taps |-> Idle]]
    BY <1>5 DEF Exit, Give, files
  <2> QED
    BY <2>1, IdleAll, TapCommands
<1>6. ASSUME NEW p \in Procs, NEW kind \in Kinds, NEW tap \in Taps \union {"none"}, Start(p, kind, tap)
      PROVE  TapInv'
  BY <1>1, <1>6 DEF Start, files
<1> QED
  BY <1>2, <1>3, <1>4, <1>5, <1>6, Cases, TapThreads, TapPublish

LEMMA AnswersHold == Spec => [](GotInv /\ TapInv)
<1>1. TypeOK /\ ControlInv /\ GotInv /\ TapInv /\ [Next]_vars => (GotInv /\ TapInv)'
  BY GotStep, TapStep
<1> QED
  BY <1>1, TypesHold, GotInit, TapInit, PTL DEF Spec

\* Every answer is made of whole indexes that were published, whatever
\* commands, kills and failures met in the caches (ApkRegistry::load,
\* TapRegistry::load).
THEOREM AnswersAreWhole == Spec => []AnswerIsWhole
<1>1. TypeOK /\ GotInv /\ TapInv => AnswerIsWhole
  <2> SUFFICES ASSUME TypeOK, GotInv, TapInv, NEW p \in Procs, Answers(p, {"load", "update"})
               PROVE  /\ \A r \in Repos : run[p].got[r] \in 1..published[r]
                      /\ \A t \in run[p].known : thread[p][t].pc = "done" =>
                           LET of == thread[p][t].of
                           IN  of.tap \in Taps /\ Key[of.tap] = Key[t] /\ of.v \in 1..published[of.tap]
    BY DEF AnswerIsWhole
  <2>1. \A r \in Repos : run[p].got[r] \in Nat /\ published[r] \in Nat
    BY IndexIs, PublishedIs DEF TypeOK, Runs
  <2>2. \A r \in Repos : 0 < run[p].got[r] /\ run[p].got[r] <= published[r]
    BY DEF GotInv, Got, Good
  <2>3. \A r \in Repos : run[p].got[r] \in 1..published[r]
    BY <2>1, <2>2
  <2>4. run[p].known \subseteq Taps
    BY DEF TypeOK, Runs
  <2>5. ASSUME NEW t \in Taps, thread[p][t].pc = "done"
        PROVE  LET of == thread[p][t].of
               IN  of.tap \in Taps /\ Key[of.tap] = Key[t] /\ of.v \in 1..published[of.tap]
    <3> DEFINE of == thread[p][t].of
    <3>1. of.tap \in Taps /\ Key[of.tap] = Key[t] /\ 0 < of.v /\ of.v <= published[of.tap]
      BY <2>5 DEF TapInv, From
    <3>2. of.v \in Nat /\ published[of.tap] \in Nat
      BY <3>1 DEF TypeOK, Threads, TapIndex
    <3> HIDE DEF of
    <3>3. of.v \in 1..published[of.tap]
      BY <3>1, <3>2
    <3> QED
      BY <3>1, <3>3 DEF of
  <2> QED
    BY <2>3, <2>4, <2>5
<1> QED
  BY <1>1, TypesHold, AnswersHold, PTL

-----------------------------------------------------------------------------
(* Commands that are alone                                                 *)

\* A command's step is taken by a command that runs, and leaves it as alone
\* as it was.
LEMMA CommandMoves ==
  ASSUME TypeOK, ControlInv, NEW p \in Procs,
         \/ Remove(p) \/ Unlink(p) \/ Check(p) \/ Read(p) \/ (\E r \in Repos : Fetch(p, r)) \/ OpenList(p)
              \/ Exit(p) \/ Give(p)
         \/ Create(p) \/ Write(p) \/ Truncate(p) \/ Save(p) \/ Join(p)
  PROVE  Aside(p) /\ (run'[p].alone => run[p].alone) /\ (Busy(p) \/ ~Busy(p)')
<1>1. CASE Remove(p) \/ Check(p)
  <2>1. Goto(p, "unlink") \/ Goto(p, "check") \/ Goto(p, "read") \/ Goto(p, "fetch")
    BY <1>1 DEF Remove, Check, Goto
  <2> QED
    BY <1>1, <2>1, GotoMoves DEF Remove, Check, Moved, Pcs, Busy
<1>2. CASE Unlink(p)
  BY <1>2, UnlinkMoves DEF Moved, Busy
<1>3. CASE Read(p)
  BY <1>3, ReadMoves DEF Moved, Busy
<1>4. CASE \E r \in Repos : Fetch(p, r)
  BY <1>4, FetchMoves DEF Moved, Busy
<1>5. CASE OpenList(p)
  BY <1>5, OpenListMoves DEF Moved, Busy
<1>6. CASE Exit(p)
  BY <1>6, ExitMoves, NoRunIs DEF Busy
<1>7. CASE Give(p)
  BY <1>7, GiveMoves DEF Give, Moved
<1>8. CASE Create(p)
  BY <1>8, CreateMoves DEF Moved, Busy
<1>9. CASE Write(p)
  BY <1>9, WriteMoves DEF Write, ControlInv, Moved, Busy
<1>10. CASE Truncate(p)
  BY <1>10, GotoMoves DEF Truncate, Moved, Busy, Pcs
<1>11. CASE Save(p)
  BY <1>11, DoneMoves DEF Save, Moved, Busy
<1>12. CASE Join(p)
  BY <1>12, DoneMoves DEF Join, Moved, Busy
<1> QED
  BY <1>1, <1>2, <1>3, <1>4, <1>5, <1>6, <1>7, <1>8, <1>9, <1>10, <1>11, <1>12

LEMMA AloneStep == TypeOK /\ ControlInv /\ AloneInv /\ [Next]_vars => AloneInv'
<1> SUFFICES ASSUME TypeOK, ControlInv, AloneInv, [Next]_vars PROVE AloneInv'
  OBVIOUS
<1>1. ASSUME UNCHANGED run PROVE AloneInv'
  BY <1>1 DEF AloneInv, Busy
<1>2. CASE (\E s \in Repos \union Taps : Publish(s)) \/ (\E f \in {Apk} \union Keys : Expire(f)) \/ UNCHANGED vars
  BY <1>1, <1>2 DEF Publish, Expire, vars
<1>3. ASSUME NEW p \in Procs, NEW t \in Taps,
             TapCheck(p, t) \/ TapRead(p, t) \/ TapFetch(p, t) \/ TapFails(p, t) \/ TapCreate(p, t) \/ TapWrite(p, t)
      PROVE  AloneInv'
  BY <1>1, <1>3, ThreadSteps
<1>4. ASSUME NEW p \in Procs, Aside(p), run'[p].alone => run[p].alone, Busy(p) \/ ~Busy(p)'
      PROVE  AloneInv'
  BY <1>4 DEF AloneInv, Aside, Busy
<1>5. ASSUME NEW p \in Procs, NEW kind \in Kinds, NEW tap \in Taps \union {"none"}, Start(p, kind, tap)
      PROVE  AloneInv'
  <2>1. Aside(p) /\ (\A q \in Procs \ {p} : ~run'[q].alone)
        /\ (run'[p].alone => \A q \in Procs \ {p} : ~Busy(q))
    BY <1>5, StartMoves
  <2> QED
    BY <2>1 DEF AloneInv, Aside, Busy
<1> QED
  BY <1>2, <1>3, <1>4, <1>5, Cases, CommandMoves

LEMMA AloneHolds == Spec => []AloneInv
<1>1. Init => AloneInv
  BY NoRunIs DEF Init, AloneInv
<1> QED
  BY <1>1, AloneStep, TypesHold, PTL DEF Spec

-----------------------------------------------------------------------------
(* The list of taps                                                        *)

\* What KeptInv says of p.
Keeper(p) ==
  run[p].alone =>
    /\ run[p].kind = "remove" /\ Busy(p) => run[p].tap \notin kept
    /\ run[p].pc \in {"save", "list"} =>
         /\ kept \subseteq run[p].known
         /\ run[p].kind = "add" => run[p].tap \in run[p].known
    /\ run[p].pc = "list" => list.taps = {} /\ List \in present

LEMMA KeptIs == KeptInv <=> TapsKept /\ \A p \in Procs : Keeper(p)
BY DEF KeptInv, Keeper

\* A command other than p that is alone waits for nobody.
LEMMA KeeperAside ==
  ASSUME AloneInv, NEW p \in Procs, Busy(p), Aside(p)
  PROVE  \A q \in Procs \ {p} : Keeper(q)'
<1>1. \A q \in Procs \ {p} : ~run[q].alone
  BY DEF AloneInv
<1> QED
  BY <1>1 DEF Keeper, Aside

\* An action that neither writes the list nor changes what must be kept.
LEMMA KeptQuiet ==
  ASSUME AloneInv, KeptInv, NEW p \in Procs, NEW pc, NEW result, Busy(p), Moved(p, pc, result),
         UNCHANGED <<list, kept>>, List \in present => List \in present',
         run[p].pc \notin {"save", "list"}, pc \notin {"save", "list"}
  PROVE  KeptInv'
<1>1. Keeper(p)'
  BY KeptIs DEF Keeper, Busy, Moved
<1>2. TapsKept'
  <2>1. ASSUME \A q \in Procs : run'[q].pc # "list" PROVE \A q \in Procs : run[q].pc # "list"
    BY <2>1 DEF Aside, Moved
  <2>2. ReadList \subseteq ReadList'
    BY DEF ReadList
  <2> QED
    BY <2>1, <2>2 DEF KeptInv, TapsKept
<1>3. \A q \in Procs : Keeper(q)'
  BY <1>1, KeeperAside DEF Moved
<1> QED
  BY <1>2, <1>3 DEF KeptInv, Keeper

LEMMA KeptRegistry ==
  ASSUME TypeOK, ControlInv, AloneInv, KeptInv, NEW p \in Procs,
         Remove(p) \/ Unlink(p) \/ Check(p) \/ Read(p) \/ (\E r \in Repos : Fetch(p, r)) \/ Create(p) \/ Write(p)
           \/ Join(p)
  PROVE  KeptInv'
<1>1. UNCHANGED <<list, kept>>
  BY DEF Remove, Unlink, Check, Read, Fetch, Create, Write, Join, files
<1>2. run[p].pc \notin {"save", "list"} /\ Busy(p)
  BY DEF Remove, Unlink, Check, Read, Fetch, Create, Write, Join, Busy
<1>3. List \in present => List \in present'
  BY DEF Remove, Unlink, Check, Read, Fetch, Create, Write, Join, files, List, Apk
<1>4. PICK pc, result : pc \in {"unlink", "check", "read", "fetch", "write", "taps", "done"} /\ Moved(p, pc, result)
  <2>1. CASE Remove(p) \/ Check(p)
    <3>1. Goto(p, "unlink") \/ Goto(p, "check") \/ Goto(p, "read") \/ Goto(p, "fetch")
      BY <2>1 DEF Remove, Check, Goto
    <3> QED
      BY <3>1, GotoMoves DEF Pcs
  <2>2. CASE Unlink(p)
    BY <2>2, UnlinkMoves
  <2>3. CASE Read(p)
    BY <2>3, ReadMoves
  <2>4. CASE \E r \in Repos : Fetch(p, r)
    <3>1. Moved(p, "fetch", run[p].result)
      BY <2>4, FetchMoves
    <3> QED
      BY <3>1
  <2>5. CASE Create(p)
    BY <2>5, CreateMoves
  <2>6. CASE Write(p)
    <3>1. run[p].part < Parts
      BY <2>6 DEF Write, ControlInv
    <3>2. Moved(p, "write", run[p].result) \/ Moved(p, "taps", run[p].result)
      BY <2>6, <3>1, WriteMoves
    <3> QED
      BY <3>2
  <2>7. CASE Join(p)
    BY <2>7, DoneMoves DEF Join
  <2> QED
    BY <2>1, <2>2, <2>3, <2>4, <2>5, <2>6, <2>7
<1> QED
  BY <1>1, <1>2, <1>3, <1>4, KeptQuiet

LEMMA KeptOpenList == ASSUME TypeOK, ControlInv, AloneInv, KeptInv, NEW p \in Procs, OpenList(p) PROVE KeptInv'
<1>1. UNCHANGED <<list, kept, present>> /\ Busy(p) /\ run[p].pc = "taps"
  BY DEF OpenList, files, Busy
<1>2. Moved(p, IF run[p].kind \in Loads THEN "join" ELSE "save", run[p].result) /\ run'[p].known = Known(p)
  BY OpenListMoves
<1>3. run[p].kind \notin Loads => run[p].kind \in {"add", "remove"}
  BY <1>1 DEF ControlInv, Kinds, Loads
<1>4. Keeper(p)'
  <2>1. ASSUME run[p].alone, run[p].kind \in {"add", "remove"}
        PROVE  /\ kept \subseteq Known(p)
               /\ run[p].kind = "add" => run[p].tap \in Known(p)
    <3>1. \A q \in Procs : run[q].pc # "list"
      BY <1>1, <2>1 DEF AloneInv, Busy
    <3>2. kept \subseteq ReadList
      BY <3>1 DEF KeptInv, TapsKept
    <3>3. CASE run[p].kind = "add"
      BY <3>2, <3>3 DEF Known
    <3>4. CASE run[p].kind = "remove"
      <4>1. run[p].tap \notin kept
        BY <1>1, <2>1, <3>4, KeptIs DEF Keeper
      <4> QED
        BY <3>2, <3>4, <4>1 DEF Known
    <3> QED
      BY <2>1, <3>3, <3>4
  <2>2. run[p].alone /\ run[p].kind = "remove" => run[p].tap \notin kept
    BY <1>1, KeptIs DEF Keeper
  <2> QED
    BY <1>1, <1>2, <1>3, <2>1, <2>2 DEF Keeper, Moved, Loads
<1>5. TapsKept'
  <2>1. ASSUME \A q \in Procs : run'[q].pc # "list" PROVE \A q \in Procs : run[q].pc # "list"
    BY <1>1, <2>1, <1>2 DEF Aside, Moved
  <2> QED
    BY <1>1, <2>1 DEF KeptInv, TapsKept, ReadList
<1>6. \A q \in Procs : Keeper(q)'
  BY <1>1, <1>2, <1>4, KeeperAside DEF Moved
<1> QED
  BY <1>5, <1>6 DEF KeptInv, Keeper

LEMMA KeptTruncate == ASSUME TypeOK, ControlInv, AloneInv, KeptInv, NEW p \in Procs, Truncate(p) PROVE KeptInv'
<1>1. /\ run[p].pc = "save" /\ Busy(p) /\ UNCHANGED kept
      /\ list' = [taps |-> {}, ok |-> FALSE] /\ List \in present'
  BY DEF Truncate, Busy
<1>2. Moved(p, "list", run[p].result) /\ run'[p].known = run[p].known
  BY GotoMoves DEF Truncate, Pcs
<1>3. Keeper(p)'
  BY <1>1, <1>2, KeptIs DEF Keeper, Moved
<1>4. TapsKept'
  BY <1>2 DEF TapsKept, Moved
<1>5. \A q \in Procs : Keeper(q)'
  BY <1>1, <1>2, <1>3, KeeperAside DEF Moved
<1> QED
  BY <1>4, <1>5 DEF KeptInv, Keeper

LEMMA KeptSave == ASSUME TypeOK, ControlInv, AloneInv, KeptInv, NEW p \in Procs, Save(p) PROVE KeptInv'
<1>1. run[p].pc = "list" /\ Busy(p) /\ UNCHANGED present
  BY DEF Save, Busy
<1>2. Moved(p, "done", "ok")
  BY DoneMoves DEF Save
<1>3. run[p].known \subseteq Taps /\ run[p].known \in SUBSET Taps
  BY DEF TypeOK, Runs
<1>4. CASE ~run[p].alone
  <2>1. kept' = {}
    BY <1>4 DEF Save
  <2>2. TapsKept' /\ Keeper(p)'
    BY <1>2, <1>4, <2>1 DEF TapsKept, Keeper, Moved
  <2>3. \A q \in Procs : Keeper(q)'
    BY <1>1, <1>2, <2>2, KeeperAside DEF Moved
  <2> QED
    BY <2>2, <2>3 DEF KeptInv, Keeper
<1>5. CASE run[p].alone
  <2>1. list.taps = {} /\ List \in present /\ kept \subseteq run[p].known
        /\ (run[p].kind = "add" => run[p].tap \in run[p].known)
    BY <1>1, <1>5 DEF KeptInv
  <2>2. kept' \subseteq run[p].known
    BY <1>5, <2>1 DEF Save
  <2>3. list' = [taps |-> run[p].known, ok |-> TRUE]
    <3>1. Cardinality({}) = 0
      BY FS_EmptySet
    <3>2. IsFiniteSet(run[p].known)
      BY <1>3, FS_Subset, RegistryAssumption
    <3>3. Cardinality(run[p].known) \in Nat
      BY <3>2, FS_CardinalityType
    <3>4. ~(Cardinality(list.taps) > Cardinality(run[p].known))
      BY <2>1, <3>1, <3>3
    <3> QED
      BY <3>4 DEF Save
  <2>4. ReadList' = run[p].known
    BY <1>1, <2>1, <2>3 DEF ReadList
  <2>5. TapsKept'
    BY <2>2, <2>4 DEF TapsKept
  <2>6. Keeper(p)'
    BY <1>2 DEF Keeper, Moved, Busy
  <2>7. \A q \in Procs : Keeper(q)'
    BY <1>1, <1>2, <2>6, KeeperAside DEF Moved
  <2> QED
    BY <2>5, <2>7 DEF KeptInv, Keeper
<1> QED
  BY <1>4, <1>5

LEMMA KeptGive == ASSUME TypeOK, ControlInv, AloneInv, KeptInv, NEW p \in Procs, Give(p) PROVE KeptInv'
<1>1. Busy(p) /\ UNCHANGED <<list, present>> /\ kept' = IF run[p].pc = "list" THEN {} ELSE kept
  BY DEF Give, files
<1>2. Moved(p, "idle", run[p].result) \/ Moved(p, "done", "failed")
  BY GiveMoves
<1>3. Keeper(p)'
  BY <1>2 DEF Keeper, Moved, Busy
<1>4. TapsKept'
  <2>1. CASE run[p].pc = "list"
    BY <1>1, <2>1 DEF TapsKept
  <2>2. CASE run[p].pc # "list"
    <3>1. ASSUME \A q \in Procs : run'[q].pc # "list" PROVE \A q \in Procs : run[q].pc # "list"
      BY <1>2, <2>2, <3>1 DEF Aside, Moved
    <3> QED
      BY <1>1, <2>2, <3>1 DEF KeptInv, TapsKept, ReadList
  <2> QED
    BY <2>1, <2>2
<1>5. \A q \in Procs : Keeper(q)'
  BY <1>1, <1>2, <1>3, KeeperAside DEF Moved
<1> QED
  BY <1>4, <1>5 DEF KeptInv, Keeper

LEMMA KeptExit == ASSUME TypeOK, ControlInv, AloneInv, KeptInv, NEW p \in Procs, Exit(p) PROVE KeptInv'
<1>1. run[p].pc = "done" /\ UNCHANGED <<list, present, kept>>
  BY DEF Exit, files
<1>2. Aside(p) /\ run'[p] = NoRun
  BY ExitMoves
<1>3. TapsKept'
  <2>1. ASSUME \A q \in Procs : run'[q].pc # "list" PROVE \A q \in Procs : run[q].pc # "list"
    BY <1>1, <1>2, <2>1 DEF Aside
  <2> QED
    BY <1>1, <2>1 DEF KeptInv, TapsKept, ReadList
<1>4. \A q \in Procs : Keeper(q)'
  BY <1>1, <1>2, NoRunIs, KeptIs DEF Keeper, Aside, Busy
<1> QED
  BY <1>3, <1>4 DEF KeptInv, Keeper

LEMMA KeptStart ==
  ASSUME TypeOK, ControlInv, AloneInv, KeptInv, NEW p \in Procs, NEW kind \in Kinds,
         NEW tap \in Taps \union {"none"}, Start(p, kind, tap)
  PROVE  KeptInv'
<1>1. UNCHANGED <<list, present>> /\ kept' = IF kind = "remove" THEN kept \ {tap} ELSE kept
  BY DEF Start, files
<1>2. /\ Aside(p) /\ \A q \in Procs \ {p} : ~run'[q].alone
      /\ run[p].pc = "idle" /\ run'[p].kind = kind /\ run'[p].tap = tap
      /\ run'[p].pc \in {"check", "remove", "taps"}
  <2>1. run'[p].pc = IF kind = "load" THEN "check" ELSE IF kind = "update" THEN "remove" ELSE "taps"
    BY StartMoves
  <2>2. run'[p].pc \in {"check", "remove", "taps"}
    BY <2>1
  <2> QED
    BY <2>2, StartMoves
<1>3. TapsKept'
  <2>1. ASSUME \A q \in Procs : run'[q].pc # "list" PROVE \A q \in Procs : run[q].pc # "list"
    BY <1>2, <2>1 DEF Aside
  <2>2. kept' \subseteq kept
    BY <1>1
  <2> QED
    BY <1>1, <2>1, <2>2 DEF KeptInv, TapsKept, ReadList
<1>4. \A q \in Procs : Keeper(q)'
  BY <1>1, <1>2 DEF Keeper
<1> QED
  BY <1>3, <1>4 DEF KeptInv, Keeper

LEMMA KeptElsewhere ==
  ASSUME KeptInv, UNCHANGED <<run, list, kept>>, List \in present => List \in present'
  PROVE  KeptInv'
BY DEF KeptInv, TapsKept, ReadList, Busy

LEMMA KeptStep == TypeOK /\ ControlInv /\ AloneInv /\ KeptInv /\ [Next]_vars => KeptInv'
<1> SUFFICES ASSUME TypeOK, ControlInv, AloneInv, KeptInv, [Next]_vars PROVE KeptInv'
  OBVIOUS
<1>1. CASE (\E s \in Repos \union Taps : Publish(s)) \/ (\E f \in {Apk} \union Keys : Expire(f)) \/ UNCHANGED vars
  BY <1>1, KeptElsewhere DEF Publish, Expire, vars, files
<1>2. ASSUME NEW p \in Procs, NEW t \in Taps,
             TapCheck(p, t) \/ TapRead(p, t) \/ TapFetch(p, t) \/ TapFails(p, t) \/ TapCreate(p, t) \/ TapWrite(p, t)
      PROVE  KeptInv'
  <2>1. UNCHANGED <<run, list, kept>>
    BY <1>2, ThreadSteps
  <2>2. List \in present => List \in present'
    BY <1>2 DEF TapCheck, TapRead, TapFetch, TapFails, TapCreate, TapWrite, files
  <2> QED
    BY <2>1, <2>2, KeptElsewhere
<1> QED
  BY <1>1, <1>2, Cases, KeptRegistry, KeptOpenList, KeptTruncate, KeptSave, KeptGive, KeptExit, KeptStart

\* A tap that was added stays in the list until it is removed, unless
\* commands overlapped or a save was cut off (Taps::new, save).
THEOREM AddedTapsStay == Spec => []TapsKept
<1>1. Init => KeptInv
  <2> SUFFICES ASSUME Init PROVE KeptInv
    OBVIOUS
  <2>1. kept \subseteq ReadList
    BY DEF Init, ReadList
  <2> QED
    BY <2>1, NoRunIs DEF Init, KeptInv, TapsKept
<1>2. KeptInv => TapsKept
  BY DEF KeptInv
<1> QED
  BY <1>1, <1>2, KeptStep, TypesHold, AloneHolds, PTL DEF Spec

-----------------------------------------------------------------------------
(* Updates of the taps                                                     *)

LEMMA MendBy ==
  ASSUME MendInv, NEW p \in Procs, Aside(p), UNCHANGED caches,
         \A q \in Procs \ {p} : thread'[q] = thread[q], Mender(p)'
  PROVE  MendInv'
<1>1. \A q \in Procs \ {p} : Mender(q)'
  BY DEF MendInv, Mender, Joined, Answers, Sole, Aside
<1> QED
  BY <1>1 DEF MendInv

\* p does not wait for threads and has none that uses a cache.
LEMMA MendQuiet ==
  ASSUME MendInv, NEW p \in Procs, Aside(p), UNCHANGED caches,
         \A q \in Procs \ {p} : thread'[q] = thread[q],
         ~Joined(p)', \A t \in Taps : thread'[p][t].pc = "no"
  PROVE  MendInv'
<1>1. Mender(p)'
  BY DEF Mender
<1> QED
  BY <1>1, MendBy

LEMMA MendRegistry ==
  ASSUME TypeOK, ControlInv, MendInv, NEW p \in Procs,
         Remove(p) \/ Unlink(p) \/ Check(p) \/ Read(p) \/ (\E r \in Repos : Fetch(p, r)) \/ Create(p) \/ Write(p)
           \/ Truncate(p) \/ Save(p)
  PROVE  MendInv'
<1>1. UNCHANGED <<caches, thread>>
  BY DEF Remove, Unlink, Check, Read, Fetch, Create, Write, Truncate, Save, files
<1>2. run[p].pc \notin {"join", "done"} /\ (run[p].pc = "list" <=> Save(p))
  BY DEF Remove, Unlink, Check, Read, Fetch, Create, Write, Truncate, Save
<1>3. \A t \in Taps : thread[p][t].pc = "no"
  BY <1>2 DEF ControlInv
<1>4. CASE Save(p)
  <2>1. Moved(p, "done", "ok") /\ run[p].kind \in {"add", "remove"}
    BY <1>4, DoneMoves DEF Save, ControlInv
  <2>2. ~Joined(p)'
    BY <2>1 DEF Joined, Answers, Moved, Loads
  <2> QED
    BY <1>1, <1>3, <2>1, <2>2, MendQuiet DEF Moved
<1>5. CASE ~Save(p)
  <2>1. CASE Unlink(p)
    <3>1. Moved(p, "done", "failed") \/ Moved(p, "check", run[p].result)
      BY <2>1, UnlinkMoves
    <3>2. ~Joined(p)'
      BY <3>1 DEF Joined, Answers, Moved
    <3> QED
      BY <1>1, <1>3, <3>1, <3>2, MendQuiet DEF Moved
  <2>2. CASE ~Unlink(p)
    <3>1. PICK pc \in {"unlink", "check", "read", "fetch", "write", "taps", "list"} : Moved(p, pc, run[p].result)
      <4>1. CASE Remove(p) \/ Check(p)
        <5>1. Goto(p, "unlink") \/ Goto(p, "check") \/ Goto(p, "read") \/ Goto(p, "fetch")
          BY <4>1 DEF Remove, Check, Goto
        <5> QED
          BY <5>1, GotoMoves DEF Pcs
      <4>2. CASE Read(p)
        BY <4>2, ReadMoves
      <4>3. CASE \E r \in Repos : Fetch(p, r)
        BY <4>3, FetchMoves
      <4>4. CASE Create(p)
        BY <4>4, CreateMoves
      <4>5. CASE Write(p)
        BY <4>5, WriteMoves DEF Write, ControlInv
      <4>6. CASE Truncate(p)
        BY <4>6, GotoMoves DEF Truncate, Pcs
      <4> QED
        BY <1>5, <2>2, <4>1, <4>2, <4>3, <4>4, <4>5, <4>6
    <3>2. ~Joined(p)'
      BY <3>1 DEF Joined, Answers, Moved
    <3> QED
      BY <1>1, <1>3, <3>1, <3>2, MendQuiet DEF Moved
  <2> QED
    BY <2>1, <2>2
<1> QED
  BY <1>4, <1>5

LEMMA MendEnds == ASSUME TypeOK, ControlInv, MendInv, NEW p \in Procs, Exit(p) \/ Give(p) PROVE MendInv'
<1>1. UNCHANGED caches /\ thread' = [thread EXCEPT ![p] = [t \in Taps |-> Idle]]
  BY DEF Exit, Give, files
<1>2. Aside(p) /\ ~Joined(p)'
  <2>1. CASE Exit(p)
    BY <2>1, ExitMoves, NoRunIs DEF Joined, Answers
  <2>2. CASE Give(p)
    BY <2>2, GiveMoves DEF Joined, Answers, Moved
  <2> QED
    BY <2>1, <2>2
<1> QED
  BY <1>1, <1>2, IdleAll, MendQuiet

LEMMA MendOpenList == ASSUME TypeOK, ControlInv, MendInv, NEW p \in Procs, OpenList(p) PROVE MendInv'
<1>1. UNCHANGED caches
  BY DEF OpenList, files
<1>2. Moved(p, IF run[p].kind \in Loads THEN "join" ELSE "save", run[p].result) /\ run'[p].known = Known(p)
  BY OpenListMoves
<1>3. /\ \A q \in Procs \ {p} : thread'[q] = thread[q]
      /\ \A t \in Taps : thread'[p][t].pc =
              IF run[p].kind \notin Loads \/ t \notin Known(p) THEN "no"
              ELSE IF run[p].kind = "load" THEN "check" ELSE "fetch"
  BY OpenListThreads
<1>4. run'[p].kind = run[p].kind /\ (Joined(p)' => run[p].kind \in Loads)
  BY <1>2 DEF Joined, Answers, Moved
<1>5. Known(p) \subseteq Taps
  BY OpenListMoves
<1>6. Mender(p)'
  BY <1>2, <1>3, <1>4, <1>5 DEF Mender, Updates
<1> QED
  BY <1>1, <1>2, <1>3, <1>6, MendBy DEF Moved

LEMMA MendJoin == ASSUME TypeOK, ControlInv, MendInv, NEW p \in Procs, Join(p) PROVE MendInv'
<1>1. UNCHANGED <<caches, thread>> /\ run[p].pc = "join"
  BY DEF Join, files
<1>2. Moved(p, "done", "ok") /\ run'[p].known = run[p].known
  BY DoneMoves DEF Join
<1>3. Mender(p)'
  BY <1>1, <1>2 DEF MendInv, Mender, Joined, Sole, Moved
<1> QED
  BY <1>1, <1>2, <1>3, MendBy DEF Moved

LEMMA MendStart ==
  ASSUME TypeOK, ControlInv, MendInv, NEW p \in Procs, NEW kind \in Kinds, NEW tap \in Taps \union {"none"},
         Start(p, kind, tap)
  PROVE  MendInv'
<1>1. UNCHANGED <<caches, thread>>
  BY DEF Start, files
<1>2. Aside(p) /\ run[p].pc = "idle" /\ run'[p].pc = IF kind = "load" THEN "check" ELSE IF kind = "update" THEN "remove" ELSE "taps"
  BY StartMoves
<1>3. ~Joined(p)'
  BY <1>2 DEF Joined, Answers
<1>4. \A t \in Taps : thread[p][t].pc = "no"
  BY <1>2 DEF ControlInv
<1> QED
  BY <1>1, <1>2, <1>3, <1>4, MendQuiet

LEMMA MendThread ==
  ASSUME TypeOK, ControlInv, AloneInv, TapInv, MendInv, NEW p \in Procs, NEW t \in Taps,
         TapCheck(p, t) \/ TapRead(p, t) \/ TapFetch(p, t) \/ TapFails(p, t) \/ TapCreate(p, t) \/ TapWrite(p, t)
  PROVE  MendInv'
<1>1. Apart(p, t) /\ UNCHANGED run /\ run[p].pc = "join" /\ Busy(p) /\ thread[p][t].pc \notin Ended
  BY ThreadSteps, ActiveJoins
<1>2. ASSUME NEW q \in Procs \ {p} PROVE Mender(q)'
  <2>1. ~run[q].alone /\ \A u \in Taps : thread'[q][u] = thread[q][u]
    BY <1>1 DEF AloneInv, Apart
  <2> QED
    BY <1>1, <2>1 DEF MendInv, Mender, Joined, Answers
<1>3. t \in run[p].known /\ run[p].known \subseteq Taps
  BY <1>1 DEF MendInv, Mender, Joined, Ended, TypeOK, Runs
<1>4. caches \in [Keys -> [of : TapIndex, ok : BOOLEAN]] /\ \A u \in Taps : Key[u] \in Keys
  BY DEF TypeOK, FileTypes, Keys
<1>5. \A u \in Taps \ {t} : thread'[p][u] = thread[p][u]
  BY <1>1 DEF Apart
<1>6. ASSUME NEW u \in run[p].known \ {t}, Sole(p, u) PROVE caches'[Key[u]] = caches[Key[u]]
  <2>1. Key[u] # Key[t]
    BY <1>3, <1>6 DEF Sole
  <2>2. UNCHANGED caches \/ \E c : caches' = [caches EXCEPT ![Key[t]] = c]
    BY DEF TapCheck, TapRead, TapFetch, TapFails, TapCreate, TapWrite, files
  <2> QED
    BY <1>3, <1>4, <2>1, <2>2
<1>7. /\ thread'[p][t].pc # "no"
      /\ run[p].kind # "load" =>
           /\ thread'[p][t].pc \notin {"check", "read", "failed"}
           /\ thread'[p][t].pc = "write" => ~caches'[Key[t]].ok
           /\ run[p].alone /\ run[p].kind \in Updates /\ Sole(p, t) /\ thread'[p][t].pc = "done" =>
                caches'[Key[t]].ok /\ caches'[Key[t]].of.tap = t
  <2>1. CASE TapCheck(p, t)
    <3>1. thread'[p][t].pc \in {"read", "fetch"} /\ thread[p][t].pc = "check"
      BY <2>1, BecomeIs DEF TapCheck
    <3> QED
      BY <3>1 DEF MendInv, Mender
  <2>2. CASE TapRead(p, t)
    <3>1. caches[Key[t]].of \in TapIndex
      BY <1>4
    <3>2. thread'[p][t].pc \in {"done", "failed"} /\ thread[p][t].pc = "read"
      BY <2>2, <3>1, BecomeIs, GoneIs DEF TapRead, Ended
    <3> QED
      BY <3>2 DEF MendInv, Mender
  <2>3. CASE TapFetch(p, t)
    <3>1. [tap |-> t, v |-> published[t]] \in TapIndex
      BY DEF TypeOK, TapIndex
    <3>2. thread'[p][t].pc = "create"
      BY <2>3, <3>1, GoneIs DEF TapFetch
    <3> QED
      BY <3>2
  <2>4. CASE TapFails(p, t)
    <3>1. thread'[p][t].pc = "unavailable"
      BY <2>4, BecomeIs DEF TapFails, Ended
    <3> QED
      BY <3>1
  <2>5. CASE TapCreate(p, t)
    <3>1. thread'[p][t].pc = "write" /\ caches'[Key[t]] = Torn
      BY <1>4, <2>5, BecomeIs DEF TapCreate
    <3> QED
      BY <3>1, IdleIs
  <2>6. CASE TapWrite(p, t)
    <3>1. thread'[p][t].pc = "done" /\ thread[p][t].pc = "write" /\ thread[p][t].of.tap = t
      BY <2>6, BecomeIs DEF TapWrite, Ended, TapInv
    <3>2. ASSUME run[p].alone, run[p].kind \in Updates, Sole(p, t)
          PROVE  caches'[Key[t]].ok /\ caches'[Key[t]].of.tap = t
      <4>1. ~caches[Key[t]].ok
        BY <1>1, <1>3, <3>1, <3>2 DEF MendInv, Mender, Joined
      <4>2. caches' = [caches EXCEPT ![Key[t]] = [of |-> thread[p][t].of, ok |-> TRUE]]
        BY <2>6, <4>1 DEF TapWrite
      <4> QED
        BY <1>4, <3>1, <4>2
    <3> QED
      BY <3>1, <3>2
  <2> QED
    BY <2>1, <2>2, <2>3, <2>4, <2>5, <2>6
<1>8. \A u \in Taps \ {t} :
        /\ thread'[p][u].pc = "no" <=> u \notin run[p].known
        /\ run[p].kind # "load" => thread'[p][u].pc \notin {"check", "read", "failed"}
  BY <1>1, <1>5 DEF MendInv, Mender, Joined
<1>9. ASSUME run[p].alone, run[p].kind \in Updates, NEW u \in run[p].known, Sole(p, u)
      PROVE  /\ thread'[p][u].pc = "write" => ~caches'[Key[u]].ok
             /\ thread'[p][u].pc = "done" => caches'[Key[u]].ok /\ caches'[Key[u]].of.tap = u
  <2>1. CASE u = t
    BY <1>7, <1>9, <2>1 DEF Updates
  <2>2. CASE u # t
    <3>1. caches'[Key[u]] = caches[Key[u]] /\ thread'[p][u] = thread[p][u]
      BY <1>3, <1>5, <1>6, <1>9, <2>2
    <3>2. /\ thread[p][u].pc = "write" => ~caches[Key[u]].ok
          /\ thread[p][u].pc = "done" => caches[Key[u]].ok /\ caches[Key[u]].of.tap = u
      BY <1>1, <1>9 DEF MendInv, Mender, Joined
    <3> QED
      BY <3>1, <3>2
  <2> QED
    BY <2>1, <2>2
<1>10. Mender(p)'
  BY <1>1, <1>3, <1>7, <1>8, <1>9 DEF Mender, Sole
<1> QED
  BY <1>2, <1>10 DEF MendInv

LEMMA MendStep == TypeOK /\ ControlInv /\ AloneInv /\ TapInv /\ MendInv /\ [Next]_vars => MendInv'
<1> SUFFICES ASSUME TypeOK, ControlInv, AloneInv, TapInv, MendInv, [Next]_vars PROVE MendInv'
  OBVIOUS
<1>1. CASE (\E s \in Repos \union Taps : Publish(s)) \/ (\E f \in {Apk} \union Keys : Expire(f)) \/ UNCHANGED vars
  <2>1. UNCHANGED <<run, thread, caches>>
    BY <1>1 DEF Publish, Expire, vars, files
  <2> QED
    BY <2>1 DEF MendInv, Mender, Joined, Answers, Sole
<1> QED
  BY <1>1, Cases, MendRegistry, MendEnds, MendOpenList, MendJoin, MendStart, MendThread

\* An update that runs alone mends the cache of every tap it reaches, whatever
\* was left there (TapRegistry::update).
THEOREM UpdatesMend == Spec => []UpdateMendsTaps
<1>1. Init => MendInv
  BY NoRunIs, IdleIs DEF Init, MendInv, Mender, Joined, Answers
<1>2. TypeOK /\ ControlInv /\ MendInv => UpdateMendsTaps
  <2> SUFFICES ASSUME TypeOK, ControlInv, MendInv, NEW p \in Procs,
                      Answers(p, {"update", "tap-update"}), run[p].alone, NEW t \in run[p].known,
                      thread[p][t].pc # "unavailable", Sole(p, t)
               PROVE  caches[Key[t]].ok /\ caches[Key[t]].of.tap = t
    BY DEF UpdateMendsTaps, Sole
  <2>1. Joined(p) /\ run[p].kind \in Updates /\ run[p].pc = "done" /\ t \in Taps
    BY DEF Joined, Answers, Loads, Updates, TypeOK, Runs
  <2>2. thread[p][t].pc \in Ended
    BY <2>1 DEF ControlInv
  <2>3. thread[p][t].pc = "done"
    BY <2>1, <2>2 DEF MendInv, Mender, Ended, Updates
  <2> QED
    BY <2>1, <2>3 DEF MendInv, Mender
<1> QED
  BY <1>1, <1>2, MendStep, TypesHold, AloneHolds, AnswersHold, PTL DEF Spec

-----------------------------------------------------------------------------
(* Updates of Alpine's index                                               *)

LEMMA SeenTypes ==
  ASSUME TypeOK
  PROVE  /\ \A r \in Repos : acked[r] \in Nat /\ published[r] \in Nat
         /\ \A p \in Procs : \A r \in Repos : run[p].got[r] \in Nat /\ run[p].floor[r] \in Nat
BY DEF TypeOK, Runs, Index

\* The commands other than p, which runs, are not alone.
LEMMA SeerAside ==
  ASSUME AloneInv, SeenInv, NEW p \in Procs, Busy(p), Aside(p), UNCHANGED <<published, acked>>
  PROVE  \A q \in Procs \ {p} : Seer(q)'
<1> TAKE q \in Procs \ {p}
<1>1. ~run'[q].alone
  BY DEF AloneInv, Aside
<1> QED
  BY <1>1 DEF SeenInv, Seer, Aside, Busy, Answers, NotBehind

LEMMA SeenBy ==
  ASSUME AloneInv, SeenInv, NEW p \in Procs, Busy(p), Aside(p), UNCHANGED <<published, acked>>,
         SeenFiles', Seer(p)'
  PROVE  SeenInv'
BY SeerAside DEF SeenInv

\* The files stay as new when nothing is written.
LEMMA FilesSeen == ASSUME SeenInv, UNCHANGED <<published, acked, apk>> PROVE SeenFiles'
BY DEF SeenInv, SeenFiles, NotBehind

LEMMA SeenRemove ==
  ASSUME TypeOK, ControlInv, AloneInv, SeenInv, NEW p \in Procs, Remove(p) \/ Unlink(p) \/ Check(p)
  PROVE  SeenInv'
<1>1. UNCHANGED <<published, acked, apk>> /\ Busy(p) /\ run[p].pc \in {"remove", "unlink", "check"}
  BY DEF Remove, Unlink, Check, files, Busy
<1>2. Seer(p) /\ SeenFiles'
  BY <1>1, FilesSeen DEF SeenInv
<1>3. CASE Remove(p)
  <2>1. \/ Moved(p, "unlink", run[p].result)
        \/ Moved(p, "check", run[p].result) /\ Apk \notin present
    <3>1. Goto(p, "unlink") \/ (Goto(p, "check") /\ Apk \notin present)
      BY <1>3 DEF Remove
    <3> QED
      BY <3>1, GotoMoves DEF Pcs
  <2>2. run'[p].got = run[p].got /\ UNCHANGED present
    <3>1. Goto(p, "unlink") \/ Goto(p, "check")
      BY <1>3 DEF Remove, Goto
    <3> QED
      BY <1>3, <3>1, GotoMoves DEF Remove, files, Pcs
  <2>3. Seer(p)'
    BY <1>1, <1>2, <2>1, <2>2 DEF Seer, Moved, Busy, Answers, NotBehind
  <2> QED
    BY <1>1, <1>2, <2>1, <2>3, SeenBy DEF Moved
<1>4. CASE Unlink(p)
  <2>1. run'[p].got = run[p].got
        /\ (Moved(p, "done", "failed") \/ (Moved(p, "check", run[p].result) /\ present' = present \ {Apk}))
    BY <1>4, UnlinkMoves
  <2>2. Seer(p)'
    BY <1>1, <1>2, <2>1 DEF Seer, Moved, Busy, Answers, NotBehind
  <2> QED
    BY <1>1, <1>2, <2>1, <2>2, SeenBy DEF Moved
<1>5. CASE Check(p)
  <2>1. \/ Moved(p, "read", run[p].result) /\ Apk \in present
        \/ Moved(p, "fetch", run[p].result)
    <3>1. (Goto(p, "read") /\ Apk \in present) \/ Goto(p, "fetch")
      BY <1>5 DEF Check
    <3> QED
      BY <3>1, GotoMoves DEF Pcs
  <2>2. run'[p].got = run[p].got /\ UNCHANGED present /\ run[p].pc = "check"
    <3>1. Goto(p, "read") \/ Goto(p, "fetch")
      BY <1>5 DEF Check, Goto
    <3> QED
      BY <1>5, <3>1, GotoMoves DEF Check, files, Pcs
  <2>3. Seer(p)'
    BY <1>1, <1>2, <2>1, <2>2 DEF Seer, Moved, Busy, Answers, NotBehind
  <2> QED
    BY <1>1, <1>2, <2>1, <2>3, SeenBy DEF Moved
<1> QED
  BY <1>3, <1>4, <1>5

LEMMA SeenRead == ASSUME TypeOK, ControlInv, AloneInv, SeenInv, NEW p \in Procs, Read(p) PROVE SeenInv'
<1>1. UNCHANGED <<published, acked, apk>> /\ Busy(p)
  BY DEF Read, files, Busy
<1>2. Seer(p) /\ SeenFiles'
  BY <1>1, FilesSeen DEF SeenInv
<1>3. /\ run[p].pc = "read"
      /\ \/ Moved(p, "taps", run[p].result) /\ run'[p].got = apk[1] /\ 1 \in 1..Len(apk)
         \/ Moved(p, "fetch", run[p].result) /\ run'[p].got = run[p].got
  BY ReadMoves
<1>4. NotBehind(run'[p].got)
  BY <1>1, <1>2, <1>3 DEF SeenInv, SeenFiles, Seer
<1>5. Seer(p)'
  BY <1>1, <1>2, <1>3, <1>4 DEF Seer, Moved, Busy, Answers, NotBehind
<1> QED
  BY <1>1, <1>2, <1>3, <1>5, SeenBy DEF Moved

LEMMA SeenFetch ==
  ASSUME TypeOK, ControlInv, AloneInv, SeenInv, NEW p \in Procs, NEW s \in Repos, Fetch(p, s)
  PROVE  SeenInv'
<1>1. UNCHANGED <<published, acked, apk>> /\ Busy(p)
  BY DEF Fetch, files, Busy
<1>2. Seer(p) /\ SeenFiles'
  BY <1>1, FilesSeen DEF SeenInv
<1>3. /\ run[p].pc = "fetch" /\ Moved(p, "fetch", run[p].result)
      /\ run'[p].got = [run[p].got EXCEPT ![s] = published[s]] /\ run[p].got \in Index
  BY FetchMoves DEF TypeOK, Runs
<1>4. \A r \in Repos : run'[p].got[r] = IF r = s THEN published[r] ELSE run[p].got[r]
  BY <1>3 DEF Index
<1>5. NotBehind(run'[p].got)
  BY <1>1, <1>2, <1>4 DEF SeenInv, SeenFiles, Seer, NotBehind
<1>6. run[p].alone /\ run[p].kind = "update" =>
        \A r \in Repos : run'[p].got[r] = 0 \/ run[p].floor[r] <= run'[p].got[r]
  BY <1>1, <1>2, <1>4 DEF Seer
<1>7. Seer(p)'
  BY <1>1, <1>2, <1>3, <1>5, <1>6 DEF Seer, Moved, Busy, Answers, NotBehind
<1> QED
  BY <1>1, <1>2, <1>3, <1>7, SeenBy DEF Moved

LEMMA SeenCreate == ASSUME TypeOK, ControlInv, AloneInv, SeenInv, NEW p \in Procs, Create(p) PROVE SeenInv'
<1>1. UNCHANGED <<published, acked>> /\ Busy(p) /\ apk' = <<>>
  BY DEF Create, Busy
<1>2. Seer(p)
  BY DEF SeenInv
<1>3. Moved(p, "write", run[p].result) /\ run'[p].got = run[p].got
  BY CreateMoves
<1>4. \A i \in 1..Len(apk') : FALSE
  BY <1>1, EmptySeq
<1>5. SeenFiles'
  BY <1>1, <1>4 DEF SeenInv, SeenFiles
<1>6. Seer(p)'
  BY <1>1, <1>2, <1>3, <1>4 DEF Seer, Moved, Busy, Answers, NotBehind
<1> QED
  BY <1>1, <1>3, <1>5, <1>6, SeenBy DEF Moved

LEMMA SeenWrite == ASSUME TypeOK, ControlInv, AloneInv, SeenInv, NEW p \in Procs, Write(p) PROVE SeenInv'
<1>1. UNCHANGED <<published, acked, present>> /\ Busy(p) /\ run[p].pc = "write" /\ run[p].part < Parts
  BY DEF Write, Busy, ControlInv
<1>2. Seer(p)
  BY DEF SeenInv
<1>3. run'[p].got = run[p].got /\ (Moved(p, "write", run[p].result) \/ Moved(p, "taps", run[p].result))
  BY <1>1, WriteMoves
<1>4. \A i \in 1..Len(apk') : apk'[i] = run[p].got \/ apk'[i] = Unwritten
                                \/ (i \in 1..Len(apk) /\ apk'[i] = apk[i])
  BY <1>1, WriteFile
<1>5. NotBehind(run[p].got) /\ NotBehind(Unwritten)
  BY <1>1, <1>2, IndexTypes DEF Seer, NotBehind
<1>6. \A i \in 1..Len(apk') : NotBehind(apk'[i])
  BY <1>4, <1>5 DEF SeenInv, SeenFiles
<1>7. SeenFiles'
  BY <1>1, <1>6 DEF SeenInv, SeenFiles, NotBehind
<1>8. run[p].alone /\ run[p].kind = "update" => \A i \in 1..Len(apk') : apk'[i] \in {Unwritten, run[p].got}
  BY <1>1, <1>2, <1>4 DEF Seer
<1>9. Seer(p)'
  BY <1>1, <1>2, <1>3, <1>8 DEF Seer, Moved, Busy, Answers, NotBehind
<1> QED
  BY <1>1, <1>3, <1>7, <1>9, SeenBy DEF Moved

LEMMA SeenList ==
  ASSUME TypeOK, ControlInv, AloneInv, SeenInv, NEW p \in Procs,
         OpenList(p) \/ Truncate(p) \/ Save(p) \/ Give(p)
  PROVE  SeenInv'
<1>1. UNCHANGED <<published, acked, apk>> /\ Busy(p)
  BY DEF OpenList, Truncate, Save, Give, files, Busy
<1>2. Seer(p) /\ SeenFiles'
  BY <1>1, FilesSeen DEF SeenInv
<1>3. CASE OpenList(p)
  <2>1. /\ run[p].pc = "taps" /\ run'[p].got = run[p].got /\ UNCHANGED present
        /\ Moved(p, IF run[p].kind \in Loads THEN "join" ELSE "save", run[p].result)
    BY <1>3, OpenListMoves DEF OpenList, files
  <2>2. Seer(p)'
    BY <1>1, <1>2, <2>1 DEF Seer, Moved, Busy, Answers, NotBehind
  <2> QED
    BY <1>1, <1>2, <2>1, <2>2, SeenBy DEF Moved
<1>4. CASE Truncate(p) \/ Save(p)
  <2>1. run[p].kind \in {"add", "remove"}
    BY <1>4 DEF Truncate, Save, ControlInv
  <2>2. run'[p].got = run[p].got /\ (Moved(p, "list", run[p].result) \/ Moved(p, "done", "ok"))
    BY <1>4, GotoMoves, DoneMoves DEF Truncate, Save, Pcs
  <2>3. Seer(p)'
    BY <1>1, <1>2, <2>1, <2>2 DEF Seer, Moved, Busy, Answers, NotBehind
  <2> QED
    BY <1>1, <1>2, <2>2, <2>3, SeenBy DEF Moved
<1>5. CASE Give(p)
  <2>1. run'[p].got = run[p].got /\ (Moved(p, "idle", run[p].result) \/ Moved(p, "done", "failed"))
    BY <1>5, GiveMoves
  <2>2. Seer(p)'
    BY <1>1, <1>2, <2>1 DEF Seer, Moved, Busy, Answers, NotBehind
  <2> QED
    BY <1>1, <1>2, <2>1, <2>2, SeenBy DEF Moved
<1> QED
  BY <1>3, <1>4, <1>5

LEMMA SeenJoin ==
  ASSUME TypeOK, ControlInv, AloneInv, GotInv, SeenInv, NEW p \in Procs, Join(p)
  PROVE  SeenInv'
<1>1. UNCHANGED <<published, apk, present>> /\ Busy(p) /\ run[p].pc = "join"
      /\ acked' = IF run[p].kind = "update" /\ run[p].alone THEN run[p].got ELSE acked
  BY DEF Join, files, Busy
<1>2. Seer(p) /\ SeenFiles
  BY DEF SeenInv
<1>3. Moved(p, "done", "ok") /\ run'[p].got = run[p].got
  BY DoneMoves DEF Join
<1>4. run[p].kind \in {"load", "update"} => \A r \in Repos : run[p].got[r] # 0 /\ run[p].got[r] <= published[r]
  <2>1. run[p].kind \in {"load", "update"} => Good(run[p].got)
    BY <1>1 DEF GotInv, Got
  <2> QED
    BY <2>1, SeenTypes DEF Good
<1>5. run[p].kind = "load" => \A r \in Repos : run[p].floor[r] <= run[p].got[r]
  <2>1. run[p].kind = "load" => \A r \in Repos : run[p].floor[r] <= acked[r] /\ acked[r] <= run[p].got[r]
    BY <1>1, <1>2, <1>4 DEF Seer, NotBehind
  <2> QED
    BY <2>1, SeenTypes
<1>6. Seer(p)'
  BY <1>1, <1>2, <1>3, <1>5 DEF Seer, Moved, Busy, Answers, NotBehind
<1>7. CASE run[p].kind = "update" /\ run[p].alone
  <2>1. acked' = run[p].got
    BY <1>1, <1>7
  <2>2. \A r \in Repos : run[p].got[r] <= run[p].got[r]
    BY SeenTypes
  <2>3. \A i \in 1..Len(apk) : \A r \in Repos : apk[i][r] = 0 \/ run[p].got[r] <= apk[i][r]
    <3>1. \A i \in 1..Len(apk) : apk[i] \in {Unwritten, run[p].got}
      BY <1>1, <1>2, <1>7 DEF Seer
    <3> QED
      BY <2>2, <3>1, IndexTypes
  <2>4. SeenFiles'
    BY <1>1, <1>4, <1>7, <2>1, <2>3 DEF SeenFiles, NotBehind
  <2>5. ASSUME NEW q \in Procs \ {p} PROVE Seer(q)'
    <3>1. ~Busy(q) /\ ~run[q].alone
      BY <1>1, <1>7 DEF AloneInv
    <3> QED
      BY <1>1, <1>3, <3>1 DEF SeenInv, Seer, Moved, Aside, Busy, Answers
  <2> QED
    BY <1>6, <2>4, <2>5 DEF SeenInv
<1>8. CASE ~(run[p].kind = "update" /\ run[p].alone)
  <2>1. UNCHANGED acked
    BY <1>1, <1>8
  <2> QED
    BY <1>1, <1>3, <1>6, <2>1, FilesSeen, SeenBy DEF Moved
<1> QED
  BY <1>7, <1>8

LEMMA SeenExit == ASSUME TypeOK, ControlInv, AloneInv, SeenInv, NEW p \in Procs, Exit(p) PROVE SeenInv'
<1>1. UNCHANGED <<published, acked, apk, present>>
  BY DEF Exit, files
<1>2. Aside(p) /\ run'[p] = NoRun
  BY ExitMoves
<1>3. Seer(p)'
  BY <1>2, NoRunIs DEF Seer, Busy, Answers
<1>4. ASSUME NEW q \in Procs \ {p} PROVE Seer(q)'
  BY <1>1, <1>2 DEF SeenInv, Seer, Aside, Busy, Answers, NotBehind
<1> QED
  BY <1>1, <1>3, <1>4, FilesSeen DEF SeenInv

LEMMA SeenStart ==
  ASSUME TypeOK, ControlInv, AloneInv, SeenInv, NEW p \in Procs, NEW kind \in Kinds,
         NEW tap \in Taps \union {"none"}, Start(p, kind, tap)
  PROVE  SeenInv'
<1>1. UNCHANGED <<published, acked, apk, present>>
  BY DEF Start, files
<1>2. /\ Aside(p) /\ run'[p].kind = kind /\ run'[p].got = Unwritten
      /\ run'[p].pc = IF kind = "load" THEN "check" ELSE IF kind = "update" THEN "remove" ELSE "taps"
      /\ run'[p].floor = IF kind = "update" THEN [r \in Repos |-> published[r]] ELSE acked
  BY StartMoves
<1>3. NotBehind(Unwritten) /\ \A r \in Repos : Unwritten[r] = 0
  BY IndexTypes DEF NotBehind
<1>4. /\ kind = "load" => \A r \in Repos : run'[p].floor[r] <= acked[r]
      /\ kind = "update" => \A r \in Repos : run'[p].floor[r] <= published[r]
  BY <1>2, SeenTypes
<1>5. kind = "update" => run'[p].pc = "remove"
  BY <1>2
<1>6. run'[p].pc # "done"
  BY <1>2
<1>7. Seer(p)'
  BY <1>1, <1>2, <1>3, <1>4, <1>5, <1>6 DEF Seer, Busy, Answers, NotBehind
<1>8. ASSUME NEW q \in Procs \ {p} PROVE Seer(q)'
  BY <1>1, <1>2 DEF SeenInv, Seer, Aside, Busy, Answers, NotBehind
<1> QED
  BY <1>1, <1>7, <1>8, FilesSeen DEF SeenInv

LEMMA SeenThread ==
  ASSUME TypeOK, ControlInv, AloneInv, SeenInv, NEW p \in Procs, NEW t \in Taps,
         TapCheck(p, t) \/ TapRead(p, t) \/ TapFetch(p, t) \/ TapFails(p, t) \/ TapCreate(p, t) \/ TapWrite(p, t)
  PROVE  SeenInv'
<1>1. UNCHANGED <<run, published, apk, acked>> /\ run[p].pc = "join" /\ Busy(p)
  BY ThreadSteps, ActiveJoins
<1>2. Aside(p)
  BY <1>1 DEF Aside
<1>3. Seer(p)'
  BY <1>1 DEF SeenInv, Seer, Busy, Answers, NotBehind
<1> QED
  BY <1>1, <1>2, <1>3, FilesSeen, SeenBy

LEMMA SeenPublish == ASSUME TypeOK, SeenInv, NEW s \in Repos \union Taps, Publish(s) PROVE SeenInv'
<1>1. \A r \in Repos : published'[r] \in Nat /\ published[r] \in Nat /\ published[r] <= published'[r]
  BY PublishMoves
<1>2. UNCHANGED <<apk, present, run, acked>>
  BY PublishMoves DEF files
<1>3. \A r \in Repos : acked[r] <= published'[r]
  <2>1. \A r \in Repos : acked[r] <= published[r]
    BY DEF SeenInv, SeenFiles
  <2> QED
    BY <1>1, <2>1, SeenTypes
<1>4. SeenFiles'
  BY <1>2, <1>3 DEF SeenInv, SeenFiles, NotBehind
<1>5. ASSUME NEW p \in Procs PROVE Seer(p)'
  <2>1. run[p].kind = "update" => \A r \in Repos : run[p].floor[r] <= published'[r]
    <3>1. run[p].kind = "update" => \A r \in Repos : run[p].floor[r] <= published[r]
      BY DEF SeenInv, Seer
    <3> QED
      BY <1>1, <3>1, SeenTypes
  <2> QED
    BY <1>2, <2>1 DEF SeenInv, Seer, Busy, Answers, NotBehind
<1> QED
  BY <1>4, <1>5 DEF SeenInv

LEMMA SeenStep == TypeOK /\ ControlInv /\ AloneInv /\ GotInv /\ SeenInv /\ [Next]_vars => SeenInv'
<1> SUFFICES ASSUME TypeOK, ControlInv, AloneInv, GotInv, SeenInv, [Next]_vars PROVE SeenInv'
  OBVIOUS
<1>1. CASE (\E f \in {Apk} \union Keys : Expire(f)) \/ UNCHANGED vars
  <2>1. UNCHANGED <<published, acked, apk, present, run>>
    BY <1>1 DEF Expire, vars, files
  <2> QED
    BY <2>1, FilesSeen DEF SeenInv, Seer, Busy, Answers, NotBehind
<1> QED
  BY <1>1, Cases, SeenRemove, SeenRead, SeenFetch, SeenCreate, SeenWrite, SeenList, SeenJoin, SeenExit,
     SeenStart, SeenThread, SeenPublish

\* An update on its own answers with what was published when it started, and
\* no later command falls behind its answer, whatever is killed or overlaps
\* (ApkRegistry::refresh).
THEOREM UpdatesAreSeen == Spec => []UpdateIsSeen
<1>1. Init => SeenInv
  <2> SUFFICES ASSUME Init PROVE SeenInv
    OBVIOUS
  <2>1. SeenFiles
    BY IndexTypes, EmptySeq DEF Init, SeenFiles
  <2> QED
    BY <2>1, NoRunIs DEF Init, SeenInv, Seer, Busy, Answers
<1>2. TypeOK /\ GotInv /\ SeenInv => UpdateIsSeen
  <2> SUFFICES ASSUME TypeOK, GotInv, SeenInv, NEW p \in Procs,
                      Answers(p, {"load"}) \/ (Answers(p, {"update"}) /\ run[p].alone), NEW r \in Repos
               PROVE  run[p].got[r] >= run[p].floor[r]
    BY DEF UpdateIsSeen
  <2>1. run[p].floor[r] <= run[p].got[r]
    <3>1. CASE Answers(p, {"load"})
      BY <3>1 DEF SeenInv, Seer
    <3>2. CASE Answers(p, {"update"}) /\ run[p].alone
      <4>1. Good(run[p].got)
        BY <3>2 DEF GotInv, Got, Answers
      <4>2. run[p].got[r] # 0
        BY <4>1, SeenTypes DEF Good
      <4> QED
        BY <3>2, <4>2 DEF SeenInv, Seer, Answers
    <3> QED
      BY <3>1, <3>2
  <2> QED
    BY <2>1, SeenTypes
<1> QED
  BY <1>1, <1>2, SeenStep, TypesHold, AloneHolds, AnswersHold, PTL DEF Spec
==============================================================================
