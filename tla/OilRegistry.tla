----------------------------- MODULE OilRegistry -----------------------------
(***************************************************************************)
(* Where oil's packages come from: the cache of Alpine's index             *)
(* (system/registry/apk.rs), the caches of the taps' indexes and the list  *)
(* of taps (tap.rs), with the commands that use them (load_registry,       *)
(* refresh_registry and run_tap in main.rs).  Every file is written in     *)
(* place and without a lock, by any number of commands at a time, and a    *)
(* command may fail or be killed at any step.                              *)
(*                                                                         *)
(* An index is known by the number of its publication.  A file that is     *)
(* read while it is written looks like one that was cut off there; neither *)
(* passes for an index (gzip's checksum, JSON's last bracket).  Indexes whose *)
(* urls are not allowed, and `tap update` of one tap, are left out.        *)
(***************************************************************************)
EXTENDS Naturals, Sequences, FiniteSets

CONSTANTS
  Procs,     \* commands that may run at a time
  Taps,      \* names of taps
  Key,       \* the part of a tap's cache path that its name makes (cache_key)
  Budgets    \* bounds, a set of records: the kinds of commands, the taps at
             \* first, and how many commands, publications, expiries and faults

Repos == {"main", "community"}
Kinds == {"load", "update", "add", "remove", "tap-update"}
Keys == {Key[t] : t \in Taps}

ASSUME RegistryAssumption ==
  /\ IsFiniteSet(Taps)
  /\ Budgets \subseteq [kinds : SUBSET Kinds, taps : SUBSET Taps, commands : Nat,
                        publish : Nat, expire : Nat, faults : Nat]

VARIABLES
  published, \* published[s]: the newest index of a repository or a tap
  apk,       \* the parts that are in the cache of Alpine's index
  caches,    \* caches[k]: the tap, the number and whether all of it is there
  list,      \* taps.json: the taps, and whether all of it is there
  present,   \* which of these files exist
  fresh,     \* which caches are less than 24 hours old
  run,       \* run[p]: the command p is running
  thread,    \* thread[p][t]: p's thread for tap t
  acked,     \* history: what the last update that ran alone has got
  kept,      \* history: taps whose addition must not be forgotten
  left       \* what is left of the budget

files == <<apk, caches, list, present, fresh>>
vars == <<published, files, run, thread, acked, kept, left>>

-----------------------------------------------------------------------------
Apk == "apk"
List == "taps.json"
Parts == 2                     \* write_cache writes as the encoder goes on
Unwritten == [r \in Repos |-> 0]

Whole == Len(apk) = Parts /\ \A i \in 1..Parts : apk[i] = apk[1] /\ apk[i] # Unwritten

\* Longer indexes leave their end behind a shorter one written over them.
Length(v) == 1 + (v % 2)

NoTap == [tap |-> "none", v |-> 0]
Torn == [of |-> NoTap, ok |-> FALSE]

NoRun == [kind |-> "none", pc |-> "idle", tap |-> "none", got |-> Unwritten, part |-> 0, own |-> FALSE,
          known |-> {}, alone |-> FALSE, floor |-> Unwritten, result |-> "none"]
Idle == [pc |-> "no", of |-> NoTap]

Busy(p) == run[p].pc \notin {"idle", "done"}
Others(p) == {q \in Procs \ {p} : Busy(q)}
Spend(what) == left[what] > 0 /\ left' = [left EXCEPT ![what] = @ - 1]
Goto(p, pc) == run' = [run EXCEPT ![p].pc = pc]
Done(p, result) == run' = [run EXCEPT ![p].pc = "done", ![p].result = result]

Init ==
  /\ left \in Budgets
  /\ published = [s \in Repos \union Taps |-> 1]
  /\ apk = <<>> /\ caches = [k \in Keys |-> Torn]
  /\ list = [taps |-> left.taps, ok |-> left.taps # {}]
  /\ present = IF left.taps = {} THEN {} ELSE {List}
  /\ fresh = {}
  /\ run = [p \in Procs |-> NoRun]
  /\ thread = [p \in Procs |-> [t \in Taps |-> Idle]]
  /\ acked = Unwritten /\ kept = left.taps

-----------------------------------------------------------------------------
(* The world                                                               *)

Publish(s) ==
  /\ Spend("publish")
  /\ published' = [published EXCEPT ![s] = @ + 1]
  /\ UNCHANGED <<files, run, thread, acked, kept>>

\* A cache gets 24 hours old, or its time turns out to be in the future.
Expire(f) ==
  /\ f \in fresh
  /\ Spend("expire")
  /\ fresh' = fresh \ {f}
  /\ UNCHANGED <<published, apk, caches, list, present, run, thread, acked, kept>>

Start(p, kind, tap) ==
  /\ run[p].pc = "idle" /\ kind \in left.kinds
  /\ tap \in Taps <=> kind \in {"add", "remove"}
  /\ Spend("commands")
  /\ run' = [q \in Procs |->
       IF q = p THEN
         [NoRun EXCEPT !.kind = kind, !.tap = tap,
            !.pc = IF kind = "load" THEN "check" ELSE IF kind = "update" THEN "remove" ELSE "taps",
            !.alone = (Others(p) = {}),
            !.floor = IF kind = "update" THEN [r \in Repos |-> published[r]] ELSE acked]
       ELSE [run[q] EXCEPT !.alone = FALSE]]
  /\ kept' = IF kind = "remove" THEN kept \ {tap} ELSE kept
  /\ UNCHANGED <<published, files, thread, acked>>

Exit(p) ==
  /\ run[p].pc = "done"
  /\ run' = [run EXCEPT ![p] = NoRun]
  /\ thread' = [thread EXCEPT ![p] = [t \in Taps |-> Idle]]
  /\ UNCHANGED <<published, files, acked, kept, left>>

\* Killed; or the network, the disk or a bad answer makes it give up.  A save
\* of the list that is cut off takes the list with it.
Give(p) ==
  /\ Busy(p)
  /\ Spend("faults")
  /\ \/ Goto(p, "idle")
     \/ run[p].pc \in {"fetch", "write", "list"} /\ Done(p, "failed")
  /\ kept' = IF run[p].pc = "list" THEN {} ELSE kept
  /\ thread' = [thread EXCEPT ![p] = [t \in Taps |-> Idle]]
  /\ UNCHANGED <<published, files, acked>>

(* Alpine's index                                                          *)

\* Fault: the cache is left where it is.
FaultRemove(p) ==
  /\ run[p].pc = "remove"
  /\ Goto(p, "check")
  /\ UNCHANGED <<published, files, thread, acked, kept, left>>

\* refresh: a cache that exists is removed; one that another command has
\* removed in between is an error.
Remove(p) ==
  /\ run[p].pc = "remove"
  /\ Goto(p, IF Apk \in present THEN "unlink" ELSE "check")
  /\ UNCHANGED <<published, files, thread, acked, kept, left>>

Unlink(p) ==
  /\ run[p].pc = "unlink"
  /\ IF Apk \in present
     THEN /\ present' = present \ {Apk} /\ fresh' = fresh \ {Apk}
          /\ run' = [q \in Procs |-> IF q = p THEN [run[p] EXCEPT !.pc = "check"] ELSE [run[q] EXCEPT !.own = FALSE]]
     ELSE Done(p, "failed") /\ UNCHANGED <<present, fresh>>
  /\ UNCHANGED <<published, apk, caches, list, thread, acked, kept, left>>

Check(p) ==
  /\ run[p].pc = "check"
  /\ Goto(p, IF Apk \in present \intersect fresh THEN "read" ELSE "fetch")
  /\ UNCHANGED <<published, files, thread, acked, kept, left>>

\* Fault: the part that is there is taken for the whole.
FaultRead(p) ==
  /\ run[p].pc = "read"
  /\ run' = [run EXCEPT ![p].got = IF Len(apk) = 0 THEN Unwritten ELSE apk[1], ![p].pc = "taps"]
  /\ UNCHANGED <<published, files, thread, acked, kept, left>>

\* A cache that cannot be read is fetched again.
Read(p) ==
  /\ run[p].pc = "read"
  /\ IF Apk \in present /\ Whole THEN run' = [run EXCEPT ![p].got = apk[1], ![p].pc = "taps"]
                                 ELSE Goto(p, "fetch")
  /\ UNCHANGED <<published, files, thread, acked, kept, left>>

\* One thread for each repository.
Fetch(p, r) ==
  /\ run[p].pc = "fetch" /\ run[p].got[r] = 0
  /\ run' = [run EXCEPT ![p].got[r] = published[r]]
  /\ UNCHANGED <<published, files, thread, acked, kept, left>>

\* File::create, once both are there.
Create(p) ==
  /\ run[p].pc = "fetch" /\ \A r \in Repos : run[p].got[r] # 0
  /\ apk' = <<>>
  /\ present' = present \union {Apk} /\ fresh' = fresh \union {Apk}
  /\ run' = [run EXCEPT ![p].pc = "write", ![p].own = TRUE]
  /\ UNCHANGED <<published, caches, list, thread, acked, kept, left>>

\* The next part, where it belongs in the file that p has opened.
Write(p) ==
  LET n == run[p].part + 1
  IN  /\ run[p].pc = "write"
      /\ run' = [run EXCEPT ![p].part = n, ![p].pc = IF n = Parts THEN "taps" ELSE @]
      /\ IF run[p].own
         THEN /\ apk' = [i \in 1..(IF n > Len(apk) THEN n ELSE Len(apk)) |->
                           IF i = n THEN run[p].got ELSE IF i <= Len(apk) THEN apk[i] ELSE Unwritten]
              /\ fresh' = fresh \union {Apk}
         ELSE UNCHANGED <<apk, fresh>>
      /\ UNCHANGED <<published, caches, list, present, thread, acked, kept, left>>

(* The list of taps                                                        *)

\* Taps::new: a list that does not parse is an empty one.
ReadList == IF List \in present /\ list.ok THEN list.taps ELSE {}

Loads == {"load", "update", "tap-update"}

\* Fault: the list starts anew with every addition.
FaultKnown(p) ==
  CASE run[p].kind = "add" -> {run[p].tap}
    [] run[p].kind = "remove" -> ReadList \ {run[p].tap}
    [] OTHER -> ReadList

\* What the command makes of the list it reads.
Known(p) ==
  CASE run[p].kind = "add" -> ReadList \union {run[p].tap}
    [] run[p].kind = "remove" -> ReadList \ {run[p].tap}
    [] OTHER -> ReadList

\* Fault: `tap update` and `update` use the caches.
FaultOpenList(p) ==
  /\ run[p].pc = "taps"
  /\ run' = [run EXCEPT ![p].known = Known(p), ![p].pc = IF run[p].kind \in Loads THEN "join" ELSE "save"]
  /\ thread' = [thread EXCEPT ![p] = [t \in Taps |->
       IF run[p].kind \notin Loads \/ t \notin Known(p) THEN Idle ELSE [Idle EXCEPT !.pc = "check"]]]
  /\ UNCHANGED <<published, files, acked, kept, left>>

OpenList(p) ==
  /\ run[p].pc = "taps"
  /\ run' = [run EXCEPT ![p].known = Known(p), ![p].pc = IF run[p].kind \in Loads THEN "join" ELSE "save"]
  /\ thread' = [thread EXCEPT ![p] = [t \in Taps |->
       IF run[p].kind \notin Loads \/ t \notin Known(p) THEN Idle
       ELSE [Idle EXCEPT !.pc = IF run[p].kind = "load" THEN "check" ELSE "fetch"]]]
  /\ UNCHANGED <<published, files, acked, kept, left>>

\* save: the file is emptied and then written.
Truncate(p) ==
  /\ run[p].pc = "save"
  /\ list' = [taps |-> {}, ok |-> FALSE]
  /\ present' = present \union {List}
  /\ Goto(p, "list")
  /\ UNCHANGED <<published, apk, caches, fresh, thread, acked, kept, left>>

\* Another one's longer list sticks out behind.  A tap counts as kept when no
\* other command was there.
Save(p) ==
  /\ run[p].pc = "list"
  /\ list' = IF Cardinality(list.taps) > Cardinality(run[p].known)
             THEN [taps |-> {}, ok |-> FALSE]
             ELSE [taps |-> run[p].known, ok |-> TRUE]
  /\ Done(p, "ok")
  /\ kept' = IF ~run[p].alone THEN {}
             ELSE IF run[p].kind = "add" THEN kept \union {run[p].tap} ELSE kept
  /\ UNCHANGED <<published, apk, caches, present, fresh, thread, acked, left>>

(* A thread for each tap                                                   *)

Become(p, t, pc) == thread' = [thread EXCEPT ![p][t].pc = pc]
Gone(p, t, pc, of) == thread' = [thread EXCEPT ![p][t] = [pc |-> pc, of |-> of]]

TapCheck(p, t) ==
  /\ thread[p][t].pc = "check"
  /\ Become(p, t, IF Key[t] \in present \intersect fresh THEN "read" ELSE "fetch")
  /\ UNCHANGED <<published, files, run, acked, kept, left>>

\* A cache that does not parse is an error.
TapRead(p, t) ==
  /\ thread[p][t].pc = "read"
  /\ IF caches[Key[t]].ok THEN Gone(p, t, "done", caches[Key[t]].of) ELSE Become(p, t, "failed")
  /\ UNCHANGED <<published, files, run, acked, kept, left>>

\* update.
TapFetch(p, t) ==
  /\ thread[p][t].pc = "fetch"
  /\ Gone(p, t, "create", [tap |-> t, v |-> published[t]])
  /\ UNCHANGED <<published, files, run, acked, kept, left>>

\* The network, the disk or a bad answer: only warned about.
TapFails(p, t) ==
  /\ thread[p][t].pc \in {"fetch", "create", "write"}
  /\ Spend("faults")
  /\ Become(p, t, "unavailable")
  /\ UNCHANGED <<published, files, run, acked, kept>>

\* fs::write: the file is emptied and then written.
TapCreate(p, t) ==
  /\ thread[p][t].pc = "create"
  /\ caches' = [caches EXCEPT ![Key[t]] = Torn]
  /\ present' = present \union {Key[t]} /\ fresh' = fresh \union {Key[t]}
  /\ Become(p, t, "write")
  /\ UNCHANGED <<published, apk, list, run, acked, kept, left>>

TapWrite(p, t) ==
  /\ thread[p][t].pc = "write"
  /\ caches' = [caches EXCEPT ![Key[t]] =
       IF @.ok /\ Length(@.of.v) > Length(thread[p][t].of.v) THEN Torn ELSE [of |-> thread[p][t].of, ok |-> TRUE]]
  /\ fresh' = fresh \union {Key[t]}
  /\ Become(p, t, "done")
  /\ UNCHANGED <<published, apk, list, present, run, acked, kept, left>>

\* All threads are joined; taps that failed are left out of the answer.
Ended == {"no", "done", "failed", "unavailable"}
Join(p) ==
  /\ run[p].pc = "join" /\ \A t \in Taps : thread[p][t].pc \in Ended
  /\ Done(p, "ok")
  /\ acked' = IF run[p].kind = "update" /\ run[p].alone THEN run[p].got ELSE acked
  /\ UNCHANGED <<published, files, thread, kept, left>>

-----------------------------------------------------------------------------
Command(p) ==
  \/ Remove(p) \/ Unlink(p) \/ Check(p) \/ Read(p) \/ Create(p) \/ Write(p)
  \/ \E r \in Repos : Fetch(p, r)
  \/ OpenList(p) \/ Truncate(p) \/ Save(p) \/ Join(p)
  \/ \E t \in Taps :
       TapCheck(p, t) \/ TapRead(p, t) \/ TapFetch(p, t) \/ TapFails(p, t) \/ TapCreate(p, t) \/ TapWrite(p, t)

Next ==
  \/ \E p \in Procs : Command(p) \/ Exit(p) \/ Give(p)
  \/ \E p \in Procs, kind \in Kinds, tap \in Taps \union {"none"} : Start(p, kind, tap)
  \/ \E s \in Repos \union Taps : Publish(s)
  \/ \E f \in {Apk} \union Keys : Expire(f)

Spec == Init /\ [][Next]_vars
-----------------------------------------------------------------------------
Index == [Repos -> Nat]
TapIndex == [tap : Taps \union {"none"}, v : Nat]

Pcs == {"idle", "remove", "unlink", "check", "read", "fetch", "write", "taps", "save", "list", "join", "done"}
Runs ==
  [kind : Kinds \union {"none"}, tap : Taps \union {"none"}, pc : Pcs, got : Index, part : 0..Parts,
   own : BOOLEAN, known : SUBSET Taps, alone : BOOLEAN, floor : Index, result : {"none", "ok", "failed"}]

Threads == [pc : Ended \union {"check", "read", "fetch", "create", "write"}, of : TapIndex]

FileTypes ==
  /\ apk \in Seq(Index) /\ Len(apk) <= Parts
  /\ caches \in [Keys -> [of : TapIndex, ok : BOOLEAN]]
  /\ list \in [taps : SUBSET Taps, ok : BOOLEAN]
  /\ present \subseteq {Apk, List} \union Keys /\ fresh \subseteq {Apk} \union Keys

TypeOK ==
  /\ published \in [Repos \union Taps -> Nat \ {0}]
  /\ FileTypes
  /\ run \in [Procs -> Runs]
  /\ thread \in [Procs -> [Taps -> Threads]]
  /\ acked \in Index /\ kept \subseteq Taps
  /\ left \in [kinds : SUBSET Kinds, taps : SUBSET Taps, commands : Nat,
               publish : Nat, expire : Nat, faults : Nat]

\* p has just ended well; what it answers with.
Answers(p, kinds) == run[p].pc = "done" /\ run[p].result = "ok" /\ run[p].kind \in kinds

\* A command works on a whole index of both repositories, and with every tap
\* on a whole index that a tap of the same cache has published, however the
\* cache's writers overlap, remove it under each other or are cut off
\* (ApkRegistry::load, TapRegistry::load).
AnswerIsWhole ==
  \A p \in Procs : Answers(p, {"load", "update"}) =>
    /\ \A r \in Repos : run[p].got[r] \in 1..published[r]
    /\ \A t \in run[p].known : thread[p][t].pc = "done" =>
         LET of == thread[p][t].of
         IN  of.tap \in Taps /\ Key[of.tap] = Key[t] /\ of.v \in 1..published[of.tap]

\* `oil update` on its own answers with what was published when it started,
\* and no command that starts after it falls behind its answer, whatever else
\* then runs, is killed or writes the cache (ApkRegistry::refresh).
UpdateIsSeen ==
  \A p \in Procs :
    Answers(p, {"load"}) \/ (Answers(p, {"update"}) /\ run[p].alone) =>
      \A r \in Repos : run[p].got[r] >= run[p].floor[r]

\* An update on its own mends the cache of every tap it can reach, unless
\* another tap it knows has the same cache (TapRegistry::update).
UpdateMendsTaps ==
  \A p \in Procs : Answers(p, {"update", "tap-update"}) /\ run[p].alone =>
    \A t \in run[p].known :
      \/ thread[p][t].pc = "unavailable"
      \/ \E u \in run[p].known \ {t} : Key[u] = Key[t]
      \/ caches[Key[t]].ok /\ caches[Key[t]].of.tap = t

\* The tap of a completed `oil tap add` stays in the list until it is removed,
\* unless commands overlap or a save of the list is cut off (Taps::new, save).
TapsKept == (\A p \in Procs : run[p].pc # "list") => kept \subseteq ReadList
=============================================================================
