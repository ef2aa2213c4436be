------------------------------ MODULE NetWatch ------------------------------
(***************************************************************************)
(* The network state daemon (system/alpenglow-ctl/src/network.zig): it     *)
(* reads /sys/class/net interface by interface, publishes what it saw in   *)
(* two files, and then waits for netlink notifications, or polls when it   *)
(* cannot have them.  Interfaces come, go and change all the while; the    *)
(* daemon exits on errors and dinit starts it again.                       *)
(*                                                                         *)
(* An interface is what the daemon's decisions tell apart: whether it is   *)
(* there and whether its operstate is "up".                                *)
(***************************************************************************)
EXTENDS Naturals, Sequences

CONSTANTS
  Names,       \* the interface names, in the order of lessThan
  Lo,          \* the loopback interface's name
  QueueCap,    \* notifications the socket's receive buffer holds
  MaxChanges,  \* bound on changes of interfaces
  MaxFaults    \* bound on failed system calls

Ifs == {Names[k] : k \in DOMAIN Names}
NoIf == ""

ASSUME NetAssumption ==
  /\ Names \in Seq(STRING)
  /\ NoIf \notin Ifs
  /\ QueueCap \in Nat \ {0}
  /\ MaxChanges \in Nat
  /\ MaxFaults \in Nat

VARIABLES
  net,      \* net[i]: "gone", "down" or "up"
  watch,    \* "none", "bound" to netlink, or "poll"
  queue,    \* how many notifications wait in the socket
  overrun,  \* a notification was dropped, and the next receive says so
  told,     \* history: a change was announced to this socket
  pc,       \* the daemon's next step
  todo,     \* the listed interfaces it has not opened yet
  open,     \* the interface whose directory it has open, or NoIf
  removed,  \* that directory was removed after it was opened
  snap,     \* snap[i]: what it has read in this round
  cut,      \* the interfaces of this round whose last files were not there
  json,     \* interfaces.json
  env,      \* runtime-state.env
  changes,  \* history: how many changes there were
  faults    \* history: how many system calls failed

socket == <<watch, queue, overrun, told>>
round == <<todo, open, removed, snap, cut>>
files == <<json, env>>
history == <<changes, faults>>
vars == <<net, socket, pc, round, files, history>>

-----------------------------------------------------------------------------
Links == {"gone", "down", "up"}

Nothing == [i \in Ifs |-> "gone"]
Present == {i \in Ifs : net[i] # "gone"}
Listed == todo \union {open} \union {i \in Ifs : snap[i] # "gone"}

\* Fault: the first interface that is up, loopback or not.
FaultDefault(s) ==
  LET chosen[k \in 0..Len(Names)] ==
        IF k = 0 THEN NoIf
        ELSE IF chosen[k - 1] = NoIf /\ s[Names[k]] = "up" THEN Names[k]
        ELSE chosen[k - 1]
  IN  chosen[Len(Names)]

\* renderRuntimeEnv's pass over the sorted interfaces.
Default(s) ==
  LET chosen[k \in 0..Len(Names)] ==
        IF k = 0 THEN NoIf
        ELSE LET before == chosen[k - 1]
             IN  IF s[Names[k]] = "up" /\ (before = NoIf \/ (before = Lo /\ Names[k] # Lo))
                 THEN Names[k] ELSE before
  IN  chosen[Len(Names)]

\* The files' contents; "empty" is between open with O_TRUNC and write.
Text(st, s, c, d) == [st |-> st, snap |-> s, cut |-> c, default |-> d]
Empty == Text("empty", Nothing, {}, NoIf)

-----------------------------------------------------------------------------
Init ==
  /\ net \in [Ifs -> Links]
  /\ watch = "none" /\ queue = 0 /\ overrun = FALSE /\ told = FALSE
  /\ pc = "list"
  /\ todo = {} /\ open = NoIf /\ removed = FALSE /\ snap = Nothing /\ cut = {}
  /\ json = [Empty EXCEPT !.st = "none"]
  /\ env = [Empty EXCEPT !.st = "none"]
  /\ changes = 0
  /\ faults = 0

(* readSnapshot                                                            *)

List ==
  /\ pc = "list"
  /\ todo' = Present
  /\ snap' = Nothing
  /\ cut' = {}
  /\ pc' = "read"
  /\ UNCHANGED <<net, open, removed, socket, files, history>>

\* getdents64 is called until it returns nothing; a later call may or may not
\* return interfaces that came in the meantime.
ListMore ==
  /\ pc = "read" /\ todo = {}
  /\ \E more \in SUBSET (Present \ Listed) :
       IF more = {} THEN pc' = "truncate json" /\ UNCHANGED todo
                    ELSE todo' = more /\ UNCHANGED pc
  /\ UNCHANGED <<net, open, removed, snap, cut, socket, files, history>>

\* An error leaves watchLoop, and the process: the socket is gone.
Exit ==
  /\ pc' = "exited"
  /\ watch' = "none" /\ queue' = 0 /\ overrun' = FALSE /\ told' = FALSE
  /\ todo' = {} /\ open' = NoIf /\ removed' = FALSE /\ snap' = Nothing /\ cut' = {}

\* readInterface: the directory has to be there; its files are optional.
OpenInterface(i) ==
  /\ pc = "read" /\ i \in todo
  /\ IF net[i] = "gone"
     THEN Exit
     ELSE /\ pc' = "operstate"
          /\ open' = i
          /\ todo' = todo \ {i}
          /\ UNCHANGED <<removed, snap, cut, socket>>
  /\ UNCHANGED <<net, files, history>>

\* Every value but "up", and a file that is not there, is "down".
ReadOperstate ==
  /\ pc = "operstate"
  /\ snap' = [snap EXCEPT ![open] = IF removed THEN "down" ELSE net[open]]
  /\ pc' = "flags"
  /\ UNCHANGED <<net, socket, todo, open, removed, cut, files, history>>

\* flags is read last.
ReadFlags ==
  /\ pc = "flags"
  /\ cut' = IF removed THEN cut \union {open} ELSE cut
  /\ open' = NoIf
  /\ removed' = FALSE
  /\ pc' = "read"
  /\ UNCHANGED <<net, socket, todo, snap, files, history>>

-----------------------------------------------------------------------------
(* writeSnapshot                                                           *)

TruncateJson ==
  /\ pc = "truncate json"
  /\ json' = Empty
  /\ pc' = "write json"
  /\ UNCHANGED <<net, socket, round, env, history>>

WriteJson ==
  /\ pc = "write json"
  /\ json' = Text("ok", snap, cut, NoIf)
  /\ pc' = "truncate env"
  /\ UNCHANGED <<net, socket, round, env, history>>

TruncateEnv ==
  /\ pc = "truncate env"
  /\ env' = Empty
  /\ pc' = "write env"
  /\ UNCHANGED <<net, socket, round, json, history>>

\* Where watchLoop goes on once the snapshot is out.
Resume ==
  CASE watch = "none" -> "socket"
    [] watch = "bound" -> "wait"
    [] OTHER -> "sleep"

\* Fault: a snapshot answers what came in while it was taken.
FaultWriteEnv ==
  /\ pc = "write env"
  /\ env' = Text("ok", snap, {}, Default(snap))
  /\ pc' = Resume
  /\ queue' = 0
  /\ overrun' = FALSE
  /\ UNCHANGED <<net, watch, told, round, json, history>>

WriteEnv ==
  /\ pc = "write env"
  /\ env' = Text("ok", snap, {}, Default(snap))
  /\ pc' = Resume
  /\ UNCHANGED <<net, socket, round, json, history>>

Fails ==
  /\ faults < MaxFaults
  /\ pc \in {"list", "truncate json", "write json", "truncate env", "write env"}
  /\ Exit
  /\ faults' = faults + 1
  /\ UNCHANGED <<net, files, changes>>

-----------------------------------------------------------------------------
(* watchLoop                                                               *)

Poll == pc' = "sleep" /\ watch' = "poll"

Socket ==
  /\ pc = "socket"
  /\ \/ pc' = "bind" /\ UNCHANGED watch
     \/ Poll
  /\ UNCHANGED <<net, queue, overrun, told, round, files, history>>

Bind ==
  /\ pc = "bind"
  /\ \/ pc' = "wait" /\ watch' = "bound"
     \/ Poll
  /\ UNCHANGED <<net, queue, overrun, told, round, files, history>>

\* Fault: the loop goes round before it has read anything.
FaultSleep ==
  /\ pc = "sleep"
  /\ pc' = "sleep"
  /\ UNCHANGED <<net, socket, round, files, history>>

Sleep ==
  /\ pc = "sleep"
  /\ pc' = "list"
  /\ UNCHANGED <<net, socket, round, files, history>>

\* A blocking read: a dropped notification is reported first, as an error.
Receive ==
  /\ pc = "wait"
  /\ queue > 0 \/ overrun
  /\ overrun' = FALSE
  /\ IF overrun THEN pc' = "list" /\ UNCHANGED queue
                ELSE queue' = queue - 1 /\ pc' = "drain"
  /\ UNCHANGED <<net, watch, told, round, files, history>>

\* The pending messages are taken before the snapshot, so that one snapshot
\* answers them all.
Drain ==
  /\ pc = "drain"
  /\ overrun' = FALSE
  /\ IF queue > 0 /\ ~overrun THEN queue' = queue - 1 /\ UNCHANGED pc
                              ELSE pc' = "list" /\ UNCHANGED queue
  /\ UNCHANGED <<net, watch, told, round, files, history>>

-----------------------------------------------------------------------------
(* The world                                                               *)

\* An interface comes, goes or changes, and the kernel announces it once the
\* change can be seen.
Change(i) ==
  /\ changes < MaxChanges
  /\ \E look \in Links \ {net[i]} : net' = [net EXCEPT ![i] = look]
  /\ changes' = changes + 1
  /\ removed' = (removed \/ (open = i /\ net'[i] = "gone"))
  /\ IF watch = "bound"
     THEN /\ told' = TRUE
          /\ IF queue < QueueCap THEN queue' = queue + 1 /\ UNCHANGED overrun
                                 ELSE overrun' = TRUE /\ UNCHANGED queue
     ELSE UNCHANGED <<queue, overrun, told>>
  /\ UNCHANGED <<watch, pc, todo, open, snap, cut, files, faults>>

\* restart = yes
Restart ==
  /\ pc = "exited"
  /\ pc' = "list"
  /\ UNCHANGED <<net, socket, round, files, history>>

Daemon ==
  \/ List \/ ListMore \/ (\E i \in Ifs : OpenInterface(i))
  \/ ReadOperstate \/ ReadFlags
  \/ TruncateJson \/ WriteJson \/ TruncateEnv \/ WriteEnv
  \/ Socket \/ Bind \/ Sleep \/ Receive \/ Drain

Next == Daemon \/ Fails \/ Restart \/ \E i \in Ifs : Change(i)

Spec == Init /\ [][Next]_vars

\* A daemon that can go on does, and dinit starts it again when it exits.
FairSpec == Spec /\ WF_vars(Daemon) /\ WF_vars(Restart)

-----------------------------------------------------------------------------
TypeOK ==
  /\ net \in [Ifs -> Links]
  /\ watch \in {"none", "bound", "poll"}
  /\ queue \in 0..QueueCap
  /\ overrun \in BOOLEAN /\ told \in BOOLEAN /\ removed \in BOOLEAN
  /\ pc \in {"list", "read", "operstate", "flags", "truncate json", "write json", "truncate env",
             "write env", "socket", "bind", "sleep", "wait", "drain", "exited"}
  /\ todo \subseteq Ifs
  /\ open \in Ifs \union {NoIf}
  /\ snap \in [Ifs -> Links]
  /\ cut \subseteq Ifs
  /\ {json, env} \subseteq [st : {"none", "empty", "ok"}, snap : [Ifs -> Links],
                            cut : SUBSET Ifs, default : Ifs \union {NoIf}]
  /\ changes \in 0..MaxChanges
  /\ faults \in 0..MaxFaults

Shows(text) == text.st = "ok" /\ text.snap = net /\ text.cut = {}

\* A daemon that has gone back to waiting has answered everything it was told:
\* after the first announced change, with nothing left in the socket, both files
\* show the interfaces as they are, whatever changed while it listed, read and
\* wrote, and however many notifications were dropped. (Changes between the
\* first snapshot and bind are announced to nobody: hence "told".)
NothingMissed ==
  (pc = "wait" /\ queue = 0 /\ ~overrun /\ told) => Shows(json) /\ Shows(env)

\* The default interface is one that is up, and loopback only when nothing
\* else is.
Ups(s) == {i \in Ifs : s[i] = "up"}
DefaultIsUp ==
  env.st = "ok" =>
    LET others == Ups(env.snap) \ {Lo}
    IN  env.default \in IF others # {} THEN others
                        ELSE IF Ups(env.snap) # {} THEN {Lo} ELSE {NoIf}

\* Once interfaces stop changing, the files come to show them, also through
\* exits, restarts and polling; except that a daemon whose socket was told
\* nothing since it was bound may wait with what it saw before.
CatchesUp ==
  []<>(\/ Shows(json) /\ Shows(env)
       \/ pc = "wait" /\ ~told)

\* "netd (Zig) reads /sys/class/net, emits JSON + env." The fields of an
\* interface without flags end in a comma, because only flags is written
\* without one: the file is not JSON.
EmitsJson == json.st = "ok" => json.cut = {}
=============================================================================
