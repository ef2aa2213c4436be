--------------------------- MODULE NetWatchProofs ---------------------------
(***************************************************************************)
(* What the network daemon was told of it has published once it waits      *)
(* again, and the default interface it publishes is one that was up, for   *)
(* every set of interfaces, every buffer and any number of changes and     *)
(* failures.                                                               *)
(***************************************************************************)
EXTENDS NetWatch, WellFoundedInduction, TLAPS

(* Of the types only what the argument needs.                              *)
Typed ==
  /\ net \in [Ifs -> Links]
  /\ snap \in [Ifs -> Links]
  /\ queue \in Nat
  /\ removed \in BOOLEAN /\ overrun \in BOOLEAN

\* Only a bound socket is told anything, and a daemon that opens one has none.
SocketInv ==
  /\ watch # "bound" => queue = 0 /\ ~overrun /\ ~told
  /\ pc \in {"socket", "bind"} => watch = "none"

\* The interface being read is one, and is no longer on the list.
OpenInv ==
  /\ pc \in {"operstate", "flags"} => open \in Ifs \ todo
  /\ pc \notin {"operstate", "flags"} => open = NoIf /\ ~removed

\* Nothing was announced since the socket was last found empty.
Quiet == watch = "bound" /\ queue = 0 /\ ~overrun

\* What a round has read is how things are, and what it has not is on its list.
Upto(done) ==
  /\ \A i \in done : snap[i] = net[i]
  /\ cut = {}
  /\ ~removed

RoundInv ==
  Quiet =>
    /\ pc \in {"read", "operstate", "flags"} =>
         \A i \in todo : net[i] # "gone"
    /\ pc \in {"read", "flags"} => Upto(Ifs \ todo)
    /\ pc = "operstate" => Upto(Ifs \ (todo \union {open}))
    /\ pc \in {"truncate json", "write json", "truncate env", "write env"} => Upto(Ifs)
    /\ pc \in {"truncate env", "write env"} => Shows(json)
    /\ pc = "wait" /\ told => Shows(json) /\ Shows(env)

NetInv == Typed /\ SocketInv /\ OpenInv /\ RoundInv

-----------------------------------------------------------------------------
\* The snapshot of a finished round is the interfaces themselves.
LEMMA SameSnapshot ==
  ASSUME Typed, Upto(Ifs)
  PROVE  snap = net
BY DEF Typed, Upto

LEMMA NetInit == Init => NetInv
<1> SUFFICES ASSUME Init PROVE NetInv
  OBVIOUS
<1>1. Typed
  BY DEF Init, Typed, Links, Nothing
<1>2. SocketInv /\ OpenInv
  BY DEF Init, SocketInv, OpenInv
<1>3. RoundInv
  BY DEF Init, RoundInv, Quiet
<1> QED
  BY <1>1, <1>2, <1>3 DEF NetInv

LEMMA NetTyped ==
  ASSUME NetInv, [Next]_vars
  PROVE  Typed'
<1> USE DEF NetInv, Typed, Links, Nothing
<1>1. CASE List
  BY <1>1 DEF List, socket, round, files, history
<1>2. CASE ListMore
  BY <1>2 DEF ListMore, socket, round, files, history
<1>3. ASSUME NEW i \in Ifs, OpenInterface(i) PROVE Typed'
  <2>1. CASE net[i] = "gone"
    <3>1. net' = net /\ snap' = Nothing /\ queue' = 0
      BY <1>3, <2>1 DEF OpenInterface, Exit
    <3>2. removed' = FALSE /\ overrun' = FALSE
      BY <1>3, <2>1 DEF OpenInterface, Exit
    <3> QED
      BY <3>1, <3>2
  <2>2. CASE net[i] # "gone"
    BY <1>3, <2>2 DEF OpenInterface, socket, files, history
  <2> QED
    BY <2>1, <2>2
<1>4. CASE ReadOperstate
  BY <1>4 DEF ReadOperstate, OpenInv, socket, files, history
<1>5. CASE ReadFlags
  BY <1>5 DEF ReadFlags, socket, round, files, history
<1>6. CASE TruncateJson
  BY <1>6 DEF TruncateJson, socket, round, files, history
<1>7. CASE WriteJson
  BY <1>7 DEF WriteJson, socket, round, files, history
<1>8. CASE TruncateEnv
  BY <1>8 DEF TruncateEnv, socket, round, files, history
<1>9. CASE WriteEnv
  BY <1>9 DEF WriteEnv, socket, round, files, history
<1>10. CASE Socket
  BY <1>10 DEF Socket, socket, round, files, history
<1>11. CASE Bind
  BY <1>11 DEF Bind, socket, round, files, history
<1>12. CASE Sleep
  BY <1>12 DEF Sleep, socket, round, files, history
<1>13. CASE Receive
  <2>1. queue' \in Nat
    BY <1>13 DEF Receive
  <2>2. overrun' \in BOOLEAN
    BY <1>13 DEF Receive
  <2> QED
    BY <1>13, <2>1, <2>2 DEF Receive, round, files, history
<1>14. CASE Drain
  <2>1. queue' \in Nat
    BY <1>14 DEF Drain
  <2>2. overrun' \in BOOLEAN
    BY <1>14 DEF Drain
  <2> QED
    BY <1>14, <2>1, <2>2 DEF Drain, round, files, history
<1>15. CASE Fails
  BY <1>15 DEF Fails, Exit, files
<1>16. CASE Restart
  BY <1>16 DEF Restart, socket, round, files, history
<1>17. ASSUME NEW i \in Ifs, Change(i) PROVE Typed'
  <2>1. net' \in [Ifs -> Links] /\ snap' \in [Ifs -> Links]
    BY <1>17 DEF Change
  <2>2. queue' \in Nat
    BY <1>17 DEF Change
  <2>3. removed' \in BOOLEAN /\ overrun' \in BOOLEAN
    BY <1>17 DEF Change
  <2> QED
    BY <2>1, <2>2, <2>3
<1>18. CASE UNCHANGED vars
  BY <1>18 DEF vars, socket, round, files, history
<1> QED
  BY <1>1, <1>2, <1>3, <1>4, <1>5, <1>6, <1>7, <1>8, <1>9,
     <1>10, <1>11, <1>12, <1>13, <1>14, <1>15, <1>16, <1>17, <1>18
  DEF Next, Daemon

LEMMA NetSocketOpen ==
  ASSUME NetInv, [Next]_vars
  PROVE  SocketInv' /\ OpenInv'
<1> USE DEF NetInv, SocketInv, OpenInv
<1>1. CASE List
  BY <1>1 DEF List, socket, round, files, history
<1>2. CASE ListMore
  BY <1>2 DEF ListMore, socket, round, files, history
<1>3. ASSUME NEW i \in Ifs, OpenInterface(i) PROVE SocketInv' /\ OpenInv'
  BY <1>3 DEF OpenInterface, Exit, socket, files, history
<1>4. CASE ReadOperstate
  BY <1>4 DEF ReadOperstate, socket, round, files, history
<1>5. CASE ReadFlags
  BY <1>5 DEF ReadFlags, socket, round, files, history
<1>6. CASE TruncateJson
  BY <1>6 DEF TruncateJson, socket, round, files, history
<1>7. CASE WriteJson
  BY <1>7 DEF WriteJson, socket, round, files, history
<1>8. CASE TruncateEnv
  BY <1>8 DEF TruncateEnv, socket, round, files, history
<1>9. CASE WriteEnv
  BY <1>9 DEF WriteEnv, Resume, socket, round, history
<1>10. CASE Socket
  BY <1>10 DEF Socket, Poll, round, files, history
<1>11. CASE Bind
  BY <1>11 DEF Bind, Poll, round, files, history
<1>12. CASE Sleep
  BY <1>12 DEF Sleep, socket, round, files, history
<1>13. CASE Receive
  BY <1>13 DEF Receive, socket, round, files, history
<1>14. CASE Drain
  BY <1>14 DEF Drain, socket, round, files, history
<1>15. CASE Fails
  BY <1>15 DEF Fails, Exit, files
<1>16. CASE Restart
  BY <1>16 DEF Restart, socket, round, files, history
<1>17. ASSUME NEW i \in Ifs, Change(i) PROVE SocketInv' /\ OpenInv'
  <2>1. UNCHANGED <<watch, pc, todo, open>>
    BY <1>17 DEF Change
  <2>2. watch # "bound" => UNCHANGED <<queue, overrun, told>>
    BY <1>17 DEF Change
  <2>3. open = NoIf => (removed' <=> removed)
    BY <1>17, NetAssumption DEF Change
  <2> QED
    BY <2>1, <2>2, <2>3
<1>18. CASE UNCHANGED vars
  BY <1>18 DEF vars, socket, round, files, history
<1> QED
  BY <1>1, <1>2, <1>3, <1>4, <1>5, <1>6, <1>7, <1>8, <1>9,
     <1>10, <1>11, <1>12, <1>13, <1>14, <1>15, <1>16, <1>17, <1>18
  DEF Next, Daemon

LEMMA NetRound ==
  ASSUME NetInv, [Next]_vars
  PROVE  RoundInv'
<1> USE DEF NetInv, RoundInv, Quiet, Upto
<1>1. CASE List
  BY <1>1 DEF List, Present, Nothing, OpenInv, Typed, Links, socket, files, history
<1>2. CASE ListMore
  <2>1. CASE Quiet
    <3>1. Present \subseteq Listed
      BY <1>2, <2>1 DEF ListMore, Present, Listed, Typed, Links
    <3> QED
      BY <1>2, <2>1, <3>1 DEF ListMore, socket, files, history
  <2>2. CASE ~Quiet
    BY <1>2, <2>2 DEF ListMore, socket, files, history
  <2> QED
    BY <2>1, <2>2
<1>3. ASSUME NEW i \in Ifs, OpenInterface(i) PROVE RoundInv'
  BY <1>3 DEF OpenInterface, Exit, socket, files, history
<1>4. CASE ReadOperstate
  BY <1>4 DEF ReadOperstate, OpenInv, Typed, socket, files, history
<1>5. CASE ReadFlags
  BY <1>5 DEF ReadFlags, OpenInv, socket, files, history
<1>6. CASE TruncateJson \/ TruncateEnv
  BY <1>6 DEF TruncateJson, TruncateEnv, socket, round, history, Shows
<1>7. CASE WriteJson
  BY <1>7, SameSnapshot DEF WriteJson, socket, round, history, Shows, Text
<1>8. CASE WriteEnv
  BY <1>8, SameSnapshot DEF WriteEnv, Resume, socket, round, history, Shows, Text
<1>9. CASE Socket \/ Bind \/ Sleep \/ Restart
  BY <1>9 DEF Socket, Bind, Poll, Sleep, Restart, SocketInv, round, socket, files, history
<1>10. CASE Receive \/ Drain
  BY <1>10 DEF Receive, Drain, round, files, history
<1>11. CASE Fails
  BY <1>11 DEF Fails, Exit, files
<1>12. ASSUME NEW i \in Ifs, Change(i) PROVE RoundInv'
  <2>1. CASE watch = "bound" /\ queue < QueueCap
    <3>1. queue' = queue + 1
      BY <1>12, <2>1 DEF Change
    <3>2. queue \in Nat
      BY DEF Typed
    <3>3. queue' # 0
      BY ONLY <3>1, <3>2
    <3> QED
      BY <3>3
  <2>2. CASE ~(watch = "bound" /\ queue < QueueCap)
    BY <1>12, <2>2 DEF Change
  <2> QED
    BY <2>1, <2>2
<1>13. CASE UNCHANGED vars
  BY <1>13 DEF vars, socket, round, files, history, Shows
<1> QED
  BY <1>1, <1>2, <1>3, <1>4, <1>5, <1>6, <1>7, <1>8, <1>9, <1>10, <1>11, <1>12, <1>13
  DEF Next, Daemon

-----------------------------------------------------------------------------
\* A daemon that waits with an empty socket, after it was told of a change, has
\* both files showing the interfaces as they are: no change announced while it
\* listed, read or wrote is lost, nor are dropped notifications.
THEOREM ToldIsPublished == Spec => []NothingMissed
<1>1. Init => NetInv
  BY NetInit
<1>2. NetInv /\ [Next]_vars => NetInv'
  BY NetTyped, NetSocketOpen, NetRound DEF NetInv
<1>3. NetInv => NothingMissed
  BY DEF NetInv, SocketInv, RoundInv, Quiet, NothingMissed
<1> QED
  BY <1>1, <1>2, <1>3, PTL DEF Spec

-----------------------------------------------------------------------------
(* The default interface                                                   *)

\* Induction over the natural numbers, for the members of a set.
LEMMA Inductive ==
  ASSUME NEW S, 0 \in S, \A n \in Nat : n \in S => n + 1 \in S
  PROVE  Nat \subseteq S
<1> DEFINE T == Nat \ S
<1> SUFFICES ASSUME T # {} PROVE FALSE
  OBVIOUS
<1>1. PICK R : R = OpToRel(<, Nat)
  OBVIOUS
<1>2. IsWellFoundedOn(R, Nat)
  BY <1>1, NatLessThanWellFounded
<1>3. PICK x \in T : \A y \in T : <<y, x>> \notin R
  <2>1. T \subseteq Nat /\ T # {}
    OBVIOUS
  <2> HIDE DEF T
  <2> QED
    BY <1>2, <2>1, WFMin
<1>4. x - 1 \in Nat /\ x - 1 < x
  OBVIOUS
<1>5. <<x - 1, x>> \in R
  BY <1>1, <1>4 DEF OpToRel
<1> QED
  BY <1>3, <1>4, <1>5

\* There is a function that takes each value from the one before.
Steps(last, V, step) == \A k \in 1..last, v \in V : step[k][v] \in V
Recursive(last, V, v0, step) ==
  \E f \in [0..last -> V] : f[0] = v0 /\ \A k \in 1..last : f[k] = step[k][f[k - 1]]

LEMMA Recursion ==
  ASSUME NEW last \in Nat, NEW V, NEW v0 \in V, NEW step, Steps(last, V, step)
  PROVE  Recursive(last, V, v0, step)
<1> USE DEF Steps, Recursive
<1> DEFINE Follows(n, f) == f[0] = v0 /\ \A k \in 1..n : f[k] = step[k][f[k - 1]]
<1> DEFINE S == {n \in Nat : n <= last => \E f \in [0..n -> V] : Follows(n, f)}
<1>1. 0 \in S
  <2>1. [k \in 0..0 |-> v0] \in [0..0 -> V] /\ Follows(0, [k \in 0..0 |-> v0])
    OBVIOUS
  <2> QED
    BY <2>1
<1>2. ASSUME NEW n \in Nat, n \in S, n + 1 <= last
      PROVE  \E f \in [0..(n + 1) -> V] : Follows(n + 1, f)
  <2>1. PICK g \in [0..n -> V] : Follows(n, g)
    BY <1>2
  <2>2. PICK f : f = [k \in 0..(n + 1) |-> IF k = n + 1 THEN step[n + 1][g[n]] ELSE g[k]]
    OBVIOUS
  <2>3. g[n] \in V /\ n + 1 \in 1..last
    BY <1>2
  <2>4. \A k \in 0..(n + 1) : f[k] = IF k = n + 1 THEN step[n + 1][g[n]] ELSE g[k]
    BY <2>2
  <2>5. f \in [0..(n + 1) -> V]
    BY <2>2, <2>3
  <2>6. ASSUME NEW k \in 1..(n + 1) PROVE f[k] = step[k][f[k - 1]]
    <3>1. CASE k = n + 1
      BY <2>4, <3>1
    <3>2. CASE k # n + 1
      <4>1. k \in 1..n /\ k - 1 \in 0..(n + 1) /\ k - 1 # n + 1
        BY <3>2
      <4>2. f[k] = g[k] /\ f[k - 1] = g[k - 1]
        BY <2>4, <3>2, <4>1
      <4> QED
        BY <2>1, <4>1, <4>2
    <3> QED
      BY <3>1, <3>2
  <2>7. f[0] = v0
    BY <2>1, <2>4
  <2> QED
    BY <2>5, <2>6, <2>7
<1>3. Nat \subseteq S
  <2>1. ASSUME NEW n \in Nat, n \in S PROVE n + 1 \in S
    <3>1. n + 1 \in Nat /\ (n + 1 <= last => \E f \in [0..(n + 1) -> V] : Follows(n + 1, f))
      BY <1>2, <2>1
    <3> HIDE DEF Follows
    <3> QED
      BY <3>1
  <2> HIDE DEF S
  <2> QED
    BY <1>1, <2>1, Inductive
<1> QED
  BY <1>3

\* Which interface is right to take as default.
Right(d, s) ==
  LET others == Ups(s) \ {Lo}
  IN  d \in IF others # {} THEN others ELSE IF Ups(s) # {} THEN {Lo} ELSE {NoIf}

\* What the pass over the first interfaces has chosen from.
Seen(s, k) == {Names[j] : j \in {i \in 1..k : s[Names[i]] = "up"}}
Chosen(s, k, d) ==
  LET others == Seen(s, k) \ {Lo}
  IN  d \in IF others # {} THEN others ELSE IF Seen(s, k) # {} THEN {Lo} ELSE {NoIf}

After(s, k, before) ==
  IF s[Names[k]] = "up" /\ (before = NoIf \/ (before = Lo /\ Names[k] # Lo))
  THEN Names[k] ELSE before

LEMMA NamesAre ==
  /\ Len(Names) \in Nat /\ DOMAIN Names = 1..Len(Names)
  /\ Ifs = {Names[k] : k \in 1..Len(Names)} /\ NoIf \notin Ifs
<1>1. Len(Names) \in Nat /\ DOMAIN Names = 1..Len(Names)
  BY NetAssumption
<1> QED
  BY <1>1, NetAssumption DEF Ifs

\* One more interface.
LEMMA AfterIsChosen ==
  ASSUME NEW s, NEW k \in 1..Len(Names), NEW d, Chosen(s, k - 1, d)
  PROVE  Chosen(s, k, After(s, k, d))
<1>1. k - 1 \in Nat /\ 1..k = (1..(k - 1)) \union {k}
  BY NamesAre
<1>2. Seen(s, k) = Seen(s, k - 1) \union (IF s[Names[k]] = "up" THEN {Names[k]} ELSE {})
  BY <1>1 DEF Seen
<1>3. NoIf \notin Seen(s, k)
  BY NamesAre, <1>1 DEF Seen
<1> QED
  BY <1>2, <1>3 DEF Chosen, After

\* renderRuntimeEnv's pass chooses an interface that is up, and loopback only
\* when nothing else is.
LEMMA DefaultIsRight ==
  ASSUME NEW s
  PROVE  Right(Default(s), s)
<1> DEFINE L == Len(Names)
<1>0. L \in Nat
  BY NamesAre
<1>1. PICK step : step = [k \in 1..L |-> [v \in Ifs \union {NoIf} |-> After(s, k, v)]]
  OBVIOUS
<1>2. \A k \in 1..L, v \in Ifs \union {NoIf} : step[k][v] = After(s, k, v) /\ step[k][v] \in Ifs \union {NoIf}
  BY <1>1, NamesAre DEF After
<1>3. PICK g \in [0..L -> Ifs \union {NoIf}] : g[0] = NoIf /\ \A k \in 1..L : g[k] = step[k][g[k - 1]]
  <2> DEFINE V == Ifs \union {NoIf}
  <2>1. NoIf \in V /\ Steps(L, V, step)
    BY <1>2 DEF Steps
  <2> HIDE DEF L, V
  <2>2. Recursive(L, V, NoIf, step)
    BY <1>0, <2>1, Recursion
  <2> QED
    BY <2>2 DEF Recursive, V
<1> DEFINE Body(f, k) ==
      IF k = 0 THEN NoIf
      ELSE LET before == f[k - 1]
           IN  IF s[Names[k]] = "up" /\ (before = NoIf \/ (before = Lo /\ Names[k] # Lo))
               THEN Names[k] ELSE before
<1>4. g = [k \in 0..L |-> Body(g, k)]
  <2>1. \A k \in 1..L : g[k] = After(s, k, g[k - 1])
    BY <1>0, <1>2, <1>3
  <2>2. \A k \in 0..L : g[k] = Body(g, k)
    BY <1>0, <1>3, <2>1 DEF After
  <2> QED
    BY <1>3, <2>2
<1> DEFINE chosen == CHOOSE f : f = [k \in 0..Len(Names) |-> Body(f, k)]
<1>5. chosen = [k \in 0..L |-> Body(chosen, k)]
  BY <1>4
<1>6. Default(s) = chosen[L]
  BY DEF Default
<1> HIDE DEF chosen
<1>7. /\ chosen[0] = NoIf
      /\ \A k \in 1..L : chosen[k] = After(s, k, chosen[k - 1])
  <2>1. \A k \in 0..L : chosen[k] = Body(chosen, k)
    BY <1>5
  <2>2. chosen[0] = NoIf
    BY <1>0, <2>1
  <2>3. ASSUME NEW k \in 1..L PROVE chosen[k] = After(s, k, chosen[k - 1])
    <3>1. chosen[k] = Body(chosen, k) /\ k # 0
      BY <1>0, <2>1
    <3> QED
      BY <3>1 DEF After
  <2> QED
    BY <2>2, <2>3
<1> DEFINE S == {k \in Nat : k <= L => Chosen(s, k, chosen[k])}
<1>8. 0 \in S
  BY <1>7 DEF Chosen, Seen
<1>9. \A k \in Nat : k \in S => k + 1 \in S
  <2>1. ASSUME NEW k \in Nat, k \in S, k + 1 <= L PROVE Chosen(s, k + 1, chosen[k + 1])
    <3>1. k + 1 \in 1..L /\ (k + 1) - 1 = k /\ Chosen(s, k, chosen[k])
      BY <1>0, <2>1
    <3>2. chosen[k + 1] = After(s, k + 1, chosen[k])
      BY <1>7, <3>1
    <3> QED
      BY <3>1, <3>2, AfterIsChosen
  <2> QED
    BY <2>1
<1>10. Chosen(s, L, chosen[L])
  <2>1. Nat \subseteq S
    <3> HIDE DEF S
    <3> QED
      BY <1>8, <1>9, Inductive
  <2> QED
    BY <1>0, <2>1
<1>11. Seen(s, L) = Ups(s)
  BY NamesAre DEF Seen, Ups
<1> QED
  BY <1>6, <1>10, <1>11 DEF Right, Chosen

\* What a pass over the interfaces chooses is one of them, or none.
LEMMA DefaultIsOne ==
  ASSUME NEW s
  PROVE  Default(s) \in Ifs \union {NoIf}
<1>1. Ups(s) \subseteq Ifs
  BY DEF Ups
<1> QED
  BY <1>1, DefaultIsRight DEF Right

(* The types, part by part.                                                *)
Pcs == {"list", "read", "operstate", "flags", "truncate json", "write json", "truncate env",
        "write env", "socket", "bind", "sleep", "wait", "drain", "exited"}
Texts == [st : {"none", "empty", "ok"}, snap : [Ifs -> Links], cut : SUBSET Ifs,
          default : Ifs \union {NoIf}]

SocketOK == watch \in {"none", "bound", "poll"} /\ queue \in 0..QueueCap /\ told \in BOOLEAN
PcOK == pc \in Pcs
RoundOK == todo \subseteq Ifs /\ open \in Ifs \union {NoIf} /\ cut \subseteq Ifs
FilesOK == json \in Texts /\ env \in Texts
CountsOK == changes \in 0..MaxChanges /\ faults \in 0..MaxFaults

LEMMA EmptyIsText == Empty \in Texts /\ [Empty EXCEPT !.st = "none"] \in Texts
BY DEF Empty, Text, Texts, Nothing, Links

LEMMA Bounds == QueueCap \in Nat /\ QueueCap > 0 /\ MaxChanges \in Nat /\ MaxFaults \in Nat
BY NetAssumption

LEMMA SocketTypes ==
  ASSUME TypeOK, NetInv, [Next]_vars
  PROVE  SocketOK'
<1>0. SocketOK
  BY DEF TypeOK, SocketOK
<1> USE DEF SocketOK
<1>1. CASE List \/ ListMore \/ ReadOperstate \/ ReadFlags
  BY <1>0, <1>1 DEF List, ListMore, ReadOperstate, ReadFlags, socket
<1>2. CASE TruncateJson \/ WriteJson \/ TruncateEnv \/ WriteEnv
  BY <1>0, <1>2 DEF TruncateJson, WriteJson, TruncateEnv, WriteEnv, socket
<1>3. CASE Socket \/ Bind \/ Sleep \/ Restart
  BY <1>0, <1>3 DEF Socket, Bind, Sleep, Restart, Poll, socket
<1>4. CASE Receive \/ Drain
  BY <1>0, <1>4, Bounds DEF Receive, Drain
<1>5. CASE Fails
  <2>1. watch' = "none" /\ queue' = 0 /\ told' = FALSE
    BY <1>5 DEF Fails, Exit
  <2>2. 0 \in 0..QueueCap
    BY Bounds
  <2> QED
    BY <2>1, <2>2, Zenon
<1>6. ASSUME NEW i \in Ifs, OpenInterface(i) PROVE SocketOK'
  <2>1. \/ watch' = "none" /\ queue' = 0 /\ told' = FALSE
        \/ UNCHANGED <<watch, queue, told>>
    BY <1>6 DEF OpenInterface, Exit, socket
  <2>2. 0 \in 0..QueueCap
    BY Bounds
  <2> QED
    BY <1>0, <2>1, <2>2, Zenon
<1>7. ASSUME NEW i \in Ifs, Change(i) PROVE SocketOK'
  <2>1. UNCHANGED watch /\ told' \in BOOLEAN
    BY <1>0, <1>7 DEF Change
  <2>2. queue' = queue \/ (queue < QueueCap /\ queue' = queue + 1)
    BY <1>0, <1>7 DEF Change
  <2>3. queue' \in 0..QueueCap
    BY <1>0, <2>2, Bounds
  <2> QED
    BY <1>0, <2>1, <2>3
<1>8. CASE UNCHANGED vars
  BY <1>0, <1>8 DEF vars, socket, round, files, history
<1> QED
  BY <1>1, <1>2, <1>3, <1>4, <1>5, <1>6, <1>7, <1>8
  DEF Next, Daemon

LEMMA StepTypes ==
  ASSUME TypeOK, NetInv, [Next]_vars
  PROVE  PcOK'
<1>0. PcOK
  BY DEF TypeOK, PcOK, Pcs
<1> USE DEF PcOK, Pcs
<1>1. CASE List \/ ListMore \/ ReadOperstate \/ ReadFlags
  BY <1>0, <1>1 DEF List, ListMore, ReadOperstate, ReadFlags
<1>2. CASE TruncateJson \/ WriteJson \/ TruncateEnv
  BY <1>0, <1>2 DEF TruncateJson, WriteJson, TruncateEnv
<1>3. CASE WriteEnv
  BY <1>0, <1>3 DEF WriteEnv, Resume
<1>4. CASE Socket \/ Bind \/ Sleep \/ Restart
  BY <1>0, <1>4 DEF Socket, Bind, Sleep, Restart, Poll
<1>5. CASE Receive \/ Drain
  BY <1>0, <1>5 DEF Receive, Drain
<1>6. CASE Fails
  BY <1>0, <1>6 DEF Fails, Exit
<1>7. ASSUME NEW i \in Ifs, OpenInterface(i) PROVE PcOK'
  BY <1>0, <1>7 DEF OpenInterface, Exit
<1>8. ASSUME NEW i \in Ifs, Change(i) PROVE PcOK'
  BY <1>0, <1>8 DEF Change
<1>9. CASE UNCHANGED vars
  BY <1>0, <1>9 DEF vars, socket, round, files, history
<1> QED
  BY <1>1, <1>2, <1>3, <1>4, <1>5, <1>6, <1>7, <1>8, <1>9
  DEF Next, Daemon

LEMMA RoundTypes ==
  ASSUME TypeOK, NetInv, [Next]_vars
  PROVE  RoundOK'
<1>0. RoundOK
  BY DEF TypeOK, RoundOK
<1> USE DEF RoundOK
<1>1. CASE List
  BY <1>0, <1>1 DEF List, Present
<1>2. CASE ListMore
  BY <1>0, <1>2 DEF ListMore, Present
<1>3. CASE ReadOperstate
  BY <1>0, <1>3 DEF ReadOperstate
<1>4. CASE ReadFlags
  BY <1>0, <1>4 DEF ReadFlags, NetInv, OpenInv
<1>5. CASE TruncateJson \/ WriteJson \/ TruncateEnv \/ WriteEnv
  BY <1>0, <1>5 DEF TruncateJson, WriteJson, TruncateEnv, WriteEnv, round
<1>6. CASE Socket \/ Bind \/ Sleep \/ Restart
  BY <1>0, <1>6 DEF Socket, Bind, Sleep, Restart, round
<1>7. CASE Receive \/ Drain
  BY <1>0, <1>7 DEF Receive, Drain, round
<1>8. CASE Fails
  BY <1>0, <1>8 DEF Fails, Exit
<1>9. ASSUME NEW i \in Ifs, OpenInterface(i) PROVE RoundOK'
  BY <1>0, <1>9 DEF OpenInterface, Exit, round
<1>10. ASSUME NEW i \in Ifs, Change(i) PROVE RoundOK'
  BY <1>0, <1>10 DEF Change, round
<1>11. CASE UNCHANGED vars
  BY <1>0, <1>11 DEF vars, socket, round, files, history
<1> QED
  BY <1>1, <1>2, <1>3, <1>4, <1>5, <1>6, <1>7, <1>8, <1>9, <1>10, <1>11
  DEF Next, Daemon

LEMMA FileTypes ==
  ASSUME TypeOK, NetInv, [Next]_vars
  PROVE  FilesOK'
<1>0. FilesOK
  BY DEF TypeOK, FilesOK, Texts, Links
<1> USE DEF FilesOK, Texts, Links
<1>1. CASE List \/ ListMore \/ ReadOperstate \/ ReadFlags
  BY <1>0, <1>1 DEF List, ListMore, ReadOperstate, ReadFlags, files
<1>2. CASE TruncateJson \/ TruncateEnv
  BY <1>0, <1>2, EmptyIsText DEF TruncateJson, TruncateEnv
<1>3. CASE WriteJson
  <2>1. UNCHANGED env /\ json' = Text("ok", snap, cut, NoIf)
    BY <1>3 DEF WriteJson
  <2>2. snap \in [Ifs -> Links] /\ cut \in SUBSET Ifs
    BY DEF TypeOK, Links
  <2> QED
    BY <1>0, <2>1, <2>2 DEF Text
<1>4. CASE WriteEnv
  <2>1. UNCHANGED json /\ env' = Text("ok", snap, {}, Default(snap))
    BY <1>0, <1>4 DEF WriteEnv
  <2>2. Text("ok", snap, {}, Default(snap)) \in Texts
    <3>1. snap \in [Ifs -> Links]
      BY DEF TypeOK, Links
    <3> QED
      BY <3>1, DefaultIsOne DEF Text
  <2> QED
    BY <1>0, <2>1, <2>2
<1>5. CASE Socket \/ Bind \/ Sleep \/ Restart
  BY <1>0, <1>5 DEF Socket, Bind, Sleep, Restart, files
<1>6. CASE Receive \/ Drain
  BY <1>0, <1>6 DEF Receive, Drain, files
<1>7. CASE Fails
  BY <1>0, <1>7 DEF Fails, files
<1>8. ASSUME NEW i \in Ifs, OpenInterface(i) PROVE FilesOK'
  BY <1>0, <1>8 DEF OpenInterface, Exit, files
<1>9. ASSUME NEW i \in Ifs, Change(i) PROVE FilesOK'
  BY <1>0, <1>9 DEF Change, files
<1>10. CASE UNCHANGED vars
  BY <1>0, <1>10 DEF vars, socket, round, files, history
<1> QED
  BY <1>1, <1>2, <1>3, <1>4, <1>5, <1>6, <1>7, <1>8, <1>9, <1>10
  DEF Next, Daemon

LEMMA CountTypes ==
  ASSUME TypeOK, NetInv, [Next]_vars
  PROVE  CountsOK'
<1>0. CountsOK
  BY DEF TypeOK, CountsOK
<1> USE DEF CountsOK
<1>1. CASE List \/ ListMore \/ ReadOperstate \/ ReadFlags
  BY <1>0, <1>1 DEF List, ListMore, ReadOperstate, ReadFlags, history
<1>2. CASE TruncateJson \/ WriteJson \/ TruncateEnv \/ WriteEnv
  BY <1>0, <1>2 DEF TruncateJson, WriteJson, TruncateEnv, WriteEnv, history
<1>3. CASE Socket \/ Bind \/ Sleep \/ Restart
  BY <1>0, <1>3 DEF Socket, Bind, Sleep, Restart, history
<1>4. CASE Receive \/ Drain
  BY <1>0, <1>4 DEF Receive, Drain, history
<1>5. CASE Fails
  <2>1. UNCHANGED changes /\ faults < MaxFaults /\ faults' = faults + 1
    BY <1>5 DEF Fails
  <2> QED
    BY <1>0, <2>1, Bounds
<1>6. ASSUME NEW i \in Ifs, OpenInterface(i) PROVE CountsOK'
  BY <1>0, <1>6 DEF OpenInterface, Exit, history
<1>7. ASSUME NEW i \in Ifs, Change(i) PROVE CountsOK'
  BY <1>0, <1>7, Bounds DEF Change
<1>8. CASE UNCHANGED vars
  BY <1>0, <1>8 DEF vars, socket, round, files, history
<1> QED
  BY <1>1, <1>2, <1>3, <1>4, <1>5, <1>6, <1>7, <1>8
  DEF Next, Daemon

LEMMA TypesInit == Init => TypeOK
<1> SUFFICES ASSUME Init PROVE TypeOK
  OBVIOUS
<1>1. net \in [Ifs -> Links] /\ snap \in [Ifs -> Links]
  BY DEF Init, Nothing, Links
<1>2. {json, env} \subseteq Texts
  BY EmptyIsText DEF Init
<1>3. queue \in 0..QueueCap /\ changes \in 0..MaxChanges /\ faults \in 0..MaxFaults
  BY NetAssumption DEF Init
<1> QED
  BY <1>1, <1>2, <1>3 DEF Init, TypeOK, Texts

LEMMA TypesStep ==
  ASSUME TypeOK, NetInv, NetInv', [Next]_vars
  PROVE  TypeOK'
<1>1. Typed'
  BY DEF NetInv
<1>2. {json, env}' \subseteq Texts
  BY FileTypes DEF FilesOK, Texts
<1> QED
  BY <1>1, <1>2, SocketTypes, StepTypes, RoundTypes, CountTypes
  DEF TypeOK, Typed, SocketOK, PcOK, RoundOK, CountsOK, Pcs, Texts


-----------------------------------------------------------------------------
\* The daemon's state has its types whatever comes, changes and fails: its socket
\* never holds more than the buffer, and what it publishes as default is the name
\* of an interface or nothing.
THEOREM NetTypes == Spec => []TypeOK
<1>1. Init => TypeOK /\ NetInv
  BY TypesInit, NetInit
<1>2. NetInv /\ [Next]_vars => NetInv'
  BY NetTyped, NetSocketOpen, NetRound DEF NetInv
<1>3. TypeOK /\ NetInv /\ [Next]_vars => (TypeOK /\ NetInv)'
  BY <1>2, TypesStep
<1> QED
  BY <1>1, <1>3, PTL DEF Spec

\* The file that renderRuntimeEnv writes names an interface that was up in the
\* snapshot it was made from, and loopback only when no other was.
THEOREM PublishedDefault == Spec => []DefaultIsUp
<1>1. Init => DefaultIsUp
  BY DEF Init, DefaultIsUp, Empty, Text
<1>2. ASSUME DefaultIsUp, [Next]_vars PROVE DefaultIsUp'
  <2>1. CASE UNCHANGED env
    BY <1>2, <2>1 DEF DefaultIsUp, Ups
  <2>2. CASE TruncateEnv
    BY <2>2 DEF TruncateEnv, Empty, Text, DefaultIsUp
  <2>3. CASE WriteEnv
    <3>1. env'.snap = snap /\ env'.default = Default(snap)
      BY <2>3 DEF WriteEnv, Text
    <3> QED
      BY <3>1, DefaultIsRight DEF DefaultIsUp, Right, Ups
  <2>4. UNCHANGED env \/ TruncateEnv \/ WriteEnv
    BY <1>2 DEF Next, Daemon, List, ListMore, OpenInterface, ReadOperstate, ReadFlags,
       TruncateJson, WriteJson, Socket, Bind, Sleep, Receive, Drain, Fails, Restart, Change,
       files, vars
  <2> QED
    BY <2>1, <2>2, <2>3, <2>4
<1> QED
  BY <1>1, <1>2, PTL DEF Spec
=============================================================================
