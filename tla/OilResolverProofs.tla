-------------------------- MODULE OilResolverProofs -------------------------
(***************************************************************************)
(* Proofs about OilResolver, for every package list, request and set of    *)
(* installed names.                                                        *)
(***************************************************************************)
EXTENDS OilResolver, WellFoundedInduction, SequenceTheorems, TLAPS

-----------------------------------------------------------------------------
(* The index                                                               *)

\* A nonempty set of numbers has a smallest member, and First returns it.
LEMMA FirstIsLeast ==
  ASSUME NEW S \in SUBSET Nat, S # {}
  PROVE  First(S) \in S /\ \A j \in S : First(S) <= j
<1>1. PICK i \in S : \A j \in S : ~(<<j, i>> \in OpToRel(<, Nat))
  BY NatLessThanWellFounded, WFMin
<1>2. ASSUME NEW j \in S, j < i PROVE FALSE
  <2>1. <<j, i>> \in Nat \X Nat
    OBVIOUS
  <2>2. <<j, i>> \in {ss \in Nat \X Nat : ss[1] < ss[2]}
    BY <1>2, <2>1
  <2> QED
    BY <1>1, <2>2, Zenon DEF OpToRel
<1>3. \A j \in S : i <= j
  BY <1>2
<1> QED
  BY <1>3 DEF First

InputOK ==
  /\ packages \in Seq(Package)
  /\ roots \in Seq(Names)
  /\ skip \subseteq Names

LEMMA PositionTypes ==
  ASSUME InputOK
  PROVE  /\ Positions = 1..Len(packages) /\ Positions \subseteq Nat
         /\ \A i \in Positions :
              /\ NameOf(i) \in Names
              /\ packages[i].depends \in Seq(Names \union {NoName})
              /\ Len(packages[i].depends) \in Nat
              /\ DOMAIN packages[i].depends = 1..Len(packages[i].depends)
<1>1. Positions = 1..Len(packages) /\ Len(packages) \in Nat
  BY LenProperties DEF InputOK, Positions
<1>2. \A i \in Positions : packages[i] \in Package
  BY <1>1, ElementOfSeq DEF InputOK
<1>3. \A i \in Positions : NameOf(i) \in Names
                           /\ packages[i].depends \in Seq(Names \union {NoName})
  BY <1>2 DEF Package, NameOf
<1> QED
  BY <1>1, <1>3, LenProperties

\* What the index finds is one of its packages.
LEMMA FindTypes ==
  ASSUME InputOK, NEW n, Found(n)
  PROVE  Find(n) \in Positions /\ NameOf(Find(n)) \in Names
<1>1. Called(n) \subseteq Positions /\ Providing(n) \subseteq Positions
  BY DEF Called, Providing
<1>2. Find(n) \in Positions
  BY <1>1, PositionTypes, FirstIsLeast DEF Find, Found
<1> QED
  BY <1>2, PositionTypes

\* The index and the request do not change, and nothing derived from them does.
LEMMA InputStays ==
  ASSUME UNCHANGED input
  PROVE  /\ Positions' = Positions
         /\ \A i : NameOf(i)' = NameOf(i)
         /\ \A n : Found(n)' = Found(n)
         /\ \A n : Find(n)' = Find(n)
         /\ \A n : Counts(n)' = Counts(n)
         /\ \A i : Needs(i)' = Needs(i)
         /\ Roots' = Roots
         /\ Needed' = Needed
<1>1. packages' = packages /\ roots' = roots /\ skip' = skip
  BY DEF input
<1>2. \A n : Called(n)' = Called(n) /\ Providing(n)' = Providing(n)
  BY <1>1 DEF Called, Providing, Positions, NameOf
<1>3. \A n : Found(n)' = Found(n) /\ Find(n)' = Find(n)
  BY <1>2 DEF Found, Find
<1>4. Positions' = Positions /\ \A i : NameOf(i)' = NameOf(i)
  BY <1>1 DEF Positions, NameOf
<1>5. /\ \A n : Counts(n)' = Counts(n)
      /\ \A i : Needs(i)' = Needs(i)
      /\ Roots' = Roots
  BY <1>1 DEF Counts, Needs, Depends, Roots
<1>6. \A S : Closed(S)' = Closed(S)
  BY <1>3, <1>5 DEF Closed
<1>7. Needed' = Needed
  BY <1>4, <1>6 DEF Needed
<1> QED
  BY <1>3, <1>4, <1>5, <1>7

\* The packages found for roots and for the needs of needed packages are needed.
LEMMA NeededIsClosed ==
  ASSUME InputOK
  PROVE  /\ \A n \in Roots : Found(n) => Find(n) \in Needed
         /\ \A i \in Needed : \A n \in Needs(i) : Found(n) => Find(n) \in Needed
<1>1. \A n : Found(n) => Find(n) \in Positions
  BY FindTypes
<1>2. ASSUME NEW n \in Roots, Found(n) PROVE Find(n) \in Needed
  BY <1>1, <1>2 DEF Needed, Closed
<1>3. ASSUME NEW i \in Needed, NEW n \in Needs(i), Found(n) PROVE Find(n) \in Needed
  <2>1. \A S \in SUBSET Positions : Closed(S) => Find(n) \in S
    BY <1>3 DEF Needed, Closed
  <2> QED
    BY <1>1, <1>3, <2>1 DEF Needed
<1> QED
  BY <1>2, <1>3

-----------------------------------------------------------------------------
(* The strengthening: what the open calls know                             *)

OrderNames == {NameOf(order[k]) : k \in DOMAIN order}

\* A name that needs nothing more.
Done(n) == Counts(n) => Found(n) /\ NameOf(Find(n)) \in scheduled

Dep(k, m) == packages[stack[k].pkg].depends[m]

\* The open calls: of needed packages, each made for the dependency its caller
\* has just taken, and no two of the same name.
InBounds(k) ==
  /\ stack[k].pkg \in Needed
  /\ stack[k].next <= Len(packages[stack[k].pkg].depends) + 1

CallsNext(k) ==
  /\ stack[k].next > 1
  /\ Counts(Dep(k, stack[k].next - 1))
  /\ Found(Dep(k, stack[k].next - 1))
  /\ Find(Dep(k, stack[k].next - 1)) = stack[k + 1].pkg

StackInv ==
  /\ \A k \in 1..Len(stack) : InBounds(k)
  /\ \A k \in 1..(Len(stack) - 1) : CallsNext(k)
  /\ \A j, k \in 1..Len(stack) : NameOf(stack[j].pkg) = NameOf(stack[k].pkg) => j = k

\* The dependencies and roots gone past are done.
DepsDone(k) ==
  \A m \in 1..(stack[k].next - 1) :
    k = Len(stack) \/ m < stack[k].next - 1 => Done(Dep(k, m))

RootsDone ==
  /\ \A r \in 1..(nextRoot - 1) :
       stack = <<>> \/ r < nextRoot - 1 => Done(roots[r])
  /\ stack # <<>> =>
       /\ nextRoot > 1
       /\ Counts(roots[nextRoot - 1])
       /\ Found(roots[nextRoot - 1])
       /\ Find(roots[nextRoot - 1]) = stack[1].pkg

DoneInv == RootsDone /\ \A k \in 1..Len(stack) : DepsDone(k)

\* The order: needed packages, of different names, dependencies first.
OrderInv ==
  /\ \A k \in DOMAIN order : order[k] \in Needed
  /\ \A j, k \in DOMAIN order : NameOf(order[j]) = NameOf(order[k]) => j = k
  /\ DepsBeforeDependents

NamesInv ==
  /\ visiting = {NameOf(stack[k].pkg) : k \in 1..Len(stack)}
  /\ scheduled = OrderNames
  /\ visiting \intersect scheduled = {}

AllDone == \A r \in 1..Len(roots) : Done(roots[r])

IInv ==
  /\ TypeOK
  /\ OrderInv
  /\ scheduled = OrderNames
  /\ outcome = "open" => StackInv /\ DoneInv /\ NamesInv
  /\ outcome = "ok" => AllDone

Frames == [pkg : Positions, next : Nat \ {0}]

LEMMA TypeFacts ==
  ASSUME TypeOK
  PROVE  /\ InputOK
         /\ stack \in Seq(Frames) /\ Len(stack) \in Nat
         /\ \A k \in 1..Len(stack) :
              stack[k] \in Frames /\ stack[k].pkg \in Positions /\ stack[k].next \in Nat \ {0}
         /\ stack = <<>> <=> Len(stack) = 0
         /\ Len(roots) \in Nat /\ nextRoot \in Nat
         /\ \A r \in 1..Len(roots) : roots[r] \in Names
         /\ order \in Seq(Positions) /\ DOMAIN order = 1..Len(order) /\ Len(order) \in Nat
<1>1. stack \in Seq(Frames) /\ order \in Seq(Positions) /\ roots \in Seq(Names)
  BY DEF TypeOK, Frames
<1>2. InputOK
  BY DEF TypeOK, InputOK
<1>3. Len(stack) \in Nat /\ \A k \in 1..Len(stack) : stack[k] \in Frames
  BY <1>1, LenProperties, ElementOfSeq
<1>8. \A k \in 1..Len(stack) : stack[k].pkg \in Positions /\ stack[k].next \in Nat \ {0}
  BY <1>3 DEF Frames
<1>4. stack = <<>> <=> Len(stack) = 0
  BY <1>1, EmptySeq
<1>5. Len(roots) \in Nat /\ \A r \in 1..Len(roots) : roots[r] \in Names
  BY <1>1, LenProperties, ElementOfSeq
<1>6. nextRoot \in Nat
  <2>1. nextRoot \in 1..(Len(roots) + 1)
    BY DEF TypeOK
  <2> QED
    BY <1>5, <2>1
<1>7. DOMAIN order = 1..Len(order) /\ Len(order) \in Nat
  BY <1>1, LenProperties
<1> QED
  BY <1>1, <1>2, <1>3, <1>4, <1>5, <1>6, <1>7, <1>8

LEMMA InitIInv == Init => IInv
<1> SUFFICES ASSUME Init PROVE IInv
  OBVIOUS
<1>1. packages \in Seq(Package) /\ roots \in Seq(Names) /\ skip \subseteq Names
  BY ResolverAssumption DEF Init
<1>2. stack = <<>> /\ order = <<>> /\ Len(<<>>) = 0 /\ DOMAIN order = {}
  BY DEF Init
<1>3. TypeOK
  BY <1>1, LenProperties DEF Init, TypeOK
<1>4. OrderInv /\ OrderNames = {}
  BY <1>2 DEF OrderInv, OrderNames, DepsBeforeDependents
<1>5. StackInv /\ DoneInv
  BY <1>2 DEF Init, StackInv, DoneInv, RootsDone
<1>6. NamesInv
  BY <1>2, <1>4 DEF Init, NamesInv
<1> QED
  BY <1>3, <1>4, <1>5, <1>6 DEF Init, IInv

-----------------------------------------------------------------------------
(* The steps                                                               *)

\* While the input stays, so does what is said about a name in terms of it.
LEMMA DoneStays ==
  ASSUME UNCHANGED input, scheduled \subseteq scheduled'
  PROVE  \A n : Done(n) => Done(n)'
BY InputStays DEF Done

LEMMA OrderStays ==
  ASSUME IInv, UNCHANGED <<input, order, scheduled>>
  PROVE  OrderInv' /\ scheduled' = OrderNames'
<1>1. OrderNames' = OrderNames
  BY InputStays DEF OrderNames
<1>2. DepsBeforeDependents'
  BY InputStays DEF IInv, OrderInv, DepsBeforeDependents
<1>3. OrderInv'
  BY <1>2, InputStays DEF IInv, OrderInv
<1> QED
  BY <1>1, <1>3 DEF IInv

\* Any step that ends the call with an error.
LEMMA FailIInv ==
  ASSUME IInv, UNCHANGED <<input, stack, visiting, order, scheduled>>,
         outcome' \in {"not found", "circular"},
         nextRoot' \in 1..(Len(roots) + 1)
  PROVE  IInv'
<1>1. TypeOK'
  BY InputStays DEF IInv, TypeOK, input
<1> QED
  BY <1>1, OrderStays DEF IInv

\* A new call: n is the name the caller has just taken.
LEMMA PushIInv ==
  ASSUME IInv, outcome = "open", outcome' = "open",
         UNCHANGED <<input, scheduled, order>>,
         NEW n, Counts(n), Found(n), Find(n) \in Needed,
         NameOf(Find(n)) \notin visiting \union scheduled,
         NEW calls \in Seq(Frames), Len(calls) = Len(stack),
         \A k \in 1..Len(stack) : calls[k].pkg = stack[k].pkg,
         \A k \in 1..(Len(stack) - 1) : calls[k] = stack[k],
         stack # <<>> => /\ calls[Len(stack)].next = Top.next + 1
                         /\ Top.next <= Len(packages[Top.pkg].depends)
                         /\ n = Dep(Len(stack), Top.next)
                         /\ nextRoot' = nextRoot,
         stack = <<>> => /\ nextRoot <= Len(roots)
                         /\ n = roots[nextRoot]
                         /\ nextRoot' = nextRoot + 1,
         stack' = Append(calls, Frame(Find(n))),
         visiting' = visiting \union {NameOf(Find(n))}
  PROVE  IInv'
<1>0. PICK L \in Nat, p \in Positions : Len(stack) = L /\ Find(n) = p
  BY TypeFacts, FindTypes DEF IInv
<1>1. /\ InputOK /\ L = Len(stack) /\ p = Find(n) /\ Len(roots) \in Nat /\ nextRoot \in Nat
      /\ stack = <<>> <=> L = 0
      /\ \A k \in 1..L : stack[k].pkg \in Positions /\ stack[k].next \in Nat \ {0}
  BY <1>0, TypeFacts DEF IInv
<1>2. p \in Positions /\ NameOf(p) \in Names /\ Frame(p) \in Frames
      /\ Frame(p).pkg = p /\ Frame(p).next = 1
  BY <1>1, FindTypes DEF Frames, Frame
<1>3. /\ stack' \in Seq(Frames) /\ Len(stack') = L + 1 /\ stack' # <<>>
      /\ \A k \in 1..L : stack'[k] = calls[k]
      /\ stack'[L + 1] = Frame(p)
  BY <1>1, <1>2, AppendProperties
<1>4. /\ \A k \in 1..L : stack'[k].pkg = stack[k].pkg
      /\ \A k \in 1..(L - 1) : stack'[k].next = stack[k].next
      /\ L > 0 => stack'[L].next = stack[L].next + 1
      /\ stack'[L + 1].pkg = p /\ stack'[L + 1].next = 1
  BY <1>1, <1>2, <1>3 DEF Top
<1>5. packages' = packages /\ roots' = roots
  BY DEF input
<1>6. /\ \A k \in 1..L : \A m : Dep(k, m)' = Dep(k, m)
  BY <1>4, <1>5 DEF Dep
<1>7. TypeOK'
  <2>1. nextRoot' \in 1..(Len(roots) + 1)
    BY <1>1 DEF IInv, TypeOK
  <2>2. visiting' \subseteq Names
    BY <1>1, <1>2 DEF IInv, TypeOK
  <2> QED
    BY <1>3, <2>1, <2>2, InputStays DEF IInv, TypeOK, input, Frames
<1>9. L > 0 =>
        /\ L \in 1..L /\ stack[L].pkg \in Positions /\ stack[L].next \in Nat \ {0}
        /\ Len(packages[stack[L].pkg].depends) \in Nat
        /\ stack[L].next <= Len(packages[stack[L].pkg].depends)
        /\ stack'[L].next = stack[L].next + 1
        /\ Dep(L, stack[L].next) = n
  <2>0. SUFFICES ASSUME L > 0
                 PROVE  /\ L \in 1..L /\ stack[L].pkg \in Positions /\ stack[L].next \in Nat \ {0}
                        /\ Len(packages[stack[L].pkg].depends) \in Nat
                        /\ stack[L].next <= Len(packages[stack[L].pkg].depends)
                        /\ stack'[L].next = stack[L].next + 1
                        /\ Dep(L, stack[L].next) = n
    OBVIOUS
  <2>1. L \in 1..L
    BY <2>0
  <2>2. stack[L].pkg \in Positions /\ stack[L].next \in Nat \ {0}
    BY <1>1, <2>1
  <2> QED
    BY <1>1, <1>4, <2>0, <2>1, <2>2, PositionTypes DEF Top
<1>10. \A k \in 1..(L + 1) : InBounds(k)'
  <2>1. InBounds(L + 1)'
    <3>1. Len(packages[p].depends) \in Nat
      BY <1>1, <1>2, PositionTypes
    <3> QED
      BY <1>1, <1>4, <1>5, <3>1, InputStays DEF InBounds
  <2>2. ASSUME NEW k \in 1..L, k # L PROVE InBounds(k)'
    BY <1>1, <1>4, <1>5, <2>2, InputStays DEF IInv, StackInv, InBounds
  <2>3. ASSUME L > 0 PROVE InBounds(L)'
    <3>1. stack[L].pkg \in Needed
      BY <1>1, <1>9, <2>3 DEF IInv, StackInv, InBounds
    <3>2. PICK x \in Nat, q \in Positions : stack[L].next = x /\ stack[L].pkg = q
      BY <1>9, <2>3
    <3>3. Len(packages[q].depends) \in Nat /\ x <= Len(packages[q].depends)
      BY <1>9, <2>3, <3>2
    <3>4. stack'[L].next = x + 1 /\ stack'[L].pkg = q /\ q \in Needed
      BY <1>4, <1>9, <2>3, <3>1, <3>2
    <3> QED
      BY <1>5, <3>3, <3>4, InputStays DEF InBounds
  <2> QED
    BY <1>1, <2>1, <2>2, <2>3
<1>11. \A k \in 1..L : CallsNext(k)'
  <2>1. ASSUME NEW k \in 1..(L - 1) PROVE CallsNext(k)'
    <3>1. CallsNext(k) /\ k \in 1..L /\ k + 1 \in 1..L
      BY <1>1 DEF IInv, StackInv
    <3>2. stack'[k].next = stack[k].next /\ stack'[k + 1].pkg = stack[k + 1].pkg
      BY <1>4, <3>1
    <3>3. Dep(k, stack[k].next - 1)' = Dep(k, stack[k].next - 1)
      BY <1>6, <3>1, <3>2
    <3> QED
      BY <3>1, <3>2, <3>3, InputStays DEF CallsNext
  <2>2. ASSUME L > 0 PROVE CallsNext(L)'
    <3>0. PICK x \in Nat \ {0} : stack[L].next = x
      BY <1>9, <2>2
    <3>7. stack'[L].next = x + 1
      BY <1>9, <2>2, <3>0
    <3>1. stack'[L].next > 1 /\ stack'[L].next - 1 = stack[L].next
      BY <3>0, <3>7
    <3>2. Dep(L, stack[L].next - 1)' = n
      BY <1>6, <1>9, <2>2, <3>1
    <3>3. Counts(n)' /\ Found(n)' /\ Find(n)' = p
      BY <1>1, InputStays
    <3>4. stack'[L + 1].pkg = p
      BY <1>4
    <3> QED
      BY <3>1, <3>2, <3>3, <3>4, InputStays DEF CallsNext
  <2> QED
    BY <1>1, <2>1, <2>2
<1>12. \A j, k \in 1..(L + 1) : (NameOf(stack[j].pkg) = NameOf(stack[k].pkg))' => j = k
  <2>1. \A k \in 1..L : NameOf(stack[k].pkg) # NameOf(p)
    BY <1>1 DEF IInv, NamesInv
  <2>2. /\ \A k \in 1..L : NameOf(stack[k].pkg)' = NameOf(stack[k].pkg)
        /\ NameOf(stack[L + 1].pkg)' = NameOf(p)
    BY <1>4, <1>5 DEF NameOf
  <2>3. \A j, k \in 1..L : NameOf(stack[j].pkg) = NameOf(stack[k].pkg) => j = k
    BY <1>1 DEF IInv, StackInv
  <2> SUFFICES ASSUME NEW j \in 1..(L + 1), NEW k \in 1..(L + 1),
                      NameOf(stack[j].pkg)' = NameOf(stack[k].pkg)'
               PROVE  j = k
    OBVIOUS
  <2>4. CASE j = L + 1 /\ k = L + 1
    BY <2>4
  <2>5. CASE j \in 1..L /\ k = L + 1
    BY <2>1, <2>2, <2>5
  <2>6. CASE j = L + 1 /\ k \in 1..L
    BY <2>1, <2>2, <2>6
  <2>7. CASE j \in 1..L /\ k \in 1..L
    <3>1. NameOf(stack[j].pkg)' = NameOf(stack[j].pkg)
      BY <2>2, <2>7
    <3>2. NameOf(stack[k].pkg)' = NameOf(stack[k].pkg)
      BY <2>2, <2>7
    <3> QED
      BY <2>3, <2>7, <3>1, <3>2
  <2>8. /\ j \in 1..L \/ j = L + 1
        /\ k \in 1..L \/ k = L + 1
    BY <1>0
  <2> QED
    BY <2>4, <2>5, <2>6, <2>7, <2>8
<1>13. StackInv'
  BY <1>1, <1>3, <1>10, <1>11, <1>12 DEF StackInv
<1>14. DoneInv'
  <2>1. RootsDone'
    <3>1. CASE L = 0
      <4>1. stack = <<>> /\ nextRoot' = nextRoot + 1 /\ nextRoot <= Len(roots) /\ n = roots[nextRoot]
        BY <1>1, <3>1
      <4>2. nextRoot >= 1
        BY DEF IInv, TypeOK
      <4> QED
        BY <1>1, <1>3, <1>4, <1>5, <3>1, <4>1, <4>2, InputStays, DoneStays
           DEF IInv, DoneInv, RootsDone
    <3>2. CASE L # 0
      <4>1. stack # <<>> /\ nextRoot' = nextRoot /\ 1 \in 1..L
        BY <1>1, <3>2
      <4> QED
        BY <1>1, <1>3, <1>4, <1>5, <4>1, InputStays, DoneStays DEF IInv, DoneInv, RootsDone
    <3> QED
      BY <3>1, <3>2
  <2>2. DepsDone(L + 1)'
    BY <1>4 DEF DepsDone
  <2>3. ASSUME NEW k \in 1..(L - 1) PROVE DepsDone(k)'
    <3>1. DepsDone(k) /\ k \in 1..L /\ k # L + 1 /\ k # L
      BY <1>1 DEF IInv, DoneInv
    <3> QED
      BY <1>3, <1>4, <1>6, <3>1, DoneStays DEF DepsDone
  <2>4. ASSUME L > 0 PROVE DepsDone(L)'
    <3>1. DepsDone(L) /\ L \in 1..L /\ L # L + 1
      BY <1>1, <2>4 DEF IInv, DoneInv
    <3>2. \A m \in 1..(stack[L].next - 1) : Done(Dep(L, m))
      BY <1>1, <3>1 DEF DepsDone
    <3> QED
      BY <1>3, <1>6, <1>9, <2>4, <3>1, <3>2, DoneStays DEF DepsDone
  <2> QED
    BY <1>1, <1>3, <2>1, <2>2, <2>3, <2>4 DEF DoneInv
<1>15. NamesInv'
  <2>1. visiting' = {NameOf(stack[k].pkg)' : k \in 1..(L + 1)}
    BY <1>1, <1>4, InputStays DEF IInv, NamesInv
  <2>2. visiting' \intersect scheduled' = {}
    BY DEF IInv, NamesInv
  <2> QED
    BY <1>3, <2>1, <2>2, OrderStays DEF NamesInv
<1> QED
  BY <1>7, <1>13, <1>14, <1>15, OrderStays DEF IInv

\* The top call takes its next dependency.
LEMMA AdvancedTypes ==
  ASSUME TypeOK, stack # <<>>
  PROVE  /\ Advanced \in Seq(Frames) /\ Len(Advanced) = Len(stack)
         /\ \A k \in 1..Len(stack) : Advanced[k].pkg = stack[k].pkg
         /\ \A k \in 1..(Len(stack) - 1) : Advanced[k] = stack[k]
         /\ Advanced[Len(stack)].next = Top.next + 1
<1>1. PICK L \in Nat \ {0}, x \in Nat \ {0}, q \in Positions :
        Len(stack) = L /\ stack[L].next = x /\ stack[L].pkg = q /\ stack[L] \in Frames
  <2>1. Len(stack) \in 1..Len(stack) /\ Len(stack) \in Nat \ {0}
    BY TypeFacts
  <2> QED
    BY <2>1, TypeFacts
<1>2. stack \in Seq(Frames) /\ L \in 1..Len(stack)
  BY <1>1, TypeFacts
<1>3. PICK f : f = [stack[L] EXCEPT !.next = x + 1]
  OBVIOUS
<1>4. f \in Frames /\ f.pkg = q /\ f.next = x + 1
  BY <1>1, <1>3 DEF Frames
<1>5. Advanced = [stack EXCEPT ![L] = f]
  BY <1>1, <1>3 DEF Advanced
<1>6. /\ Advanced \in Seq(Frames) /\ Len(Advanced) = L
      /\ \A k \in 1..L : Advanced[k] = IF k = L THEN f ELSE stack[k]
  BY <1>1, <1>2, <1>4, <1>5, ExceptSeq
<1> QED
  BY <1>1, <1>4, <1>6 DEF Top

\* The top call goes past a dependency that is done.
LEMMA AdvanceIInv ==
  ASSUME IInv, outcome = "open", outcome' = "open", stack # <<>>,
         UNCHANGED <<input, nextRoot, visiting, scheduled, order>>,
         Top.next <= Len(packages[Top.pkg].depends),
         Done(Dep(Len(stack), Top.next)),
         stack' = Advanced
  PROVE  IInv'
<1>1. PICK L \in Nat \ {0}, x \in Nat \ {0}, q \in Positions :
        /\ Len(stack) = L /\ stack[L].next = x /\ stack[L].pkg = q
        /\ L \in 1..L
  <2>1. Len(stack) \in 1..Len(stack) /\ Len(stack) \in Nat \ {0}
    BY TypeFacts DEF IInv
  <2> QED
    BY <2>1, TypeFacts DEF IInv
<1>2. /\ InputOK /\ stack' \in Seq(Frames) /\ Len(stack') = L /\ stack' # <<>>
      /\ \A k \in 1..L : stack'[k].pkg = stack[k].pkg
      /\ \A k \in 1..(L - 1) : stack'[k] = stack[k]
      /\ stack'[L].next = x + 1
      /\ \A k \in 1..L : stack[k].pkg \in Positions /\ stack[k].next \in Nat \ {0}
  <2>1. stack' # <<>>
    BY <1>1, AdvancedTypes, EmptySeq DEF IInv
  <2> QED
    BY <1>1, <2>1, AdvancedTypes, TypeFacts DEF IInv, Top
<1>3. packages' = packages /\ roots' = roots
  BY DEF input
<1>4. \A k \in 1..L : \A m : Dep(k, m)' = Dep(k, m)
  BY <1>2, <1>3 DEF Dep
<1>5. Len(packages[q].depends) \in Nat /\ x <= Len(packages[q].depends) /\ Done(Dep(L, x))
  BY <1>1, <1>2, PositionTypes DEF Top
<1>6. TypeOK'
  BY <1>2, InputStays DEF IInv, TypeOK, input, Frames
<1>7. StackInv'
  <2>1. ASSUME NEW k \in 1..(L - 1) PROVE InBounds(k)' /\ CallsNext(k)'
    <3>1. InBounds(k) /\ CallsNext(k) /\ k \in 1..L /\ k + 1 \in 1..L
      BY <1>1 DEF IInv, StackInv
    <3>2. /\ stack'[k].next = stack[k].next /\ stack'[k].pkg = stack[k].pkg
          /\ stack'[k + 1].pkg = stack[k + 1].pkg
      BY <1>2, <3>1
    <3>3. Dep(k, stack[k].next - 1)' = Dep(k, stack[k].next - 1)
      BY <1>4, <3>1, <3>2
    <3>4. InBounds(k)'
      BY <1>3, <3>1, <3>2, InputStays DEF InBounds
    <3> QED
      BY <3>1, <3>2, <3>3, <3>4, InputStays DEF CallsNext
  <2>2. InBounds(L)'
    <3>1. q \in Needed /\ stack'[L].pkg = q
      BY <1>1, <1>2 DEF IInv, StackInv, InBounds
    <3> QED
      BY <1>2, <1>3, <1>5, <3>1, InputStays DEF InBounds
  <2>3. \A k \in 1..L : InBounds(k)'
    BY <1>1, <2>1, <2>2
  <2>4. \A j, k \in 1..L : (NameOf(stack[j].pkg) = NameOf(stack[k].pkg))' => j = k
    <3>1. \A k \in 1..L : NameOf(stack[k].pkg)' = NameOf(stack[k].pkg)
      BY <1>2, <1>3 DEF NameOf
    <3> QED
      BY <1>1, <3>1 DEF IInv, StackInv
  <2> QED
    BY <1>2, <2>1, <2>3, <2>4 DEF StackInv
<1>8. DoneInv'
  <2>1. RootsDone'
    <3>1. stack'[1].pkg = stack[1].pkg
      BY <1>1, <1>2
    <3> QED
      BY <1>2, <1>3, <3>1, InputStays, DoneStays DEF IInv, DoneInv, RootsDone
  <2>2. ASSUME NEW k \in 1..(L - 1) PROVE DepsDone(k)'
    <3>1. DepsDone(k) /\ k \in 1..L /\ k # L /\ stack'[k].next = stack[k].next
      BY <1>1, <1>2 DEF IInv, DoneInv
    <3> QED
      BY <1>1, <1>2, <1>4, <3>1, DoneStays DEF DepsDone
  <2>3. DepsDone(L)'
    <3>1. \A m \in 1..(x - 1) : Done(Dep(L, m))
      BY <1>1 DEF IInv, DoneInv, DepsDone
    <3>2. \A m \in 1..x : Done(Dep(L, m))'
      BY <1>1, <1>4, <1>5, <3>1, DoneStays
    <3> QED
      BY <1>2, <3>2 DEF DepsDone
  <2> QED
    BY <1>1, <1>2, <2>1, <2>2, <2>3 DEF DoneInv
<1>9. NamesInv'
  <2>1. visiting' = {NameOf(stack[k].pkg)' : k \in 1..L}
    <3>1. \A k \in 1..L : NameOf(stack[k].pkg)' = NameOf(stack[k].pkg)
      BY <1>2, <1>3 DEF NameOf
    <3> QED
      BY <1>1, <3>1 DEF IInv, NamesInv
  <2> QED
    BY <1>2, <2>1, OrderStays DEF IInv, NamesInv
<1> QED
  BY <1>6, <1>7, <1>8, <1>9, OrderStays DEF IInv

\* The loop over the roots goes past a root that is done.
LEMMA SkipRootIInv ==
  ASSUME IInv, outcome = "open", outcome' = "open", stack = <<>>, nextRoot <= Len(roots),
         UNCHANGED <<input, stack, visiting, scheduled, order>>,
         nextRoot' = nextRoot + 1,
         Done(roots[nextRoot])
  PROVE  IInv'
<1>1. PICK r \in Nat \ {0} : nextRoot = r /\ r <= Len(roots) /\ Len(roots) \in Nat
  BY TypeFacts DEF IInv, TypeOK
<1>2. Len(stack) = 0
  BY EmptySeq
<1>3. TypeOK'
  BY <1>1, InputStays DEF IInv, TypeOK, input
<1>4. RootsDone'
  <2>1. \A s \in 1..r : Done(roots[s])
    BY <1>1 DEF IInv, DoneInv, RootsDone
  <2> QED
    BY <1>1, <2>1, DoneStays DEF RootsDone, input
<1>5. StackInv' /\ DoneInv' /\ NamesInv'
  BY <1>2, <1>4, OrderStays DEF IInv, StackInv, DoneInv, NamesInv
<1> QED
  BY <1>3, <1>5, OrderStays DEF IInv

\* The three ways a call of visit_install_deps begins.
Skipped(n, calls) ==
  /\ Done(n)
  /\ stack' = calls
  /\ UNCHANGED <<visiting, outcome>>

Refused ==
  /\ outcome' \in {"not found", "circular"}
  /\ UNCHANGED <<stack, visiting>>

Entered(n, calls) ==
  /\ n \notin skip /\ Found(n)
  /\ NameOf(Find(n)) \notin visiting \union scheduled
  /\ stack' = Append(calls, Frame(Find(n)))
  /\ visiting' = visiting \union {NameOf(Find(n))}
  /\ UNCHANGED outcome

LEMMA CallCases ==
  ASSUME NEW n, NEW calls, Call(n, calls)
  PROVE  Skipped(n, calls) \/ Refused \/ Entered(n, calls)
<1>1. CASE n \in skip \/ (Found(n) /\ NameOf(Find(n)) \in scheduled)
  BY <1>1 DEF Call, Skipped, Done, Counts, Fail
<1>2. CASE n \notin skip /\ ~Found(n)
  BY <1>2 DEF Call, Refused, Fail
<1>3. CASE n \notin skip /\ Found(n) /\ NameOf(Find(n)) \in visiting \ scheduled
  BY <1>3 DEF Call, Refused, Fail
<1>4. CASE n \notin skip /\ Found(n) /\ NameOf(Find(n)) \notin visiting \union scheduled
  BY <1>4 DEF Call, Entered
<1> QED
  BY <1>1, <1>2, <1>3, <1>4

LEMMA VisitRootIInv ==
  ASSUME IInv, VisitRoot
  PROVE  IInv'
<1>1. PICK n \in Names : n = roots[nextRoot] /\ n # NoName
  <2>1. nextRoot \in 1..Len(roots)
    BY TypeFacts DEF IInv, TypeOK, VisitRoot
  <2> QED
    BY <2>1, TypeFacts, ResolverAssumption DEF IInv
<1>2. /\ outcome = "open" /\ stack = <<>> /\ nextRoot <= Len(roots)
      /\ nextRoot' = nextRoot + 1
      /\ UNCHANGED <<input, scheduled, order>>
      /\ Call(n, stack)
  BY <1>1 DEF VisitRoot
<1>3. /\ stack \in Seq(Frames) /\ Len(stack) = 0
      /\ nextRoot \in Nat \ {0} /\ Len(roots) \in Nat
  BY <1>2, TypeFacts DEF IInv, TypeOK
<1>4. CASE Skipped(n, stack)
  BY <1>1, <1>2, <1>4, SkipRootIInv DEF Skipped
<1>5. CASE Refused
  <2>1. nextRoot' \in 1..(Len(roots) + 1)
    BY <1>2, <1>3
  <2> QED
    BY <1>2, <1>5, <2>1, FailIInv DEF Refused
<1>6. CASE Entered(n, stack)
  <2>1. n \in Roots /\ Counts(n)
    <3>1. nextRoot \in DOMAIN roots
      BY <1>2, <1>3, LenProperties DEF IInv, TypeOK
    <3> QED
      BY <1>1, <1>6, <3>1 DEF Roots, Entered, Counts
  <2>2. Find(n) \in Needed
    BY <1>6, <2>1, NeededIsClosed, TypeFacts DEF IInv, Entered
  <2> QED
    BY <1>1, <1>2, <1>3, <1>6, <2>1, <2>2, PushIInv DEF Entered
<1> QED
  BY <1>2, <1>4, <1>5, <1>6, CallCases

LEMMA VisitDepIInv ==
  ASSUME IInv, VisitDep
  PROVE  IInv'
<1>1. PICK n : n = Dep(Len(stack), Top.next)
  OBVIOUS
<1>2. /\ outcome = "open" /\ stack # <<>>
      /\ Top.next <= Len(packages[Top.pkg].depends)
      /\ UNCHANGED <<input, nextRoot, scheduled, order>>
  BY DEF VisitDep
<1>3. n = packages[Top.pkg].depends[Top.next]
  BY <1>1 DEF Dep, Top
<1>4. /\ Advanced \in Seq(Frames) /\ Len(Advanced) = Len(stack)
      /\ \A k \in 1..Len(stack) : Advanced[k].pkg = stack[k].pkg
      /\ \A k \in 1..(Len(stack) - 1) : Advanced[k] = stack[k]
      /\ Advanced[Len(stack)].next = Top.next + 1
  BY <1>2, AdvancedTypes DEF IInv
<1>5. CASE n = NoName
  <2>1. stack' = Advanced /\ UNCHANGED <<visiting, outcome>>
    BY <1>3, <1>5 DEF VisitDep
  <2>2. Done(n)
    BY <1>5 DEF Done, Counts
  <2> QED
    BY <1>1, <1>2, <2>1, <2>2, AdvanceIInv
<1>6. CASE n # NoName
  <2>1. Call(n, Advanced)
    BY <1>3, <1>6 DEF VisitDep
  <2>2. CASE Skipped(n, Advanced)
    BY <1>1, <1>2, <2>2, AdvanceIInv DEF Skipped
  <2>3. CASE Refused
    BY <1>2, <2>3, FailIInv DEF Refused, IInv, TypeOK
  <2>4. CASE Entered(n, Advanced)
    <3>1. PICK q \in Needed, x \in Nat \ {0} : Top.pkg = q /\ Top.next = x
      <4>1. Len(stack) \in 1..Len(stack)
        BY <1>2, TypeFacts DEF IInv
      <4> QED
        BY <1>2, <4>1, TypeFacts DEF IInv, StackInv, InBounds, Top
    <3>2. x \in DOMAIN packages[q].depends
      <4>1. q \in Positions
        BY DEF Needed
      <4> QED
        BY <1>2, <3>1, <4>1, PositionTypes, TypeFacts DEF IInv
    <3>3. Counts(n) /\ n \in Needs(q)
      BY <1>3, <1>6, <2>4, <3>1, <3>2 DEF Entered, Needs, Depends, Counts
    <3>4. Find(n) \in Needed
      BY <2>4, <3>3, NeededIsClosed, TypeFacts DEF IInv, Entered
    <3> QED
      BY <1>1, <1>2, <1>4, <2>4, <3>3, <3>4, PushIInv DEF Entered
  <2> QED
    BY <2>1, <2>2, <2>3, <2>4, CallCases
<1> QED
  BY <1>5, <1>6

\* The top call returns and its package goes into the order.
LEMMA LeaveIInv ==
  ASSUME IInv, Leave
  PROVE  IInv'
<1>1. PICK L \in Nat \ {0}, x \in Nat \ {0}, q \in Positions :
        /\ Len(stack) = L /\ stack[L].next = x /\ stack[L].pkg = q
        /\ L \in 1..L
  <2>1. Len(stack) \in 1..Len(stack) /\ Len(stack) \in Nat \ {0}
    BY TypeFacts DEF IInv, Leave
  <2> QED
    BY <2>1, TypeFacts DEF IInv
<1>2. Top.pkg = q /\ Top.next = x
  BY <1>1 DEF Top
<1>3. /\ outcome = "open" /\ outcome' = "open"
      /\ UNCHANGED <<input, nextRoot>>
      /\ stack' = SubSeq(stack, 1, L - 1)
      /\ visiting' = visiting \ {NameOf(q)}
      /\ scheduled' = scheduled \union {NameOf(q)}
      /\ order' = Append(order, q)
  BY <1>1, <1>2 DEF Leave, Below
<1>4. /\ InputOK /\ stack \in Seq(Frames)
      /\ \A k \in 1..L : stack[k] \in Frames /\ stack[k].pkg \in Positions
                         /\ stack[k].next \in Nat \ {0}
      /\ StackInv /\ DoneInv /\ NamesInv /\ OrderInv
  BY <1>1, <1>3, TypeFacts DEF IInv
<1>5. /\ stack' \in Seq(Frames) /\ Len(stack') = L - 1
      /\ \A k \in 1..(L - 1) : stack'[k] = stack[k]
  BY <1>1, <1>3, <1>4, SubSeqProperties
<1>6. packages' = packages /\ roots' = roots /\ nextRoot' = nextRoot
  BY <1>3 DEF input
<1>7. /\ NameOf(q) \in Names /\ q \in Needed /\ x = Len(packages[q].depends) + 1
      /\ DOMAIN packages[q].depends = 1..(x - 1)
  <2>1. NameOf(q) \in Names /\ Len(packages[q].depends) \in Nat
        /\ DOMAIN packages[q].depends = 1..Len(packages[q].depends)
    BY <1>4, PositionTypes
  <2>2. q \in Needed /\ x <= Len(packages[q].depends) + 1
    BY <1>1, <1>4 DEF StackInv, InBounds
  <2>3. x > Len(packages[q].depends)
    BY <1>2 DEF Leave
  <2> QED
    BY <2>1, <2>2, <2>3
<1>8. PICK Z \in Nat : Len(order) = Z /\ DOMAIN order = 1..Z /\ order \in Seq(Positions)
  BY TypeFacts DEF IInv
<1>9. /\ order' \in Seq(Positions) /\ DOMAIN order' = 1..(Z + 1)
      /\ \A k \in 1..Z : order'[k] = order[k]
      /\ order'[Z + 1] = q
  BY <1>3, <1>8, AppendProperties, LenProperties
<1>10. TypeOK'
  <2>1. visiting' \subseteq Names /\ scheduled' \subseteq Names
    BY <1>3, <1>7 DEF IInv, TypeOK
  <2> QED
    BY <1>3, <1>5, <1>6, <1>9, <2>1, InputStays DEF IInv, TypeOK, input, Frames
<1>11. \A k \in 1..L : \A m : packages'[stack[k].pkg].depends[m] = Dep(k, m)
  BY <1>6 DEF Dep
<1>12. \A k \in 1..(L - 1) : \A m : Dep(k, m)' = Dep(k, m)
  BY <1>5, <1>6 DEF Dep
<1>13. NameOf(q) \in visiting /\ NameOf(q) \notin scheduled
  BY <1>1, <1>4 DEF NamesInv
<1>14. \A k \in 1..(L - 1) : NameOf(stack[k].pkg)' = NameOf(stack[k].pkg)
  BY <1>5, <1>6 DEF NameOf
<1>15. \A k \in 1..(L - 1) : NameOf(stack[k].pkg) # NameOf(q)
  BY <1>1, <1>4 DEF StackInv
<1>16. \A n : Done(n) => Done(n)'
  BY <1>3, DoneStays
<1>17. StackInv'
  <2>1. ASSUME NEW k \in 1..(L - 1) PROVE InBounds(k)'
    <3>1. InBounds(k) /\ stack'[k] = stack[k]
      BY <1>1, <1>4, <1>5 DEF StackInv
    <3> QED
      BY <1>3, <1>6, <3>1, InputStays DEF InBounds
  <2>2. ASSUME NEW k \in 1..(L - 2) PROVE CallsNext(k)'
    <3>1. /\ CallsNext(k) /\ k \in 1..(L - 1) /\ k + 1 \in 1..(L - 1)
          /\ stack'[k] = stack[k] /\ stack'[k + 1] = stack[k + 1]
      BY <1>1, <1>4, <1>5 DEF StackInv
    <3>2. Dep(k, stack[k].next - 1)' = Dep(k, stack[k].next - 1)
      BY <1>12, <3>1
    <3> QED
      BY <1>3, <3>1, <3>2, InputStays DEF CallsNext
  <2>3. \A j, k \in 1..(L - 1) : (NameOf(stack[j].pkg) = NameOf(stack[k].pkg))' => j = k
    BY <1>1, <1>4, <1>14 DEF StackInv
  <2> QED
    BY <1>1, <1>5, <2>1, <2>2, <2>3 DEF StackInv
<1>18. NamesInv' /\ scheduled' = OrderNames'
  <2>1. visiting' = {NameOf(stack[k].pkg)' : k \in 1..(L - 1)}
    <3>1. visiting = {NameOf(stack[k].pkg) : k \in 1..L}
      BY <1>1, <1>4 DEF NamesInv
    <3>2. visiting = {NameOf(stack[k].pkg) : k \in 1..(L - 1)} \union {NameOf(q)}
      BY <1>1, <3>1
    <3> QED
      BY <1>3, <1>14, <1>15, <3>2
  <2>2. scheduled' = OrderNames'
    <3>1. \A k \in 1..Z : NameOf(order[k])' = NameOf(order[k])
      BY <1>6, <1>9 DEF NameOf
    <3>2. NameOf(order[Z + 1])' = NameOf(q)
      BY <1>6, <1>9 DEF NameOf
    <3>3. scheduled = {NameOf(order[k]) : k \in 1..Z}
      BY <1>4, <1>8 DEF NamesInv, OrderNames
    <3>4. OrderNames' = {NameOf(order[k])' : k \in 1..(Z + 1)}
      BY <1>9 DEF OrderNames
    <3>5. 1..(Z + 1) = (1..Z) \union {Z + 1}
      BY <1>8
    <3>6. ASSUME NEW y
          PROVE  y \in scheduled' <=> \E k \in 1..(Z + 1) : y = NameOf(order[k])'
      <4>1. y \in scheduled <=> \E k \in 1..Z : y = NameOf(order[k])'
        BY <3>1, <3>3
      <4>2. y \in scheduled' <=> y \in scheduled \/ y = NameOf(order[Z + 1])'
        BY <1>3, <3>2
      <4> QED
        BY <3>5, <4>1, <4>2
    <3> QED
      BY <3>4, <3>6
  <2>3. visiting' \intersect scheduled' = {}
    BY <1>3, <1>4 DEF NamesInv
  <2> QED
    BY <1>5, <2>1, <2>2, <2>3 DEF NamesInv
<1>19. \A n : Found(n) /\ Find(n) = q => Done(n)'
  BY <1>3, <1>6, InputStays DEF Done, NameOf
<1>20. RootsDone'
  <2>1. CASE L = 1
    <3>1. stack' = <<>>
      BY <1>5, <2>1, EmptySeq
    <3>2. \A r \in 1..(nextRoot - 1) : r < nextRoot - 1 => Done(roots[r])
      BY <1>4 DEF DoneInv, RootsDone
    <3>3. Found(roots[nextRoot - 1]) /\ Find(roots[nextRoot - 1]) = q
      <4>1. stack # <<>>
        BY DEF Leave
      <4> QED
        BY <1>1, <1>4, <2>1, <4>1 DEF DoneInv, RootsDone
    <3>4. nextRoot \in Nat
      BY TypeFacts DEF IInv
    <3>5. \A r \in 1..(nextRoot - 1) : Done(roots[r])'
      <4>1. Done(roots[nextRoot - 1])'
        <5>1. PICK n : n = roots[nextRoot - 1]
          OBVIOUS
        <5>2. Done(n)'
          BY <1>19, <3>3, <5>1
        <5> QED
          BY <1>6, <5>1, <5>2 DEF Done
      <4>2. ASSUME NEW r \in 1..(nextRoot - 1), r < nextRoot - 1 PROVE Done(roots[r])'
        BY <1>6, <1>16, <3>2, <4>2
      <4> QED
        BY <1>6, <3>4, <4>1, <4>2
    <3> QED
      BY <1>6, <3>1, <3>5 DEF RootsDone
  <2>2. CASE L # 1
    <3>1. stack # <<>> /\ stack' # <<>> /\ stack'[1] = stack[1]
      BY <1>1, <1>5, <2>2, EmptySeq DEF Leave
    <3> QED
      BY <1>4, <1>6, <1>16, <1>3, <3>1, InputStays DEF DoneInv, RootsDone
  <2> QED
    BY <2>1, <2>2
<1>21. DoneInv'
  <2>1. ASSUME NEW k \in 1..(L - 1) PROVE DepsDone(k)'
    <3>1. PICK y \in Nat \ {0} : stack[k].next = y /\ stack'[k].next = y /\ k \in 1..L /\ k # L
      BY <1>1, <1>4, <1>5
    <3>2. \A m \in 1..(y - 1) : m < y - 1 => Done(Dep(k, m))
      BY <1>1, <1>4, <3>1 DEF DoneInv, DepsDone
    <3>3. \A m \in 1..(y - 1) : m < y - 1 => Done(Dep(k, m))'
      BY <1>12, <1>16, <3>2
    <3>4. CASE k = L - 1
      <4>1. Found(Dep(k, y - 1)) /\ Find(Dep(k, y - 1)) = q
        <5>1. CallsNext(k) /\ k + 1 = L
          BY <1>1, <1>4, <3>4 DEF StackInv
        <5> QED
          BY <1>1, <3>1, <5>1 DEF CallsNext
      <4>2. Done(Dep(k, y - 1))'
        BY <1>12, <1>19, <4>1
      <4>3. \A m \in 1..(y - 1) : Done(Dep(k, m))'
        <5>1. \A m \in 1..(y - 1) : m < y - 1 \/ m = y - 1
          BY <3>1
        <5> QED
          BY <3>3, <4>2, <5>1
      <4> QED
        BY <3>1, <4>3 DEF DepsDone
    <3>5. CASE k # L - 1
      BY <1>5, <3>1, <3>3, <3>5 DEF DepsDone
    <3> QED
      BY <3>4, <3>5
  <2> QED
    BY <1>5, <1>20, <2>1 DEF DoneInv
<1>22. \A k \in 1..Z : NameOf(order[k])' = NameOf(order[k])
  BY <1>6, <1>9 DEF NameOf
<1>23. NameOf(order[Z + 1])' = NameOf(q)
  BY <1>6, <1>9 DEF NameOf
<1>24. DepsBeforeDependents'
  <2>1. ASSUME NEW k \in 1..Z, NEW n \in Needs(order[k])
        PROVE  Found(n) /\ \E j \in 1..(k - 1) : NameOf(order[j])' = NameOf(Find(n))
    <3>1. Found(n) /\ \E j \in 1..(k - 1) : NameOf(order[j]) = NameOf(Find(n))
      BY <1>4, <1>8 DEF OrderInv, DepsBeforeDependents
    <3>2. PICK j \in 1..(k - 1) : NameOf(order[j]) = NameOf(Find(n))
      BY <3>1
    <3>3. j \in 1..Z
      BY <1>8
    <3> QED
      BY <1>22, <3>1, <3>2, <3>3
  <2>2. ASSUME NEW n \in Needs(q)
        PROVE  Found(n) /\ \E j \in 1..Z : NameOf(order[j])' = NameOf(Find(n))
    <3>1. PICK m \in 1..(x - 1) : n = packages[q].depends[m] /\ Counts(n)
      BY <1>7 DEF Needs, Depends
    <3>2. Done(n)
      BY <1>1, <1>4, <3>1 DEF DoneInv, DepsDone, Dep
    <3>3. Found(n) /\ NameOf(Find(n)) \in OrderNames
      BY <1>4, <3>1, <3>2 DEF Done, NamesInv
    <3>4. PICK j \in 1..Z : NameOf(order[j]) = NameOf(Find(n))
      BY <1>8, <3>3 DEF OrderNames
    <3> QED
      BY <1>22, <3>3, <3>4
  <2>3. \A n : NameOf(Find(n))' = NameOf(Find(n))
    BY <1>6, <1>3, InputStays DEF NameOf
  <2>4. ASSUME NEW k \in 1..(Z + 1), NEW n \in Needs(order[k])'
        PROVE  Found(n)' /\ \E j \in 1..(k - 1) : NameOf(order[j])' = NameOf(Find(n))'
    <3>1. CASE k \in 1..Z
      <4>1. n \in Needs(order[k])
        BY <1>3, <1>9, <2>4, <3>1, InputStays
      <4> QED
        BY <1>3, <2>1, <2>3, <3>1, <4>1, InputStays
    <3>2. CASE k = Z + 1
      <4>1. n \in Needs(q)
        BY <1>3, <1>9, <2>4, <3>2, InputStays
      <4>2. k - 1 = Z
        BY <1>8, <3>2
      <4> QED
        BY <1>3, <2>2, <2>3, <4>1, <4>2, InputStays
    <3>3. k \in 1..Z \/ k = Z + 1
      BY <1>8
    <3> QED
      BY <3>1, <3>2, <3>3
  <2> QED
    BY <1>9, <2>4 DEF DepsBeforeDependents
<1>25. OrderInv'
  <2>1. \A k \in 1..(Z + 1) : order'[k] \in Needed'
    <3>1. \A k \in 1..Z : order[k] \in Needed
      BY <1>4, <1>8 DEF OrderInv
    <3>2. \A k \in 1..(Z + 1) : k \in 1..Z \/ k = Z + 1
      BY <1>8
    <3> QED
      BY <1>3, <1>7, <1>9, <3>1, <3>2, InputStays
  <2>2. \A k \in 1..Z : NameOf(order[k]) # NameOf(q)
    BY <1>4, <1>8, <1>13 DEF NamesInv, OrderNames
  <2>3. ASSUME NEW j \in 1..(Z + 1), NEW k \in 1..(Z + 1),
               NameOf(order[j])' = NameOf(order[k])'
        PROVE  j = k
    <3>1. /\ j \in 1..Z \/ j = Z + 1
          /\ k \in 1..Z \/ k = Z + 1
      BY <1>8
    <3>2. CASE j = Z + 1 /\ k = Z + 1
      BY <3>2
    <3>3. CASE j \in 1..Z /\ k = Z + 1
      BY <1>22, <1>23, <2>2, <2>3, <3>3
    <3>4. CASE j = Z + 1 /\ k \in 1..Z
      BY <1>22, <1>23, <2>2, <2>3, <3>4
    <3>5. CASE j \in 1..Z /\ k \in 1..Z
      <4>1. NameOf(order[j]) = NameOf(order[k])
        BY <1>22, <2>3, <3>5
      <4> QED
        BY <1>4, <1>8, <3>5, <4>1 DEF OrderInv
    <3> QED
      BY <3>1, <3>2, <3>3, <3>4, <3>5
  <2> QED
    BY <1>9, <1>24, <2>1, <2>3 DEF OrderInv
<1> QED
  BY <1>3, <1>10, <1>17, <1>18, <1>21, <1>25 DEF IInv

\* The loop over the roots is over: nothing that was asked for is left.
LEMMA ReturnIInv ==
  ASSUME IInv, Return
  PROVE  IInv'
<1>1. /\ outcome = "open" /\ outcome' = "ok"
      /\ UNCHANGED <<input, stack, nextRoot, visiting, scheduled, order>>
      /\ stack = <<>> /\ nextRoot > Len(roots)
  BY DEF Return
<1>2. TypeOK'
  BY <1>1, InputStays DEF IInv, TypeOK, input
<1>3. AllDone
  <2>1. nextRoot \in Nat /\ Len(roots) \in Nat /\ nextRoot - 1 >= Len(roots)
    BY <1>1, TypeFacts DEF IInv
  <2>2. \A r \in 1..(nextRoot - 1) : Done(roots[r])
    BY <1>1 DEF IInv, DoneInv, RootsDone
  <2> QED
    BY <2>1, <2>2 DEF AllDone
<1>4. AllDone'
  BY <1>1, <1>3, DoneStays DEF AllDone, input
<1> QED
  BY <1>1, <1>2, <1>4, OrderStays DEF IInv

\* Every step of the resolver keeps IInv.
LEMMA NextIInv == IInv /\ [Next]_vars => IInv'
<1> SUFFICES ASSUME IInv, [Next]_vars PROVE IInv'
  OBVIOUS
<1>1. CASE VisitRoot
  BY <1>1, VisitRootIInv
<1>2. CASE VisitDep
  BY <1>2, VisitDepIInv
<1>3. CASE Leave
  BY <1>3, LeaveIInv
<1>4. CASE Return
  BY <1>4, ReturnIInv
<1>5. CASE UNCHANGED vars
  <2>1. UNCHANGED <<input, stack, nextRoot, visiting, scheduled, order, outcome>>
    BY <1>5 DEF vars
  <2>2. TypeOK'
    BY <2>1, InputStays DEF IInv, TypeOK, input
  <2>3. \A n : Done(n)' = Done(n)
    BY <2>1, InputStays DEF Done
  <2>4. \A k : \A m : Dep(k, m)' = Dep(k, m)
    BY <2>1 DEF Dep, input
  <2>5. StackInv' = StackInv
    BY <2>1, <2>4, InputStays DEF StackInv, InBounds, CallsNext, input
  <2>6. DoneInv' = DoneInv
    BY <2>1, <2>3, <2>4, InputStays DEF DoneInv, RootsDone, DepsDone, input
  <2>7. NamesInv' = NamesInv
    BY <2>1, OrderStays, InputStays DEF NamesInv, OrderNames, input
  <2>8. AllDone' = AllDone
    BY <2>1, <2>3 DEF AllDone, input
  <2> QED
    BY <2>1, <2>2, <2>5, <2>6, <2>7, <2>8, OrderStays DEF IInv
<1> QED
  BY <1>1, <1>2, <1>3, <1>4, <1>5 DEF Next

LEMMA Invariance == Spec => []IInv
<1>1. Init => IInv
  BY InitIInv
<1>2. IInv /\ [Next]_vars => IInv'
  BY NextIInv
<1> QED
  BY <1>1, <1>2, PTL DEF Spec

-----------------------------------------------------------------------------
(* What follows from it                                                    *)

\* The resolver's variables keep their types whatever the package list.
THEOREM ResolverTypes == Spec => []TypeOK
<1>1. IInv => TypeOK
  BY DEF IInv
<1> QED
  BY <1>1, Invariance, PTL

\* "Dependencies before dependents": at every moment each scheduled package has
\* what it needs scheduled before it (visit_install_deps pushes a package only
\* after the loop over its dependencies).
THEOREM DependenciesFirst == Spec => []DepsBeforeDependents
<1>1. IInv => DepsBeforeDependents
  BY DEF IInv, OrderInv
<1> QED
  BY <1>1, Invariance, PTL

\* The candidate of a cycle that is scheduled first has nothing to wait for.
LEMMA NoCycleScheduled ==
  ASSUME IInv
  PROVE  NoCycleMissed
<1> SUFFICES ASSUME NEW T \in SUBSET {order[k] : k \in DOMAIN order}, Plan!Cyclic(T)
             PROVE  FALSE
  BY DEF NoCycleMissed
<1>1. PICK Z \in Nat : Len(order) = Z /\ DOMAIN order = 1..Z /\ order \in Seq(Positions)
  BY TypeFacts DEF IInv
<1>2. \A k \in 1..Z : order[k] \in Positions
  BY <1>1, ElementOfSeq
<1>3. /\ T # {}
      /\ \A i \in T : \E j \in T :
           [p \in Positions |-> NameOf(p)][j] \in [p \in Positions |-> NamesFound(Needs(p))][i]
  BY DEF Plan!Cyclic
<1>4. T \subseteq Positions /\ \A i \in T : \E k \in 1..Z : i = order[k]
  BY <1>1, <1>2
<1>5. \A i \in T : \E j \in T : NameOf(j) \in NamesFound(Needs(i))
  BY <1>3, <1>4
<1>6. PICK first \in {k \in 1..Z : order[k] \in T} :
        \A k \in 1..Z : order[k] \in T => first <= k
  <2>1. {k \in 1..Z : order[k] \in T} \in SUBSET Nat
    OBVIOUS
  <2>2. {k \in 1..Z : order[k] \in T} # {}
    BY <1>3, <1>4
  <2> QED
    BY <2>1, <2>2, FirstIsLeast
<1>7. PICK j \in T : NameOf(j) \in NamesFound(Needs(order[first]))
  BY <1>5
<1>8. PICK n \in Needs(order[first]) : Found(n) /\ NameOf(j) = NameOf(Find(n))
  BY <1>7 DEF NamesFound
<1>9. PICK before \in 1..(first - 1) : NameOf(order[before]) = NameOf(j)
  BY <1>1, <1>8 DEF IInv, OrderInv, DepsBeforeDependents
<1>10. PICK k \in 1..Z : j = order[k]
  BY <1>4
<1>11. before \in 1..Z
  BY <1>1
<1>12. before = k
  BY <1>1, <1>9, <1>10, <1>11 DEF IInv, OrderInv
<1> QED
  BY <1>6, <1>9, <1>10, <1>11, <1>12

\* No order holds packages that wait for each other, however names are provided
\* (the visiting set of visit_install_deps).
THEOREM CyclesRefused == Spec => []NoCycleMissed
<1>1. IInv => NoCycleMissed
  BY NoCycleScheduled
<1> QED
  BY <1>1, Invariance, PTL

-----------------------------------------------------------------------------
(* The resolver implements InstallPlan                                     *)

\* The caller's view of the problem does not change.
LEMMA ProblemStays ==
  ASSUME UNCHANGED input
  PROVE  UNCHANGED Plan!problem
<1>1. \A S : NamesFound(S)' = NamesFound(S)
  BY InputStays DEF NamesFound
<1>2. NamesFound(Roots)' = NamesFound(Roots)
  BY InputStays DEF NamesFound
<1>3. \A i : NamesFound(Needs(i))' = NamesFound(Needs(i))
  BY InputStays DEF NamesFound
<1>4. [p \in Positions |-> NameOf(p)]' = [p \in Positions |-> NameOf(p)]
  BY InputStays
<1>5. [p \in Positions |-> NamesFound(Needs(p))]' = [p \in Positions |-> NamesFound(Needs(p))]
  BY <1>3, InputStays
<1>6. {i \in Needed : \E n \in Needs(i) : ~Found(n)}' = {i \in Needed : \E n \in Needs(i) : ~Found(n)}
  BY InputStays
<1>7. (\E n \in Roots : ~Found(n))' = (\E n \in Roots : ~Found(n))
  BY InputStays
<1>8. Needed' = Needed
  BY InputStays
<1> QED
  BY <1>2, <1>4, <1>5, <1>6, <1>7, <1>8 DEF Plan!problem

LEMMA PlannedIsScheduled ==
  ASSUME IInv
  PROVE  Plan!Planned = scheduled
<1>1. PICK Z \in Nat : DOMAIN order = 1..Z /\ \A k \in 1..Z : order[k] \in Positions
  BY TypeFacts, ElementOfSeq DEF IInv
<1>2. \A k \in 1..Z : [p \in Positions |-> NameOf(p)][order[k]] = NameOf(order[k])
  BY <1>1
<1> QED
  BY <1>1, <1>2 DEF Plan!Planned, IInv, OrderNames

\* A package that is taken leaves nothing it needs unplanned.
LEMMA LeaveSchedules ==
  ASSUME IInv, Leave
  PROVE  Plan!Next
<1>1. PICK L \in Nat \ {0}, x \in Nat \ {0}, q \in Positions :
        /\ Len(stack) = L /\ stack[L].next = x /\ stack[L].pkg = q
        /\ L \in 1..L
  <2>1. Len(stack) \in 1..Len(stack) /\ Len(stack) \in Nat \ {0}
    BY TypeFacts DEF IInv, Leave
  <2> QED
    BY <2>1, TypeFacts DEF IInv
<1>2. /\ outcome = "open" /\ UNCHANGED <<input, outcome>>
      /\ order' = Append(order, q)
      /\ StackInv /\ DoneInv /\ NamesInv
      /\ x > Len(packages[q].depends)
  BY <1>1 DEF Leave, Top, IInv
<1>3. q \in Needed /\ NameOf(q) \notin scheduled
  BY <1>1, <1>2 DEF StackInv, InBounds, NamesInv
<1>4. ASSUME NEW n \in Needs(q)
      PROVE  Found(n) /\ NameOf(Find(n)) \in scheduled
  <2>1. PICK m \in 1..(x - 1) : n = packages[q].depends[m] /\ Counts(n)
    BY <1>1, <1>2, PositionTypes, TypeFacts DEF IInv, Needs, Depends
  <2> QED
    BY <1>1, <1>2, <2>1 DEF DoneInv, DepsDone, Dep, Done
<1>5. NamesFound(Needs(q)) \subseteq scheduled
  BY <1>4 DEF NamesFound
<1>6. /\ [p \in Positions |-> NameOf(p)][q] = NameOf(q)
      /\ [p \in Positions |-> NamesFound(Needs(p))][q] = NamesFound(Needs(q))
  BY <1>1
<1>7. q \notin {i \in Needed : \E n \in Needs(i) : ~Found(n)}
  BY <1>4
<1>8. Plan!Schedule(q)
  BY <1>2, <1>3, <1>5, <1>6, <1>7, PlannedIsScheduled DEF Plan!Schedule
<1> QED
  BY <1>2, <1>3, <1>8, ProblemStays DEF Plan!Next

\* A call that does not end the search says nothing to the caller; one that
\* does says why.
LEMMA CallVerdicts ==
  ASSUME NEW n, NEW calls, Call(n, calls)
  PROVE  \/ UNCHANGED outcome
         \/ n \notin skip /\ ~Found(n) /\ outcome' = "not found"
         \/ n \notin skip /\ Found(n) /\ NameOf(Find(n)) \in visiting /\ outcome' = "circular"
<1>1. CASE n \in skip \/ (Found(n) /\ NameOf(Find(n)) \in scheduled)
  BY <1>1 DEF Call
<1>2. CASE n \notin skip /\ ~Found(n)
  BY <1>2 DEF Call, Fail
<1>3. CASE n \notin skip /\ Found(n) /\ NameOf(Find(n)) \in visiting \ scheduled
  BY <1>3 DEF Call, Fail
<1>4. CASE n \notin skip /\ Found(n) /\ NameOf(Find(n)) \notin visiting \union scheduled
  BY <1>4 DEF Call
<1> QED
  BY <1>1, <1>2, <1>3, <1>4

\* A root is refused only when nothing is found for it: no call is open.
LEMMA VisitRootRefines ==
  ASSUME IInv, VisitRoot
  PROVE  Plan!Next \/ UNCHANGED <<Plan!problem, order, outcome>>
<1>1. PICK n \in Names : n = roots[nextRoot] /\ nextRoot \in DOMAIN roots
  <2>1. nextRoot \in 1..Len(roots)
    BY TypeFacts DEF IInv, TypeOK, VisitRoot
  <2> QED
    BY <2>1, TypeFacts, LenProperties DEF IInv, TypeOK
<1>2. /\ outcome = "open" /\ UNCHANGED <<input, order>>
      /\ Call(n, stack) /\ visiting = {}
  <2>1. stack = <<>> /\ Len(stack) = 0
    BY TypeFacts DEF IInv, VisitRoot
  <2> QED
    BY <1>1, <2>1 DEF VisitRoot, IInv, NamesInv
<1>3. CASE n \notin skip /\ ~Found(n) /\ outcome' = "not found"
  <2>1. \E m \in Roots : ~Found(m)
    BY <1>1, <1>3 DEF Roots
  <2>2. Plan!RefuseMissing
    BY <1>2, <1>3, <2>1 DEF Plan!RefuseMissing
  <2> QED
    BY <1>2, <2>2, ProblemStays DEF Plan!Next
<1>4. CASE UNCHANGED outcome
  BY <1>2, <1>4, ProblemStays
<1> QED
  BY <1>2, <1>3, <1>4, CallVerdicts

\* A dependency is refused as circular only when the open calls from the
\* package of that name on wait for each other.
LEMMA VisitDepRefines ==
  ASSUME IInv, VisitDep
  PROVE  Plan!Next \/ UNCHANGED <<Plan!problem, order, outcome>>
<1>1. PICK L \in Nat \ {0}, x \in Nat \ {0}, q \in Positions :
        /\ Len(stack) = L /\ stack[L].next = x /\ stack[L].pkg = q
        /\ L \in 1..L
  <2>1. Len(stack) \in 1..Len(stack) /\ Len(stack) \in Nat \ {0}
    BY TypeFacts DEF IInv, VisitDep
  <2> QED
    BY <2>1, TypeFacts DEF IInv
<1>2. PICK n : n = packages[q].depends[x]
  OBVIOUS
<1>3. /\ outcome = "open" /\ UNCHANGED <<input, order>>
      /\ StackInv /\ NamesInv /\ InputOK
      /\ Top.pkg = q /\ Top.next = x /\ x <= Len(packages[q].depends)
      /\ q \in Needed
  <2>1. Top.pkg = q /\ Top.next = x
    BY <1>1 DEF Top
  <2>2. outcome = "open" /\ UNCHANGED <<input, order>> /\ x <= Len(packages[q].depends)
    BY <2>1 DEF VisitDep
  <2> QED
    BY <1>1, <2>1, <2>2, TypeFacts DEF IInv, StackInv, InBounds
<1>4. CASE n = NoName
  <2>1. UNCHANGED outcome
    BY <1>2, <1>3, <1>4 DEF VisitDep
  <2> QED
    BY <1>3, <2>1, ProblemStays
<1>5. CASE n # NoName
  <2>1. Call(n, Advanced)
    BY <1>2, <1>3, <1>5 DEF VisitDep
  <2>2. x \in DOMAIN packages[q].depends
    BY <1>3, PositionTypes
  <2>3. n \notin skip => n \in Needs(q)
    BY <1>2, <1>5, <2>2 DEF Needs, Depends, Counts
  <2>4. CASE n \notin skip /\ ~Found(n) /\ outcome' = "not found"
    <3>1. {i \in Needed : \E m \in Needs(i) : ~Found(m)} # {}
      BY <1>3, <2>3, <2>4
    <3>2. Plan!RefuseMissing
      BY <1>3, <2>4, <3>1 DEF Plan!RefuseMissing
    <3> QED
      BY <1>3, <3>2, ProblemStays DEF Plan!Next
  <2>5. CASE n \notin skip /\ Found(n) /\ NameOf(Find(n)) \in visiting /\ outcome' = "circular"
    <3>1. PICK s \in 1..L : NameOf(stack[s].pkg) = NameOf(Find(n))
      BY <1>1, <1>3, <2>5 DEF NamesInv
    <3>2. PICK T : T = {stack[k].pkg : k \in s..L}
      OBVIOUS
    <3>3. \A k \in s..L : k \in 1..L /\ stack[k].pkg \in Needed
      BY <1>1, <1>3 DEF StackInv, InBounds
    <3>4. T \in SUBSET Needed /\ T # {}
      BY <1>1, <3>1, <3>2, <3>3
    <3>5. ASSUME NEW k \in s..L
          PROVE  \E j \in T : NameOf(j) \in NamesFound(Needs(stack[k].pkg))
      <4>1. CASE k = L
        <5>1. NameOf(Find(n)) \in NamesFound(Needs(q))
          BY <2>3, <2>5 DEF NamesFound
        <5> QED
          BY <1>1, <3>1, <3>2, <4>1, <5>1
      <4>2. CASE k # L
        <5>1. k \in 1..(L - 1) /\ k + 1 \in s..L /\ CallsNext(k) /\ InBounds(k)
          BY <1>1, <1>3, <3>3, <4>2 DEF StackInv
        <5>2. PICK p \in Positions, y \in Nat \ {0} : stack[k].pkg = p /\ stack[k].next = y
          BY <1>1, <3>3, TypeFacts DEF IInv
        <5>3. y - 1 \in DOMAIN packages[p].depends
          <6>1. y > 1 /\ y <= Len(packages[p].depends) + 1
            BY <5>1, <5>2 DEF CallsNext, InBounds
          <6> QED
            BY <1>3, <5>2, <6>1, PositionTypes
        <5>4. PICK d : d = packages[p].depends[y - 1]
          OBVIOUS
        <5>5. Counts(d) /\ Found(d) /\ Find(d) = stack[k + 1].pkg
          BY <5>1, <5>2, <5>4 DEF CallsNext, Dep
        <5>6. d \in Needs(p)
          BY <5>3, <5>4, <5>5 DEF Needs, Depends
        <5>7. NameOf(stack[k + 1].pkg) \in NamesFound(Needs(p))
          BY <5>5, <5>6 DEF NamesFound
        <5> QED
          BY <3>2, <5>1, <5>2, <5>7
      <4> QED
        BY <4>1, <4>2
    <3>6. \A i \in T : \E j \in T : NameOf(j) \in NamesFound(Needs(i))
      BY <3>2, <3>5
    <3>7. T \subseteq Positions
      BY <3>4 DEF Needed
    <3>8. Plan!Cyclic(T)
      BY <3>4, <3>6, <3>7 DEF Plan!Cyclic
    <3>9. Plan!RefuseCycle
      BY <1>3, <2>5, <3>4, <3>8 DEF Plan!RefuseCycle
    <3> QED
      BY <1>3, <3>9, ProblemStays DEF Plan!Next
  <2>6. CASE UNCHANGED outcome
    BY <1>3, <2>6, ProblemStays
  <2> QED
    BY <2>1, <2>4, <2>5, <2>6, CallVerdicts
<1> QED
  BY <1>4, <1>5

\* An order is handed out only when every root that is not skipped is planned.
LEMMA ReturnRefines ==
  ASSUME IInv, Return
  PROVE  Plan!Next
<1>1. /\ outcome = "open" /\ outcome' = "ok" /\ UNCHANGED <<input, order>>
      /\ stack = <<>> /\ nextRoot > Len(roots)
  BY DEF Return
<1>2. \A r \in 1..Len(roots) : Done(roots[r])
  <2>1. nextRoot \in Nat /\ Len(roots) \in Nat /\ nextRoot - 1 >= Len(roots)
    BY <1>1, TypeFacts DEF IInv
  <2>2. \A r \in 1..(nextRoot - 1) : Done(roots[r])
    BY <1>1 DEF IInv, DoneInv, RootsDone
  <2> QED
    BY <2>1, <2>2
<1>3. ASSUME NEW n \in Roots PROVE Found(n) /\ NameOf(Find(n)) \in scheduled
  <2>1. PICK r \in 1..Len(roots) : n = roots[r] /\ n \notin skip
    BY LenProperties DEF Roots, IInv, TypeOK
  <2>2. n # NoName
    BY <2>1, TypeFacts, ResolverAssumption DEF IInv
  <2> QED
    BY <1>2, <2>1, <2>2 DEF Done, Counts
<1>4. NamesFound(Roots) \subseteq scheduled
  BY <1>3 DEF NamesFound
<1>5. Plan!Finish
  BY <1>1, <1>4, PlannedIsScheduled DEF Plan!Finish
<1> QED
  BY <1>1, <1>5, ProblemStays DEF Plan!Next

\* The depth-first resolver is an InstallPlan: it schedules nothing the request
\* does not lead to, nothing twice and nothing before what it needs; it succeeds
\* only with everything planned and refuses only for a real reason.
THEOREM ResolverKeepsPromise == Spec => KeepsPromise
<1>1. Init => Plan!Init
  BY DEF Init, Plan!Init
<1>2. ASSUME IInv, [Next]_vars
      PROVE  [Plan!Next]_<<Plan!problem, order, outcome>>
  <2>1. CASE UNCHANGED vars
    BY <2>1, ProblemStays DEF vars
  <2>2. CASE VisitRoot
    BY <1>2, <2>2, VisitRootRefines
  <2>3. CASE VisitDep
    BY <1>2, <2>3, VisitDepRefines
  <2>4. CASE Leave
    BY <1>2, <2>4, LeaveSchedules
  <2>5. CASE Return
    BY <1>2, <2>5, ReturnRefines
  <2> QED
    BY <1>2, <2>1, <2>2, <2>3, <2>4, <2>5 DEF Next
<1> QED
  BY <1>1, <1>2, Invariance, PTL DEF Spec, KeepsPromise, Plan!Spec

-----------------------------------------------------------------------------
(* The end                                                                 *)

Nearer ==
  \/ outcome' # "open"
  \/ Unvisited' \subseteq Unvisited /\ Unvisited' # Unvisited
  \/ Unvisited' = Unvisited /\ GoesOn

LEMMA UnvisitedStays ==
  ASSUME UNCHANGED input, visiting' \union scheduled' = visiting \union scheduled
  PROVE  Unvisited' = Unvisited
BY InputStays DEF Unvisited

\* A call that is entered is one for a name that was never entered before.
LEMMA EnteredIsNew ==
  ASSUME InputOK, UNCHANGED <<input, scheduled>>, NEW n, NEW calls, Entered(n, calls)
  PROVE  Unvisited' \subseteq Unvisited /\ Unvisited' # Unvisited
<1> DEFINE name == NameOf(Find(n))
<1>1. Find(n) \in Positions
  BY FindTypes DEF Entered
<1>2. name \in Unvisited
  BY <1>1 DEF Unvisited, Entered
<1>3. Unvisited' = Unvisited \ {name}
  <2>1. /\ Positions' = Positions /\ \A i : NameOf(i)' = NameOf(i)
        /\ visiting' = visiting \union {name} /\ scheduled' = scheduled
    BY InputStays DEF Entered
  <2>2. {NameOf(i) : i \in Positions}' = {NameOf(i) : i \in Positions}
    BY <2>1
  <2> HIDE DEF name
  <2> QED
    BY <2>1, <2>2 DEF Unvisited
<1> QED
  BY <1>2, <1>3

LEMMA VisitRootNearer ==
  ASSUME IInv, VisitRoot
  PROVE  Nearer
<1> DEFINE n == roots[nextRoot]
<1>1. /\ nextRoot' = nextRoot + 1 /\ nextRoot <= Len(roots)
      /\ UNCHANGED <<input, scheduled>>
      /\ Call(n, stack)
  BY DEF VisitRoot
<1>2. nextRoot < nextRoot' /\ nextRoot' <= Len(roots) + 1
  BY <1>1, TypeFacts DEF IInv
<1> HIDE DEF n
<1>3. CASE Skipped(n, stack)
  BY <1>1, <1>2, <1>3, UnvisitedStays DEF Skipped, Nearer, GoesOn
<1>4. CASE Refused
  BY <1>4 DEF Refused, Nearer
<1>5. CASE Entered(n, stack)
  BY <1>1, <1>5, EnteredIsNew, TypeFacts DEF IInv, Nearer
<1> QED
  BY <1>1, <1>3, <1>4, <1>5, CallCases

LEMMA VisitDepNearer ==
  ASSUME IInv, VisitDep
  PROVE  Nearer
<1> DEFINE n == packages[Top.pkg].depends[Top.next]
<1>1. /\ stack # <<>> /\ Top.next <= Len(packages[Top.pkg].depends)
      /\ UNCHANGED <<input, nextRoot, scheduled>>
  BY DEF VisitDep
<1>2. /\ Len(Advanced) = Len(stack) /\ Len(stack) \in 1..Len(stack)
      /\ Advanced[Len(stack)].pkg = Top.pkg
      /\ Advanced[Len(stack)].next = Top.next + 1
      /\ Top.next \in Nat /\ Len(packages[Top.pkg].depends) \in Nat
  <2>1. Len(stack) \in 1..Len(stack) /\ Len(stack) \in Nat \ {0}
    BY <1>1, TypeFacts DEF IInv
  <2>2. Top.pkg \in Positions /\ Top.next \in Nat \ {0}
    BY <2>1, TypeFacts DEF IInv, Top
  <2>3. Len(packages[Top.pkg].depends) \in Nat
    BY <2>2, PositionTypes, TypeFacts DEF IInv
  <2>4. /\ Len(Advanced) = Len(stack)
        /\ \A k \in 1..Len(stack) : Advanced[k].pkg = stack[k].pkg
        /\ Advanced[Len(stack)].next = Top.next + 1
    BY <1>1, AdvancedTypes DEF IInv
  <2> QED
    BY <2>1, <2>2, <2>3, <2>4 DEF Top
<1>3. ASSUME stack' = Advanced PROVE GoesOn
  <2>1. Len(stack') = Len(stack) /\ Top' = Advanced[Len(stack)]
    BY <1>2, <1>3 DEF Top
  <2>2. Top'.pkg = Top.pkg /\ Top'.next = Top.next + 1
    BY <1>2, <2>1
  <2>3. Top.next < Top'.next /\ Top'.next <= Len(packages[Top.pkg].depends) + 1
    BY <1>1, <1>2, <2>2
  <2> QED
    BY <1>1, <2>1, <2>2, <2>3 DEF GoesOn
<1>4. ASSUME stack' = Advanced, visiting' = visiting PROVE Nearer
  BY <1>1, <1>3, <1>4, UnvisitedStays DEF Nearer
<1>5. CASE n = NoName
  BY <1>4, <1>5 DEF VisitDep
<1>6. CASE n # NoName
  <2>1. Call(n, Advanced)
    BY <1>6 DEF VisitDep
  <2> HIDE DEF n
  <2>2. CASE Skipped(n, Advanced)
    BY <1>4, <2>2 DEF Skipped
  <2>3. CASE Refused
    BY <2>3 DEF Refused, Nearer
  <2>4. CASE Entered(n, Advanced)
    BY <1>1, <2>4, EnteredIsNew, TypeFacts DEF IInv, Nearer
  <2> QED
    BY <2>1, <2>2, <2>3, <2>4, CallCases
<1> QED
  BY <1>5, <1>6

LEMMA LeaveNearer ==
  ASSUME IInv, Leave
  PROVE  Nearer
<1>1. /\ outcome = "open" /\ stack # <<>> /\ stack' = Below
      /\ visiting' = visiting \ {NameOf(Top.pkg)}
      /\ scheduled' = scheduled \union {NameOf(Top.pkg)}
      /\ UNCHANGED <<input, nextRoot>>
  BY DEF Leave
<1>2. PICK L \in Nat \ {0} : Len(stack) = L /\ L \in 1..L
  BY <1>1, TypeFacts DEF IInv
<1>3. Len(stack') = L - 1
  <2>1. \A k \in 1..(L - 1) : stack[k] \in Frames
    BY <1>2, TypeFacts DEF IInv
  <2>2. stack' = SubSeq(stack, 1, L - 1) /\ 1 \in Int /\ L - 1 \in Int
    BY <1>1, <1>2 DEF Below
  <2> QED
    BY <1>2, <2>1, <2>2, SubSeqProperties
<1>4. NameOf(Top.pkg) \in visiting
  BY <1>1, <1>2 DEF IInv, NamesInv, Top
<1>5. visiting' \union scheduled' = visiting \union scheduled
  BY <1>1, <1>4
<1>6. Unvisited' = Unvisited
  BY <1>1, <1>5, UnvisitedStays
<1>7. Len(stack') < Len(stack)
  BY <1>2, <1>3
<1> QED
  BY <1>1, <1>6, <1>7 DEF Nearer, GoesOn

\* However the index is made, every step of the resolver brings its end closer,
\* so that the recursion of visit_install_deps and the loops around it end.
THEOREM ResolverEnds == Spec => Closer
<1>1. ASSUME IInv, [Next]_vars
      PROVE  UNCHANGED vars \/ (outcome = "open" /\ UNCHANGED input /\ Nearer)
  <2>1. CASE VisitRoot
    BY <1>1, <2>1, VisitRootNearer DEF VisitRoot
  <2>2. CASE VisitDep
    BY <1>1, <2>2, VisitDepNearer DEF VisitDep
  <2>3. CASE Leave
    BY <1>1, <2>3, LeaveNearer DEF Leave
  <2>4. CASE Return
    BY <2>4 DEF Return, Nearer
  <2> QED
    BY <1>1, <2>1, <2>2, <2>3, <2>4 DEF Next
<1>2. IInv /\ [Next]_vars =>
      [/\ outcome = "open" /\ UNCHANGED input
       /\ \/ outcome' # "open"
          \/ Unvisited' \subseteq Unvisited /\ Unvisited' # Unvisited
          \/ Unvisited' = Unvisited /\ GoesOn]_vars
  BY <1>1 DEF Nearer
<1> QED
  BY <1>2, Invariance, PTL DEF Spec, Closer
=============================================================================
