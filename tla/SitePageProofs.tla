--------------------------- MODULE SitePageProofs ---------------------------
(***************************************************************************)
(* The serial port forgets no byte whatever the page and the guest do with *)
(* it, and the page is true to what it promises its visitor, for every     *)
(* window, every input and any number of failed requests.                  *)
(***************************************************************************)
EXTENDS SitePage, SequenceTheorems, WellFoundedInduction, TLAPS

(* The port                                                                *)

\* A byte waits exactly while its bit in lsr is set and its interrupt is
\* pending, and iir is never behind what is pending and enabled.
PortInv ==
  /\ PortTypeOK
  /\ dataReady <=> input # <<>>
  /\ ints \intersect {4, 12} # {} <=> input # <<>>
  /\ iir = CheckInterrupt(ints, ier)
  /\ NothingLost

\* What CheckInterrupt says of a set of pending interrupts.
LEMMA Signalled ==
  ASSUME NEW i \in SUBSET {2, 4, 12}, NEW e \in SUBSET Enables
  PROVE  /\ CheckInterrupt(i, e) \in {None, 2, 4, 12}
         /\ CheckInterrupt(i, e) \in {4, 12} <=> "rx" \in e /\ i \intersect {4, 12} # {}
<1> DEFINE E == Enabled(i, e)
<1>1. E \subseteq {2, 4, 12}
  BY DEF Enabled
<1>2. 2 \in E <=> 2 \in i /\ "thr" \in e
  BY DEF Enabled
<1>3. \A b \in {4, 12} : b \in E <=> b \in i /\ "rx" \in e
  BY DEF Enabled
<1> DEFINE greatest == CHOOSE b \in E : \A c \in E : c <= b
<1>4. CheckInterrupt(i, e) = IF E = {} THEN None ELSE greatest
  BY DEF CheckInterrupt
<1> HIDE DEF E
<1>5. ASSUME E # {} PROVE greatest \in E /\ \A c \in E : c <= greatest
  <2>1. \E b \in E : \A c \in E : c <= b
    <3>1. CASE 12 \in E
      BY <1>1, <3>1
    <3>2. CASE 12 \notin E /\ 4 \in E
      BY <1>1, <3>2
    <3>3. CASE E = {2}
      BY <3>3
    <3> QED
      BY <1>1, <1>5, <3>1, <3>2, <3>3
  <2> QED
    BY <2>1
<1> HIDE DEF greatest
<1>6. CASE E = {}
  BY <1>3, <1>4, <1>6 DEF None
<1>7. CASE E = {2}
  BY <1>3, <1>4, <1>5, <1>7
<1>8. CASE E \intersect {4, 12} # {}
  <2>1. \E b \in {4, 12} : b \in E
    BY <1>8
  <2>2. greatest \in {4, 12}
    <3>1. E # {}
      BY <2>1
    <3>2. greatest \in {2, 4, 12} /\ \A c \in E : c <= greatest
      BY <1>1, <1>5, <3>1
    <3>3. greatest # 2
      <4>1. PICK b \in {4, 12} : b <= greatest
        BY <2>1, <3>2
      <4> QED
        BY <4>1
    <3> QED
      BY <3>2, <3>3
  <2> QED
    BY <1>3, <1>4, <2>1, <2>2
<1> QED
  BY <1>1, <1>6, <1>7, <1>8

\* What an 8-bit read keeps of a unit, and of several.
LEMMA LowByte == \A u \in Unit : Low(u) \in Byte
BY DEF Low, Unit, Byte

LEMMA ByteIsUnit == Byte \subseteq Unit
<1> SUFFICES ASSUME NEW b \in Byte PROVE b \in Unit
  OBVIOUS
<1> QED
  BY DEF Byte, Unit

LEMMA LowsSeq ==
  ASSUME NEW s \in Seq(Unit)
  PROVE  /\ Lows(s) \in Seq(Byte) /\ Len(Lows(s)) = Len(s)
         /\ \A k \in 1..Len(s) : s[k] \in Unit /\ Lows(s)[k] = Low(s[k])
<1>1. DOMAIN s = 1..Len(s) /\ Len(s) \in Nat
  OBVIOUS
<1>2. \A k \in 1..Len(s) : s[k] \in Unit
  BY ElementOfSeq
<1>3. Lows(s) = [k \in 1..Len(s) |-> Low(s[k])]
  BY <1>1 DEF Lows
<1>4. Lows(s) \in [1..Len(s) -> Byte]
  BY <1>2, <1>3, LowByte
<1> HIDE DEF Lows
<1>5. Lows(s) \in Seq(Byte) /\ Len(Lows(s)) = Len(s)
  BY <1>1, <1>4, SeqDef, LenProperties
<1> QED
  BY <1>2, <1>3, <1>5

LEMMA LowsConcat ==
  ASSUME NEW s \in Seq(Unit), NEW t \in Seq(Unit)
  PROVE  Lows(s \o t) = Lows(s) \o Lows(t)
<1>1. /\ s \o t \in Seq(Unit) /\ Len(s \o t) = Len(s) + Len(t)
      /\ \A k \in 1..(Len(s) + Len(t)) : (s \o t)[k] = IF k <= Len(s) THEN s[k] ELSE t[k - Len(s)]
  BY ConcatProperties
<1>2. /\ Lows(s) \in Seq(Byte) /\ Len(Lows(s)) = Len(s) /\ Len(s) \in Nat
      /\ \A k \in 1..Len(s) : Lows(s)[k] = Low(s[k])
  BY LowsSeq
<1>3. /\ Lows(t) \in Seq(Byte) /\ Len(Lows(t)) = Len(t) /\ Len(t) \in Nat
      /\ \A k \in 1..Len(t) : Lows(t)[k] = Low(t[k])
  BY LowsSeq
<1>4. /\ Lows(s \o t) \in Seq(Byte) /\ Len(Lows(s \o t)) = Len(s) + Len(t)
      /\ \A k \in 1..(Len(s) + Len(t)) : Lows(s \o t)[k] = Low((s \o t)[k])
  BY <1>1, LowsSeq
<1> DEFINE c == Lows(s) \o Lows(t)
<1>5. /\ c \in Seq(Byte) /\ Len(c) = Len(s) + Len(t)
      /\ \A k \in 1..(Len(s) + Len(t)) : c[k] = IF k <= Len(s) THEN Lows(s)[k] ELSE Lows(t)[k - Len(s)]
  BY <1>2, <1>3, ConcatProperties
<1> HIDE DEF c
<1>6. ASSUME NEW k \in 1..(Len(s) + Len(t)) PROVE Lows(s \o t)[k] = c[k]
  <2>1. CASE k <= Len(s)
    <3>1. k \in 1..Len(s)
      BY <1>2, <1>3, <2>1
    <3> QED
      BY <1>1, <1>2, <1>4, <1>5, <2>1, <3>1
  <2>2. CASE ~(k <= Len(s))
    <3>1. k - Len(s) \in 1..Len(t)
      BY <1>2, <1>3, <2>2
    <3> QED
      BY <1>1, <1>3, <1>4, <1>5, <2>2, <3>1
  <2> QED
    BY <2>1, <2>2
<1> QED
  BY <1>4, <1>5, <1>6, SeqEqual DEF c

LEMMA LowsOne == \A u \in Unit : Lows(<<u>>) = <<Low(u)>>
<1> SUFFICES ASSUME NEW u \in Unit PROVE Lows(<<u>>) = <<Low(u)>>
  OBVIOUS
<1>1. <<u>> \in Seq(Unit) /\ Len(<<u>>) = 1 /\ <<u>>[1] = u /\ 1 \in 1..1
  OBVIOUS
<1>2. Lows(<<u>>) \in Seq(Byte) /\ Len(Lows(<<u>>)) = 1 /\ Lows(<<u>>)[1] = Low(u)
  BY <1>1, LowsSeq
<1>3. <<Low(u)>> \in Seq(Byte) /\ Len(<<Low(u)>>) = 1 /\ <<Low(u)>>[1] = Low(u)
  BY LowByte
<1> QED
  BY <1>2, <1>3, SeqEqual

LEMMA LowsEmpty == Lows(<<>>) = <<>>
<1>1. <<>> \in Seq(Unit) /\ Len(<<>>) = 0
  BY EmptySeq
<1> QED
  BY <1>1, LowsSeq, EmptySeq

LEMMA LowsAppend ==
  ASSUME NEW s \in Seq(Unit), NEW u \in Unit
  PROVE  Lows(Append(s, u)) = Append(Lows(s), Low(u))
<1>1. <<u>> \in Seq(Unit) /\ Append(s, u) = s \o <<u>>
  BY AppendIsConcat
<1>2. Append(Lows(s), Low(u)) = Lows(s) \o <<Low(u)>>
  BY LowsSeq, LowByte, AppendIsConcat
<1> QED
  BY <1>1, <1>2, LowsConcat, LowsOne

LEMMA PortInvInit == PortInit => PortInv
<1> SUFFICES ASSUME PortInit PROVE PortInv
  OBVIOUS
<1>1. PortTypeOK
  BY EmptySeq DEF PortInit, PortTypeOK, None
<1>2. CheckInterrupt(ints, ier) = None
  BY DEF PortInit, CheckInterrupt, Enabled, None
<1>3. NothingLost
  BY LowsEmpty, ConcatEmptySeq, EmptySeq DEF PortInit, NothingLost
<1> QED
  BY <1>1, <1>2, <1>3 DEF PortInit, PortInv

\* Interrupts are set together with the registers that tell of them.
LEMMA InterruptsKept ==
  ASSUME PortTypeOK, NEW i \in SUBSET {2, 4, 12}, NEW e \in SUBSET Enables,
         SetInterrupts(i, e)
  PROVE  /\ ints' \in SUBSET {2, 4, 12} /\ ier' \in SUBSET Enables
         /\ iir' \in {None, 2, 4, 12}
         /\ iir' = CheckInterrupt(ints', ier')
BY Signalled DEF SetInterrupts

LEMMA BytesRegroup ==
  \A a, b, c \in Seq(Byte) : (a \o b) \o c = a \o (b \o c)
BY ConcatAssociative

LEMMA PushKeeps ==
  ASSUME PortInv, NEW units \in Seq(Unit) \ {<<>>}, NEW more \in SUBSET {2},
         Push(units, more), echoed' \subseteq echoed \union {Len(received')}
  PROVE  PortInv'
<1> DEFINE i == ints \union more \union {IF fifo THEN 12 ELSE 4}
<1>1. i \in SUBSET {2, 4, 12} /\ i \intersect {4, 12} # {}
  BY DEF PortInv, PortTypeOK
<1>2. SetInterrupts(i, ier)
  BY DEF Push
<1> HIDE DEF i
<1>3. /\ ints' \in SUBSET {2, 4, 12} /\ ier' \in SUBSET Enables
      /\ iir' \in {None, 2, 4, 12} /\ iir' = CheckInterrupt(ints', ier')
  BY <1>1, <1>2, InterruptsKept DEF PortInv, PortTypeOK
<1>4. ints' = i
  BY <1>2 DEF SetInterrupts
<1>5. /\ input' = input \o units /\ received' = received \o units /\ taken' = taken
      /\ dataReady' = TRUE
      /\ fifo' = fifo /\ dlab' = dlab /\ loop' = loop
  BY DEF Push, settings
<1>6. input \in Seq(Unit) /\ received \in Seq(Unit) /\ taken \in Seq(Byte)
  BY DEF PortInv, PortTypeOK
<1>7. input' \in Seq(Unit) /\ received' \in Seq(Unit) /\ input' # <<>>
  BY <1>5, <1>6, ConcatProperties, ConcatEqualIffEmpty
<1>8. Lows(received') = taken' \o Lows(input')
  <2>1. Lows(received') = Lows(received) \o Lows(units) /\ Lows(input') = Lows(input) \o Lows(units)
    BY <1>5, <1>6, LowsConcat
  <2>2. Lows(input) \in Seq(Byte) /\ Lows(units) \in Seq(Byte)
    BY <1>6, LowsSeq
  <2>3. (taken \o Lows(input)) \o Lows(units) = taken \o (Lows(input) \o Lows(units))
    BY <1>6, <2>2, BytesRegroup
  <2> QED
    BY <1>5, <2>1, <2>3 DEF PortInv, NothingLost
<1>10. echoed' \subseteq DOMAIN received'
  <2>1. /\ Len(received) \in Nat /\ Len(units) \in Nat \ {0}
        /\ Len(received') = Len(received) + Len(units)
    BY <1>5, <1>6, ConcatProperties, LenProperties, EmptySeq
  <2>2. /\ DOMAIN received = 1..Len(received)
        /\ DOMAIN received' = 1..Len(received')
    BY <1>6, <1>7, LenProperties
  <2>3. DOMAIN received \union {Len(received')} \subseteq DOMAIN received'
    BY <2>1, <2>2
  <2> QED
    BY <2>3 DEF PortInv, PortTypeOK
<1>9. PortTypeOK'
  BY <1>3, <1>5, <1>6, <1>7, <1>10 DEF PortInv, PortTypeOK
<1> QED
  BY <1>1, <1>3, <1>4, <1>5, <1>7, <1>8, <1>9 DEF PortInv, NothingLost

LEMMA ReadDataKeeps ==
  ASSUME PortInv, ReadData
  PROVE  PortInv'
<1>1. input \in Seq(Unit) /\ received \in Seq(Unit) /\ taken \in Seq(Byte)
  BY DEF PortInv, PortTypeOK
<1>2. CASE ~dlab /\ Len(input) > 1
  <2>1. /\ taken' = Append(taken, Low(Head(input))) /\ input' = Tail(input)
        /\ UNCHANGED <<received, echoed, dataReady, interrupts, settings>>
    BY <1>2 DEF ReadData
  <2>2. input # <<>> /\ Tail(input) # <<>>
    <3>1. input # <<>>
      BY <1>2, LenProperties
    <3> DEFINE n == Len(input)
    <3> DEFINE rest == Len(Tail(input))
    <3>2. rest = n - 1 /\ n \in Nat /\ n > 1
      BY <1>1, <1>2, <3>1, HeadTailProperties, LenProperties
    <3> HIDE DEF n, rest
    <3>3. rest # 0
      BY <3>2
    <3>4. Len(Tail(input)) # 0
      BY <3>3 DEF rest
    <3>5. Len(<<>>) = 0
      BY EmptySeq
    <3> QED
      BY <3>1, <3>4, <3>5
  <2>3. Head(input) \in Unit /\ Low(Head(input)) \in Byte /\ Tail(input) \in Seq(Unit)
    BY <1>1, <2>2, HeadTailProperties, LowByte
  <2>4. taken' \in Seq(Byte) /\ input' \in Seq(Unit)
    BY <1>1, <2>1, <2>3, AppendProperties
  <2>5. Lows(received) = taken' \o Lows(input')
    <3> DEFINE h == Head(input)
    <3> DEFINE y == Tail(input)
    <3>1. <<h>> \o y = input
      BY <1>1, <2>2, HeadTailProperties, ConcatSimplifications
    <3>2. h \in Unit /\ y \in Seq(Unit) /\ <<h>> \in Seq(Unit)
      BY <2>3
    <3> HIDE DEF h, y
    <3>3. Lows(input) = <<Low(h)>> \o Lows(y)
      BY <3>1, <3>2, LowsConcat, LowsOne
    <3>4. taken' = taken \o <<Low(h)>>
      BY <1>1, <2>1, <3>2, LowByte, AppendIsConcat DEF h
    <3>5. <<Low(h)>> \in Seq(Byte) /\ Lows(y) \in Seq(Byte)
      BY <3>2, LowByte, LowsSeq
    <3>6. (taken \o <<Low(h)>>) \o Lows(y) = taken \o (<<Low(h)>> \o Lows(y))
      BY <1>1, <3>5, BytesRegroup
    <3>7. Lows(received) = taken \o Lows(input)
      BY DEF PortInv, NothingLost
    <3> QED
      BY <2>1, <3>3, <3>4, <3>6, <3>7 DEF y
  <2> QED
    BY <1>1, <2>1, <2>2, <2>4, <2>5 DEF PortInv, PortTypeOK, NothingLost, interrupts, settings
<1>3. CASE ~dlab /\ Len(input) <= 1
  <2>1. /\ taken' = taken \o Lows(input) /\ input' = <<>> /\ dataReady' = FALSE
        /\ SetInterrupts(ints \ {12, 4}, ier)
        /\ UNCHANGED <<received, echoed, settings>>
    BY <1>1, <1>3, LenProperties DEF ReadData
  <2>2. ints \ {12, 4} \in SUBSET {2, 4, 12} /\ ier \in SUBSET Enables
    BY DEF PortInv, PortTypeOK
  <2>3. /\ ints' \in SUBSET {2, 4, 12} /\ ier' \in SUBSET Enables
        /\ iir' \in {None, 2, 4, 12} /\ iir' = CheckInterrupt(ints', ier')
    BY <2>1, <2>2, InterruptsKept DEF PortInv
  <2>4. ints' \intersect {4, 12} = {}
    BY <2>1 DEF SetInterrupts
  <2>5. taken' \in Seq(Byte) /\ input' \in Seq(Unit)
    BY <1>1, <2>1, LowsSeq, ConcatProperties, EmptySeq
  <2>6. Lows(received') = taken' \o Lows(input')
    BY <1>1, <2>1, <2>5, LowsEmpty, ConcatEmptySeq DEF PortInv, NothingLost
  <2> QED
    BY <1>1, <2>1, <2>3, <2>4, <2>5, <2>6 DEF PortInv, PortTypeOK, NothingLost, settings
<1>4. CASE dlab /\ UNCHANGED port
  BY <1>4 DEF PortInv, PortTypeOK, NothingLost, port, buffer, interrupts, settings
<1> QED
  BY <1>2, <1>3, <1>4 DEF ReadData

LEMMA SetKeeps ==
  ASSUME PortInv, NEW i \in SUBSET {2, 4, 12}, NEW e \in SUBSET Enables,
         SetInterrupts(i, e), i \intersect {4, 12} = ints \intersect {4, 12},
         UNCHANGED <<buffer, settings>>
  PROVE  PortInv'
<1>1. /\ ints' \in SUBSET {2, 4, 12} /\ ier' \in SUBSET Enables
      /\ iir' \in {None, 2, 4, 12} /\ iir' = CheckInterrupt(ints', ier')
  BY InterruptsKept DEF PortInv
<1>2. ints' = i
  BY DEF SetInterrupts
<1> QED
  BY <1>1, <1>2 DEF PortInv, PortTypeOK, NothingLost, buffer, settings

LEMMA PortInvNext ==
  ASSUME PortInv, [PortNext]_port
  PROVE  PortInv'
<1>1. ASSUME NEW units \in Seq(Unit) \ {<<>>}, DataReceived(units) PROVE PortInv'
  <2>1. Push(units, {}) /\ echoed' \subseteq echoed \union {Len(received')}
    BY <1>1 DEF DataReceived
  <2> QED
    BY <2>1, PushKeeps
<1>2. CASE ReadIir
  <2>1. (IF iir = 2 THEN ints \ {2} ELSE ints) \in SUBSET {2, 4, 12}
    BY DEF PortInv, PortTypeOK
  <2>2. (IF iir = 2 THEN ints \ {2} ELSE ints) \intersect {4, 12} = ints \intersect {4, 12}
    OBVIOUS
  <2>3. ier \in SUBSET Enables
    BY DEF PortInv, PortTypeOK
  <2>4. /\ SetInterrupts(IF iir = 2 THEN ints \ {2} ELSE ints, ier)
        /\ UNCHANGED <<buffer, settings>>
    BY <1>2 DEF ReadIir
  <2> QED
    BY <2>1, <2>2, <2>3, <2>4, SetKeeps
<1>3. ASSUME NEW b \in Byte, WriteData(b) PROVE PortInv'
  <2>1. CASE dlab /\ UNCHANGED port
    BY <2>1 DEF PortInv, PortTypeOK, NothingLost, port, buffer, interrupts, settings
  <2>2. CASE Push(<<b>>, {2}) /\ echoed' = echoed \union {Len(received')}
    <3>1. <<b>> \in Seq(Unit) \ {<<>>}
      BY ByteIsUnit
    <3> QED
      BY <2>2, <3>1, PushKeeps
  <2>3. CASE SetInterrupts(ints \union {2}, ier) /\ UNCHANGED <<buffer, settings>>
    <3>1. ints \union {2} \in SUBSET {2, 4, 12}
      BY DEF PortInv, PortTypeOK
    <3>2. (ints \union {2}) \intersect {4, 12} = ints \intersect {4, 12}
      OBVIOUS
    <3>3. ier \in SUBSET Enables
      BY DEF PortInv, PortTypeOK
    <3> QED
      BY <2>3, <3>1, <3>2, <3>3, SetKeeps
  <2> QED
    BY <1>3, <2>1, <2>2, <2>3 DEF WriteData
<1>4. ASSUME NEW e \in SUBSET Enables, WriteEnable(e) PROVE PortInv'
  <2>1. ints \union (IF "thr" \in e \ ier THEN {2} ELSE {}) \in SUBSET {2, 4, 12}
    BY DEF PortInv, PortTypeOK
  <2>2. CASE dlab /\ UNCHANGED port
    BY <2>2 DEF PortInv, PortTypeOK, NothingLost, port, buffer, interrupts, settings
  <2> QED
    BY <1>4, <2>1, <2>2, SetKeeps DEF WriteEnable
<1>5. ASSUME NEW f \in BOOLEAN, NEW d \in BOOLEAN, NEW l \in BOOLEAN, WriteSettings(f, d, l)
      PROVE PortInv'
  BY <1>5 DEF WriteSettings, PortInv, PortTypeOK, NothingLost, buffer, interrupts
<1>6. CASE UNCHANGED port
  BY <1>6 DEF PortInv, PortTypeOK, NothingLost, port, buffer, interrupts, settings
<1> QED
  BY <1>1, <1>2, <1>3, <1>4, <1>5, <1>6, ReadDataKeeps DEF PortNext

LEMMA PortInvMeans == PortInv => DataRaisesIrq /\ NothingLost
BY Signalled DEF PortInv, PortTypeOK, DataRaisesIrq

\* Whatever is typed and whatever the guest does with the registers, the
\* receive interrupt is signalled exactly while an enabled one has a byte, and
\* the low eight bits of what is received are read in order, none of them lost or
\* repeated (the UART of libv86.mjs).
THEOREM PortForgetsNothing == PortSpec => [](DataRaisesIrq /\ NothingLost)
<1>1. PortInv /\ [PortNext]_port => PortInv'
  BY PortInvNext
<1> QED
  BY <1>1, PortInvInit, PortInvMeans, PTL DEF PortSpec

-----------------------------------------------------------------------------
(* The window                                                              *)

LEMMA AtLeastNat ==
  ASSUME NEW low \in Nat, NEW x \in Nat
  PROVE  AtLeast(low, x) \in Nat /\ AtLeast(low, x) >= low
         /\ (AtLeast(low, x) = low \/ AtLeast(low, x) = x)
BY DEF AtLeast

LEMMA PadNat == ASSUME NEW w \in Window PROVE Pad(w) \in Nat
<1>1. Smaller(w.w, w.h) \in Nat
  BY DEF Window, Smaller, AtMost
<1>2. AtLeast(2400, 6 * Smaller(w.w, w.h)) \in Nat
  BY <1>1, AtLeastNat
<1> QED
  BY <1>2 DEF Pad, AtMost

\* The columns are as many as fit the width, or 48 when fewer do.
LEMMA ColsFit ==
  ASSUME NEW w \in Window
  PROVE  /\ InnerW(w) \in Nat /\ InnerH(w) \in Nat
         /\ Cols(w) \in Nat /\ Rows(w) \in Nat
         /\ Cols(w) >= 48 /\ Rows(w) >= 14
         /\ InnerW(w) < 820 * (Cols(w) + 1)
<1>1. InnerW(w) \in Nat /\ InnerH(w) \in Nat
  <2>1. w.w \in Nat /\ w.h \in Nat /\ Pad(w) \in Nat
    BY PadNat DEF Window
  <2>2. Inner(w.w, 20000, Pad(w)) \in Nat /\ Inner(w.h, 12000, Pad(w)) \in Nat
    BY <2>1 DEF Inner
  <2> QED
    BY <2>2 DEF InnerW, InnerH
<1> DEFINE n == InnerW(w)
<1>2. n \div 820 \in Nat /\ n < 820 * (n \div 820) + 820
  BY <1>1
<1>3. InnerH(w) \div 1800 \in Nat
  BY <1>1
<1>4. Cols(w) \in Nat /\ Cols(w) >= 48 /\ Cols(w) >= n \div 820
  BY <1>2 DEF Cols, AtLeast
<1>5. Rows(w) \in Nat /\ Rows(w) >= 14
  BY <1>3 DEF Rows, AtLeast
<1>6. n < 820 * (Cols(w) + 1)
  BY <1>1, <1>2, <1>4
<1> QED
  BY <1>1, <1>4, <1>5, <1>6

\* The width of a column, times 0.92, never rounds to more than eight pixels.
LEMMA WidthRounds ==
  ASSUME NEW inner \in Nat, NEW n \in Nat, n >= 48, inner < 820 * (n + 1)
  PROVE  Rounded(inner, n) \in Nat /\ Rounded(inner, n) <= 8
<1> DEFINE a == 184 * inner + 10000 * n
<1> DEFINE b == 20000 * n
<1>1. a \in Nat /\ b \in Nat /\ b > 0 /\ a < 9 * b
  OBVIOUS
<1> HIDE DEF a, b
<1>2. a \div b \in Nat /\ b * (a \div b) <= a
  BY <1>1
<1> DEFINE q == a \div b
<1>3. q \in Nat /\ b * q <= a
  BY <1>2
<1> HIDE DEF q
<1>4. ASSUME q >= 9 PROVE FALSE
  <2>1. b * q >= b * 9
    BY <1>1, <1>3, <1>4
  <2> QED
    BY <1>1, <1>3, <2>1
<1>5. Rounded(inner, n) = q
  BY DEF Rounded, q, a, b
<1> QED
  BY <1>3, <1>4, <1>5

LEMMA HeightRounds ==
  ASSUME NEW inner \in Nat, NEW n \in Nat, n >= 14
  PROVE  Rounded(inner, n) \in Nat
<1> DEFINE a == 184 * inner + 10000 * n
<1> DEFINE b == 20000 * n
<1>1. a \in Nat /\ b \in Nat /\ b > 0
  OBVIOUS
<1> HIDE DEF a, b
<1>2. a \div b \in Nat
  BY <1>1
<1> QED
  BY <1>2 DEF Rounded, a, b

\* Whatever the window, computeTerminalMetrics chooses the smallest font: the
\* sizes up to 26 that it provides for are never reached.
THEOREM SmallestFont == \A w \in Window : FontSize(w) = 11
<1> SUFFICES ASSUME NEW w \in Window PROVE FontSize(w) = 11
  OBVIOUS
<1> DEFINE x == Rounded(InnerW(w), Cols(w))
<1> DEFINE y == Rounded(InnerH(w), Rows(w))
<1>1. x \in Nat /\ x <= 8
  BY ColsFit, WidthRounds
<1>2. y \in Nat
  BY ColsFit, HeightRounds
<1>3. FontSize(w) = AtMost(26, AtLeast(11, Smaller(x, y)))
  BY DEF FontSize
<1> HIDE DEF x, y
<1>4. Smaller(x, y) \in Nat /\ Smaller(x, y) <= 8
  BY <1>1, <1>2 DEF Smaller, AtMost
<1> QED
  BY <1>3, <1>4 DEF AtMost, AtLeast

-----------------------------------------------------------------------------
(* The page                                                                *)

LEMMA JunkIsByte == Junk \in Byte
BY DEF Junk, Byte

\* Every step of the page and of its guest is one of the port's or leaves the
\* port alone.
LEMMA PageUsesPort ==
  ASSUME PortInv, [Next]_vars
  PROVE  [PortNext]_port
<1>0. fifo \in BOOLEAN /\ Junk \in Byte /\ Prints \subseteq Byte
  BY PageAssumption, JunkIsByte DEF PortInv, PortTypeOK
<1>1. CASE Module
  BY <1>1 DEF Module, RunModule, MountTerminal, AwaitBuildId, StartEmulator
<1>2. CASE Answers
  BY <1>2 DEF Answers, IdAnswered, IdRead, Loaded, Compiled
<1>3. CASE Timers
  BY <1>3 DEF Timers, Retry, EmulatorReady, HideStatus
<1>4. CASE Failing
  BY <1>4 DEF Failing, MountFails, StartFails, CompileFails, Refused, Unavailable
<1>5. CASE Progress
  BY <1>5 DEF Progress
<1>6. ASSUME NEW w \in Windows, Resize(w) PROVE [PortNext]_port
  BY <1>6 DEF Resize
<1>7. ASSUME NEW units \in Pastes, Type(units) PROVE [PortNext]_port
  <2>1. units \in Seq(Unit) \ {<<>>}
    BY PageAssumption
  <2> QED
    BY <1>7, <2>1 DEF Type, PortNext
<1>8. ASSUME NEW b \in Byte, Transmit(b) PROVE [PortNext]_port
  BY <1>8 DEF Transmit, PortNext
<1>9. CASE Probe
  BY <1>0, <1>8, <1>9 DEF Probe, PortNext
<1>10. CASE DriverStart
  BY <1>0, <1>10 DEF DriverStart, PortNext, Enables
<1>11. CASE StartPrinting
  BY <1>11 DEF StartPrinting, PortNext, Enables
<1>12. CASE Interrupt
  BY <1>0, <1>8, <1>12 DEF Interrupt, PortNext, Enables
<1>13. CASE UNCHANGED vars
  BY <1>13 DEF vars
<1> QED
  BY <1>1, <1>2, <1>3, <1>4, <1>5, <1>6, <1>7, <1>9, <1>10, <1>11, <1>12, <1>13 DEF Next

\* On the site, too, the receive interrupt is signalled exactly while an
\* enabled one has a byte.
THEOREM PageForgetsNothing == Spec => []DataRaisesIrq
<1>1. Init => PortInv
  BY PortInvInit DEF Init
<1>2. PortInv /\ [Next]_vars => PortInv'
  BY PageUsesPort, PortInvNext
<1>3. PortInv => DataRaisesIrq
  BY PortInvMeans
<1> QED
  BY <1>1, <1>2, <1>3, PTL DEF Spec

\* What has been stored when the file at is being asked for.
Stored == IF at = 0 THEN 0 ELSE IF at > 5 THEN 5 ELSE at - 1

\* The emulator is asked for only by a body that knows the id, and listened to
\* from then on.
StartInv ==
  /\ pc \in {"importing", "running", "failed"} => idFetch = "settled"
  /\ at > 0 => pc = "running" /\ urlId = buildId /\ listeners = Events

\* Files are stored one after the other, and only the wasm is compiled.
LoadInv ==
  /\ at \notin 1..5 => fetching = "asked"
  /\ fetching = "compiling" => at = 1
  /\ Len(stored) = Stored
  /\ \A i \in 1..Stored : stored[i] = Files[i]

StatusInv ==
  /\ pc = "failed" \/ (fetching = "stalled" /\ at > 1) => message \in Failures
  /\ emulatorReady => at = Running /\ message \notin Failures
  /\ hidden \/ timer => emulatorReady

PageInv == TypeOK /\ PortInv /\ StartInv /\ LoadInv /\ StatusInv /\ FontIsSmallest

LEMMA FilesAre ==
  /\ DOMAIN Files = 1..5 /\ Len(Files) = 5
  /\ Files \in Seq({Files[i] : i \in DOMAIN Files})
BY DEF Files

LEMMA GridNat == ASSUME NEW w \in Window PROVE Grid(w) \in [cols : Nat, rows : Nat]
BY ColsFit DEF Grid

LEMMA PageInit == Init => PageInv
<1> SUFFICES ASSUME Init PROVE PageInv
  OBVIOUS
<1>1. PortInv
  BY PortInvInit DEF Init
<1>2. TypeOK
  <2>1. /\ typedReady \in Seq(Unit) /\ sent \in Seq(Byte) /\ shown \in Seq(Byte)
        /\ stored \in Seq({Files[i] : i \in DOMAIN Files})
    BY EmptySeq DEF Init
  <2>2. /\ showing \subseteq Elements /\ message \in Messages /\ win \in Windows
    BY DEF Init, Messages, Elements
  <2>6. progress = 0 /\ at = 0 /\ font = 0
    BY DEF Init
  <2>7. progress \in 0..Full /\ at \in 0..Running /\ font \in 0..26
    BY <2>6 DEF Full, Running
  <2>3. counts \in [Counted -> Nat]
    BY DEF Init
  <2>4. size \in [cols : Nat, rows : Nat]
    BY DEF Init
  <2>5. listeners \subseteq Events
    BY DEF Init
  <2> QED
    BY <1>1, <2>1, <2>2, <2>3, <2>4, <2>5, <2>7 DEF Init, TypeOK, PortInv, BodyTypes, StatusTypes, DisplayTypes, LoaderTypes, MachineTypes
<1>3. StartInv
  <2>1. pc = "loaded" /\ at = 0
    BY DEF Init
  <2> QED
    BY <2>1 DEF StartInv
<1>6. FontIsSmallest
  BY DEF Init, FontIsSmallest, term
<1>4. LoadInv
  <2>1. at = 0 /\ stored = <<>> /\ fetching = "asked"
    BY DEF Init
  <2>2. Len(stored) = 0 /\ Stored = 0
    BY <2>1, EmptySeq DEF Stored
  <2> QED
    BY <2>1, <2>2 DEF LoadInv
<1>5. StatusInv
  BY DEF Init, StatusInv, hidden
<1> QED
  BY <1>1, <1>2, <1>3, <1>4, <1>5, <1>6 DEF PageInv

\* What a report of the loader can do to the status.
LEMMA Reported ==
  ASSUME TypeOK, at \in DOMAIN Files, NEW half \in {1, 2}, OnProgress(half)
  PROVE  /\ message' \in Messages /\ progress' \in 0..Full
         /\ message' = message \/ message' \notin Failures
<1>1. at \in 1..5
  BY FilesAre
<1>2. CASE UNCHANGED <<message, progress>>
  BY <1>2 DEF TypeOK, StatusTypes
<1>3. CASE SetStatus("loading Alpenglow", IF at = 1 THEN 4 * half ELSE 2 * (at - 2) + half)
  <2>1. (IF at = 1 THEN 4 * half ELSE 2 * (at - 2) + half) \in 0..8
    <3>1. CASE at = 1
      BY <3>1
    <3>2. CASE at # 1
      BY <1>1, <3>2
    <3> QED
      BY <3>1, <3>2
  <2> QED
    BY <1>3, <2>1 DEF SetStatus, Messages, Failures, Full
<1>4. CASE SetStatus("loading Alpenglow", progress)
  BY <1>4 DEF SetStatus, Messages, Failures, TypeOK, StatusTypes
<1> QED
  BY <1>2, <1>3, <1>4 DEF OnProgress

LEMMA BadAnswerReported ==
  ASSUME TypeOK, StartInv, at \in DOMAIN Files, OnBadAnswer
  PROVE  /\ message' \in Messages /\ progress' \in 0..Full
         /\ at > 1 => message' \in Failures
<1>1. at \in 1..5
  BY FilesAre
<1>2. CASE at = 1
  BY <1>2, Reported DEF OnBadAnswer
<1>3. CASE at # 1
  <2>1. SetStatus("failed to load Alpenglow", progress)
    <3>1. at > 0
      BY <1>1
    <3>2. "download-error" \in listeners
      BY <3>1 DEF StartInv, Events
    <3> QED
      BY <1>3, <3>2 DEF OnBadAnswer
  <2> QED
    BY <2>1 DEF SetStatus, Messages, Failures, TypeOK, StatusTypes
<1> QED
  BY <1>2, <1>3

LEMMA CountKept ==
  ASSUME TypeOK, NEW what \in Counted, Count(what)
  PROVE  counts' \in [Counted -> Nat]
<1>1. counts \in [Counted -> Nat]
  BY DEF TypeOK
<1> QED
  BY <1>1 DEF Count

\* What each group of variables is changed by.
LEMMA Changes ==
  ASSUME [Next]_vars
  PROVE  /\ \/ RunModule \/ MountTerminal \/ MountFails \/ AwaitBuildId \/ StartEmulator
            \/ StartFails \/ IdAnswered \/ IdRead
            \/ UNCHANGED body
         /\ \/ RunModule \/ StartFails \/ Progress \/ Loaded \/ Refused \/ Unavailable
            \/ EmulatorReady \/ HideStatus
            \/ UNCHANGED status
         /\ \/ MountTerminal \/ EmulatorReady \/ HideStatus \/ \E w \in Windows : Resize(w)
            \/ UNCHANGED display
         /\ \/ StartEmulator \/ Loaded \/ Compiled \/ CompileFails \/ Refused \/ Unavailable
            \/ Retry \/ EmulatorReady
            \/ UNCHANGED loader
<1>1. CASE Module
  BY <1>1 DEF Module, RunModule, MountTerminal, AwaitBuildId, StartEmulator
<1>2. CASE Answers
  BY <1>2 DEF Answers, IdAnswered, IdRead, Loaded, Compiled
<1>3. CASE Timers
  BY <1>3 DEF Timers, Retry, EmulatorReady, HideStatus
<1>4. CASE Failing
  BY <1>4 DEF Failing, MountFails, StartFails, CompileFails, Refused, Unavailable
<1>5. CASE Progress
  BY <1>5 DEF Progress
<1>6. CASE \E w \in Windows : Resize(w)
  BY <1>6 DEF Resize
<1>7. CASE \E units \in Pastes : Type(units)
  BY <1>7 DEF Type
<1>8. CASE Probe \/ DriverStart \/ StartPrinting \/ Interrupt
  BY <1>8 DEF Probe, DriverStart, StartPrinting, Interrupt
<1>9. CASE UNCHANGED vars
  BY <1>9 DEF vars
<1> QED
  BY <1>1, <1>2, <1>3, <1>4, <1>5, <1>6, <1>7, <1>8, <1>9 DEF Next

LEMMA BodyTyped ==
  ASSUME BodyTypes, [Next]_vars
  PROVE  BodyTypes'
<1> USE DEF BodyTypes
<1>1. CASE RunModule
  BY <1>1 DEF RunModule
<1>2. CASE MountTerminal
  BY <1>2 DEF MountTerminal
<1>3. CASE MountFails
  BY <1>3 DEF MountFails
<1>4. CASE AwaitBuildId
  BY <1>4 DEF AwaitBuildId
<1>5. CASE StartEmulator
  BY <1>5 DEF StartEmulator
<1>6. CASE StartFails
  BY <1>6 DEF StartFails
<1>7. CASE IdAnswered
  BY <1>7 DEF IdAnswered
<1>8. CASE IdRead
  BY <1>8 DEF IdRead
<1>9. CASE UNCHANGED body
  BY <1>9 DEF body
<1> QED
  BY <1>1, <1>2, <1>3, <1>4, <1>5, <1>6, <1>7, <1>8, <1>9, Changes

LEMMA StatusTyped ==
  ASSUME TypeOK, StartInv, [Next]_vars
  PROVE  StatusTypes'
<1> USE DEF StatusTypes
<1>0. StatusTypes
  BY DEF TypeOK
<1>1. CASE RunModule
  <2>1. "loading Alpenglow" \in Messages /\ 0 \in 0..Full
    BY DEF Messages, Full
  <2> QED
    BY <1>0, <1>1, <2>1 DEF RunModule, SetStatus
<1>2. CASE StartFails
  BY <1>0, <1>2 DEF StartFails, SetStatus, Messages, Failures
<1>3. CASE Progress
  BY <1>0, <1>3, Reported DEF Progress, Asking
<1>4. CASE Loaded
  BY <1>0, <1>4, Reported DEF Loaded, Asking
<1>5. CASE Refused
  BY <1>0, <1>5, BadAnswerReported DEF Refused, Asking
<1>6. CASE Unavailable
  BY <1>0, <1>6, BadAnswerReported DEF Unavailable, Asking
<1>7. CASE EmulatorReady
  <2>1. "booting alpenglow shell" \in Messages /\ Full \in 0..Full
    BY DEF Messages, Full
  <2> QED
    BY <1>0, <1>7, <2>1 DEF EmulatorReady, SetStatus, status
<1>8. CASE HideStatus
  BY <1>0, <1>8 DEF HideStatus
<1>9. CASE UNCHANGED status
  BY <1>0, <1>9 DEF status
<1> QED
  BY <1>1, <1>2, <1>3, <1>4, <1>5, <1>6, <1>7, <1>8, <1>9, Changes

LEMMA DisplayTyped ==
  ASSUME DisplayTypes, [Next]_vars
  PROVE  DisplayTypes'
<1> USE DEF DisplayTypes
<1>0. \A w \in Windows : FontSize(w) \in 0..26 /\ Grid(w) \in [cols : Nat, rows : Nat]
  <2>1. 11 \in 0..26
    OBVIOUS
  <2> QED
    BY <2>1, SmallestFont, GridNat, PageAssumption
<1>1. CASE MountTerminal
  <2>1. showing' \subseteq Elements
    BY <1>1 DEF MountTerminal, Elements
  <2> QED
    BY <1>0, <1>1, <2>1 DEF MountTerminal
<1>2. CASE EmulatorReady
  BY <1>0, <1>2 DEF EmulatorReady, ApplyTerminalScale
<1>3. CASE HideStatus
  BY <1>0, <1>3 DEF HideStatus, ApplyTerminalScale
<1>4. ASSUME NEW w \in Windows, Resize(w) PROVE DisplayTypes'
  BY <1>0, <1>4 DEF Resize, ApplyTerminalScale
<1>5. CASE UNCHANGED display
  BY <1>5 DEF display
<1> QED
  BY <1>1, <1>2, <1>3, <1>4, <1>5, Changes

LEMMA LoaderTyped ==
  ASSUME LoaderTypes, LoadInv, [Next]_vars
  PROVE  LoaderTypes'
<1> USE DEF LoaderTypes
<1> DEFINE Names == {Files[i] : i \in DOMAIN Files}
<1>0. ASSUME NEW i \in 1..5 PROVE Append(stored, Files[i]) \in Seq(Names) /\ i + 1 \in 0..Running
  <2>1. Files[i] \in Names
    BY FilesAre
  <2> QED
    BY <2>1, AppendProperties DEF Running
<1>1. CASE StartEmulator
  BY <1>1 DEF StartEmulator, Running
<1>2. CASE Loaded
  <2>1. at \in 1..5
    BY <1>2, FilesAre DEF Loaded, Asking
  <2>2. stored' \in Seq(Names) /\ at' \in 0..Running
    BY <1>0, <1>2, <2>1 DEF Loaded
  <2> QED
    BY <1>2, <2>2 DEF Loaded
<1>3. CASE Compiled
  <2>1. at \in 1..5
    BY <1>3 DEF Compiled, LoadInv
  <2>2. stored' \in Seq(Names) /\ at' \in 0..Running
    BY <1>0, <1>3, <2>1 DEF Compiled
  <2> QED
    BY <1>3, <2>2 DEF Compiled
<1>4. CASE CompileFails
  BY <1>4 DEF CompileFails
<1>5. CASE Refused
  BY <1>5 DEF Refused
<1>6. CASE Unavailable
  BY <1>6 DEF Unavailable
<1>7. CASE Retry
  BY <1>7 DEF Retry
<1>8. CASE EmulatorReady
  <2>1. Running \in 0..Running
    BY DEF Running
  <2> QED
    BY <1>8, <2>1 DEF EmulatorReady
<1>9. CASE UNCHANGED loader
  BY <1>9 DEF loader
<1> QED
  BY <1>1, <1>2, <1>3, <1>4, <1>5, <1>6, <1>7, <1>8, <1>9, Changes

LEMMA MachineTyped ==
  ASSUME MachineTypes, [Next]_vars
  PROVE  MachineTypes'
<1> USE DEF MachineTypes
<1>0. ASSUME NEW b \in Byte, Transmit(b) PROVE sent' \in Seq(Byte) /\ shown' \in Seq(Byte)
  <2>1. Append(sent, b) \in Seq(Byte) /\ Append(shown, b) \in Seq(Byte)
    BY AppendProperties
  <2> QED
    BY <1>0, <2>1 DEF Transmit, OnOutput
<1>1. CASE EmulatorReady
  BY <1>1 DEF EmulatorReady
<1>2. CASE Probe
  <2>1. sent' \in Seq(Byte) /\ shown' \in Seq(Byte)
    BY <1>0, <1>2, JunkIsByte DEF Probe
  <2> QED
    BY <1>2, <2>1 DEF Probe
<1>3. CASE DriverStart
  BY <1>3 DEF DriverStart
<1>4. CASE Interrupt
  <2>1. sent' \in Seq(Byte) /\ shown' \in Seq(Byte)
    BY <1>0, <1>4, PageAssumption DEF Interrupt
  <2>2. isr' \in {"idle", "iir", "serve"} /\ guest' = guest
    BY <1>4 DEF Interrupt
  <2> QED
    BY <2>1, <2>2
<1>5. CASE UNCHANGED machine
  BY <1>5 DEF machine
<1>6. UNCHANGED machine \/ EmulatorReady \/ Probe \/ DriverStart \/ Interrupt
  <2>1. CASE Module \/ Failing
    BY <2>1 DEF Module, RunModule, MountTerminal, AwaitBuildId, StartEmulator,
                Failing, MountFails, StartFails, CompileFails, Refused, Unavailable
  <2>2. CASE Answers \/ Progress
    BY <2>2 DEF Answers, IdAnswered, IdRead, Loaded, Compiled, Progress
  <2>3. CASE Timers
    BY <2>3 DEF Timers, Retry, EmulatorReady, HideStatus
  <2>4. CASE \E w \in Windows : Resize(w)
    BY <2>4 DEF Resize
  <2>5. CASE \E units \in Pastes : Type(units)
    BY <2>5 DEF Type
  <2>6. CASE StartPrinting
    BY <2>6 DEF StartPrinting
  <2>7. CASE UNCHANGED vars
    BY <2>7 DEF vars, machine
  <2> QED
    BY <2>1, <2>2, <2>3, <2>4, <2>5, <2>6, <2>7 DEF Next
<1> QED
  BY <1>1, <1>2, <1>3, <1>4, <1>5, <1>6

LEMMA HistoryTyped ==
  ASSUME TypeOK, [Next]_vars
  PROVE  typedReady' \in Seq(Unit) /\ counts' \in [Counted -> Nat]
<1>0. typedReady \in Seq(Unit) /\ counts \in [Counted -> Nat]
  BY DEF TypeOK
<1>1. \A what \in Counted : Count(what) => counts' \in [Counted -> Nat]
  BY CountKept
<1>2. CASE Module
  BY <1>0, <1>2 DEF Module, RunModule, MountTerminal, AwaitBuildId, StartEmulator
<1>3. CASE Answers
  BY <1>0, <1>1, <1>3 DEF Answers, IdAnswered, IdRead, Loaded, Compiled, Counted
<1>4. CASE Timers \/ Progress
  BY <1>0, <1>4 DEF Timers, Retry, EmulatorReady, HideStatus, Progress
<1>5. CASE Failing
  BY <1>0, <1>1, <1>5 DEF Failing, MountFails, StartFails, CompileFails, Refused, Unavailable, Counted
<1>6. CASE \E w \in Windows : Resize(w)
  BY <1>0, <1>1, <1>6 DEF Resize, Counted
<1>7. ASSUME NEW units \in Pastes, Type(units)
      PROVE typedReady' \in Seq(Unit) /\ counts' \in [Counted -> Nat]
  <2>1. typedReady \o units \in Seq(Unit)
    BY <1>0, PageAssumption, ConcatProperties
  <2> QED
    BY <1>0, <1>1, <1>7, <2>1 DEF Type, Counted
<1>8. CASE Probe \/ DriverStart \/ StartPrinting \/ Interrupt
  BY <1>0, <1>1, <1>8 DEF Probe, DriverStart, StartPrinting, Interrupt, Counted
<1>9. CASE UNCHANGED vars
  BY <1>0, <1>9 DEF vars
<1> QED
  BY <1>2, <1>3, <1>4, <1>5, <1>6, <1>7, <1>8, <1>9 DEF Next

LEMMA StartKept ==
  ASSUME StartInv, LoadInv, LoaderTypes, [Next]_vars
  PROVE  StartInv'
<1> USE DEF StartInv
<1>0. at \in 0..Running
  BY DEF LoaderTypes
<1>1. CASE RunModule \/ MountTerminal \/ MountFails
  BY <1>1 DEF RunModule, MountTerminal, MountFails, loader
<1>2. CASE AwaitBuildId
  BY <1>2 DEF AwaitBuildId, loader
<1>3. CASE StartEmulator
  BY <1>3 DEF StartEmulator
<1>4. CASE StartFails
  BY <1>4 DEF StartFails, loader
<1>5. CASE IdAnswered \/ IdRead
  BY <1>5 DEF IdAnswered, IdRead, loader
<1>6. CASE UNCHANGED body
  <2>1. at' > 0 => at > 0
    <3>1. CASE Loaded
      BY <1>0, <3>1, FilesAre DEF Loaded, Asking
    <3>2. CASE Compiled
      BY <3>2 DEF Compiled, LoadInv
    <3>3. CASE CompileFails \/ Refused \/ Unavailable \/ Retry
      BY <3>3 DEF CompileFails, Refused, Unavailable, Retry
    <3>4. CASE EmulatorReady
      <4>1. at = 6
        BY <3>4 DEF EmulatorReady, Initializing
      <4> QED
        BY <4>1
    <3>5. CASE StartEmulator
      BY <1>6, <3>5 DEF StartEmulator, body
    <3>6. CASE UNCHANGED loader
      BY <3>6 DEF loader
    <3> QED
      BY <3>1, <3>2, <3>3, <3>4, <3>5, <3>6, Changes
  <2> QED
    BY <1>6, <2>1 DEF body
<1> QED
  BY <1>1, <1>2, <1>3, <1>4, <1>5, <1>6, Changes

LEMMA LoadKept ==
  ASSUME LoadInv, StartInv, LoaderTypes, [Next]_vars
  PROVE  LoadInv'
<1> DEFINE Names == {Files[i] : i \in DOMAIN Files}
<1>0. at \in 0..7 /\ stored \in Seq(Names)
  BY DEF LoaderTypes, Running
\* One more file, in its place.
<1>1. ASSUME at \in 1..5, at' = at + 1, stored' = Append(stored, Files[at])
      PROVE  Len(stored') = Stored' /\ \A i \in 1..Stored' : stored'[i] = Files[i]
  <2>1. Stored = at - 1 /\ Stored' = at
    BY <1>1 DEF Stored
  <2>2. Files[at] \in Names
    BY <1>1, FilesAre
  <2>3. /\ Len(stored') = Len(stored) + 1
        /\ \A i \in 1..Len(stored) : stored'[i] = stored[i]
        /\ stored'[Len(stored) + 1] = Files[at]
    BY <1>0, <1>1, <2>2, AppendProperties
  <2>4. Len(stored) = at - 1 /\ \A i \in 1..(at - 1) : stored[i] = Files[i]
    BY <2>1 DEF LoadInv
  <2>5. Len(stored') = at /\ \A i \in 1..at : stored'[i] = Files[i]
    BY <1>1, <2>3, <2>4
  <2> QED
    BY <2>1, <2>5
<1>2. CASE StartEmulator
  <2>1. at = 0 /\ at' = 1 /\ stored' = stored /\ fetching' = fetching
    BY <1>0, <1>2 DEF StartEmulator, StartInv
  <2>2. Stored = 0 /\ Stored' = 0
    BY <2>1 DEF Stored
  <2> QED
    BY <2>1, <2>2 DEF LoadInv
<1>3. CASE Loaded
  <2>1. at \in 1..5 /\ fetching = "asked"
    BY <1>3, FilesAre DEF Loaded, Asking
  <2>2. CASE at = 1
    <3>1. fetching' = "compiling" /\ at' = at /\ stored' = stored
      BY <1>3, <2>2 DEF Loaded
    <3> QED
      BY <2>2, <3>1 DEF LoadInv, Stored
  <2>3. CASE at > 1
    <3>1. fetching' = "asked" /\ at' = at + 1 /\ stored' = Append(stored, Files[at])
      BY <1>3, <2>1, <2>3 DEF Loaded
    <3> QED
      BY <1>1, <2>1, <3>1 DEF LoadInv
  <2> QED
    BY <2>1, <2>2, <2>3
<1>4. CASE Compiled
  <2>1. at = 1 /\ fetching' = "asked" /\ at' = at + 1 /\ stored' = Append(stored, Files[at])
    BY <1>4 DEF Compiled, LoadInv
  <2> QED
    BY <1>1, <2>1 DEF LoadInv
<1>5. CASE CompileFails
  <2>1. at = 1
    BY <1>5 DEF CompileFails, LoadInv
  <2>2. at' = at /\ stored' = stored /\ fetching' # "compiling"
    BY <1>5 DEF CompileFails
  <2> QED
    BY <2>1, <2>2 DEF LoadInv, Stored
<1>6. CASE Refused \/ Unavailable \/ Retry
  <2>1. at \in 1..5 \/ fetching' = "asked"
    BY <1>6, FilesAre DEF Refused, Unavailable, Retry, Asking
  <2>2. at' = at /\ stored' = stored /\ fetching' # "compiling"
    BY <1>6 DEF Refused, Unavailable, Retry
  <2> QED
    BY <2>1, <2>2 DEF LoadInv, Stored
<1>7. CASE EmulatorReady
  <2>1. at = 6 /\ at' = 7 /\ stored' = stored /\ fetching' = fetching
    BY <1>7 DEF EmulatorReady, Initializing, Running
  <2>2. Stored = 5 /\ Stored' = 5
    BY <2>1 DEF Stored
  <2> QED
    BY <2>1, <2>2 DEF LoadInv
<1>8. CASE UNCHANGED loader
  BY <1>8 DEF loader, LoadInv, Stored
<1> QED
  BY <1>2, <1>3, <1>4, <1>5, <1>6, <1>7, <1>8, Changes

LEMMA StatusKept ==
  ASSUME PageInv, [Next]_vars
  PROVE  StatusInv'
<1>0. /\ at \in 0..7
      /\ at > 0 => pc = "running"
      /\ at \notin 1..5 => fetching = "asked"
      /\ fetching = "compiling" => at = 1
      /\ emulatorReady => at = 7 /\ message \notin Failures
      /\ pc = "failed" \/ (fetching = "stalled" /\ at > 1) => message \in Failures
      /\ hidden \/ timer => emulatorReady
  BY DEF PageInv, TypeOK, LoaderTypes, Running, StartInv, LoadInv, StatusInv
<1> DEFINE NothingSaid == UNCHANGED <<message, timer, emulatorReady>> /\ hidden' = hidden
<1>1. ASSUME NothingSaid, UNCHANGED <<at, fetching>>, pc' = "failed" => pc = "failed"
      PROVE  StatusInv'
  BY <1>0, <1>1 DEF StatusInv, Running
<1>2. ASSUME pc' # "failed", ~(fetching' = "stalled" /\ at' > 1), NothingSaid, at # 7
      PROVE  StatusInv'
  <2>1. ~emulatorReady /\ ~hidden /\ ~timer
    BY <1>0, <1>2
  <2>2. ~emulatorReady' /\ ~hidden' /\ ~timer'
    BY <1>2, <2>1
  <2> QED
    BY <1>2, <2>2 DEF StatusInv
<1>3. CASE Module
  <2>1. CASE RunModule
    <3>1. at = 0 /\ at' = 0 /\ pc' = "mounting" /\ UNCHANGED <<timer, emulatorReady, showing>>
      <4>1. pc = "loaded" /\ at' = at /\ pc' = "mounting" /\ UNCHANGED <<timer, emulatorReady, showing>>
        BY <2>1 DEF RunModule, display, loader
      <4> QED
        BY <1>0, <4>1
    <3>2. ~emulatorReady /\ hidden' = hidden
      BY <1>0, <3>1 DEF hidden
    <3> QED
      BY <1>0, <3>1, <3>2 DEF StatusInv
  <2>2. CASE MountTerminal
    BY <1>1, <2>2 DEF MountTerminal, hidden, status, loader
  <2>3. CASE AwaitBuildId
    BY <1>1, <2>3 DEF AwaitBuildId, hidden, status, display, loader
  <2>4. CASE StartEmulator
    BY <1>0, <1>2, <2>4 DEF StartEmulator, hidden, status, display
  <2> QED
    BY <1>3, <2>1, <2>2, <2>3, <2>4 DEF Module
<1>4. CASE Answers
  <2>1. CASE IdAnswered \/ IdRead
    BY <1>1, <2>1 DEF IdAnswered, IdRead, hidden, status, display, loader
  <2>2. CASE Loaded
    <3>1. at \in 1..5 /\ fetching = "asked" /\ pc' = "running" /\ fetching' # "stalled"
      BY <1>0, <2>2, FilesAre DEF Loaded, Asking, body
    <3>2. ~emulatorReady /\ UNCHANGED <<timer, emulatorReady>> /\ hidden' = hidden
      BY <1>0, <2>2, <3>1 DEF Loaded, hidden, display
    <3> QED
      BY <1>0, <3>1, <3>2 DEF StatusInv
  <2>3. CASE Compiled
    <3>1. at = 1 /\ pc' = pc /\ pc = "running" /\ fetching' = "asked" /\ NothingSaid
      BY <1>0, <2>3 DEF Compiled, hidden, status, display, body
    <3> QED
      BY <1>2, <3>1
  <2> QED
    BY <1>4, <2>1, <2>2, <2>3 DEF Answers
<1>5. CASE Timers
  <2>1. CASE Retry
    <3>1. at \in 1..5 /\ pc' = "running" /\ fetching' = "asked" /\ NothingSaid
      BY <1>0, <2>1 DEF Retry, hidden, status, display, body
    <3> QED
      BY <1>2, <3>1
  <2>2. CASE EmulatorReady
    <3>1. at = 6 /\ at' = 7 /\ fetching' = fetching /\ pc' = pc
      BY <2>2 DEF EmulatorReady, Initializing, Running, body
    <3>3. fetching = "asked" /\ pc = "running"
      BY <1>0, <3>1
    <3>4. at > 0
      BY <3>1
    <3>5. "emulator-ready" \in listeners
      BY <3>4 DEF Events, PageInv, StartInv
    <3>2. message' \notin Failures /\ emulatorReady' = TRUE
      BY <2>2, <3>5 DEF EmulatorReady, SetStatus, Failures
    <3> QED
      BY <3>1, <3>2, <3>3 DEF StatusInv, Running
  <2>3. CASE HideStatus
    <3>1. timer /\ UNCHANGED <<message, emulatorReady, at, fetching, pc>>
      BY <2>3 DEF HideStatus, loader, body
    <3> QED
      BY <1>0, <3>1 DEF StatusInv, Running
  <2> QED
    BY <1>5, <2>1, <2>2, <2>3 DEF Timers
<1>6. CASE Failing
  <2>1. CASE MountFails
    BY <1>1, <2>1 DEF MountFails, hidden, status, display, loader
  <2>2. CASE StartFails
    <3>1. at = 0 /\ message' = "failed:" /\ UNCHANGED <<timer, emulatorReady, showing>>
      BY <1>0, <2>2 DEF StartFails, SetStatus, display
    <3>2. ~emulatorReady /\ hidden' = hidden
      BY <1>0, <3>1 DEF hidden
    <3> QED
      BY <1>0, <3>1, <3>2 DEF StatusInv, Failures
  <2>3. CASE CompileFails
    <3>1. at = 1 /\ at' = 1 /\ pc' = "running" /\ NothingSaid
      BY <1>0, <2>3 DEF CompileFails, hidden, status, display, body
    <3> QED
      BY <1>2, <3>1
  <2>4. CASE Refused \/ Unavailable
    <3>1. /\ at \in DOMAIN Files /\ at' = at /\ pc' = pc
          /\ UNCHANGED <<timer, emulatorReady, showing>>
      BY <2>4 DEF Refused, Unavailable, Asking, body, display
    <3>2. at \in 1..5 /\ pc = "running"
      BY <1>0, <3>1, FilesAre
    <3>3. ~emulatorReady /\ hidden' = hidden
      BY <1>0, <3>1, <3>2 DEF hidden
    <3>4. fetching' = "stalled" => OnBadAnswer
      BY <2>4 DEF Refused, Unavailable
    <3>5. fetching' = "stalled" /\ at' > 1 => message' \in Failures
      BY <3>1, <3>4, BadAnswerReported DEF PageInv
    <3> QED
      BY <1>0, <3>1, <3>2, <3>3, <3>5 DEF StatusInv
  <2> QED
    BY <1>6, <2>1, <2>2, <2>3, <2>4 DEF Failing
<1>7. CASE Progress
  <2>1. /\ at \in DOMAIN Files /\ fetching = "asked"
        /\ UNCHANGED <<at, fetching, pc, timer, emulatorReady, showing>>
    BY <1>7 DEF Progress, Asking, body, display, loader
  <2>2. at \in 1..5 /\ pc = "running"
    BY <1>0, <2>1, FilesAre
  <2>3. ~emulatorReady /\ hidden' = hidden
    BY <1>0, <2>1, <2>2 DEF hidden
  <2> QED
    BY <1>0, <2>1, <2>2, <2>3 DEF StatusInv
<1>8. CASE \E w \in Windows : Resize(w)
  BY <1>1, <1>8 DEF Resize, hidden, status, loader, body
<1>9. CASE \E units \in Pastes : Type(units)
  BY <1>1, <1>9 DEF Type, hidden, status, display, loader, body
<1>10. CASE Probe \/ DriverStart \/ StartPrinting \/ Interrupt
  BY <1>1, <1>10 DEF Probe, DriverStart, StartPrinting, Interrupt, hidden, status, display, loader, body
<1>11. CASE UNCHANGED vars
  BY <1>1, <1>11 DEF vars, hidden, status, display, loader, body
<1> QED
  BY <1>3, <1>4, <1>5, <1>6, <1>7, <1>8, <1>9, <1>10, <1>11 DEF Next

LEMMA FontKept ==
  ASSUME FontIsSmallest, DisplayTypes, [Next]_vars
  PROVE  FontIsSmallest'
<1> USE DEF FontIsSmallest, term
<1>0. \A w \in Windows : FontSize(w) = 11
  BY SmallestFont, PageAssumption
<1>1. CASE MountTerminal
  BY <1>0, <1>1 DEF MountTerminal, DisplayTypes
<1>2. CASE EmulatorReady
  BY <1>0, <1>2 DEF EmulatorReady, ApplyTerminalScale, DisplayTypes
<1>3. CASE HideStatus
  BY <1>0, <1>3 DEF HideStatus, ApplyTerminalScale, DisplayTypes
<1>4. ASSUME NEW w \in Windows, Resize(w) PROVE FontIsSmallest'
  BY <1>0, <1>4 DEF Resize, ApplyTerminalScale
<1>5. CASE UNCHANGED display
  BY <1>5 DEF display
<1> QED
  BY <1>1, <1>2, <1>3, <1>4, <1>5, Changes

LEMMA PageNext ==
  ASSUME PageInv, [Next]_vars
  PROVE  PageInv'
<1>1. PortInv'
  BY PageUsesPort, PortInvNext DEF PageInv
<1>2. TypeOK'
  BY <1>1, BodyTyped, StatusTyped, DisplayTyped, LoaderTyped, MachineTyped, HistoryTyped
     DEF PageInv, TypeOK, PortInv
<1>3. StartInv' /\ LoadInv' /\ FontIsSmallest'
  BY StartKept, LoadKept, FontKept DEF PageInv, TypeOK
<1> QED
  BY <1>1, <1>2, <1>3, StatusKept DEF PageInv

\* The whole machine is in its place once the loader is through.
LEMMA PageMeans == PageInv => HiddenMeansBooting /\ StuckIsSaid /\ UrlsCarryTheId
<1> SUFFICES ASSUME PageInv PROVE HiddenMeansBooting /\ StuckIsSaid /\ UrlsCarryTheId
  OBVIOUS
<1>1. ASSUME emulatorReady PROVE stored = Files
  <2>1. Stored = 5
    BY <1>1 DEF PageInv, StatusInv, Running, Stored
  <2>2. Len(stored) = Len(Files) /\ \A i \in 1..Len(stored) : stored[i] = Files[i]
    BY <2>1, FilesAre DEF PageInv, LoadInv
  <2> QED
    BY <2>2, FilesAre, SeqEqual DEF PageInv, TypeOK, LoaderTypes
<1>2. HiddenMeansBooting /\ StuckIsSaid
  BY <1>1 DEF PageInv, StatusInv, HiddenMeansBooting, StuckIsSaid
<1>3. UrlsCarryTheId
  BY DEF PageInv, StartInv, UrlsCarryTheId
<1> QED
  BY <1>2, <1>3

\* The page and its port keep to their types.
THEOREM PageTypes == Spec => []TypeOK
<1>1. PageInv /\ [Next]_vars => PageInv'
  BY PageNext
<1>2. PageInv => TypeOK
  BY DEF PageInv
<1> QED
  BY <1>1, <1>2, PageInit, PTL DEF Spec

\* For any windows, any input and any number of failed and retried requests,
\* the status disappears only over a machine that has all its files in order.
THEOREM HiddenOverMachine == Spec => []HiddenMeansBooting
<1>1. PageInv /\ [Next]_vars => PageInv'
  BY PageNext
<1> QED
  BY <1>1, PageInit, PageMeans, PTL DEF Spec

\* A boot that is stuck on a file of the machine says so, and a running one
\* never says that it failed.
THEOREM StuckBootSays == Spec => []StuckIsSaid
<1>1. PageInv /\ [Next]_vars => PageInv'
  BY PageNext
<1> QED
  BY <1>1, PageInit, PageMeans, PTL DEF Spec

\* However late the build id comes, the emulator's urls carry it.
THEOREM IdInUrls == Spec => []UrlsCarryTheId
<1>1. PageInv /\ [Next]_vars => PageInv'
  BY PageNext
<1> QED
  BY <1>1, PageInit, PageMeans, PTL DEF Spec

\* A terminal keeps the smallest font through every change of the window.
THEOREM FontStaysSmallest == Spec => []FontIsSmallest
<1>1. PageInv /\ [Next]_vars => PageInv'
  BY PageNext
<1>2. PageInv => FontIsSmallest
  BY DEF PageInv
<1> QED
  BY <1>1, <1>2, PageInit, PTL DEF Spec

-----------------------------------------------------------------------------
(* Sequences without some of their elements                               *)

\* Induction over the natural numbers, for the members of a set.
LEMMA Inductive ==
  ASSUME NEW S, 0 \in S, \A n \in Nat : n \in S => n + 1 \in S
  PROVE  Nat \subseteq S
<1> DEFINE T == Nat \ S
<1> SUFFICES ASSUME T # {} PROVE FALSE
  OBVIOUS
<1>1. PICK R : R = OpToRel(<, Nat)
  OBVIOUS
<1>2. IsWellFoundedOn(R, Nat)
  BY <1>1, NatLessThanWellFounded
<1>3. PICK x \in T : \A y \in T : <<y, x>> \notin R
  <2>1. T \subseteq Nat /\ T # {}
    OBVIOUS
  <2> HIDE DEF T
  <2> QED
    BY <1>2, <2>1, WFMin
<1>4. x - 1 \in Nat /\ x - 1 < x
  OBVIOUS
<1>5. <<x - 1, x>> \in R
  BY <1>1, <1>4 DEF OpToRel
<1> QED
  BY <1>3, <1>4, <1>5

\* There is a function that takes each value from the one before.
Steps(last, V, step) == \A k \in 1..last, v \in V : step[k][v] \in V
Recursive(last, V, v0, step) ==
  \E f \in [0..last -> V] : f[0] = v0 /\ \A k \in 1..last : f[k] = step[k][f[k - 1]]

LEMMA Recursion ==
  ASSUME NEW last \in Nat, NEW V, NEW v0 \in V, NEW step, Steps(last, V, step)
  PROVE  Recursive(last, V, v0, step)
<1> USE DEF Steps, Recursive
<1> DEFINE Upto(n, f) == f[0] = v0 /\ \A k \in 1..n : f[k] = step[k][f[k - 1]]
<1> DEFINE S == {n \in Nat : n <= last => \E f \in [0..n -> V] : Upto(n, f)}
<1>1. 0 \in S
  <2>1. [k \in 0..0 |-> v0] \in [0..0 -> V] /\ Upto(0, [k \in 0..0 |-> v0])
    OBVIOUS
  <2> QED
    BY <2>1
<1>2. ASSUME NEW n \in Nat, n \in S, n + 1 <= last
      PROVE  \E f \in [0..(n + 1) -> V] : Upto(n + 1, f)
  <2>1. PICK g \in [0..n -> V] : Upto(n, g)
    BY <1>2
  <2>2. PICK f : f = [k \in 0..(n + 1) |-> IF k = n + 1 THEN step[n + 1][g[n]] ELSE g[k]]
    OBVIOUS
  <2>3. g[n] \in V /\ n + 1 \in 1..last
    BY <1>2
  <2>4. \A k \in 0..(n + 1) : f[k] = IF k = n + 1 THEN step[n + 1][g[n]] ELSE g[k]
    BY <2>2
  <2>5. f \in [0..(n + 1) -> V]
    BY <2>2, <2>3
  <2>6. ASSUME NEW k \in 1..(n + 1) PROVE f[k] = step[k][f[k - 1]]
    <3>1. CASE k = n + 1
      BY <2>4, <3>1
    <3>2. CASE k # n + 1
      <4>1. k \in 1..n /\ k - 1 \in 0..(n + 1) /\ k - 1 # n + 1
        BY <3>2
      <4>2. f[k] = g[k] /\ f[k - 1] = g[k - 1]
        BY <2>4, <3>2, <4>1
      <4> QED
        BY <2>1, <4>1, <4>2
    <3> QED
      BY <3>1, <3>2
  <2>7. f[0] = v0
    BY <2>1, <2>4
  <2> QED
    BY <2>5, <2>6, <2>7
<1>3. Nat \subseteq S
  <2>1. ASSUME NEW n \in Nat, n \in S PROVE n + 1 \in S
    <3>1. n + 1 \in Nat /\ (n + 1 <= last => \E f \in [0..(n + 1) -> V] : Upto(n + 1, f))
      BY <1>2, <2>1
    <3> HIDE DEF Upto
    <3> QED
      BY <3>1
  <2> HIDE DEF S
  <2> QED
    BY <1>1, <2>1, Inductive
<1> QED
  BY <1>3


\* What is left of the first k elements, for k from 0 on.
Runs(w, s, drop) ==
  /\ w[0] = <<>>
  /\ \A k \in 1..Len(s) : w[k] = IF k \in drop THEN w[k - 1] ELSE Append(w[k - 1], s[k])

LEMMA WithoutRuns ==
  ASSUME NEW B, NEW s \in Seq(B), NEW drop
  PROVE  \E w : Runs(w, s, drop) /\ Without(s, drop) = w[Len(s)]
<1> DEFINE L == Len(s)
<1> DEFINE V == Seq(B)
<1>0. L \in Nat
  OBVIOUS
<1>1. PICK step : step = [k \in 1..L |-> [v \in V |-> IF k \in drop THEN v ELSE Append(v, s[k])]]
  OBVIOUS
<1>2. \A k \in 1..L, v \in V : step[k][v] = IF k \in drop THEN v ELSE Append(v, s[k])
  BY <1>1
<1>3. <<>> \in V /\ Steps(L, V, step)
  <2>1. ASSUME NEW k \in 1..L, NEW v \in V PROVE step[k][v] \in V
    <3>1. s[k] \in B
      BY ElementOfSeq
    <3>2. Append(v, s[k]) \in V
      BY <3>1, AppendProperties
    <3> QED
      BY <1>2, <3>2
  <2> QED
    BY <2>1, EmptySeq DEF Steps
<1>4. Recursive(L, V, <<>>, step)
  <2> HIDE DEF L, V
  <2> QED
    BY <1>0, <1>3, Recursion
<1>5. PICK g \in [0..L -> V] : g[0] = <<>> /\ \A k \in 1..L : g[k] = step[k][g[k - 1]]
  BY <1>4 DEF Recursive
<1> DEFINE Body(f, k) ==
      IF k = 0 THEN <<>>
      ELSE IF k \in drop THEN f[k - 1] ELSE Append(f[k - 1], s[k])
<1>6. g = [k \in 0..L |-> Body(g, k)]
  <2>1. ASSUME NEW k \in 1..L PROVE g[k] = Body(g, k)
    <3>1. g[k - 1] \in V /\ k # 0
      BY <1>0, <1>5
    <3> QED
      BY <1>2, <1>5, <3>1
  <2>2. g[0] = Body(g, 0)
    BY <1>5
  <2> HIDE DEF Body
  <2>3. \A k \in 0..L : g[k] = Body(g, k)
    BY <1>0, <2>1, <2>2
  <2> QED
    BY <1>5, <2>3
<1> DEFINE kept == CHOOSE f : f = [k \in 0..Len(s) |-> Body(f, k)]
<1>7. kept = [k \in 0..L |-> Body(kept, k)]
  BY <1>6
<1>8. Without(s, drop) = kept[L]
  BY DEF Without
<1> HIDE DEF kept
<1>9. \A k \in 0..L : kept[k] = Body(kept, k)
  BY <1>7
<1>10. Runs(kept, s, drop)
  BY <1>0, <1>9 DEF Runs
<1> QED
  BY <1>8, <1>10

\* It depends on no more than the first elements and what is dropped of them.
LEMMA RunsAgree ==
  ASSUME NEW s, NEW t, NEW d, NEW e, NEW w, NEW v, NEW n \in Nat,
         Len(s) \in Nat, Len(t) \in Nat, n <= Len(s), n <= Len(t),
         Runs(w, s, d), Runs(v, t, e),
         \A k \in 1..n : s[k] = t[k] /\ (k \in d <=> k \in e)
  PROVE  w[n] = v[n]
<1> DEFINE S == {k \in Nat : k <= n => w[k] = v[k]}
<1>1. 0 \in S
  BY DEF Runs
<1>2. ASSUME NEW k \in Nat, k \in S PROVE k + 1 \in S
  <2>1. CASE k + 1 <= n
    <3>1. k + 1 \in 1..n /\ k + 1 \in 1..Len(s) /\ k + 1 \in 1..Len(t) /\ (k + 1) - 1 = k
      BY <2>1
    <3>2. w[k] = v[k]
      BY <1>2, <2>1
    <3>3. w[k + 1] = IF k + 1 \in d THEN w[k] ELSE Append(w[k], s[k + 1])
      BY <3>1 DEF Runs
    <3>4. v[k + 1] = IF k + 1 \in e THEN v[k] ELSE Append(v[k], t[k + 1])
      BY <3>1 DEF Runs
    <3>5. s[k + 1] = t[k + 1] /\ (k + 1 \in d <=> k + 1 \in e)
      BY <3>1
    <3> QED
      BY <3>2, <3>3, <3>4, <3>5
  <2>2. CASE ~(k + 1 <= n)
    BY <2>2
  <2> QED
    BY <2>1, <2>2
<1>3. Nat \subseteq S
  <2> HIDE DEF S
  <2> QED
    BY <1>1, <1>2, Inductive
<1> QED
  BY <1>3

LEMMA WithoutSame ==
  ASSUME NEW B, NEW s \in Seq(B), NEW d, NEW e, \A k \in 1..Len(s) : k \in d <=> k \in e
  PROVE  Without(s, d) = Without(s, e)
<1>1. PICK w : Runs(w, s, d) /\ Without(s, d) = w[Len(s)]
  BY WithoutRuns
<1>2. PICK v : Runs(v, s, e) /\ Without(s, e) = v[Len(s)]
  BY WithoutRuns
<1>3. Len(s) \in Nat
  OBVIOUS
<1>4. w[Len(s)] = v[Len(s)]
  BY <1>1, <1>2, <1>3, RunsAgree
<1> QED
  BY <1>1, <1>2, <1>4

\* One more element is kept at the end, or dropped.
LEMMA WithoutAppend ==
  ASSUME NEW B, NEW s \in Seq(B), NEW b \in B, NEW d
  PROVE  Without(Append(s, b), d) =
           IF Len(s) + 1 \in d THEN Without(s, d) ELSE Append(Without(s, d), b)
<1> DEFINE t == Append(s, b)
<1> DEFINE n == Len(s)
<1>0. /\ n \in Nat /\ t \in Seq(B) /\ Len(t) = n + 1 /\ t[n + 1] = b
      /\ \A k \in 1..n : s[k] = t[k]
  BY AppendProperties
<1> HIDE DEF t
<1>1. PICK w : Runs(w, s, d) /\ Without(s, d) = w[n]
  BY WithoutRuns
<1>2. PICK v : Runs(v, t, d) /\ Without(t, d) = v[Len(t)]
  BY <1>0, WithoutRuns
<1>3. w[n] = v[n]
  <2>1. n <= Len(s) /\ n <= Len(t) /\ Len(s) \in Nat /\ Len(t) \in Nat
    BY <1>0
  <2> HIDE DEF n
  <2> QED
    BY <1>0, <1>1, <1>2, <2>1, RunsAgree
<1>4. v[n + 1] = IF n + 1 \in d THEN v[n] ELSE Append(v[n], t[n + 1])
  <2>1. n + 1 \in 1..Len(t) /\ (n + 1) - 1 = n
    BY <1>0
  <2> QED
    BY <1>2, <2>1 DEF Runs
<1> QED
  BY <1>0, <1>1, <1>2, <1>3, <1>4 DEF t

LEMMA WithoutEmpty == \A d : Without(<<>>, d) = <<>>
<1> SUFFICES ASSUME NEW d PROVE Without(<<>>, d) = <<>>
  OBVIOUS
<1>1. <<>> \in Seq({}) /\ Len(<<>>) = 0
  BY EmptySeq
<1>2. PICK w : Runs(w, <<>>, d) /\ Without(<<>>, d) = w[Len(<<>>)]
  BY <1>1, WithoutRuns
<1> QED
  BY <1>1, <1>2 DEF Runs

LEMMA WithoutSeq ==
  ASSUME NEW B, NEW s \in Seq(B), NEW d
  PROVE  Without(s, d) \in Seq(B)
<1>1. PICK w : Runs(w, s, d) /\ Without(s, d) = w[Len(s)]
  BY WithoutRuns
<1>0. Len(s) \in Nat
  OBVIOUS
<1> DEFINE S == {k \in Nat : k <= Len(s) => w[k] \in Seq(B)}
<1>2. 0 \in S
  BY <1>1, EmptySeq DEF Runs
<1>3. ASSUME NEW k \in Nat, k \in S PROVE k + 1 \in S
  <2>1. CASE k + 1 <= Len(s)
    <3>1. k + 1 \in 1..Len(s) /\ (k + 1) - 1 = k /\ w[k] \in Seq(B)
      BY <1>0, <1>3, <2>1
    <3>2. w[k + 1] = IF k + 1 \in d THEN w[k] ELSE Append(w[k], s[k + 1])
      BY <1>1, <3>1 DEF Runs
    <3>3. s[k + 1] \in B
      BY <3>1, ElementOfSeq
    <3>4. Append(w[k], s[k + 1]) \in Seq(B)
      BY <3>1, <3>3, AppendProperties
    <3>5. w[k + 1] \in Seq(B) /\ k + 1 \in Nat
      BY ONLY <3>1, <3>2, <3>4, k \in Nat
    <3> QED
      BY <3>5
  <2>2. CASE ~(k + 1 <= Len(s))
    BY <2>2
  <2> QED
    BY <2>1, <2>2
<1>4. Nat \subseteq S
  <2> HIDE DEF S
  <2> QED
    BY <1>2, <1>3, Inductive
<1> QED
  BY <1>0, <1>1, <1>4

\* What an 8-bit read keeps is kept wherever elements are dropped.
LEMMA LowsWithout ==
  ASSUME NEW s \in Seq(Unit), NEW d
  PROVE  Lows(Without(s, d)) = Without(Lows(s), d)
<1>0. /\ Len(s) \in Nat /\ Lows(s) \in Seq(Byte) /\ Len(Lows(s)) = Len(s)
      /\ \A k \in 1..Len(s) : s[k] \in Unit /\ Lows(s)[k] = Low(s[k])
  BY LowsSeq
<1>1. PICK w : Runs(w, s, d) /\ Without(s, d) = w[Len(s)]
  BY WithoutRuns
<1>2. PICK v : Runs(v, Lows(s), d) /\ Without(Lows(s), d) = v[Len(s)]
  BY <1>0, WithoutRuns
<1> DEFINE S == {k \in Nat : k <= Len(s) => w[k] \in Seq(Unit) /\ v[k] = Lows(w[k])}
<1>3. 0 \in S
  BY <1>1, <1>2, LowsEmpty, EmptySeq DEF Runs
<1>4. ASSUME NEW k \in Nat, k \in S PROVE k + 1 \in S
  <2>1. CASE k + 1 <= Len(s)
    <3>1. k + 1 \in 1..Len(s) /\ (k + 1) - 1 = k /\ w[k] \in Seq(Unit) /\ v[k] = Lows(w[k])
      BY <1>0, <1>4, <2>1
    <3>2. w[k + 1] = IF k + 1 \in d THEN w[k] ELSE Append(w[k], s[k + 1])
      BY <1>1, <3>1 DEF Runs
    <3>3. v[k + 1] = IF k + 1 \in d THEN v[k] ELSE Append(v[k], Low(s[k + 1]))
      BY <1>0, <1>2, <3>1 DEF Runs
    <3>4. s[k + 1] \in Unit
      BY <1>0, <3>1
    <3>5. Append(w[k], s[k + 1]) \in Seq(Unit)
      BY <3>1, <3>4, AppendProperties
    <3>6. Lows(Append(w[k], s[k + 1])) = Append(Lows(w[k]), Low(s[k + 1]))
      BY <3>1, <3>4, LowsAppend
    <3>7. w[k + 1] \in Seq(Unit) /\ v[k + 1] = Lows(w[k + 1])
      <4>1. CASE k + 1 \in d
        BY ONLY <3>1, <3>2, <3>3, <4>1
      <4>2. CASE k + 1 \notin d
        <5>1. w[k + 1] = Append(w[k], s[k + 1]) /\ v[k + 1] = Append(v[k], Low(s[k + 1]))
          BY ONLY <3>2, <3>3, <4>2
        <5> QED
          BY ONLY <3>1, <3>5, <3>6, <5>1
      <4> QED
        BY ONLY <4>1, <4>2
    <3>8. k + 1 \in Nat
      OBVIOUS
    <3> QED
      BY <3>7, <3>8
  <2>2. CASE ~(k + 1 <= Len(s))
    BY <2>2
  <2> QED
    BY <2>1, <2>2
<1>5. Nat \subseteq S
  <2> HIDE DEF S
  <2> QED
    BY <1>3, <1>4, Inductive
<1> QED
  BY <1>0, <1>1, <1>2, <1>5

\* What is added beyond the dropped positions is kept.
LEMMA WithoutConcat ==
  ASSUME NEW B, NEW s \in Seq(B), NEW bytes \in Seq(B), NEW d, d \subseteq 1..Len(s)
  PROVE  Without(s \o bytes, d) = Without(s, d) \o bytes
<1> DEFINE Keeps(a, z) == d \subseteq 1..Len(a) => Without(a \o z, d) = Without(a, d) \o z
<1> DEFINE S == {n \in Nat : \A z \in Seq(B) : Len(z) = n => \A a \in Seq(B) : Keeps(a, z)}
<1>1. 0 \in S
  <2>1. ASSUME NEW z \in Seq(B), Len(z) = 0, NEW a \in Seq(B) PROVE Without(a \o z, d) = Without(a, d) \o z
    <3>1. z = <<>>
      BY <2>1, EmptySeq
    <3>2. a \o <<>> = a
      BY ConcatEmptySeq
    <3>3. Without(a, d) \o <<>> = Without(a, d)
      BY WithoutSeq, ConcatEmptySeq
    <3> QED
      BY <3>1, <3>2, <3>3
  <2> QED
    BY <2>1
<1>2. ASSUME NEW n \in Nat, n \in S, NEW z \in Seq(B), Len(z) = n + 1, NEW a \in Seq(B),
             d \subseteq 1..Len(a)
      PROVE  Without(a \o z, d) = Without(a, d) \o z
  <2> DEFINE h == Head(z)
  <2> DEFINE y == Tail(z)
  <2> DEFINE c == Append(a, h)
  <2>1. z # <<>>
    BY <1>2, EmptySeq
  <2>2. h \in B /\ y \in Seq(B) /\ Len(y) = n /\ <<h>> \o y = z /\ <<h>> \in Seq(B)
    <3>1. h \in B /\ y \in Seq(B) /\ Len(y) = Len(z) - 1
      BY <2>1, HeadTailProperties
    <3>2. <<h>> \o y = z
      BY <2>1, HeadTailProperties, ConcatSimplifications
    <3> QED
      BY <1>2, <3>1, <3>2
  <2> HIDE DEF h, y
  <2>3. c \in Seq(B) /\ Len(c) = Len(a) + 1 /\ c = a \o <<h>>
    BY <2>2, AppendProperties, AppendIsConcat
  <2>0. Len(a) \in Nat
    OBVIOUS
  <2>4. d \subseteq 1..Len(c) /\ Len(a) + 1 \notin d
    BY <1>2, <2>0, <2>3
  <2>5. Without(c, d) = Append(Without(a, d), h)
    BY <2>2, <2>4, WithoutAppend
  <2> HIDE DEF c
  <2>6. Without(c \o y, d) = Without(c, d) \o y
    BY <1>2, <2>2, <2>3, <2>4
  <2>7. a \o z = c \o y
    <3>1. <<h>> \in Seq(B) /\ y \in Seq(B)
      BY <2>2
    <3>2. (a \o <<h>>) \o y = a \o (<<h>> \o y)
      BY <3>1, ConcatAssociative
    <3> QED
      BY <2>2, <2>3, <3>2
  <2>8. Without(a, d) \in Seq(B)
    BY WithoutSeq
  <2>9. Append(Without(a, d), h) = Without(a, d) \o <<h>>
    BY <2>2, <2>8, AppendIsConcat
  <2>10. (Without(a, d) \o <<h>>) \o y = Without(a, d) \o z
    <3>1. <<h>> \in Seq(B) /\ y \in Seq(B)
      BY <2>2
    <3>2. (Without(a, d) \o <<h>>) \o y = Without(a, d) \o (<<h>> \o y)
      BY <2>8, <3>1, ConcatAssociative
    <3> QED
      BY <2>2, <3>2
  <2> QED
    BY <2>5, <2>6, <2>7, <2>9, <2>10
<1>3. Nat \subseteq S
  <2>1. ASSUME NEW n \in Nat, n \in S PROVE n + 1 \in S
    <3>1. ASSUME NEW z \in Seq(B), Len(z) = n + 1, NEW a \in Seq(B) PROVE Keeps(a, z)
      BY <1>2, <2>1, <3>1
    <3> HIDE DEF Keeps
    <3> QED
      BY <3>1
  <2> HIDE DEF S
  <2> QED
    BY <1>1, <2>1, Inductive
<1> QED
  BY <1>3

-----------------------------------------------------------------------------
(* What is typed and what is printed                                       *)

\* Text is typed into the port only once the page hears that there is one,
\* and a guest runs only then.
ReadyInv ==
  /\ at = Running => emulatorReady
  /\ guest # "off" => at = Running

KeysInv == typedReady = Without(received, echoed)

\* Nothing but typing and the loopback receives, and only typing is typed.
LEMMA Received ==
  ASSUME ReadData \/ ReadIir \/ (\E e \in SUBSET Enables : WriteEnable(e))
         \/ (\E f, d, l \in BOOLEAN : WriteSettings(f, d, l)) \/ UNCHANGED port
  PROVE  UNCHANGED <<received, echoed>>
BY DEF ReadData, ReadIir, WriteEnable, WriteSettings, port, buffer

LEMMA EchoDropped ==
  ASSUME PortInv, NEW b \in Byte, WriteData(b)
  PROVE  Without(received', echoed') = Without(received, echoed)
<1>1. CASE UNCHANGED <<received, echoed>>
  BY <1>1
<1>2. CASE Push(<<b>>, {2}) /\ echoed' = echoed \union {Len(received')}
  <2>1. received \in Seq(Unit)
    BY DEF PortInv, PortTypeOK
  <2>2. received' = Append(received, b)
    BY <1>2, <2>1, AppendIsConcat DEF Push
  <2>3. Len(received') = Len(received) + 1 /\ Len(received) \in Nat
    BY <2>1, <2>2, AppendProperties
  <2>4. Without(received', echoed') = Without(received, echoed')
    <3>1. b \in Unit
      BY ByteIsUnit
    <3> QED
      BY <1>2, <2>1, <2>2, <2>3, <3>1, WithoutAppend
  <2>5. \A k \in 1..Len(received) : k \in echoed <=> k \in echoed'
    BY <1>2, <2>3
  <2> QED
    BY <2>1, <2>4, <2>5, WithoutSame
<1>3. UNCHANGED <<received, echoed>> \/ (Push(<<b>>, {2}) /\ echoed' = echoed \union {Len(received')})
  BY DEF WriteData, port, buffer
<1> QED
  BY <1>1, <1>2, <1>3

LEMMA TypedAdded ==
  ASSUME PortInv, NEW units \in Seq(Unit), DataReceived(units)
  PROVE  Without(received', echoed') = Without(received, echoed) \o units
<1>1. received \in Seq(Unit) /\ echoed \subseteq 1..Len(received)
  <2>1. received \in Seq(Unit) /\ echoed \subseteq DOMAIN received
    BY DEF PortInv, PortTypeOK
  <2> QED
    BY <2>1, LenProperties
<1>2. received' = received \o units /\ echoed' = echoed
  BY DEF DataReceived, Push
<1> QED
  BY <1>1, <1>2, WithoutConcat

LEMMA ReadyKept ==
  ASSUME PageInv, ReadyInv, [Next]_vars
  PROVE  ReadyInv'
<1> USE DEF ReadyInv
<1>0. at \in 0..Running
  BY DEF PageInv, TypeOK, LoaderTypes
<1>1. CASE EmulatorReady
  <2>0. at = 6
    BY <1>1 DEF EmulatorReady, Initializing
  <2>1. at > 0
    BY <2>0
  <2>2. "emulator-ready" \in listeners
    BY <2>1 DEF PageInv, StartInv, Events
  <2> QED
    BY <1>1, <2>2 DEF EmulatorReady
<1>2. ASSUME at' = at, emulatorReady' = emulatorReady, guest # "off" \/ guest' = guest
      PROVE  ReadyInv'
  BY <1>2
<1>3. CASE StartEmulator
  <2>1. at = 0 /\ at' = 1 /\ guest' = guest
    BY <1>0, <1>3 DEF StartEmulator, machine, PageInv, StartInv
  <2> QED
    BY <2>1 DEF Running
<1>4. CASE Loaded
  <2>1. at \in 1..5 /\ guest' = guest /\ (at' = at \/ at' = at + 1)
    BY <1>4, FilesAre DEF Loaded, Asking, machine
  <2> QED
    BY <2>1 DEF Running
<1>5. CASE Compiled
  <2>1. at = 1 /\ guest' = guest /\ at' = at + 1
    BY <1>5 DEF Compiled, machine, PageInv, LoadInv
  <2> QED
    BY <2>1 DEF Running
<1>6. CASE RunModule \/ MountTerminal \/ AwaitBuildId \/ IdAnswered \/ IdRead
  BY <1>2, <1>6 DEF RunModule, MountTerminal, AwaitBuildId, IdAnswered, IdRead, status, loader, machine
<1>7. CASE Retry \/ HideStatus \/ Failing \/ Progress
  BY <1>2, <1>7 DEF Retry, HideStatus, Failing, MountFails, StartFails, CompileFails, Refused,
                    Unavailable, Progress, status, loader, machine
<1>8. CASE (\E w \in Windows : Resize(w)) \/ \E units \in Pastes : Type(units)
  BY <1>2, <1>8 DEF Resize, Type, status, loader, machine
<1>9. CASE Probe \/ DriverStart \/ StartPrinting \/ Interrupt
  BY <1>2, <1>9 DEF Probe, DriverStart, StartPrinting, Interrupt, status, loader, machine
<1>10. CASE UNCHANGED vars
  BY <1>2, <1>10 DEF vars, status, loader, machine
<1> QED
  BY <1>1, <1>3, <1>4, <1>5, <1>6, <1>7, <1>8, <1>9, <1>10
     DEF Next, Module, Answers, Timers

LEMMA KeysKept ==
  ASSUME PageInv, ReadyInv, KeysInv, [Next]_vars
  PROVE  KeysInv'
<1> USE DEF KeysInv
<1>0. PortInv
  BY DEF PageInv
<1>1. CASE UNCHANGED <<typedReady, received, echoed>>
  BY <1>1
<1>2. ASSUME NEW units \in Pastes, Type(units) PROVE KeysInv'
  <2>1. units \in Seq(Unit)
    BY PageAssumption
  <2>2. emulatorReady <=> at = Running
    BY DEF ReadyInv, PageInv, StatusInv
  <2>3. CASE at = Running
    <3>1. DataReceived(units) /\ typedReady' = typedReady \o units
      BY <1>2, <2>2, <2>3 DEF Type
    <3> QED
      BY <1>0, <2>1, <3>1, TypedAdded
  <2>4. CASE at # Running
    BY <1>1, <1>2, <2>2, <2>4 DEF Type, port, buffer
  <2> QED
    BY <2>3, <2>4
<1>3. ASSUME NEW b \in Byte, Transmit(b), UNCHANGED typedReady PROVE KeysInv'
  BY <1>0, <1>3, EchoDropped DEF Transmit
<1>4. ASSUME ReadData \/ ReadIir \/ (\E e \in SUBSET Enables : WriteEnable(e))
             \/ (\E f, d, l \in BOOLEAN : WriteSettings(f, d, l)) \/ UNCHANGED port,
             UNCHANGED typedReady
      PROVE  KeysInv'
  BY <1>1, <1>4, Received
<1>5. fifo \in BOOLEAN /\ Junk \in Byte /\ Prints \subseteq Byte
  BY PageAssumption, JunkIsByte DEF PageInv, PortInv, PortTypeOK
<1>6. CASE Probe
  BY <1>3, <1>4, <1>5, <1>6 DEF Probe
<1>7. CASE DriverStart
  BY <1>4, <1>7 DEF DriverStart, Enables
<1>8. CASE StartPrinting
  BY <1>4, <1>8 DEF StartPrinting, Enables
<1>9. CASE Interrupt
  BY <1>3, <1>4, <1>5, <1>9 DEF Interrupt, Enables
<1>10. CASE Module \/ Answers
  BY <1>4, <1>10 DEF Module, RunModule, MountTerminal, AwaitBuildId, StartEmulator,
                     Answers, IdAnswered, IdRead, Loaded, Compiled
<1>11. CASE Timers \/ Progress
  BY <1>4, <1>11 DEF Timers, Retry, EmulatorReady, HideStatus, Progress
<1>12. CASE Failing
  BY <1>4, <1>12 DEF Failing, MountFails, StartFails, CompileFails, Refused, Unavailable
<1>13. CASE \E w \in Windows : Resize(w)
  BY <1>4, <1>13 DEF Resize
<1>14. CASE UNCHANGED vars
  BY <1>4, <1>14 DEF vars
<1> QED
  BY <1>2, <1>6, <1>7, <1>8, <1>9, <1>10, <1>11, <1>12, <1>13, <1>14 DEF Next

\* One more byte is printed, and shown unless it is no text.
LEMMA PrintedShown ==
  ASSUME PageInv, ReadyInv, OutputShown, guest # "off", NEW b \in Byte, Transmit(b)
  PROVE  OutputShown'
<1>1. CASE UNCHANGED <<sent, shown>>
  BY <1>1 DEF OutputShown
<1>2. CASE sent' = Append(sent, b) /\ shown' = OnOutput(b)
  <2> DEFINE d == {k \in DOMAIN sent : sent[k] = Junk}
  <2> DEFINE e == {k \in DOMAIN sent' : sent'[k] = Junk}
  <2>1. sent \in Seq(Byte)
    BY DEF PageInv, TypeOK, MachineTypes
  <2>2. "serial0-output-byte" \in listeners
    <3>1. at > 0
      BY DEF ReadyInv, Running
    <3> QED
      BY <3>1 DEF PageInv, StartInv, Events
  <2>3. shown' = IF b = Junk THEN shown ELSE Append(shown, b)
    BY <1>2, <2>2 DEF OnOutput
  <2>4. /\ Len(sent) \in Nat /\ DOMAIN sent = 1..Len(sent)
        /\ Len(sent') = Len(sent) + 1 /\ DOMAIN sent' = 1..Len(sent')
        /\ \A k \in 1..Len(sent) : sent'[k] = sent[k]
        /\ sent'[Len(sent) + 1] = b
    BY <1>2, <2>1, AppendProperties, LenProperties
  <2>5. \A k \in 1..Len(sent) : k \in d <=> k \in e
    BY <2>4
  <2>6. Len(sent) + 1 \in e <=> b = Junk
    BY <2>4
  <2> HIDE DEF d, e
  <2>7. Without(sent', e) = IF Len(sent) + 1 \in e THEN Without(sent, e) ELSE Append(Without(sent, e), b)
    BY <1>2, <2>1, WithoutAppend
  <2>8. Without(sent, e) = Without(sent, d)
    BY <2>1, <2>5, WithoutSame
  <2>9. shown = Without(sent, d)
    BY DEF OutputShown, d
  <2>10. shown' = Without(sent', e)
    BY <2>3, <2>6, <2>7, <2>8, <2>9
  <2> QED
    BY <2>10 DEF OutputShown, e
<1> QED
  BY <1>1, <1>2 DEF Transmit

LEMMA OutputKept ==
  ASSUME PageInv, ReadyInv, OutputShown, [Next]_vars
  PROVE  OutputShown'
<1>1. CASE UNCHANGED <<sent, shown>>
  BY <1>1 DEF OutputShown
<1>2. CASE Probe
  BY <1>1, <1>2, PrintedShown, JunkIsByte DEF Probe
<1>3. CASE Interrupt
  BY <1>1, <1>3, PrintedShown, PageAssumption DEF Interrupt
<1>4. UNCHANGED <<sent, shown>> \/ Probe \/ Interrupt
  <2>1. CASE Module \/ Failing
    BY <2>1 DEF Module, RunModule, MountTerminal, AwaitBuildId, StartEmulator,
                Failing, MountFails, StartFails, CompileFails, Refused, Unavailable, machine
  <2>2. CASE Answers \/ Progress \/ Timers
    BY <2>2 DEF Answers, IdAnswered, IdRead, Loaded, Compiled, Progress,
                Timers, Retry, EmulatorReady, HideStatus, machine
  <2>3. CASE (\E w \in Windows : Resize(w)) \/ \E units \in Pastes : Type(units)
    BY <2>3 DEF Resize, Type, machine
  <2>4. CASE DriverStart \/ StartPrinting
    BY <2>4 DEF DriverStart, StartPrinting, machine
  <2>5. CASE UNCHANGED vars
    BY <2>5 DEF vars, machine
  <2> QED
    BY <2>1, <2>2, <2>3, <2>4, <2>5 DEF Next
<1> QED
  BY <1>1, <1>2, <1>3, <1>4

LEMMA TextInit == Init => ReadyInv /\ KeysInv /\ OutputShown
<1> SUFFICES ASSUME Init PROVE ReadyInv /\ KeysInv /\ OutputShown
  OBVIOUS
<1>1. ReadyInv
  <2>1. at = 0 /\ guest = "off"
    BY DEF Init
  <2> QED
    BY <2>1 DEF ReadyInv, Running
<1>2. KeysInv
  BY WithoutEmpty DEF Init, PortInit, KeysInv
<1>3. OutputShown
  BY WithoutEmpty DEF Init, OutputShown
<1> QED
  BY <1>1, <1>2, <1>3

LEMMA TextNext ==
  ASSUME PageInv, ReadyInv, KeysInv, OutputShown, [Next]_vars
  PROVE  (PageInv /\ ReadyInv /\ KeysInv /\ OutputShown)'
BY PageNext, ReadyKept, KeysKept, OutputKept

\* For any typed texts, and whatever the guest does with its port: it reads the
\* low eight bits of every code unit typed since the machine was ready, once and
\* in order, and what it sent itself is not mixed up with them.
THEOREM TypedArrives == Spec => []KeysArrive
<1>1. Init => PageInv /\ ReadyInv /\ KeysInv /\ OutputShown
  BY PageInit, TextInit
<1>2. PageInv /\ ReadyInv /\ KeysInv /\ OutputShown /\ [Next]_vars
      => (PageInv /\ ReadyInv /\ KeysInv /\ OutputShown)'
  BY TextNext
<1>3. PageInv /\ KeysInv => KeysArrive
  <2> SUFFICES ASSUME PageInv, KeysInv PROVE KeysArrive
    OBVIOUS
  <2>1. received \in Seq(Unit) /\ Lows(received) = taken \o Lows(input)
    BY DEF PageInv, PortInv, PortTypeOK, NothingLost
  <2> QED
    BY <2>1, LowsWithout DEF KeysInv, KeysArrive
<1> QED
  BY <1>1, <1>2, <1>3, PTL DEF Spec

\* Text of units below 256 is read as it was typed.
PlainArrives ==
  typedReady \in Seq(Byte) => typedReady = Without(taken \o Lows(input), echoed)

\* As long as every code unit typed is below 256, the text reaches the guest as
\* it is: none of it is lost, repeated, moved or changed by the 8-bit register.
THEOREM PlainTextArrives == Spec => []PlainArrives
<1>1. ASSUME NEW s \in Seq(Byte) PROVE Lows(s) = s
  <2>1. s \in Seq(Unit)
    <3>1. s \in [1..Len(s) -> Unit] /\ Len(s) \in Nat
      BY ByteIsUnit, ElementOfSeq, LenProperties
    <3> QED
      BY <3>1, SeqDef
  <2>2. /\ Lows(s) \in Seq(Byte) /\ Len(Lows(s)) = Len(s)
        /\ \A k \in 1..Len(s) : Lows(s)[k] = Low(s[k]) /\ s[k] \in Byte
    BY <2>1, LowsSeq, ElementOfSeq
  <2>3. \A b \in Byte : Low(b) = b
    BY DEF Byte, Low
  <2> QED
    BY <2>2, <2>3, SeqEqual
<1>2. KeysArrive => PlainArrives
  BY <1>1 DEF KeysArrive, PlainArrives
<1> QED
  BY <1>2, TypedArrives, PTL

\* For every length of the guest's output: the terminal has shown it from the
\* first byte on, in order, without the bytes that are no text.
THEOREM PrintedIsShown == Spec => []OutputShown
<1>1. Init => PageInv /\ ReadyInv /\ KeysInv /\ OutputShown
  BY PageInit, TextInit
<1>2. PageInv /\ ReadyInv /\ KeysInv /\ OutputShown /\ [Next]_vars
      => (PageInv /\ ReadyInv /\ KeysInv /\ OutputShown)'
  BY TextNext
<1> QED
  BY <1>1, <1>2, PTL DEF Spec
=============================================================================
