----------------------------- MODULE SerialPort -----------------------------
(***************************************************************************)
(* The first serial port of the emulated machine, as the site's page and   *)
(* the guest's driver see it (site/public/v86/libv86.mjs, function Hc): the *)
(* page pushes typed text at one end, the guest reads and writes           *)
(* registers at the other, and one interrupt line tells the guest that     *)
(* there is something to do.  JavaScript runs one register access at a     *)
(* time, so each is one action.                                            *)
(*                                                                         *)
(* An action leaves to its caller what is not the port's.                  *)
(***************************************************************************)
EXTENDS Naturals, Sequences

VARIABLES
  input,     \* what was received and the guest has not read
  dataReady, \* bit 0 of lsr
  ints,      \* pending interrupts, by number: 12 (a byte, FIFO on), 4 (a byte), 2 (may write)
  ier,       \* the enabled ones: "rx", "thr"
  iir,       \* what the guest is told: an interrupt's number, or 1
  fifo,      \* bit 0 of fifo_control
  dlab,      \* bit 7 of line_control: the data register is the baud rate
  loop,      \* bit 4 of modem_control: what is written is received
  received,  \* history: all that was received
  echoed,    \* history: which of it the guest sent itself
  taken      \* history: every byte the guest has read

interrupts == <<ints, ier, iir>>
settings == <<fifo, dlab, loop>>
buffer == <<input, dataReady, received, echoed, taken>>
port == <<buffer, interrupts, settings>>

-----------------------------------------------------------------------------
Enables == {"rx", "thr"}
None == 1

\* What the page sends are the code units of a string (charCodeAt), and the port
\* keeps them as they are; what the guest reads and writes are bytes.
Unit == 0..65535
Byte == 0..255

\* The guest's 8-bit read keeps the low eight bits: the euro sign, 0x20AC,
\* arrives as 0xAC, and nothing is encoded as UTF-8.
Low(u) == u % 256
Lows(s) == [k \in DOMAIN s |-> Low(s[k])]

PortTypeOK ==
  /\ input \in Seq(Unit) /\ received \in Seq(Unit) /\ taken \in Seq(Byte)
  /\ echoed \in SUBSET DOMAIN received
  /\ dataReady \in BOOLEAN
  /\ ints \in SUBSET {2, 4, 12}
  /\ ier \in SUBSET Enables
  /\ iir \in {None, 2, 4, 12}
  /\ fifo \in BOOLEAN /\ dlab \in BOOLEAN /\ loop \in BOOLEAN

\* CheckInterrupt: 12 before 4 before 2, each only when enabled.
Enabled(i, e) == {b \in i : (IF b = 2 THEN "thr" ELSE "rx") \in e}
CheckInterrupt(i, e) ==
  IF Enabled(i, e) = {} THEN None
  ELSE CHOOSE b \in Enabled(i, e) : \A c \in Enabled(i, e) : c <= b

\* Fault: a byte that arrives with the FIFO on does not raise the line.
FaultIrq == iir \notin {None, 12}

\* The line to the interrupt controller is up exactly when iir says something.
Irq == iir # None

SetInterrupts(i, e) ==
  /\ ints' = i
  /\ ier' = e
  /\ iir' = CheckInterrupt(i, e)

PortInit ==
  /\ input = <<>> /\ received = <<>> /\ echoed = {} /\ taken = <<>>
  /\ dataReady = FALSE
  /\ ints = {2} /\ ier = {} /\ iir = None
  /\ fifo = FALSE /\ dlab = FALSE /\ loop = FALSE

-----------------------------------------------------------------------------
\* Units arrive one after the other; `more` are pending interrupts besides.
Push(units, more) ==
  /\ input' = input \o units
  /\ received' = received \o units
  /\ dataReady' = TRUE
  /\ SetInterrupts(ints \union more \union {IF fifo THEN 12 ELSE 4}, ier)
  /\ UNCHANGED <<taken, settings>>

\* Fault: only the first of several units is passed on.
FaultDataReceived(units) == Push(<<Head(units)>>, {}) /\ UNCHANGED echoed

\* data_received, for each code unit of what the page sent.
DataReceived(units) == Push(units, {}) /\ UNCHANGED echoed

\* Fault: the first byte read takes the interrupt away with it.
FaultReadData ==
  /\ ~dlab /\ input # <<>>
  /\ taken' = Append(taken, Low(Head(input)))
  /\ input' = Tail(input)
  /\ dataReady' = (Len(input) > 1)
  /\ SetInterrupts(ints \ {12, 4}, ier)
  /\ UNCHANGED <<received, echoed, settings>>

\* The guest reads the data register.
ReadData ==
  \/ /\ ~dlab /\ Len(input) > 1
     /\ taken' = Append(taken, Low(Head(input)))
     /\ input' = Tail(input)
     /\ UNCHANGED <<received, echoed, dataReady, interrupts, settings>>
  \/ /\ ~dlab /\ Len(input) <= 1
     /\ taken' = taken \o Lows(input)
     /\ input' = <<>>
     /\ dataReady' = FALSE
     /\ SetInterrupts(ints \ {12, 4}, ier)
     /\ UNCHANGED <<received, echoed, settings>>
  \/ dlab /\ UNCHANGED port

\* write_data: what is written is set aside as baud rate, received again, or
\* sent out; the caller sends it when Sends holds.
Sends == ~dlab /\ ~loop
WriteData(b) ==
  \/ dlab /\ UNCHANGED port
  \/ /\ ~dlab /\ loop
     /\ Push(<<b>>, {2})
     /\ echoed' = echoed \union {Len(received')}
  \/ /\ Sends
     /\ SetInterrupts(ints \union {2}, ier)
     /\ UNCHANGED <<buffer, settings>>

\* The guest writes the interrupt enable register.
WriteEnable(e) ==
  \/ /\ ~dlab
     /\ SetInterrupts(ints \union (IF "thr" \in e \ ier THEN {2} ELSE {}), e)
     /\ UNCHANGED <<buffer, settings>>
  \/ dlab /\ UNCHANGED port

\* The guest reads iir; that it may write is told once.
ReadIir ==
  /\ SetInterrupts(IF iir = 2 THEN ints \ {2} ELSE ints, ier)
  /\ UNCHANGED <<buffer, settings>>

\* The guest writes fifo_control, line_control or modem_control.
WriteSettings(f, d, l) ==
  /\ fifo' = f /\ dlab' = d /\ loop' = l
  /\ UNCHANGED <<buffer, interrupts>>

-----------------------------------------------------------------------------
\* A port with a page that types anything and a guest that does anything.
PortNext ==
  \/ \E units \in Seq(Unit) \ {<<>>} : DataReceived(units)
  \/ ReadData \/ ReadIir
  \/ \E b \in Byte : WriteData(b)
  \/ \E e \in SUBSET Enables : WriteEnable(e)
  \/ \E f, d, l \in BOOLEAN : WriteSettings(f, d, l)

PortSpec == PortInit /\ [][PortNext]_port

\* A receive interrupt is signalled exactly while a byte waits that the guest
\* wants to hear of: whatever the order of typing, enabling, switching the
\* FIFO on, reading and writing, no byte is forgotten in the queue
\* (data_received, CheckInterrupt, ClearInterrupt).
DataRaisesIrq == (input # <<>> /\ "rx" \in ier) <=> iir \in {4, 12}

\* The low eight bits of what was received are what the guest has read and will
\* read of what waits, in order: register accesses neither lose, repeat nor
\* reorder anything.
NothingLost == Lows(received) = taken \o Lows(input)
=============================================================================
