------------------------------ MODULE SitePage ------------------------------
(***************************************************************************)
(* The site's page (site/src/shell.js): it opens a terminal, asks for the  *)
(* build id, imports the emulator, and wires emulator, boot status and     *)
(* terminal together; the emulator (site/public/v86/libv86.mjs) fetches    *)
(* its files one after the other and then runs a guest.                    *)
(*                                                                         *)
(* The browser runs one task at a time: an action is what happens without  *)
(* an await, a timer, an answer or an event in between.  The guest runs in *)
(* tasks of its own; its driver is known only by the registers it uses.    *)
(***************************************************************************)
EXTENDS SerialPort, TerminalMetrics

CONSTANTS
  Windows,     \* the sizes the window can have
  Pastes,      \* what one onData event may carry: strings, as their code units
  Prints,      \* what the guest's driver may print
  MaxTyped,    \* bound on onData events
  MaxSent,     \* bound on bytes the guest prints
  MaxProbes,   \* bound on register accesses before the guest's driver is set up
  MaxResizes,  \* bound on changes of the window
  MaxFaults    \* bound on failed requests

ASSUME PageAssumption ==
  /\ Windows \subseteq Window /\ Windows # {}
  /\ Pastes \subseteq Seq(Unit) /\ <<>> \notin Pastes
  /\ Prints \subseteq Byte
  /\ {MaxTyped, MaxSent, MaxProbes, MaxResizes, MaxFaults} \subseteq Nat

VARIABLES
  pc,        \* how far the module's body is
  showing,   \* which elements under the mount point are displayed
  message,   \* boot_message
  progress,  \* boot_progress, in eighths
  timer,     \* finishStatus's timer runs
  emulatorReady,
  win,       \* the window
  font,      \* the terminal's font size
  size,      \* the grid on the kernel command line
  idFetch,   \* "asked", "body" or "settled"
  buildId,   \* "dev" or "id"
  urlId,     \* the id in the emulator's urls
  listeners, \* the emulator's events the page listens to
  at,        \* the file being fetched, an index of Files; see below
  fetching,  \* "asked", "waiting" before a retry, "compiling" or "stalled"
  fallback,  \* the wasm being fetched is the fallback
  stored,    \* the files handed to the emulator
  guest,     \* "off", "booting", "clear", "enable" or "up"
  isr,       \* the guest's interrupt handler: "idle", "iir", "serve"
  typedReady,\* history: code units typed since the emulator was ready
  sent,      \* history: bytes the guest has printed
  shown,     \* what the terminal has printed of them
  counts     \* history: events, probes, resizes and faults so far

body == <<pc, idFetch, buildId, urlId, listeners>>
status == <<message, progress, timer, emulatorReady>>
display == <<showing, win, font, size>>
loader == <<at, fetching, fallback, stored>>
machine == <<guest, isr, sent, shown>>
vars == <<body, status, display, loader, machine, typedReady, counts, port>>

-----------------------------------------------------------------------------
\* What the emulator needs, in the order it asks for it; after the last come
\* the task that initializes it and the running machine.
Files == <<"wasm", "bios", "vga_bios", "bzimage", "initrd">>
Initializing == 6
Running == 7
Full == 8

Events == {"serial0-output-byte", "download-progress", "download-error", "emulator-ready"}

Failures == {"failed to load Alpenglow", "failed:"}
Messages == Failures \union
  {"loading alpenglow shell", "loading Alpenglow", "booting alpenglow shell"}

\* The elements App renders inside screen_container, and the one mountTerminal adds.
Elements == {"boot_status", "terminal", "command_form", "xterm_host"}

term == "xterm_host" \in showing
hidden == "boot_status" \notin showing

Counted == {"typed", "probes", "resizes", "faults"}
Count(what) == counts' = [counts EXCEPT ![what] = @ + 1]
SetStatus(text, percent) == message' = text /\ progress' = percent

\* applyTerminalScale, which does nothing before there is a terminal.
ApplyTerminalScale(window) == font' = IF term THEN FontSize(window) ELSE font

-----------------------------------------------------------------------------
\* The page as App renders it, with the shell's module about to run.
Init ==
  /\ pc = "loaded"
  /\ showing = {"boot_status"}
  /\ message = "loading alpenglow shell" /\ progress = 0 /\ timer = FALSE
  /\ emulatorReady = FALSE
  /\ win \in Windows /\ font = 0 /\ size = [cols |-> 0, rows |-> 0]
  /\ idFetch = "asked" /\ buildId = "dev" /\ urlId = "none"
  /\ listeners = {}
  /\ at = 0 /\ fetching = "asked" /\ fallback = FALSE /\ stored = <<>>
  /\ guest = "off" /\ isr = "idle"
  /\ typedReady = <<>> /\ sent = <<>> /\ shown = <<>>
  /\ counts = [what \in Counted |-> 0]
  /\ PortInit

(* The body of the module                                                  *)

\* Up to the await in mountTerminal.
RunModule ==
  /\ pc = "loaded"
  /\ SetStatus("loading Alpenglow", 0)
  /\ pc' = "mounting"
  /\ UNCHANGED <<idFetch, buildId, urlId, listeners, timer, emulatorReady, display,
                 loader, machine, typedReady, counts, port>>

\* The rest of mountTerminal, and the command line, which is computed before
\* any other task can run.
MountTerminal ==
  /\ pc = "mounting"
  /\ showing' = showing \union {"xterm_host"}
  /\ font' = FontSize(win)
  /\ size' = Grid(win)
  /\ pc' = "awaiting id"
  /\ UNCHANGED <<idFetch, buildId, urlId, listeners, status, win, loader, machine,
                 typedReady, counts, port>>

\* init() rejects outside of the try block: nothing is shown.
MountFails ==
  /\ pc = "mounting" /\ counts.faults < MaxFaults
  /\ Count("faults")
  /\ pc' = "rejected"
  /\ UNCHANGED <<idFetch, buildId, urlId, listeners, status, display, loader, machine,
                 typedReady, port>>

\* Fault: the import does not wait for the build id.
FaultAwaitBuildId ==
  /\ pc = "awaiting id"
  /\ pc' = "importing"
  /\ UNCHANGED <<idFetch, buildId, urlId, listeners, status, display, loader, machine,
                 typedReady, counts, port>>

AwaitBuildId ==
  /\ pc = "awaiting id" /\ idFetch = "settled"
  /\ pc' = "importing"
  /\ UNCHANGED <<idFetch, buildId, urlId, listeners, status, display, loader, machine,
                 typedReady, counts, port>>

\* Fault: the page does not listen to download errors.
FaultStartEmulator ==
  /\ pc = "importing"
  /\ urlId' = buildId
  /\ listeners' = Events \ {"download-error"}
  /\ at' = 1
  /\ pc' = "running"
  /\ UNCHANGED <<idFetch, buildId, status, display, fetching, fallback, stored, machine,
                 typedReady, counts, port>>

\* The module arrived: the constructor asks for the wasm, and the listeners
\* are added before any answer can come.
StartEmulator ==
  /\ pc = "importing"
  /\ urlId' = buildId
  /\ listeners' = Events
  /\ at' = 1
  /\ pc' = "running"
  /\ UNCHANGED <<idFetch, buildId, status, display, fetching, fallback, stored, machine,
                 typedReady, counts, port>>

\* The import or the constructor fails: the catch block.
StartFails ==
  /\ pc = "importing" /\ counts.faults < MaxFaults
  /\ Count("faults")
  /\ SetStatus("failed:", progress)
  /\ pc' = "failed"
  /\ UNCHANGED <<idFetch, buildId, urlId, listeners, timer, emulatorReady, display, loader,
                 machine, typedReady, port>>

(* The build id, from the start of the module on                           *)

IdAnswered ==
  /\ idFetch = "asked" /\ pc # "loaded"
  /\ \/ idFetch' = "body" /\ UNCHANGED counts
     \/ idFetch' = "settled" /\ counts.faults < MaxFaults /\ Count("faults")
  /\ UNCHANGED <<pc, buildId, urlId, listeners, status, display, loader, machine,
                 typedReady, port>>

\* The body may be empty, or fail to arrive: the id stays "dev".
IdRead ==
  /\ idFetch = "body"
  /\ idFetch' = "settled"
  /\ buildId' \in {"id", "dev"}
  /\ UNCHANGED <<pc, urlId, listeners, status, display, loader, machine, typedReady,
                 counts, port>>

(* The emulator's loader                                                   *)

Asking == at \in DOMAIN Files /\ fetching = "asked"

\* The download-progress listener; the fallback wasm reports no progress.
OnProgress(half) ==
  IF "download-progress" \notin listeners \/ fallback THEN UNCHANGED <<message, progress>>
  ELSE \/ SetStatus("loading Alpenglow", IF at = 1 THEN 4 * half ELSE 2 * (at - 2) + half)
       \/ SetStatus("loading Alpenglow", progress)  \* the length is not known

\* What is reported of an answer that is not 200: for the wasm it is progress.
OnBadAnswer ==
  IF at = 1 THEN OnProgress(2)
  ELSE IF "download-error" \in listeners THEN SetStatus("failed to load Alpenglow", progress)
  ELSE UNCHANGED <<message, progress>>

\* A part of a file has arrived.
Progress ==
  /\ Asking
  /\ OnProgress(1)
  /\ UNCHANGED <<body, timer, emulatorReady, display, loader, machine, typedReady, counts, port>>

\* Fault: the next file is asked for before this one is kept.
FaultLoaded ==
  /\ Asking
  /\ OnProgress(2)
  /\ IF at = 1 THEN fetching' = "compiling" /\ UNCHANGED <<at, stored>>
     ELSE /\ at' = at + 1
          /\ stored' = IF at = 2 THEN stored ELSE Append(stored, Files[at - 1])
          /\ UNCHANGED fetching
  /\ UNCHANGED <<fallback, body, timer, emulatorReady, display, machine, typedReady, counts, port>>

\* The whole file is there: the wasm has to be compiled, the others are kept.
Loaded ==
  /\ Asking
  /\ OnProgress(2)
  /\ \/ at = 1 /\ fetching' = "compiling" /\ UNCHANGED <<at, stored>>
     \/ at > 1 /\ stored' = Append(stored, Files[at]) /\ at' = at + 1 /\ UNCHANGED fetching
  /\ UNCHANGED <<fallback, body, timer, emulatorReady, display, machine, typedReady, counts, port>>

\* continue_init asks for the next file.
Compiled ==
  /\ fetching = "compiling"
  /\ stored' = Append(stored, Files[at])
  /\ at' = at + 1
  /\ fetching' = "asked"
  /\ fallback' = FALSE
  /\ UNCHANGED <<body, status, display, machine, typedReady, counts, port>>

\* Once the fallback is tried; when that does not compile either, nothing is.
CompileFails ==
  /\ fetching = "compiling" /\ counts.faults < MaxFaults
  /\ Count("faults")
  /\ IF fallback THEN fetching' = "stalled" /\ UNCHANGED fallback
                 ELSE fetching' = "asked" /\ fallback' = TRUE
  /\ UNCHANGED <<at, stored, body, status, display, machine, typedReady, port>>

\* 4xx: never asked again.
Refused ==
  /\ Asking /\ counts.faults < MaxFaults
  /\ Count("faults")
  /\ OnBadAnswer
  /\ fetching' = "stalled"
  /\ UNCHANGED <<at, fallback, stored, body, timer, emulatorReady, display, machine, typedReady, port>>

\* 5xx is reported, a broken connection is not; both are retried later.
Unavailable ==
  /\ Asking /\ counts.faults < MaxFaults
  /\ Count("faults")
  /\ OnBadAnswer \/ UNCHANGED <<message, progress>>
  /\ fetching' = "waiting"
  /\ UNCHANGED <<at, fallback, stored, body, timer, emulatorReady, display, machine, typedReady, port>>

\* Fault: the retry is never made.
FaultRetry == FALSE /\ UNCHANGED vars

Retry ==
  /\ fetching = "waiting"
  /\ fetching' = "asked"
  /\ UNCHANGED <<at, fallback, stored, body, status, display, machine, typedReady, counts, port>>

\* The machine is set up, its serial port registers, the page hears that it
\* is ready (finishStatus), and it starts to run.
EmulatorReady ==
  /\ at = Initializing
  /\ at' = Running
  /\ guest' = "booting"
  /\ IF "emulator-ready" \in listeners
     THEN /\ emulatorReady' = TRUE
          /\ SetStatus("booting alpenglow shell", Full)
          /\ timer' = TRUE
          /\ ApplyTerminalScale(win)
     ELSE UNCHANGED <<status, font>>
  /\ UNCHANGED <<fetching, fallback, stored, body, showing, win, size, isr, sent, shown,
                 typedReady, counts, port>>

\* 700 ms later.
HideStatus ==
  /\ timer
  /\ timer' = FALSE
  /\ showing' = showing \ {"boot_status"}
  /\ ApplyTerminalScale(win)
  /\ UNCHANGED <<message, progress, emulatorReady, win, size, body, loader, machine,
                 typedReady, counts, port>>

(* The user                                                                *)

\* The guest keeps the size of its command line.
Resize(w) ==
  /\ w # win /\ counts.resizes < MaxResizes
  /\ Count("resizes")
  /\ win' = w
  /\ ApplyTerminalScale(w)
  /\ UNCHANGED <<showing, size, body, status, loader, machine, typedReady, port>>

\* sendSerial passes the string on to serial0_send, which sends its code units:
\* without an emulator, or before its port has registered, nobody hears them.
Type(units) ==
  /\ term /\ counts.typed < MaxTyped
  /\ Count("typed")
  /\ IF at = Running THEN DataReceived(units) ELSE UNCHANGED port
  /\ typedReady' = IF emulatorReady THEN typedReady \o units ELSE typedReady
  /\ UNCHANGED <<body, status, display, loader, machine>>

(* The guest                                                               *)

\* 0xff, which the page does not print.
Junk == 255

\* Fault: what is printed before the status is hidden is not shown.
FaultOnOutput(b) == IF b = Junk \/ ~hidden THEN shown ELSE Append(shown, b)

\* The serial0-output-byte listener.
OnOutput(b) ==
  IF b = Junk \/ "serial0-output-byte" \notin listeners THEN shown ELSE Append(shown, b)

Transmit(b) ==
  /\ Len(sent) < MaxSent
  /\ WriteData(b)
  /\ IF Sends THEN sent' = Append(sent, b) /\ shown' = OnOutput(b)
              ELSE UNCHANGED <<sent, shown>>

\* Before its driver is set up the guest tries the port out: it looks at its
\* registers, at the loopback and at the baud rate, and prints.
Probe ==
  /\ guest = "booting" /\ counts.probes < MaxProbes
  /\ Count("probes")
  /\ \/ ReadData /\ UNCHANGED <<sent, shown>>
     \/ ReadIir /\ UNCHANGED <<sent, shown>>
     \/ \E e \in SUBSET Enables : WriteEnable(e) /\ UNCHANGED <<sent, shown>>
     \/ \E d, l \in BOOLEAN : WriteSettings(fifo, d, l) /\ UNCHANGED <<sent, shown>>
     \/ \E b \in {Junk} : Transmit(b)
  /\ UNCHANGED <<guest, isr, body, status, display, loader, typedReady>>

\* The driver's start: FIFO on, what is there read once, interrupts on.
DriverStart ==
  /\ \/ guest = "booting" /\ guest' = "clear" /\ WriteSettings(TRUE, FALSE, FALSE)
     \/ guest = "clear" /\ guest' = "enable" /\ ReadData
     \/ guest = "enable" /\ guest' = "up" /\ WriteEnable({"rx"})
  /\ UNCHANGED <<isr, sent, shown, body, status, display, loader, typedReady, counts>>

\* The driver has something to print and asks to be told when it can.
StartPrinting ==
  /\ guest = "up" /\ isr = "idle" /\ Len(sent) < MaxSent /\ "thr" \notin ier
  /\ WriteEnable({"rx", "thr"})
  /\ UNCHANGED <<machine, body, status, display, loader, typedReady, counts>>

\* The interrupt handler asks what there is until there is nothing, reads
\* while there is data, prints when it may and stops when it has nothing left.
Interrupt ==
  /\ guest = "up"
  /\ \/ isr = "idle" /\ Irq /\ isr' = "iir" /\ UNCHANGED <<sent, shown, port>>
     \/ isr = "iir" /\ isr' = (IF Irq THEN "serve" ELSE "idle") /\ ReadIir /\ UNCHANGED <<sent, shown>>
     \/ isr = "serve" /\ dataReady /\ ReadData /\ UNCHANGED <<isr, sent, shown>>
     \/ isr = "serve" /\ ~dataReady /\ "thr" \notin ier /\ isr' = "iir" /\ UNCHANGED <<sent, shown, port>>
     \/ isr = "serve" /\ ~dataReady /\ "thr" \in ier /\ isr' = "iir" /\ (\E b \in Prints : Transmit(b))
     \/ isr = "serve" /\ ~dataReady /\ "thr" \in ier /\ isr' = "iir" /\ WriteEnable({"rx"}) /\ UNCHANGED <<sent, shown>>
  /\ UNCHANGED <<guest, body, status, display, loader, typedReady, counts>>

-----------------------------------------------------------------------------
Module == RunModule \/ MountTerminal \/ AwaitBuildId \/ StartEmulator
Answers == IdAnswered \/ IdRead \/ Loaded \/ Compiled
Timers == Retry \/ EmulatorReady \/ HideStatus
Failing == MountFails \/ StartFails \/ CompileFails \/ Refused \/ Unavailable

Next ==
  \/ Module \/ Answers \/ Timers \/ Failing \/ Progress
  \/ \E w \in Windows : Resize(w)
  \/ \E units \in Pastes : Type(units)
  \/ Probe \/ DriverStart \/ StartPrinting \/ Interrupt

Spec == Init /\ [][Next]_vars

\* The browser runs its tasks, requests are answered some time, timers go
\* off, and the running machine's driver goes on.  Nobody has to type or to
\* resize, and no request has to fail.
FairSpec ==
  /\ Spec
  /\ WF_vars(Module) /\ WF_vars(IdAnswered \/ IdRead) /\ WF_vars(Loaded \/ Compiled)
  /\ WF_vars(Retry) /\ WF_vars(EmulatorReady) /\ WF_vars(HideStatus)
  /\ WF_vars(DriverStart) /\ WF_vars(Interrupt)

-----------------------------------------------------------------------------
BodyTypes ==
  /\ pc \in {"loaded", "mounting", "awaiting id", "importing", "running", "failed", "rejected"}
  /\ idFetch \in {"asked", "body", "settled"}
  /\ buildId \in {"dev", "id"} /\ urlId \in {"none", "dev", "id"}
  /\ listeners \subseteq Events

StatusTypes ==
  /\ message \in Messages /\ progress \in 0..Full
  /\ timer \in BOOLEAN /\ emulatorReady \in BOOLEAN

DisplayTypes ==
  /\ showing \subseteq Elements
  /\ win \in Windows /\ font \in 0..26 /\ size \in [cols : Nat, rows : Nat]

LoaderTypes ==
  /\ at \in 0..Running /\ fetching \in {"asked", "waiting", "compiling", "stalled"}
  /\ fallback \in BOOLEAN
  /\ stored \in Seq({Files[i] : i \in DOMAIN Files})

MachineTypes ==
  /\ guest \in {"off", "booting", "clear", "enable", "up"} /\ isr \in {"idle", "iir", "serve"}
  /\ sent \in Seq(Byte) /\ shown \in Seq(Byte)

TypeOK ==
  /\ PortTypeOK /\ BodyTypes /\ StatusTypes /\ DisplayTypes /\ LoaderTypes /\ MachineTypes
  /\ typedReady \in Seq(Unit) /\ counts \in [Counted -> Nat]

\* The boot status disappears only over a machine that has been given every
\* file, in the order it needs them, whatever failed and was retried on the
\* way (finishStatus, continue_init).
HiddenMeansBooting == hidden \/ timer => emulatorReady /\ stored = Files

\* A boot that is stuck on one of the machine's own files, or whose emulator
\* could not be started, says that it failed, and a machine that runs never does
\* (download-error, the catch block).
StuckIsSaid ==
  /\ pc = "failed" \/ (fetching = "stalled" /\ at > 1) => message \in Failures
  /\ emulatorReady => message \notin Failures

\* Every url the emulator is given carries the id that this visit was
\* answered, never the default because the answer was late (asset, buildIdPromise).
UrlsCarryTheId == at > 0 => idFetch = "settled" /\ urlId = buildId

\* Whatever the window is and however it changes, the terminal's font stays
\* the smallest one: the columns are counted so that none of the larger sizes
\* is ever chosen (computeTerminalMetrics, applyTerminalScale).
FontIsSmallest == term => font = 11

\* A sequence without the elements at some positions.
Without(s, drop) ==
  LET kept[k \in 0..Len(s)] ==
        IF k = 0 THEN <<>>
        ELSE IF k \in drop THEN kept[k - 1] ELSE Append(kept[k - 1], s[k])
  IN  kept[Len(s)]

\* Of everything typed since the machine was ready the guest has read, or will
\* read of what waits, the low eight bits of each code unit, once and in order,
\* whatever it sends itself in between (sendSerial, serial0_send).  So text of
\* units below 256 arrives as it was typed, and no other text does.
KeysArrive == Lows(typedReady) = Without(taken \o Lows(input), echoed)

\* The terminal shows what the guest printed from its first byte on, in order
\* and without the bytes that are no text (serial0-output-byte).
OutputShown == shown = Without(sent, {k \in DOMAIN sent : sent[k] = Junk})

\* A visit ends with a running machine and no status over it, or cannot go on:
\* a refused file, a wasm nothing compiles, or a failure to start.
Stuck == pc \in {"failed", "rejected"} \/ fetching = "stalled"
Boots == <>(hidden \/ Stuck)

\* The driver is told of every byte: what waits is read some time.
KeysAreRead == (guest = "up" /\ input # <<>>) ~> (input = <<>>)
=============================================================================
