# Alpenglow in TLA+

Alpenglow is a Linux distribution whose root filesystem is an immutable image
and whose changes live on one encrypted or plain `/state` volume. This directory holds TLA+ models of
the parts of it that keep state across steps, failures and restarts, the TLC
runs that check them, and theorems about them that TLAPS proves for all
parameters. Paths in this file are relative to the repository.

- `tlc -config X.cfg M` runs a check; every `.cfg` starts with what it is for
  or is named after its run in `PROJECT.json`.
- `tlapm M.tla` checks the proofs of a `...Proofs` module.
- `PROJECT.json` lists components, runs, mutants, findings, hazards and
  theorems, and maps each definition to the lines of source it models.

Definitions whose name starts with `Fault` are wrong on purpose: each is a
plausible bug (a dropped check, an off-by-one, a forgotten reset) of the
definition that follows it, and shows that a property notices it. No
specification uses them.

## 1. The system

| Component | State it keeps | Operations | Correct when |
| --- | --- | --- | --- |
| Oil package transactions (`system/oil/src/main.rs`, `install.rs`, `signal.rs`) | `~/.oil/installed.json`, payloads under `/usr/local` | install, install-recipe, uninstall, reinstall, upgrade, system add, SIGINT | entries never claim what was not extracted; between commands they describe the payload; a broken file is refused, never taken for empty; reported installs stay recorded; an upgrade reaches the index |
| Oil index and resolver (`system/registry/mod.rs`) | none beyond a call | find by name or `provides`, resolve the install order | dependencies first, nothing twice, nothing unneeded, all cycles refused, always returns |
| Oil registry caches and taps (`system/registry/apk.rs`, `tap.rs`, `util/cache.rs`) | caches under `~/.oil/cache`, `taps.json` | load, refresh, tap add/remove/update | an answer is never a torn cache; an update is seen by later commands; caches heal; added taps stay |
| State snapshots (`util/snapshot.rs`) | bcachefs snapshots of `/state` | snapshot before a transaction, prune to ten | the newest are kept, failures only warn |
| Recipes, extraction, verification (`recipe.rs`, `system/extractor/apk.rs`, `system/verifier.rs`, `util/security.rs`) | none | parse, check and unpack one input | sequential; covered by unit tests |
| State path preparation (`mount-state-paths.sh`) | directories of `/state` and their owners and modes, migration markers, bind mounts | create, migrate, keep, bind; resume after a failure | custom settings survive, private stays private, nothing is bound half-done, retries get there |
| Initramfs and state mount (`initramfs/init`, `mount-state.sh`, `system/init/init.zig`) | mounts, LUKS mapping | find the image, open and mount `/state`, `switch_root` | boots, or halts with a message |
| Disk installer (`system/installer`) | the selected disk, the target's contents | inspect, select, confirm, write | only the confirmed disk is written, a reported success is a complete image |
| Network state daemon (`alpenglow-ctl/src/network.zig`) | `/run/alpenglow/netd/*` | snapshot, netlink watch, publish | what is published catches up with the interfaces |
| Kernel policy, zram, pressure tools (`kernel.zig`, `zram.zig`, `pressure.zig`) | kernel files, `/run/alpenglow/*` | apply, attach, size swap, sample | each applies what its policy says |
| Session start and roles (`alpenglow-session-start`, `alpenglow-role-publish`) | `/etc/alpenglowed`, `/run/alpenglow/role` | copy defaults, factory reset, choose a shell | a session finds complete defaults |
| Service graph (`dinit/*`) | service states of an external supervisor | start order, restart | dependencies before dependents |
| Release publication (`upload-release-assets.sh`, `verify-release-assets.sh`) | assets of a draft release | verify, upload, resume | a release holds each asset once and complete |
| Site page and browser emulator (`site/src/shell.js`, `App.tsx`, `styles.ts`, `site/public/v86/libv86.mjs`) | the page's elements and boot status, the emulator's files, a serial port between terminal and guest | load the emulator and its files with retries, type, print, resize, hide the status | a visit ends with a running machine or says why not; no typed byte is forgotten, no printed one is lost |
| Site build, server and deployment (`site/src/build.ts`, `document.ts`, `server.ts`, `site/package.json`, `site/public/_headers`) | `dist`, the deployed site, browsers' caches | build, serve, deploy, visit | a deployment is whole; a visit boots what is deployed; a server that is up has what its page asks for |
| Image build, kernel configurations, CI | files on a developer's machine | build and copy | sequential, no state of the running system |

How they meet: dinit starts `state-mount`, which prepares and binds `/state`;
every other service and Oil's home rely on those binds. Oil's transactions read the
registry caches, resolve an order and extract packages; each asks for a
snapshot of `/state` first. The session reads the role published at boot. The
installer writes the image that the initramfs later looks for. The site's build
copies a guest image and its id into one directory; the visitor's page reads the id
and puts it into the urls of the files the emulator fetches; emulator and page meet at one serial port. The
components share files, never memory: what is hard is what happens when two processes use a
file at once, when a step fails, and when the machine stops in between.

### What is hard here

1. Oil keeps its records in one file that it rewrites whole, in place, with no lock, after work
   that takes minutes; SIGINT ends the process from another thread
   (`signal.rs`) at any point.
2. A payload is overwritten file by file: a failure leaves a mix of versions.
3. The resolver's skip set, its visiting set and its order are keyed by
   different names (asked for, found, provided).
4. The state preparation is a shell script that has to tell apart, on the next
   boot, the previous release's layout, its own unfinished work and the owner's
   settings, from permissions and markers alone.
5. Caches are trusted by age and written in place by any number of commands, and removed
   under each other; netlink events are lost
   before the socket is bound; disks change under the installer.
6. The page is answered in an order it does not choose: the id, the emulator's
   module and its files, timers, key presses and the guest's output are callbacks, some of
   which come before the machine is there, and any request may fail and be retried.
7. The guest learns of a byte only from an interrupt line, while it switches
   interrupts, FIFO and loopback on and off.
8. A browser keeps files for up to a year by their url, across deployments that replace
   them; deployment and server build into one directory, and either may be stopped.

`PROJECT.json` lists these as hazards at the line where they bite, with the
properties that watch them, or why none does yet.

## 2. Modules

| Module | Models | Composes / extends |
| --- | --- | --- |
| `OilTransaction` | Oil's commands as processes over the state file and the payload | |
| `OilTransactionProofs` | theorems about it | `OilTransaction` |
| `InstallPlan` | abstract: what a caller of the resolver relies on | |
| `OilResolver` | the depth-first resolver, call by call; implements `InstallPlan` | `INSTANCE InstallPlan` |
| `OilResolverProofs` | theorems about it, the refinement included | `OilResolver` |
| `StatePaths` | `setup_state_paths`, command by command | |
| `StatePathsProofs` | theorems about it | `StatePaths` |
| `NetWatch` | the network daemon's read, publish and wait loop, with dinit's restart | |
| `NetWatchProofs` | theorems about it, and induction over the naturals for its functions | `NetWatch` |
| `DiskInstaller` | the installer's window, its command line and `install_image_inner`, among disks that change | |
| `DiskInstallerProofs` | theorems about it | `DiskInstaller` |
| `OilRegistry` | the caches of indexes and the list of taps, among the commands that share them | |
| `OilRegistryProofs` | theorems about it | `OilRegistry` |
| `SerialPort` | the emulator's first serial port, register by register | |
| `TerminalMetrics` | the grid and the font for a window | |
| `SitePage` | one visit: the page, the emulator's loader, the port and a guest's driver | extends `SerialPort`, `TerminalMetrics` |
| `SitePageProofs` | theorems about the port and the page | `SitePage` |
| `SiteRelease` | builds, local server, deployments, and visits through a browser's cache | |
| `SiteReleaseProofs` | theorems about it | `SiteRelease` |
| `MC...` | small constants for TLC | the module named |

### OilTransaction

A process is one `oil` command line after another. `pc[p]` is the next step and
`run[p]` the locals of the command: what it loaded (`mem`), the index it saw,
what it still has to extract. The state file is `file`: a parsed state, missing,
empty (between the truncation and the write of `std::fs::write`) or garbled (two
processes wrote over each other). `disk[n]` is the payload of package `n`, and
whether it may be a mix of versions.

`Load`, `Plan`, `Snapshot`, `BeginExtract`/`EndExtract`, `Reload`, `Truncate`,
`Write` follow `run_install`, `run_install_recipe`, `run_uninstall`,
`run_reinstall`, `run_upgrade` and `run_system_add` in their order: what each
command loads when, which errors return before the snapshot, that
install-recipe loads the state only after it has extracted, that `system add`
records nothing, and that an upgrade with nothing to do still saves. Any step
may fail (`Fail`, a `?`) or be cut off (`Interrupt`, `exit(130)` in the
handler).

Abstractions: a package name is its own package (lookup by `provides` is in
`OilResolver`); a command gets its packages as a list `order`, any list that has
before a package what it needs, which is what `OilResolver` shows of `resolve_install_order`
(`DepsBeforeDependents`), and its loop takes them from the front and checks nothing (`IsNext`); two extractions of a package that overlap
leave it torn, whatever the files; `uninstall` forgets the entry and removes no files,
as the code does; `--all` is the set of all packages; power loss is not
modelled (nothing is synced, so every file would be arbitrary).

### OilResolver and InstallPlan

`packages` is the list in registry order, apk first and taps after it, so one name may
occur twice. `Find` is the two hash maps of `PackageIndex::new`: own names
before provided ones, the first before later ones. The recursion is a stack of frames
`[pkg, next]`: `VisitRoot` and `VisitDep` are the two call sites, `Call` the
head of the function with its four early exits, `Leave` its end.
`parse_dep_name` is abstracted to a name or the empty name of a bare version constraint.

`InstallPlan` says what the caller relies on and nothing of depth-first search:
a plan grows by one package that the request leads to, whose needs are all
planned and whose name is not; it ends when it covers the goal; it is refused only when
something needed is offered by nobody or some set of packages waits for itself. The
refinement mapping computes these parameters from the index (`Needed` is the
least closed set, quite unlike the search) and passes `order` and `outcome` through.

### StatePaths

`path[i]` is what is at the i-th path of the layout: nothing, a directory with
an owner and a mode, or something else. `marker[i]` is its migration marker. Each
shell command is an action (`MakeMarker`, `MakePath`, `Chmod`, `Chown`,
`RemoveMarker`, `Bind`), the checks of `ensure_state_dir` are `Ensure`, and
`pc`/`at` say where the script is. `CommandFails` and `PowerLoss` may strike at
each, at most `MaxFaults` times, and leave `mkdir -m` half done when `TornMkdir` is set.
`Customize` is the owner changing a settled directory by hand, `given[i]`
remembers what was there before the script touched it.

Abstractions: symlinks and files are both "other"; the chown and chmod of the
marker root right after its mkdir change nothing for root; the four binds are a
set, so binding twice is not counted.

### NetWatch

`net[i]` says of each interface whether it is gone, down or up. The daemon lists
them (`List`, `ListMore`: what is seen of a directory that changes while it is
read), opens one (`OpenInterface`), reads its files (`ReadOperstate`,
`ReadFlags`) and collects them in `snap`. `TruncateJson` to `WriteEnv` publish
`json` and `env`, each rewritten in place. `Socket` and `Bind` come after the first
round; from then on `queue` holds the notifications of `Change`, `overrun` tells
that one was dropped, and `Receive` and `Drain` are the debounced read. Where
netlink is refused the daemon polls (`Sleep`). `Fails` is a failed system call;
what it ends depends on where it happens, up to the exit of the process and
`Restart` by dinit.

Abstractions: of an interface's attributes only `operstate` and `flags`, the
ones a decision or a comma depends on; the poll interval and the debounce time are
left to the scheduler; an interface that is replaced while its directory is open
reads as removed. The kernel is assumed to announce a change once it can be
read. dinit's limit on restarts is not modelled.

### DiskInstaller

A disk is its `diskseq`: `disks[i]` is the i-th disk the machine has seen, `at[n]` the
one in drive `n`. `Plug`, `Swap`, `Pull`, `Mount`, `Unmount` and `Rewrite` (of the
image file) are the world. The window lists drive by drive in two
steps (`ScanPath`, `ScanSys`: the path first, `/sys` by its number later), then
`Select`, `Type`, `Install`; a command line (`RunCli`) names a path. Both go
through `Stat`, `OpenDisk` (with `O_EXCL`), `Check`, `Size`, `Copy` block by
block, `Verify` and `Sync`, with `run[p]` the locals. `data[i][k]` remembers
who wrote a block and from which image, `synced` what has reached the medium.

Abstractions: targets are block devices (regular files are for tests); I/O to a
pulled disk fails; all listed disks can be selected, where the window
has a button for four; an image rewritten with the same length during the
copy goes unnoticed, as in the code, so `SuccessIsWhole` promises blocks of one image only
when nobody rewrites it.

### OilRegistry

`apk` is the cache of Alpine's index as the parts that are in the file: `write_cache`
writes as its encoder goes on, so two writers can interleave parts of different
indexes, and `Whole` (one index from end to end, which gzip's checksum decides)
says what `Read` accepts. `caches[k]` are the taps' caches, each written by one
`fs::write` (empty, then whole), under the key `cache_key` makes of a tap's name;
`list` is `taps.json`. `fresh` is the 24-hour check of the file's time, `present` whether it exists.

A command goes through `Remove`/`Unlink` (the `exists()` and the `remove_file` of
`refresh`, with another command in between), `Check`, `Read`, `Fetch` for
each repository in a thread of its own, `Create`, `Write` part by part,
`OpenList`, then `Truncate`/`Save` for `tap add` and `tap remove`, or one thread per tap
(`TapCheck` to `TapWrite`) and `Join`. `own` says whether the file that a command has open is
still the one at the path: who unlinks it leaves the writer writing to nothing anybody
sees. `Give` is a kill or an error anywhere, `TapFails` a tap that is only warned about.

Abstractions: an index is the number of its publication; a shorter text written
over a longer one leaves its end (`Length`); the check of urls inside a cached
tap index, `tap update` of one tap and the removal of the old uncompressed cache are left out;
what a command then does with the index is `OilResolver` and `OilTransaction`.

### SerialPort, TerminalMetrics and SitePage

`SerialPort` is the emulator's port (`Hc` in `libv86.mjs`): one action per register access
(`ReadData`, `WriteData`, `WriteEnable`, `ReadIir`, `WriteSettings`) and one for the
bytes a page sends. `ints`, `ier` and `iir` are its interrupt state, recomputed by
`CheckInterrupt` as the code does. The histories `received`, `taken` and `echoed` (which of the received
units the guest sent itself, through the loopback) say what became of them. The page sends the 16-bit units
of its text (`charCodeAt`), the queue keeps them whole, and the guest's 8-bit read gets the low
eight bits (`Low`; the CPU itself is compiled code, modelled as external): no UTF-8 is made, so a typed euro sign
(0x20AC) is read as 0xAC. `Prints` are the bytes the guest may print. `TerminalMetrics` is `computeTerminalMetrics` in exact hundredths of a pixel.

In `SitePage` an action is one task of the browser, from one `await`, timer or callback to the
next: the module's body (`RunModule`, `MountTerminal`, `AwaitBuildId`, `StartEmulator`,
and how each fails), the request for the build id that runs beside it
(`IdAnswered`, `IdRead`), the loader (`Progress`, `Loaded`, `Compiled`, the fallback wasm of
`CompileFails`, `Refused`, `Unavailable`, `Retry`), `EmulatorReady` and the timer that hides
the status, `Resize`, and `Type`, the terminal's data event. The guest is known only
by its port: `Probe` is its search for one, `DriverStart` switches FIFO and
interrupts on, `Interrupt` is its handler. `at` and `fetching` say which file is being
fetched and how that goes, `stored` what the emulator has been given.

Abstractions: the style sheet and the document are the set of elements that show
and what hides them; progress is counted in eighths; the emulator's CPU and its other devices are
left out, and the guest's driver is an 8250 driver as Linux has it, in the order of its
register accesses; `wireLegacyKeyboard` (`shell.js:194`) is never
called and not modelled.

### SiteRelease

Files are groups: what `buildSite` copies (`static`, `emulator`, `guest`, `id`, `version`),
the bundled `shell` and the rendered `index`. A file's content is the number of the
change it comes from. `repo` is what a build would use, `dist` the directory that
deployment and server share, `origin` what is deployed, `cache` what the browser
keeps by `_headers`. `Remove`, `Copy`, `Bundle`, `WriteIndex` are the steps of `buildSite`, `Partial` what a
step leaves when it is stopped; `StartImage` to `Upload` the commands of `bun run deploy`,
joined by `&&`; `StartServer` also the restart of `--watch`. A visit asks for its page, id, module, wasm and guest
image (`OpenPage` to `Boot`), each from the cache if its url is there.

`Render` uses the page that the building process loaded at its start, as a module is loaded
once. Abstractions: building the guest's image is two steps, between which image and id
differ; the upload replaces the site at once (Cloudflare's promise, external); GitHub's answer for the version and
the text in the page are one.

## 3. Runs

| Run | Instance | Question |
| --- | --- | --- |
| `oil_serial` | one process, three commands in a row, `app` needs `lib`, `lib` pinned, two versions | With one command at a time, each failing or killed anywhere: do entries describe the payload between commands (`RestConsistent`), do reported installs stay recorded (`AckedStayRecorded`), is the file never a mix (`NeverGarbled`), is nothing changed before the snapshot was asked for (`SnapshotBeforeChange`), does a complete upgrade reach the index (`UpgradeReachesIndex`)? Yes. |
| `oil_concurrent` | two processes, one command each of any kind but reinstall, one version | Do overlapping commands ever record what was not extracted (`RecordedWasExtracted`), extract a package while the payload lacks, in every version, something it needs (`DepsInPayload`), or revive a broken file (`CorruptionIsFinal`)? No, except that what `install-recipe` put in before, which resolves nothing, may lack its own. |
| `oil_lost_record` | two install-recipe commands | Violation expected: see finding 1. |
| `resolver` | every list of three packages with up to two dependencies each, among names that exist, are provided, are missing, are empty, or occur twice; three requests, three skip sets | Does every dependency come before its dependents (`DepsBeforeDependents`), is every cycle refused (`NoCycleMissed`), does the search implement `InstallPlan` (`KeepsPromise`), does every step bring its end closer (`Closer`), and does it return (`Returns`)? Yes. |
| `resolver_alias` | the same | Violation expected: see finding 2. |
| `state_small` | two paths, a public parent and a private child, every start state, three faults, one change by hand | Is nothing bound early (`BindsWait`), unfinished work marked (`UnfinishedIsMarked`), custom settings kept (`CustomKept`), nothing handed over public (`HandedOverPrivate`)? Does booting again and again get the tree ready when nothing foreign is in the way (`Recovers`)? Yes, except that a marker root whose `mkdir -m` was cut off stays refused. |
| `net_watch` | three interfaces, `lo` in the middle of the sorted order, a socket for one notification, two changes, one fault | Is the daemon up to date whenever it waits with nothing in its socket (`NothingMissed`), is the default interface one that is up (`DefaultIsUp`), and do the files come to show interfaces that stop changing, also through polling, exits and restarts (`CatchesUp`)? Yes, except for changes before `bind`. |
| `net_json` | two interfaces, one change | Violation expected: see finding 3. |
| `disk` | the window and a command line on one drive, two disks of one or two blocks, an image of one or two blocks rewritten once | Does the window overwrite only the disk it shows and whose name was typed (`OnlyConfirmedWritten`), does each write alone (`WritesAlone`), and does success mean the whole image is on the medium (`SuccessIsWhole`)? Yes. |
| `oil_registry` | two commands at a time of three or four in all, in four settings | Is an answer always a whole index (`AnswerIsWhole`), does no later command fall behind an update that ran alone (`UpdateIsSeen`), does such an update mend every tap's cache it can reach (`UpdateMendsTaps`), and do added taps stay (`TapsKept`)? Yes, except for two taps that share a cache, and for overlapping or cut-off saves of the list. |
| `site_page` | one visit on a phone's or a desktop's window, answers in every order, two failures, one resize, two pasted words with a character outside Latin-1 and one the page would not print, one printed byte | Does the status disappear only over a machine that has all its files (`HiddenMeansBooting`), does a boot that is stuck say so (`StuckIsSaid`), do urls carry the answered id (`UrlsCarryTheId`), is the interrupt line up exactly while a byte waits (`DataRaisesIrq`), does the guest read the low eight bits of every typed unit once and in order (`KeysArrive`), is all output shown in order (`OutputShown`), does every visit boot or get stuck for a named reason (`Boots`), and is what waits in the port read (`KeysAreRead`)? Yes. |
| `site_release` | three changes with a local server and one stopped command; two changes with three visits | Is what is deployed whole, with the image its id names (`DeployedIsWhole`), does a visit boot what is deployed whatever its browser kept (`BootsTheDeployed`), does the server have its page's files (`ServesItsPage`)? Yes, if nobody else builds into `dist`. |

Why the bounds are enough. Oil: a lost or phantom entry takes two commands that
overlap, or one that follows a broken one and a third that relies on it; two versions tell old from new and two packages
give one dependency. All interleavings of
the bounded commands are explored; the theorems cover the rest. Resolver: three packages make the
shortest cycles (one, two, three), a diamond's sharing, a duplicate and an alias possible at the
same time; the theorems hold for every list. State paths: each path is handled
alone but for its parent, so a parent and a child are the interesting pair; a
recovery that fails again needs two faults, and three leave one to spare; that the real list of 19
paths names parents before children, all that the small layout assumes, is an `ASSUME` of `MCStatePaths`
that TLC evaluates. Network: a socket for one notification overflows at the second change, and one change
can wake the daemon while another comes before its snapshot is out; three
interfaces put one on either side of `lo`. Installer: a stale identity takes a
second disk in the same drive; two installations of two blocks overlap in every
way; more drives only add names, and the theorems hold for any number.
Registry: a torn or stale cache takes a command that writes it, one that removes or
rewrites it and one that reads it afterwards, with one publication to tell old from new; the
four budgets are the four files that commands share: Alpine's index, one tap's
cache, one cache of two taps (`a/b` and `a-b`), and the list. Page: a pasted word of two
units is the shortest that can be read in part (the first, 8364, does not fit a byte; the second is 0xff, which must
arrive although the page would not print it), one before and one after the
machine is ready; one printed byte meets every state of the port and two probes let the
guest change a setting and undo it; two failures are those after which the wasm, whose
fallback is tried once, has failed for good. Site: three changes let image, page and
emulator each change once under one deployment, and a start of the server can be stopped and tried
again; three visits around two deployments are one that fills the cache, one that
spans the second deployment and one after it. The second setting has no server, since what a
visit sees is only what was deployed.

Fairness. `OilResolver`: one sequential call runs on. `StatePaths`: a
running script runs on, and a device whose start failed is booted
again (weak fairness of `Boot`); faults are bounded by `MaxFaults`, which
is the assumption that they stop some time. `NetWatch`: a daemon that can go
on does (`WF_vars(Daemon)`), and dinit starts it again when it has exited
(`WF_vars(Restart)`; the unit says `restart = yes`). `SitePage`: the browser runs its tasks,
a request is answered or fails some time, timers go off, and the running machine's
driver goes on; nobody has to type or resize, and no request has to fail. Without
an answer to a request the real page waits as the model would. `OilTransaction`, `DiskInstaller`,
`OilRegistry` and `SiteRelease` have no liveness property: what comes next
is up to a user, and Oil gives `ureq` no timeout (`security.rs:53`), so a peer that stops answering holds a
command for ever and no fairness of its steps would be the code's.

`CHECK_DEADLOCK FALSE` is set where the model may stop: nobody issues
more commands, the resolver has returned, the network daemon waits and nothing
changes, the installers are done, or nobody types, visits or deploys. `StatePaths` never stops.

## 4. Findings

1. `oil_lost_record`: of two overlapping install-recipe commands that both
   report success, the later save drops the other's entry
   (`main.rs:505`), against `docs/architecture/oil-recipe-format.md:89`. The
   payload stays and `uninstall`, `upgrade` and `outdated` do not see it. The
   same holds for any two commands that save.
2. `resolver_alias`: a package that is installed under its own name is put in
   the order again when a dependency reaches it through `provides`
   (`registry/mod.rs:81`), against the comment at `registry/mod.rs:55`.
3. `net_json`: when an interface disappears between the opening of its directory
   and the reading of its `flags`, `interfaces.json` gets a comma before a closing brace
   (`network.zig:235`) and is no JSON until the next round, against
   `docs/v0-architecture.md:8`.

Met while reading or modelling, and left as remarks because no document promises
otherwise, or because a property above is stated around them:

- Oil: an upgrade with nothing to do and `--dry-run` rewrite `installed.json`
  without a snapshot (`main.rs:636`), although with the entries it had;
  `docs/editions-and-roles.md:21` says that one comes before an upgrade, and
  `SnapshotBeforeChange` asks for it before a payload or an entry changes. Two `oil update`s at a time race between `exists()` and
  `remove_file`, and one fails (`apk.rs:56`). Two taps such as `a/b` and `a-b` share a
  cache file (`cache.rs:12`), and one process writes it from two threads. A `taps.json` that was cut off is
  taken for an empty list (`tap.rs:32`), and a tap cache that was cut off fails its tap for up to
  24 hours or until the next update (`tap.rs:138`).
- Site: a visit that got no build id uses `dev`, the same for every deployment, and may boot
  what its browser kept of an earlier one. A failed wasm request shows as progress. A failure to
  mount the terminal shows nothing. A typed character outside Latin-1 reaches the guest as another byte, the low
  half of its unit (`libv86.mjs:324`), and one from 0x80 to 0xff as that byte, not as UTF-8. Keys typed before the machine is ready are dropped. The guest
  keeps the grid of the window it was started in. The font never leaves its smallest size. A
  server under `--watch` can empty `dist` under a deployment. `write-site-version.sh:2` says that
  `version.txt` busts the emulator's cache; `shell.js` uses the build id only.
- The rest: a second `writeEnv` replaces the file of the first (`kernel.zig:212`); an image
  rewritten with the same length during an installation is mixed unnoticed; a `mkdir -m` cut off before it set the mode
  leaves a marker root that later boots refuse (`mount-state-paths.sh:59`).

## 5. Theorems

All hold for every value of the constants that satisfies the module's
`ASSUME`. TLC checked each invariant, the strengthened ones included, before it
was proved.

- `OilTransactionProofs`. `TypeCorrect`; `NoPhantomRecord`
  (`RecordedWasExtracted`) from `BackedInv`: not only the file's entries but
  also those every process holds in memory name extracted payloads, because the
  file is next written from memory; `SerialNeverGarbles` (`NeverGarbled`) from
  `SerialInv`: at most one process is running and only it can be between
  truncate and write; `CorruptionStays` (`CorruptionIsFinal`), for which `RecipeInv`
  ties install-recipe's late load to its step.
  `DependenciesInPayload` (`DepsInPayload`) from `KnownInv`, what a command knows at each of its
  steps, in any interleaving (an install's list has what its packages need and its state lacks, in
  order; what is no longer on it was extracted), from `BackedInv` for what its state does not lack,
  and from `LaidDown`: what was once extracted stays in the payload in some version, torn or not, whatever other
  commands do. With one command at a time, `SettledInv` on top of it says that the state in memory and the one in the
  file describe the payload but for what the running command touches or an unfinished one has left, and
  have what was reported; from it follow `EntriesDescribe` (`RestConsistent`), `ReportedStays` (`AckedStayRecorded`),
  `SnapshotFirst` (`SnapshotBeforeChange`) and `UpgradesReach` (`UpgradeReachesIndex`), for any number of commands,
  packages and versions. `oil_lost_record` breaks the second with two commands that overlap.
- `StatePathsProofs`. `StateTypes`, `NothingBoundEarly`, `UnfinishedMarked`,
  `CustomSurvives`, `HandOverIsPrivate`, from one invariant of three parts: `DiskInv`
  (what is on the disk at rest, which must survive a power loss at any
  point), `StepInv` (what the command about to run may rely on) and
  `ProgressInv` (paths before `at` are settled).
- `OilResolverProofs`. `ResolverTypes`, `DependenciesFirst`, `CyclesRefused`
  and `ResolverKeepsPromise`: every step of the search is a step of
  `InstallPlan` or a stutter. The invariant: `StackInv` (each frame waits for
  the one above it, and names on the stack are the visiting set), `DoneInv`
  (dependencies a frame has passed are scheduled), `NamesInv` and `OrderInv`
  (names, positions and the order agree, everything scheduled is needed). A
  refusal for a cycle exhibits the stack's frames as the set that waits for
  itself; a returned order has no such set because its first member would wait
  for something before it. `ResolverEnds` (`Closer`): every call either ends the search, or
  leaves fewer names to visit, or leaves as many and goes on to the next request, or else drops
  a frame, or else passes a dependency of the top frame. From `NamesInv` (what is visiting or scheduled is a name) and the guards of `Call`; it is the safety
  half of `Returns`.
- `NetWatchProofs`. `NetTypes`. `PublishedDefault` (`DefaultIsUp`), by induction over the one pass of
  `renderRuntimeEnv`: after k interfaces the chosen one is right for those seen. The library's
  induction theorems take a predicate, which the provers cannot be given, so the module
  derives induction for sets of naturals (`Inductive`) from `<` being well founded, and from that
  that a function defined by recursion over `0..n` exists (`Recursion`). `ToldIsPublished` (`NothingMissed`), from `NetInv`:
  `SocketInv` (only a bound socket is told anything), `OpenInv` (which interface is
  being read) and `RoundInv`: while nothing is waiting in a bound socket, what the round has
  read so far is how the interfaces are, those it has not read are still on its list, and what
  it has published shows them. A change breaks it only by putting something into the socket.
- `DiskInstallerProofs`. `InstallerTypes`. `WritersAreAlone` (`WritesAlone`), from `AloneInv`: an
  installer holds a disk exactly from the open to its end, no partition of it is
  mounted then and nobody else has it. `ShownIsWritten` (`OnlyConfirmedWritten`), from
  `SeenInv` and `ConfirmedInv`: everything the window has noted of a drive is no
  newer than what is in it, so if the drive's disk at the check is the one
  confirmed, so is the one opened before; nothing changes the selection while it installs.
  `SuccessMeansWhole` (`SuccessIsWhole`), from `WholeInv` on top of `AloneInv`: the blocks copied so far are on
  the disk, written by this installer and from no image older than the one it sized, which stays
  so because nobody else can open the disk.
- `OilRegistryProofs`. `RegistryTypes`; `AnswersAreWhole` (`AnswerIsWhole`) from `GotInv` and `TapInv`: every part
  in a file is a published index or not written yet, so a file that is one index from end to end is a
  whole one; `UpdatesAreSeen` (`UpdateIsSeen`) from `SeenInv`: after an update that ran alone
  neither the cache nor anything a command has fetched and may still write into the file at the path is
  older than its answer; for this a writer whose file was unlinked must be told from one
  whose file is still there (`own`). `UpdatesMend` (`UpdateMendsTaps`) from `MendInv` and `AddedTapsStay` (`TapsKept`) from
  `KeptInv`. All rest on `ControlInv` (which command is where) and `AloneInv` (while one that ran alone is
  still alone, no other is busy).
- `SitePageProofs`. `PortForgetsNothing` for the port with any page and any guest (`PortSpec`), and
  `PageForgetsNothing` for the whole page, both from `PortInv`: data ready, the pending receive
  interrupt and a non-empty queue are the same thing, and `iir` is what `CheckInterrupt` says of what is pending and
  enabled. `PageTypes`, `HiddenOverMachine` (`HiddenMeansBooting`), `StuckBootSays` (`StuckIsSaid`) and `IdInUrls` (`UrlsCarryTheId`) from
  `StartInv` (nothing is imported before the id is settled), `LoadInv` (files are stored one after the
  other) and `StatusInv`. `TypedArrives` (`KeysArrive`) and `PrintedIsShown` (`OutputShown`): the low
  eight bits of what was typed once the emulator was ready are what was read and what waits, less what the guest sent itself.
  `PlainTextArrives`: text of units below 256 so arrives as typed; no other text does, as `Low` loses its high bits. From
  `ReadyInv` (once the boot has come to `Running` the page knows that the emulator is ready, and no guest
  reads or writes before) and `KeysInv`, with lemmas about `Without` (a sequence less some of its
  positions) and `Lows`: `Without` goes on when a byte is appended, commutes with `Lows`, and agrees for sets that agree on the
  sequence's positions. `FontStaysSmallest`, by arithmetic: there are at least 48
  columns and one more would not fit at 8.2 pixels each, so 0.92 of a column's width is below 8 pixels
  and the lower bound of 11 always applies.
- `SiteReleaseProofs`. `ReleaseTypes`; `ServerHasItsPage` (`ServesItsPage`) and `DeploymentsAreWhole` (`DeployedIsWhole`) from `BuildInv`: a
  build that nobody joined has filled `dist` up to its step, and from `version.txt` on image and id of the
  repository agree; `VisitsBootTheDeployed` (`BootsTheDeployed`) from `FreshInv` (an id that any browser was given is not
  that of an image still being built) and `VisitInv` (what a browser keeps under the deployed id is what is deployed).

Every safety invariant and action property of the passing runs is so proved for every value
of the constants, and no run repeats the type invariants. Only model-checked are the liveness properties
(`Returns`, `Recovers`, `CatchesUp`, `Boots`, `KeysAreRead`): they rest on fairness, so on
`ENABLED`, which the prover does not handle.

## 6. Not modelled, and the plan

Not modelled, because they are sequential code over one input without state of their own: parsing and
unpacking (recipes, archives, indexes), the image build, kernel configurations, kernel policy, zram and pressure
tools (straight-line writes by one process at boot), CI, and the emulator's CPU and devices besides the
serial port (vendored, and only used through the port).

Possible next, in this order:

1. A variant in the manner of `Closer` for the page's boot.
2. `StateSnapshots`: names from the clock, pruning and failing around `OilTransaction`
   (a clock that went back prunes the newest, `snapshot.rs:122`).
3. `ReleaseUpload`: several jobs that upload and resume one draft release.
4. `SessionDefaults`: copying the defaults and the factory reset.
5. `BootChain`: finding the image, opening and mounting `/state`, `switch_root`,
   and the dinit units after it; composed with `StatePaths`. It runs once per boot in one
   process that halts on errors; one thing met on the way: a failed mount at `init:202` is not followed by
   `rescue_or_halt`.
