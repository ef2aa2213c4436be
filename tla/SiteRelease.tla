----------------------------- MODULE SiteRelease -----------------------------
(***************************************************************************)
(* How a version of the site reaches a visitor.  `bun run deploy` builds   *)
(* the guest's image, writes version.txt, builds the site into dist        *)
(* (site/src/build.ts, document.ts) and uploads it; a local server         *)
(* (site/src/server.ts) builds into the same dist and serves it.  A        *)
(* visitor's page (the first half of site/src/shell.js) asks for the       *)
(* version, the build id and then for files whose urls carry that id, so   *)
(* that a browser cache told to keep them (site/public/_headers) cannot    *)
(* serve old ones.                                                         *)
(*                                                                         *)
(* A file's content is the number of the change that made it; 0 is no file.*)
(***************************************************************************)
EXTENDS Naturals, FiniteSets

CONSTANT
  Budgets  \* bounds, a set of records: how many changes of the repository, starts
           \* of the server, commands that are stopped, and visits there may be

Bounded == {"changes", "starts", "cuts", "visits"}

ASSUME ReleaseAssumption == Budgets # {} /\ Budgets \subseteq [Bounded -> Nat]

VARIABLES
  repo,       \* repo[f]: what a build would put into dist as f now
  dist,       \* dist[f]: what is there
  build,      \* build[p]: where p's buildSite is
  rendered,   \* rendered[p]: the page that p's process has loaded
  script,     \* how far `bun run deploy` is
  server,     \* "down", "building" or "up"
  alone,      \* history: alone[p]: nobody else has built since p's build began
  origin,     \* what is deployed
  deployed,   \* history: how many deployments there were
  cache,      \* cache[f]: the contents the browser keeps of f, by id
  visit,      \* the visit: its step, and what it has been given
  left        \* what is left of the budget

local == <<repo, dist, build, rendered, script, server, alone>>
public == <<origin, deployed>>
browser == <<cache, visit>>
vars == <<local, public, browser, left>>

-----------------------------------------------------------------------------
\* Groups of files: what buildSite copies, bundles and writes.
Copied == {"static", "emulator", "guest", "id", "version"}
Files == Copied \union {"shell", "index"}

\* What the document asks a browser for, and what the shell does.
ClientEntry == "shell"
HeadTags == {"static", ClientEntry}
BodyTags == {ClientEntry}
References == HeadTags \union BodyTags \union {"version", "id", "emulator", "guest"}

Builders == {"deploy", "server"}
Nothing == [f \in Files |-> 0]
Whole(tree) == \A f \in References \union {"index"} : tree[f] # 0

\* Files the browser may answer from its cache, by _headers: those asked for
\* with an id.  The others are asked for anew each time.
Kept == {"wasm", "guest"}
Dev == 0

NoVisit == [step |-> "none", of |-> 0, linked |-> FALSE, link |-> 0, id |-> Dev, lib |-> 0, wasm |-> 0, guest |-> 0]

Spend(what) == left[what] > 0 /\ left' = [left EXCEPT ![what] = @ - 1]
Newest == CHOOSE n \in {repo[f] : f \in Files} : \A f \in Files : repo[f] <= n
Change(f) == Spend("changes") /\ repo' = [repo EXCEPT ![f] = Newest + 1]

Init ==
  /\ repo = [f \in Files |-> 1]
  /\ dist \in {Nothing, [f \in Files |-> 1]}
  /\ build = [p \in Builders |-> "no"]
  /\ rendered = [p \in Builders |-> 1]
  /\ script = "no" /\ server = "down" /\ alone = [p \in Builders |-> FALSE]
  /\ origin = [f \in Files |-> 1] /\ deployed = 0
  /\ cache = [f \in Kept |-> {}]
  /\ visit = NoVisit
  /\ left \in Budgets

-----------------------------------------------------------------------------
(* The repository                                                          *)

\* The page's sources, or libv86.mjs with its wasm, change under the builds.
Edit ==
  /\ \E f \in {"shell", "emulator"} : Change(f)
  /\ UNCHANGED <<dist, build, rendered, script, server, alone, public, browser>>

(* buildSite, by process p                                                 *)

\* The process loads document.ts and App.tsx, then runs buildSite.
StartBuild(p) ==
  /\ build' = [build EXCEPT ![p] = "rm"]
  /\ rendered' = [rendered EXCEPT ![p] = repo["shell"]]
  /\ alone' = [q \in Builders |-> q = p /\ \A r \in Builders \ {p} : build[r] = "no"]

Remove(p) ==
  /\ build[p] = "rm"
  /\ dist' = Nothing
  /\ build' = [build EXCEPT ![p] = "copy"]
  /\ UNCHANGED <<repo, rendered, script, server, alone, public, browser, left>>

Copy(p) ==
  /\ build[p] = "copy"
  /\ dist' = [f \in Files |-> IF f \in Copied THEN repo[f] ELSE dist[f]]
  /\ build' = [build EXCEPT ![p] = "bundle"]
  /\ UNCHANGED <<repo, rendered, script, server, alone, public, browser, left>>

Bundle(p) ==
  /\ build[p] = "bundle"
  /\ dist' = [dist EXCEPT !["shell"] = repo["shell"]]
  /\ build' = [build EXCEPT ![p] = "index"]
  /\ UNCHANGED <<repo, rendered, script, server, alone, public, browser, left>>

\* renderDocument, with the page that the process loaded when it started.
Render(p) == rendered[p]

\* createBunServer is called once the build is done.
Listen == server' = "up"

\* The end of buildSite; its caller goes on.
WriteIndex(p) ==
  /\ build[p] = "index"
  /\ dist' = [dist EXCEPT !["index"] = Render(p)]
  /\ build' = [build EXCEPT ![p] = "no"]
  /\ IF p = "deploy" THEN script' = "upload" /\ UNCHANGED server
                     ELSE Listen /\ UNCHANGED script
  /\ UNCHANGED <<repo, rendered, alone, public, browser, left>>

\* What a step of p leaves when it is stopped half way.
Partial(p) ==
  {[f \in Files |-> IF build[p] = "rm" /\ f \in part THEN 0
                    ELSE IF build[p] = "copy" /\ f \in part \intersect Copied THEN repo[f]
                    ELSE dist[f]] : part \in SUBSET Files}

(* bun run deploy                                                          *)

\* The image is built elsewhere and pulled; its id comes before or after it.
StartImage ==
  /\ script = "no"
  /\ \E f \in {"id", "guest"} : Change(f)
  /\ script' = "image"
  /\ UNCHANGED <<dist, build, rendered, server, alone, public, browser>>

EndImage ==
  /\ script = "image"
  /\ \E n \in {repo["id"], repo["guest"]} :
       /\ repo["id"] <= n /\ repo["guest"] <= n
       /\ repo' = [repo EXCEPT !["id"] = n, !["guest"] = n]
  /\ script' = "version"
  /\ UNCHANGED <<dist, build, rendered, server, alone, public, browser, left>>

\* write-site-version.sh; there may be no new tag.
WriteVersion ==
  /\ script = "version"
  /\ \E v \in {repo["version"], repo["id"]} : repo' = [repo EXCEPT !["version"] = v]
  /\ script' = "build"
  /\ StartBuild("deploy")
  /\ UNCHANGED <<dist, server, public, browser, left>>

\* wrangler replaces the whole site at once.
Upload ==
  /\ script = "upload"
  /\ origin' = dist
  /\ deployed' = deployed + 1
  /\ script' = "no"
  /\ UNCHANGED <<repo, dist, build, rendered, server, alone, browser, left>>

\* Fault: the upload does not depend on the build's success.
FaultCutDeploy ==
  /\ script # "no"
  /\ Spend("cuts")
  /\ script' = IF script = "build" THEN "upload" ELSE "no"
  /\ dist' \in IF script = "build" THEN Partial("deploy") ELSE {dist}
  /\ build' = [build EXCEPT !["deploy"] = "no"]
  /\ UNCHANGED <<repo, rendered, server, alone, public, browser>>

\* A command fails, or the script is interrupted: && runs nothing after it.
CutDeploy ==
  /\ script # "no"
  /\ Spend("cuts")
  /\ script' = "no"
  /\ dist' \in IF script = "build" THEN Partial("deploy") ELSE {dist}
  /\ build' = [build EXCEPT !["deploy"] = "no"]
  /\ UNCHANGED <<repo, rendered, server, alone, public, browser>>

(* The local server                                                        *)

\* Fault: it listens without waiting for its build.
FaultStartServer ==
  /\ server = "down" \/ repo["shell"] # rendered["server"]
  /\ Spend("starts")
  /\ server' = "up"
  /\ StartBuild("server")
  /\ UNCHANGED <<repo, dist, script, public, browser>>

\* It is started, or restarted by --watch after a change.
StartServer ==
  /\ server = "down" \/ repo["shell"] # rendered["server"]
  /\ Spend("starts")
  /\ server' = "building"
  /\ StartBuild("server")
  /\ UNCHANGED <<repo, dist, script, public, browser>>

StopServer ==
  /\ server # "down"
  /\ Spend("cuts")
  /\ server' = "down"
  /\ dist' \in IF server = "building" THEN Partial("server") ELSE {dist}
  /\ build' = [build EXCEPT !["server"] = "no"]
  /\ UNCHANGED <<repo, rendered, script, alone, public, browser>>

\* handler: whether a request is answered with 200.  The page is rendered
\* for whatever method, everything else is looked up in dist; slashes at the
\* end of the name do not matter.
Handler(method, name) ==
  \/ name = "index"
  \/ method \in {"GET", "HEAD"} /\ dist[name] # 0

(* A visit                                                                 *)

OpenPage ==
  /\ visit.step \in {"none", "done"}
  /\ Spend("visits")
  /\ visit' = [NoVisit EXCEPT !.step = "page", !.of = deployed]
  /\ UNCHANGED <<local, public, cache>>

\* applyReleaseLink: version.txt if it can be had, else what GitHub says, or
\* the text the page came with; both are 0 here.
ApplyReleaseLink ==
  /\ visit.step # "none" /\ ~visit.linked
  /\ visit' \in {[visit EXCEPT !.link = v, !.linked = TRUE] : v \in {origin["version"], 0}}
  /\ UNCHANGED <<local, public, cache, left>>

\* The build id, which is never cached; "dev" without an answer.
GetBuildId ==
  /\ visit.step = "page"
  /\ visit' \in {[visit EXCEPT !.id = i, !.step = "named"] : i \in {origin["id"], Dev}}
  /\ UNCHANGED <<local, public, cache, left>>

\* Fault: the urls do not change with the id.
FaultAsset(id) == Dev

\* asset: what tells the url from another of the same file.
Asset(id) == id

\* A request answered by the browser's cache if it can, else by the origin.
Fetch(f, of) ==
  LET kept == {e \in cache[f] : e.id = Asset(visit.id)}
  IN  \E content \in (IF kept = {} THEN {origin[of]} ELSE {e.content : e \in kept}) :
        /\ visit' = [visit EXCEPT ![f] = content, !.step = f]
        /\ cache' = [cache EXCEPT ![f] = @ \union {[id |-> Asset(visit.id), content |-> content]}]

\* The emulator's module has no id in its url and is asked for each time.
Import ==
  /\ visit.step = "named"
  /\ visit' = [visit EXCEPT !.lib = origin["emulator"], !.step = "lib"]
  /\ UNCHANGED <<local, public, cache, left>>

FetchWasm ==
  /\ visit.step = "lib"
  /\ Fetch("wasm", "emulator")
  /\ UNCHANGED <<local, public, left>>

FetchGuest ==
  /\ visit.step = "wasm"
  /\ Fetch("guest", "guest")
  /\ UNCHANGED <<local, public, left>>

Boot ==
  /\ visit.step = "guest"
  /\ visit' = [visit EXCEPT !.step = "done"]
  /\ UNCHANGED <<local, public, cache, left>>

\* max-age passes, or the browser needs the room.
Evict ==
  /\ \E f \in Kept : \E e \in cache[f] : cache' = [cache EXCEPT ![f] = @ \ {e}]
  /\ UNCHANGED <<local, public, visit, left>>

-----------------------------------------------------------------------------
Build == \E p \in Builders : Remove(p) \/ Copy(p) \/ Bundle(p) \/ WriteIndex(p)
Deploy == StartImage \/ EndImage \/ WriteVersion \/ Upload \/ CutDeploy
Visit == OpenPage \/ ApplyReleaseLink \/ GetBuildId \/ Import \/ FetchWasm \/ FetchGuest \/ Boot

Next == Edit \/ Build \/ Deploy \/ StartServer \/ StopServer \/ Visit \/ Evict

Spec == Init /\ [][Next]_vars

-----------------------------------------------------------------------------
Steps == {"none", "page", "named", "lib", "wasm", "guest", "done"}

LocalTypes ==
  /\ build \in [Builders -> {"no", "rm", "copy", "bundle", "index"}]
  /\ rendered \in [Builders -> Nat]
  /\ script \in {"no", "image", "version", "build", "upload"}
  /\ server \in {"down", "building", "up"}
  /\ script = "build" <=> build["deploy"] # "no"
  /\ server = "building" <=> build["server"] # "no"
  /\ alone \in [Builders -> BOOLEAN]

BrowserTypes ==
  /\ cache \in [Kept -> SUBSET [id : Nat, content : Nat]]
  /\ visit \in [step : Steps, of : Nat, linked : BOOLEAN, link : Nat, id : Nat, lib : Nat,
                wasm : Nat, guest : Nat]

TypeOK ==
  /\ repo \in [Files -> Nat] /\ dist \in [Files -> Nat] /\ origin \in [Files -> Nat]
  /\ deployed \in Nat /\ left \in [Bounded -> Nat]
  /\ LocalTypes /\ BrowserTypes

\* Whatever fails or is stopped on the way, a deployment has every file its
\* page and its shell ask for, and its image is the one its id names, unless
\* the local server rebuilt dist under it (buildSite, package.json).
DeployedIsWhole ==
  [][origin' # origin /\ alone["deploy"] => Whole(origin') /\ origin'["guest"] = origin'["id"]]_vars

\* A visit during which nothing is deployed, and which was told its build
\* id, boots the deployed image on the deployed emulator and wasm, and links
\* to that version, whatever earlier visits left in the browser's cache
\* (asset, _headers).
BootsTheDeployed ==
  visit.step = "done" /\ visit.of = deployed /\ visit.id # Dev =>
    /\ visit.guest = origin["guest"]
    /\ visit.wasm = origin["emulator"] /\ visit.lib = visit.wasm
    /\ visit.link \in {origin["version"], 0}

\* A local server that is up answers for the page and for all it asks for, as
\* long as nobody else has started to build into its dist since its own build
\* began (handler, buildSite).
ServesItsPage ==
  server = "up" /\ alone["server"] =>
    \A name \in References \union {"index"} : Handler("GET", name)
=============================================================================
