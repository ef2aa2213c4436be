-------------------------- MODULE SiteReleaseProofs --------------------------
(***************************************************************************)
(* What a deployment holds and what a visit boots, for any number of       *)
(* changes, deployments, stopped commands and visits.                      *)
(***************************************************************************)
EXTENDS SiteRelease, TLAPS

(* Types                                                                   *)

\* Every file of the repository is there, so nothing a build renders or
\* copies is missing.
TypeInv ==
  /\ TypeOK
  /\ \A f \in Files : repo[f] # 0
  /\ \A p \in Builders : rendered[p] # 0

\* One more file keeps a set of files with one that is as new as any.
LEMMA OneMore ==
  ASSUME repo \in [Files -> Nat], NEW S \in SUBSET Files, NEW g \in Files,
         \E f \in S : \A h \in S : repo[h] <= repo[f]
  PROVE  \E f \in S \union {g} : \A h \in S \union {g} : repo[h] <= repo[f]
<1>1. PICK f \in S : \A h \in S : repo[h] <= repo[f]
  OBVIOUS
<1>2. \A h \in S : repo[h] \in Nat
  OBVIOUS
<1>3. CASE repo[g] <= repo[f]
  BY <1>1, <1>3
<1>4. CASE ~(repo[g] <= repo[f])
  <2>1. repo[f] <= repo[g] /\ repo[g] <= repo[g]
    BY <1>4
  <2>2. \A h \in S : repo[h] <= repo[g]
    BY <1>1, <1>2, <2>1
  <2> QED
    BY <2>1, <2>2
<1> QED
  BY <1>3, <1>4

\* Newest is as new as every file.
LEMMA NewestIs ==
  ASSUME repo \in [Files -> Nat]
  PROVE  Newest \in Nat /\ \A f \in Files : repo[f] <= Newest
<1> DEFINE Has(S) == \E f \in S : \A h \in S : repo[h] <= repo[f]
<1> USE DEF Files, Copied
<1>1. Has({"static"})
  OBVIOUS
<1>2. Has({"static"} \union {"emulator"})
  BY <1>1, OneMore
<1>3. Has({"static", "emulator"} \union {"guest"})
  BY <1>2, OneMore
<1>4. Has({"static", "emulator", "guest"} \union {"id"})
  BY <1>3, OneMore
<1>5. Has({"static", "emulator", "guest", "id"} \union {"version"})
  BY <1>4, OneMore
<1>6. Has({"static", "emulator", "guest", "id", "version"} \union {"shell"})
  BY <1>5, OneMore
<1>7. Has({"static", "emulator", "guest", "id", "version", "shell"} \union {"index"})
  BY <1>6, OneMore
<1>8. Has(Files)
  BY <1>7
<1> USE DEF Newest
<1>9. \E n \in {repo[f] : f \in Files} : \A f \in Files : repo[f] <= n
  BY <1>8
<1>10. Newest \in {repo[f] : f \in Files} /\ \A f \in Files : repo[f] <= Newest
  BY <1>9
<1> QED
  BY <1>10

LEMMA SpendKeeps ==
  ASSUME left \in [Bounded -> Nat], NEW what \in Bounded, Spend(what)
  PROVE  left' \in [Bounded -> Nat]
BY DEF Spend

\* A change makes a file newer than all were.
LEMMA ChangeKeeps ==
  ASSUME TypeInv, NEW f \in Files, Change(f)
  PROVE  /\ repo' \in [Files -> Nat] /\ left' \in [Bounded -> Nat]
         /\ \A g \in Files : repo'[g] # 0 /\ repo[g] <= repo'[g]
         /\ \A g \in Files : repo[g] < repo'[f]
         /\ \A g \in Files \ {f} : repo'[g] = repo[g]
<1>1. repo \in [Files -> Nat] /\ left \in [Bounded -> Nat]
  BY DEF TypeInv, TypeOK
<1>2. Newest \in Nat /\ \A g \in Files : repo[g] <= Newest
  BY <1>1, NewestIs
<1>3. "changes" \in Bounded /\ Spend("changes") /\ repo' = [repo EXCEPT ![f] = Newest + 1]
  BY DEF Change, Bounded
<1>4. left' \in [Bounded -> Nat]
  BY <1>1, <1>3, SpendKeeps
<1> HIDE DEF Newest
<1>5. \A g \in Files : repo[g] \in Nat /\ repo[g] # 0
  BY <1>1 DEF TypeInv
<1>6. repo' \in [Files -> Nat] /\ repo'[f] = Newest + 1 /\ \A g \in Files \ {f} : repo'[g] = repo[g]
  BY <1>1, <1>2, <1>3
<1>7. \A g \in Files : repo[g] < repo'[f]
  BY <1>2, <1>5, <1>6
<1>8. \A g \in Files : repo'[g] # 0 /\ repo[g] <= repo'[g]
  <2>1. repo'[f] # 0 /\ repo[f] <= repo'[f]
    BY <1>2, <1>5, <1>6
  <2>2. \A g \in Files \ {f} : repo[g] <= repo[g]
    BY <1>5
  <2> QED
    BY <1>5, <1>6, <2>1, <2>2
<1> QED
  BY <1>4, <1>6, <1>7, <1>8

\* What a stopped step leaves is a tree.
LEMMA PartialTyped ==
  ASSUME TypeInv, NEW p \in Builders, NEW tree \in Partial(p)
  PROVE  /\ tree \in [Files -> Nat]
         /\ \A f \in Files : tree[f] \in {0, repo[f], dist[f]}
         /\ build[p] \notin {"rm", "copy"} => tree = dist
<1>1. repo \in [Files -> Nat] /\ dist \in [Files -> Nat]
  BY DEF TypeInv, TypeOK
<1>2. PICK part \in SUBSET Files :
        tree = [f \in Files |-> IF build[p] = "rm" /\ f \in part THEN 0
                                ELSE IF build[p] = "copy" /\ f \in part \intersect Copied THEN repo[f]
                                ELSE dist[f]]
  BY DEF Partial
<1>3. tree \in [Files -> Nat]
  BY <1>1, <1>2
<1>4. \A f \in Files : tree[f] \in {0, repo[f], dist[f]}
  BY <1>2
<1>5. build[p] \notin {"rm", "copy"} => tree = dist
  BY <1>1, <1>2
<1> QED
  BY <1>3, <1>4, <1>5

\* What the actions that leave the browser alone have to show.
LEMMA LocalChanges ==
  ASSUME TypeInv, UNCHANGED browser,
         repo' \in [Files -> Nat], dist' \in [Files -> Nat], origin' \in [Files -> Nat],
         deployed' \in Nat, left' \in [Bounded -> Nat], LocalTypes',
         \A f \in Files : repo'[f] # 0, \A p \in Builders : rendered'[p] # 0
  PROVE  TypeInv'
BY DEF TypeInv, TypeOK, BrowserTypes, browser

\* What the actions of a visit have to show.
LEMMA BrowserChanges ==
  ASSUME TypeInv, UNCHANGED <<local, public>>, left' \in [Bounded -> Nat], BrowserTypes'
  PROVE  TypeInv'
BY DEF TypeInv, TypeOK, LocalTypes, local, public

\* What a build that starts leaves.
LEMMA StartTyped ==
  ASSUME TypeInv, NEW p \in Builders, StartBuild(p)
  PROVE  /\ build' = [build EXCEPT ![p] = "rm"]
         /\ rendered' \in [Builders -> Nat] /\ \A q \in Builders : rendered'[q] # 0
         /\ alone' \in [Builders -> BOOLEAN]
<1>1. rendered \in [Builders -> Nat] /\ repo["shell"] \in Nat \ {0} /\ \A q \in Builders : rendered[q] # 0
  BY DEF TypeInv, TypeOK, LocalTypes, Files
<1>2. rendered' = [rendered EXCEPT ![p] = repo["shell"]]
  BY DEF StartBuild
<1>3. rendered' \in [Builders -> Nat] /\ \A q \in Builders : rendered'[q] # 0
  BY <1>1, <1>2
<1> QED
  BY <1>3 DEF StartBuild

LEMMA TypeEdit == ASSUME TypeInv, Edit PROVE TypeInv'
<1>1. PICK f \in {"shell", "emulator"} : Change(f)
  BY DEF Edit
<1>2. f \in Files
  BY DEF Files, Copied
<1>3. repo' \in [Files -> Nat] /\ left' \in [Bounded -> Nat] /\ \A g \in Files : repo'[g] # 0
  BY <1>1, <1>2, ChangeKeeps
<1>4. UNCHANGED <<dist, build, rendered, script, server, alone, public, browser>>
  BY DEF Edit
<1> QED
  BY <1>3, <1>4, LocalChanges DEF TypeInv, TypeOK, LocalTypes, public

LEMMA TypeStartImage == ASSUME TypeInv, StartImage PROVE TypeInv'
<1>1. PICK f \in {"id", "guest"} : Change(f)
  BY DEF StartImage
<1>2. f \in Files
  BY DEF Files, Copied
<1>3. repo' \in [Files -> Nat] /\ left' \in [Bounded -> Nat] /\ \A g \in Files : repo'[g] # 0
  BY <1>1, <1>2, ChangeKeeps
<1>4. /\ script = "no" /\ script' = "image"
      /\ UNCHANGED <<dist, build, rendered, server, alone, public, browser>>
  BY DEF StartImage
<1>5. LocalTypes'
  BY <1>4 DEF TypeInv, TypeOK, LocalTypes
<1> QED
  BY <1>3, <1>4, <1>5, LocalChanges DEF TypeInv, TypeOK, LocalTypes, public

LEMMA TypeEndImage == ASSUME TypeInv, EndImage PROVE TypeInv'
<1>1. PICK n \in {repo["id"], repo["guest"]} : repo' = [repo EXCEPT !["id"] = n, !["guest"] = n]
  BY DEF EndImage
<1>2. "id" \in Files /\ "guest" \in Files
  BY DEF Files, Copied
<1>3. repo' \in [Files -> Nat] /\ \A g \in Files : repo'[g] # 0
  BY <1>1, <1>2 DEF TypeInv, TypeOK
<1>4. /\ script = "image" /\ script' = "version"
      /\ UNCHANGED <<dist, build, rendered, server, alone, public, browser, left>>
  BY DEF EndImage
<1>5. LocalTypes'
  BY <1>4 DEF TypeInv, TypeOK, LocalTypes
<1> QED
  BY <1>3, <1>4, <1>5, LocalChanges DEF TypeInv, TypeOK, LocalTypes, public

LEMMA TypeWriteVersion == ASSUME TypeInv, WriteVersion PROVE TypeInv'
<1>1. PICK v \in {repo["version"], repo["id"]} : repo' = [repo EXCEPT !["version"] = v]
  BY DEF WriteVersion
<1>2. "id" \in Files /\ "version" \in Files /\ "deploy" \in Builders
  BY DEF Files, Copied, Builders
<1>3. repo' \in [Files -> Nat] /\ \A g \in Files : repo'[g] # 0
  BY <1>1, <1>2 DEF TypeInv, TypeOK
<1>4. /\ script = "version" /\ script' = "build" /\ StartBuild("deploy")
      /\ UNCHANGED <<dist, server, public, browser, left>>
  BY DEF WriteVersion
<1>5. /\ build' = [build EXCEPT !["deploy"] = "rm"]
      /\ rendered' \in [Builders -> Nat] /\ \A q \in Builders : rendered'[q] # 0
      /\ alone' \in [Builders -> BOOLEAN]
  BY <1>2, <1>4, StartTyped
<1>6. LocalTypes'
  BY <1>4, <1>5 DEF TypeInv, TypeOK, LocalTypes, Builders
<1> QED
  BY <1>3, <1>4, <1>5, <1>6, LocalChanges DEF TypeInv, TypeOK, public

LEMMA TypeUpload == ASSUME TypeInv, Upload PROVE TypeInv'
<1>1. /\ script = "upload" /\ script' = "no" /\ origin' = dist /\ deployed' = deployed + 1
      /\ UNCHANGED <<repo, dist, build, rendered, server, alone, browser, left>>
  BY DEF Upload
<1>2. LocalTypes'
  BY <1>1 DEF TypeInv, TypeOK, LocalTypes
<1> QED
  BY <1>1, <1>2, LocalChanges DEF TypeInv, TypeOK, LocalTypes

LEMMA TypeCutDeploy == ASSUME TypeInv, CutDeploy PROVE TypeInv'
<1>1. "cuts" \in Bounded /\ "deploy" \in Builders
  BY DEF Bounded, Builders
<1>2. left' \in [Bounded -> Nat]
  BY <1>1, SpendKeeps DEF CutDeploy, TypeInv, TypeOK
<1>3. dist' \in [Files -> Nat]
  BY <1>1, PartialTyped DEF CutDeploy, TypeInv, TypeOK
<1>4. /\ script' = "no" /\ build' = [build EXCEPT !["deploy"] = "no"]
      /\ UNCHANGED <<repo, rendered, server, alone, public, browser>>
  BY DEF CutDeploy
<1>5. LocalTypes'
  BY <1>4 DEF TypeInv, TypeOK, LocalTypes, Builders
<1> QED
  BY <1>2, <1>3, <1>4, <1>5, LocalChanges DEF TypeInv, TypeOK, LocalTypes, public

LEMMA TypeRemove == ASSUME TypeInv, NEW p \in Builders, Remove(p) PROVE TypeInv'
<1>1. /\ build[p] = "rm" /\ dist' = Nothing /\ build' = [build EXCEPT ![p] = "copy"]
      /\ UNCHANGED <<repo, rendered, script, server, alone, public, browser, left>>
  BY DEF Remove
<1>2. dist' \in [Files -> Nat]
  BY <1>1 DEF Nothing
<1>3. LocalTypes'
  BY <1>1 DEF TypeInv, TypeOK, LocalTypes, Builders
<1> QED
  BY <1>1, <1>2, <1>3, LocalChanges DEF TypeInv, TypeOK, LocalTypes, public

LEMMA TypeCopy == ASSUME TypeInv, NEW p \in Builders, Copy(p) PROVE TypeInv'
<1>1. /\ build[p] = "copy" /\ build' = [build EXCEPT ![p] = "bundle"]
      /\ dist' = [f \in Files |-> IF f \in Copied THEN repo[f] ELSE dist[f]]
      /\ UNCHANGED <<repo, rendered, script, server, alone, public, browser, left>>
  BY DEF Copy
<1>2. dist' \in [Files -> Nat]
  BY <1>1 DEF TypeInv, TypeOK
<1>3. LocalTypes'
  BY <1>1 DEF TypeInv, TypeOK, LocalTypes, Builders
<1> QED
  BY <1>1, <1>2, <1>3, LocalChanges DEF TypeInv, TypeOK, LocalTypes, public

LEMMA TypeBundle == ASSUME TypeInv, NEW p \in Builders, Bundle(p) PROVE TypeInv'
<1>1. /\ build[p] = "bundle" /\ build' = [build EXCEPT ![p] = "index"]
      /\ dist' = [dist EXCEPT !["shell"] = repo["shell"]]
      /\ UNCHANGED <<repo, rendered, script, server, alone, public, browser, left>>
  BY DEF Bundle
<1>2. dist' \in [Files -> Nat]
  BY <1>1 DEF TypeInv, TypeOK, Files
<1>3. LocalTypes'
  BY <1>1 DEF TypeInv, TypeOK, LocalTypes, Builders
<1> QED
  BY <1>1, <1>2, <1>3, LocalChanges DEF TypeInv, TypeOK, LocalTypes, public

LEMMA TypeWriteIndex == ASSUME TypeInv, NEW p \in Builders, WriteIndex(p) PROVE TypeInv'
<1>1. /\ build[p] = "index" /\ build' = [build EXCEPT ![p] = "no"]
      /\ dist' = [dist EXCEPT !["index"] = rendered[p]]
      /\ IF p = "deploy" THEN script' = "upload" /\ UNCHANGED server
                         ELSE server' = "up" /\ UNCHANGED script
      /\ UNCHANGED <<repo, rendered, alone, public, browser, left>>
  BY DEF WriteIndex, Render, Listen
<1>2. dist' \in [Files -> Nat]
  BY <1>1 DEF TypeInv, TypeOK, LocalTypes, Files
<1>3. LocalTypes'
  <2>1. CASE p = "deploy"
    BY <1>1, <2>1 DEF TypeInv, TypeOK, LocalTypes, Builders
  <2>2. CASE p = "server"
    BY <1>1, <2>2 DEF TypeInv, TypeOK, LocalTypes, Builders
  <2> QED
    BY <2>1, <2>2 DEF Builders
<1> QED
  BY <1>1, <1>2, <1>3, LocalChanges DEF TypeInv, TypeOK, LocalTypes, public

LEMMA TypeStartServer == ASSUME TypeInv, StartServer PROVE TypeInv'
<1>1. "starts" \in Bounded /\ "server" \in Builders
  BY DEF Bounded, Builders
<1>2. left' \in [Bounded -> Nat]
  BY <1>1, SpendKeeps DEF StartServer, TypeInv, TypeOK
<1>3. /\ server' = "building" /\ StartBuild("server")
      /\ UNCHANGED <<repo, dist, script, public, browser>>
  BY DEF StartServer
<1>4. /\ build' = [build EXCEPT !["server"] = "rm"]
      /\ rendered' \in [Builders -> Nat] /\ \A q \in Builders : rendered'[q] # 0
      /\ alone' \in [Builders -> BOOLEAN]
  BY <1>1, <1>3, StartTyped
<1>5. LocalTypes'
  BY <1>3, <1>4 DEF TypeInv, TypeOK, LocalTypes, Builders
<1> QED
  BY <1>2, <1>3, <1>4, <1>5, LocalChanges DEF TypeInv, TypeOK, public

LEMMA TypeStopServer == ASSUME TypeInv, StopServer PROVE TypeInv'
<1>1. "cuts" \in Bounded /\ "server" \in Builders
  BY DEF Bounded, Builders
<1>2. left' \in [Bounded -> Nat]
  BY <1>1, SpendKeeps DEF StopServer, TypeInv, TypeOK
<1>3. dist' \in [Files -> Nat]
  BY <1>1, PartialTyped DEF StopServer, TypeInv, TypeOK
<1>4. /\ server' = "down" /\ build' = [build EXCEPT !["server"] = "no"]
      /\ UNCHANGED <<repo, rendered, script, alone, public, browser>>
  BY DEF StopServer
<1>5. LocalTypes'
  BY <1>4 DEF TypeInv, TypeOK, LocalTypes, Builders
<1> QED
  BY <1>2, <1>3, <1>4, <1>5, LocalChanges DEF TypeInv, TypeOK, LocalTypes, public

\* A fetch gives the visit a content and the cache an entry.
LEMMA FetchTyped ==
  ASSUME TypeInv, NEW f \in Kept, NEW of \in Files, Fetch(f, of)
  PROVE  BrowserTypes'
<1>1. /\ cache \in [Kept -> SUBSET [id : Nat, content : Nat]]
      /\ visit \in [step : Steps, of : Nat, linked : BOOLEAN, link : Nat, id : Nat, lib : Nat,
                    wasm : Nat, guest : Nat]
      /\ origin[of] \in Nat
  BY DEF TypeInv, TypeOK, BrowserTypes
<1> DEFINE kept == {e \in cache[f] : e.id = visit.id}
<1>2. PICK content \in (IF kept = {} THEN {origin[of]} ELSE {e.content : e \in kept}) :
        /\ visit' = [visit EXCEPT ![f] = content, !.step = f]
        /\ cache' = [cache EXCEPT ![f] = @ \union {[id |-> visit.id, content |-> content]}]
  BY DEF Fetch, Asset
<1>3. \A e \in kept : e.content \in Nat
  BY <1>1
<1>4. content \in Nat
  BY <1>1, <1>2, <1>3
<1> HIDE DEF kept
<1>5. cache' \in [Kept -> SUBSET [id : Nat, content : Nat]]
  <2> DEFINE entry == [id |-> visit.id, content |-> content]
  <2>1. entry \in [id : Nat, content : Nat]
    BY <1>1, <1>4
  <2>2. cache' = [cache EXCEPT ![f] = @ \union {entry}]
    BY <1>2
  <2> HIDE DEF entry
  <2>3. cache[f] \union {entry} \in SUBSET [id : Nat, content : Nat]
    BY <1>1, <2>1
  <2> QED
    BY <1>1, <2>2, <2>3
<1>6. visit' \in [step : Steps, of : Nat, linked : BOOLEAN, link : Nat, id : Nat, lib : Nat,
                  wasm : Nat, guest : Nat]
  <2>1. CASE f = "wasm"
    BY <1>1, <1>2, <1>4, <2>1 DEF Steps
  <2>2. CASE f = "guest"
    BY <1>1, <1>2, <1>4, <2>2 DEF Steps
  <2> QED
    BY <2>1, <2>2 DEF Kept
<1> QED
  BY <1>5, <1>6 DEF BrowserTypes

LEMMA TypeVisit == ASSUME TypeInv, Visit PROVE TypeInv'
<1>1. /\ origin \in [Files -> Nat] /\ deployed \in Nat /\ left \in [Bounded -> Nat]
      /\ cache \in [Kept -> SUBSET [id : Nat, content : Nat]]
      /\ visit \in [step : Steps, of : Nat, linked : BOOLEAN, link : Nat, id : Nat, lib : Nat,
                    wasm : Nat, guest : Nat]
  BY DEF TypeInv, TypeOK, BrowserTypes
<1>2. "wasm" \in Kept /\ "guest" \in Kept /\ {"emulator", "guest", "id", "version"} \subseteq Files
  BY DEF Kept, Files, Copied
<1>3. CASE OpenPage
  <2>1. left' \in [Bounded -> Nat]
    BY <1>1, <1>3, SpendKeeps DEF OpenPage, Bounded
  <2>2. BrowserTypes'
    BY <1>1, <1>3 DEF OpenPage, NoVisit, Dev, Steps, BrowserTypes
  <2> QED
    BY <1>3, <2>1, <2>2, BrowserChanges DEF OpenPage
<1>4. CASE ApplyReleaseLink
  <2>1. PICK v \in {origin["version"], 0} : visit' = [visit EXCEPT !.link = v, !.linked = TRUE]
    BY <1>4 DEF ApplyReleaseLink
  <2>2. v \in Nat /\ UNCHANGED cache
    BY <1>1, <1>2, <1>4 DEF ApplyReleaseLink
  <2>3. BrowserTypes'
    BY <1>1, <2>1, <2>2 DEF BrowserTypes
  <2> QED
    BY <1>1, <1>4, <2>3, BrowserChanges DEF ApplyReleaseLink
<1>5. CASE GetBuildId
  <2>1. PICK i \in {origin["id"], Dev} : visit' = [visit EXCEPT !.id = i, !.step = "named"]
    BY <1>5 DEF GetBuildId
  <2>2. i \in Nat /\ UNCHANGED cache
    BY <1>1, <1>2, <1>5 DEF GetBuildId, Dev
  <2>3. BrowserTypes'
    BY <1>1, <2>1, <2>2 DEF BrowserTypes, Steps
  <2> QED
    BY <1>1, <1>5, <2>3, BrowserChanges DEF GetBuildId
<1>6. CASE Import
  <2>1. BrowserTypes'
    BY <1>1, <1>2, <1>6 DEF Import, BrowserTypes, Steps
  <2> QED
    BY <1>1, <1>6, <2>1, BrowserChanges DEF Import
<1>7. CASE FetchWasm
  BY <1>1, <1>2, <1>7, FetchTyped, BrowserChanges DEF FetchWasm
<1>8. CASE FetchGuest
  BY <1>1, <1>2, <1>8, FetchTyped, BrowserChanges DEF FetchGuest
<1>9. CASE Boot
  <2>1. BrowserTypes'
    BY <1>1, <1>9 DEF Boot, BrowserTypes, Steps
  <2> QED
    BY <1>1, <1>9, <2>1, BrowserChanges DEF Boot
<1> QED
  BY <1>3, <1>4, <1>5, <1>6, <1>7, <1>8, <1>9 DEF Visit

LEMMA TypeEvict == ASSUME TypeInv, Evict PROVE TypeInv'
<1>1. PICK f \in Kept : \E e \in cache[f] : cache' = [cache EXCEPT ![f] = @ \ {e}]
  BY DEF Evict
<1>2. UNCHANGED <<local, public, visit, left>>
  BY DEF Evict
<1>3. BrowserTypes'
  BY <1>1, <1>2 DEF TypeInv, TypeOK, BrowserTypes
<1> QED
  BY <1>2, <1>3, BrowserChanges DEF TypeInv, TypeOK

LEMMA TypeInit == Init => TypeInv
<1> SUFFICES ASSUME Init PROVE TypeInv
  OBVIOUS
<1>1. repo \in [Files -> Nat] /\ dist \in [Files -> Nat] /\ origin \in [Files -> Nat]
  BY DEF Init, Nothing
<1>2. deployed \in Nat /\ left \in [Bounded -> Nat]
  BY ReleaseAssumption DEF Init
<1>3. LocalTypes
  BY DEF Init, LocalTypes, Builders
<1>4. BrowserTypes
  BY DEF Init, BrowserTypes, NoVisit, Dev, Steps
<1>5. (\A f \in Files : repo[f] # 0) /\ \A p \in Builders : rendered[p] # 0
  BY DEF Init
<1> QED
  BY <1>1, <1>2, <1>3, <1>4, <1>5 DEF TypeInv, TypeOK

LEMMA TypeStep == TypeInv /\ [Next]_vars => TypeInv'
<1> SUFFICES ASSUME TypeInv, [Next]_vars PROVE TypeInv'
  OBVIOUS
<1>1. CASE UNCHANGED vars
  BY <1>1 DEF TypeInv, TypeOK, LocalTypes, BrowserTypes, vars, local, public, browser
<1>2. CASE \E p \in Builders : Remove(p) \/ Copy(p) \/ Bundle(p) \/ WriteIndex(p)
  BY <1>2, TypeRemove, TypeCopy, TypeBundle, TypeWriteIndex
<1>3. CASE StartImage \/ EndImage \/ WriteVersion \/ Upload \/ CutDeploy
  BY <1>3, TypeStartImage, TypeEndImage, TypeWriteVersion, TypeUpload, TypeCutDeploy
<1> QED
  BY <1>1, <1>2, <1>3, TypeEdit, TypeStartServer, TypeStopServer, TypeVisit, TypeEvict
  DEF Next, Build, Deploy

LEMMA TypesHold == Spec => []TypeInv
BY TypeInit, TypeStep, PTL DEF Spec

\* Every reachable state has the types of the model, and a process builds
\* exactly while its caller waits for it (buildSite, package.json).
THEOREM ReleaseTypes == Spec => []TypeOK
<1>1. TypeInv => TypeOK
  BY DEF TypeInv
<1> QED
  BY <1>1, TypesHold, PTL

(* Builds                                                                  *)

\* How much of dist a build that has met nobody has filled.
Filled(p) ==
  /\ build[p] \in {"bundle", "index"} => \A f \in Copied : dist[f] # 0
  /\ build[p] = "index" => dist["shell"] # 0
  /\ p = "deploy" /\ script = "upload" => Whole(dist)
  /\ p = "server" /\ server = "up" => Whole(dist)

\* The deployment's dist holds the image that its id names.
Named ==
  build["deploy"] \in {"bundle", "index"} \/ script = "upload" => dist["guest"] = dist["id"]

BuildInv ==
  /\ \A p \in Builders : alone[p] => Filled(p) /\ \A q \in Builders \ {p} : build[q] = "no"
  /\ script \in {"version", "build", "upload"} => repo["guest"] = repo["id"]
  /\ alone["deploy"] => Named

(* Visits                                                                  *)

\* An id that has been given to browsers is not that of the image being built.
Older(i) ==
  /\ i <= repo["id"]
  /\ script = "image" => i < repo["id"] \/ i < repo["guest"]
  /\ script \in {"version", "build", "upload"} => i < repo["id"]

\* Every id names one build of the image: the id of the next one is new.
FreshInv ==
  /\ Older(visit.id) /\ Older(origin["id"]) /\ \A f \in Kept : \A e \in cache[f] : Older(e.id)
  /\ build["deploy"] \in {"bundle", "index"} \/ script = "upload" => dist["id"] \in {Dev, repo["id"]}

\* The origin's file for what the browser keeps as f.
Deployed(f) == IF f = "wasm" THEN origin["emulator"] ELSE origin["guest"]

\* What the browser keeps under the deployed id is what is deployed.
CacheFits ==
  \A f \in Kept : \A e \in cache[f] : e.id = origin["id"] /\ e.id # Dev => e.content = Deployed(f)

\* What a visit of the current deployment has been given so far.
VisitFits ==
  visit.of = deployed =>
    /\ visit.link \in {origin["version"], 0}
    /\ visit.id # Dev =>
         /\ visit.id = origin["id"]
         /\ visit.step \in {"lib", "wasm", "guest", "done"} => visit.lib = origin["emulator"]
         /\ visit.step \in {"wasm", "guest", "done"} => visit.wasm = origin["emulator"]
         /\ visit.step \in {"guest", "done"} => visit.guest = origin["guest"]

VisitInv == CacheFits /\ VisitFits /\ visit.of <= deployed

-----------------------------------------------------------------------------
(* The proofs about builds                                                 *)

\* All files a page asks for are there when all files are.
LEMMA WholeIs ==
  ASSUME NEW tree
  PROVE  Whole(tree) <=> (\A f \in Copied : tree[f] # 0) /\ tree["shell"] # 0 /\ tree["index"] # 0
BY DEF Whole, References, HeadTags, BodyTags, ClientEntry, Copied

\* An action that touches neither dist, nor the builds, nor the image.
LEMMA BuildElsewhere ==
  ASSUME BuildInv, UNCHANGED <<dist, build, script, server, alone>>,
         repo'["guest"] = repo["guest"], repo'["id"] = repo["id"]
  PROVE  BuildInv'
BY DEF BuildInv, Filled, Named

\* While one builds alone, nobody else's build changes dist.
LEMMA NotAlone ==
  ASSUME BuildInv, NEW p \in Builders, NEW q \in Builders \ {p}, build[p] # "no"
  PROVE  ~alone[q]
BY DEF BuildInv

\* Who builds into dist answers only for itself.
LEMMA BuildBy ==
  ASSUME BuildInv, NEW p \in Builders, build[p] # "no",
         UNCHANGED <<repo, alone>>, alone[p] => Filled(p)',
         \A q \in Builders \ {p} : build'[q] = build[q],
         script' \in {"version", "build", "upload"} => script \in {"version", "build", "upload"},
         p = "deploy" /\ alone["deploy"] => Named'
  PROVE  BuildInv'
<1>1. \A q \in Builders \ {p} : ~alone'[q]
  BY NotAlone
<1>2. \A q \in Builders : alone'[q] => Filled(q)' /\ \A r \in Builders \ {q} : build'[r] = "no"
  BY <1>1 DEF BuildInv
<1>3. script' \in {"version", "build", "upload"} => repo'["guest"] = repo'["id"]
  BY DEF BuildInv
<1>4. alone'["deploy"] => p = "deploy"
  BY <1>1 DEF Builders
<1> QED
  BY <1>2, <1>3, <1>4 DEF BuildInv

\* What a process that builds has not finished.
LEMMA Building ==
  ASSUME TypeInv, NEW p \in Builders, build[p] # "no"
  PROVE  /\ p = "deploy" => script = "build"
         /\ p = "server" => server = "building"
         /\ build \in [Builders -> {"no", "rm", "copy", "bundle", "index"}]
BY DEF TypeInv, TypeOK, LocalTypes

LEMMA BuildRemove == ASSUME TypeInv, BuildInv, NEW p \in Builders, Remove(p) PROVE BuildInv'
<1>1. /\ build[p] = "rm" /\ build' = [build EXCEPT ![p] = "copy"]
      /\ UNCHANGED <<repo, rendered, script, server, alone>>
  BY DEF Remove
<1>2. build'[p] = "copy" /\ \A q \in Builders \ {p} : build'[q] = build[q]
  BY <1>1, Building
<1>3. Filled(p)'
  BY <1>1, <1>2, Building DEF Filled
<1>4. p = "deploy" => Named'
  BY <1>1, <1>2, Building DEF Named
<1> QED
  BY <1>1, <1>2, <1>3, <1>4, BuildBy

LEMMA BuildCopy == ASSUME TypeInv, BuildInv, NEW p \in Builders, Copy(p) PROVE BuildInv'
<1>1. /\ build[p] = "copy" /\ build' = [build EXCEPT ![p] = "bundle"]
      /\ dist' = [f \in Files |-> IF f \in Copied THEN repo[f] ELSE dist[f]]
      /\ UNCHANGED <<repo, rendered, script, server, alone>>
  BY DEF Copy
<1>2. build'[p] = "bundle" /\ \A q \in Builders \ {p} : build'[q] = build[q]
  BY <1>1, Building
<1>3. \A f \in Copied : f \in Files /\ dist'[f] = repo[f] /\ dist'[f] # 0
  BY <1>1 DEF TypeInv, Files
<1>4. Filled(p)'
  BY <1>1, <1>2, <1>3, Building DEF Filled
<1>5. p = "deploy" => Named'
  <2>1. p = "deploy" => repo["guest"] = repo["id"]
    BY <1>1, Building DEF BuildInv
  <2> QED
    BY <1>3, <2>1 DEF Named, Copied
<1> QED
  BY <1>1, <1>2, <1>4, <1>5, BuildBy

LEMMA BuildBundle == ASSUME TypeInv, BuildInv, NEW p \in Builders, Bundle(p) PROVE BuildInv'
<1>1. /\ build[p] = "bundle" /\ build' = [build EXCEPT ![p] = "index"]
      /\ dist' = [dist EXCEPT !["shell"] = repo["shell"]]
      /\ UNCHANGED <<repo, rendered, script, server, alone>>
  BY DEF Bundle
<1>2. build'[p] = "index" /\ \A q \in Builders \ {p} : build'[q] = build[q]
  BY <1>1, Building
<1>3. dist'["shell"] # 0 /\ \A f \in Copied : dist'[f] = dist[f]
  BY <1>1 DEF TypeInv, TypeOK, Files, Copied
<1>4. alone[p] => Filled(p)'
  <2>1. alone[p] => \A f \in Copied : dist[f] # 0
    BY <1>1 DEF BuildInv, Filled
  <2> QED
    BY <1>1, <1>2, <1>3, <2>1, Building DEF Filled
<1>5. p = "deploy" /\ alone["deploy"] => Named'
  <2>1. p = "deploy" /\ alone["deploy"] => dist["guest"] = dist["id"]
    BY <1>1 DEF BuildInv, Named
  <2> QED
    BY <1>3, <2>1 DEF Named, Copied
<1> QED
  BY <1>1, <1>2, <1>4, <1>5, BuildBy

LEMMA BuildWriteIndex == ASSUME TypeInv, BuildInv, NEW p \in Builders, WriteIndex(p) PROVE BuildInv'
<1>1. /\ build[p] = "index" /\ build' = [build EXCEPT ![p] = "no"]
      /\ dist' = [dist EXCEPT !["index"] = rendered[p]]
      /\ IF p = "deploy" THEN script' = "upload" /\ UNCHANGED server
                         ELSE server' = "up" /\ UNCHANGED script
      /\ UNCHANGED <<repo, rendered, alone>>
  BY DEF WriteIndex, Render, Listen
<1>2. build'[p] = "no" /\ \A q \in Builders \ {p} : build'[q] = build[q]
  BY <1>1, Building
<1>3. /\ dist'["index"] # 0 /\ dist'["shell"] = dist["shell"]
      /\ \A f \in Copied : dist'[f] = dist[f]
  BY <1>1 DEF TypeInv, TypeOK, Files, Copied
<1>4. alone[p] => Filled(p)'
  <2>1. alone[p] => dist["shell"] # 0 /\ \A f \in Copied : dist[f] # 0
    BY <1>1 DEF BuildInv, Filled
  <2>2. alone[p] => Whole(dist')
    BY <1>3, <2>1, WholeIs
  <2> QED
    BY <1>2, <2>2 DEF Filled, Whole
<1>5. p = "deploy" /\ alone["deploy"] => Named'
  <2>1. p = "deploy" /\ alone["deploy"] => dist["guest"] = dist["id"]
    BY <1>1 DEF BuildInv, Named
  <2> QED
    BY <1>3, <2>1 DEF Named, Copied
<1>6. script' \in {"version", "build", "upload"} => script \in {"version", "build", "upload"}
  BY <1>1, Building
<1> QED
  BY <1>1, <1>2, <1>4, <1>5, <1>6, BuildBy

LEMMA BuildStartImage == ASSUME TypeInv, BuildInv, StartImage PROVE BuildInv'
<1>1. /\ script = "no" /\ script' = "image"
      /\ UNCHANGED <<dist, build, rendered, server, alone>>
  BY DEF StartImage
<1> QED
  BY <1>1 DEF BuildInv, Filled, Named

LEMMA BuildEndImage == ASSUME TypeInv, BuildInv, EndImage PROVE BuildInv'
<1>1. /\ script = "image" /\ script' = "version"
      /\ UNCHANGED <<dist, build, rendered, server, alone>>
  BY DEF EndImage
<1>2. repo'["guest"] = repo'["id"]
  BY DEF EndImage, TypeInv, TypeOK, Files, Copied
<1> QED
  BY <1>1, <1>2 DEF BuildInv, Filled, Named

\* A build that starts takes the others' claim to dist.
LEMMA BuildStarted ==
  ASSUME TypeInv, BuildInv, NEW p \in Builders, StartBuild(p),
         p = "deploy" => script' = "build", p = "server" => server' = "building"
  PROVE  /\ \A q \in Builders : alone'[q] => Filled(q)' /\ \A r \in Builders \ {q} : build'[r] = "no"
         /\ build'[p] = "rm" /\ \A q \in Builders \ {p} : build'[q] = build[q] /\ ~alone'[q]
<1>1. build' = [build EXCEPT ![p] = "rm"]
      /\ alone' = [q \in Builders |-> q = p /\ \A r \in Builders \ {p} : build[r] = "no"]
  BY DEF StartBuild
<1>2. build'[p] = "rm" /\ \A q \in Builders \ {p} : build'[q] = build[q]
  BY <1>1 DEF TypeInv, TypeOK, LocalTypes
<1>3. Filled(p)'
  BY <1>2 DEF Filled
<1>4. \A q \in Builders : alone'[q] => q = p /\ \A r \in Builders \ {p} : build[r] = "no"
  BY <1>1
<1> QED
  BY <1>2, <1>3, <1>4

LEMMA BuildWriteVersion == ASSUME TypeInv, BuildInv, WriteVersion PROVE BuildInv'
<1>1. script = "version" /\ script' = "build" /\ StartBuild("deploy") /\ "deploy" \in Builders
  BY DEF WriteVersion, Builders
<1>2. repo'["guest"] = repo["guest"] /\ repo'["id"] = repo["id"]
  BY DEF WriteVersion, TypeInv, TypeOK, Files, Copied
<1>3. repo["guest"] = repo["id"]
  BY <1>1 DEF BuildInv
<1>4. /\ \A q \in Builders : alone'[q] => Filled(q)' /\ \A r \in Builders \ {q} : build'[r] = "no"
      /\ build'["deploy"] = "rm"
  BY <1>1, BuildStarted
<1>5. Named'
  BY <1>1, <1>4 DEF Named
<1> QED
  BY <1>2, <1>3, <1>4, <1>5 DEF BuildInv

LEMMA BuildStartServer == ASSUME TypeInv, BuildInv, StartServer PROVE BuildInv'
<1>1. /\ server' = "building" /\ StartBuild("server") /\ "server" \in Builders
      /\ UNCHANGED <<repo, dist, script>>
  BY DEF StartServer, Builders
<1>2. /\ \A q \in Builders : alone'[q] => Filled(q)' /\ \A r \in Builders \ {q} : build'[r] = "no"
      /\ ~alone'["deploy"]
  BY <1>1, BuildStarted DEF Builders
<1> QED
  BY <1>1, <1>2 DEF BuildInv

LEMMA BuildUpload == ASSUME TypeInv, BuildInv, Upload PROVE BuildInv'
<1>1. script' = "no" /\ script = "upload" /\ UNCHANGED <<repo, dist, build, rendered, server, alone>>
  BY DEF Upload
<1> QED
  BY <1>1 DEF BuildInv, Filled, Named

LEMMA BuildCutDeploy == ASSUME TypeInv, BuildInv, CutDeploy PROVE BuildInv'
<1>1. /\ script' = "no" /\ build' = [build EXCEPT !["deploy"] = "no"] /\ "deploy" \in Builders
      /\ UNCHANGED <<repo, rendered, server, alone>>
  BY DEF CutDeploy, Builders
<1>2. build'["deploy"] = "no" /\ \A q \in Builders \ {"deploy"} : build'[q] = build[q]
  BY <1>1 DEF TypeInv, TypeOK, LocalTypes
<1>3. Filled("deploy")' /\ Named'
  BY <1>1, <1>2 DEF Filled, Named
<1>4. CASE build["deploy"] # "no"
  BY <1>1, <1>2, <1>3, <1>4, BuildBy
<1>5. CASE build["deploy"] = "no"
  <2>1. dist' = dist
    BY <1>5 DEF CutDeploy, TypeInv, TypeOK, LocalTypes
  <2>2. build' = build
    BY <1>1, <1>5 DEF TypeInv, TypeOK, LocalTypes
  <2> QED
    BY <1>1, <1>3, <2>1, <2>2 DEF BuildInv, Filled
<1> QED
  BY <1>4, <1>5

LEMMA BuildStopServer == ASSUME TypeInv, BuildInv, StopServer PROVE BuildInv'
<1>1. /\ server' = "down" /\ build' = [build EXCEPT !["server"] = "no"] /\ "server" \in Builders
      /\ UNCHANGED <<repo, rendered, script, alone>>
  BY DEF StopServer, Builders
<1>2. build'["server"] = "no" /\ \A q \in Builders \ {"server"} : build'[q] = build[q]
  BY <1>1 DEF TypeInv, TypeOK, LocalTypes
<1>3. Filled("server")'
  BY <1>1, <1>2 DEF Filled
<1>4. CASE build["server"] # "no"
  BY <1>1, <1>2, <1>3, <1>4, BuildBy
<1>5. CASE build["server"] = "no"
  <2>1. dist' = dist
    BY <1>5 DEF StopServer, TypeInv, TypeOK, LocalTypes
  <2>2. build' = build
    BY <1>1, <1>5 DEF TypeInv, TypeOK, LocalTypes
  <2> QED
    BY <1>1, <1>3, <2>1, <2>2 DEF BuildInv, Filled, Named
<1> QED
  BY <1>4, <1>5

LEMMA BuildInit == Init => BuildInv
BY DEF Init, BuildInv, Filled, Named, Builders

LEMMA BuildStep == TypeInv /\ BuildInv /\ [Next]_vars => BuildInv'
<1> SUFFICES ASSUME TypeInv, BuildInv, [Next]_vars PROVE BuildInv'
  OBVIOUS
<1>1. CASE UNCHANGED vars
  BY <1>1, BuildElsewhere DEF vars, local
<1>2. CASE \E p \in Builders : Remove(p) \/ Copy(p) \/ Bundle(p) \/ WriteIndex(p)
  BY <1>2, BuildRemove, BuildCopy, BuildBundle, BuildWriteIndex
<1>3. CASE StartImage \/ EndImage \/ WriteVersion \/ Upload \/ CutDeploy
  BY <1>3, BuildStartImage, BuildEndImage, BuildWriteVersion, BuildUpload, BuildCutDeploy
<1>4. CASE Visit \/ Evict
  BY <1>4, BuildElsewhere
  DEF Visit, Evict, OpenPage, ApplyReleaseLink, GetBuildId, Import, FetchWasm, FetchGuest, Boot, local
<1>5. CASE Edit
  <2>1. PICK f \in {"shell", "emulator"} : Change(f)
    BY <1>5 DEF Edit
  <2>2. repo'["guest"] = repo["guest"] /\ repo'["id"] = repo["id"]
    BY <2>1, ChangeKeeps DEF Files, Copied
  <2> QED
    BY <1>5, <2>2, BuildElsewhere DEF Edit
<1> QED
  BY <1>1, <1>2, <1>3, <1>4, <1>5, BuildStartServer, BuildStopServer DEF Next, Build, Deploy

LEMMA BuildsHold == Spec => []BuildInv
BY TypesHold, BuildInit, BuildStep, PTL DEF Spec

\* A server that is up and has built alone has every file its page asks for
\* (handler, buildSite).
THEOREM ServerHasItsPage == Spec => []ServesItsPage
<1>1. BuildInv => ServesItsPage
  BY DEF BuildInv, Builders, Filled, Whole, ServesItsPage, Handler
<1> QED
  BY <1>1, BuildsHold, PTL

\* A deployment is whole, and its image is the one its id names, whatever
\* failed before it (package.json, buildSite).
THEOREM DeploymentsAreWhole == Spec => DeployedIsWhole
<1>1. ASSUME BuildInv, [Next]_vars, origin' # origin, alone["deploy"]
      PROVE  Whole(origin') /\ origin'["guest"] = origin'["id"]
  <2>1. CASE Upload
    BY <1>1, <2>1 DEF Upload, BuildInv, Builders, Filled, Named
  <2>2. CASE ~Upload
    <3>1. UNCHANGED origin
      BY <1>1, <2>2 DEF Next, Edit, Build, Remove, Copy, Bundle, WriteIndex, Deploy, StartImage,
        EndImage, WriteVersion, CutDeploy, StartServer, StopServer, Visit, OpenPage, ApplyReleaseLink,
        GetBuildId, Import, FetchWasm, FetchGuest, Boot, Evict, vars, public
    <3> QED
      BY <1>1, <3>1
  <2> QED
    BY <2>1, <2>2
<1>2. BuildInv /\ [Next]_vars => [origin' # origin /\ alone["deploy"] =>
                                    Whole(origin') /\ origin'["guest"] = origin'["id"]]_vars
  BY <1>1
<1> QED
  BY <1>2, BuildsHold, PTL DEF Spec, DeployedIsWhole

-----------------------------------------------------------------------------
(* The proofs about visits                                                 *)

LEMMA IdsTyped ==
  ASSUME TypeInv
  PROVE  /\ repo["id"] \in Nat /\ repo["id"] # 0 /\ repo["guest"] \in Nat
         /\ visit.id \in Nat /\ origin["id"] \in Nat
         /\ \A f \in Kept : \A e \in cache[f] : e.id \in Nat
BY DEF TypeInv, TypeOK, BrowserTypes, Files, Copied

\* An action that gives the browser no id but those it has seen and "dev".
LEMMA FreshVisit ==
  ASSUME TypeInv, FreshInv, UNCHANGED <<local, public>>,
         visit'.id \in {visit.id, origin["id"], Dev},
         \A f \in Kept : \A e \in cache'[f] : e \in cache[f] \/ e.id = visit.id
  PROVE  FreshInv'
<1>1. /\ UNCHANGED <<repo, script, build, dist, origin>>
  BY DEF local, public
<1>2. Older(Dev)
  BY IdsTyped DEF Older, Dev
<1>3. Older(visit'.id) /\ Older(origin["id"]) /\ \A f \in Kept : \A e \in cache'[f] : Older(e.id)
  BY <1>2 DEF FreshInv
<1>4. \A i : Older(i)' <=> Older(i)
  BY <1>1 DEF Older
<1> QED
  BY <1>1, <1>3, <1>4 DEF FreshInv

\* An action of the repository or the deployment, by what it does to the ids.
LEMMA FreshLocal ==
  ASSUME TypeInv, FreshInv, UNCHANGED browser,
         Older(origin["id"])',
         \A i \in Nat : Older(i) => Older(i)',
         build'["deploy"] \in {"bundle", "index"} \/ script' = "upload" => dist'["id"] \in {Dev, repo'["id"]}
  PROVE  FreshInv'
BY IdsTyped DEF FreshInv, browser

LEMMA FreshStartImage == ASSUME TypeInv, FreshInv, StartImage PROVE FreshInv'
<1>1. PICK f \in {"id", "guest"} : Change(f)
  BY DEF StartImage
<1>2. script = "no" /\ script' = "image" /\ UNCHANGED <<dist, build, origin, browser>>
  BY DEF StartImage, public
<1>3. /\ repo["id"] <= repo'["id"] /\ repo["id"] < repo'[f]
      /\ repo'["id"] \in Nat /\ repo'["guest"] \in Nat
  BY <1>1, ChangeKeeps DEF Files, Copied
<1>4. ASSUME NEW i \in Nat, Older(i) PROVE Older(i)'
  <2>1. i <= repo["id"] /\ repo["id"] \in Nat
    BY <1>4, IdsTyped DEF Older
  <2>2. i <= repo'["id"]
    BY <1>3, <2>1
  <2>3. i < repo'["id"] \/ i < repo'["guest"]
    BY <1>3, <2>1
  <2> QED
    BY <1>2, <2>2, <2>3 DEF Older
<1>5. build'["deploy"] = "no"
  BY <1>2 DEF TypeInv, TypeOK, LocalTypes, Builders
<1>6. Older(origin["id"])'
  BY <1>2, <1>4, IdsTyped DEF FreshInv
<1> QED
  BY <1>2, <1>4, <1>5, <1>6, FreshLocal

LEMMA FreshEndImage == ASSUME TypeInv, FreshInv, EndImage PROVE FreshInv'
<1>1. PICK n \in {repo["id"], repo["guest"]} :
        /\ repo["id"] <= n /\ repo["guest"] <= n
        /\ repo' = [repo EXCEPT !["id"] = n, !["guest"] = n]
  BY DEF EndImage
<1>2. script = "image" /\ script' = "version" /\ UNCHANGED <<dist, build, origin, browser>>
  BY DEF EndImage, public
<1>3. repo'["id"] = n /\ n \in Nat
  BY <1>1, IdsTyped DEF TypeInv, TypeOK, Files, Copied
<1>4. ASSUME NEW i \in Nat, Older(i) PROVE Older(i)'
  <2>1. i < repo["id"] \/ i < repo["guest"]
    BY <1>2, <1>4 DEF Older
  <2>2. i < n /\ i <= n
    BY <1>1, <1>3, <2>1, IdsTyped
  <2> QED
    BY <1>2, <1>3, <2>2 DEF Older
<1>5. build'["deploy"] = "no"
  BY <1>2 DEF TypeInv, TypeOK, LocalTypes, Builders
<1>6. Older(origin["id"])'
  BY <1>2, <1>4, IdsTyped DEF FreshInv
<1> QED
  BY <1>2, <1>4, <1>5, <1>6, FreshLocal

\* Actions that leave the image and the deployment's id alone.
LEMMA FreshSame ==
  ASSUME TypeInv, FreshInv, UNCHANGED <<browser, origin>>,
         repo'["id"] = repo["id"], repo'["guest"] = repo["guest"],
         script' = "image" => script = "image",
         script' \in {"version", "build", "upload"} => script \in {"version", "build", "upload"},
         build'["deploy"] \in {"bundle", "index"} \/ script' = "upload" => dist'["id"] \in {Dev, repo["id"]}
  PROVE  FreshInv'
<1>1. \A i \in Nat : Older(i) => Older(i)'
  BY DEF Older
<1>2. Older(origin["id"])'
  BY <1>1, IdsTyped DEF FreshInv
<1> QED
  BY <1>1, <1>2, FreshLocal

LEMMA FreshUpload == ASSUME TypeInv, FreshInv, Upload PROVE FreshInv'
<1>1. /\ script = "upload" /\ script' = "no" /\ origin' = dist
      /\ UNCHANGED <<repo, dist, build, browser>>
  BY DEF Upload
<1>2. \A i \in Nat : Older(i) => Older(i)'
  BY <1>1 DEF Older
<1>3. dist["id"] \in {Dev, repo["id"]}
  BY <1>1 DEF FreshInv
<1>4. Older(origin["id"])'
  BY <1>1, <1>3, IdsTyped DEF Older, Dev
<1>5. build'["deploy"] = "no"
  BY <1>1 DEF TypeInv, TypeOK, LocalTypes, Builders
<1> QED
  BY <1>1, <1>2, <1>4, <1>5, FreshLocal

LEMMA FreshBuild ==
  ASSUME TypeInv, FreshInv, NEW p \in Builders, Remove(p) \/ Copy(p) \/ Bundle(p) \/ WriteIndex(p)
  PROVE  FreshInv'
<1>1. UNCHANGED <<repo, browser, origin>> /\ build[p] # "no"
  BY DEF Remove, Copy, Bundle, WriteIndex, public
<1>2. script' = script \/ (p = "deploy" /\ script' = "upload")
  BY DEF Remove, Copy, Bundle, WriteIndex
<1>3. p = "deploy" => script = "build"
  BY <1>1, Building
<1>4. ASSUME build'["deploy"] \in {"bundle", "index"} \/ script' = "upload"
      PROVE  dist'["id"] \in {Dev, repo["id"]}
  <2>1. build \in [Builders -> {"no", "rm", "copy", "bundle", "index"}] /\ "deploy" \in Builders
        /\ dist \in [Files -> Nat] /\ "id" \in Files /\ "id" \in Copied
    BY DEF TypeInv, TypeOK, LocalTypes, Builders, Files, Copied
  <2>2. CASE Remove(p)
    BY <2>1, <2>2 DEF Remove, Nothing, Dev
  <2>3. CASE Copy(p)
    BY <2>1, <2>3 DEF Copy
  <2>4. CASE Bundle(p)
    <3>1. build["deploy"] \in {"bundle", "index"} \/ script = "upload"
      BY <1>4, <2>1, <2>4 DEF Bundle
    <3>2. dist'["id"] = dist["id"]
      BY <2>1, <2>4 DEF Bundle
    <3> QED
      BY <3>1, <3>2 DEF FreshInv
  <2>5. CASE WriteIndex(p)
    <3>1. build["deploy"] \in {"bundle", "index"} \/ script = "upload"
      <4>1. CASE p = "deploy"
        BY <2>5, <4>1 DEF WriteIndex
      <4>2. CASE p # "deploy"
        BY <1>2, <1>4, <2>1, <2>5, <4>2 DEF WriteIndex
      <4> QED
        BY <4>1, <4>2
    <3>2. dist'["id"] = dist["id"]
      BY <2>1, <2>5 DEF WriteIndex
    <3> QED
      BY <3>1, <3>2 DEF FreshInv
  <2> QED
    BY <2>2, <2>3, <2>4, <2>5
<1> QED
  BY <1>1, <1>2, <1>3, <1>4, FreshSame

LEMMA FreshRest ==
  ASSUME TypeInv, FreshInv, Edit \/ WriteVersion \/ CutDeploy \/ StartServer \/ StopServer
  PROVE  FreshInv'
<1>1. CASE Edit
  <2>1. PICK f \in {"shell", "emulator"} : Change(f)
    BY <1>1 DEF Edit
  <2>2. repo'["guest"] = repo["guest"] /\ repo'["id"] = repo["id"]
    BY <2>1, ChangeKeeps DEF Files, Copied
  <2>3. UNCHANGED <<browser, origin, script, build, dist>>
    BY <1>1 DEF Edit, public
  <2> QED
    BY <2>2, <2>3, FreshSame DEF FreshInv
<1>2. CASE WriteVersion
  <2>1. repo'["guest"] = repo["guest"] /\ repo'["id"] = repo["id"]
    BY <1>2 DEF WriteVersion, TypeInv, TypeOK, Files, Copied
  <2>2. script = "version" /\ script' = "build" /\ UNCHANGED <<browser, origin>>
    BY <1>2 DEF WriteVersion, public
  <2>3. build'["deploy"] = "rm"
    BY <1>2 DEF WriteVersion, StartBuild, TypeInv, TypeOK, LocalTypes, Builders
  <2> QED
    BY <2>1, <2>2, <2>3, FreshSame
<1>3. CASE CutDeploy
  <2>1. script' = "no" /\ UNCHANGED <<repo, browser, origin>>
    BY <1>3 DEF CutDeploy, public
  <2>2. build'["deploy"] = "no"
    BY <1>3 DEF CutDeploy, TypeInv, TypeOK, LocalTypes, Builders
  <2> QED
    BY <2>1, <2>2, FreshSame
<1>4. CASE StartServer
  <2>1. UNCHANGED <<repo, script, dist, browser, origin>>
    BY <1>4 DEF StartServer, public
  <2>2. build'["deploy"] = build["deploy"]
    BY <1>4 DEF StartServer, StartBuild, TypeInv, TypeOK, LocalTypes, Builders
  <2> QED
    BY <2>1, <2>2, FreshSame DEF FreshInv
<1>5. CASE StopServer
  <2>1. UNCHANGED <<repo, script, browser, origin>>
    BY <1>5 DEF StopServer, public
  <2>2. build'["deploy"] = build["deploy"]
    BY <1>5 DEF StopServer, TypeInv, TypeOK, LocalTypes, Builders
  <2>3. dist'["id"] \in {Dev, repo["id"], dist["id"]}
    BY <1>5, PartialTyped DEF StopServer, Builders, Files, Copied, Dev
  <2> QED
    BY <2>1, <2>2, <2>3, FreshSame DEF FreshInv
<1> QED
  BY <1>1, <1>2, <1>3, <1>4, <1>5

\* The content that a fetch gives, and the entry it leaves.
LEMMA Fetched ==
  ASSUME TypeInv, NEW f \in Kept, NEW of \in Files, Fetch(f, of)
  PROVE  \E content \in Nat :
           /\ content = origin[of] \/ \E e \in cache[f] : e.id = visit.id /\ e.content = content
           /\ visit' = [visit EXCEPT ![f] = content, !.step = f]
           /\ cache' = [cache EXCEPT ![f] = @ \union {[id |-> visit.id, content |-> content]}]
<1>1. cache \in [Kept -> SUBSET [id : Nat, content : Nat]] /\ origin[of] \in Nat
  BY DEF TypeInv, TypeOK, BrowserTypes
<1> DEFINE kept == {e \in cache[f] : e.id = visit.id}
<1>2. PICK content \in (IF kept = {} THEN {origin[of]} ELSE {e.content : e \in kept}) :
        /\ visit' = [visit EXCEPT ![f] = content, !.step = f]
        /\ cache' = [cache EXCEPT ![f] = @ \union {[id |-> visit.id, content |-> content]}]
  BY DEF Fetch, Asset
<1>3. content = origin[of] \/ \E e \in cache[f] : e.id = visit.id /\ e.content = content
  BY <1>2
<1>4. content \in Nat
  BY <1>1, <1>3
<1> QED
  BY <1>2, <1>3, <1>4

\* A new entry is under the id of the visit.
LEMMA EntryId ==
  ASSUME TypeInv, NEW f \in Kept, NEW content \in Nat,
         cache' = [cache EXCEPT ![f] = @ \union {[id |-> visit.id, content |-> content]}]
  PROVE  \A g \in Kept : \A e \in cache'[g] :
           e \in cache[g] \/ (g = f /\ e.id = visit.id /\ e.content = content)
<1> DEFINE entry == [id |-> visit.id, content |-> content]
<1>1. cache \in [Kept -> SUBSET [id : Nat, content : Nat]]
  BY DEF TypeInv, TypeOK, BrowserTypes
<1>2. entry.id = visit.id /\ entry.content = content
  OBVIOUS
<1>3. cache' = [cache EXCEPT ![f] = @ \union {entry}]
  OBVIOUS
<1> HIDE DEF entry
<1> QED
  BY <1>1, <1>2, <1>3

LEMMA FreshBrowser == ASSUME TypeInv, FreshInv, Visit \/ Evict PROVE FreshInv'
<1>1. visit \in [step : Steps, of : Nat, linked : BOOLEAN, link : Nat, id : Nat, lib : Nat,
                 wasm : Nat, guest : Nat]
      /\ cache \in [Kept -> SUBSET [id : Nat, content : Nat]]
  BY DEF TypeInv, TypeOK, BrowserTypes
<1>2. "wasm" \in Kept /\ "guest" \in Kept /\ "emulator" \in Files /\ "guest" \in Files
  BY DEF Kept, Files, Copied
<1>3. UNCHANGED <<local, public>>
  BY DEF Visit, Evict, OpenPage, ApplyReleaseLink, GetBuildId, Import, FetchWasm, FetchGuest, Boot
<1>4. visit'.id \in {visit.id, origin["id"], Dev}
  <2>1. CASE OpenPage
    BY <2>1 DEF OpenPage, NoVisit
  <2>2. CASE ApplyReleaseLink
    BY <1>1, <2>2 DEF ApplyReleaseLink
  <2>3. CASE GetBuildId
    BY <1>1, <2>3 DEF GetBuildId
  <2>4. CASE Import \/ Boot
    BY <1>1, <2>4 DEF Import, Boot
  <2>5. CASE FetchWasm
    <3>1. PICK content \in Nat : visit' = [visit EXCEPT !["wasm"] = content, !.step = "wasm"]
      BY <1>2, <2>5, Fetched DEF FetchWasm
    <3> QED
      BY <1>1, <3>1
  <2>6. CASE FetchGuest
    <3>1. PICK content \in Nat : visit' = [visit EXCEPT !["guest"] = content, !.step = "guest"]
      BY <1>2, <2>6, Fetched DEF FetchGuest
    <3> QED
      BY <1>1, <3>1
  <2>7. CASE Evict
    BY <2>7 DEF Evict
  <2> QED
    BY <2>1, <2>2, <2>3, <2>4, <2>5, <2>6, <2>7 DEF Visit
<1>5. \A f \in Kept : \A e \in cache'[f] : e \in cache[f] \/ e.id = visit.id
  <2>1. CASE FetchWasm
    <3>1. PICK content \in Nat :
            cache' = [cache EXCEPT !["wasm"] = @ \union {[id |-> visit.id, content |-> content]}]
      BY <1>2, <2>1, Fetched DEF FetchWasm
    <3> QED
      BY <1>2, <3>1, EntryId
  <2>2. CASE FetchGuest
    <3>1. PICK content \in Nat :
            cache' = [cache EXCEPT !["guest"] = @ \union {[id |-> visit.id, content |-> content]}]
      BY <1>2, <2>2, Fetched DEF FetchGuest
    <3> QED
      BY <1>2, <3>1, EntryId
  <2>3. CASE Evict
    BY <1>1, <2>3 DEF Evict
  <2>4. CASE OpenPage \/ ApplyReleaseLink \/ GetBuildId \/ Import \/ Boot
    BY <2>4 DEF OpenPage, ApplyReleaseLink, GetBuildId, Import, Boot
  <2> QED
    BY <2>1, <2>2, <2>3, <2>4 DEF Visit
<1> QED
  BY <1>3, <1>4, <1>5, FreshVisit

LEMMA FreshInit == Init => FreshInv
BY DEF Init, FreshInv, Older, NoVisit, Dev, Builders, Files, Copied

LEMMA FreshStep == TypeInv /\ FreshInv /\ [Next]_vars => FreshInv'
<1> SUFFICES ASSUME TypeInv, FreshInv, [Next]_vars PROVE FreshInv'
  OBVIOUS
<1>1. CASE UNCHANGED vars
  BY <1>1, FreshVisit DEF vars, browser
<1>2. CASE \E p \in Builders : Remove(p) \/ Copy(p) \/ Bundle(p) \/ WriteIndex(p)
  BY <1>2, FreshBuild
<1> QED
  BY <1>1, <1>2, FreshStartImage, FreshEndImage, FreshUpload, FreshRest, FreshBrowser
  DEF Next, Build, Deploy

LEMMA IdsHold == Spec => []FreshInv
BY TypesHold, FreshInit, FreshStep, PTL DEF Spec

LEMMA VisitUpload == ASSUME TypeInv, FreshInv, VisitInv, Upload PROVE VisitInv'
<1>1. /\ script = "upload" /\ origin' = dist /\ deployed' = deployed + 1
      /\ UNCHANGED browser
  BY DEF Upload
<1>2. deployed \in Nat /\ visit.of \in Nat
  BY DEF TypeInv, TypeOK, BrowserTypes
<1>3. visit'.of <= deployed' /\ visit'.of # deployed'
  BY <1>1, <1>2 DEF VisitInv, browser
<1>4. dist["id"] \in {Dev, repo["id"]}
  BY <1>1 DEF FreshInv
<1>5. ASSUME NEW f \in Kept, NEW e \in cache[f] PROVE e.id # repo["id"]
  <2>1. e.id < repo["id"] /\ e.id \in Nat /\ repo["id"] \in Nat
    BY <1>1, IdsTyped DEF FreshInv, Older
  <2> QED
    BY <2>1
<1>6. CacheFits'
  BY <1>1, <1>4, <1>5 DEF CacheFits, browser
<1> QED
  BY <1>3, <1>6 DEF VisitInv, VisitFits

\* A visit of the current deployment is given what is deployed.
LEMMA VisitFetched ==
  ASSUME TypeInv, VisitInv, NEW f \in Kept, NEW of \in Files, Fetch(f, of), UNCHANGED public,
         of = IF f = "wasm" THEN "emulator" ELSE "guest",
         f = "wasm" => visit.step = "lib", f = "guest" => visit.step = "wasm"
  PROVE  VisitInv'
<1>1. visit \in [step : Steps, of : Nat, linked : BOOLEAN, link : Nat, id : Nat, lib : Nat,
                 wasm : Nat, guest : Nat]
  BY DEF TypeInv, TypeOK, BrowserTypes
<1>2. PICK content \in Nat :
        /\ content = origin[of] \/ \E e \in cache[f] : e.id = visit.id /\ e.content = content
        /\ visit' = [visit EXCEPT ![f] = content, !.step = f]
        /\ cache' = [cache EXCEPT ![f] = @ \union {[id |-> visit.id, content |-> content]}]
  BY Fetched
<1>3. origin[of] = Deployed(f)
  BY DEF Deployed
<1>4. visit.id = origin["id"] /\ visit.id # Dev => content = Deployed(f)
  BY <1>2, <1>3 DEF VisitInv, CacheFits
<1>5. UNCHANGED <<origin, deployed>>
  BY DEF public
<1>6. CacheFits'
  <2>1. \A g \in Kept : \A e \in cache'[g] :
          e \in cache[g] \/ (g = f /\ e.id = visit.id /\ e.content = content)
    BY <1>2, EntryId
  <2>2. \A g \in Kept : \A e \in cache'[g] : e.id = origin["id"] /\ e.id # Dev => e.content = Deployed(g)
    BY <1>4, <2>1 DEF VisitInv, CacheFits
  <2> QED
    BY <1>5, <2>2 DEF CacheFits, Deployed
<1>7. VisitFits' /\ visit'.of <= deployed'
  <2>1. CASE f = "wasm"
    <3>1. visit' = [visit EXCEPT !.wasm = content, !.step = "wasm"] /\ visit.step = "lib"
      BY <1>2, <2>1
    <3>2. visit'.step = "wasm" /\ visit'.wasm = content /\ visit'.lib = visit.lib
          /\ visit'.id = visit.id /\ visit'.of = visit.of /\ visit'.link = visit.link
      BY <1>1, <3>1
    <3>3. visit.id = origin["id"] /\ visit.id # Dev => content = origin["emulator"]
      BY <1>4, <2>1 DEF Deployed
    <3> QED
      BY <1>5, <3>1, <3>2, <3>3 DEF VisitInv, VisitFits
  <2>2. CASE f = "guest"
    <3>1. visit' = [visit EXCEPT !.guest = content, !.step = "guest"] /\ visit.step = "wasm"
      BY <1>2, <2>2
    <3>2. visit'.step = "guest" /\ visit'.guest = content /\ visit'.lib = visit.lib
          /\ visit'.wasm = visit.wasm
          /\ visit'.id = visit.id /\ visit'.of = visit.of /\ visit'.link = visit.link
      BY <1>1, <3>1
    <3>3. visit.id = origin["id"] /\ visit.id # Dev => content = origin["guest"]
      BY <1>4, <2>2 DEF Deployed
    <3> QED
      BY <1>5, <3>1, <3>2, <3>3 DEF VisitInv, VisitFits
  <2> QED
    BY <2>1, <2>2 DEF Kept
<1> QED
  BY <1>6, <1>7 DEF VisitInv

LEMMA VisitBrowser == ASSUME TypeInv, VisitInv, Visit \/ Evict PROVE VisitInv'
<1>1. /\ visit \in [step : Steps, of : Nat, linked : BOOLEAN, link : Nat, id : Nat, lib : Nat,
                    wasm : Nat, guest : Nat]
      /\ cache \in [Kept -> SUBSET [id : Nat, content : Nat]] /\ deployed \in Nat
  BY DEF TypeInv, TypeOK, BrowserTypes
<1>2. UNCHANGED <<origin, deployed>> /\ UNCHANGED public
  BY DEF Visit, Evict, OpenPage, ApplyReleaseLink, GetBuildId, Import, FetchWasm, FetchGuest, Boot, public
<1>3. ASSUME UNCHANGED cache, VisitFits', visit'.of <= deployed PROVE VisitInv'
  BY <1>2, <1>3 DEF VisitInv, CacheFits, Deployed
<1>4. CASE OpenPage
  <2>1. visit' = [NoVisit EXCEPT !.step = "page", !.of = deployed] /\ UNCHANGED cache
    BY <1>4 DEF OpenPage
  <2>2. visit'.link = 0 /\ visit'.id = Dev /\ visit'.of = deployed
    BY <2>1 DEF NoVisit
  <2>3. VisitFits' /\ visit'.of <= deployed
    BY <1>1, <2>2 DEF VisitFits
  <2> QED
    BY <1>3, <2>1, <2>3
<1>5. CASE ApplyReleaseLink
  <2>1. PICK v \in {origin["version"], 0} : visit' = [visit EXCEPT !.link = v, !.linked = TRUE]
    BY <1>5 DEF ApplyReleaseLink
  <2>2. /\ visit'.link \in {origin["version"], 0} /\ visit'.id = visit.id /\ visit'.of = visit.of
        /\ visit'.step = visit.step /\ visit'.lib = visit.lib /\ visit'.wasm = visit.wasm
        /\ visit'.guest = visit.guest /\ UNCHANGED cache
    BY <1>1, <1>5, <2>1 DEF ApplyReleaseLink
  <2>3. VisitFits' /\ visit'.of <= deployed
    BY <1>2, <2>2 DEF VisitInv, VisitFits
  <2> QED
    BY <1>3, <2>2, <2>3
<1>6. CASE GetBuildId
  <2>1. PICK i \in {origin["id"], Dev} : visit' = [visit EXCEPT !.id = i, !.step = "named"]
    BY <1>6 DEF GetBuildId
  <2>2. /\ visit'.link = visit.link /\ visit'.id \in {origin["id"], Dev} /\ visit'.of = visit.of
        /\ visit'.step = "named" /\ UNCHANGED cache
    BY <1>1, <1>6, <2>1 DEF GetBuildId
  <2>3. VisitFits' /\ visit'.of <= deployed
    BY <1>2, <2>2 DEF VisitInv, VisitFits
  <2> QED
    BY <1>3, <2>2, <2>3
<1>7. CASE Import
  <2>1. visit' = [visit EXCEPT !.lib = origin["emulator"], !.step = "lib"] /\ UNCHANGED cache
    BY <1>7 DEF Import
  <2>2. /\ visit'.link = visit.link /\ visit'.id = visit.id /\ visit'.of = visit.of
        /\ visit'.step = "lib" /\ visit'.lib = origin["emulator"]
    BY <1>1, <2>1
  <2>3. VisitFits' /\ visit'.of <= deployed
    BY <1>2, <2>2 DEF VisitInv, VisitFits
  <2> QED
    BY <1>3, <2>1, <2>3
<1>8. CASE FetchWasm
  BY <1>2, <1>8, VisitFetched DEF FetchWasm, Kept, Files, Copied
<1>9. CASE FetchGuest
  BY <1>2, <1>9, VisitFetched DEF FetchGuest, Kept, Files, Copied
<1>10. CASE Boot
  <2>1. visit' = [visit EXCEPT !.step = "done"] /\ visit.step = "guest" /\ UNCHANGED cache
    BY <1>10 DEF Boot
  <2>2. /\ visit'.link = visit.link /\ visit'.id = visit.id /\ visit'.of = visit.of
        /\ visit'.lib = visit.lib /\ visit'.wasm = visit.wasm /\ visit'.guest = visit.guest
    BY <1>1, <2>1
  <2>3. VisitFits' /\ visit'.of <= deployed
    BY <1>2, <2>1, <2>2 DEF VisitInv, VisitFits
  <2> QED
    BY <1>3, <2>1, <2>3
<1>11. CASE Evict
  <2>1. (\A f \in Kept : cache'[f] \subseteq cache[f]) /\ UNCHANGED visit
    BY <1>1, <1>11 DEF Evict
  <2> QED
    BY <1>2, <2>1 DEF VisitInv, CacheFits, VisitFits, Deployed
<1> QED
  BY <1>4, <1>5, <1>6, <1>7, <1>8, <1>9, <1>10, <1>11 DEF Visit

LEMMA VisitInit == Init => VisitInv
BY DEF Init, VisitInv, CacheFits, VisitFits, NoVisit, Dev

LEMMA VisitStep == TypeInv /\ FreshInv /\ VisitInv /\ [Next]_vars => VisitInv'
<1> SUFFICES ASSUME TypeInv, FreshInv, VisitInv, [Next]_vars PROVE VisitInv'
  OBVIOUS
<1>1. CASE Upload
  BY <1>1, VisitUpload
<1>2. CASE Visit \/ Evict
  BY <1>2, VisitBrowser
<1>3. CASE ~Upload /\ ~Visit /\ ~Evict
  <2>1. UNCHANGED <<origin, deployed, cache, visit>>
    BY <1>3 DEF Next, Edit, Build, Remove, Copy, Bundle, WriteIndex, Deploy, StartImage, EndImage,
      WriteVersion, CutDeploy, StartServer, StopServer, vars, public, browser
  <2> QED
    BY <2>1 DEF VisitInv, CacheFits, VisitFits, Deployed
<1> QED
  BY <1>1, <1>2, <1>3

LEMMA VisitsHold == Spec => []VisitInv
BY TypesHold, IdsHold, VisitInit, VisitStep, PTL DEF Spec

\* A visit during which nothing is deployed, and which was told its build id,
\* boots what is deployed, whatever the browser kept (asset, _headers).
THEOREM VisitsBootTheDeployed == Spec => []BootsTheDeployed
<1>1. VisitInv => BootsTheDeployed
  BY DEF VisitInv, VisitFits, BootsTheDeployed
<1> QED
  BY <1>1, VisitsHold, PTL
==============================================================================
