------------------------------ MODULE Affected ------------------------------
(***************************************************************************)
(* How a check finds the applications a pull request affects, while the    *)
(* watchers of AppDirs go on: the matchers (pkg/affected_apps), the walk   *)
(* over Kustomize files (pkg/kustomize), and GenerateListOfAffectedApps    *)
(* (pkg/events/check.go) with the applications that the affected           *)
(* ApplicationSets generate (pkg/generator) and the findings about them    *)
(* (pkg/events/appset_spec_diff.go).                                       *)
(*                                                                         *)
(* A pull request is its repository and branch, the changed files, the     *)
(* files at base and at head, the Kustomize files and the ApplicationSet   *)
(* manifests at head, and the repository's kubechecks configuration.       *)
(***************************************************************************)
EXTENDS AppDirs

CONSTANTS
  PRs,              \* the pull requests
  OtherFiles,       \* the files of the other repositories
  AppsOfSet,        \* names of the cluster's applications owned by each ApplicationSet
  SegmentSuffixes,  \* pairs of different segments, the first of which ends in the second ...
  SegmentPrefixes   \* ... or begins with it

(* The files of a tree have relative paths.                                *)
ASSUME PRAssumption ==
  \A p \in PRs :
    /\ p.repo \in Repos
    /\ \A f \in p.base \cup p.head : f \in Seq(Range(f)) \ {<< >>} /\ Head(f) # "/"
    /\ p.change \subseteq p.base \cup p.head
    /\ \A f \in DOMAIN p.manifests : p.manifests[f].name \in SetNames
    /\ IsFiniteSet(DOMAIN p.kust)
    /\ \A d \in DOMAIN p.kust : Append(d, "kustomization.yaml") \in p.head

VARIABLES
  pc,        \* where the check stands
  pr,        \* its pull request
  walking,   \* applications whose Kustomize files are still to be walked
  kust,      \* the lists of names that the walk made
  appCopy,   \* appsDirectory of the matcher, and which of its lists are in the live arrays
  setCopy,   \* appSetsDirectory of the matcher, likewise
  matched,   \* what the matchers returned
  items,     \* affectedItems.Applications
  todo,      \* affected ApplicationSets still to be generated
  failed,    \* names of those whose generation at head or base failed
  findings,  \* appSetSpecFindings
  claims,    \* which of them generates which name, at head or at base
  err,       \* GenerateListOfAffectedApps returns an error
  steady,    \* names nothing happened to since the check began
  raced      \* lists the watcher appended to, in place, while a check held them

copyVars == <<walking, kust, appCopy, setCopy>>
listVars == <<matched, items, todo, failed, claims, findings, err>>
vars == <<dirVars, pc, pr, copyVars, listVars, steady, raced>>

-----------------------------------------------------------------------------
(***************************************************************************)
(* Kustomize.                                                              *)
(***************************************************************************)

Dirs(files) == UNION {{SubSeq(f, 1, i) : i \in 0..Len(f) - 1} : f \in files}

(* cleanPaths. *)
IsRemoteResource(p) == Head(p) = "https:"
CleanPaths(base, paths) ==
  {IF Head(p) = "/" THEN Tail(p) ELSE Join(base, p) : p \in {q \in paths : ~IsRemoteResource(q)}}

(* fs.ValidPath. *)
ValidPath(p) == p = << >> \/ Head(p) \notin {"/", ".."}

(* What processDir finds in directory d: resources are files or            *)
(* directories, components are directories, and a directory without a      *)
(* kustomization.yaml is taken as a whole.                                 *)
Resources(p, d) == CleanPaths(d, p.kust[d].resources)
SubDirs(p, d) ==
  IF d \notin DOMAIN p.kust THEN {}
  ELSE CleanPaths(d, p.kust[d].components) \cup (Resources(p, d) \cap Dirs(p.head))
Broken(p, d) ==
  \/ ~ValidPath(d)
  \/ d \in DOMAIN p.kust /\ ~(Resources(p, d) \subseteq Dirs(p.head) \cup p.head)

(* The directories processDir visits from root, each of them once. *)
Visited(p, root) ==
  LET below[i \in 0..Cardinality(DOMAIN p.kust)] ==
        IF i = 0 THEN SubDirs(p, root)
        ELSE below[i - 1] \cup UNION {SubDirs(p, d) : d \in below[i - 1]}
  IN {root} \cup below[Cardinality(DOMAIN p.kust)]

(* The entries it returns, with the kustomization that has them; a file    *)
(* that one kustomization names twice is taken once.                       *)
Followed(p, root) ==
  LET visited == Visited(p, root)
      FilesOf(d) == {Append(d, "kustomization.yaml")} \cup CleanPaths(d, p.kust[d].files)
                      \cup (Resources(p, d) \cap p.head)
      EntriesFrom(d) == IF d \in DOMAIN p.kust THEN [kind : {"file"}, path : FilesOf(d), from : {d}]
                        ELSE {[kind |-> "dir", path |-> d, from |-> d]}
  IN UNION {EntriesFrom(d) : d \in visited}

(* ProcessKustomizationFile: one error, and nothing is returned.           *)
WalkFails(p, root) == \E d \in Visited(p, root) : Broken(p, d)
ProcessKustomization(p, root) == IF WalkFails(p, root) THEN {} ELSE Followed(p, root)

At(lists, k) == IF k \in DOMAIN lists THEN lists[k] ELSE << >>

(* WalkKustomizeApps, for one application: from the path of its first      *)
(* source.                                                                 *)
WithKustomized(lists, n, spec) ==
  LET found == ProcessKustomization(pr, spec.sources[1].path)
      Times(k) == Cardinality({e \in found : e.kind = k.kind /\ e.path = k.path})
      keys == {[kind |-> e.kind, path |-> e.path] : e \in found}
  IN [k \in DOMAIN lists \cup keys |-> At(lists, k) \o Copies(n, Times(k))]

-----------------------------------------------------------------------------
(***************************************************************************)
(* ConfigMatcher.                                                          *)
(***************************************************************************)

(* modifiedDirs; the root is ".". *)
ModifiedDirs(change) == {IF Len(f) = 1 THEN <<".">> ELSE Front(f) : f \in change}

(* strings.HasSuffix and HasPrefix, of clean paths. *)
HasSuffix(dir, p) ==
  LET s == Relative(p) IN
  /\ s # << >> /\ Len(s) =< Len(dir)
  /\ IsSuffix(Tail(s), dir)
  /\ LET seg == dir[Len(dir) - Len(s) + 1] IN
     IF p = s THEN seg = Head(s) \/ <<seg, Head(s)>> \in SegmentSuffixes
     ELSE seg = Head(s) /\ Len(s) < Len(dir)
HasPrefix(dir, p) ==
  /\ p # << >> /\ Len(p) =< Len(dir)
  /\ IsPrefix(Front(p), dir)
  /\ dir[Len(p)] = Last(p) \/ <<dir[Len(p)], Last(p)>> \in SegmentPrefixes

DirMatchForApp(dir, p) == HasSuffix(dir, p) \/ (dir = <<".">> /\ p = <<"/">>)
DirMatchForAppSet(dir, p) == DirMatchForApp(dir, p) \/ HasPrefix(dir, p)

ApplicationsForDir(cfg, dir) == {a \in cfg.apps : \E p \in a.paths : DirMatchForApp(dir, p)}
AppSetsForDir(cfg, dir) == {s \in cfg.sets : \E p \in s.paths : DirMatchForAppSet(dir, p)}

(* triggeredApps: ApplicationSets are only looked at for a directory in    *)
(* which no application is.                                                *)
TriggeredSets(cfg, change) ==
  UNION {AppSetsForDir(cfg, d) : d \in {x \in ModifiedDirs(change) : ApplicationsForDir(cfg, x) = {}}}
TriggeredNames(cfg, change) ==
  {a.name : a \in UNION {ApplicationsForDir(cfg, d) : d \in ModifiedDirs(change)}} \cup
  UNION {AppsOfSet[s.name] : s \in TriggeredSets(cfg, change)}

(* The applications of the cluster with those names; the ApplicationSets   *)
(* have a name only, and generate nothing.                                 *)
ConfigApps(cfg, change) ==
  {[name |-> AppNameOf[k], spec |-> apps[k], by |-> k] :
     k \in {x \in AppKeys : apps[x] # None /\ AppNameOf[x] \in TriggeredNames(cfg, change)}}

-----------------------------------------------------------------------------
(***************************************************************************)
(* The generator.                                                          *)
(***************************************************************************)

(* Git generators (external): directories, other than the root, or files   *)
(* that match an entry and none of the excluding ones.                     *)
Candidates(e, files) ==
  IF e.kind = "dir" THEN {d \in Dirs(files) \ {<< >>} : Match(e.path, d)}
  ELSE {Front(f) : f \in {x \in files : Match(e.path, x)}}
GitDirs(g, files) ==
  UNION {Candidates(e, files) : e \in {x \in Entries(g) : ~x.exclude}}
    \ UNION {Candidates(e, files) : e \in {x \in Entries(g) : x.exclude}}

(* The template gives an application the name of its directory. *)
FromTemplate(s, dir) ==
  [name |-> Last(dir),
   spec |-> [sources |-> <<[repo |-> s.repo, path |-> dir, values |-> s.values]>>, rev |-> s.rev]]

(* An application that the matcher finds is told from one that the         *)
(* configuration names, and a generated one has a spec.                    *)
ASSUME NamesAssumption ==
  /\ "matcher" \notin AppKeys
  /\ \A s \in SetSpecs, p \in PRs : \A d \in Dirs(p.head) \ {<< >>} : FromTemplate(s, d).spec # None

(* pointGitToPR: at head, generators of the pull request's repository read *)
(* the pull request's commit, unless they are nested too deep.             *)
PointsToPR(g) == g.repo = pr.repo /\ Visible(g)
FilesFor(g, side) ==
  IF g.repo # pr.repo THEN OtherFiles[g.repo]
  ELSE IF side = "head" /\ PointsToPR(g) THEN pr.head ELSE pr.base

GenerateApplications(s, side) ==
  UNION {{FromTemplate(s, d) : d \in GitDirs(g, FilesFor(g, side))} : g \in Generators(s)}

(* filterAppsByChangeList: a fresh directory of the generated applications.*)
Named(ks, n) == {[kind |-> k.kind, path |-> k.path, name |-> n] : k \in ks}
KeysOf(spec) ==
  UNION {{[kind |-> "dir", path |-> src.path]} \cup [kind : {"file"}, path : ValueFiles(src)] :
           src \in Sources(spec)}
EntriesOf(n, spec) == Named(KeysOf(spec), n)
FilterAppsByChangeList(as) ==
  {a \in as : FindApps(EntriesOf(a.name, a.spec), [n \in {a.name} |-> a.spec], pr.change, pr.branch) # {}}

(* What a map by name keeps of a list: the first of each name, which may   *)
(* be any of them.                                                         *)
NamesOf(as) == {a.name : a \in as}
FirstOfEach(as) ==
  LET doubled == {a \in as : \E b \in as \ {a} : b.name = a.name}
  IN {firsts \in {as \ later : later \in SUBSET doubled} :
        /\ NamesOf(firsts) = NamesOf(as)
        /\ \A a, b \in firsts : a.name = b.name => a = b}

(* appSetSpecDiffForChange. *)
SpecDiff(n, head, base) ==
  LET h == FilterAppsByChangeList(head)
      b == FilterAppsByChangeList(base)
      Finding(x, action) == [name |-> x, set |-> n, action |-> action]
  IN {Finding(x, "added") : x \in NamesOf(h) \ NamesOf(b)} \cup
     {Finding(x, "removed") : x \in NamesOf(b) \ NamesOf(h)} \cup
     {Finding(a.name, "modified") : a \in {y \in h : y.name \in NamesOf(b) /\ y \notin b}}

-----------------------------------------------------------------------------
(***************************************************************************)
(* The check.                                                              *)
(***************************************************************************)

(* NewArgocdMatcher reads the live directory of the repository: which      *)
(* applications there are, whose Kustomize files it walks in any order,    *)
StartCheck(p) ==
  LET live == appDirs[p.repo].apps IN
  /\ pc = "idle"
  /\ pc' = "walk"
  /\ pr' = p
  /\ walking' = {[name |-> n, spec |-> live[n]] : n \in {m \in AppNames : live[m] # None}}
  /\ steady' = (AppNames \cup SetNames)
                 \ ({appTodo[i].name : i \in DOMAIN appTodo} \cup {setTodo[i].name : i \in DOMAIN setTodo})
  /\ UNCHANGED <<dirVars, kust, appCopy, setCopy, listVars, raced>>

WalkApp(a) ==
  /\ pc = "walk"
  /\ a \in walking
  /\ walking' = walking \ {a}
  /\ kust' = WithKustomized(kust, a.name, a.spec)
  /\ UNCHANGED <<dirVars, pc, pr, appCopy, setCopy, listVars, steady, raced>>

(* and then, for the Union with nothing, its map and its slices: the copy  *)
(* has lists of its own, in the arrays of the live ones.                   *)
Headers(lists) == [k \in DOMAIN lists |-> [names |-> lists[k].names, shared |-> TRUE]]
Copy ==
  LET live == appDirs[pr.repo] IN
  /\ pc = "walk"
  /\ walking = {}
  /\ appCopy' = [apps |-> live.apps, lists |-> Headers(live.lists)]
  /\ pc' = "join"
  /\ UNCHANGED <<dirVars, pr, walking, kust, setCopy, listVars, steady, raced>>

(* The Union with what the walk found appends to those slices: in place if *)
(* there is room, over what the watcher may have appended since.  That of  *)
(* the ApplicationSets only takes the map and the slices.                  *)
Appended(c, live, names) ==
  IF names = << >> THEN c
  ELSE [names |-> c.names \o names, shared |-> c.shared /\ Len(c.names) + Len(names) =< live.cap]
Overwritten(live, c, names) ==
  LET joined == Appended(c, live, names) IN
  IF names # << >> /\ joined.shared THEN [live EXCEPT !.names = Seen(@, joined.names)] ELSE live
Union ==
  LET live == appDirs[pr.repo].lists
      mine == appCopy.lists
      sets0 == setDirs[pr.repo]
  IN /\ pc = "join"
     /\ appCopy' = [appCopy EXCEPT !.lists =
          [k \in ListKeys \cup DOMAIN kust |->
             IF k \in ListKeys THEN Appended(mine[k], live[k], At(kust, k))
             ELSE [names |-> kust[k], shared |-> FALSE]]]
     /\ appDirs' = [appDirs EXCEPT ![pr.repo].lists =
          [k \in ListKeys |-> Overwritten(live[k], mine[k], At(kust, k))]]
     /\ setCopy' = [sets |-> sets0.sets, lists |-> Headers(sets0.lists)]
     /\ pc' = "match"
     /\ UNCHANGED <<apps, appTodo, sets, setDirs, setTodo, missed, several, events>>
     /\ UNCHANGED <<pr, walking, kust, listVars, steady, raced>>

(* FindAppSetsBasedOnChangeList: the first manifest of each name among the *)
(* changed files, and then the ApplicationSets of the cluster that have    *)
(* another name.                                                           *)
ManifestsFirst(found) ==
  {inPR \cup {[name |-> n, spec |-> setCopy.sets[n]] : n \in found \ NamesOf(inPR)} :
     inPR \in FirstOfEach({pr.manifests[f] : f \in pr.change \cap DOMAIN pr.manifests})}

(* MultiMatcher: what the first matcher found, and from the second one     *)
(* what has another name; its error is kept and returned at the end.       *)
AffectedApps ==
  /\ pc = "match"
  /\ LET argo == {[name |-> a.name, spec |-> a.spec, by |-> "matcher"] :
                    a \in FindApps(Indexed(appCopy.lists), appCopy.apps, pr.change, pr.branch)}
     IN \/ /\ pr.config = None
           /\ items' = argo /\ err' = FALSE
        \/ /\ pr.config # None
           /\ items' = argo \cup {a \in ConfigApps(pr.config, pr.change) : a.name \notin NamesOf(argo)}
           /\ err' = FALSE
        \/ /\ pr.config # None
           /\ items' = argo /\ err' = TRUE
  /\ matched' = items'
  /\ todo' \in ManifestsFirst(FindAppSets(setCopy, pr.change))
  /\ pc' = "generate"
  /\ kust' = << >> /\ appCopy' = None /\ setCopy' = None
  /\ UNCHANGED <<dirVars, pr, walking, failed, claims, findings, steady, raced>>

(* Mutant: what the matchers found stays beside what is generated.         *)
KeepAll(as, head, gone) == as

(* One ApplicationSet: generated at head and at base, either of which may  *)
(* fail.  What it generates replaces what the matchers found, and what it  *)
(* generates no longer is taken away.  A name it generates for several     *)
(* directories is queued and compared for the first one.                   *)
Keep(as, head, gone) == {a \in as : a.name \notin NamesOf(head) \cup gone}
GenerateAppSet(s, headOk, baseOk) ==
  LET head == GenerateApplications(s.spec, "head")
      base == GenerateApplications(s.spec, "base")
      gone == IF baseOk THEN NamesOf(base) \ NamesOf(head) ELSE {}
      Queued(as) == {[name |-> a.name, spec |-> a.spec, by |-> s.name] : a \in FilterAppsByChangeList(as)}
  IN /\ pc = "generate"
     /\ s \in todo
     /\ todo' = todo \ {s}
     /\ failed' = IF headOk /\ baseOk THEN failed ELSE failed \cup {s.name}
     /\ claims' = claims \cup [set : {s.name}, name : NamesOf(head \cup base)]
     /\ \/ /\ ~headOk
           /\ UNCHANGED <<items, findings>>
        \/ \E h \in FirstOfEach(head), b \in FirstOfEach(base) :
             /\ headOk
             /\ items' = Keep(items, head, gone) \cup Queued(h)
             /\ findings' = findings \cup (IF baseOk THEN SpecDiff(s.name, h, b) ELSE {})
     /\ UNCHANGED <<dirVars, pc, pr, copyVars, matched, err, steady, raced>>

Generated ==
  /\ pc = "generate"
  /\ todo = {}
  /\ pc' = "done"
  /\ UNCHANGED <<dirVars, pr, copyVars, listVars, steady, raced>>

(* The next check of the repository finds what this one left in the live   *)
(* lists.                                                                  *)
EndCheck ==
  /\ pc = "done"
  /\ pc' = "idle"
  /\ pr' = None
  /\ matched' = {} /\ items' = {} /\ failed' = {} /\ claims' = {} /\ findings' = {} /\ err' = FALSE
  /\ steady' = {}
  /\ UNCHANGED <<dirVars, copyVars, todo, raced>>

(* A slice that the check holds sees what is written to its array, until   *)
(* the live list has no room left and moves to another one.                *)
Held(c, old, new) ==
  IF c.shared THEN [names |-> Seen(c.names, Array(old, new)), shared |-> new.cap = old.cap] ELSE c
Follow(copy, old, new) ==
  [copy EXCEPT !.lists = [k \in DOMAIN @ |-> IF k \in DOMAIN old THEN Held(@[k], old[k], new[k]) ELSE @[k]]]
AppendedInPlace(copy, old, new) ==
  {k \in DOMAIN old : /\ copy.lists[k].shared
                      /\ Len(old[k].names) < Len(new[k].names) /\ Len(old[k].names) < old[k].cap}

(* A watcher goes on meanwhile.  Once the matchers are done the check only *)
(* reads what it has copied, and the model follows the watchers no longer. *)
Watch ==
  /\ pc \in {"idle", "walk", "join", "match"}
  /\ AppWatcher \/ AppSetWatcher
  /\ steady' = steady \ ({AppNameOf[k] : k \in {x \in AppKeys : apps'[x] # apps[x]}} \cup
                         {n \in SetNames : sets'[n] # sets[n]})
  /\ IF pc \in {"join", "match"}
     THEN LET old == appDirs[pr.repo].lists
              new == appDirs'[pr.repo].lists
          IN /\ appCopy' = Follow(appCopy, old, new)
             /\ raced' = [raced EXCEPT ![pr.repo] = @ \cup AppendedInPlace(appCopy, old, new)]
     ELSE UNCHANGED <<appCopy, raced>>
  /\ setCopy' = IF pc = "match" THEN Follow(setCopy, setDirs[pr.repo].lists, setDirs'[pr.repo].lists) ELSE setCopy
  /\ UNCHANGED <<pc, pr, walking, kust, listVars>>

Init ==
  /\ DirsInit
  /\ pc = "idle" /\ pr = None /\ walking = {} /\ kust = << >> /\ appCopy = None /\ setCopy = None
  /\ matched = {} /\ items = {} /\ todo = {} /\ failed = {} /\ claims = {} /\ findings = {} /\ err = FALSE
  /\ steady = {}
  /\ raced = [r \in Repos |-> {}]

Next ==
  \/ Watch
  \/ \E p \in PRs : StartCheck(p)
  \/ \E a \in walking : WalkApp(a)
  \/ Copy \/ Union \/ AffectedApps \/ Generated \/ EndCheck
  \/ \E s \in todo, headOk, baseOk \in BOOLEAN : GenerateAppSet(s, headOk, baseOk)

Spec == Init /\ [][Next]_vars

-----------------------------------------------------------------------------
(***************************************************************************)
(* Properties.                                                             *)
(***************************************************************************)

TypeOK ==
  /\ DirsTypeOK
  /\ pc \in {"idle", "walk", "join", "match", "generate", "done"}
  /\ pr \in PRs \cup {None}
  /\ steady \subseteq AppNames \cup SetNames
  /\ raced \in [Repos -> SUBSET ListKeys]
  /\ walking \subseteq [name : AppNames, spec : AppSpecs]
  /\ \A a \in items : a.by \in {"matcher"} \cup AppKeys \cup SetNames
  /\ failed \subseteq SetNames
  /\ err \in BOOLEAN

(* What is known is what the cluster has.  Of a name for which no event    *)
(* was missed and nothing is left to be done, the directory of a           *)
(* repository has an application if and only if the cluster has one with a *)
(* source there, in its present version and with all of its entries,       *)
(* whatever the events and the order of their calls were, and although     *)
(* checks append to the same arrays: only in a list that the watcher       *)
(* appended to while a check held it may an entry have been overwritten.   *)
DirectoryMatchesCluster ==
  \A n \in AppNames \ missed, r \in Repos :
    LET e == appDirs[r].apps[n] IN
    (\A i \in DOMAIN appTodo : appTodo[i].name # n) =>
      /\ e # None => /\ \E k \in AppKeys : AppNameOf[k] = n /\ apps[k] = e
                     /\ r \in {src.repo : src \in Sources(e)}
                     /\ Named(KeysOf(e) \ raced[r], n) \subseteq Indexed(appDirs[r].lists)
      /\ e = None => \A k \in AppKeys :
           AppNameOf[k] = n /\ CanProcessApp(apps[k]) => r \notin {src.repo : src \in Sources(apps[k])}

(* An application that stands in the cluster as the watcher told it, and   *)
(* to which nothing happens during the check.                              *)
Known(n, spec) ==
  /\ n \in steady \ missed
  /\ CanProcessApp(spec)
  /\ \E k \in AppKeys : AppNameOf[k] = n /\ apps[k] = spec

(* What Argo CD reads to render a source: its directory and its value      *)
(* files, and what the kustomizations there lead to.                       *)
Reads(src) ==
  {[how |-> "directory", kind |-> "dir", path |-> Relative(src.path)]} \cup
  {[how |-> "values", kind |-> "file", path |-> Join(Relative(src.path), v)] : v \in src.values} \cup
  {[how |-> "kustomize", kind |-> e.kind, path |-> e.path] : e \in Followed(pr, Relative(src.path))}

(* Of that, kubechecks does not look for the value files of a source with  *)
(* an absolute path, nor for the kustomizations of such a source, of any   *)
(* source but the first, and of one with a reference that leads nowhere.   *)
Overlooked(spec, i, how) ==
  LET path == spec.sources[i].path IN
  \/ how = "values" /\ ~ValidPath(path)
  \/ how = "kustomize" /\ (i # 1 \/ ~ValidPath(path) \/ WalkFails(pr, path))

(* A list that the watcher appended to while this check or an earlier one  *)
(* held it, of the same path in whatever spelling.                         *)
Raced(x) == \E k \in raced[pr.repo] : k.kind = x.kind /\ Relative(k.path) = Relative(x.path)

(* No application is forgotten: whatever adds, updates and deletions, of   *)
(* this application and others, came before, and whatever the watchers do  *)
(* while the check walks, copies, joins and searches the lists, an         *)
(* application that reads a changed file is found, with its present spec,  *)
(* unless all it reads of the change is overlooked or in a raced list.     *)
MatchComplete ==
  pc = "generate" =>
    \A k \in AppKeys :
      LET n == AppNameOf[k] IN
      /\ Known(n, apps[k])
      /\ ShouldInclude(apps[k], pr.branch)
      /\ \E i \in DOMAIN apps[k].sources : \E x \in Reads(apps[k].sources[i]) :
           /\ apps[k].sources[i].repo = pr.repo
           /\ \E f \in pr.change : Touches(x, f)
           /\ ~Overlooked(apps[k], i, x.how)
           /\ ~Raced(x)
      => \E a \in matched : a.name = n /\ a.spec = apps[k]

(* No application is found without cause, even if the check saw the        *)
(* directories between two writes of a watcher, or wrote to them: only a   *)
(* raced list may have the name of another.  RemoveApp forgets all sources *)
(* but the first, so an application that once had several may be found for *)
(* a path of an earlier version.                                           *)
MatchPrecise ==
  pc = "generate" =>
    \A a \in matched :
      a.by = "matcher" /\ Known(a.name, a.spec) /\ a.name \notin several =>
        \E f \in pr.change :
          \/ \E src \in Sources(a.spec) : \E x \in Reads(src) : Touches(x, f)
          \/ \E k \in KeysOf(a.spec) \cup raced[pr.repo] : Touches(k, f)

(* No other ApplicationSet generates x, at head or at base. *)
Uncontested(x, n) == \A c \in claims : c.name = x => c.set = n

(* A directory generator's promise: a change in a directory it turns into  *)
(* an application at head is checked, in the generated version, although   *)
(* the cluster may not know of that application yet, unless the name of    *)
(* the application is given to another directory as well.                  *)
GeneratedIsQueued ==
  pc = "done" =>
    \A n \in SetNames :
      LET s == sets[n] IN
      /\ n \in steady \ (missed \cup failed)
      /\ CanProcessAppSet(s)
      /\ s.repo = pr.repo
      /\ \A f \in DOMAIN pr.manifests : pr.manifests[f].name # n
      => \A g \in {x \in Generators(s) : x.repo = pr.repo /\ x.nested =< 1} :
           \A e \in {x \in Entries(g) : x.kind = "dir" /\ ~x.exclude} :
             \A d \in GitDirs(g, pr.head) \cap Candidates(e, pr.head) :
               LET a == FromTemplate(s, d) IN
               /\ \E f \in pr.change : IsStrictPrefix(d, f)
               /\ ShouldInclude(a.spec, pr.branch)
               /\ Uncontested(a.name, n)
               /\ \A b \in GenerateApplications(s, "head") : b.name = a.name => b = a
               => [name |-> a.name, spec |-> a.spec, by |-> n] \in items

(* The list has every name once, and says the same as the findings: what   *)
(* an ApplicationSet adds or modifies is in the list as it generates it,   *)
(* what it removes is not.                                                 *)
ListMatchesFindings ==
  pc = "done" =>
    /\ \A a, b \in items : a.name = b.name => a = b \/ {a.by, b.by} \subseteq AppKeys
    /\ \A x \in findings : Uncontested(x.name, x.set) =>
         IF x.action = "removed" THEN x.name \notin NamesOf(items)
         ELSE \E a \in items : a.name = x.name /\ a.by = x.set
=============================================================================
