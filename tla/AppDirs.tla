------------------------------ MODULE AppDirs ------------------------------
(***************************************************************************)
(* What kubechecks knows of the applications and ApplicationSets in the    *)
(* cluster: the directories of pkg/appdir, which map the paths of a        *)
(* repository to the names that depend on them, and the two watchers of    *)
(* pkg/app_watcher, which keep them up to date as the informers report     *)
(* changes.  A watcher works off one event at a time but takes no lock: a  *)
(* reader may find the directories between any two of its writes.          *)
(*                                                                         *)
(* A path is the sequence of its segments, with "/" as the first one of an *)
(* absolute path.  An index has a list of names for each path, which is a  *)
(* Go slice: what is appended or moved is written into its array while     *)
(* that has room, and whoever holds the slice sees it.                     *)
(* appSetDirs and appSetFiles are left out: nothing reads them.            *)
(***************************************************************************)
EXTENDS Integers, Sequences, FiniteSets, SequencesExt

CONSTANTS
  AppKeys,    \* applications in the cluster: namespace and name
  AppNameOf,  \* the name of each
  AppSpecs,   \* the specs an application may have
  SetNames,   \* names of ApplicationSets
  SetSpecs,   \* the specs an ApplicationSet may have
  GitRepos,   \* normalised URLs of repositories on GitHub or GitLab
  MaxEvents,  \* events the informers report
  None

(* A source is [repo, path, values], values being the paths of value files *)
(* and file parameters relative to it; an application is [sources, rev]    *)
(* with the target revision of its first source; an ApplicationSet is the  *)
(* source and the revision of its template and its generators [nested,     *)
(* repo, entries], entries being patterns [kind, path, exclude].           *)
Sources(spec) == {spec.sources[i] : i \in DOMAIN spec.sources}
Entries(g) == {g.entries[i] : i \in DOMAIN g.entries}
Generators(s) == {s.gens[i] : i \in DOMAIN s.gens}

ASSUME SpecAssumption ==
  /\ \A s \in AppSpecs : /\ s.sources \in Seq(Sources(s)) \ {<< >>}
                        /\ \A src \in Sources(s) :
                             /\ IsFiniteSet(src.values)
                             /\ src.path \in Seq(Range(src.path))
                             /\ \A i \in DOMAIN src.path : src.path[i] = "/" => i = 1
  /\ \A s \in SetSpecs : /\ s.gens \in Seq(Generators(s))
                        /\ \A g \in Generators(s) : /\ g.nested \in Nat
                                                   /\ g.entries \in Seq(Entries(g))
  /\ None \notin AppSpecs \cup SetSpecs
ASSUME EventsAssumption == MaxEvents \in Nat

AppNames == {AppNameOf[k] : k \in AppKeys}
Repos == {src.repo : src \in UNION {Sources(s) : s \in AppSpecs}} \cup {s.repo : s \in SetSpecs}

(* filepath.Join. *)
JoinSegment(p, seg) ==
  IF seg # ".." THEN Append(p, seg)
  ELSE IF p = << >> \/ Last(p) = ".." THEN Append(p, "..")
  ELSE IF p = <<"/">> THEN p
  ELSE Front(p)
Join(p, rel) == FoldLeft(JoinSegment, p, rel)

ValueFiles(src) == {Join(src.path, v) : v \in src.values}

(* The keys of appDirs and appFiles, and of the pattern maps. *)
DirKeys == {src.path : src \in UNION {Sources(s) : s \in AppSpecs}}
FileKeys == UNION {ValueFiles(src) : src \in UNION {Sources(s) : s \in AppSpecs}}
ListKeys == [kind : {"dir"}, path : DirKeys] \cup [kind : {"file"}, path : FileKeys]
PatternKeys == {[kind |-> e.kind, path |-> e.path] :
                  e \in UNION {UNION {Entries(g) : g \in Generators(s)} : s \in SetSpecs}}

VARIABLES
  apps,     \* the application informer's store
  appDirs,  \* appDirByRepo
  appTodo,  \* what is left of the event its handler works on
  sets,     \* the ApplicationSet informer's store
  setDirs,  \* appSetDirByRepo
  setTodo,
  missed,   \* names whose directory entry an event should have changed, and did not
  several,  \* names of applications that had several sources
  events    \* events so far

dirVars == <<apps, appDirs, appTodo, sets, setDirs, setTodo, missed, several, events>>

(* A list is its names and the capacity of its array. *)
NoList == [names |-> << >>, cap |-> 0]
NoApps == [apps |-> [n \in AppNames |-> None], lists |-> [k \in ListKeys |-> NoList]]
NoSets == [sets |-> [n \in SetNames |-> None], lists |-> [k \in PatternKeys |-> NoList]]

DirsTypeOK ==
  /\ apps \in [AppKeys -> AppSpecs \cup {None}]
  /\ sets \in [SetNames -> SetSpecs \cup {None}]
  /\ events \in 0..MaxEvents
  /\ missed \subseteq AppNames \cup SetNames /\ several \subseteq AppNames
  /\ appDirs \in [Repos -> [apps : [AppNames -> AppSpecs \cup {None}],
                            lists : [ListKeys -> [names : Seq(AppNames), cap : Nat]]]]
  /\ setDirs \in [Repos -> [sets : [SetNames -> SetSpecs \cup {None}],
                            lists : [PatternKeys -> [names : Seq(SetNames), cap : Nat]]]]

DirsInit ==
  /\ apps = [k \in AppKeys |-> None] /\ sets = [n \in SetNames |-> None]
  /\ appDirs = [r \in Repos |-> NoApps] /\ setDirs = [r \in Repos |-> NoSets]
  /\ appTodo = << >> /\ setTodo = << >>
  /\ missed = {} /\ several = {} /\ events = 0

-----------------------------------------------------------------------------
(***************************************************************************)
(* Lists of names.                                                         *)
(***************************************************************************)

Copies(n, k) == [i \in 1..k |-> n]

(* The elements of s at the positions K, in their order. *)
Picked(s, K) ==
  LET nth(i) == CHOOSE j \in K : Cardinality({x \in K : x =< j}) = i
  IN [i \in 1..Cardinality(K) |-> s[nth(i)]]

(* The capacity that append gives an array that is full: the next power of *)
(* two, as lists grow by one name at a time.                               *)
Capacity(length) ==
  LET doubled == {1, 2, 4, 8, 16, 32, 64, 128, 256}
  IN IF \E c \in doubled : length =< c /\ c < 2 * length
     THEN CHOOSE c \in doubled : length =< c /\ c < 2 * length
     ELSE 2 * length

(* k calls of append, and k of removeFromSlice, which takes the first. *)
Extended(list, n, k) ==
  LET names == list.names \o Copies(n, k)
  IN IF k = 0 THEN list
     ELSE [names |-> names,
           cap |-> IF Len(names) > list.cap THEN Capacity(Len(names)) ELSE list.cap]
Reduced(list, n, k) ==
  LET before(i) == Cardinality({j \in 1..i : list.names[j] = n})
  IN [list EXCEPT !.names = Picked(@, {i \in DOMAIN @ : @[i] # n \/ before(i) > k})]

(* What the array of a list holds when the list was old and is new: names  *)
(* are appended while there is room, and a removal moves those behind it   *)
(* one place forward and leaves the last one where it was.                 *)
Array(old, new) ==
  LET held == new.names \o Copies(Last(old.names), Len(old.names) - Len(new.names))
  IN [i \in {j \in DOMAIN held : j =< old.cap} |-> held[i]]

(* A slice of that array sees what is written there. *)
Seen(names, array) == [i \in DOMAIN names |-> IF i \in DOMAIN array THEN array[i] ELSE names[i]]

-----------------------------------------------------------------------------
(***************************************************************************)
(* AppDirectory.                                                           *)
(***************************************************************************)

(* How often the list at k gets the name of an application with these      *)
(* sources.                                                                *)
Mentions(srcs, k) ==
  LET values == UNION {{i} \X srcs[i].values : i \in DOMAIN srcs}
  IN IF k.kind = "dir" THEN Cardinality({i \in DOMAIN srcs : srcs[i].path = k.path})
     ELSE Cardinality({iv \in values : Join(srcs[iv[1]].path, iv[2]) = k.path})
WithoutLists(lists, n, srcs) == [k \in ListKeys |-> Reduced(lists[k], n, Mentions(srcs, k))]

(* AddApp leaves an application alone that is there already; otherwise it  *)
(* is indexed under all of its sources, whatever their repositories are.   *)
AddApp(d, n, spec) ==
  IF d.apps[n] # None THEN d
  ELSE [apps |-> [d.apps EXCEPT ![n] = spec],
        lists |-> [k \in ListKeys |-> Extended(d.lists[k], n, Mentions(spec.sources, k))]]

(* Mutant: the application stays in the map.                               *)
RemoveAppKeepsEntry(d, n, spec) == [d EXCEPT !.lists = WithoutLists(@, n, <<spec.sources[1]>>)]
(* Mutant: its index entries stay.                                         *)
RemoveAppKeepsIndex(d, n, spec) == [d EXCEPT !.apps[n] = None]

(* RemoveApp cleans up after the first source only.                        *)
RemoveApp(d, n, spec) ==
  [apps |-> [d.apps EXCEPT ![n] = None],
   lists |-> WithoutLists(d.lists, n, <<spec.sources[1]>>)]

(* dirContainsPath cleans both paths and compares whole segments; the root *)
(* of the repository, in any of its spellings, contains everything.        *)
Relative(p) == IF p # << >> /\ Head(p) = "/" THEN Tail(p) ELSE p
DirContainsPath(dir, file) == IsPrefix(Relative(dir), file)

ShouldInclude(spec, branch) ==
  \/ spec.rev \in {"", branch}
  \/ spec.rev = "HEAD" /\ branch \in {"main", "master"}

(* The entries of an index, as [kind, path, name]. *)
Indexed(lists) ==
  UNION {{[kind |-> k.kind, path |-> k.path, name |-> n] : n \in Range(lists[k].names)} : k \in DOMAIN lists}

(* FindAppsBasedOnChangeList: the names with an entry that a changed file  *)
(* touches; a name that has no application is only logged.                 *)
Touches(e, file) == IF e.kind = "dir" THEN DirContainsPath(e.path, file) ELSE e.path = file
FindApps(entries, appsMap, change, branch) ==
  LET touched == {e.name : e \in {x \in entries : \E f \in change : Touches(x, f)}}
      there == {n \in touched \cap DOMAIN appsMap : appsMap[n] # None}
  IN {[name |-> n, spec |-> appsMap[n]] : n \in {m \in there : ShouldInclude(appsMap[m], branch)}}

-----------------------------------------------------------------------------
(***************************************************************************)
(* AppSetDirectory.                                                        *)
(***************************************************************************)

(* Mutant: generators inside a matrix or merge generator are not seen.     *)
VisibleAtTop(g) == g.nested = 0

(* registerGitGen sees the generators of a spec and those inside a matrix  *)
(* or merge generator, but nothing deeper.                                 *)
Visible(g) == g.nested =< 1
EntriesAt(spec, p, excluded) ==
  Cardinality({ij \in UNION {{i} \X DOMAIN spec.gens[i].entries : i \in DOMAIN spec.gens} :
    LET e == spec.gens[ij[1]].entries[ij[2]] IN
    /\ Visible(spec.gens[ij[1]])
    /\ e.kind = p.kind /\ e.path = p.path
    /\ e.exclude => excluded})

(* ProcessAppSet registers the patterns even of an ApplicationSet that is  *)
(* in the map already.                                                     *)
ProcessAppSet(d, n, spec) ==
  [sets |-> IF d.sets[n] # None THEN d.sets ELSE [d.sets EXCEPT ![n] = spec],
   lists |-> [p \in PatternKeys |-> Extended(d.lists[p], n, EntriesAt(spec, p, FALSE))]]

(* unregisterGitGen does not skip the excluded ones. *)
RemoveAppSet(d, n, spec) ==
  [sets |-> [d.sets EXCEPT ![n] = None],
   lists |-> [p \in PatternKeys |-> Reduced(d.lists[p], n, EntriesAt(spec, p, TRUE))]]

(* doublestar.Match, for patterns in which * stands for one segment. *)
Match(pattern, path) ==
  /\ Len(pattern) = Len(path)
  /\ \A i \in DOMAIN path : pattern[i] \in {"*", path[i]}

(* anyParentMatches goes up to the root, which it calls ".". *)
Parents(file) == {SubSeq(file, 1, i) : i \in 1..Len(file) - 1} \cup {<<".">>}
AnyParentMatches(pattern, file) == \E dir \in Parents(file) : Match(pattern, dir)

PatternMatches(p, file) ==
  IF p.kind = "dir" THEN AnyParentMatches(p.path, file) ELSE Match(p.path, file)

(* The second pass of FindAppSetsBasedOnChangeList. *)
FindAppSets(d, change) ==
  LET touched == {p \in PatternKeys : \E f \in change : PatternMatches(p, f)}
  IN {n \in SetNames : d.sets[n] # None /\ \E p \in touched : n \in Range(d.lists[p].names)}

-----------------------------------------------------------------------------
(***************************************************************************)
(* The watchers.  An event of the informer becomes a list of calls to the  *)
(* directories, one for each source, which are made one after the other.   *)
(***************************************************************************)

(* canProcessApp and canProcessAppSet. *)
CanProcessApp(spec) == spec # None /\ \E src \in Sources(spec) : src.repo \in GitRepos
CanProcessAppSet(spec) == spec # None /\ spec.repo \in GitRepos

(* processApp. *)
Calls(op, n, spec) ==
  [i \in DOMAIN spec.sources |-> [op |-> op, repo |-> spec.sources[i].repo, name |-> n, spec |-> spec]]
SetCall(op, n, spec) == [op |-> op, repo |-> spec.repo, name |-> n, spec |-> spec]

(* Mutant: an update adds the new version first, which AddApp refuses.     *)
AppCallsAddFirst(n, old, new) ==
  CASE old = None /\ CanProcessApp(new) -> Calls("add", n, new)
    [] CanProcessApp(old) /\ new = None -> Calls("remove", n, old)
    [] CanProcessApp(old) /\ CanProcessApp(new) /\ old # new ->
         Calls("add", n, new) \o Calls("remove", n, old)
    [] OTHER -> << >>

(* onApplicationAdded, onApplicationUpdated and onApplicationDeleted, as a *)
(* list of calls.  An update with an old or a new version that cannot be   *)
(* processed is ignored, as is one that leaves the sources as they are.    *)
AppCalls(n, old, new) ==
  CASE old = None /\ CanProcessApp(new) -> Calls("add", n, new)
    [] CanProcessApp(old) /\ new = None -> Calls("remove", n, old)
    [] CanProcessApp(old) /\ CanProcessApp(new) /\ old # new ->
         Calls("remove", n, old) \o Calls("add", n, new)
    [] OTHER -> << >>

(* The same for ApplicationSets, whose update only looks at the source of  *)
(* the template: new generators alone are ignored.                         *)
TemplateOf(spec) == <<spec.repo, spec.values, spec.rev>>
SetCalls(n, old, new) ==
  CASE old = None /\ CanProcessAppSet(new) -> <<SetCall("add", n, new)>>
    [] CanProcessAppSet(old) /\ new = None -> <<SetCall("remove", n, old)>>
    [] CanProcessAppSet(old) /\ CanProcessAppSet(new) /\ TemplateOf(old) # TemplateOf(new) ->
         <<SetCall("remove", n, old), SetCall("add", n, new)>>
    [] OTHER -> << >>

(* Changes that leave the directory behind: a version that cannot be       *)
(* processed before or after an update, and a second application of the    *)
(* same name in another namespace, whose entry is the same.                *)
AppMissed(k, new) ==
  \/ apps[k] # None /\ new # None /\ CanProcessApp(apps[k]) # CanProcessApp(new)
  \/ \E other \in AppKeys \ {k} : AppNameOf[other] = AppNameOf[k] /\ apps[other] # None
SetMissed(old, new) ==
  /\ old # None /\ new # None
  /\ CanProcessAppSet(old) # CanProcessAppSet(new) \/ (TemplateOf(old) = TemplateOf(new) /\ old # new)

AppEvent(k, new) ==
  /\ events < MaxEvents
  /\ appTodo = << >>
  /\ new # apps[k]
  /\ events' = events + 1
  /\ apps' = [apps EXCEPT ![k] = new]
  /\ appTodo' = AppCalls(AppNameOf[k], apps[k], new)
  /\ missed' = IF AppMissed(k, new) THEN missed \cup {AppNameOf[k]} ELSE missed
  /\ several' = IF new # None /\ Len(new.sources) > 1 THEN several \cup {AppNameOf[k]} ELSE several
  /\ UNCHANGED <<appDirs, sets, setDirs, setTodo>>

(* A deletion that the informer noticed only when it listed the cluster    *)
(* anew comes as a DeletedFinalStateUnknown, which canProcessApp refuses.  *)
AppTombstone(k) ==
  /\ events < MaxEvents
  /\ appTodo = << >>
  /\ apps[k] # None
  /\ events' = events + 1
  /\ apps' = [apps EXCEPT ![k] = None]
  /\ missed' = missed \cup {AppNameOf[k]}
  /\ UNCHANGED <<appDirs, appTodo, sets, setDirs, setTodo, several>>

AppCall ==
  LET c == Head(appTodo)
      Do(d) == IF c.op = "add" THEN AddApp(d, c.name, c.spec) ELSE RemoveApp(d, c.name, c.spec)
  IN /\ appTodo # << >>
     /\ appDirs' = [appDirs EXCEPT ![c.repo] = Do(@)]
     /\ appTodo' = Tail(appTodo)
     /\ UNCHANGED <<apps, sets, setDirs, setTodo, missed, several, events>>

SetEvent(n, new) ==
  /\ events < MaxEvents
  /\ setTodo = << >>
  /\ new # sets[n]
  /\ events' = events + 1
  /\ sets' = [sets EXCEPT ![n] = new]
  /\ setTodo' = SetCalls(n, sets[n], new)
  /\ missed' = IF SetMissed(sets[n], new) THEN missed \cup {n} ELSE missed
  /\ UNCHANGED <<apps, appDirs, appTodo, setDirs, several>>

SetTombstone(n) ==
  /\ events < MaxEvents
  /\ setTodo = << >>
  /\ sets[n] # None
  /\ events' = events + 1
  /\ sets' = [sets EXCEPT ![n] = None]
  /\ missed' = missed \cup {n}
  /\ UNCHANGED <<apps, appDirs, appTodo, setDirs, setTodo, several>>

SetDirCall ==
  LET c == Head(setTodo)
      Do(d) == IF c.op = "add" THEN ProcessAppSet(d, c.name, c.spec)
               ELSE RemoveAppSet(d, c.name, c.spec)
  IN /\ setTodo # << >>
     /\ setDirs' = [setDirs EXCEPT ![c.repo] = Do(@)]
     /\ setTodo' = Tail(setTodo)
     /\ UNCHANGED <<apps, appDirs, appTodo, sets, missed, several, events>>

AppWatcher ==
  \/ \E k \in AppKeys, new \in AppSpecs \cup {None} : AppEvent(k, new)
  \/ \E k \in AppKeys : AppTombstone(k)
  \/ AppCall
AppSetWatcher ==
  \/ \E n \in SetNames, new \in SetSpecs \cup {None} : SetEvent(n, new)
  \/ \E n \in SetNames : SetTombstone(n)
  \/ SetDirCall
=============================================================================
