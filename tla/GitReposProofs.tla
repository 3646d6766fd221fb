--------------------------- MODULE GitReposProofs ---------------------------
(***************************************************************************)
(* Proofs about GitRepos, for any checks, URLs, branches and keys, both    *)
(* managers, and any number of restarts and faults.                        *)
(***************************************************************************)
EXTENDS GitRepos, TLAPS

Labels == {"idle", "run", "over"} \cup Calling
RepoMap == [Urls -> PersistentRepo \cup {None}]

(* No check runs before the location is cloned. *)
IdleInv == ~up => \A c \in Checks : pc[c] = "idle"

(* The leader of a flight is cloning a URL that is not cached; when it     *)
(* stores the repository, the directory is there.                          *)
FlightInv ==
  \A a \in Actors :
    /\ pc[a] \in {"fetch", "store"} => flight[Url(a)] = a /\ repos[Url(a)] = None
    /\ pc[a] = "store" => dirs[Url(a)] # None

(* A caller holds the PersistentRepo in the map only until it has its own  *)
(* copy of the Repo.                                                       *)
HandleInv ==
  \A a \in Actors :
    handle[a] = "mapped" => pc[a] \in {"checkout", "update"} /\ repos[Url(a)] # None

(* A check clones what it does not have. *)
AskingInv == \A c \in Checks : pc[c] \in Calling => want[c] \in Keys /\ cloned[c][want[c]] = None

GitInv ==
  /\ TypeOK /\ IdleInv /\ FlightInv /\ HandleInv /\ AskingInv
  /\ CachedIsOnDisk /\ OwnTreeStays

-----------------------------------------------------------------------------
LEMMA Constants ==
  /\ DefaultBranch \in Branches /\ "HEAD" \in Branches /\ "" \notin Branches
  /\ LocKey.url \in Urls /\ LocKey.branch \in Branches \cup {""} /\ Loc \in Actors /\ Loc \notin Checks
  /\ \A k \in Keys : k.url \in Urls /\ k.branch \in Branches
  /\ None \notin Actors /\ None \notin Tree /\ None \notin PersistentRepo /\ None # Archive /\ None # "mapped"
  /\ \A u \in Urls : u \in Dirs /\ u \notin TempDirs
BY KeysAssumption, FreshAssumption DEF Keys, Actors, Dirs

(* The branch names that a PersistentRepo can have, and the tree of a clone. *)
LEMMA BranchNames ==
  ASSUME NEW b \in Branches \cup {""}
  PROVE  /\ BranchName(b) \in Branches /\ Resolve(BranchName(b)) \in Branches
         /\ FreshClone(BranchName(b)) \in Tree
<1>1. BranchName(b) \in Branches /\ Resolve(BranchName(b)) \in Branches
  BY Constants DEF BranchName, Resolve
<1> QED BY <1>1 DEF FreshClone, Tree

LEMMA Wanted ==
  ASSUME TypeOK, NEW a \in Actors
  PROVE  Url(a) \in Urls /\ Url(a) \in Dirs /\ want[a].branch \in Branches \cup {""} /\ want[a] \in Keys \cup {LocKey}
BY Constants DEF TypeOK, Url

LEMMA Counters ==
  ASSUME TypeOK, NEW ok \in BOOLEAN, RemoteCall(ok)
  PROVE  faults' \in 0..MaxFaults
<1>1. MaxFaults \in Nat
  BY BoundsAssumption
<1> QED BY <1>1 DEF TypeOK, RemoteCall

(* A working tree keeps its place when its files are reset. *)
LEMMA ResetTree ==
  ASSUME TypeOK, NEW d \in Dirs, dirs[d] # None, NEW b \in Branches
  PROVE  /\ Reset(d, b) \in [Dirs -> Tree \cup {None}]
         /\ \A e \in Dirs : Reset(d, b)[e] = None <=> dirs[e] = None
<1>1. Resolve(b) \in Branches
  BY Constants DEF Resolve
<1>2. [dirs[d] EXCEPT !.branch = Resolve(b)] \in Tree
  BY <1>1 DEF TypeOK, Tree
<1> DEFINE tree == [dirs[d] EXCEPT !.branch = Resolve(b)]
<1>3. Reset(d, b) = [dirs EXCEPT ![d] = tree]
  BY DEF Reset
<1>4. tree \in Tree /\ tree # None
  BY <1>2, Constants
<1> HIDE DEF tree
<1> QED BY <1>3, <1>4 DEF TypeOK

(* What the failure of a call leaves: the callers in A have nothing in     *)
(* hand, and at startup the map is empty.                                  *)
LEMMA FailFacts ==
  ASSUME TypeOK, IdleInv, NEW A \in SUBSET Actors, NEW m \in RepoMap, Fail(A, m),
         \A u \in Urls : m[u] = None <=> repos[u] = None,
         \A a \in A : pc[a] \in Calling
  PROVE  /\ pc' \in [Actors -> Labels] /\ handle' \in [Actors -> {"mapped", "swept", None}]
         /\ want' \in [Actors -> Keys \cup {LocKey}] /\ repos' \in RepoMap /\ made' \in SUBSET TempDirs
         /\ \A a \in A : pc'[a] \in {"run", "clone"} /\ handle'[a] = None /\ want'[a] = LocKey
         /\ \A c \in A \cap Checks : pc'[c] = "run" /\ up
         /\ \A a \in Actors \ A : pc'[a] = pc[a] /\ handle'[a] = handle[a] /\ want'[a] = want[a]
         /\ \A u \in Urls : repos[u] = None => repos'[u] = None
         /\ (Loc \notin A \/ up) => \A u \in Urls : repos'[u] = None <=> repos[u] = None
<1> DEFINE fatal == Loc \in A /\ ~up
<1>1. /\ pc' = [a \in Actors |-> IF a \notin A THEN pc[a] ELSE IF fatal THEN "clone" ELSE "run"]
      /\ handle' = [a \in Actors |-> IF a \in A THEN None ELSE handle[a]]
      /\ want' = [a \in Actors |-> IF a \in A THEN LocKey ELSE want[a]]
      /\ repos' = IF fatal THEN [u \in Urls |-> None] ELSE m
      /\ made' = IF fatal THEN {} ELSE made
  BY DEF Fail
<1>2. \A c \in A \cap Checks : up
  BY DEF IdleInv, Calling
<1>3. made \in SUBSET TempDirs
  BY DEF TypeOK
<1>4. pc' \in [Actors -> Labels]
  BY <1>1 DEF TypeOK, Labels, Calling
<1>5. handle' \in [Actors -> {"mapped", "swept", None}] /\ want' \in [Actors -> Keys \cup {LocKey}]
  BY <1>1 DEF TypeOK
<1>6. repos' \in RepoMap /\ made' \in SUBSET TempDirs
  BY <1>1 DEF TypeOK, RepoMap
<1> QED BY <1>1, <1>2, <1>3, <1>4, <1>5, <1>6

(* A step that does not touch the keys of the checks. *)
LEMMA KeysKept ==
  ASSUME TypeOK, AskingInv, OwnTreeStays, UNCHANGED cloned,
         \A c \in Checks : /\ pc'[c] \in Calling => pc[c] \in Calling /\ want'[c] = want[c]
                           /\ pc'[c] = "run" => pc[c] \in {"run"} \cup Calling
  PROVE  AskingInv' /\ OwnTreeStays'
BY DEF AskingInv, OwnTreeStays, Calling

LEMMA FailKeeps ==
  ASSUME GitInv, NEW A \in SUBSET Actors, NEW m \in RepoMap, Fail(A, m),
         \A u \in Urls : m[u] = None <=> repos[u] = None,
         \A a \in A : pc[a] \in Calling,
         UNCHANGED <<procVars, swept, cloned, locPath>>, faults' \in 0..MaxFaults,
         flight' \in [Urls -> Actors \cup {None}],
         \A b \in Actors \ A : pc[b] \in {"fetch", "store"} => flight'[Url(b)] = b,
         dirs' \in [Dirs -> Tree \cup {None}], \A u \in Urls : dirs'[u] = None <=> dirs[u] = None,
         repo' \in [Actors -> [dir : Dirs \cup {None}, branch : Branches]]
  PROVE  GitInv'
<1>0. TypeOK /\ IdleInv /\ FlightInv /\ HandleInv /\ CachedIsOnDisk /\ AskingInv /\ OwnTreeStays
  BY DEF GitInv
<1>1. \A b \in Actors : Url(b) \in Urls
  BY <1>0, Wanted
<1>2. /\ pc' \in [Actors -> Labels] /\ handle' \in [Actors -> {"mapped", "swept", None}]
      /\ want' \in [Actors -> Keys \cup {LocKey}] /\ repos' \in RepoMap /\ made' \in SUBSET TempDirs
      /\ \A b \in A : pc'[b] \in {"run", "clone"} /\ handle'[b] = None /\ want'[b] = LocKey
      /\ \A c \in A \cap Checks : pc'[c] = "run" /\ up
      /\ \A b \in Actors \ A : pc'[b] = pc[b] /\ handle'[b] = handle[b] /\ want'[b] = want[b]
      /\ \A v \in Urls : repos[v] = None => repos'[v] = None
      /\ (Loc \notin A \/ up) => \A v \in Urls : repos'[v] = None <=> repos[v] = None
  BY <1>0, FailFacts
<1>3. TypeOK'
  BY <1>0, <1>2 DEF TypeOK, Labels, RepoMap, procVars
<1>4. IdleInv'
  BY <1>0, <1>2 DEF IdleInv, procVars, Actors
<1>5. \A b \in Actors \ A : Url(b)' = Url(b)
  BY <1>2 DEF Url
<1>6. FlightInv'
  <2> SUFFICES ASSUME NEW b \in Actors, pc'[b] \in {"fetch", "store"}
               PROVE  /\ flight'[Url(b)'] = b /\ repos'[Url(b)'] = None
                      /\ pc'[b] = "store" => dirs'[Url(b)'] # None
    BY DEF FlightInv
  <2>1. b \notin A
    BY <1>2
  <2>2. /\ pc[b] \in {"fetch", "store"} /\ Url(b)' = Url(b) /\ Url(b) \in Urls
        /\ pc'[b] = pc[b]
    BY <1>1, <1>2, <1>5, <2>1
  <2> QED BY <1>0, <1>2, <2>1, <2>2 DEF FlightInv
<1>7. HandleInv'
  <2> SUFFICES ASSUME NEW b \in Actors \ A, handle[b] = "mapped"
               PROVE  pc[b] \in {"checkout", "update"} /\ repos'[Url(b)] # None
    <3>1. \A b \in A : handle'[b] # "mapped"
      BY <1>2, Constants
    <3> QED BY <1>2, <1>5, <3>1 DEF HandleInv
  <2>1. pc[b] \in {"checkout", "update"} /\ repos[Url(b)] # None
    BY <1>0 DEF HandleInv
  <2>2. Loc \notin A \/ up
    BY <1>0, <2>1 DEF IdleInv, Actors
  <2> QED BY <1>1, <1>2, <2>1, <2>2
<1>8. AskingInv' /\ OwnTreeStays'
  BY <1>0, <1>2, KeysKept DEF Calling, Actors
<1>9. CachedIsOnDisk'
  BY <1>0, <1>2 DEF CachedIsOnDisk
<1> QED BY <1>3, <1>4, <1>6, <1>7, <1>8, <1>9 DEF GitInv

-----------------------------------------------------------------------------
(* PersistentRepoManager.Clone. *)
LEMMA GetOrCloneRepoStep ==
  ASSUME GitInv, NEW a \in Actors, GetOrCloneRepo(a)
  PROVE  GitInv'
<1> DEFINE u == Url(a)
<1>1. /\ pc[a] = "clone"
      /\ UNCHANGED <<procVars, faults, dirs, repos, swept, made, want, repo, cloned, locPath>>
      /\ \E l \in {"join", "checkout", "fetch"} : pc' = [pc EXCEPT ![a] = l]
      /\ pc'[a] = "checkout" => repos[u] # None
      /\ handle' = handle \/ (handle' = [handle EXCEPT ![a] = "mapped"] /\ pc'[a] = "checkout")
      /\ IF pc'[a] = "fetch" THEN flight[u] = None /\ repos[u] = None /\ flight' = [flight EXCEPT ![u] = a]
                             ELSE flight' = flight
  BY DEF GetOrCloneRepo, Goto, GitInv, TypeOK
<1>2. TypeOK /\ u \in Urls /\ \A b \in Actors : Url(b)' = Url(b) /\ Url(b) \in Urls
  BY <1>1, Wanted DEF GitInv, Url
<1>3. TypeOK'
  BY <1>1, <1>2 DEF TypeOK, procVars, Calling
<1>4. /\ \A b \in Actors : b # a => pc'[b] = pc[b] /\ handle'[b] = handle[b]
      /\ pc'[a] \in {"join", "checkout", "fetch"}
  BY <1>1, <1>2 DEF TypeOK
<1>5. IdleInv'
  BY <1>1, <1>4 DEF GitInv, IdleInv, procVars
<1>6. FlightInv'
  <2>0. \A v \in Urls : flight[v] # None => flight'[v] = flight[v]
    BY <1>1, <1>2 DEF TypeOK
  <2>1. \A b \in Actors : b # a /\ pc[b] \in {"fetch", "store"} => flight'[Url(b)] = b
    BY <1>2, <2>0, Constants DEF GitInv, FlightInv
  <2>2. pc'[a] = "fetch" => flight'[u] = a /\ repos[u] = None
    BY <1>1, <1>2 DEF TypeOK
  <2> HIDE DEF u
  <2>3. u = Url(a)
    BY DEF u
  <2> QED BY <1>1, <1>2, <1>4, <2>1, <2>2, <2>3 DEF GitInv, FlightInv
<1>7. HandleInv'
  <2>1. handle'[a] = "mapped" => pc'[a] = "checkout" /\ repos[u] # None
    BY <1>1, <1>2 DEF GitInv, HandleInv, TypeOK
  <2> HIDE DEF u
  <2>2. u = Url(a)
    BY DEF u
  <2> QED BY <1>1, <1>2, <1>4, <2>1, <2>2 DEF GitInv, HandleInv
<1>8. AskingInv' /\ OwnTreeStays'
  BY <1>1, <1>4, KeysKept DEF GitInv, Calling
<1>9. CachedIsOnDisk'
  BY <1>1 DEF GitInv, CachedIsOnDisk
<1> QED BY <1>3, <1>5, <1>6, <1>7, <1>8, <1>9 DEF GitInv

LEMMA FetchStep ==
  ASSUME GitInv, NEW a \in Actors, Fetch(a)
  PROVE  GitInv'
<1> DEFINE u == Url(a)
           tree == FreshClone(BranchName(want[a].branch))
<1>0. TypeOK /\ IdleInv /\ FlightInv /\ HandleInv /\ CachedIsOnDisk /\ AskingInv /\ OwnTreeStays
  BY DEF GitInv
<1>1. PICK ok \in BOOLEAN :
        /\ RemoteCall(ok)
        /\ \/ /\ ok /\ dirs[u] = None
              /\ dirs' = [dirs EXCEPT ![u] = tree]
              /\ Goto(a, "store")
              /\ UNCHANGED <<flight, want, handle, repos, made>>
           \/ /\ ~ok \/ dirs[u] # None
              /\ flight' = [flight EXCEPT ![u] = None]
              /\ Fail(Served(a), repos)
              /\ UNCHANGED dirs
  BY DEF Fetch
<1>2. pc[a] = "fetch" /\ UNCHANGED <<procVars, swept, repo, cloned, locPath>> /\ faults' \in 0..MaxFaults
  BY <1>0, <1>1, Counters DEF Fetch
<1>3. /\ u \in Urls /\ u \in Dirs /\ tree \in Tree /\ tree # None
      /\ \A b \in Actors : Url(b) \in Urls /\ Url(b) \in Dirs
  BY <1>0, Wanted, BranchNames, Constants
<1>4. CASE dirs' = [dirs EXCEPT ![u] = tree] /\ Goto(a, "store") /\ UNCHANGED <<flight, want, handle, repos, made>>
  <2> HIDE DEF tree
  <2>1. \A b \in Actors : Url(b)' = Url(b)
    BY <1>4 DEF Url
  <2>2. /\ \A b \in Actors : b # a => pc'[b] = pc[b]
        /\ pc'[a] = "store" /\ pc' \in [Actors -> Labels]
    BY <1>0, <1>4 DEF Goto, TypeOK, Labels, Calling
  <2>3. dirs' \in [Dirs -> Tree \cup {None}] /\ \A d \in Dirs : dirs'[d] = None => dirs[d] = None /\ d # u
    BY <1>0, <1>3, <1>4 DEF TypeOK
  <2>4. TypeOK'
    BY <1>0, <1>2, <1>4, <2>2, <2>3 DEF TypeOK, Labels, procVars
  <2>5. IdleInv' /\ HandleInv'
    <3>1. IdleInv'
      BY <1>0, <1>2, <2>2 DEF IdleInv, procVars, Actors
    <3> QED BY <1>0, <1>2, <1>4, <2>1, <2>2, <3>1 DEF HandleInv
  <2>6. FlightInv'
    <3> SUFFICES ASSUME NEW b \in Actors
                 PROVE  /\ pc'[b] \in {"fetch", "store"} => flight'[Url(b)] = b /\ repos'[Url(b)] = None
                        /\ pc'[b] = "store" => dirs'[Url(b)] # None
      BY <2>1 DEF FlightInv
    <3> QED BY <1>0, <1>2, <1>3, <1>4, <2>2, <2>3 DEF FlightInv
  <2>7. AskingInv' /\ OwnTreeStays'
    BY <1>0, <1>2, <1>4, <2>2, KeysKept DEF Calling, Actors
  <2>8. CachedIsOnDisk'
    BY <1>0, <1>3, <1>4, <2>3 DEF CachedIsOnDisk
  <2> QED BY <2>4, <2>5, <2>6, <2>7, <2>8 DEF GitInv
<1>5. CASE flight' = [flight EXCEPT ![u] = None] /\ Fail(Served(a), repos) /\ UNCHANGED dirs
  <2>1. Served(a) \in SUBSET Actors /\ a \in Served(a) /\ \A b \in Served(a) : pc[b] \in Calling
    BY <1>2 DEF Served, Calling
  <2>2. repos \in RepoMap
    BY <1>0 DEF TypeOK, RepoMap
  <2>3. \A b \in Actors \ Served(a) : pc[b] \in {"fetch", "store"} => flight'[Url(b)] = b
    BY <1>0, <1>2, <1>3, <1>5, <2>1 DEF FlightInv, TypeOK
  <2>4. flight' \in [Urls -> Actors \cup {None}]
    BY <1>0, <1>5 DEF TypeOK
  <2>5. dirs' \in [Dirs -> Tree \cup {None}] /\ repo' \in [Actors -> [dir : Dirs \cup {None}, branch : Branches]]
    BY <1>0, <1>2, <1>5 DEF TypeOK
  <2> QED BY <1>2, <1>5, <2>1, <2>2, <2>3, <2>4, <2>5, FailKeeps
<1> QED BY <1>1, <1>4, <1>5

LEMMA StoreStep ==
  ASSUME GitInv, NEW a \in Actors, Store(a)
  PROVE  GitInv'
<1> DEFINE u == Url(a)
           new == [branch |-> BranchName(want[a].branch), stale |-> FALSE]
<1>0. TypeOK /\ IdleInv /\ FlightInv /\ HandleInv /\ CachedIsOnDisk /\ AskingInv /\ OwnTreeStays
  BY DEF GitInv
<1>1. /\ pc[a] = "store"
      /\ repos' = [repos EXCEPT ![u] = new]
      /\ flight' = [flight EXCEPT ![u] = None]
      /\ handle' = [b \in Actors |-> IF b \in Served(a) THEN "mapped" ELSE handle[b]]
      /\ pc' = [b \in Actors |-> IF b \in Served(a) THEN "checkout" ELSE pc[b]]
      /\ UNCHANGED <<procVars, faults, dirs, swept, made, want, repo, cloned, locPath>>
  BY DEF Store
<1>2. /\ u \in Urls /\ u \in Dirs /\ new \in PersistentRepo
      /\ \A b \in Actors : Url(b) \in Urls /\ Url(b) \in Dirs
  BY <1>0, Wanted, BranchNames DEF PersistentRepo
<1>3. new # None
  BY <1>2, Constants
<1> HIDE DEF new
<1>4. /\ flight[u] = a /\ repos[u] = None /\ dirs[u] # None
      /\ \A b \in Served(a) : Url(b) = u /\ pc[b] \in Calling
      /\ \A b \in Actors : Url(b)' = Url(b)
  BY <1>0, <1>1 DEF FlightInv, Served, Url, Calling
<1>5. repos' \in RepoMap /\ flight' \in [Urls -> Actors \cup {None}]
      /\ repos'[u] # None /\ \A v \in Urls : v # u => repos'[v] = repos[v] /\ flight'[v] = flight[v]
  BY <1>0, <1>1, <1>2, <1>3 DEF TypeOK, RepoMap
<1> HIDE DEF u
<1>6. pc' \in [Actors -> Labels] /\ handle' \in [Actors -> {"mapped", "swept", None}]
  BY <1>0, <1>1 DEF TypeOK, Labels, Calling
<1>7. TypeOK'
  BY <1>0, <1>1, <1>5, <1>6 DEF TypeOK, Labels, RepoMap, procVars
<1>8. IdleInv'
  BY <1>0, <1>1, <1>4 DEF IdleInv, procVars, Actors, Calling
<1>9. FlightInv'
  <2> SUFFICES ASSUME NEW b \in Actors, pc'[b] \in {"fetch", "store"}
               PROVE  /\ flight'[Url(b)] = b /\ repos'[Url(b)] = None
                      /\ pc'[b] = "store" => dirs'[Url(b)] # None
    BY <1>4 DEF FlightInv
  <2>1. b # a /\ pc'[b] = pc[b]
    BY <1>1 DEF Served
  <2>2. Url(b) # u
    BY <1>0, <1>4, <2>1 DEF FlightInv
  <2> QED BY <1>0, <1>1, <1>2, <1>5, <2>1, <2>2 DEF FlightInv
<1>10. HandleInv'
  <2> SUFFICES ASSUME NEW b \in Actors, handle'[b] = "mapped"
               PROVE  pc'[b] \in {"checkout", "update"} /\ repos'[Url(b)] # None
    BY <1>4 DEF HandleInv
  <2>1. CASE b \in Served(a)
    BY <1>1, <1>4, <1>5, <2>1
  <2>2. CASE b \notin Served(a)
    BY <1>0, <1>1, <1>2, <1>5, <2>2 DEF HandleInv
  <2> QED BY <2>1, <2>2
<1>11. AskingInv' /\ OwnTreeStays'
  BY <1>0, <1>1, <1>4, KeysKept DEF Calling, Actors
<1>12. CachedIsOnDisk'
  BY <1>0, <1>1, <1>4, <1>5 DEF CachedIsOnDisk
<1> QED BY <1>7, <1>8, <1>9, <1>10, <1>11, <1>12 DEF GitInv

(* A step of one caller that keeps every flight and what everyone wants. *)
LEMMA CallerKeeps ==
  ASSUME GitInv, NEW a \in Actors, NEW l \in Labels \ {"fetch", "store"},
         pc' = [pc EXCEPT ![a] = l], pc[a] \notin {"idle", "over"}, l = "run" => pc[a] # "idle",
         UNCHANGED <<procVars, flight, want, cloned>>,
         handle' = handle \/ handle' = [handle EXCEPT ![a] = None],
         handle'[a] = "mapped" => l \in {"checkout", "update"},
         a \in Checks /\ l \in Calling => pc[a] \in Calling,
         \A u \in Urls : (dirs'[u] = None <=> dirs[u] = None) /\ (repos'[u] = None <=> repos[u] = None)
  PROVE  /\ IdleInv' /\ FlightInv' /\ HandleInv' /\ AskingInv' /\ CachedIsOnDisk'
         /\ OwnTreeStays' /\ pc' \in [Actors -> Labels] /\ handle' \in [Actors -> {"mapped", "swept", None}]
<1>0. TypeOK /\ IdleInv /\ FlightInv /\ HandleInv /\ CachedIsOnDisk /\ AskingInv /\ OwnTreeStays
  BY DEF GitInv
<1>1. \A b \in Actors : Url(b) \in Urls /\ Url(b)' = Url(b)
  BY <1>0, Wanted DEF Url
<1>2. /\ pc' \in [Actors -> Labels] /\ pc'[a] = l /\ \A b \in Actors : b # a => pc'[b] = pc[b]
      /\ handle' \in [Actors -> {"mapped", "swept", None}] /\ \A b \in Actors : b # a => handle'[b] = handle[b]
      /\ handle'[a] = "mapped" => handle[a] = "mapped"
  BY <1>0, Constants DEF TypeOK, Labels
<1>3. IdleInv'
  BY <1>0, <1>2 DEF IdleInv, procVars, Actors
<1>4. FlightInv'
  BY <1>0, <1>1, <1>2 DEF FlightInv
<1>5. HandleInv'
  BY <1>0, <1>1, <1>2 DEF HandleInv
<1>6. AskingInv' /\ OwnTreeStays'
  <2>1. \A c \in Checks : /\ pc'[c] \in Calling => pc[c] \in Calling
                          /\ pc'[c] = "run" => pc[c] \in {"run"} \cup Calling
    BY <1>0, <1>2 DEF Actors, TypeOK, Labels
  <2> QED BY <1>0, <2>1, KeysKept
<1>7. CachedIsOnDisk'
  BY <1>0 DEF CachedIsOnDisk
<1> QED BY <1>2, <1>3, <1>4, <1>5, <1>6, <1>7

LEMMA CheckoutStep ==
  ASSUME GitInv, NEW a \in Actors, Checkout(a)
  PROVE  GitInv'
<1> DEFINE u == Url(a)
           b == want[a].branch
<1>0. TypeOK
  BY DEF GitInv
<1>1. /\ pc[a] = "checkout" /\ UNCHANGED <<procVars, faults, flight, repo, cloned, locPath>>
      /\ \/ Goto(a, "update") /\ UNCHANGED <<dirs, repos, swept, made, want, handle>>
         \/ /\ b # "" /\ HasLocal(u, b)
            /\ dirs' = [dirs EXCEPT ![u].branch = b]
            /\ SetHeld(a, b)
            /\ Goto(a, "update")
            /\ UNCHANGED <<made, want, handle>>
         \/ Fail({a}, repos) /\ UNCHANGED <<dirs, swept>>
  BY DEF Checkout
<1>2. /\ u \in Urls /\ u \in Dirs /\ b \in Branches \cup {""}
      /\ "update" \in Labels \ {"fetch", "store"} /\ "update" \in Calling /\ pc[a] \in Calling
  BY <1>0, <1>1, Wanted DEF Labels, Calling
<1>3. CASE Goto(a, "update") /\ UNCHANGED <<dirs, repos, swept, made, want, handle>>
  <2>1. /\ IdleInv' /\ FlightInv' /\ HandleInv' /\ AskingInv' /\ CachedIsOnDisk' /\ OwnTreeStays'
        /\ pc' \in [Actors -> Labels]
    BY <1>1, <1>2, <1>3, CallerKeeps DEF Goto
  <2>2. TypeOK'
    BY <1>0, <1>1, <1>3, <2>1 DEF TypeOK, Labels, procVars
  <2> QED BY <2>1, <2>2 DEF GitInv
<1>4. CASE /\ b # "" /\ HasLocal(u, b) /\ dirs' = [dirs EXCEPT ![u].branch = b] /\ SetHeld(a, b)
           /\ Goto(a, "update") /\ UNCHANGED <<made, want, handle>>
  <2> DEFINE tree == [dirs[u] EXCEPT !.branch = b]
             entry == [repos[u] EXCEPT !.branch = b]
  <2>1. tree \in Tree /\ tree # None /\ dirs[u] # None /\ dirs' = [dirs EXCEPT ![u] = tree]
    <3>1. dirs[u] \in Tree
      BY <1>0, <1>2, <1>4 DEF TypeOK, HasLocal
    <3>2. tree \in Tree
      BY <1>2, <1>4, <3>1 DEF Tree
    <3> QED BY <1>4, <3>2, Constants DEF HasLocal
  <2>2. /\ repos' \in RepoMap /\ swept' \in [Urls -> Branches]
        /\ \A v \in Urls : repos'[v] = None <=> repos[v] = None
    <3>1. CASE handle[a] = "mapped"
      <4>1. repos' = [repos EXCEPT ![u] = entry] /\ swept' = swept
        BY <1>4, <3>1 DEF SetHeld
      <4>2. repos[u] \in PersistentRepo /\ repos[u] # None
        BY <1>0, <1>2, <3>1 DEF GitInv, HandleInv, TypeOK
      <4>3. entry \in PersistentRepo /\ entry # None
        <5>1. entry \in PersistentRepo
          BY <1>2, <1>4, <4>2 DEF PersistentRepo
        <5> QED BY <5>1, Constants
      <4> HIDE DEF entry
      <4> QED BY <1>0, <1>2, <4>1, <4>2, <4>3 DEF TypeOK, RepoMap
    <3>2. CASE handle[a] # "mapped"
      BY <1>0, <1>2, <1>4, <3>2 DEF SetHeld, TypeOK, RepoMap
    <3> QED BY <3>1, <3>2
  <2> HIDE DEF tree
  <2>3. dirs' \in [Dirs -> Tree \cup {None}] /\ \A v \in Urls : dirs'[v] = None <=> dirs[v] = None
    BY <1>0, <1>2, <2>1, Constants DEF TypeOK
  <2>4. /\ IdleInv' /\ FlightInv' /\ HandleInv' /\ AskingInv' /\ CachedIsOnDisk' /\ OwnTreeStays'
        /\ pc' \in [Actors -> Labels]
    BY <1>1, <1>2, <1>4, <2>2, <2>3, CallerKeeps DEF Goto
  <2>5. TypeOK'
    BY <1>0, <1>1, <1>4, <2>2, <2>3, <2>4 DEF TypeOK, Labels, RepoMap, procVars
  <2> QED BY <2>4, <2>5 DEF GitInv
<1>5. CASE Fail({a}, repos) /\ UNCHANGED <<dirs, swept>>
  <2>1. \A c \in Actors \ {a} : pc[c] \in {"fetch", "store"} => flight'[Url(c)] = c
    BY <1>1 DEF GitInv, FlightInv
  <2>2. /\ repos \in RepoMap /\ faults' \in 0..MaxFaults /\ flight' \in [Urls -> Actors \cup {None}]
        /\ dirs' \in [Dirs -> Tree \cup {None}] /\ repo' \in [Actors -> [dir : Dirs \cup {None}, branch : Branches]]
    BY <1>0, <1>1, <1>5 DEF TypeOK, RepoMap
  <2>3. {a} \in SUBSET Actors /\ (\A c \in {a} : pc[c] \in Calling)
        /\ UNCHANGED <<procVars, swept, cloned, locPath>> /\ (\A v \in Urls : dirs'[v] = None <=> dirs[v] = None)
    BY <1>1, <1>2, <1>5
  <2> HIDE DEF u, b
  <2> QED BY <1>5, <2>1, <2>2, <2>3, FailKeeps
<1> QED BY <1>1, <1>3, <1>4, <1>5

(* A use of the entry in the map leaves it there. *)
LEMMA TouchedMap ==
  ASSUME GitInv, NEW a \in Actors
  PROVE  Touched(a) \in RepoMap /\ Held(a) \in Branches /\ \A u \in Urls : Touched(a)[u] = None <=> repos[u] = None
<1> DEFINE u == Url(a)
           entry == [repos[u] EXCEPT !.stale = FALSE]
<1>1. TypeOK /\ u \in Urls
  BY Wanted DEF GitInv
<1>2. CASE handle[a] = "mapped"
  <2>1. repos[u] \in PersistentRepo /\ repos[u] # None
    BY <1>1, <1>2 DEF GitInv, HandleInv, TypeOK
  <2>2. entry \in PersistentRepo /\ repos[u].branch \in Branches
    BY <2>1 DEF PersistentRepo
  <2>3. entry # None
    BY <2>2, Constants
  <2>4. Touched(a) = [repos EXCEPT ![u] = entry] /\ Held(a) = repos[u].branch
    BY <1>2 DEF Touched, Held
  <2> HIDE DEF entry
  <2> QED BY <1>1, <2>1, <2>2, <2>3, <2>4 DEF TypeOK, RepoMap
<1>3. CASE handle[a] # "mapped"
  BY <1>1, <1>3 DEF Touched, Held, TypeOK, RepoMap
<1> QED BY <1>2, <1>3

LEMMA UpdateStep ==
  ASSUME GitInv, NEW a \in Actors, Update(a)
  PROVE  GitInv'
<1> DEFINE u == Url(a)
<1>0. TypeOK /\ u \in Urls /\ u \in Dirs
  BY Wanted DEF GitInv
<1>1. /\ pc[a] = "update" /\ UNCHANGED <<procVars, swept, flight, cloned, locPath>>
  BY DEF Update
<1>2. PICK fetched \in BOOLEAN, branched \in BOOLEAN :
        LET updated == fetched /\ dirs[u] # None IN
        /\ RemoteCall(fetched /\ branched)
        /\ dirs' = IF updated THEN Reset(u, Held(a)) ELSE dirs
        /\ \/ /\ updated /\ branched
              /\ repos' = Touched(a)
              /\ repo' = [repo EXCEPT ![a] = [dir |-> u, branch |-> Held(a)]]
              /\ handle' = [handle EXCEPT ![a] = None]
              /\ Goto(a, "keep")
              /\ UNCHANGED <<want, made>>
           \/ /\ ~(updated /\ branched)
              /\ Fail({a}, IF updated THEN Touched(a) ELSE repos)
              /\ UNCHANGED repo
  BY DEF Update
<1> DEFINE updated == fetched /\ dirs[u] # None
           m == IF updated THEN Touched(a) ELSE repos
<1>3. faults' \in 0..MaxFaults
  <2>1. (fetched /\ branched) \in BOOLEAN
    OBVIOUS
  <2> QED BY <1>0, <1>2, <2>1, Counters
<1>4. dirs' \in [Dirs -> Tree \cup {None}] /\ \A v \in Urls : dirs'[v] = None <=> dirs[v] = None
  <2>1. CASE updated
    BY <1>0, <1>2, <2>1, TouchedMap, ResetTree, Constants
  <2>2. CASE ~updated
    BY <1>0, <1>2, <2>2 DEF TypeOK
  <2> QED BY <2>1, <2>2
<1>5. m \in RepoMap /\ \A v \in Urls : m[v] = None <=> repos[v] = None
  BY <1>0, TouchedMap DEF TypeOK, RepoMap
<1>6. "keep" \in Labels \ {"fetch", "store"} /\ pc[a] \in Calling
  BY <1>1 DEF Labels, Calling
<1>7. CASE /\ repos' = Touched(a)
           /\ repo' = [repo EXCEPT ![a] = [dir |-> u, branch |-> Held(a)]]
           /\ handle' = [handle EXCEPT ![a] = None]
           /\ Goto(a, "keep")
           /\ UNCHANGED <<want, made>>
  <2>1. repos' \in RepoMap /\ \A v \in Urls : repos'[v] = None <=> repos[v] = None
    BY <1>7, TouchedMap
  <2>2. handle'[a] = None /\ None # "mapped"
    BY <1>0, <1>7, Constants DEF TypeOK
  <2>3. /\ IdleInv' /\ FlightInv' /\ HandleInv' /\ AskingInv' /\ CachedIsOnDisk' /\ OwnTreeStays'
        /\ pc' \in [Actors -> Labels] /\ handle' \in [Actors -> {"mapped", "swept", None}]
    BY <1>1, <1>4, <1>6, <1>7, <2>1, <2>2, CallerKeeps DEF Goto
  <2>4. repo' \in [Actors -> [dir : Dirs \cup {None}, branch : Branches]]
    <3>1. [dir |-> u, branch |-> Held(a)] \in [dir : Dirs \cup {None}, branch : Branches]
      BY <1>0, TouchedMap
    <3> QED BY <1>0, <1>7, <3>1 DEF TypeOK
  <2>5. TypeOK'
    BY <1>0, <1>1, <1>3, <1>4, <1>7, <2>1, <2>3, <2>4 DEF TypeOK, Labels, RepoMap, procVars
  <2> QED BY <2>3, <2>5 DEF GitInv
<1>8. CASE Fail({a}, m) /\ UNCHANGED repo
  <2> HIDE DEF m
  <2>1. \A c \in Actors \ {a} : pc[c] \in {"fetch", "store"} => flight'[Url(c)] = c
    BY <1>1 DEF GitInv, FlightInv
  <2>2. flight' \in [Urls -> Actors \cup {None}] /\ repo' \in [Actors -> [dir : Dirs \cup {None}, branch : Branches]]
    BY <1>0, <1>1, <1>8 DEF TypeOK
  <2> QED BY <1>1, <1>3, <1>4, <1>5, <1>6, <1>8, <2>1, <2>2, FailKeeps
<1> QED BY <1>2, <1>7, <1>8

(* The TTL passes, and the sweep takes what has passed it: nobody is       *)
(* storing a repository of this URL, for it would not be in the map.       *)
LEMMA AgeStep ==
  ASSUME GitInv, NEW u \in Urls, Age(u)
  PROVE  GitInv'
<1> DEFINE entry == [repos[u] EXCEPT !.stale = TRUE]
<1>0. TypeOK
  BY DEF GitInv
<1>1. /\ repos[u] # None /\ repos' = [repos EXCEPT ![u] = entry]
      /\ UNCHANGED <<procVars, faults, dirs, swept, made, callVars, repo, cloned, locPath>>
  BY DEF Age
<1>2. entry \in PersistentRepo /\ entry # None
  <2>1. repos[u] \in PersistentRepo
    BY <1>0, <1>1 DEF TypeOK
  <2>2. entry \in PersistentRepo
    BY <2>1 DEF PersistentRepo
  <2> QED BY <2>2, Constants
<1> HIDE DEF entry
<1>3. repos' \in RepoMap /\ \A v \in Urls : repos'[v] = None <=> repos[v] = None
  BY <1>0, <1>1, <1>2 DEF TypeOK, RepoMap
<1>4. TypeOK'
  BY <1>0, <1>1, <1>3 DEF TypeOK, RepoMap, procVars, callVars
<1>5. \A a \in Actors : Url(a)' = Url(a) /\ Url(a) \in Urls
  BY <1>0, <1>1, Wanted DEF Url, callVars
<1>6. IdleInv' /\ FlightInv' /\ HandleInv'
  BY <1>1, <1>3, <1>5 DEF GitInv, IdleInv, FlightInv, HandleInv, procVars, callVars
<1>7. AskingInv' /\ OwnTreeStays' /\ CachedIsOnDisk'
  BY <1>1, <1>3 DEF GitInv, AskingInv, OwnTreeStays, CachedIsOnDisk, callVars
<1> QED BY <1>4, <1>6, <1>7 DEF GitInv

LEMMA SweepStep ==
  ASSUME GitInv, NEW u \in Urls, CleanupStaleRepos(u)
  PROVE  GitInv'
<1>0. TypeOK /\ FlightInv /\ HandleInv /\ CachedIsOnDisk
  BY DEF GitInv
<1>1. /\ repos[u] # None
      /\ dirs' = [dirs EXCEPT ![u] = None] /\ repos' = [repos EXCEPT ![u] = None]
      /\ swept' = [swept EXCEPT ![u] = repos[u].branch]
      /\ handle' = [a \in Actors |-> IF Url(a) = u /\ handle[a] = "mapped" THEN "swept" ELSE handle[a]]
      /\ UNCHANGED <<procVars, faults, made, flight, pc, want, repo, cloned, locPath>>
  BY DEF CleanupStaleRepos, Forget
<1>2. u \in Dirs /\ \A v \in Urls : v \in Dirs
  BY Constants
<1>3. \A a \in Actors : Url(a)' = Url(a) /\ Url(a) \in Urls
  BY <1>0, <1>1, Wanted DEF Url
<1>4. TypeOK'
  <2>1. repos[u].branch \in Branches
    BY <1>0, <1>1 DEF TypeOK, PersistentRepo
  <2>2. dirs' \in [Dirs -> Tree \cup {None}] /\ repos' \in [Urls -> PersistentRepo \cup {None}]
    BY <1>0, <1>1 DEF TypeOK
  <2>3. swept' \in [Urls -> Branches] /\ handle' \in [Actors -> {"mapped", "swept", None}]
    BY <1>0, <1>1, <2>1 DEF TypeOK
  <2> QED BY <1>0, <1>1, <2>2, <2>3 DEF TypeOK, procVars
<1>5. FlightInv'
  BY <1>0, <1>1, <1>2, <1>3 DEF FlightInv, TypeOK
<1>6. HandleInv'
  <2> SUFFICES ASSUME NEW a \in Actors, handle'[a] = "mapped"
               PROVE  pc[a] \in {"checkout", "update"} /\ repos'[Url(a)] # None
    BY <1>1, <1>3 DEF HandleInv
  <2>1. handle[a] = "mapped" /\ Url(a) # u
    BY <1>1
  <2> QED BY <1>0, <1>1, <1>3, <2>1 DEF HandleInv, TypeOK
<1>7. CachedIsOnDisk'
  BY <1>0, <1>1, <1>2 DEF CachedIsOnDisk, TypeOK
<1>8. IdleInv' /\ AskingInv' /\ OwnTreeStays'
  BY <1>1 DEF GitInv, IdleInv, AskingInv, OwnTreeStays, procVars
<1> QED BY <1>4, <1>5, <1>6, <1>7, <1>8 DEF GitInv

(* EphemeralRepoManager.Clone. *)
LEMMA EphemeralCloneStep ==
  ASSUME GitInv, NEW a \in Actors, EphemeralClone(a)
  PROVE  GitInv'
<1> DEFINE b == BranchName(want[a].branch)
           new == [dir |-> NewDir, branch |-> b]
<1>0. TypeOK
  BY DEF GitInv
<1>1. pc[a] = "clone" /\ UNCHANGED <<procVars, swept, flight, cloned, locPath>>
  BY DEF EphemeralClone
<1>2. PICK ok \in BOOLEAN :
        /\ RemoteCall(ok)
        /\ \/ /\ ok /\ FreeDirs # {}
              /\ dirs' = [dirs EXCEPT ![NewDir] = FreshClone(b)]
              /\ made' = made \cup {NewDir}
              /\ repo' = [repo EXCEPT ![a] = new]
              /\ Goto(a, "keep")
              /\ UNCHANGED <<repos, want, handle>>
           \/ /\ ~ok
              /\ Fail({a}, repos)
              /\ UNCHANGED <<dirs, repo>>
  BY DEF EphemeralClone
<1>3. faults' \in 0..MaxFaults /\ b \in Branches /\ FreshClone(b) \in Tree
  BY <1>0, <1>2, Counters, Wanted, BranchNames
<1>4. "keep" \in Labels \ {"fetch", "store"} /\ pc[a] \in Calling
  BY <1>1 DEF Labels, Calling
<1>5. CASE /\ FreeDirs # {} /\ dirs' = [dirs EXCEPT ![NewDir] = FreshClone(b)]
           /\ made' = made \cup {NewDir} /\ repo' = [repo EXCEPT ![a] = new]
           /\ Goto(a, "keep") /\ UNCHANGED <<repos, want, handle>>
  <2>1. NewDir \in TempDirs /\ NewDir \in Dirs
    BY <1>5 DEF NewDir, FreeDirs, Dirs
  <2>2. new \in [dir : Dirs \cup {None}, branch : Branches]
    BY <1>3, <2>1
  <2> HIDE DEF b, new
  <2>3. dirs' \in [Dirs -> Tree \cup {None}] /\ \A v \in Urls : dirs'[v] = dirs[v]
    BY <1>0, <1>3, <1>5, <2>1, Constants DEF TypeOK
  <2>4. made' \in SUBSET TempDirs /\ repo' \in [Actors -> [dir : Dirs \cup {None}, branch : Branches]]
    BY <1>0, <1>5, <2>1, <2>2 DEF TypeOK
  <2>5. handle'[a] # "mapped"
    BY <1>1, <1>5 DEF GitInv, HandleInv
  <2>6. /\ IdleInv' /\ FlightInv' /\ HandleInv' /\ AskingInv' /\ CachedIsOnDisk' /\ OwnTreeStays'
        /\ pc' \in [Actors -> Labels] /\ handle' \in [Actors -> {"mapped", "swept", None}]
    BY <1>1, <1>4, <1>5, <2>3, <2>5, CallerKeeps DEF Goto
  <2>7. TypeOK'
    BY <1>0, <1>1, <1>3, <1>5, <2>3, <2>4, <2>6 DEF TypeOK, Labels, procVars
  <2> QED BY <2>6, <2>7 DEF GitInv
<1>6. CASE Fail({a}, repos) /\ UNCHANGED <<dirs, repo>>
  <2>1. \A c \in Actors \ {a} : pc[c] \in {"fetch", "store"} => flight'[Url(c)] = c
    BY <1>1 DEF GitInv, FlightInv
  <2>2. /\ repos \in RepoMap /\ flight' \in [Urls -> Actors \cup {None}]
        /\ dirs' \in [Dirs -> Tree \cup {None}] /\ repo' \in [Actors -> [dir : Dirs \cup {None}, branch : Branches]]
    BY <1>0, <1>1, <1>6 DEF TypeOK, RepoMap
  <2> QED BY <1>1, <1>3, <1>4, <1>6, <2>1, <2>2, FailKeeps
<1> QED BY <1>2, <1>5, <1>6

-----------------------------------------------------------------------------
(* The callers. *)
LEMMA StartCheckStep ==
  ASSUME GitInv, NEW c \in Checks, StartCheck(c)
  PROVE  GitInv'
<1> DEFINE keys == [k \in Keys |-> IF k \in OwnKeys[c] THEN Archive ELSE None]
<1>0. TypeOK /\ IdleInv /\ FlightInv /\ HandleInv /\ CachedIsOnDisk /\ AskingInv /\ OwnTreeStays
  BY DEF GitInv
<1>1. /\ up /\ pc[c] = "idle" /\ pc' = [pc EXCEPT ![c] = "run"] /\ cloned' = [cloned EXCEPT ![c] = keys]
      /\ UNCHANGED <<procVars, faults, dirs, repos, swept, made, flight, want, handle, repo, locPath>>
  BY DEF StartCheck, Goto
<1>2. keys \in [Keys -> Dirs \cup {Archive, None}] /\ \A k \in OwnKeys[c] : keys[k] = Archive
  BY KeysAssumption
<1> HIDE DEF keys
<1>3. c \in Actors /\ pc' \in [Actors -> Labels] /\ pc'[c] = "run"
      /\ (\A b \in Actors : b # c => pc'[b] = pc[b])
      /\ cloned' \in [Checks -> [Keys -> Dirs \cup {Archive, None}]] /\ cloned'[c] = keys
      /\ (\A d \in Checks : d # c => cloned'[d] = cloned[d])
  BY <1>0, <1>1, <1>2 DEF TypeOK, Labels, Actors
<1>4. TypeOK'
  BY <1>0, <1>1, <1>3 DEF TypeOK, Labels, procVars
<1>5. \A b \in Actors : Url(b)' = Url(b)
  BY <1>1 DEF Url
<1>6. IdleInv' /\ FlightInv' /\ HandleInv'
  BY <1>0, <1>1, <1>3, <1>5 DEF IdleInv, FlightInv, HandleInv, procVars
<1>7. AskingInv' /\ OwnTreeStays'
  BY <1>0, <1>1, <1>2, <1>3 DEF AskingInv, OwnTreeStays, Actors, Calling
<1>8. CachedIsOnDisk'
  BY <1>0, <1>1 DEF CachedIsOnDisk
<1> QED BY <1>4, <1>6, <1>7, <1>8 DEF GitInv

LEMMA GetRepoStep ==
  ASSUME GitInv, NEW c \in Checks, NEW k \in Wants[c], GetRepo(c, k)
  PROVE  GitInv'
<1>0. TypeOK /\ IdleInv /\ FlightInv /\ HandleInv /\ CachedIsOnDisk /\ AskingInv /\ OwnTreeStays
  BY DEF GitInv
<1>1. /\ pc[c] = "run" /\ cloned[c][k] = None /\ pc' = [pc EXCEPT ![c] = "clone"] /\ want' = [want EXCEPT ![c] = k]
      /\ UNCHANGED <<procVars, faults, dirs, repos, swept, made, flight, handle, repo, cloned, locPath>>
  BY DEF GetRepo, Goto
<1>2. k \in Keys
  BY KeysAssumption
<1>3. c \in Actors /\ pc' \in [Actors -> Labels] /\ pc'[c] = "clone" /\ want'[c] = k
      /\ (\A b \in Actors : b # c => pc'[b] = pc[b] /\ want'[b] = want[b])
      /\ want' \in [Actors -> Keys \cup {LocKey}]
  BY <1>0, <1>1, <1>2 DEF TypeOK, Labels, Actors, Calling
<1>4. TypeOK'
  BY <1>0, <1>1, <1>3 DEF TypeOK, Labels, procVars
<1>5. \A b \in Actors : b # c => Url(b)' = Url(b)
  BY <1>3 DEF Url
<1>6. IdleInv' /\ FlightInv' /\ HandleInv'
  BY <1>0, <1>1, <1>3, <1>5 DEF IdleInv, FlightInv, HandleInv, procVars
<1>7. AskingInv' /\ OwnTreeStays'
  BY <1>0, <1>1, <1>2, <1>3 DEF AskingInv, OwnTreeStays, Actors, Calling
<1>8. CachedIsOnDisk'
  BY <1>0, <1>1 DEF CachedIsOnDisk
<1> QED BY <1>4, <1>6, <1>7, <1>8 DEF GitInv

(* The keys that getRepo stores a clone under are none of the check's own. *)
LEMMA AliasesNotOwn ==
  ASSUME TypeOK, OwnTreeStays, NEW c \in Checks, pc[c] \in Calling, NEW k \in Keys, cloned[c][k] = None, NEW r
  PROVE  \A o \in OwnKeys[c] : o \notin Aliases(c, k, r)
<1> SUFFICES ASSUME NEW o \in OwnKeys[c], o \in Aliases(c, k, r) PROVE FALSE
  OBVIOUS
<1>1. o \in Keys /\ cloned[c][o] = Archive /\ o # k
  BY KeysAssumption, Constants DEF OwnTreeStays
<1>2. Key(o.url, "HEAD") \in OwnKeys[c]
  BY OwnKeysAssumption
<1>3. cloned[c][Key(o.url, "HEAD")] = Archive /\ Archive # None
  BY <1>2, Constants DEF OwnTreeStays
<1>4. CASE k.branch = "HEAD" /\ o = Key(k.url, DefaultBranch)
  <2>1. Key(o.url, "HEAD") = k
    BY <1>4 DEF Keys, Key
  <2> QED BY <1>3, <2>1
<1>5. CASE HeadKeyFree(c, k.url) /\ o = Key(k.url, "HEAD")
  BY <1>1, <1>5, Constants DEF HeadKeyFree
<1> QED BY <1>1, <1>4, <1>5 DEF Aliases

LEMMA KeepStep ==
  ASSUME GitInv, NEW c \in Checks, Keep(c)
  PROVE  GitInv'
<1> DEFINE keys == Aliases(c, want[c], repo[c])
           new == [k \in Keys |-> IF k \in keys THEN repo[c].dir ELSE cloned[c][k]]
<1>0. TypeOK /\ IdleInv /\ FlightInv /\ HandleInv /\ CachedIsOnDisk /\ AskingInv /\ OwnTreeStays
  BY DEF GitInv
<1>1. /\ pc[c] = "keep" /\ pc' = [pc EXCEPT ![c] = "run"] /\ want' = [want EXCEPT ![c] = LocKey]
      /\ repo' = [repo EXCEPT ![c] = NoRepo] /\ cloned' = [cloned EXCEPT ![c] = new]
      /\ UNCHANGED <<procVars, faults, dirs, repos, swept, made, flight, handle, locPath>>
  BY DEF Keep, Goto
<1>2. new \in [Keys -> Dirs \cup {Archive, None}] /\ \A o \in OwnKeys[c] : new[o] = Archive
  <2>1. repo[c].dir \in Dirs \cup {None}
    BY <1>0 DEF TypeOK, Actors
  <2>2. want[c] \in Keys /\ cloned[c][want[c]] = None /\ pc[c] \in Calling
    BY <1>0, <1>1 DEF AskingInv, Calling
  <2>3. \A o \in OwnKeys[c] : o \in Keys /\ o \notin keys /\ cloned[c][o] = Archive
    BY <1>0, <2>2, AliasesNotOwn, KeysAssumption DEF OwnTreeStays
  <2> HIDE DEF keys
  <2> QED BY <1>0, <2>1, <2>3 DEF TypeOK
<1> HIDE DEF new
<1>3. c \in Actors /\ pc' \in [Actors -> Labels] /\ pc'[c] = "run"
      /\ (\A b \in Actors : b # c => pc'[b] = pc[b] /\ want'[b] = want[b])
      /\ cloned'[c] = new /\ (\A d \in Checks : d # c => cloned'[d] = cloned[d])
  BY <1>0, <1>1 DEF TypeOK, Labels, Actors
<1>4. TypeOK'
  <2>1. cloned' \in [Checks -> [Keys -> Dirs \cup {Archive, None}]] /\ want' \in [Actors -> Keys \cup {LocKey}]
    BY <1>0, <1>1, <1>2 DEF TypeOK
  <2>2. NoRepo \in [dir : Dirs \cup {None}, branch : Branches]
    BY Constants DEF NoRepo
  <2>3. repo' \in [Actors -> [dir : Dirs \cup {None}, branch : Branches]]
    BY <1>0, <1>1, <2>2 DEF TypeOK
  <2> QED BY <1>0, <1>1, <1>3, <2>1, <2>3 DEF TypeOK, Labels, procVars
<1>5. \A b \in Actors : b # c => Url(b)' = Url(b)
  BY <1>3 DEF Url
<1>6. IdleInv' /\ FlightInv' /\ HandleInv'
  BY <1>0, <1>1, <1>3, <1>5 DEF IdleInv, FlightInv, HandleInv, procVars
<1>7. AskingInv' /\ OwnTreeStays'
  BY <1>0, <1>1, <1>2, <1>3 DEF AskingInv, OwnTreeStays, Actors, Calling
<1>8. CachedIsOnDisk'
  BY <1>0, <1>1 DEF CachedIsOnDisk
<1> QED BY <1>4, <1>6, <1>7, <1>8 DEF GitInv

(* A check ends: what the manager wipes is not in the persistent cache. *)
LEMMA FinishCheckStep ==
  ASSUME GitInv, NEW c \in Checks, FinishCheck(c)
  PROVE  GitInv'
<1>0. TypeOK /\ IdleInv /\ FlightInv /\ HandleInv /\ CachedIsOnDisk /\ AskingInv /\ OwnTreeStays
  BY DEF GitInv
<1>1. /\ pc[c] = "run" /\ pc' = [pc EXCEPT ![c] = "over"] /\ cloned' = [cloned EXCEPT ![c] = NothingCloned]
      /\ dirs' = [d \in Dirs |-> IF ~persistent /\ d \in made THEN None ELSE dirs[d]]
      /\ UNCHANGED <<procVars, faults, repos, swept, made, flight, want, handle, repo, locPath>>
  BY DEF FinishCheck, Goto, Cleanup
<1>2. dirs' \in [Dirs -> Tree \cup {None}] /\ \A u \in Urls : dirs'[u] = dirs[u]
  BY <1>0, <1>1, Constants DEF TypeOK
<1>3. c \in Actors /\ pc' \in [Actors -> Labels] /\ pc'[c] = "over"
      /\ (\A b \in Actors : b # c => pc'[b] = pc[b])
      /\ (\A d \in Checks : d # c => cloned'[d] = cloned[d])
  BY <1>0, <1>1 DEF TypeOK, Labels, Actors
<1>4. TypeOK'
  <2>1. NothingCloned \in [Keys -> Dirs \cup {Archive, None}]
    BY DEF NothingCloned
  <2>2. cloned' \in [Checks -> [Keys -> Dirs \cup {Archive, None}]]
    BY <1>0, <1>1, <2>1 DEF TypeOK
  <2> QED BY <1>0, <1>1, <1>2, <1>3, <2>2 DEF TypeOK, Labels, procVars
<1>5. \A b \in Actors : Url(b)' = Url(b) /\ Url(b) \in Urls
  BY <1>0, <1>1, Wanted DEF Url
<1>6. IdleInv' /\ FlightInv' /\ HandleInv'
  <2>1. IdleInv'
    BY <1>0, <1>1, <1>3 DEF IdleInv, procVars, Actors
  <2>2. FlightInv'
    BY <1>0, <1>1, <1>2, <1>3, <1>5 DEF FlightInv
  <2>3. HandleInv'
    BY <1>0, <1>1, <1>3, <1>5 DEF HandleInv
  <2> QED BY <2>1, <2>2, <2>3
<1>7. AskingInv' /\ OwnTreeStays'
  BY <1>0, <1>1, <1>3 DEF AskingInv, OwnTreeStays, Actors, Calling
<1>8. CachedIsOnDisk'
  BY <1>0, <1>1, <1>2 DEF CachedIsOnDisk
<1> QED BY <1>4, <1>6, <1>7, <1>8 DEF GitInv

LEMMA KeepLocationStep ==
  ASSUME GitInv, KeepLocation
  PROVE  GitInv'
<1>0. TypeOK /\ IdleInv /\ FlightInv /\ HandleInv /\ CachedIsOnDisk /\ AskingInv /\ OwnTreeStays
  BY DEF GitInv
<1>1. /\ pc[Loc] = "keep" /\ pc' = [pc EXCEPT ![Loc] = "run"] /\ up' = TRUE
      /\ locPath' = locPath \/ locPath' = repo[Loc].dir
      /\ UNCHANGED <<persistent, restarts, faults, dirs, repos, swept, made, flight, want, handle>>
      /\ UNCHANGED <<repo, cloned>>
  BY DEF KeepLocation, Goto
<1>2. pc' \in [Actors -> Labels] /\ pc'[Loc] = "run" /\ (\A b \in Actors : b # Loc => pc'[b] = pc[b])
      /\ (\A c \in Checks : c \in Actors /\ c # Loc)
  BY <1>0, <1>1, Constants DEF TypeOK, Labels, Actors
<1>3. TypeOK'
  <2>1. repo[Loc].dir \in Dirs \cup {None}
    BY <1>0, Constants DEF TypeOK
  <2> QED BY <1>0, <1>1, <1>2, <2>1 DEF TypeOK, Labels
<1>4. \A b \in Actors : Url(b)' = Url(b)
  BY <1>1 DEF Url
<1>5. IdleInv' /\ FlightInv' /\ HandleInv'
  BY <1>0, <1>1, <1>2, <1>4 DEF IdleInv, FlightInv, HandleInv
<1>6. AskingInv' /\ OwnTreeStays'
  BY <1>0, <1>1, <1>2, KeysKept
<1>7. CachedIsOnDisk'
  BY <1>0, <1>1 DEF CachedIsOnDisk
<1> QED BY <1>3, <1>5, <1>6, <1>7 DEF GitInv

LEMMA TickStep ==
  ASSUME GitInv, Tick
  PROVE  GitInv'
<1> DEFINE d == repo[Loc].dir
           b == repo[Loc].branch
<1>0. TypeOK /\ IdleInv /\ FlightInv /\ HandleInv /\ CachedIsOnDisk /\ AskingInv /\ OwnTreeStays
  BY DEF GitInv
<1>1. /\ pc[Loc] = "run" /\ UNCHANGED <<procVars, repos, swept, made, flight, want, handle, repo, cloned, locPath>>
      /\ \/ pc' = [pc EXCEPT ![Loc] = "clone"] /\ UNCHANGED <<dirs, faults>>
         \/ /\ dirs[d] # None /\ UNCHANGED pc
            /\ \E ok \in BOOLEAN : RemoteCall(ok) /\ dirs' = IF ok THEN Reset(d, b) ELSE dirs
  BY DEF Tick, Goto
<1>2. d \in Dirs \cup {None} /\ b \in Branches
  BY <1>0, Constants DEF TypeOK
<1> HIDE DEF d, b
<1>3. faults' \in 0..MaxFaults
  BY <1>0, <1>1, Counters DEF TypeOK
<1>4. dirs' \in [Dirs -> Tree \cup {None}] /\ \A u \in Urls : dirs'[u] = None <=> dirs[u] = None
  <2>1. CASE UNCHANGED dirs
    BY <1>0, <2>1 DEF TypeOK
  <2>2. CASE dirs[d] # None /\ dirs' = Reset(d, b)
    <3>1. CASE d \in Dirs
      BY <1>0, <1>2, <2>2, <3>1, ResetTree, Constants
    <3>2. CASE d \notin Dirs
      <4>1. dirs \in [Dirs -> Tree \cup {None}]
        BY <1>0 DEF TypeOK
      <4>2. dirs' = dirs
        BY <2>2, <3>2, <4>1 DEF Reset
      <4> QED BY <4>1, <4>2
    <3> QED BY <3>1, <3>2
  <2> QED BY <1>1, <2>1, <2>2
<1>5. pc' \in [Actors -> Labels] /\ pc'[Loc] \in {"run", "clone"} /\ (\A a \in Actors : a # Loc => pc'[a] = pc[a])
      /\ (\A c \in Checks : c \in Actors /\ c # Loc)
  <2>1. pc \in [Actors -> Labels] /\ {"run", "clone"} \subseteq Labels
    <3>1. pc \in [Actors -> Labels]
      BY <1>0 DEF TypeOK, Labels
    <3> QED BY <3>1 DEF Labels, Calling
  <2>2. pc' = pc \/ pc' = [pc EXCEPT ![Loc] = "clone"]
    BY <1>1
  <2>3. Loc \in Actors /\ \A c \in Checks : c \in Actors /\ c # Loc
    BY Constants DEF Actors
  <2> QED BY <1>1, <2>1, <2>2, <2>3
<1>6. TypeOK'
  BY <1>0, <1>1, <1>3, <1>4, <1>5 DEF TypeOK, Labels, procVars
<1>7. \A a \in Actors : Url(a)' = Url(a) /\ Url(a) \in Urls
  BY <1>0, <1>1, Wanted DEF Url
<1>8. IdleInv' /\ FlightInv' /\ HandleInv'
  BY <1>0, <1>1, <1>4, <1>5, <1>7 DEF IdleInv, FlightInv, HandleInv, procVars
<1>9. AskingInv' /\ OwnTreeStays'
  BY <1>0, <1>1, <1>5, KeysKept
<1>10. CachedIsOnDisk'
  BY <1>0, <1>1, <1>4 DEF CachedIsOnDisk
<1> QED BY <1>6, <1>8, <1>9, <1>10 DEF GitInv

-----------------------------------------------------------------------------
(* A process that begins has nothing in its maps and no caller. *)
Begins ==
  /\ repos = [u \in Urls |-> None] /\ flight = [u \in Urls |-> None] /\ made = {}
  /\ pc = [a \in Actors |-> IF a = Loc THEN "clone" ELSE "idle"]
  /\ want = [a \in Actors |-> LocKey] /\ handle = [a \in Actors |-> None]
  /\ repo = [a \in Actors |-> NoRepo] /\ cloned = [c \in Checks |-> NothingCloned]
  /\ locPath = None

(* What it keeps, or starts with. *)
Kept ==
  /\ {persistent, up} \subseteq BOOLEAN /\ restarts \in 0..MaxRestarts /\ faults \in 0..MaxFaults
  /\ dirs \in [Dirs -> Tree \cup {None}] /\ swept \in [Urls -> Branches]

LEMMA BeginsInv == Begins /\ Kept => GitInv
<1> SUFFICES ASSUME Begins, Kept PROVE GitInv
  OBVIOUS
<1>1. /\ repos \in [Urls -> PersistentRepo \cup {None}] /\ flight \in [Urls -> Actors \cup {None}]
      /\ made \in SUBSET TempDirs /\ locPath \in Dirs \cup {None}
      /\ \A u \in Urls : repos[u] = None
  BY DEF Begins
<1>2. pc \in [Actors -> Labels] /\ want \in [Actors -> Keys \cup {LocKey}] /\ handle \in [Actors -> {"mapped", "swept", None}]
  BY DEF Begins, Labels, Calling
<1>3. repo \in [Actors -> [dir : Dirs \cup {None}, branch : Branches]]
  <2>1. NoRepo \in [dir : Dirs \cup {None}, branch : Branches]
    BY Constants DEF NoRepo
  <2> QED BY <2>1 DEF Begins
<1>4. cloned \in [Checks -> [Keys -> Dirs \cup {Archive, None}]]
  BY DEF Begins, NothingCloned
<1>5. TypeOK
  BY <1>1, <1>2, <1>3, <1>4 DEF TypeOK, Labels, Kept
<1>6. \A a \in Actors : handle[a] # "mapped" /\ pc[a] \in {"clone", "idle"} /\ (a \in Checks => pc[a] = "idle")
  BY Constants DEF Begins
<1>7. \A c \in Checks : pc[c] = "idle"
  BY <1>6 DEF Actors
<1>8. IdleInv /\ FlightInv /\ HandleInv /\ AskingInv /\ OwnTreeStays
  BY <1>6, <1>7 DEF IdleInv, FlightInv, HandleInv, AskingInv, OwnTreeStays, Calling
<1>9. CachedIsOnDisk
  BY <1>1 DEF CachedIsOnDisk
<1> QED BY <1>5, <1>8, <1>9 DEF GitInv

LEMMA InitInv == Init => GitInv
<1> SUFFICES ASSUME Init PROVE GitInv
  OBVIOUS
<1>1. Begins
  BY DEF Init, Begins
<1>2. {persistent, up} \subseteq BOOLEAN
  BY KeysAssumption DEF Init
<1>3. restarts \in 0..MaxRestarts /\ faults \in 0..MaxFaults
  BY BoundsAssumption DEF Init
<1>4. dirs \in [Dirs -> Tree \cup {None}] /\ swept \in [Urls -> Branches]
  BY Constants DEF Init
<1> QED BY <1>1, <1>2, <1>3, <1>4, BeginsInv DEF Kept

LEMMA BeginsAgain == Begins' /\ Kept' => GitInv'
BY BeginsInv, PTL

(* A restart loses the map and keeps the directories. *)
LEMMA RestartStep ==
  ASSUME GitInv, Restart
  PROVE  GitInv'
<1>0. TypeOK
  BY DEF GitInv
<1>1. Begins'
  BY DEF Restart, Begins
<1>2. {persistent', up'} \subseteq BOOLEAN
  BY <1>0 DEF Restart, TypeOK
<1>3. restarts' \in 0..MaxRestarts /\ faults' \in 0..MaxFaults
  BY <1>0, BoundsAssumption DEF Restart, TypeOK
<1>4. dirs' \in [Dirs -> Tree \cup {None}] /\ swept' \in [Urls -> Branches]
  BY <1>0 DEF Restart, TypeOK
<1> QED BY <1>1, <1>2, <1>3, <1>4, BeginsAgain DEF Kept

LEMMA NextInv == GitInv /\ [Next]_vars => GitInv'
<1> SUFFICES ASSUME GitInv, [Next]_vars PROVE GitInv'
  OBVIOUS
<1>1. ASSUME NEW a \in Actors, CloneStep(a) PROVE GitInv'
  BY <1>1, GetOrCloneRepoStep, FetchStep, StoreStep, CheckoutStep, UpdateStep, EphemeralCloneStep DEF CloneStep
<1>2. ASSUME NEW u \in Urls, Age(u) \/ CleanupStaleRepos(u) PROVE GitInv'
  BY <1>2, AgeStep, SweepStep
<1>3. ASSUME NEW c \in Checks, StartCheck(c) \/ Keep(c) \/ FinishCheck(c) PROVE GitInv'
  BY <1>3, StartCheckStep, KeepStep, FinishCheckStep
<1>4. ASSUME NEW c \in Checks, NEW k \in Wants[c], GetRepo(c, k) PROVE GitInv'
  BY <1>4, GetRepoStep
<1>5. CASE UNCHANGED vars
  <2>1. TypeOK' /\ IdleInv'
    BY <1>5 DEF GitInv, TypeOK, IdleInv, vars, procVars, callVars
  <2>2. FlightInv' /\ HandleInv'
    BY <1>5 DEF GitInv, FlightInv, HandleInv, Url, vars, procVars, callVars
  <2>3. AskingInv' /\ OwnTreeStays' /\ CachedIsOnDisk'
    BY <1>5 DEF GitInv, AskingInv, OwnTreeStays, CachedIsOnDisk, vars, callVars
  <2> QED BY <2>1, <2>2, <2>3 DEF GitInv
<1> QED BY <1>1, <1>2, <1>3, <1>4, <1>5, KeepLocationStep, TickStep, RestartStep DEF Next

(* Through flights, sweeps, failures and restarts, one leader at a time    *)
(* clones a URL that is not cached, and who holds a PersistentRepo of the  *)
(* map finds it there.                                                     *)
THEOREM GitReposInvariant == Spec => []GitInv
<1>1. Init => GitInv
  BY InitInv
<1>2. GitInv /\ [Next]_vars => GitInv'
  BY NextInv
<1> QED BY <1>1, <1>2, PTL DEF Spec

(* What the map of the persistent manager says is cached is on disk.       *)
THEOREM CacheHitsExist == Spec => []CachedIsOnDisk
<1>1. GitInv => CachedIsOnDisk
  BY DEF GitInv
<1> QED BY <1>1, GitReposInvariant, PTL

(* Whatever a check clones, the keys of its own pull request lead to the   *)
(* archive of the merge commit.                                            *)
THEOREM ArchiveStaysOwnTree == Spec => []OwnTreeStays
<1>1. GitInv => OwnTreeStays
  BY DEF GitInv
<1> QED BY <1>1, GitReposInvariant, PTL
=============================================================================
