------------------------------ MODULE GitRepos ------------------------------
(***************************************************************************)
(* The git repositories that checks refer to besides their own: the        *)
(* persistent and the ephemeral manager (pkg/git/manager.go), what they do *)
(* to a working directory (pkg/git/repo.go), getRepo of a check            *)
(* (pkg/events/check.go), and the goroutine that keeps a policy or schema  *)
(* location up to date (cmd/locations.go).                                 *)
(*                                                                         *)
(* The checks are of different pull request repositories, so they run at   *)
(* once (OneCheckPerRepo of RepoQueue), but they may refer to the same     *)
(* third repository.  The workers of one check call getRepo one at a time, *)
(* under repoLock, so a check has at most one call under way.  The process *)
(* may be restarted in a pod, which keeps /tmp.                            *)
(***************************************************************************)
EXTENDS Integers, FiniteSets

CONSTANTS
  Checks,        \* checks that run at the same time
  Loc,           \* the goroutine of maybeCloneGitUrl
  Urls,          \* clone URLs; also the names of their cache directories
  Branches,      \* branch names, "HEAD" among them
  DefaultBranch, \* the branch that the remote HEAD points to
  Wants,         \* the keys that the workers of each check ask for
  OwnKeys,       \* the keys that a check stores its own archive under
  LocKey,        \* the location's clone URL and branch; "" if it names none
  TempDirs,      \* names that os.MkdirTemp may give
  Managers,      \* values of RepoCacheEnabled to look at
  MaxRestarts, MaxFaults,
  None

Keys == [url : Urls, branch : Branches]
Key(u, b) == [url |-> u, branch |-> b]
ASSUME KeysAssumption ==
  /\ Wants \in [Checks -> SUBSET Keys]
  /\ OwnKeys \in [Checks -> SUBSET Keys]
  /\ LocKey \in [url : Urls, branch : Branches \cup {""}]
  /\ {DefaultBranch, "HEAD"} \subseteq Branches /\ "" \notin Branches
  /\ Managers \subseteq BOOLEAN

(* process always stores its archive under HEAD as well. *)
ASSUME OwnKeysAssumption ==
  \A c \in Checks : \A k \in OwnKeys[c] : Key(k.url, "HEAD") \in OwnKeys[c]
ASSUME BoundsAssumption ==
  /\ MaxRestarts \in Nat /\ MaxFaults \in Nat
  /\ IsFiniteSet(TempDirs) /\ IsFiniteSet(Checks)
Archive == "archive"

(* A tree has the files of one branch; the clone made one local branch. *)
Tree == [branch : Branches, local : Branches]
PersistentRepo == [branch : Branches, stale : BOOLEAN]

ASSUME FreshAssumption ==
  /\ Loc \notin Checks
  /\ None \notin Checks \cup {Loc, Archive, "mapped", "swept"} \cup Urls \cup TempDirs
  /\ None \notin Tree /\ None \notin PersistentRepo
  /\ Urls \cap TempDirs = {}

VARIABLES
  persistent, \* RepoCacheEnabled: which of the managers NewRepoManager made
  up,         \* the process is past processLocations
  restarts, faults,
  dirs,       \* the working trees on disk: what a directory holds
  repos,      \* PersistentRepoManager.repos: the PersistentRepo of each URL,
              \* its BranchName and whether it is unused for the TTL
  swept,      \* BranchName of the PersistentRepo that was last swept
  made,       \* EphemeralRepoManager.repos: the directories of the clones
  flight,     \* the caller whose function cloneGroup runs for a URL
  pc, want,   \* where each caller of Clone stands, and what it asks for
  handle,     \* the PersistentRepo that GetOrCloneRepo gave the caller:
              \* the one in the map or the swept one
  repo,       \* the Repo that Clone gave the caller; for Loc, the one it refreshes
  cloned,     \* CheckEvent.clonedRepos: the directory under each key
  locPath     \* the directory that processLocations put into the configuration

procVars == <<persistent, up, restarts>>
callVars == <<flight, pc, want, handle>>
vars == <<procVars, faults, dirs, repos, swept, made, callVars, repo, cloned, locPath>>

Actors == Checks \cup {Loc}
Dirs == Urls \cup TempDirs
Calling == {"clone", "join", "fetch", "store", "checkout", "update", "keep"}

NoRepo == [dir |-> None, branch |-> "HEAD"]
NothingCloned == [k \in Keys |-> None]

TypeOK ==
  /\ {persistent, up} \subseteq BOOLEAN
  /\ restarts \in 0..MaxRestarts /\ faults \in 0..MaxFaults
  /\ dirs \in [Dirs -> Tree \cup {None}]
  /\ repos \in [Urls -> PersistentRepo \cup {None}]
  /\ swept \in [Urls -> Branches]
  /\ made \in SUBSET TempDirs
  /\ flight \in [Urls -> Actors \cup {None}]
  /\ pc \in [Actors -> {"idle", "run", "over"} \cup Calling]
  /\ want \in [Actors -> Keys \cup {LocKey}]
  /\ handle \in [Actors -> {"mapped", "swept", None}]
  /\ repo \in [Actors -> [dir : Dirs \cup {None}, branch : Branches]]
  /\ cloned \in [Checks -> [Keys -> Dirs \cup {Archive, None}]]
  /\ locPath \in Dirs \cup {None}

(* The process starts with empty caches and clones the location first. *)
Init ==
  /\ persistent \in Managers
  /\ up = FALSE /\ restarts = 0 /\ faults = 0
  /\ dirs = [d \in Dirs |-> None]
  /\ repos = [u \in Urls |-> None]
  /\ swept = [u \in Urls |-> "HEAD"]
  /\ made = {}
  /\ flight = [u \in Urls |-> None]
  /\ pc = [a \in Actors |-> IF a = Loc THEN "clone" ELSE "idle"]
  /\ want = [a \in Actors |-> LocKey]
  /\ handle = [a \in Actors |-> None]
  /\ repo = [a \in Actors |-> NoRepo]
  /\ cloned = [c \in Checks |-> NothingCloned]
  /\ locPath = None

Goto(a, l) == pc' = [pc EXCEPT ![a] = l]
Url(a) == want[a].url

(* New: no branch is "HEAD".                                               *)
BranchName(b) == IF b = "" THEN "HEAD" ELSE b
Resolve(b) == IF b = "HEAD" THEN DefaultBranch ELSE b

(* A call to the remote or to go-git works, or fails while there are       *)
(* faults left.                                                            *)
RemoteCall(ok) ==
  /\ ok \/ faults < MaxFaults
  /\ faults' = IF ok THEN faults ELSE faults + 1

(* Clone returns an error to the callers in A.  A worker reports it and    *)
(* goes on, the refreshing goroutine waits for its next tick; at startup   *)
(* it is fatal, and the process begins anew; otherwise the map is m.       *)
Fail(A, m) ==
  LET fatal == Loc \in A /\ ~up IN
  /\ pc' = [a \in Actors |-> IF a \notin A THEN pc[a] ELSE IF fatal THEN "clone" ELSE "run"]
  /\ handle' = [a \in Actors |-> IF a \in A THEN None ELSE handle[a]]
  /\ want' = [a \in Actors |-> IF a \in A THEN LocKey ELSE want[a]]
  /\ repos' = IF fatal THEN [u \in Urls |-> None] ELSE m
  /\ made' = IF fatal THEN {} ELSE made

-----------------------------------------------------------------------------
(***************************************************************************)
(* PersistentRepoManager.Clone.                                            *)
(***************************************************************************)

(* GetOrCloneRepo: join the flight of this URL, or start one, which ends   *)
(* at once when the repository is cached.                                  *)
GetOrCloneRepo(a) ==
  LET u == Url(a) IN
  /\ persistent /\ pc[a] = "clone"
  /\ \/ /\ flight[u] # None
        /\ Goto(a, "join")
        /\ UNCHANGED <<flight, handle>>
     \/ /\ flight[u] = None /\ repos[u] # None
        /\ handle' = [handle EXCEPT ![a] = "mapped"]
        /\ Goto(a, "checkout")
        /\ UNCHANGED flight
     \/ /\ flight[u] = None /\ repos[u] = None
        /\ flight' = [flight EXCEPT ![u] = a]
        /\ Goto(a, "fetch")
        /\ UNCHANGED handle
  /\ UNCHANGED <<procVars, faults, dirs, repos, swept, made, want, repo, cloned, locPath>>

ServedLeader(a) == {a}
Served(a) == {a} \cup {b \in Actors : pc[b] = "join" /\ Url(b) = Url(a)}
FreshClone(b) == [branch |-> Resolve(b), local |-> Resolve(b)]

(* Repo.Clone into a temporary directory, then a rename to the cache       *)
(* directory, which fails when there is something.  Everyone who joined    *)
(* gets the error.                                                         *)
Fetch(a) ==
  LET u == Url(a) IN
  /\ pc[a] = "fetch"
  /\ \E ok \in BOOLEAN :
       /\ RemoteCall(ok)
       /\ \/ /\ ok /\ dirs[u] = None
             /\ dirs' = [dirs EXCEPT ![u] = FreshClone(BranchName(want[a].branch))]
             /\ Goto(a, "store")
             /\ UNCHANGED <<flight, want, handle, repos, made>>
          \/ /\ ~ok \/ dirs[u] # None
             /\ flight' = [flight EXCEPT ![u] = None]
             /\ Fail(Served(a), repos)
             /\ UNCHANGED dirs
  /\ UNCHANGED <<procVars, swept, repo, cloned, locPath>>

(* The new PersistentRepo is put into the map and given to all callers. *)
Store(a) ==
  LET u == Url(a) IN
  /\ pc[a] = "store"
  /\ repos' = [repos EXCEPT ![u] = [branch |-> BranchName(want[a].branch), stale |-> FALSE]]
  /\ flight' = [flight EXCEPT ![u] = None]
  /\ handle' = [b \in Actors |-> IF b \in Served(a) THEN "mapped" ELSE handle[b]]
  /\ pc' = [b \in Actors |-> IF b \in Served(a) THEN "checkout" ELSE pc[b]]
  /\ UNCHANGED <<procVars, faults, dirs, swept, made, want, repo, cloned, locPath>>

(* The BranchName of the PersistentRepo that a caller holds. *)
Held(a) == IF handle[a] = "mapped" THEN repos[Url(a)].branch ELSE swept[Url(a)]
SetHeld(a, b) ==
  IF handle[a] = "mapped"
  THEN repos' = [repos EXCEPT ![Url(a)].branch = b] /\ UNCHANGED swept
  ELSE swept' = [swept EXCEPT ![Url(a)] = b] /\ UNCHANGED repos

(* Repo.Checkout finds local branches only, and a clone makes one. *)
HasLocal(u, b) == dirs[u] # None /\ dirs[u].local = b

(* UpdateBaseBranch, first part: a PersistentRepo on another branch is     *)
(* switched.                                                               *)
Checkout(a) ==
  LET u == Url(a)
      b == want[a].branch
      same == b \in {"", Held(a)}
  IN
  /\ pc[a] = "checkout"
  /\ \/ /\ same
        /\ Goto(a, "update")
        /\ UNCHANGED <<dirs, repos, swept, made, want, handle>>
     \/ /\ ~same /\ HasLocal(u, b)
        /\ dirs' = [dirs EXCEPT ![u].branch = b]
        /\ SetHeld(a, b)
        /\ Goto(a, "update")
        /\ UNCHANGED <<made, want, handle>>
     \/ /\ ~same /\ ~HasLocal(u, b)
        /\ Fail({a}, repos)
        /\ UNCHANGED <<dirs, swept>>
  /\ UNCHANGED <<procVars, faults, flight, repo, cloned, locPath>>

(* Repo.Update: fetch, and a hard reset of the files to the remote branch. *)
Reset(d, b) == [dirs EXCEPT ![d].branch = Resolve(b)]

(* UpdateBaseBranch sets lastUsed. *)
Touched(a) == IF handle[a] = "mapped" THEN [repos EXCEPT ![Url(a)].stale = FALSE] ELSE repos

(* UpdateBaseBranch, second part, then the temporary branch, which leaves  *)
(* the files as they are, and the caller's copy of the Repo.               *)
Update(a) ==
  LET u == Url(a) IN
  /\ pc[a] = "update"
  /\ \E fetched, branched \in BOOLEAN :
       LET updated == fetched /\ dirs[u] # None IN
       /\ RemoteCall(fetched /\ branched)
       /\ dirs' = IF updated THEN Reset(u, Held(a)) ELSE dirs
       /\ \/ /\ updated /\ branched
             /\ repos' = Touched(a)
             /\ repo' = [repo EXCEPT ![a] = [dir |-> u, branch |-> Held(a)]]
             /\ handle' = [handle EXCEPT ![a] = None]
             /\ Goto(a, "keep")
             /\ UNCHANGED <<want, made>>
          \/ /\ ~(updated /\ branched)
             /\ Fail({a}, IF updated THEN Touched(a) ELSE repos)
             /\ UNCHANGED repo
  /\ UNCHANGED <<procVars, swept, flight, cloned, locPath>>

(* The TTL passes over an entry that no call and no check uses: it is far  *)
(* longer than a check.  The location's use does not count.                *)
UsedByCheck(d) == \E c \in Checks, k \in Keys : cloned[c][k] = d
Age(u) ==
  /\ repos[u] # None
  /\ ~repos[u].stale
  /\ ~UsedByCheck(u)
  /\ \A a \in Actors : pc[a] \in Calling => Url(a) # u
  /\ repos' = [repos EXCEPT ![u].stale = TRUE]
  /\ UNCHANGED <<procVars, faults, dirs, swept, made, callVars, repo, cloned, locPath>>

(* cleanupStaleRepos, under the write lock: the directory goes and so does *)
(* the entry.  The reference counts it looks at are never raised.          *)
ForgetNothing(u) == repos
Forget(u) == [repos EXCEPT ![u] = None]
CleanupStaleRepos(u) ==
  /\ repos[u] # None
  /\ repos[u].stale
  /\ dirs' = [dirs EXCEPT ![u] = None]
  /\ repos' = Forget(u)
  /\ swept' = [swept EXCEPT ![u] = repos[u].branch]
  /\ handle' = [a \in Actors |-> IF Url(a) = u /\ handle[a] = "mapped" THEN "swept" ELSE handle[a]]
  /\ UNCHANGED <<procVars, faults, made, flight, pc, want, repo, cloned, locPath>>

-----------------------------------------------------------------------------
(***************************************************************************)
(* EphemeralRepoManager.Clone.                                             *)
(***************************************************************************)

(* os.MkdirTemp: a name that nothing on disk or in memory has.  TempDirs   *)
(* bounds the clones that there are at a time.                             *)
FreeDirs ==
  {d \in TempDirs : /\ dirs[d] = None /\ ~UsedByCheck(d) /\ d # locPath
                    /\ \A a \in Actors : repo[a].dir # d}
NewDir == CHOOSE d \in FreeDirs : TRUE
EphemeralClone(a) ==
  LET b == BranchName(want[a].branch) IN
  /\ ~persistent /\ pc[a] = "clone"
  /\ \E ok \in BOOLEAN :
       /\ RemoteCall(ok)
       /\ \/ /\ ok /\ FreeDirs # {}
             /\ dirs' = [dirs EXCEPT ![NewDir] = FreshClone(b)]
             /\ made' = made \cup {NewDir}
             /\ repo' = [repo EXCEPT ![a] = [dir |-> NewDir, branch |-> b]]
             /\ Goto(a, "keep")
             /\ UNCHANGED <<repos, want, handle>>
          \/ /\ ~ok
             /\ Fail({a}, repos)
             /\ UNCHANGED <<dirs, repo>>
  /\ UNCHANGED <<procVars, swept, flight, cloned, locPath>>

-----------------------------------------------------------------------------
(***************************************************************************)
(* The callers.                                                            *)
(***************************************************************************)

(* process, once it has the archive of the pull request. *)
StartCheck(c) ==
  /\ up /\ pc[c] = "idle"
  /\ Goto(c, "run")
  /\ cloned' = [cloned EXCEPT ![c] = [k \in Keys |-> IF k \in OwnKeys[c] THEN Archive ELSE None]]
  /\ UNCHANGED <<procVars, faults, dirs, repos, swept, made, flight, want, handle, repo, locPath>>

(* getRepo of a key that the check does not have yet. *)
GetRepo(c, k) ==
  /\ pc[c] = "run"
  /\ cloned[c][k] = None
  /\ want' = [want EXCEPT ![c] = k]
  /\ Goto(c, "clone")
  /\ UNCHANGED <<procVars, faults, dirs, repos, swept, made, flight, handle, repo, cloned, locPath>>

(* The rest of getRepo: a clone of HEAD is also one of the default branch, *)
(* and a clone of the default branch is HEAD unless there is one.  Without *)
(* the directory the default branch cannot be told.                        *)
HeadKeyUnchecked(c, u) == TRUE
HeadKeyFree(c, u) == cloned[c][Key(u, "HEAD")] = None
Aliases(c, k, r) ==
  {k} \cup IF dirs[r.dir] = None THEN {}
           ELSE IF k.branch = "HEAD" THEN {Key(k.url, DefaultBranch)}
           ELSE IF HeadKeyFree(c, k.url) /\ r.branch = DefaultBranch THEN {Key(k.url, "HEAD")}
           ELSE {}
Keep(c) ==
  LET keys == Aliases(c, want[c], repo[c]) IN
  /\ pc[c] = "keep"
  /\ cloned' = [cloned EXCEPT ![c] = [k \in Keys |-> IF k \in keys THEN repo[c].dir ELSE @[k]]]
  /\ repo' = [repo EXCEPT ![c] = NoRepo]
  /\ want' = [want EXCEPT ![c] = LocKey]
  /\ Goto(c, "run")
  /\ UNCHANGED <<procVars, faults, dirs, repos, swept, made, flight, handle, locPath>>

(* Cleanup of the manager: the ephemeral one wipes all it ever cloned. *)
Cleanup == [d \in Dirs |-> IF ~persistent /\ d \in made THEN None ELSE dirs[d]]

(* ProcessCheckEvent returns, with a deferred Cleanup. *)
FinishCheck(c) ==
  /\ pc[c] = "run"
  /\ Goto(c, "over")
  /\ cloned' = [cloned EXCEPT ![c] = NothingCloned]
  /\ dirs' = Cleanup
  /\ UNCHANGED <<procVars, faults, repos, swept, made, flight, want, handle, repo, locPath>>

(* maybeCloneGitUrl has its Repo: at startup its directory becomes the     *)
(* location, and later that of the refreshing goroutine only.              *)
KeepLocation ==
  /\ pc[Loc] = "keep"
  /\ up' = TRUE
  /\ locPath' = IF up THEN locPath ELSE repo[Loc].dir
  /\ Goto(Loc, "run")
  /\ UNCHANGED <<persistent, restarts, faults, dirs, repos, swept, made, flight, want, handle>>
  /\ UNCHANGED <<repo, cloned>>

Tick ==
  LET d == repo[Loc].dir IN
  /\ up /\ pc[Loc] = "run"
  /\ \/ /\ dirs[d] = None
        /\ Goto(Loc, "clone")
        /\ UNCHANGED <<dirs, faults>>
     \/ /\ dirs[d] # None
        /\ \E ok \in BOOLEAN :
             /\ RemoteCall(ok)
             /\ dirs' = IF ok THEN Reset(d, repo[Loc].branch) ELSE dirs
        /\ UNCHANGED pc
  /\ UNCHANGED <<procVars, repos, swept, made, flight, want, handle, repo, cloned, locPath>>

(* The container is restarted: memory is lost and /tmp, an emptyDir of the *)
(* pod, is not.  The temporary directories of the old process stay too,    *)
(* but nothing knows their names any more.                                 *)
Restart ==
  /\ up /\ restarts < MaxRestarts
  /\ restarts' = restarts + 1
  /\ up' = FALSE
  /\ repos' = [u \in Urls |-> None]
  /\ made' = {}
  /\ flight' = [u \in Urls |-> None]
  /\ pc' = [a \in Actors |-> IF a = Loc THEN "clone" ELSE "idle"]
  /\ want' = [a \in Actors |-> LocKey]
  /\ handle' = [a \in Actors |-> None]
  /\ repo' = [a \in Actors |-> NoRepo]
  /\ cloned' = [c \in Checks |-> NothingCloned]
  /\ locPath' = None
  /\ dirs' = [d \in Dirs |-> IF d \in TempDirs THEN None ELSE dirs[d]]
  /\ UNCHANGED <<persistent, faults, swept>>

-----------------------------------------------------------------------------
CloneStep(a) ==
  \/ GetOrCloneRepo(a) \/ Fetch(a) \/ Store(a) \/ Checkout(a) \/ Update(a)
  \/ EphemeralClone(a)

Next ==
  \/ \E a \in Actors : CloneStep(a)
  \/ \E u \in Urls : Age(u) \/ CleanupStaleRepos(u)
  \/ \E c \in Checks : StartCheck(c) \/ Keep(c) \/ FinishCheck(c)
  \/ \E c \in Checks : \E k \in Wants[c] : GetRepo(c, k)
  \/ KeepLocation \/ Tick \/ Restart

Spec == Init /\ [][Next]_vars

(* Calls go on, the ticker ticks, and workers are done some time. *)
FairSpec ==
  /\ Spec
  /\ \A a \in Actors : WF_vars(CloneStep(a))
  /\ \A c \in Checks : WF_vars(Keep(c)) /\ WF_vars(FinishCheck(c))
  /\ WF_vars(KeepLocation) /\ WF_vars(Tick)

-----------------------------------------------------------------------------
(***************************************************************************)
(* Properties.                                                             *)
(***************************************************************************)

(* What the map of the persistent manager says is cached is on disk: a hit *)
(* of GetOrCloneRepo is not followed by a failure to open the directory,   *)
(* through flights, sweeps, failures and restarts.                         *)
CachedIsOnDisk == \A u \in Urls : repos[u] # None => dirs[u] # None

(* Whatever a check clones, in whatever order, the keys of its own pull    *)
(* request lead to the archive of the merge commit (the comment "This      *)
(* prevents workers from re-cloning with git" in process).                 *)
OwnTreeStays ==
  \A c \in Checks : pc[c] \in {"run"} \cup Calling =>
    \A k \in OwnKeys[c] : cloned[c][k] = Archive

(* With the persistent manager a location whose directory the sweep        *)
(* removed is there again some time, whatever checks clone meanwhile       *)
(* ("try to re-clone it to restore functionality" in maybeCloneGitUrl).    *)
Missing == up /\ persistent /\ dirs[locPath] = None

(* Every getRepo returns: whoever joins a clone of another caller gets its *)
(* result or its error, or the process is restarted.                       *)
GetRepoReturns == \A c \in Checks : pc[c] \in Calling ~> pc[c] \notin Calling

=============================================================================
