---------------------------- MODULE ArchiveCache ----------------------------
(***************************************************************************)
(* The archive cache (pkg/archive/cache.go) for one merge commit: callers  *)
(* of GetOrDownload that share a download through singleflight, the        *)
(* references that keep an archive from the cleanup, and the directory the *)
(* archive is extracted to.  Entries of different commits share nothing    *)
(* but the lock, so one commit is enough.                                  *)
(***************************************************************************)
EXTENDS Integers, FiniteSets

CONSTANTS Callers, MaxAttempts, None

ASSUME MaxAttemptsAssumption == MaxAttempts \in Nat \ {0}
ASSUME CallersAssumption == None \notin Callers /\ IsFiniteSet(Callers)

VARIABLES
  pc,        \* where each caller stands in GetOrDownload
  ctxDone,   \* the caller's context is done
  attempt,   \* the caller's attempts so far, minus one
  result,    \* what the last singleflight call gave the caller
  flight,    \* the caller whose function singleflight is running
  entry,     \* the cache entry: none, used recently, past its TTL
  refCount,  \* CacheEntry.refCount
  dir,       \* the target directory on disk
  lost       \* history: the caller's attempts that another one's context ended

vars == <<pc, ctxDone, attempt, result, flight, entry, refCount, dir, lost>>

(* What a call gives: the archive; the error of a leader whose context is  *)
(* done, which is a network-level one; a permanent HTTP error or a broken  *)
(* archive ("refused"); another HTTP or network error, or an archive that  *)
(* was evicted since ("unavailable"); an extraction that failed because    *)
(* the directory was removed under it.                                     *)
Results == {"none", "ok", "cancelled", "refused", "unavailable", "removed"}
InFlight == {"leader", "download", "extract", "store"}
Over == {"failed", "released"}

TypeOK ==
  /\ pc \in [Callers -> {"idle", "do", "wait", "got", "backoff", "cleanup", "using"}
                          \cup InFlight \cup Over]
  /\ ctxDone \in [Callers -> BOOLEAN]
  /\ attempt \in [Callers -> 0..MaxAttempts - 1]
  /\ result \in [Callers -> Results]
  /\ flight \in Callers \cup {None}
  /\ entry \in {"none", "fresh", "stale"}
  /\ refCount \in Nat
  /\ dir \in {"absent", "partial", "complete"}
  /\ lost \in [Callers -> Nat]

Init ==
  /\ pc = [c \in Callers |-> "idle"]
  /\ ctxDone = [c \in Callers |-> FALSE]
  /\ attempt = [c \in Callers |-> 0]
  /\ result = [c \in Callers |-> "none"]
  /\ flight = None
  /\ entry = "none" /\ refCount = 0 /\ dir = "absent"
  /\ lost = [c \in Callers |-> 0]

Goto(c, l) == pc' = [pc EXCEPT ![c] = l]

(* GetOrDownload returns, and its local variables are gone. *)
Return(c, l) ==
  /\ Goto(c, l)
  /\ attempt' = [attempt EXCEPT ![c] = 0]
  /\ result' = [result EXCEPT ![c] = "none"]
  /\ lost' = [lost EXCEPT ![c] = 0]

(* The caller's context is cancelled or expires in GetOrDownload. *)
Cancel(c) ==
  /\ pc[c] \notin Over \cup {"idle", "using"}
  /\ ~ctxDone[c]
  /\ ctxDone' = [ctxDone EXCEPT ![c] = TRUE]
  /\ UNCHANGED <<pc, attempt, result, flight, entry, refCount, dir, lost>>

(* acquire, under the write lock: take a reference if there is an entry,   *)
(* and return with it.                                                     *)
Acquire(c) ==
  /\ entry # "none"
  /\ entry' = "fresh"
  /\ refCount' = refCount + 1
  /\ Return(c, "using")

(* The fast path. *)
Start(c) ==
  /\ pc[c] = "idle"
  /\ \/ Acquire(c)
     \/ entry = "none" /\ Goto(c, "do") /\ UNCHANGED <<entry, refCount, attempt, result, lost>>
  /\ UNCHANGED <<ctxDone, flight, dir>>

(* singleflight.Do: lead the call, or wait for the one in flight. *)
MayLeadAlways(c) == TRUE
MayLead(c) == flight = None
Do(c) ==
  /\ pc[c] = "do"
  /\ IF MayLead(c) THEN flight' = c /\ Goto(c, "leader")
     ELSE Goto(c, "wait") /\ UNCHANGED flight
  /\ UNCHANGED <<ctxDone, attempt, result, entry, refCount, dir, lost>>

(* The function returns r: singleflight hands it to the leader and to      *)
(* everybody who joined, and is free again.                                *)
Joined == {w \in Callers : pc[w] = "wait"}
FinishLeaderOnly(c, r) ==
  /\ Goto(c, "got")
  /\ result' = [result EXCEPT ![c] = r]
  /\ flight' = None
  /\ UNCHANGED lost
Finish(c, r) ==
  LET told == {c} \cup Joined IN
  /\ pc' = [x \in Callers |-> IF x \in told THEN "got" ELSE pc[x]]
  /\ result' = [x \in Callers |-> IF x \in told THEN r ELSE result[x]]
  /\ flight' = None
  /\ lost' = [x \in Callers |-> IF r = "cancelled" /\ x \in Joined \ {c} THEN lost[x] + 1
                                                                     ELSE lost[x]]

(* Re-check the cache, and clear what an earlier attempt left behind. *)
Recheck(c) ==
  /\ pc[c] = "leader"
  /\ IF entry # "none"
     THEN Finish(c, "ok") /\ UNCHANGED dir
     ELSE dir' = "absent" /\ Goto(c, "download") /\ UNCHANGED <<result, flight, lost>>
  /\ UNCHANGED <<ctxDone, attempt, entry, refCount>>

(* The HTTP download, under the leader's context: done, it makes the       *)
(* download fail.                                                          *)
Download(c) ==
  /\ pc[c] = "download"
  /\ \/ /\ ~ctxDone[c]
        /\ dir' = "partial"
        /\ Goto(c, "extract")
        /\ UNCHANGED <<result, flight, lost>>
     \/ /\ \/ ctxDone[c] /\ Finish(c, "cancelled")
           \/ ~ctxDone[c] /\ \E r \in {"refused", "unavailable"} : Finish(c, r)
        /\ UNCHANGED dir
  /\ UNCHANGED <<ctxDone, attempt, entry, refCount>>

(* The extraction, which knows no context.  If the directory is removed    *)
(* under it, the writes that follow fail, or there were none left.         *)
Extract(c) ==
  /\ pc[c] = "extract"
  /\ \/ /\ dir' = IF dir = "partial" THEN "complete" ELSE dir
        /\ Goto(c, "store")
        /\ UNCHANGED <<result, flight, lost>>
     \/ /\ Finish(c, IF dir = "absent" THEN "removed" ELSE "refused")
        /\ UNCHANGED dir
  /\ UNCHANGED <<ctxDone, attempt, entry, refCount>>

(* The new entry, without a reference, under the write lock. *)
Store(c) ==
  /\ pc[c] = "store"
  /\ entry' = "fresh"
  /\ refCount' = 0
  /\ Finish(c, "ok")
  /\ UNCHANGED <<ctxDone, attempt, dir>>

(* A success is worth an acquire; the entry may have been evicted since.   *)
GotArchive(c) ==
  /\ pc[c] = "got"
  /\ result[c] = "ok"
  /\ \/ Acquire(c)
     \/ /\ entry = "none"
        /\ result' = [result EXCEPT ![c] = "unavailable"]
        /\ UNCHANGED <<pc, attempt, entry, refCount, lost>>
  /\ UNCHANGED <<ctxDone, flight, dir>>

(* isRetriableDownloadError looks at the caller's own context, not at the  *)
(* leader's, and at the kind of the error: a cancelled leader's is not an  *)
(* HTTP error, so for the callers that joined it is worth another attempt. *)
Permanent == {"refused", "removed"}
RetriableUnlessCancelled(c) == ~ctxDone[c] /\ result[c] \notin Permanent \cup {"cancelled"}
Retriable(c) == ~ctxDone[c] /\ result[c] \notin Permanent
AttemptsLeft(c) == attempt[c] + 1 < MaxAttempts
GotError(c) ==
  /\ pc[c] = "got"
  /\ result[c] # "ok"
  /\ IF Retriable(c) /\ AttemptsLeft(c)
     THEN attempt' = [attempt EXCEPT ![c] = @ + 1] /\ Goto(c, "backoff")
     ELSE Goto(c, "cleanup") /\ UNCHANGED attempt
  /\ UNCHANGED <<ctxDone, result, flight, entry, refCount, dir, lost>>

(* The wait between attempts; a done context ends it at once. *)
Backoff(c) ==
  /\ pc[c] = "backoff"
  /\ \/ Goto(c, "do") /\ UNCHANGED <<attempt, result, lost>>
     \/ ctxDone[c] /\ Return(c, "failed")
  /\ UNCHANGED <<ctxDone, flight, entry, refCount, dir>>

(* The last RemoveAll of GetOrDownload, under no lock. *)
CleanUp(c) ==
  /\ pc[c] = "cleanup"
  /\ dir' = "absent"
  /\ Return(c, "failed")
  /\ UNCHANGED <<ctxDone, flight, entry, refCount>>

(* Release, under the write lock. *)
Release(c) ==
  /\ pc[c] = "using"
  /\ IF entry # "none"
     THEN /\ refCount' = IF refCount > 0 THEN refCount - 1 ELSE 0
          /\ entry' = "fresh"
     ELSE UNCHANGED <<refCount, entry>>
  /\ Goto(c, "released")
  /\ UNCHANGED <<ctxDone, attempt, result, flight, dir, lost>>

(* The TTL passes over the entry. *)
Age ==
  /\ entry = "fresh"
  /\ entry' = "stale"
  /\ UNCHANGED <<pc, ctxDone, attempt, result, flight, refCount, dir, lost>>

(* cleanupStaleArchives, under the write lock. *)
EvictableStale == entry = "stale"
Evictable == entry = "stale" /\ refCount = 0
Sweep ==
  /\ Evictable
  /\ entry' = "none"
  /\ dir' = "absent"
  /\ refCount' = 0
  /\ UNCHANGED <<pc, ctxDone, attempt, result, flight, lost>>

Caller(c) ==
  \/ Do(c) \/ Recheck(c) \/ Download(c) \/ Extract(c) \/ Store(c)
  \/ GotArchive(c) \/ GotError(c) \/ Backoff(c) \/ CleanUp(c)

Next ==
  \/ \E c \in Callers : Start(c) \/ Caller(c) \/ Release(c) \/ Cancel(c)
  \/ Age \/ Sweep

Spec == Init /\ [][Next]_vars

(* A caller inside GetOrDownload keeps going: downloads end (the HTTP      *)
(* client and the context bound them) and backoffs are timers.             *)
FairSpec == Spec /\ \A c \in Callers : WF_vars(Caller(c))

-----------------------------------------------------------------------------
(***************************************************************************)
(* Properties.                                                             *)
(***************************************************************************)

Holders == {c \in Callers : pc[c] = "using"}

(* acquire, Release and the sweep agree: the reference count is the number *)
(* of checks that use the archive, so an archive in use is never evicted   *)
(* and an unused one not kept for ever.                                    *)
RefCountIsHolders ==
  IF entry = "none" THEN Holders = {} ELSE refCount = Cardinality(Holders)

(* "Prevents thundering herd": one caller at a time downloads or extracts, *)
(* also when callers come back from their backoff at different times.      *)
OneDownload ==
  \A c, d \in Callers : pc[c] \in InFlight /\ pc[d] \in InFlight => c = d

(* The download runs under the leader's context, but somebody else's never *)
(* fails a caller by itself.  A caller whose own context is live gives up  *)
(* because the host refused the archive or the archive is broken; because  *)
(* one that gave up before removed the directory under the extraction; or  *)
(* after its last attempt, and then every cancelled caller has cost it at  *)
(* most one of them.                                                       *)
CancelledLeaderCostsOneAttempt ==
  \A c \in Callers : pc[c] = "cleanup" /\ ~ctxDone[c] =>
    \/ result[c] = "refused"
    \/ result[c] = "removed" /\ \E x \in Callers : pc[x] = "failed"
    \/ /\ attempt[c] + 1 = MaxAttempts
       /\ lost[c] <= Cardinality({x \in Callers : ctxDone[x]})

(* What keeps these inductive: only the caller in flight is inside the     *)
(* singleflight function, and past its re-check there is no entry until    *)
(* it stores one, so Store never resets a count that somebody relies on.   *)
(* And a caller that left the flight left it with a result.                *)
FlightInv ==
  \A c \in Callers :
    /\ pc[c] \in InFlight => flight = c
    /\ pc[c] \in InFlight \ {"leader"} => entry = "none"
    /\ pc[c] = "got" => result[c] # "none"

(* A caller whose context ended a download does not come back, so nobody   *)
(* loses two attempts to it; and a directory is only removed under an      *)
(* extraction by a caller that failed.                                     *)
Withdrawn ==
  {x \in Callers : /\ ctxDone[x]
                   /\ \/ pc[x] = "failed"
                      \/ pc[x] \in {"got", "cleanup"} /\ result[x] = "cancelled"}
CauseInv ==
  \A c \in Callers :
    /\ lost[c] <= Cardinality(Withdrawn)
    /\ (pc[c] = "extract" /\ dir = "absent") \/ result[c] = "removed"
         => \E x \in Callers : pc[x] = "failed"

(* Every call of GetOrDownload returns: nobody is left waiting on a flight *)
(* that has landed.                                                        *)
CallsReturn ==
  \A c \in Callers : pc[c] = "do" ~> pc[c] \in Over \cup {"using"}

(* pkg/queue/README.md: "Archives in use are never cleaned up".  No step    *)
(* takes the directory away from the checks that hold a reference on it.   *)
ArchiveInUseStays ==
  [][Holders # {} /\ dir = "complete" => dir' = "complete"]_vars
=============================================================================
