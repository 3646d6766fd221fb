------------------------- MODULE ArchiveCacheProofs -------------------------
(***************************************************************************)
(* Proofs about ArchiveCache, for any finite set of callers and any number *)
(* of attempts.                                                            *)
(***************************************************************************)
EXTENDS ArchiveCache, FiniteSetTheorems, TLAPS

(* A caller with a live context gives up on a permanent error or after its *)
(* last attempt.                                                           *)
GaveUp ==
  \A c \in Callers : pc[c] = "cleanup" /\ ~ctxDone[c] =>
    result[c] \in Permanent \/ attempt[c] + 1 = MaxAttempts

CacheInv == TypeOK /\ FlightInv /\ RefCountIsHolders /\ CauseInv /\ GaveUp

(* Only callers hold references, so the holders can be counted. *)
LEMMA HoldersFinite == IsFiniteSet(Holders)
BY CallersAssumption, FS_Subset DEF Holders

LEMMA WithdrawnFinite == IsFiniteSet(Withdrawn)
BY CallersAssumption, FS_Subset DEF Withdrawn

LEMMA InitCacheInv == Init => CacheInv
<1> SUFFICES ASSUME Init PROVE CacheInv
  OBVIOUS
<1>1. TypeOK
  BY MaxAttemptsAssumption DEF Init, TypeOK, Results, InFlight, Over
<1>2. FlightInv /\ GaveUp
  BY DEF Init, FlightInv, GaveUp, InFlight
<1>4. CauseInv
  <2>1. Withdrawn = {} /\ Cardinality({}) = 0
    BY FS_EmptySet DEF Init, Withdrawn
  <2> QED BY <2>1 DEF Init, CauseInv
<1>3. RefCountIsHolders
  BY DEF Init, RefCountIsHolders, Holders
<1> QED BY <1>1, <1>2, <1>3, <1>4 DEF CacheInv

LEMMA NextTypeOK == TypeOK /\ [Next]_vars => TypeOK'
<1> SUFFICES ASSUME TypeOK, [Next]_vars PROVE TypeOK'
  OBVIOUS
<1> USE MaxAttemptsAssumption DEF TypeOK, Results, InFlight, Over, Goto, Return
<1>1. ASSUME NEW c \in Callers, Start(c) PROVE TypeOK'
  BY <1>1 DEF Start, Acquire
<1>2. ASSUME NEW c \in Callers, Do(c) PROVE TypeOK'
  BY <1>2 DEF Do
<1>3. ASSUME NEW c \in Callers, Recheck(c) PROVE TypeOK'
  BY <1>3 DEF Recheck, Finish
<1>4. ASSUME NEW c \in Callers, Download(c) PROVE TypeOK'
  BY <1>4 DEF Download, Finish
<1>5. ASSUME NEW c \in Callers, Extract(c) PROVE TypeOK'
  BY <1>5 DEF Extract, Finish
<1>6. ASSUME NEW c \in Callers, Store(c) PROVE TypeOK'
  BY <1>6 DEF Store, Finish
<1>7. ASSUME NEW c \in Callers, GotArchive(c) PROVE TypeOK'
  BY <1>7 DEF GotArchive, Acquire
<1>8. ASSUME NEW c \in Callers, GotError(c) PROVE TypeOK'
  BY <1>8 DEF GotError, AttemptsLeft
<1>9. ASSUME NEW c \in Callers, Backoff(c) \/ CleanUp(c) \/ Cancel(c) PROVE TypeOK'
  <2>1. CASE Backoff(c)
    BY <2>1 DEF Backoff
  <2>2. CASE CleanUp(c)
    BY <2>2 DEF CleanUp
  <2>3. CASE Cancel(c)
    BY <2>3 DEF Cancel
  <2> QED BY <1>9, <2>1, <2>2, <2>3
<1>10. ASSUME NEW c \in Callers, Release(c) PROVE TypeOK'
  BY <1>10 DEF Release
<1>11. CASE Age \/ Sweep \/ UNCHANGED vars
  BY <1>11 DEF Age, Sweep, vars
<1> QED BY <1>1, <1>2, <1>3, <1>4, <1>5, <1>6, <1>7, <1>8, <1>9, <1>10, <1>11
        DEF Next, Caller

(* Only the leader of the flight runs the singleflight function, and while *)
(* it downloads nobody else can add an entry.                              *)
LEMMA NextFlightInv == TypeOK /\ FlightInv /\ RefCountIsHolders /\ [Next]_vars => FlightInv'
<1> SUFFICES ASSUME TypeOK, FlightInv, [Next]_vars PROVE FlightInv'
  OBVIOUS
<1> USE CallersAssumption DEF TypeOK, FlightInv, InFlight, Over, Goto, Return, Joined
<1>1. ASSUME NEW c \in Callers, Start(c) \/ GotArchive(c) PROVE FlightInv'
  BY <1>1 DEF Start, GotArchive, Acquire
<1>2. ASSUME NEW c \in Callers, Do(c) PROVE FlightInv'
  BY <1>2 DEF Do, MayLead
<1>3. ASSUME NEW c \in Callers, Recheck(c) PROVE FlightInv'
  BY <1>3 DEF Recheck, Finish
<1>4. ASSUME NEW c \in Callers, Download(c) PROVE FlightInv'
  BY <1>4 DEF Download, Finish
<1>5. ASSUME NEW c \in Callers, Extract(c) PROVE FlightInv'
  BY <1>5 DEF Extract, Finish
<1>6. ASSUME NEW c \in Callers, Store(c) PROVE FlightInv'
  BY <1>6 DEF Store, Finish
<1>7. ASSUME NEW c \in Callers, GotError(c) PROVE FlightInv'
  BY <1>7 DEF GotError
<1>8. ASSUME NEW c \in Callers, Backoff(c) \/ CleanUp(c) \/ Cancel(c) PROVE FlightInv'
  BY <1>8 DEF Backoff, CleanUp, Cancel
<1>9. ASSUME NEW c \in Callers, Release(c) PROVE FlightInv'
  BY <1>9 DEF Release
<1>10. CASE Age \/ Sweep \/ UNCHANGED vars
  BY <1>10 DEF Age, Sweep, vars
<1> QED BY <1>1, <1>2, <1>3, <1>4, <1>5, <1>6, <1>7, <1>8, <1>9, <1>10
        DEF Next, Caller

(* A step that leaves the set of holders, the entry's existence and the    *)
(* count alone keeps the count right.                                      *)
LEMMA SameHolders ==
  ASSUME RefCountIsHolders, Holders' = Holders, refCount' = refCount,
         (entry' = "none") <=> (entry = "none")
  PROVE  RefCountIsHolders'
BY DEF RefCountIsHolders

(* acquire takes exactly one reference for exactly one new holder. *)
LEMMA AcquireCounts ==
  ASSUME TypeOK, RefCountIsHolders, NEW c \in Callers, pc[c] # "using", Acquire(c)
  PROVE  RefCountIsHolders'
<1>1. Holders' = Holders \cup {c} /\ c \notin Holders
  BY DEF Acquire, Return, Goto, Holders, TypeOK
<1>2. Cardinality(Holders \cup {c}) = Cardinality(Holders) + 1
  BY <1>1, HoldersFinite, FS_AddElement
<1> QED BY <1>1, <1>2 DEF Acquire, RefCountIsHolders

LEMMA NextRefCount ==
  TypeOK /\ FlightInv /\ RefCountIsHolders /\ [Next]_vars => RefCountIsHolders'
<1> SUFFICES ASSUME TypeOK, FlightInv, RefCountIsHolders, [Next]_vars
             PROVE  RefCountIsHolders'
  OBVIOUS
<1>1. ASSUME NEW c \in Callers, Start(c) \/ GotArchive(c) PROVE RefCountIsHolders'
  <2>1. CASE Acquire(c)
    BY <1>1, <2>1, AcquireCounts DEF Start, GotArchive
  <2>2. CASE ~Acquire(c)
    <3>1. Holders' = Holders /\ UNCHANGED <<entry, refCount>>
      BY <1>1, <2>2 DEF Start, GotArchive, Holders, Goto, TypeOK
    <3> QED BY <3>1, SameHolders
  <2> QED BY <2>1, <2>2
<1>3. ASSUME NEW c \in Callers, Store(c) PROVE RefCountIsHolders'
  <2>1. entry = "none" /\ Holders = {}
    BY <1>3 DEF Store, FlightInv, InFlight, RefCountIsHolders
  <2>2. Holders' = Holders
    BY <1>3 DEF Store, Finish, Joined, Holders, TypeOK
  <2>3. Cardinality({}) = 0
    BY FS_EmptySet
  <2> QED BY <1>3, <2>1, <2>2, <2>3 DEF Store, RefCountIsHolders
<1>4. ASSUME NEW c \in Callers, Release(c) PROVE RefCountIsHolders'
  <2>1. c \in Holders /\ Holders' = Holders \ {c} /\ entry # "none"
    BY <1>4 DEF Release, Goto, Holders, TypeOK, RefCountIsHolders
  <2>2. /\ Cardinality(Holders \ {c}) = Cardinality(Holders) - 1
        /\ refCount = Cardinality(Holders)
    BY <2>1, HoldersFinite, FS_RemoveElement DEF RefCountIsHolders
  <2>3. Cardinality(Holders) \in Nat /\ Cardinality(Holders \ {c}) \in Nat
    BY <2>1, HoldersFinite, FS_CardinalityType, FS_Subset
  <2> QED BY <1>4, <2>1, <2>2, <2>3 DEF Release, RefCountIsHolders
<1>5. CASE Sweep
  <2>1. Holders = {}
    BY <1>5, HoldersFinite, FS_EmptySet DEF Sweep, Evictable, RefCountIsHolders
  <2> QED BY <1>5, <2>1 DEF Sweep, Holders, RefCountIsHolders
<1>6. CASE Age \/ UNCHANGED vars
  <2>1. Holders' = Holders
    BY <1>6 DEF Age, vars, Holders
  <2> QED BY <1>6, <2>1, SameHolders DEF Age, vars
<1>7. ASSUME NEW c \in Callers,
             Do(c) \/ Recheck(c) \/ Download(c) \/ Extract(c) \/ GotError(c)
               \/ Backoff(c) \/ CleanUp(c) \/ Cancel(c)
      PROVE  RefCountIsHolders'
  <2>1. Holders' = Holders
    BY <1>7 DEF Do, Recheck, Download, Extract, Finish, GotError, Backoff, CleanUp, Cancel,
                Goto, Return, Joined, Holders, TypeOK
  <2>2. UNCHANGED <<entry, refCount>>
    BY <1>7 DEF Do, Recheck, Download, Extract, GotError, Backoff, CleanUp, Cancel
  <2> QED BY <2>1, <2>2, SameHolders
<1> QED BY <1>1, <1>3, <1>4, <1>5, <1>6, <1>7 DEF Next, Caller

LEMMA NextGaveUp == TypeOK /\ FlightInv /\ GaveUp /\ [Next]_vars => GaveUp'
<1> SUFFICES ASSUME TypeOK, FlightInv, GaveUp, [Next]_vars PROVE GaveUp'
  OBVIOUS
<1> USE MaxAttemptsAssumption DEF TypeOK, GaveUp, Goto, Return, Results
<1>1. ASSUME NEW c \in Callers, GotError(c) PROVE GaveUp'
  BY <1>1 DEF GotError, Retriable, AttemptsLeft, FlightInv
<1>2. ASSUME NEW c \in Callers, Start(c) \/ GotArchive(c) PROVE GaveUp'
  BY <1>2 DEF Start, GotArchive, Acquire
<1>3. ASSUME NEW c \in Callers, Recheck(c) \/ Download(c) \/ Extract(c) \/ Store(c)
      PROVE  GaveUp'
  BY <1>3 DEF Recheck, Download, Extract, Store, Finish, Joined
<1>4. ASSUME NEW c \in Callers, Do(c) \/ Backoff(c) \/ CleanUp(c) \/ Cancel(c) \/ Release(c)
      PROVE  GaveUp'
  BY <1>4 DEF Do, Backoff, CleanUp, Cancel, Release
<1>5. CASE Age \/ Sweep \/ UNCHANGED vars
  BY <1>5 DEF Age, Sweep, vars
<1> QED BY <1>1, <1>2, <1>3, <1>4, <1>5 DEF Next, Caller

(* A caller that is withdrawn stays so, and a step costs nobody an attempt *)
(* unless another caller withdraws in it.                                  *)
LEMMA WithdrawnGrows ==
  ASSUME TypeOK, FlightInv, [Next]_vars
  PROVE  /\ Withdrawn \subseteq Withdrawn'
         /\ \/ \A d \in Callers : lost'[d] <= lost[d]
            \/ /\ \E c \in Callers : c \notin Withdrawn /\ c \in Withdrawn'
               /\ \A d \in Callers : lost'[d] <= lost[d] + 1
<1> USE DEF TypeOK, Withdrawn, Goto, Return
<1>1. ASSUME NEW c \in Callers, Download(c)
      PROVE  /\ Withdrawn \subseteq Withdrawn'
             /\ \/ \A d \in Callers : lost'[d] <= lost[d]
                \/ /\ c \notin Withdrawn /\ c \in Withdrawn'
                   /\ \A d \in Callers : lost'[d] <= lost[d] + 1
  <2>1. CASE ctxDone[c]
    <3>1. Finish(c, "cancelled") /\ UNCHANGED ctxDone /\ pc[c] = "download"
      BY <1>1, <2>1 DEF Download
    <3>2. c \notin Withdrawn /\ c \in Withdrawn'
      BY <2>1, <3>1 DEF Finish, Joined
    <3>3. Withdrawn \subseteq Withdrawn'
      BY <3>1 DEF Finish, Joined
    <3>4. \A d \in Callers : lost'[d] <= lost[d] + 1
      BY <3>1 DEF Finish, Joined
    <3> QED BY <3>2, <3>3, <3>4
  <2>2. CASE ~ctxDone[c]
    BY <1>1, <2>2 DEF Download, Finish, Joined
  <2> QED BY <2>1, <2>2
<1>2. ASSUME NEW c \in Callers, Recheck(c) \/ Extract(c) \/ Store(c)
      PROVE  Withdrawn \subseteq Withdrawn' /\ \A d \in Callers : lost'[d] <= lost[d]
  BY <1>2 DEF Recheck, Extract, Store, Finish, Joined
<1>3. ASSUME NEW c \in Callers, Start(c) \/ GotArchive(c)
      PROVE  Withdrawn \subseteq Withdrawn' /\ \A d \in Callers : lost'[d] <= lost[d]
  BY <1>3 DEF Start, GotArchive, Acquire
<1>4. ASSUME NEW c \in Callers, GotError(c)
      PROVE  Withdrawn \subseteq Withdrawn' /\ \A d \in Callers : lost'[d] <= lost[d]
  BY <1>4 DEF GotError, Retriable
<1>5. ASSUME NEW c \in Callers, Do(c) \/ Backoff(c) \/ CleanUp(c) \/ Cancel(c) \/ Release(c)
      PROVE  Withdrawn \subseteq Withdrawn' /\ \A d \in Callers : lost'[d] <= lost[d]
  BY <1>5 DEF Do, Backoff, CleanUp, Cancel, Release
<1>6. CASE Age \/ Sweep \/ UNCHANGED vars
  BY <1>6 DEF Age, Sweep, vars
<1> QED BY <1>1, <1>2, <1>3, <1>4, <1>5, <1>6 DEF Next, Caller

LEMMA NextCauseInv == TypeOK /\ FlightInv /\ CauseInv /\ [Next]_vars => CauseInv'
<1> SUFFICES ASSUME TypeOK, FlightInv, CauseInv, [Next]_vars PROVE CauseInv'
  OBVIOUS
<1>1. \A d \in Callers : lost'[d] <= Cardinality(Withdrawn')
  <2>0. IsFiniteSet(Withdrawn')
    BY CallersAssumption, FS_Subset DEF Withdrawn
  <2>1. Withdrawn \subseteq Withdrawn'
    BY WithdrawnGrows
  <2>2. /\ Cardinality(Withdrawn) <= Cardinality(Withdrawn')
        /\ Cardinality(Withdrawn) \in Nat /\ Cardinality(Withdrawn') \in Nat
    BY <2>0, <2>1, FS_Subset, FS_CardinalityType
  <2>3. TypeOK'
    BY NextTypeOK
  <2>4. CASE \A d \in Callers : lost'[d] <= lost[d]
    BY <2>2, <2>3, <2>4 DEF CauseInv, TypeOK
  <2>5. CASE /\ \E c \in Callers : c \notin Withdrawn /\ c \in Withdrawn'
             /\ \A d \in Callers : lost'[d] <= lost[d] + 1
    <3>1. PICK c \in Callers : c \notin Withdrawn /\ c \in Withdrawn'
      BY <2>5
    <3>2. Cardinality(Withdrawn \cup {c}) = Cardinality(Withdrawn) + 1
      BY <3>1, WithdrawnFinite, FS_AddElement
    <3>3. Withdrawn \cup {c} \subseteq Withdrawn'
      BY <2>1, <3>1
    <3>4. Cardinality(Withdrawn \cup {c}) <= Cardinality(Withdrawn')
      BY <2>0, <3>3, FS_Subset
    <3> QED BY <2>2, <2>3, <2>5, <3>2, <3>4 DEF CauseInv, TypeOK
  <2> QED BY <2>4, <2>5, WithdrawnGrows
<1>2. ASSUME NEW d \in Callers, (pc'[d] = "extract" /\ dir' = "absent") \/ result'[d] = "removed"
      PROVE  \E x \in Callers : pc'[x] = "failed"
  <2> USE DEF TypeOK, CauseInv, Goto, Return
  <2>1. ASSUME NEW c \in Callers, Start(c) \/ GotArchive(c) PROVE \E x \in Callers : pc'[x] = "failed"
    BY <1>2, <2>1 DEF Start, GotArchive, Acquire
  <2>2. ASSUME NEW c \in Callers, Recheck(c) PROVE \E x \in Callers : pc'[x] = "failed"
    BY <1>2, <2>2 DEF Recheck, Finish, Joined, FlightInv, InFlight
  <2>3. ASSUME NEW c \in Callers, Download(c) PROVE \E x \in Callers : pc'[x] = "failed"
    BY <1>2, <2>3 DEF Download, Finish, Joined, FlightInv, InFlight
  <2>4. ASSUME NEW c \in Callers, Extract(c) \/ Store(c) PROVE \E x \in Callers : pc'[x] = "failed"
    BY <1>2, <2>4 DEF Extract, Store, Finish, Joined
  <2>5. ASSUME NEW c \in Callers, Do(c) \/ GotError(c) \/ Backoff(c) \/ CleanUp(c) \/ Cancel(c)
                                    \/ Release(c)
        PROVE  \E x \in Callers : pc'[x] = "failed"
    BY <1>2, <2>5 DEF Do, GotError, Backoff, CleanUp, Cancel, Release
  <2>6. CASE Age \/ Sweep \/ UNCHANGED vars
    BY <1>2, <2>6, FS_EmptySet DEF Age, Sweep, vars, Evictable, FlightInv, InFlight
  <2> QED BY <2>1, <2>2, <2>3, <2>4, <2>5, <2>6 DEF Next, Caller
<1> QED BY <1>1, <1>2 DEF CauseInv

LEMMA CauseCorrect == CacheInv => CancelledLeaderCostsOneAttempt
<1> SUFFICES ASSUME CacheInv PROVE CancelledLeaderCostsOneAttempt
  OBVIOUS
<1> DEFINE Done == {x \in Callers : ctxDone[x]}
<1>1. Withdrawn \subseteq Done /\ IsFiniteSet(Done)
  BY CallersAssumption, FS_Subset DEF Withdrawn
<1>2. /\ Cardinality(Withdrawn) <= Cardinality(Done)
      /\ Cardinality(Withdrawn) \in Nat /\ Cardinality(Done) \in Nat
  BY <1>1, WithdrawnFinite, FS_Subset, FS_CardinalityType
<1>3. \A c \in Callers : lost[c] <= Cardinality(Done)
  BY <1>2 DEF CacheInv, CauseInv, TypeOK
<1> QED BY <1>3 DEF CacheInv, CauseInv, GaveUp, Permanent, CancelledLeaderCostsOneAttempt

LEMMA CacheInvariant == Spec => []CacheInv
<1>1. CacheInv /\ [Next]_vars => CacheInv'
  BY NextTypeOK, NextFlightInv, NextRefCount, NextCauseInv, NextGaveUp DEF CacheInv
<1> QED BY <1>1, InitCacheInv, PTL DEF Spec

-----------------------------------------------------------------------------
(* The cache's state is always well-typed.                                 *)
THEOREM CacheTypeCorrect == Spec => []TypeOK
BY CacheInvariant, PTL DEF CacheInv

(* The reference count is the number of checks that use the archive, for   *)
(* every interleaving of callers, releases and cleanups: the cleanup never *)
(* evicts an archive in use.                                               *)
THEOREM RefCountCorrect == Spec => []RefCountIsHolders
BY CacheInvariant, PTL DEF CacheInv

(* The singleflight group lets one caller at a time download or extract.   *)
THEOREM DownloadExclusion == Spec => []OneDownload
<1>1. CacheInv => OneDownload
  BY DEF CacheInv, FlightInv, OneDownload
<1> QED BY <1>1, CacheInvariant, PTL

(* A cancelled leader's error is worth another attempt to those who joined *)
(* it: a caller with a live context gives up because the host or the       *)
(* archive is at fault, because a caller that failed removed the directory *)
(* under the extraction, or after its last attempt, and no cancelled       *)
(* caller has cost it more than one.                                       *)
THEOREM CancelledLeaderCosts == Spec => []CancelledLeaderCostsOneAttempt
BY CacheInvariant, CauseCorrect, PTL
=============================================================================
