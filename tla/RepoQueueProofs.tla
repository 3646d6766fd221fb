-------------------------- MODULE RepoQueueProofs --------------------------
(***************************************************************************)
(* Proofs about RepoQueue, for any number of repositories, pull requests,  *)
(* commits and webhook deliveries and any queue size.                      *)
(***************************************************************************)
EXTENDS RepoQueue, TLAPS

-----------------------------------------------------------------------------
(* The type invariant. *)

LEMMA InitTypeOK == Init => TypeOK
<1> SUFFICES ASSUME Init PROVE TypeOK
  OBVIOUS
<1>1. req \in [Deliveries -> Requests]
  BY DEF Init
<1>2. /\ chan \in [Deliveries -> Seq(Deliveries)]
      /\ \A q \in Deliveries : Len(chan[q]) =< QueueSize
  <2>1. << >> \in Seq(Deliveries) /\ Len(<< >>) = 0
    OBVIOUS
  <2> QED BY <2>1, QueueSizeAssumption DEF Init
<1>3. /\ latestSHA \in [Deliveries -> [PRs -> Commits \cup {None}]]
      /\ running \in [Deliveries -> [PRs -> Deliveries \cup {None}]]
      /\ prMap \in [Deliveries -> [PRs -> Deliveries \cup {None}]]
      /\ notices \in [Deliveries -> [PRs -> Nat]]
  BY DEF Init
<1> QED BY <1>1, <1>2, <1>3 DEF Init, TypeOK, Answered, Causes, Fates

(* Every step of a webhook handler keeps the types. *)
LEMMA HandlerTypeOK ==
  ASSUME TypeOK, NEW d \in Deliveries, ReceiveHook(d) \/ Handler(d),
         pc[d] \in {"supersede", "send"} => handle[d] # None
  PROVE  TypeOK'
<1> USE DEF TypeOK, Answered, Causes, Fates, Requests, hookVars, queueVars, dropVars,
            shutdownVars, Goto, Step
<1>1. CASE ReceiveHook(d)
  BY <1>1 DEF ReceiveHook
<1>2. CASE CanonicalizeFails(d)
  BY <1>2 DEF CanonicalizeFails
<1>3. CASE Lookup(d)
  BY <1>3 DEF Lookup
<1>4. CASE Create(d)
  <2>1. req[d].repo \in Repos
    OBVIOUS
  <2>2. queues' \in [Repos -> Deliveries \cup {None}]
    <3>1. queues' = queues \/ queues' = [queues EXCEPT ![req[d].repo] = d]
      BY <1>4 DEF Create
    <3> QED BY <2>1, <3>1
  <2>3. handle' \in [Deliveries -> Deliveries \cup {None}]
    <3>1. queues[req[d].repo] \in Deliveries \cup {None}
      BY <2>1
    <3>2. \/ handle' = [handle EXCEPT ![d] = d]
          \/ handle' = [handle EXCEPT ![d] = queues[req[d].repo]]
      BY <1>4 DEF Create
    <3> QED BY <3>1, <3>2
  <2>4. worker' \in [Deliveries -> {"none", "select", "begin", "run", "end",
                                    "drain", "notify", "exited"}]
    BY <1>4 DEF Create
  <2>5. pc' \in [Deliveries -> {"idle", "lookup", "create", "supersede", "send", "full"}
                                \cup Answered]
    BY <1>4 DEF Create
  <2> QED BY <1>4, <2>2, <2>3, <2>4, <2>5 DEF Create
<1>5. CASE Supersede(d)
  <2>1. handle[d] \in Deliveries
    BY <1>5 DEF Supersede
  <2>2. cause' \in [Deliveries -> Causes]
    BY <1>5, <2>1 DEF Supersede, CancelOtherCommit, Cancel
  <2> QED BY <1>5, <2>1, <2>2 DEF Supersede
<1>6. CASE Send(d)
  <2>1. handle[d] \in Deliveries
    BY <1>6 DEF Send
  <2>2. /\ chan' \in [Deliveries -> Seq(Deliveries)]
        /\ \A q \in Deliveries : Len(chan'[q]) =< QueueSize
    <3>1. CASE Len(chan[handle[d]]) < QueueSize
      <4>1. /\ Append(chan[handle[d]], d) \in Seq(Deliveries)
            /\ Len(Append(chan[handle[d]], d)) =< QueueSize
        BY <2>1, <3>1, QueueSizeAssumption
      <4>2. chan' = [chan EXCEPT ![handle[d]] = Append(chan[handle[d]], d)]
        BY <1>6, <3>1 DEF Send, HasRoom
      <4> QED BY <2>1, <4>1, <4>2
    <3>2. CASE ~(Len(chan[handle[d]]) < QueueSize)
      BY <1>6, <3>2 DEF Send, HasRoom
    <3> QED BY <3>1, <3>2
  <2> QED BY <1>6, <2>1, <2>2 DEF Send, HasRoom
<1>7. CASE PostQueueFull(d)
  BY <1>7 DEF PostQueueFull
<1> QED BY <1>1, <1>2, <1>3, <1>4, <1>5, <1>6, <1>7 DEF Handler

(* Every step of a queue's worker keeps the types. *)
LEMMA WorkerTypeOK ==
  ASSUME TypeOK, NEW q \in Deliveries, Worker(q) \/ TimeoutCheck(q),
         Busy(q) => current[q] \in Deliveries
  PROVE  TypeOK'
<1> USE DEF TypeOK, Answered, Causes, Fates, Requests, hookVars, queueVars, dropVars,
            shutdownVars, Step, Busy
<1>1. CASE TakeRequest(q)
  <2>1. /\ Head(chan[q]) \in Deliveries
        /\ Tail(chan[q]) \in Seq(Deliveries)
        /\ Len(Tail(chan[q])) =< QueueSize
    <3>1. chan[q] # << >> /\ chan[q] \in Seq(Deliveries) /\ Len(chan[q]) =< QueueSize
      BY <1>1 DEF TakeRequest
    <3> HIDE DEF TypeOK
    <3> QED BY <3>1, QueueSizeAssumption
  <2> QED BY <1>1, <2>1 DEF TakeRequest
<1>2. CASE Begin(q)
  <2>1. CASE MovedPast(q, current[q])
    BY <1>2, <2>1 DEF Begin
  <2>2. CASE ~MovedPast(q, current[q])
    <3>1. current[q] \in Deliveries /\ req[current[q]].pr \in PRs
      BY <1>2 DEF Begin
    <3>2. running' \in [Deliveries -> [PRs -> Deliveries \cup {None}]]
      <4>1. running' = [running EXCEPT ![q][req[current[q]].pr] = current[q]]
        BY <1>2, <2>2 DEF Begin
      <4> HIDE DEF Requests
      <4> QED BY <3>1, <4>1
    <3>3. cause' \in [Deliveries -> Causes]
      BY <1>2, <2>2, <3>1 DEF Begin, NewContext
    <3> QED BY <1>2, <2>2, <3>2, <3>3 DEF Begin
  <2> QED BY <2>1, <2>2
<1>3. CASE FinishCheck(q)
  BY <1>3 DEF FinishCheck
<1>4. CASE End(q)
  <2>1. cause' \in [Deliveries -> Causes]
    BY <1>4 DEF End, Cancel
  <2> QED BY <1>4, <2>1 DEF End, Unregister
<1>5. CASE SeeDone(q)
  BY <1>5 DEF SeeDone
<1>6. CASE DrainOne(q)
  <2>1. /\ Head(chan[q]) \in Deliveries
        /\ Tail(chan[q]) \in Seq(Deliveries)
        /\ Len(Tail(chan[q])) =< QueueSize
    BY <1>6, QueueSizeAssumption DEF DrainOne
  <2> QED BY <1>6, <2>1 DEF DrainOne
<1>7. CASE DrainedAll(q)
  BY <1>7 DEF DrainedAll
<1>8. ASSUME NEW p \in PRs, NotifyOne(q, p) PROVE TypeOK'
  <2>1. notices' \in [Deliveries -> [PRs -> Nat]]
    <3>1. notices[q][p] + 1 \in Nat
      OBVIOUS
    <3> QED BY <1>8, <3>1 DEF NotifyOne
  <2>2. prMap' \in [Deliveries -> [PRs -> Deliveries \cup {None}]]
    BY <1>8 DEF NotifyOne
  <2> QED BY <1>8, <2>1, <2>2 DEF NotifyOne
<1>9. CASE NotifiedAll(q)
  BY <1>9 DEF NotifiedAll
<1>10. CASE TimeoutCheck(q)
  BY <1>10 DEF TimeoutCheck, Cancel
<1> QED BY <1>1, <1>2, <1>3, <1>4, <1>5, <1>6, <1>7, <1>8, <1>9, <1>10 DEF Worker

(* Every step of the shutdown keeps the types. *)
LEMMA ShutdownTypeOK ==
  ASSUME TypeOK, StartHTTP \/ Signal \/ Deadline \/ Shutdown \/ Exited \/ UNCHANGED vars
  PROVE  TypeOK'
<1> USE DEF TypeOK, Answered, Causes, Fates, Requests, hookVars, queueVars, dropVars,
            shutdownVars, vars
<1>1. CASE StartHTTP \/ Signal
  BY <1>1 DEF StartHTTP, Signal
<1>2. CASE Deadline
  BY <1>2 DEF Deadline
<1>3. CASE StopHTTP
  BY <1>3 DEF StopHTTP
<1>4. CASE HTTPStopped
  BY <1>4 DEF HTTPStopped
<1>5. CASE Snapshot
  BY <1>5 DEF Snapshot
<1>6. ASSUME NEW q \in Deliveries, CloseDone(q) PROVE TypeOK'
  BY <1>6 DEF CloseDone
<1>7. CASE ClosedAll
  BY <1>7 DEF ClosedAll
<1>8. CASE AllDone
  BY <1>8 DEF AllDone
<1>9. CASE CancelAll
  BY <1>9 DEF CancelAll
<1>10. CASE GraceOver
  BY <1>10 DEF GraceOver
<1>11. CASE Exit
  BY <1>11 DEF Exit
<1>12. CASE Exited \/ UNCHANGED vars
  BY <1>12 DEF Exited
<1> QED BY <1>1, <1>2, <1>3, <1>4, <1>5, <1>6, <1>7, <1>8, <1>9, <1>10, <1>11, <1>12
        DEF Shutdown

-----------------------------------------------------------------------------
(* The inductive invariant, action by action. *)

(* The part of the types that the proofs below need. *)
CoreTypes ==
  /\ pc \in [Deliveries -> {"idle", "lookup", "create", "supersede", "send", "full",
                            "ignored", "accepted", "rejected"}]
  /\ req \in [Deliveries -> Requests]
  /\ handle \in [Deliveries -> Deliveries \cup {None}]
  /\ queues \in [Repos -> Deliveries \cup {None}]
  /\ chan \in [Deliveries -> Seq(Deliveries)]
  /\ latestSHA \in [Deliveries -> [PRs -> Commits \cup {None}]]
  /\ running \in [Deliveries -> [PRs -> Deliveries \cup {None}]]
  /\ worker \in [Deliveries -> {"none", "select", "begin", "run", "end",
                                "drain", "notify", "exited"}]
  /\ current \in [Deliveries -> Deliveries \cup {None}]
  /\ cause \in [Deliveries -> Causes]
  /\ fate \in [Deliveries -> Fates]
  /\ \A d \in Deliveries :
       req[d].repo \in Repos /\ req[d].pr \in PRs /\ req[d].sha \in Commits

LEMMA TypeOKCore == TypeOK => CoreTypes
BY DEF TypeOK, CoreTypes, Requests, Answered

LEMMA InitQueueInv == Init => QueueInv
<1> SUFFICES ASSUME Init PROVE QueueInv
  OBVIOUS
<1>1. QueueObjects
  BY DEF Init, QueueObjects
<1>2. HandlesFit
  BY DEF Init, HandlesFit
<1>3. RequestsInPlace
  BY DEF Init, RequestsInPlace, Busy
<1>4. RunningIsCurrent
  BY NoneAssumption DEF Init, RunningIsCurrent
<1>5. LiveNotMovedPast /\ CancelAllReachesChecks
  BY DEF Init, LiveNotMovedPast, CancelAllReachesChecks
<1>6. LatestWasRecorded
  BY DEF Init, LatestWasRecorded
<1>7. SkippedHasSuccessor
  BY DEF Init, SkippedHasSuccessor
<1> QED BY <1>1, <1>2, <1>3, <1>4, <1>5, <1>6, <1>7 DEF QueueInv

(* What is recorded stays recorded: the two history parts of the invariant *)
(* survive every step that writes neither latestSHA nor a new skip.        *)
LEMMA RecordedStays ==
  ASSUME LatestWasRecorded, SkippedHasSuccessor,
         latestSHA' = latestSHA,
         \A e \in Deliveries : fate'[e] = "skipped" => fate[e] = "skipped",
         \A e \in Deliveries : handle[e] # None =>
           handle'[e] = handle[e] /\ req'[e] = req[e],
         \A e \in Deliveries : Recorded(e) => Recorded(e)'
  PROVE  LatestWasRecorded' /\ SkippedHasSuccessor'
<1>1. \A e \in Deliveries : Recorded(e) =>
        Recorded(e)' /\ handle'[e] = handle[e] /\ req'[e] = req[e]
  BY DEF Recorded
<1>2. LatestWasRecorded'
  BY <1>1 DEF LatestWasRecorded
<1>3. \A e \in Deliveries : fate[e] = "skipped" => handle[e] # None
  BY DEF SkippedHasSuccessor, Recorded
<1>4. SkippedHasSuccessor'
  BY <1>1, <1>3 DEF SkippedHasSuccessor
<1> QED BY <1>2, <1>4

(* ReceiveHook, CanonicalizeFails and PostQueueFull touch no queue. *)
LEMMA HookQueueInv ==
  ASSUME CoreTypes, QueueInv, NEW d \in Deliveries,
         ReceiveHook(d) \/ CanonicalizeFails(d) \/ PostQueueFull(d)
  PROVE  QueueInv'
<1> USE NoneAssumption
        DEF CoreTypes, QueueInv, hookVars, queueVars, dropVars, shutdownVars, Goto
<1>1. CASE ReceiveHook(d)
  <2> USE <1>1 DEF ReceiveHook
  <2>1. pc[d] = "idle" /\ handle[d] = None /\ worker[d] = "none"
    BY DEF HandlesFit, QueueObjects
  <2>2. QueueObjects'
    BY <2>1 DEF QueueObjects
  <2>3. HandlesFit'
    BY <2>1 DEF HandlesFit
  <2>4. RequestsInPlace'
    BY <2>1 DEF RequestsInPlace, Belongs, Busy
  <2>5. RunningIsCurrent'
    BY <2>1 DEF RunningIsCurrent, RequestsInPlace, Belongs, Busy
  <2>6. LiveNotMovedPast' /\ CancelAllReachesChecks'
    BY <2>1 DEF LiveNotMovedPast, CancelAllReachesChecks, RequestsInPlace,
                Belongs, Busy
  <2>7. LatestWasRecorded' /\ SkippedHasSuccessor'
    <3>1. \A e \in Deliveries : handle[e] # None =>
            handle'[e] = handle[e] /\ req'[e] = req[e]
      BY <2>1
    <3>2. \A e \in Deliveries : Recorded(e) => Recorded(e)'
      BY <2>1 DEF Recorded
    <3> QED BY <3>1, <3>2, RecordedStays
  <2> QED BY <2>2, <2>3, <2>4, <2>5, <2>6, <2>7
<1>2. CASE CanonicalizeFails(d) \/ PostQueueFull(d)
  <2> USE <1>2 DEF CanonicalizeFails, PostQueueFull
  <2>1. pc[d] \in {"lookup", "full"} /\ pc' = [pc EXCEPT ![d] = pc'[d]]
          /\ pc'[d] \in {"full", "rejected"}
    OBVIOUS
  <2>2. QueueObjects'
    BY <2>1 DEF QueueObjects
  <2>3. HandlesFit'
    BY <2>1 DEF HandlesFit
  <2>4. RequestsInPlace'
    BY <2>1 DEF RequestsInPlace, Belongs, Busy
  <2>5. RunningIsCurrent' /\ LiveNotMovedPast' /\ CancelAllReachesChecks'
    BY DEF RunningIsCurrent, LiveNotMovedPast, CancelAllReachesChecks
  <2>6. LatestWasRecorded' /\ SkippedHasSuccessor'
    <3>1. \A e \in Deliveries : Recorded(e) => Recorded(e)'
      BY <2>1 DEF Recorded
    <3> QED BY <3>1, RecordedStays
  <2> QED BY <2>2, <2>3, <2>4, <2>5, <2>6
<1> QED BY <1>1, <1>2

(* Enqueue: lookup, creation, supersede and the send. *)
LEMMA EnqueueQueueInv ==
  ASSUME CoreTypes, QueueInv, NEW d \in Deliveries,
         Lookup(d) \/ Create(d) \/ Supersede(d) \/ Send(d)
  PROVE  QueueInv'
<1> USE NoneAssumption
        DEF CoreTypes, QueueInv, hookVars, queueVars, dropVars, shutdownVars, Goto, Step
<1>1. CASE Lookup(d)
  <2> USE <1>1 DEF Lookup
  <2>1. pc[d] = "lookup" /\ worker[d] = "none"
    BY DEF QueueObjects
  <2>2. QueueObjects'
    BY <2>1 DEF QueueObjects
  <2>3. HandlesFit'
    BY <2>1 DEF HandlesFit, QueueObjects
  <2>4. RequestsInPlace'
    BY <2>1 DEF RequestsInPlace, Belongs, Busy
  <2>5. RunningIsCurrent' /\ LiveNotMovedPast' /\ CancelAllReachesChecks'
    BY DEF RunningIsCurrent, LiveNotMovedPast, CancelAllReachesChecks
  <2>6. LatestWasRecorded' /\ SkippedHasSuccessor'
    <3>1. handle[d] = None \/ handle[d] = queues[req[d].repo]
      BY DEF HandlesFit, QueueObjects
    <3>2. \A e \in Deliveries : Recorded(e) => Recorded(e)'
      BY <2>1 DEF Recorded
    <3> QED BY <3>1, <3>2, RecordedStays
  <2> QED BY <2>2, <2>3, <2>4, <2>5, <2>6
<1>2. CASE Create(d)
  <2> USE <1>2 DEF Create
  <2>1. pc[d] = "create" /\ worker[d] = "none"
    BY DEF QueueObjects
  <2>2. CASE StillMissing(req[d].repo)
    <3> USE <2>2 DEF StillMissing
    <3>0. \A e \in Deliveries : worker[e] = "none" \/ req[e].repo # req[d].repo
      BY DEF QueueObjects
    <3>1. QueueObjects'
      <4>1. /\ queues' = [queues EXCEPT ![req[d].repo] = d]
            /\ worker' = [worker EXCEPT ![d] = "select"]
            /\ pc' = [pc EXCEPT ![d] = "supersede"]
            /\ req' = req
        OBVIOUS
      <4> HIDE DEF Create
      <4>2. \A r \in Repos : queues'[r] # None =>
              worker'[queues'[r]] # "none" /\ req'[queues'[r]].repo = r
        BY <2>1, <3>0, <4>1 DEF QueueObjects
      <4>3. \A q \in Deliveries : worker'[q] # "none" =>
              queues'[req'[q].repo] = q /\ pc'[q] \notin {"idle", "lookup", "create"}
        BY <2>1, <3>0, <4>1 DEF QueueObjects
      <4> QED BY <4>2, <4>3 DEF QueueObjects
    <3>2. handle[d] = None
      BY <3>0 DEF HandlesFit
    <3>3. HandlesFit'
      BY <2>1, <3>2 DEF HandlesFit
    <3>4. RequestsInPlace'
      BY <2>1, <3>2 DEF RequestsInPlace, Belongs, Busy
    <3>5. RunningIsCurrent' /\ LiveNotMovedPast' /\ CancelAllReachesChecks'
      <4>1. /\ \A q \in Deliveries : worker'[q] = worker[q]
                  \/ (worker[q] = "none" /\ worker'[q] = "select")
            /\ UNCHANGED <<req, running, current, cause, latestSHA, rootCancelled>>
        BY <2>1
      <4> HIDE DEF Create
      <4>2. RunningIsCurrent'
        BY <4>1 DEF RunningIsCurrent
      <4>3. LiveNotMovedPast' /\ CancelAllReachesChecks'
        BY <4>1 DEF LiveNotMovedPast, CancelAllReachesChecks
      <4> QED BY <4>2, <4>3
    <3>6. LatestWasRecorded' /\ SkippedHasSuccessor'
      <4>1. \A e \in Deliveries : Recorded(e) => Recorded(e)'
        BY <2>1, <3>2 DEF Recorded
      <4> QED BY <3>2, <4>1, RecordedStays
    <3> QED BY <3>1, <3>3, <3>4, <3>5, <3>6
  <2>3. CASE ~StillMissing(req[d].repo)
    <3> USE <2>3 DEF StillMissing
    <3>1. QueueObjects'
      BY <2>1 DEF QueueObjects
    <3>2. handle[d] = None \/ handle[d] = queues[req[d].repo]
      <4> HIDE DEF Create
      <4> QED BY DEF HandlesFit, QueueObjects
    <3>3. HandlesFit'
      BY <2>1, <3>2 DEF HandlesFit, QueueObjects
    <3>4. RequestsInPlace'
      BY <2>1, <3>2 DEF RequestsInPlace, Belongs, Busy
    <3>5. RunningIsCurrent' /\ LiveNotMovedPast' /\ CancelAllReachesChecks'
      BY <2>1 DEF RunningIsCurrent, LiveNotMovedPast, CancelAllReachesChecks
    <3>6. LatestWasRecorded' /\ SkippedHasSuccessor'
      <4>1. \A e \in Deliveries : Recorded(e) => Recorded(e)'
        BY <2>1, <3>2 DEF Recorded
      <4> QED BY <3>2, <4>1, RecordedStays
    <3> QED BY <3>1, <3>3, <3>4, <3>5, <3>6
  <2> QED BY <2>2, <2>3
<1>3. CASE Supersede(d)
  <2> DEFINE q0 == handle[d]
             p0 == req[d].pr
  <2>1. /\ pc[d] = "supersede" /\ q0 \in Deliveries /\ p0 \in PRs
        /\ pc' = [pc EXCEPT ![d] = "send"]
        /\ latestSHA' = [latestSHA EXCEPT ![q0][p0] = req[d].sha]
        /\ UNCHANGED <<req, handle, queues, chan, running, worker, current, fate,
                       rootCancelled>>
    BY <1>3 DEF Supersede, HandlesFit
  <2>2. \A e \in Deliveries : cause'[e] = cause[e] \/ cause'[e] = "superseded"
    BY <1>3 DEF Supersede, CancelOtherCommit, Cancel
  <2>3. running[q0][p0] # None /\ req[running[q0][p0]].sha # req[d].sha
          => cause'[running[q0][p0]] # "live"
    BY <1>3, <2>1 DEF Supersede, CancelOtherCommit, Cancel
  <2> HIDE DEF q0, p0
  <2>4. QueueObjects' /\ HandlesFit'
    BY <2>1 DEF QueueObjects, HandlesFit
  <2>5. RequestsInPlace'
    BY <2>1 DEF RequestsInPlace, Belongs, Busy
  <2>6. RunningIsCurrent'
    BY <2>1 DEF RunningIsCurrent
  <2>7. LiveNotMovedPast'
    <3> SUFFICES ASSUME NEW q \in Deliveries, worker[q] = "run", cause'[current[q]] = "live"
                 PROVE  latestSHA'[q][req[current[q]].pr] \in {None, req[current[q]].sha}
      BY <2>1 DEF LiveNotMovedPast
    <3>1. current[q] \in Deliveries /\ cause[current[q]] = "live"
      BY <2>2 DEF RequestsInPlace, Belongs, Busy
    <3>2. latestSHA[q][req[current[q]].pr] \in {None, req[current[q]].sha}
      BY <3>1 DEF LiveNotMovedPast
    <3>3. CASE q = q0 /\ req[current[q]].pr = p0
      <4>1. running[q0][p0] = current[q]
        BY <2>1, <3>1, <3>3 DEF RunningIsCurrent
      <4>2. req[current[q]].sha = req[d].sha
        BY <2>3, <3>1, <4>1
      <4> QED BY <2>1, <3>3, <4>2
    <3>4. CASE ~(q = q0 /\ req[current[q]].pr = p0)
      BY <2>1, <3>1, <3>2, <3>4
    <3> QED BY <3>3, <3>4
  <2>8. CancelAllReachesChecks'
    BY <2>1, <2>2 DEF CancelAllReachesChecks, RequestsInPlace, Belongs, Busy
  <2>9. \A e \in Deliveries : (Recorded(e) => Recorded(e)') /\ Recorded(d)'
    BY <2>1 DEF Recorded, q0
  <2>10. LatestWasRecorded'
    <3> SUFFICES ASSUME NEW q \in Deliveries, NEW p \in PRs, latestSHA'[q][p] # None
                 PROVE  \E e \in Deliveries : /\ Recorded(e)'
                                              /\ handle[e] = q
                                              /\ req[e].pr = p
                                              /\ req[e].sha = latestSHA'[q][p]
      <4>1. UNCHANGED <<handle, req>>
        BY <2>1
      <4> HIDE DEF CoreTypes, QueueInv
      <4> QED BY <4>1 DEF LatestWasRecorded
    <3>1. CASE q = q0 /\ p = p0
      BY <2>1, <2>9, <3>1 DEF q0, p0
    <3>2. CASE ~(q = q0 /\ p = p0)
      <4>1. latestSHA'[q][p] = latestSHA[q][p]
        BY <2>1, <3>2
      <4> QED BY <2>9, <4>1 DEF LatestWasRecorded
    <3> QED BY <3>1, <3>2
  <2>11. SkippedHasSuccessor'
    BY <2>1, <2>9 DEF SkippedHasSuccessor
  <2> QED BY <2>4, <2>5, <2>6, <2>7, <2>8, <2>10, <2>11
<1>4. CASE Send(d)
  <2> DEFINE q0 == handle[d]
  <2>1. /\ pc[d] = "send" /\ q0 \in Deliveries
        /\ UNCHANGED <<req, handle, queues, latestSHA, running, worker, current, cause,
                       rootCancelled>>
        /\ \E l \in {"accepted", "full"} : pc' = [pc EXCEPT ![d] = l]
        /\ \A e \in Deliveries : fate'[e] = "skipped" => fate[e] = "skipped"
    BY <1>4 DEF Send, HasRoom, HandlesFit
  <2>2. \/ chan' = chan
        \/ pc'[d] = "accepted" /\ chan' = [chan EXCEPT ![q0] = Append(chan[q0], d)]
    BY <1>4 DEF Send, HasRoom
  <2>3. d # None /\ handle'[d] = q0
    BY <2>1
  <2> HIDE DEF q0
  <2>4. QueueObjects' /\ HandlesFit'
    BY <2>1 DEF QueueObjects, HandlesFit
  <2>5. \A e \in Deliveries : pc[e] = "accepted" => pc'[e] = "accepted"
    BY <2>1
  <2>6. RequestsInPlace'
    <3> DEFINE Fits(e, q) == e # None /\ pc'[e] = "accepted" /\ handle'[e] = q
    <3> SUFFICES ASSUME NEW q \in Deliveries
                 PROVE  /\ \A i \in DOMAIN chan'[q] : Fits(chan'[q][i], q)
                        /\ Busy(q)' => Fits(current'[q], q)
      BY DEF RequestsInPlace, Belongs
    <3>1. Busy(q)' => Fits(current'[q], q)
      BY <2>1, <2>5 DEF RequestsInPlace, Belongs, Busy
    <3>2. \A i \in DOMAIN chan[q] : Fits(chan[q][i], q)
      BY <2>1, <2>5 DEF RequestsInPlace, Belongs
    <3>3. CASE chan'[q] = chan[q]
      BY <3>1, <3>2, <3>3
    <3>4. CASE pc'[d] = "accepted" /\ q = q0 /\ chan'[q] = Append(chan[q], d)
      <4>1. Fits(d, q)
        BY <2>3, <3>4
      <4>2. \A i \in DOMAIN chan'[q] : chan'[q][i] = d \/ (i \in DOMAIN chan[q] /\ chan'[q][i] = chan[q][i])
        BY <3>4
      <4> HIDE DEF Fits
      <4> QED BY <3>1, <3>2, <4>1, <4>2
    <3> QED BY <2>1, <2>2, <3>3, <3>4
  <2>7. RunningIsCurrent' /\ LiveNotMovedPast' /\ CancelAllReachesChecks'
    BY <2>1 DEF RunningIsCurrent, LiveNotMovedPast, CancelAllReachesChecks
  <2>8. LatestWasRecorded' /\ SkippedHasSuccessor'
    <3>1. \A e \in Deliveries : Recorded(e) => Recorded(e)'
      BY <2>1 DEF Recorded
    <3> QED BY <2>1, <3>1, RecordedStays
  <2> QED BY <2>4, <2>6, <2>7, <2>8
<1> QED BY <1>1, <1>2, <1>3, <1>4

(* LatestWasRecorded for one queue and pull request. *)
LEMMA LatestRecorded ==
  ASSUME LatestWasRecorded, NEW q \in Deliveries, NEW p \in PRs, latestSHA[q][p] # None
  PROVE  \E e \in Deliveries : /\ Recorded(e)
                               /\ handle[e] = q
                               /\ req[e].pr = p
                               /\ req[e].sha = latestSHA[q][p]
BY DEF LatestWasRecorded

(* The worker: everything it does leaves handlers and the map alone. *)
LEMMA WorkerQueueInv ==
  ASSUME CoreTypes, QueueInv, NEW q0 \in Deliveries, Worker(q0) \/ TimeoutCheck(q0)
  PROVE  QueueInv'
<1> USE NoneAssumption
        DEF CoreTypes, QueueInv, hookVars, queueVars, dropVars, shutdownVars, Step
<1> DEFINE c == current[q0]
<1>0. /\ worker[q0] # "none" => worker'[q0] # "none"
      /\ \A q \in Deliveries : q # q0 => worker'[q] = worker[q] /\ current'[q] = current[q]
      /\ UNCHANGED <<pc, req, handle, queues, rootCancelled>>
  BY DEF Worker, TakeRequest, Begin, FinishCheck, End, SeeDone, DrainOne, DrainedAll,
         NotifyOne, NotifiedAll, TimeoutCheck
<1>1. QueueObjects' /\ HandlesFit'
  <2>1. \A q \in Deliveries : worker'[q] # "none" <=> worker[q] # "none"
    BY <1>0 DEF Worker, TakeRequest, Begin, FinishCheck, End, SeeDone, DrainOne, DrainedAll,
         NotifyOne, NotifiedAll, TimeoutCheck
  <2> QED BY <1>0, <2>1 DEF QueueObjects, HandlesFit
<1>2. \A e \in Deliveries : Recorded(e)' <=> Recorded(e)
  BY <1>0 DEF Recorded
<1>3. Busy(q0) => /\ c \in Deliveries
                  /\ Belongs(c, q0)
                  /\ \A q \in Deliveries : Busy(q) /\ q # q0 => current[q] # c
  BY DEF RequestsInPlace, Belongs, Busy
<1>4. /\ ~(worker[q0] \in {"run", "end"}) => \A p \in PRs : running[q0][p] = None
      /\ worker[q0] \in {"run", "end"} =>
           running[q0][req[c].pr] = c /\ \A p \in PRs : p # req[c].pr => running[q0][p] = None
  BY <1>3 DEF RunningIsCurrent, Busy
<1> HIDE DEF c
<1>5. CASE TakeRequest(q0)
  <2>1. /\ worker[q0] = "select" /\ worker' = [worker EXCEPT ![q0] = "begin"]
        /\ chan[q0] # << >>
        /\ current' = [current EXCEPT ![q0] = Head(chan[q0])]
        /\ chan' = [chan EXCEPT ![q0] = Tail(chan[q0])]
        /\ UNCHANGED <<latestSHA, running, cause>>
        /\ \A e \in Deliveries : fate'[e] = "skipped" => fate[e] = "skipped"
    BY <1>5 DEF TakeRequest
  <2>2. /\ Head(chan[q0]) = chan[q0][1] /\ 1 \in DOMAIN chan[q0]
        /\ \A i \in DOMAIN Tail(chan[q0]) :
             i + 1 \in DOMAIN chan[q0] /\ Tail(chan[q0])[i] = chan[q0][i + 1]
    BY <2>1
  <2>3. RequestsInPlace'
    <3> SUFFICES ASSUME NEW q \in Deliveries
                 PROVE  /\ \A i \in DOMAIN chan'[q] : Belongs(chan[q][i], q)'
                        /\ Busy(q)' => Belongs(current[q], q)'
      BY DEF RequestsInPlace
    <3>1. CASE q = q0
      BY <1>0, <2>1, <2>2, <3>1 DEF RequestsInPlace, Belongs
    <3>2. CASE q # q0
      BY <1>0, <2>1, <3>2 DEF RequestsInPlace, Belongs, Busy
    <3> QED BY <3>1, <3>2
  <2>4. RunningIsCurrent'
    BY <1>0, <1>4, <2>1 DEF RunningIsCurrent
  <2>5. LiveNotMovedPast' /\ CancelAllReachesChecks'
    BY <1>0, <2>1 DEF LiveNotMovedPast, CancelAllReachesChecks
  <2>6. LatestWasRecorded' /\ SkippedHasSuccessor'
    BY <1>0, <1>2, <2>1, RecordedStays
  <2> QED BY <1>1, <2>3, <2>4, <2>5, <2>6
<1>6. CASE Begin(q0)
  <2>0. worker[q0] = "begin" /\ Busy(q0) /\ UNCHANGED <<chan, latestSHA>>
    BY <1>6 DEF Begin, Busy
  <2>1. CASE MovedPast(q0, c)
    <3>1. /\ worker' = [worker EXCEPT ![q0] = "select"]
          /\ fate' = [fate EXCEPT ![c] = "skipped"]
          /\ UNCHANGED <<running, cause>>
      BY <1>6, <2>1 DEF Begin, c
    <3>2. RequestsInPlace'
      BY <1>0, <2>0, <3>1 DEF RequestsInPlace, Belongs, Busy
    <3>3. RunningIsCurrent'
      BY <1>0, <1>4, <2>0, <3>1 DEF RunningIsCurrent
    <3>4. LiveNotMovedPast' /\ CancelAllReachesChecks'
      BY <1>0, <2>0, <3>1 DEF LiveNotMovedPast, CancelAllReachesChecks
    <3>5. LatestWasRecorded'
      BY <1>0, <1>2, <2>0 DEF LatestWasRecorded
    <3>6. SkippedHasSuccessor'
      <4> SUFFICES ASSUME NEW d \in Deliveries, fate'[d] = "skipped"
                   PROVE  \E e \in Deliveries : /\ Recorded(e)'
                                                /\ handle'[e] = handle'[d]
                                                /\ req'[e].pr = req'[d].pr
                                                /\ req'[e].sha # req'[d].sha
        BY DEF SkippedHasSuccessor
      <4>1. CASE d = c
        <5> DEFINE p == req[c].pr
        <5>1. /\ latestSHA[q0][p] # None /\ latestSHA[q0][p] # req[c].sha
              /\ handle[c] = q0 /\ p \in PRs /\ req[c].pr = p
          BY <1>3, <2>0, <2>1 DEF MovedPast, Belongs
        <5> HIDE DEF p
        <5>2. PICK e \in Deliveries : /\ Recorded(e)
                                      /\ handle[e] = q0
                                      /\ req[e].pr = p
                                      /\ req[e].sha = latestSHA[q0][p]
          <6> HIDE DEF CoreTypes
          <6> QED BY <5>1, LatestRecorded
        <5>3. Recorded(e)' /\ handle' = handle /\ req' = req
          BY <1>0, <1>2, <5>2
        <5> QED BY <4>1, <5>1, <5>2, <5>3
      <4>2. CASE d # c
        <5>1. fate[d] = "skipped"
          BY <3>1, <4>2
        <5> QED BY <1>0, <1>2, <5>1 DEF SkippedHasSuccessor
      <4> QED BY <4>1, <4>2
    <3> QED BY <1>1, <3>2, <3>3, <3>4, <3>5, <3>6
  <2>2. CASE ~MovedPast(q0, c)
    <3>1. /\ worker' = [worker EXCEPT ![q0] = "run"]
          /\ running' = [running EXCEPT ![q0][req[c].pr] = c]
          /\ cause' = [cause EXCEPT ![c] = NewContext]
          /\ UNCHANGED <<fate, current>>
      BY <1>6, <2>2 DEF Begin, c
    <3>2. RequestsInPlace'
      BY <1>0, <2>0, <3>1 DEF RequestsInPlace, Belongs, Busy
    <3>3. RunningIsCurrent'
      <4> SUFFICES ASSUME NEW q \in Deliveries, NEW d \in Deliveries, NEW p \in PRs
                   PROVE  running'[q][p] = d <=> /\ worker'[q] \in {"run", "end"}
                                                 /\ current'[q] = d
                                                 /\ req'[d].pr = p
        BY DEF RunningIsCurrent
      <4>1. CASE q = q0
        <5>1. running'[q0][p] = (IF p = req[c].pr THEN c ELSE running[q0][p])
          BY <1>3, <2>0, <3>1
        <5> QED BY <1>0, <1>3, <1>4, <2>0, <3>1, <4>1, <5>1 DEF c
      <4>2. CASE q # q0
        BY <1>0, <3>1, <4>2 DEF RunningIsCurrent
      <4> QED BY <4>1, <4>2
    <3>4. \A q \in Deliveries : worker'[q] = "run" =>
            (q = q0 /\ current'[q] = c) \/ (worker[q] = "run" /\ cause'[current[q]] = cause[current[q]])
      BY <1>0, <1>3, <2>0, <3>1 DEF Busy, c
    <3>5. LiveNotMovedPast'
      BY <1>0, <2>0, <2>2, <3>1, <3>4 DEF LiveNotMovedPast, MovedPast
    <3>6. CancelAllReachesChecks'
      BY <1>0, <1>3, <2>0, <3>1, <3>4 DEF CancelAllReachesChecks, NewContext
    <3>7. LatestWasRecorded' /\ SkippedHasSuccessor'
      BY <1>0, <1>2, <2>0, <3>1, RecordedStays
    <3> QED BY <1>1, <3>2, <3>3, <3>5, <3>6, <3>7
  <2> QED BY <2>1, <2>2
<1>7. CASE FinishCheck(q0)
  <2>1. /\ worker[q0] = "run" /\ worker' = [worker EXCEPT ![q0] = "end"]
        /\ UNCHANGED <<chan, latestSHA, running, current, cause>>
        /\ \A e \in Deliveries : fate'[e] = "skipped" => fate[e] = "skipped"
    BY <1>3, <1>7 DEF FinishCheck, Busy, c
  <2>2. RequestsInPlace'
    BY <1>0, <2>1 DEF RequestsInPlace, Belongs, Busy
  <2>3. RunningIsCurrent' /\ LiveNotMovedPast' /\ CancelAllReachesChecks'
    BY <1>0, <2>1 DEF RunningIsCurrent, LiveNotMovedPast, CancelAllReachesChecks
  <2>4. LatestWasRecorded' /\ SkippedHasSuccessor'
    BY <1>0, <1>2, <2>1, RecordedStays
  <2> QED BY <1>1, <2>2, <2>3, <2>4
<1>8. CASE End(q0)
  <2>0. worker[q0] = "end" /\ Busy(q0) /\ c \in Deliveries /\ req[c].pr \in PRs
    BY <1>3, <1>8 DEF End, Busy
  <2>1. /\ worker' = [worker EXCEPT ![q0] = "select"]
        /\ running' = [running EXCEPT ![q0][req[c].pr] = None]
        /\ latestSHA' = IF latestSHA[q0][req[c].pr] = req[c].sha
                        THEN [latestSHA EXCEPT ![q0][req[c].pr] = None] ELSE latestSHA
        /\ UNCHANGED <<chan, fate>>
    BY <1>4, <1>8, <2>0 DEF End, Unregister, c
  <2>2. \A e \in Deliveries : cause'[e] = cause[e] \/ cause'[e] = "canceled"
    BY <1>8 DEF End, Cancel
  <2>3. RequestsInPlace'
    BY <1>0, <2>1 DEF RequestsInPlace, Belongs, Busy
  <2>4. RunningIsCurrent'
    <3> SUFFICES ASSUME NEW q \in Deliveries, NEW d \in Deliveries, NEW p \in PRs
                 PROVE  running'[q][p] = d <=> /\ worker'[q] \in {"run", "end"}
                                               /\ current'[q] = d
                                               /\ req'[d].pr = p
      BY DEF RunningIsCurrent
    <3>1. CASE q = q0
      <4>1. running'[q0][p] = None
        BY <1>4, <2>0, <2>1
      <4> QED BY <2>1, <3>1, <4>1
    <3>2. CASE q # q0
      BY <1>0, <2>1, <3>2 DEF RunningIsCurrent
    <3> QED BY <3>1, <3>2
  <2>5. \A q \in Deliveries, p \in PRs :
          latestSHA'[q][p] = latestSHA[q][p] \/ latestSHA'[q][p] = None
    BY <2>0, <2>1
  <2>6. \A q \in Deliveries : worker'[q] = "run" =>
          /\ worker[q] = "run" /\ current'[q] = current[q] /\ current[q] \in Deliveries
          /\ cause'[current[q]] = "live" => cause[current[q]] = "live"
    BY <1>0, <2>1, <2>2 DEF RequestsInPlace, Belongs, Busy
  <2>7. LiveNotMovedPast'
    BY <1>0, <2>5, <2>6 DEF LiveNotMovedPast
  <2>8. CancelAllReachesChecks'
    BY <1>0, <2>6 DEF CancelAllReachesChecks
  <2>9. LatestWasRecorded'
    BY <1>0, <1>2, <2>5 DEF LatestWasRecorded
  <2>10. SkippedHasSuccessor'
    <3>1. UNCHANGED <<fate, handle, req>>
      BY <1>0, <2>1
    <3> HIDE DEF CoreTypes
    <3> QED BY <1>2, <3>1 DEF SkippedHasSuccessor
  <2> QED BY <1>1, <2>3, <2>4, <2>7, <2>8, <2>9, <2>10
<1>9. CASE DrainOne(q0)
  <2>1. /\ worker[q0] = "drain" /\ chan[q0] # << >>
        /\ chan' = [chan EXCEPT ![q0] = Tail(chan[q0])]
        /\ UNCHANGED <<worker, latestSHA, running, current, cause>>
        /\ \A e \in Deliveries : fate'[e] = "skipped" => fate[e] = "skipped"
    BY <1>9 DEF DrainOne
  <2>2. \A i \in DOMAIN Tail(chan[q0]) :
          i + 1 \in DOMAIN chan[q0] /\ Tail(chan[q0])[i] = chan[q0][i + 1]
    BY <2>1
  <2>3. RequestsInPlace'
    BY <1>0, <2>1, <2>2 DEF RequestsInPlace, Belongs, Busy
  <2>4. RunningIsCurrent' /\ LiveNotMovedPast' /\ CancelAllReachesChecks'
    BY <1>0, <2>1 DEF RunningIsCurrent, LiveNotMovedPast, CancelAllReachesChecks
  <2>5. LatestWasRecorded' /\ SkippedHasSuccessor'
    BY <1>0, <1>2, <2>1, RecordedStays
  <2> QED BY <1>1, <2>3, <2>4, <2>5
<1>10. CASE SeeDone(q0) \/ DrainedAll(q0) \/ (\E p \in PRs : NotifyOne(q0, p)) \/ NotifiedAll(q0)
  <2>1. /\ worker[q0] \notin {"begin", "run", "end"} /\ worker'[q0] \notin {"begin", "run", "end"}
        /\ UNCHANGED <<chan, latestSHA, running, current, cause, fate>>
    BY <1>10 DEF SeeDone, DrainedAll, NotifyOne, NotifiedAll
  <2>2. RequestsInPlace'
    BY <1>0, <2>1 DEF RequestsInPlace, Belongs, Busy
  <2>3. RunningIsCurrent'
    BY <1>0, <1>4, <2>1 DEF RunningIsCurrent
  <2>4. LiveNotMovedPast' /\ CancelAllReachesChecks'
    BY <1>0, <2>1 DEF LiveNotMovedPast, CancelAllReachesChecks
  <2>5. LatestWasRecorded' /\ SkippedHasSuccessor'
    BY <1>0, <1>2, <2>1, RecordedStays
  <2> QED BY <1>1, <2>2, <2>3, <2>4, <2>5
<1>11. CASE TimeoutCheck(q0)
  <2>1. /\ UNCHANGED <<chan, worker, latestSHA, running, current, fate>>
        /\ \A e \in Deliveries : cause'[e] = cause[e] \/ cause'[e] = "deadline"
    BY <1>11 DEF TimeoutCheck, Cancel
  <2>2. RequestsInPlace' /\ RunningIsCurrent'
    BY <1>0, <2>1 DEF RequestsInPlace, Belongs, Busy, RunningIsCurrent
  <2>3. \A q \in Deliveries : worker[q] = "run" => current[q] \in Deliveries
    BY DEF RequestsInPlace, Belongs, Busy
  <2>4. LiveNotMovedPast' /\ CancelAllReachesChecks'
    BY <1>0, <2>1, <2>3 DEF LiveNotMovedPast, CancelAllReachesChecks
  <2>5. LatestWasRecorded' /\ SkippedHasSuccessor'
    BY <1>0, <1>2, <2>1, RecordedStays
  <2> QED BY <1>1, <2>2, <2>4, <2>5
<1> QED BY <1>5, <1>6, <1>7, <1>8, <1>9, <1>10, <1>11 DEF Worker

(* The shutdown: only cancelAll touches what the invariant speaks of. *)
LEMMA ShutdownQueueInv ==
  ASSUME CoreTypes, QueueInv, StartHTTP \/ Signal \/ Deadline \/ Shutdown \/ Exited \/ UNCHANGED vars
  PROVE  QueueInv'
<1> USE NoneAssumption DEF CoreTypes, QueueInv
<1>1. /\ UNCHANGED <<pc, req, handle, queues, chan, latestSHA, running, worker, current, fate>>
      /\ \/ UNCHANGED <<rootCancelled, cause>>
         \/ /\ \A e \in Deliveries : cause'[e] # "live"
            /\ \A e \in Deliveries : cause'[e] = cause[e] \/ cause'[e] = "canceled"
  BY DEF hookVars, queueVars, shutdownVars, vars, Shutdown, StartHTTP, Signal, Deadline, StopHTTP,
         HTTPStopped, Snapshot, CloseDone, ClosedAll, AllDone, CancelAll, GraceOver, Exit, Exited
<1>2. QueueObjects' /\ HandlesFit' /\ RequestsInPlace' /\ RunningIsCurrent'
  BY <1>1 DEF QueueObjects, HandlesFit, RequestsInPlace, Belongs, Busy, RunningIsCurrent
<1>3. \A q \in Deliveries : worker[q] = "run" => current[q] \in Deliveries
  BY DEF RequestsInPlace, Belongs, Busy
<1>4. LiveNotMovedPast' /\ CancelAllReachesChecks'
  BY <1>1, <1>3 DEF LiveNotMovedPast, CancelAllReachesChecks
<1>5. LatestWasRecorded' /\ SkippedHasSuccessor'
  BY <1>1, RecordedStays DEF Recorded
<1> QED BY <1>2, <1>4, <1>5

(* One step of the whole system. *)
LEMMA NextInv == TypeOK /\ QueueInv /\ [Next]_vars => TypeOK' /\ QueueInv'
<1> SUFFICES ASSUME TypeOK, QueueInv, [Next]_vars PROVE TypeOK' /\ QueueInv'
  OBVIOUS
<1>1. CoreTypes
  BY TypeOKCore
<1>2. ASSUME NEW d \in Deliveries, ReceiveHook(d) \/ Handler(d) PROVE TypeOK' /\ QueueInv'
  <2>1. pc[d] \in {"supersede", "send"} => handle[d] # None
    BY DEF QueueInv, HandlesFit
  <2>2. TypeOK'
    BY <1>2, <2>1, HandlerTypeOK
  <2>3. QueueInv'
    BY <1>1, <1>2, HookQueueInv, EnqueueQueueInv DEF Handler
  <2> QED BY <2>2, <2>3
<1>3. ASSUME NEW q \in Deliveries, Worker(q) \/ TimeoutCheck(q) PROVE TypeOK' /\ QueueInv'
  <2>1. Busy(q) => current[q] \in Deliveries
    BY <1>1 DEF QueueInv, RequestsInPlace, Belongs, CoreTypes
  <2>2. TypeOK'
    BY <1>3, <2>1, WorkerTypeOK
  <2>3. QueueInv'
    BY <1>1, <1>3, WorkerQueueInv
  <2> QED BY <2>2, <2>3
<1>4. ASSUME StartHTTP \/ Signal \/ Deadline \/ Shutdown \/ Exited \/ UNCHANGED vars
      PROVE  TypeOK' /\ QueueInv'
  BY <1>1, <1>4, ShutdownTypeOK, ShutdownQueueInv
<1> QED BY <1>2, <1>3, <1>4 DEF Next

-----------------------------------------------------------------------------
(* The state of the queues is always well-typed, and no queue ever holds   *)
(* more than QueueSize requests: Enqueue's non-blocking send never         *)
(* overfills a channel.                                                    *)
THEOREM TypeCorrect == Spec => []TypeOK
<1>1. Init => TypeOK /\ QueueInv
  BY InitTypeOK, InitQueueInv
<1> QED BY <1>1, NextInv, PTL DEF Spec

(* The inductive invariant of the queues holds in every reachable state,   *)
(* whatever Enqueue, the workers and Shutdown interleave.                  *)
THEOREM QueueCorrect == Spec => []QueueInv
<1>1. Init => TypeOK /\ QueueInv
  BY InitTypeOK, InitQueueInv
<1> QED BY <1>1, NextInv, PTL DEF Spec

(* Checks of one repository never overlap: the worker that holds a request *)
(* is the one the repository is mapped to, and Enqueue's double-checked    *)
(* locking maps a repository once.                                         *)
THEOREM RepoExclusion == Spec => []OneCheckPerRepo
<1>1. TypeOK /\ QueueInv => OneCheckPerRepo
  <2> SUFFICES ASSUME TypeOK, QueueInv, NEW q1 \in Deliveries, NEW q2 \in Deliveries,
                      Busy(q1), Busy(q2),
                      req[current[q1]].repo = req[current[q2]].repo
               PROVE  q1 = q2
    BY DEF OneCheckPerRepo
  <2>1. CoreTypes
    BY TypeOKCore
  <2>2. ASSUME NEW q \in Deliveries, Busy(q)
        PROVE  queues[req[current[q]].repo] = q
    <3>1. current[q] \in Deliveries /\ handle[current[q]] = q
      BY <2>1, <2>2 DEF QueueInv, RequestsInPlace, Belongs, CoreTypes
    <3>2. req[q].repo = req[current[q]].repo
      BY <3>1, NoneAssumption DEF QueueInv, HandlesFit
    <3>3. worker[q] # "none"
      BY <2>2 DEF Busy
    <3> QED BY <3>2, <3>3 DEF QueueInv, QueueObjects
  <2> QED BY <2>2
<1> QED BY <1>1, TypeCorrect, QueueCorrect, PTL

(* latestSHA and the history agree: supersede records, and end forgets the *)
(* commit it ends the check of.                                            *)
LEMMA LatestIsRecordedStep ==
  ASSUME TypeOK, QueueInv, LatestIsRecorded, [Next]_vars
  PROVE  LatestIsRecorded'
<1> USE DEF hookVars, queueVars, dropVars, shutdownVars
<1>1. CoreTypes
  BY TypeOKCore
<1>2. /\ latestSHA \in [Deliveries -> [PRs -> Commits \cup {None}]]
      /\ recorded \in [Deliveries -> [PRs -> Commits \cup {None}]]
      /\ answered \in [Deliveries -> [PRs -> BOOLEAN]]
  BY DEF TypeOK
<1>3. ASSUME NEW d \in Deliveries, Supersede(d)
      PROVE  LatestIsRecorded'
  <2>1. handle[d] \in Deliveries /\ req[d].pr \in PRs
    BY <1>1, <1>3 DEF CoreTypes, QueueInv, HandlesFit, Supersede
  <2> QED BY <1>2, <1>3, <2>1 DEF Supersede, LatestIsRecorded
<1>4. ASSUME NEW q \in Deliveries, End(q)
      PROVE  LatestIsRecorded'
  <2> DEFINE p == req[current[q]].pr
             c == req[current[q]].sha
  <2>1. p \in PRs /\ c \in Commits
    BY <1>1, <1>4 DEF CoreTypes, QueueInv, RequestsInPlace, Belongs, Busy, End
  <2>2. /\ latestSHA' = IF latestSHA[q][p] = c THEN [latestSHA EXCEPT ![q][p] = None]
                       ELSE latestSHA
        /\ answered' = IF recorded[q][p] = c THEN [answered EXCEPT ![q][p] = TRUE]
                       ELSE answered
        /\ recorded' = recorded
    BY <1>4 DEF End
  <2> HIDE DEF p, c
  <2>3. latestSHA[q][p] = IF answered[q][p] THEN None ELSE recorded[q][p]
    BY <2>1 DEF LatestIsRecorded
  <2>4. c # None
    BY <2>1, NoneAssumption
  <2>5. ASSUME NEW x \in Deliveries, NEW y \in PRs
        PROVE  latestSHA'[x][y] = IF answered'[x][y] THEN None ELSE recorded'[x][y]
    <3>1. CASE x = q /\ y = p
      BY <1>2, <2>1, <2>2, <2>3, <2>4, <3>1
    <3>2. CASE ~(x = q /\ y = p)
      <4>1. latestSHA'[x][y] = latestSHA[x][y] /\ answered'[x][y] = answered[x][y]
        BY <1>2, <2>1, <2>2, <3>2
      <4> QED BY <2>2, <4>1 DEF LatestIsRecorded
    <3> QED BY <3>1, <3>2
  <2> QED BY <2>5 DEF LatestIsRecorded
<1>5. ASSUME UNCHANGED <<latestSHA, recorded, answered>>
      PROVE  LatestIsRecorded'
  BY <1>5 DEF LatestIsRecorded
<1>6. ASSUME NEW d \in Deliveries, ReceiveHook(d) \/ Handler(d), ~Supersede(d)
      PROVE  UNCHANGED <<latestSHA, recorded, answered>>
  BY <1>6 DEF Handler, ReceiveHook, CanonicalizeFails, Lookup, Create, Send, PostQueueFull
<1>7. ASSUME NEW q \in Deliveries, Worker(q) \/ TimeoutCheck(q), ~End(q)
      PROVE  UNCHANGED <<latestSHA, recorded, answered>>
  BY <1>7 DEF Worker, TimeoutCheck, TakeRequest, Begin, FinishCheck, SeeDone, DrainOne,
              DrainedAll, NotifyOne, NotifiedAll
<1>8. ASSUME StartHTTP \/ Signal \/ Deadline \/ Shutdown \/ Exited \/ UNCHANGED vars
      PROVE  UNCHANGED <<latestSHA, recorded, answered>>
  BY <1>8 DEF vars, Shutdown, StartHTTP, Signal, Deadline, StopHTTP, HTTPStopped, Snapshot,
              CloseDone, ClosedAll, AllDone, CancelAll, GraceOver, Exit, Exited
<1> QED BY <1>3, <1>4, <1>5, <1>6, <1>7, <1>8 DEF Next

LEMMA HandlersRecordStep ==
  ASSUME TypeOK, QueueInv, HandlersRecord, [Next]_vars
  PROVE  HandlersRecord'
<1> USE NoneAssumption DEF hookVars, queueVars, dropVars, shutdownVars, Goto
<1>1. CoreTypes /\ recorded \in [Deliveries -> [PRs -> Commits \cup {None}]]
  BY TypeOKCore DEF TypeOK
<1>2. ASSUME NEW d \in Deliveries, Supersede(d)
      PROVE  HandlersRecord'
  <2>1. handle[d] \in Deliveries /\ req[d].pr \in PRs /\ req[d].sha \in Commits
    BY <1>1, <1>2 DEF CoreTypes, QueueInv, HandlesFit, Supersede
  <2>2. /\ recorded' = [recorded EXCEPT ![handle[d]][req[d].pr] = req[d].sha]
        /\ pc' = [pc EXCEPT ![d] = "send"] /\ req' = req /\ handle' = handle
    BY <1>2 DEF Supersede
  <2>3. \A x \in Deliveries, y \in PRs :
          recorded'[x][y] = IF x = handle[d] /\ y = req[d].pr THEN req[d].sha ELSE recorded[x][y]
    BY <1>1, <2>1, <2>2
  <2>4. ASSUME NEW e \in Deliveries, Recorded(e)'
        PROVE  recorded'[handle[e]][req[e].pr] # None
    <3>1. handle[e] \in Deliveries /\ req[e].pr \in PRs
      BY <1>1, <2>2, <2>4 DEF CoreTypes, Recorded
    <3>2. e = d \/ Recorded(e)
      BY <1>1, <2>2, <2>4 DEF CoreTypes, Recorded
    <3> QED BY <2>1, <2>3, <3>1, <3>2 DEF HandlersRecord
  <2>5. \A e \in Deliveries : pc'[e] \in {"idle", "lookup", "create"} => handle[e] = None
    BY <1>1, <2>2 DEF CoreTypes, HandlersRecord
  <2> QED BY <2>2, <2>4, <2>5 DEF HandlersRecord
<1>3. ASSUME recorded' = recorded,
             \A e \in Deliveries :
               /\ pc'[e] \in {"idle", "lookup", "create"} => handle'[e] = None
               /\ Recorded(e)' => Recorded(e) /\ handle'[e] = handle[e] /\ req'[e] = req[e]
      PROVE  HandlersRecord'
  BY <1>3 DEF HandlersRecord
<1>4. ASSUME NEW d \in Deliveries, ReceiveHook(d) \/ Handler(d), ~Supersede(d)
      PROVE  HandlersRecord'
  <2>1. recorded' = recorded
    BY <1>4 DEF Handler, ReceiveHook, CanonicalizeFails, Lookup, Create, Send, PostQueueFull
  <2>2. ASSUME NEW e \in Deliveries
        PROVE  /\ pc'[e] \in {"idle", "lookup", "create"} => handle'[e] = None
               /\ Recorded(e)' => Recorded(e) /\ handle'[e] = handle[e] /\ req'[e] = req[e]
    <3>1. CASE e # d
      <4>1. pc'[e] = pc[e] /\ handle'[e] = handle[e] /\ req'[e] = req[e]
        BY <1>1, <1>4, <3>1 DEF CoreTypes, Handler, ReceiveHook, CanonicalizeFails, Lookup,
                                Create, Send, PostQueueFull
      <4> QED BY <4>1 DEF HandlersRecord, Recorded
    <3>2. CASE e = d
      BY <1>1, <1>4, <3>2 DEF CoreTypes, Handler, ReceiveHook, CanonicalizeFails, Lookup,
                              Create, Send, PostQueueFull, HandlersRecord, Recorded
    <3> QED BY <3>1, <3>2
  <2> QED BY <1>3, <2>1, <2>2
<1>5. ASSUME NEW q \in Deliveries, Worker(q) \/ TimeoutCheck(q)
      PROVE  HandlersRecord'
  <2>1. UNCHANGED <<pc, req, handle, recorded>>
    BY <1>5 DEF Worker, TimeoutCheck, TakeRequest, Begin, FinishCheck, End, SeeDone, DrainOne,
                DrainedAll, NotifyOne, NotifiedAll
  <2> QED BY <1>3, <2>1 DEF HandlersRecord, Recorded
<1>6. ASSUME StartHTTP \/ Signal \/ Deadline \/ Shutdown \/ Exited \/ UNCHANGED vars
      PROVE  HandlersRecord'
  <2>1. UNCHANGED <<pc, req, handle, recorded>>
    BY <1>6 DEF vars, Shutdown, StartHTTP, Signal, Deadline, StopHTTP, HTTPStopped, Snapshot,
                CloseDone, ClosedAll, AllDone, CancelAll, GraceOver, Exit, Exited
  <2> QED BY <1>3, <2>1 DEF HandlersRecord, Recorded
<1> QED BY <1>2, <1>4, <1>5, <1>6 DEF Next

LEMMA LatestCorrect == Spec => [](LatestIsRecorded /\ HandlersRecord)
<1>1. Init => LatestIsRecorded /\ HandlersRecord
  BY DEF Init, LatestIsRecorded, HandlersRecord, Recorded
<1> QED BY <1>1, LatestIsRecordedStep, HandlersRecordStep, TypeCorrect, QueueCorrect, PTL DEF Spec

(* supersede, begin and end never leave a live check of another commit     *)
(* than the one recorded last, unless a check of that one has ended since. *)
THEOREM LiveChecksAreLatest == Spec => []LiveCheckIsLatest
<1>1. TypeOK /\ QueueInv /\ LatestIsRecorded /\ HandlersRecord => LiveCheckIsLatest
  <2> SUFFICES ASSUME TypeOK, QueueInv, LatestIsRecorded, HandlersRecord, NEW q \in Deliveries,
                      worker[q] = "run", cause[current[q]] = "live"
               PROVE  \/ recorded[q][req[current[q]].pr] = req[current[q]].sha
                      \/ answered[q][req[current[q]].pr]
    BY DEF LiveCheckIsLatest
  <2> DEFINE p == req[current[q]].pr
             c == req[current[q]].sha
  <2>1. CASE latestSHA[q][p] = c
    <3>1. p \in PRs
      BY TypeOKCore DEF CoreTypes, QueueInv, RequestsInPlace, Belongs, Busy
    <3>2. latestSHA[q][p] = IF answered[q][p] THEN None ELSE recorded[q][p]
      BY <3>1 DEF LatestIsRecorded
    <3> QED BY <2>1, <3>2
  <2>2. CASE latestSHA[q][p] = None
    <3>1. current[q] \in Deliveries /\ p \in PRs
      BY TypeOKCore DEF CoreTypes, QueueInv, RequestsInPlace, Belongs, Busy
    <3>2. latestSHA[q][p] = IF answered[q][p] THEN None ELSE recorded[q][p]
      BY <3>1 DEF LatestIsRecorded
    <3>3. recorded[q][p] # None
      <4>1. pc[current[q]] = "accepted" /\ handle[current[q]] = q
        BY DEF QueueInv, RequestsInPlace, Belongs, Busy
      <4>2. Recorded(current[q])
        BY <4>1, NoneAssumption DEF Recorded
      <4> QED BY <3>1, <4>1, <4>2 DEF HandlersRecord
    <3> QED BY <2>2, <3>2, <3>3
  <2> QED BY <2>1, <2>2 DEF QueueInv, LiveNotMovedPast
<1> QED BY <1>1, TypeCorrect, QueueCorrect, LatestCorrect, PTL

(* A request is only ever skipped in favour of another commit of its pull  *)
(* request that a handler recorded in the same queue.                      *)
THEOREM SkipsHaveSuccessors == Spec => []SkippedHasSuccessor
BY QueueCorrect, PTL DEF QueueInv

(* After cancelAll no check runs under a live context, one that begins     *)
(* later included.                                                         *)
THEOREM CancelAllIsComplete == Spec => []CancelAllReachesChecks
BY QueueCorrect, PTL DEF QueueInv

-----------------------------------------------------------------------------
(***************************************************************************)
(* The shutdown.  Its inductive invariant has three parts.                 *)
(***************************************************************************)

(* An accepted request waits in its queue, is in the hands of the queue's  *)
(* worker, or is settled.                                                  *)
Placed(d) ==
  /\ fate[d] = "queued" => \E i \in DOMAIN chan[handle[d]] : chan[handle[d]][i] = d
  /\ fate[d] = "held" => worker[handle[d]] \in {"begin", "run"} /\ current[handle[d]] = d
FateInv == \A d \in Deliveries : (fate[d] # "none" <=> pc[d] = "accepted") /\ Placed(d)

(* prMap has what is still to be notified and notices what was: one of     *)
(* them, never both, for the pull request of every dropped request.        *)
Noted(q, p) ==
  /\ worker[q] \notin {"drain", "notify", "exited"} => prMap[q][p] = None
  /\ worker[q] \notin {"notify", "exited"} => notices[q][p] = 0
  /\ prMap[q][p] # None => notices[q][p] = 0
  /\ worker[q] = "exited" /\ ~gaveUp[q] => prMap[q][p] = None
Told(d) ==
  fate[d] = "dropped" => \/ prMap[handle[d]][req[d].pr] # None
                         \/ notices[handle[d]][req[d].pr] = 1
NoticeInv ==
  /\ \A q \in Deliveries, p \in PRs : Noted(q, p)
  /\ \A d \in Deliveries : Told(d)

Closing == {"close", "wait", "grace", "returned", "exited"}

(* When echo.Shutdown had no error no handler is left, so that Shutdown    *)
(* waits for every queue there is and a drained channel stays empty.       *)
ClosingInv ==
  /\ sd \in {"up", "pending"} => http \in {"starting", "serving"}
  /\ \A q \in Deliveries : doneClosed[q] => sd \in Closing
  /\ \A q \in Deliveries : worker[q] \in {"drain", "notify", "exited"} => doneClosed[q]
  /\ sd \in Closing \cup {"snapshot"} /\ http = "stopped" => Active = {}
  /\ sd \in Closing /\ http = "stopped" => \A r \in Repos : queues[r] \in awaited \cup {None}
  /\ sd = "grace" => sdErr
  /\ sd \in {"returned", "exited"} /\ http = "stopped" /\ ~sdErr => WorkersGone
  /\ http = "stopped" => \A q \in Deliveries : worker[q] \in {"notify", "exited"} => chan[q] = << >>

ShutdownInv == FateInv /\ NoticeInv /\ ClosingInv

LEMMA InitShutdownInv == Init => ShutdownInv
<1> SUFFICES ASSUME Init PROVE ShutdownInv
  OBVIOUS
<1>1. FateInv
  BY DEF Init, FateInv, Placed
<1>2. NoticeInv
  BY DEF Init, NoticeInv, Noted, Told
<1>3. ClosingInv
  BY DEF Init, ClosingInv, Closing, Active
<1> QED BY <1>1, <1>2, <1>3 DEF ShutdownInv

(* What a webhook handler leaves alone keeps the three parts. *)
LEMMA HandlerShutdownInv ==
  ASSUME TypeOK, QueueInv, ShutdownInv, NEW d \in Deliveries, ReceiveHook(d) \/ Handler(d)
  PROVE  ShutdownInv'
<1> USE NoneAssumption DEF hookVars, queueVars, dropVars, shutdownVars, Goto, Step
<1>1. CoreTypes
  BY TypeOKCore
<1>2. fate[d] = "none"
  <2>1. pc[d] # "accepted"
    BY DEF ReceiveHook, Handler, CanonicalizeFails, Lookup, Create, Supersede, Send, PostQueueFull
  <2> QED BY <2>1 DEF ShutdownInv, FateInv, Placed
<1>3. UNCHANGED <<prMap, notices, gaveUp, doneClosed, rootCancelled, sd, deadline, http,
                  toClose, awaited, sdErr, current>>
  BY DEF ReceiveHook, Handler, CanonicalizeFails, Lookup, Create, Supersede, Send, PostQueueFull
<1>4. pc[d] \in {"supersede", "send"} => handle[d] \in Deliveries
  BY <1>1 DEF CoreTypes, QueueInv, HandlesFit
(* Nothing changes for another delivery. *)
<1>5. \A e \in Deliveries : e # d =>
        pc'[e] = pc[e] /\ req'[e] = req[e] /\ handle'[e] = handle[e] /\ fate'[e] = fate[e] /\ worker'[e] = worker[e]
  BY <1>1, <1>2 DEF CoreTypes, ReceiveHook, Handler, CanonicalizeFails, Lookup, Create,
                    Supersede, Send, PostQueueFull
<1>6. worker'[d] = worker[d] \/ (pc[d] = "create" /\ worker[d] = "none" /\ worker'[d] = "select")
  BY <1>1 DEF CoreTypes, QueueInv, QueueObjects, ReceiveHook, Handler, CanonicalizeFails, Lookup, Create,
                    Supersede, Send, PostQueueFull
<1>7. \/ /\ chan' = chan /\ fate' = fate /\ pc'[d] # "accepted"
      \/ /\ pc[d] = "send" /\ chan' = [chan EXCEPT ![handle[d]] = Append(@, d)]
         /\ fate' = [fate EXCEPT ![d] = "queued"] /\ pc'[d] = "accepted"
         /\ handle' = handle /\ req' = req /\ worker' = worker
  BY <1>1 DEF CoreTypes, ReceiveHook, Handler, CanonicalizeFails, Lookup, Create,
              Supersede, Send, PostQueueFull
<1>8. FateInv'
  <2>1. \A e \in Deliveries : fate'[e] # "none" <=> pc'[e] = "accepted"
    BY <1>1, <1>2, <1>5, <1>7 DEF CoreTypes, ShutdownInv, FateInv, Placed
  <2>2. ASSUME NEW e \in Deliveries, fate'[e] = "queued"
        PROVE  \E i \in DOMAIN chan'[handle'[e]] : chan'[handle'[e]][i] = e
    <3>1. CASE e = d
      <4>1. chan' = [chan EXCEPT ![handle[d]] = Append(@, d)] /\ handle' = handle /\ pc[d] = "send"
        BY <1>2, <1>7, <2>2, <3>1
      <4>2. handle[d] \in Deliveries /\ chan[handle[d]] \in Seq(Deliveries)
        BY <1>1, <1>4, <4>1 DEF CoreTypes
      <4>3. chan'[handle[d]] = Append(chan[handle[d]], d)
        BY <1>1, <4>1, <4>2 DEF CoreTypes
      <4>4. Len(chan[handle[d]]) + 1 \in DOMAIN Append(chan[handle[d]], d)
            /\ Append(chan[handle[d]], d)[Len(chan[handle[d]]) + 1] = d
        BY <4>2
      <4> QED BY <3>1, <4>1, <4>3, <4>4
    <3>2. CASE e # d
      <4>1. fate[e] = "queued" /\ handle'[e] = handle[e] /\ handle[e] \in Deliveries
        <5>1. fate[e] = "queued" /\ handle'[e] = handle[e]
          BY <1>5, <2>2, <3>2
        <5>2. pc[e] = "accepted"
          BY <5>1 DEF ShutdownInv, FateInv
        <5> QED BY <1>1, <5>1, <5>2 DEF CoreTypes, QueueInv, HandlesFit
      <4>2. PICK i \in DOMAIN chan[handle[e]] : chan[handle[e]][i] = e
        <5>1. Placed(e)
          BY DEF ShutdownInv, FateInv
        <5> QED BY <4>1, <5>1 DEF Placed
      <4>3. chan[handle[e]] \in Seq(Deliveries)
        BY <1>1, <4>1 DEF CoreTypes
      <4>4. chan'[handle[e]] = chan[handle[e]] \/ chan'[handle[e]] = Append(chan[handle[e]], d)
        <5>1. chan' = chan \/ chan' = [chan EXCEPT ![handle[d]] = Append(@, d)]
          BY <1>7
        <5> QED BY <1>1, <4>1, <5>1 DEF CoreTypes
      <4>5. i \in DOMAIN Append(chan[handle[e]], d) /\ Append(chan[handle[e]], d)[i] = e
        BY <4>2, <4>3
      <4> QED BY <4>1, <4>2, <4>4, <4>5
    <3> QED BY <3>1, <3>2
  <2>3. ASSUME NEW e \in Deliveries, fate'[e] = "held"
        PROVE  worker'[handle'[e]] \in {"begin", "run"} /\ current'[handle'[e]] = e
    <3>1. e # d /\ fate[e] = "held"
      BY <1>1, <1>2, <1>5, <1>7, <2>3 DEF CoreTypes
    <3>2. worker[handle[e]] \in {"begin", "run"} /\ current[handle[e]] = e /\ handle[e] \in Deliveries
      BY <1>1, <3>1 DEF ShutdownInv, FateInv, Placed, CoreTypes, QueueInv, HandlesFit
    <3>3. worker'[handle[e]] = worker[handle[e]]
      BY <1>5, <1>6, <3>2
    <3> QED BY <1>3, <1>5, <3>1, <3>2, <3>3
  <2> QED BY <2>1, <2>2, <2>3 DEF FateInv, Placed
<1>9. NoticeInv'
  <2>1. \A q \in Deliveries : worker'[q] = worker[q] \/ (worker[q] = "none" /\ worker'[q] = "select")
    BY <1>5, <1>6
  <2>2. \A e \in Deliveries : fate'[e] = "dropped" =>
          fate[e] = "dropped" /\ handle'[e] = handle[e] /\ req'[e] = req[e]
    BY <1>1, <1>2, <1>5, <1>7 DEF CoreTypes
  <2> QED BY <1>3, <2>1, <2>2 DEF ShutdownInv, NoticeInv, Noted, Told
<1>10. ClosingInv'
  <2>1. \A q \in Deliveries : worker'[q] \in {"drain", "notify", "exited"} => worker'[q] = worker[q]
    BY <1>5, <1>6
  <2>2. pc[d] # "idle" => d \in Active
    BY <1>2 DEF Active, Answered, ReceiveHook, Handler, CanonicalizeFails, Lookup, Create,
                Supersede, Send, PostQueueFull
  <2>3. pc[d] = "idle" => http = "serving"
    BY DEF ReceiveHook, Handler, CanonicalizeFails, Lookup, Create, Supersede, Send, PostQueueFull
  <2>4. ~(sd \in Closing \cup {"snapshot"} /\ http = "stopped")
    BY <2>2, <2>3 DEF ShutdownInv, ClosingInv, Closing
  <2>5. \A q \in Deliveries : worker[q] \in {"notify", "exited"} => sd \in Closing
    BY DEF ShutdownInv, ClosingInv
  <2> QED BY <1>3, <2>1, <2>4, <2>5 DEF ShutdownInv, ClosingInv, Closing
<1> QED BY <1>8, <1>9, <1>10 DEF ShutdownInv

(* What is in a sequence and not its head is in its tail. *)
LEMMA StaysInTail ==
  ASSUME NEW s \in Seq(Deliveries), s # << >>, NEW e, e # Head(s), \E i \in DOMAIN s : s[i] = e
  PROVE  \E i \in DOMAIN Tail(s) : Tail(s)[i] = e
<1>1. PICK i \in DOMAIN s : s[i] = e
  OBVIOUS
<1>2. i \in 2..Len(s)
  BY <1>1
<1>3. i - 1 \in DOMAIN Tail(s) /\ Tail(s)[i - 1] = e
  BY <1>1, <1>2
<1> QED BY <1>3

(* A step of one queue's worker keeps the three parts when it keeps them   *)
(* for the requests and the pull requests of that queue.                   *)
LEMMA OneQueueStep ==
  ASSUME CoreTypes, awaited \subseteq Deliveries, QueueInv, ShutdownInv, NEW q \in Deliveries,
         UNCHANGED <<pc, req, handle, queues, shutdownVars>>,
         \A x \in Deliveries \ {q} :
           /\ worker'[x] = worker[x] /\ chan'[x] = chan[x] /\ current'[x] = current[x]
           /\ prMap'[x] = prMap[x] /\ notices'[x] = notices[x] /\ gaveUp'[x] = gaveUp[x],
         \A e \in Deliveries : fate'[e] = fate[e] \/ (fate'[e] # "none" /\ Belongs(e, q)),
         \A e \in Deliveries : Belongs(e, q) => Placed(e)' /\ Told(e)',
         \A p \in PRs : Noted(q, p)',
         worker'[q] \in {"drain", "notify", "exited"} => doneClosed[q],
         worker[q] = "exited" => worker'[q] = "exited",
         worker'[q] \in {"notify", "exited"} /\ http = "stopped" => chan'[q] = << >>
  PROVE  ShutdownInv'
<1> USE DEF shutdownVars
<1>1. ASSUME NEW e \in Deliveries, ~Belongs(e, q), pc[e] = "accepted"
      PROVE  Placed(e)' /\ Told(e)'
  <2>1. handle[e] \in Deliveries \ {q} /\ fate'[e] = fate[e]
    BY <1>1, NoneAssumption DEF Belongs, CoreTypes, QueueInv, HandlesFit
  <2> QED BY <2>1 DEF ShutdownInv, FateInv, NoticeInv, Placed, Told
<1>2. ASSUME NEW e \in Deliveries, pc[e] # "accepted"
      PROVE  fate'[e] = "none"
  BY <1>2 DEF Belongs, ShutdownInv, FateInv
<1>3. FateInv'
  <2>1. ASSUME NEW e \in Deliveries
        PROVE  (fate'[e] # "none" <=> pc[e] = "accepted") /\ Placed(e)'
    <3>1. CASE pc[e] = "accepted"
      BY <1>1, <3>1 DEF ShutdownInv, FateInv
    <3>2. CASE pc[e] # "accepted"
      BY <1>2, <3>2 DEF Placed
    <3> QED BY <3>1, <3>2
  <2> QED BY <2>1 DEF FateInv
<1>4. NoticeInv'
  <2>1. \A x \in Deliveries, p \in PRs : Noted(x, p)'
    BY DEF ShutdownInv, NoticeInv, Noted
  <2>2. \A e \in Deliveries : Told(e)'
    <3> TAKE e \in Deliveries
    <3>1. CASE pc[e] = "accepted"
      BY <1>1, <3>1
    <3>2. CASE pc[e] # "accepted"
      BY <1>2, <3>2 DEF Told
    <3> QED BY <3>1, <3>2
  <2> QED BY <2>1, <2>2 DEF NoticeInv
<1>5. ClosingInv'
  <2>1. Active' = Active
    BY DEF Active
  <2>2. WorkersGone => WorkersGone'
    <3> SUFFICES ASSUME WorkersGone, NEW x \in awaited PROVE worker'[x] = "exited"
      BY DEF WorkersGone
    <3> QED BY DEF WorkersGone
  <2> QED BY <2>1, <2>2 DEF ShutdownInv, ClosingInv
<1> QED BY <1>3, <1>4, <1>5 DEF ShutdownInv

(* The worker takes, checks and settles requests, or drains and notifies. *)
LEMMA WorkerShutdownInv ==
  ASSUME TypeOK, QueueInv, ShutdownInv, NEW q \in Deliveries, Worker(q) \/ TimeoutCheck(q)
  PROVE  ShutdownInv'
<1> USE NoneAssumption DEF hookVars, queueVars, dropVars, shutdownVars, Step
<1> DEFINE Mine(e) == e \in Deliveries /\ Belongs(e, q)
<1>1. /\ CoreTypes /\ awaited \subseteq Deliveries
      /\ prMap \in [Deliveries -> [PRs -> Deliveries \cup {None}]]
      /\ notices \in [Deliveries -> [PRs -> Nat]] /\ gaveUp \in [Deliveries -> BOOLEAN]
  BY TypeOKCore DEF TypeOK
<1>2. /\ UNCHANGED <<pc, req, handle, queues, shutdownVars>>
      /\ \A x \in Deliveries \ {q} :
           /\ worker'[x] = worker[x] /\ chan'[x] = chan[x] /\ current'[x] = current[x]
           /\ prMap'[x] = prMap[x] /\ notices'[x] = notices[x] /\ gaveUp'[x] = gaveUp[x]
  <2>1. CASE TakeRequest(q) \/ Begin(q) \/ FinishCheck(q) \/ End(q) \/ TimeoutCheck(q)
    BY <1>1, <2>1 DEF CoreTypes, TakeRequest, Begin, FinishCheck, End, TimeoutCheck
  <2>2. CASE SeeDone(q) \/ DrainOne(q) \/ DrainedAll(q) \/ NotifiedAll(q)
    BY <1>1, <2>2 DEF CoreTypes, SeeDone, DrainOne, DrainedAll, NotifiedAll
  <2>3. ASSUME NEW p \in PRs, NotifyOne(q, p)
        PROVE  /\ UNCHANGED <<pc, req, handle, queues, shutdownVars, worker, chan, current, gaveUp>>
               /\ \A x \in Deliveries \ {q} : prMap'[x] = prMap[x] /\ notices'[x] = notices[x]
    BY <1>1, <2>3 DEF NotifyOne
  <2> QED BY <2>1, <2>2, <2>3 DEF Worker
<1>3. /\ Busy(q) => Mine(current[q])
      /\ chan[q] # << >> => Mine(Head(chan[q])) /\ chan[q] \in Seq(Deliveries)
  <2>1. chan[q] \in Seq(Deliveries) /\ current[q] \in Deliveries \cup {None}
    BY <1>1 DEF CoreTypes
  <2>2. chan[q] # << >> => 1 \in DOMAIN chan[q] /\ Head(chan[q]) = chan[q][1] /\ chan[q][1] \in Deliveries
    BY <2>1
  <2> QED BY <2>1, <2>2 DEF QueueInv, RequestsInPlace, Belongs
(* What the invariant says of this queue. *)
<1>4. /\ \A e \in Deliveries : Mine(e) => Placed(e) /\ Told(e) /\ handle[e] = q /\ req[e].pr \in PRs
      /\ \A p \in PRs : Noted(q, p)
      /\ worker[q] \in {"drain", "notify", "exited"} => doneClosed[q]
      /\ worker[q] \in {"notify", "exited"} /\ http = "stopped" => chan[q] = << >>
  BY <1>1 DEF ShutdownInv, FateInv, NoticeInv, ClosingInv, Belongs, CoreTypes
<1>5. \A e \in Deliveries : fate'[e] = fate[e] \/ (fate'[e] # "none" /\ Mine(e))
  BY <1>1, <1>3 DEF CoreTypes, Worker, TakeRequest, Begin, FinishCheck, End, SeeDone, DrainOne,
              DrainedAll, NotifyOne, NotifiedAll, TimeoutCheck, Busy
(* It is enough to look at this queue. *)
<1>6. SUFFICES /\ \A e \in Deliveries : Mine(e) => Placed(e)' /\ Told(e)'
               /\ \A p \in PRs : Noted(q, p)'
               /\ worker'[q] \in {"drain", "notify", "exited"} => doneClosed[q]
               /\ worker[q] = "exited" => worker'[q] = "exited"
               /\ worker'[q] \in {"notify", "exited"} /\ http = "stopped" => chan'[q] = << >>
  BY <1>1, <1>2, <1>5, OneQueueStep
<1> HIDE DEF Mine
(* The steps that touch neither the map of dropped requests nor comments. *)
<1>7. ASSUME prMap' = prMap, notices' = notices, gaveUp' = gaveUp,
             \A e \in Deliveries : Mine(e) /\ fate'[e] = "dropped" => fate[e] = "dropped"
      PROVE  \A e \in Deliveries : Mine(e) => Told(e)'
  BY <1>2, <1>4, <1>7 DEF Told
<1>8. CASE TakeRequest(q)
  <2>1. /\ worker[q] = "select" /\ chan[q] # << >>
        /\ worker'[q] = "begin" /\ chan'[q] = Tail(chan[q]) /\ current'[q] = Head(chan[q])
        /\ fate' = [fate EXCEPT ![Head(chan[q])] = "held"] /\ UNCHANGED <<prMap, notices, gaveUp>>
    BY <1>1, <1>8 DEF CoreTypes, TakeRequest
  <2>2. \A e \in Deliveries : Mine(e) => Placed(e)'
    <3> SUFFICES ASSUME NEW e \in Deliveries, Mine(e) PROVE Placed(e)'
      OBVIOUS
    <3>1. CASE e = Head(chan[q])
      BY <1>1, <1>2, <1>4, <2>1, <3>1 DEF Placed, CoreTypes
    <3>2. CASE e # Head(chan[q])
      <4>1. fate'[e] = fate[e] /\ fate[e] # "held" /\ handle'[e] = q
        <5>1. fate'[e] = fate[e]
          BY <1>1, <2>1, <3>2 DEF CoreTypes
        <5>2. fate[e] # "held"
          BY <1>4, <2>1 DEF Placed
        <5> QED BY <1>2, <1>4, <5>1, <5>2
      <4>2. fate[e] = "queued" => \E i \in DOMAIN chan[q] : chan[q][i] = e
        BY <1>4 DEF Placed
      <4>3. fate[e] = "queued" => \E i \in DOMAIN chan'[q] : chan'[q][i] = e
        <5>1. ASSUME fate[e] = "queued"
              PROVE  \E i \in DOMAIN Tail(chan[q]) : Tail(chan[q])[i] = e
          BY <1>3, <2>1, <3>2, <4>2, <5>1, StaysInTail
        <5> QED BY <2>1, <5>1
      <4> QED BY <4>1, <4>3 DEF Placed
    <3> QED BY <3>1, <3>2
  <2>3. \A p \in PRs : Noted(q, p)'
    BY <1>4, <2>1 DEF Noted
  <2>4. \A e \in Deliveries : Mine(e) => Told(e)'
    BY <1>1, <1>7, <2>1 DEF CoreTypes
  <2> QED BY <2>1, <2>2, <2>3, <2>4
(* Nothing leaves the channel, and the worker is still at its request.     *)
<1>9. CASE Begin(q) \/ FinishCheck(q) \/ End(q) \/ TimeoutCheck(q)
  <2>1. /\ Busy(q) /\ worker'[q] \in {"select", "run", "end"} /\ UNCHANGED <<chan, prMap, notices, gaveUp>>
        /\ worker[q] \in {"begin", "run"} =>
             \/ worker'[q] = "run" /\ current' = current /\ fate' = fate
             \/ \E f \in {"skipped", "done"} : fate' = [fate EXCEPT ![current[q]] = f]
        /\ worker[q] = "end" => fate' = fate
    BY <1>1, <1>9 DEF CoreTypes, Begin, FinishCheck, End, TimeoutCheck, Busy
  <2>2. \A e \in Deliveries : Mine(e) /\ fate[e] = "held" => worker[q] \in {"begin", "run"} /\ current[q] = e
    BY <1>4 DEF Placed
  <2>3. \A e \in Deliveries : fate'[e] = fate[e] \/ fate'[e] \in {"skipped", "done"}
    BY <1>1, <2>1 DEF CoreTypes, Busy
  <2>4. \A e \in Deliveries : Mine(e) /\ fate'[e] = "held" =>
          worker'[q] = "run" /\ current'[q] = e
    <3> SUFFICES ASSUME NEW e \in Deliveries, Mine(e), fate'[e] = "held"
                 PROVE  worker'[q] = "run" /\ current'[q] = e
      OBVIOUS
    <3>1. fate[e] = "held"
      BY <2>3
    <3>2. worker[q] \in {"begin", "run"} /\ current[q] = e
      BY <2>2, <3>1
    <3>3. \A f \in {"skipped", "done"} : fate' # [fate EXCEPT ![e] = f]
      BY <1>1 DEF CoreTypes
    <3> QED BY <2>1, <3>2, <3>3
  <2>5. \A e \in Deliveries : Mine(e) => Placed(e)'
    BY <1>2, <1>4, <2>1, <2>3, <2>4 DEF Placed
  <2>6. \A p \in PRs : Noted(q, p)'
    BY <1>4, <2>1 DEF Noted, Busy
  <2>7. \A e \in Deliveries : Mine(e) => Told(e)'
    BY <1>7, <2>1, <2>3
  <2> QED BY <2>1, <2>5, <2>6, <2>7 DEF Busy
<1>10. CASE SeeDone(q) \/ DrainedAll(q) \/ NotifiedAll(q)
  <2>1. /\ worker[q] \in {"select", "drain", "notify"} /\ doneClosed[q]
        /\ worker'[q] \in {"drain", "notify", "exited"}
        /\ worker'[q] = "drain" => worker[q] = "select"
        /\ worker'[q] = "notify" => worker[q] = "drain" /\ chan[q] = << >>
        /\ worker'[q] = "exited" => worker[q] = "notify" \/ chan[q] = << >>
        /\ UNCHANGED <<chan, current, fate, prMap, notices>>
    BY <1>1, <1>4, <1>10 DEF CoreTypes, SeeDone, DrainedAll, NotifiedAll, HasItems
  <2>2. \A e \in Deliveries : Mine(e) => Placed(e)'
    BY <1>2, <1>4, <2>1 DEF Placed
  <2>3. \A p \in PRs : Noted(q, p)'
    <3>1. CASE NotifiedAll(q)
      <4>1. worker'[q] = "exited" /\ (~gaveUp'[q] => \A p \in PRs : prMap[q][p] = None) /\ worker[q] = "notify"
        BY <1>1, <3>1 DEF NotifiedAll, CoreTypes
      <4> QED BY <1>4, <2>1, <4>1 DEF Noted
    <3>2. CASE SeeDone(q) \/ DrainedAll(q)
      <4>1. worker[q] = "select" \/ worker'[q] = "notify"
        BY <1>1, <3>2 DEF SeeDone, DrainedAll, CoreTypes
      <4> QED BY <1>4, <2>1, <4>1 DEF Noted
    <3> QED BY <1>10, <3>1, <3>2
  <2>4. \A e \in Deliveries : Mine(e) => Told(e)'
    BY <1>2, <1>4, <2>1 DEF Told
  <2> QED BY <1>4, <2>1, <2>2, <2>3, <2>4
<1>11. CASE DrainOne(q)
  <2> DEFINE h == Head(chan[q])
  <2>1. /\ worker[q] = "drain" /\ chan[q] # << >> /\ doneClosed[q]
        /\ worker'[q] = "drain" /\ chan'[q] = Tail(chan[q]) /\ UNCHANGED <<current, notices, gaveUp>>
        /\ fate' = [fate EXCEPT ![h] = "dropped"]
        /\ prMap' = [prMap EXCEPT ![q][req[h].pr] = h]
    BY <1>1, <1>4, <1>11 DEF CoreTypes, DrainOne
  <2>2. Mine(h) /\ h \in Deliveries /\ h # None /\ req[h].pr \in PRs
    BY <1>3, <1>4, <2>1 DEF Mine
  <2>3. \A p \in PRs : prMap'[q][p] = IF p = req[h].pr THEN h ELSE prMap[q][p]
    BY <1>1, <2>1
  <2> HIDE DEF h
  <2>4. \A e \in Deliveries : Mine(e) => Placed(e)'
    <3> SUFFICES ASSUME NEW e \in Deliveries, Mine(e) PROVE Placed(e)'
      OBVIOUS
    <3>1. CASE e = h
      BY <1>1, <2>1, <3>1 DEF Placed, CoreTypes
    <3>2. CASE e # h
      <4>1. fate'[e] = fate[e] /\ fate[e] # "held" /\ handle'[e] = q
        <5>1. fate'[e] = fate[e]
          BY <1>1, <2>1, <3>2 DEF CoreTypes
        <5>2. fate[e] # "held"
          BY <1>4, <2>1 DEF Placed
        <5> QED BY <1>2, <1>4, <5>1, <5>2
      <4>2. fate[e] = "queued" => \E i \in DOMAIN chan[q] : chan[q][i] = e
        BY <1>4 DEF Placed
      <4>3. fate[e] = "queued" => \E i \in DOMAIN chan'[q] : chan'[q][i] = e
        <5>1. ASSUME fate[e] = "queued"
              PROVE  \E i \in DOMAIN Tail(chan[q]) : Tail(chan[q])[i] = e
          BY <1>3, <2>1, <3>2, <4>2, <5>1, StaysInTail DEF h
        <5> QED BY <2>1, <5>1
      <4> QED BY <4>1, <4>3 DEF Placed
    <3> QED BY <3>1, <3>2
  <2>5. \A p \in PRs : Noted(q, p)'
    BY <1>4, <2>1 DEF Noted
  <2>6. \A e \in Deliveries : Mine(e) => Told(e)'
    <3> SUFFICES ASSUME NEW e \in Deliveries, Mine(e), fate'[e] = "dropped" PROVE Told(e)'
      BY DEF Told
    <3>1. req'[e].pr \in PRs /\ handle'[e] = q /\ req' = req
      BY <1>2, <1>4
    <3>2. CASE e = h
      BY <2>2, <2>3, <3>1, <3>2 DEF Told
    <3>3. CASE e # h
      <4>1. fate[e] = "dropped"
        BY <1>1, <2>1, <3>3 DEF CoreTypes
      <4>2. prMap[q][req[e].pr] # None \/ notices[q][req[e].pr] = 1
        BY <1>4, <4>1 DEF Told
      <4> QED BY <2>1, <2>2, <2>3, <3>1, <4>2 DEF Told
    <3> QED BY <3>2, <3>3
  <2> QED BY <2>1, <2>4, <2>5, <2>6
<1>12. ASSUME NEW p0 \in PRs, NotifyOne(q, p0)
       PROVE  /\ \A e \in Deliveries : Mine(e) => Placed(e)' /\ Told(e)'
              /\ \A p \in PRs : Noted(q, p)'
              /\ worker'[q] \in {"drain", "notify", "exited"} => doneClosed[q]
              /\ worker[q] = "exited" => worker'[q] = "exited"
              /\ worker'[q] \in {"notify", "exited"} /\ http = "stopped" => chan'[q] = << >>
  <2>1. /\ worker[q] = "notify" /\ prMap[q][p0] # None /\ UNCHANGED <<worker, chan, current, fate, gaveUp>>
        /\ prMap' = [prMap EXCEPT ![q][p0] = None] /\ notices' = [notices EXCEPT ![q][p0] = @ + 1]
    BY <1>12 DEF NotifyOne
  <2>2. \A p \in PRs : /\ prMap'[q][p] = IF p = p0 THEN None ELSE prMap[q][p]
                       /\ notices'[q][p] = IF p = p0 THEN notices[q][p] + 1 ELSE notices[q][p]
    BY <1>1, <2>1
  <2>3. notices'[q][p0] = 1
    BY <1>4, <2>1, <2>2 DEF Noted
  <2>4. \A p \in PRs : Noted(q, p)'
    BY <1>4, <2>1, <2>2 DEF Noted
  <2>5. \A e \in Deliveries : Mine(e) => Placed(e)'
    BY <1>2, <1>4, <2>1 DEF Placed
  <2>6. \A e \in Deliveries : Mine(e) => Told(e)'
    BY <1>2, <1>4, <2>1, <2>2, <2>3 DEF Told
  <2> QED BY <1>4, <2>1, <2>4, <2>5, <2>6
<1> QED BY <1>8, <1>9, <1>10, <1>11, <1>12 DEF Worker

(* Signal, echo.Shutdown and QueueManager.Shutdown. *)
LEMMA ClosingShutdownInv ==
  ASSUME TypeOK, QueueInv, ShutdownInv, StartHTTP \/ Signal \/ Deadline \/ Shutdown \/ Exited \/ UNCHANGED vars
  PROVE  ShutdownInv'
<1> USE NoneAssumption DEF hookVars, queueVars, dropVars, shutdownVars
<1>1. /\ UNCHANGED <<pc, req, handle, queues, chan, worker, current, fate, prMap, notices, gaveUp>>
  BY DEF vars, Shutdown, StartHTTP, Signal, Deadline, StopHTTP, HTTPStopped, Snapshot, CloseDone, ClosedAll,
         AllDone, CancelAll, GraceOver, Exit, Exited
<1>2. FateInv' /\ NoticeInv'
  BY <1>1 DEF ShutdownInv, FateInv, NoticeInv, Placed, Noted, Told
<1>3. ClosingInv'
  <2> USE DEF ShutdownInv, ClosingInv, Closing, WorkersGone, Active
  <2>1. CASE StartHTTP \/ Signal \/ Deadline \/ StopHTTP \/ Exited \/ UNCHANGED vars
    BY <1>1, <2>1 DEF vars, StartHTTP, Signal, Deadline, StopHTTP, Exited, Alive
  <2>2. CASE HTTPStopped
    BY <1>1, <2>2 DEF HTTPStopped, HTTPReady
  <2>3. CASE Snapshot
    BY <1>1, <2>3 DEF Snapshot
  <2>4. ASSUME NEW q \in Deliveries, CloseDone(q) PROVE ClosingInv'
    <3>1. doneClosed \in [Deliveries -> BOOLEAN]
      BY DEF TypeOK
    <3> QED BY <1>1, <2>4, <3>1 DEF CloseDone
  <2>5. CASE ClosedAll \/ GraceOver \/ Exit
    BY <1>1, <2>5 DEF ClosedAll, GraceOver, Exit
  <2>6. CASE AllDone
    BY <1>1, <2>6 DEF AllDone
  <2>7. CASE CancelAll
    BY <1>1, <2>7 DEF CancelAll
  <2> QED BY <2>1, <2>2, <2>3, <2>4, <2>5, <2>6, <2>7 DEF Shutdown
<1> QED BY <1>2, <1>3 DEF ShutdownInv

(* The invariant of the shutdown holds however handlers, workers and       *)
(* Shutdown interleave, and whatever of it runs into shutdownCtx.          *)
THEOREM ShutdownCorrect == Spec => []ShutdownInv
<1>1. Init => ShutdownInv
  BY InitShutdownInv
<1>2. TypeOK /\ QueueInv /\ ShutdownInv /\ [Next]_vars => ShutdownInv'
  BY HandlerShutdownInv, WorkerShutdownInv, ClosingShutdownInv DEF Next
<1> QED BY <1>1, <1>2, TypeCorrect, QueueCorrect, PTL DEF Spec

(* When the HTTP server stopped cleanly and QueueManager.Shutdown reported *)
(* success, every accepted request was checked, skipped or answered by one *)
(* comment of notifyDroppedRequests for its pull request.                  *)
THEOREM CleanShutdownIsLossless == Spec => []CleanShutdownLosesNothing
<1>1. TypeOK /\ QueueInv /\ ShutdownInv => CleanShutdownLosesNothing
  <2> SUFFICES ASSUME TypeOK, QueueInv, ShutdownInv, sd \in {"returned", "exited"}, http = "stopped", ~sdErr,
                      NEW d \in Deliveries, pc[d] = "accepted"
               PROVE  /\ fate[d] \in Settled
                      /\ fate[d] = "dropped" /\ ~gaveUp[handle[d]] => notices[handle[d]][req[d].pr] = 1
    BY DEF CleanShutdownLosesNothing
  <2>1. CoreTypes
    BY TypeOKCore
  <2>2. handle[d] \in Deliveries /\ req[d].pr \in PRs /\ req[d].repo \in Repos
    BY <2>1 DEF CoreTypes, QueueInv, HandlesFit
  <2>3. queues[req[d].repo] = handle[d]
    BY <2>2, NoneAssumption DEF QueueInv, HandlesFit, QueueObjects
  <2>4. handle[d] \in awaited
    BY <2>2, <2>3, NoneAssumption DEF ShutdownInv, ClosingInv, Closing
  <2>5. worker[handle[d]] = "exited" /\ chan[handle[d]] = << >>
    BY <2>2, <2>4 DEF ShutdownInv, ClosingInv, WorkersGone
  <2>6. fate[d] \notin {"none", "queued", "held"}
    BY <2>5 DEF ShutdownInv, FateInv, Placed
  <2>7. fate[d] \in Settled
    BY <2>1, <2>6 DEF CoreTypes, Fates, Settled
  <2>8. ~gaveUp[handle[d]] => prMap[handle[d]][req[d].pr] = None
    BY <2>2, <2>5 DEF ShutdownInv, NoticeInv, Noted
  <2> QED BY <2>7, <2>8 DEF ShutdownInv, NoticeInv, Told
<1> QED BY <1>1, TypeCorrect, QueueCorrect, ShutdownCorrect, PTL

-----------------------------------------------------------------------------
(***************************************************************************)
(* The refinement: every pull request has a PRQueue to itself.  Beyond the *)
(* invariants above it needs that a request is in its queue only once.     *)
(***************************************************************************)

Distinct(s) == \A i, j \in DOMAIN s : s[i] = s[j] => i = j

(* Sequences without repetitions, as the channel is received from and sent *)
(* to.                                                                     *)
LEMMA TailHolds ==
  ASSUME NEW s \in Seq(Deliveries), s # << >>, Distinct(s), NEW e
  PROVE  Holds(Tail(s), e) <=> Holds(s, e) /\ e # Head(s)
<1>1. ASSUME Holds(s, e), e # Head(s) PROVE Holds(Tail(s), e)
  BY <1>1, StaysInTail DEF Holds
<1>2. ASSUME Holds(Tail(s), e) PROVE Holds(s, e) /\ e # Head(s)
  <2>1. PICK i \in DOMAIN Tail(s) : Tail(s)[i] = e
    BY <1>2 DEF Holds
  <2>2. i + 1 \in DOMAIN s /\ s[i + 1] = e /\ i + 1 # 1 /\ 1 \in DOMAIN s /\ Head(s) = s[1]
    BY <2>1
  <2> QED BY <2>2 DEF Holds, Distinct
<1> QED BY <1>1, <1>2

LEMMA TailPrecedes ==
  ASSUME NEW s \in Seq(Deliveries), s # << >>, Distinct(s), NEW d, NEW e
  PROVE  Precedes(Tail(s), d, e) <=> Precedes(s, d, e) /\ d # Head(s)
<1>1. ASSUME Precedes(Tail(s), d, e) PROVE Precedes(s, d, e) /\ d # Head(s)
  <2>1. PICK i, j \in DOMAIN Tail(s) : i < j /\ Tail(s)[i] = d /\ Tail(s)[j] = e
    BY <1>1 DEF Precedes
  <2>2. /\ i + 1 \in DOMAIN s /\ s[i + 1] = d /\ i + 1 # 1 /\ 1 \in DOMAIN s /\ Head(s) = s[1]
        /\ j + 1 \in DOMAIN s /\ s[j + 1] = e /\ i + 1 < j + 1
    BY <2>1
  <2> QED BY <2>2 DEF Precedes, Distinct
<1>2. ASSUME Precedes(s, d, e), d # Head(s) PROVE Precedes(Tail(s), d, e)
  <2>1. PICK i, j \in DOMAIN s : i < j /\ s[i] = d /\ s[j] = e
    BY <1>2 DEF Precedes
  <2>2. i # 1
    BY <1>2, <2>1
  <2>3. /\ i - 1 \in DOMAIN Tail(s) /\ Tail(s)[i - 1] = d /\ i - 1 < j - 1
        /\ j - 1 \in DOMAIN Tail(s) /\ Tail(s)[j - 1] = e
    BY <2>1, <2>2
  <2> QED BY <2>3 DEF Precedes
<1> QED BY <1>1, <1>2

LEMMA TailDistinct ==
  ASSUME NEW s \in Seq(Deliveries), s # << >>, Distinct(s)
  PROVE  Distinct(Tail(s))
<1> SUFFICES ASSUME NEW i \in DOMAIN Tail(s), NEW j \in DOMAIN Tail(s), Tail(s)[i] = Tail(s)[j]
             PROVE  i = j
  BY DEF Distinct
<1>1. i + 1 \in DOMAIN s /\ j + 1 \in DOMAIN s /\ s[i + 1] = s[j + 1] /\ i \in Nat /\ j \in Nat
  OBVIOUS
<1>2. i + 1 = j + 1
  BY <1>1 DEF Distinct
<1> QED BY <1>1, <1>2

LEMMA HeadPrecedes ==
  ASSUME NEW s \in Seq(Deliveries), s # << >>, Distinct(s), NEW e
  PROVE  /\ Precedes(s, Head(s), e) <=> Holds(s, e) /\ e # Head(s)
         /\ ~Precedes(s, e, Head(s))
<1>1. 1 \in DOMAIN s /\ Head(s) = s[1] /\ \A i \in DOMAIN s : i \in Nat /\ 1 <= i
  OBVIOUS
<1>2. ASSUME Precedes(s, Head(s), e) PROVE Holds(s, e) /\ e # Head(s)
  BY <1>1, <1>2 DEF Precedes, Holds, Distinct
<1>3. ASSUME Holds(s, e), e # Head(s) PROVE Precedes(s, Head(s), e)
  BY <1>1, <1>3 DEF Precedes, Holds
<1>4. ~Precedes(s, e, Head(s))
  BY <1>1 DEF Precedes, Distinct
<1> QED BY <1>2, <1>3, <1>4

LEMMA AppendLine ==
  ASSUME NEW s \in Seq(Deliveries), NEW d, ~Holds(s, d), NEW e, NEW f
  PROVE  /\ Holds(Append(s, d), e) <=> Holds(s, e) \/ e = d
         /\ Precedes(Append(s, d), e, f) <=> Precedes(s, e, f) \/ (f = d /\ Holds(s, e))
         /\ Distinct(s) => Distinct(Append(s, d))
<1> DEFINE t == Append(s, d)
           n == Len(s)
<1>1. /\ n \in Nat /\ DOMAIN s = 1..n /\ DOMAIN t = 1..(n + 1) /\ t[n + 1] = d
      /\ \A i \in 1..n : t[i] = s[i]
  OBVIOUS
<1> HIDE DEF t, n
<1>2. Holds(t, e) <=> Holds(s, e) \/ e = d
  BY <1>1 DEF Holds
<1>3. ASSUME Precedes(t, e, f) PROVE Precedes(s, e, f) \/ (f = d /\ Holds(s, e))
  <2>1. PICK i, j \in 1..(n + 1) : i < j /\ t[i] = e /\ t[j] = f
    BY <1>1, <1>3 DEF Precedes
  <2>2. i \in 1..n /\ s[i] = e
    BY <1>1, <2>1
  <2>3. CASE j = n + 1
    BY <1>1, <2>1, <2>2, <2>3 DEF Holds
  <2>4. CASE j \in 1..n
    <3>1. s[j] = f
      BY <1>1, <2>1, <2>4
    <3> QED BY <1>1, <2>1, <2>2, <2>4, <3>1 DEF Precedes
  <2> QED BY <1>1, <2>1, <2>3, <2>4
<1>4. ASSUME Precedes(s, e, f) \/ (f = d /\ Holds(s, e)) PROVE Precedes(t, e, f)
  <2>1. CASE Precedes(s, e, f)
    <3>1. PICK i, j \in 1..n : i < j /\ s[i] = e /\ s[j] = f
      BY <1>1, <2>1 DEF Precedes
    <3>2. i \in 1..(n + 1) /\ j \in 1..(n + 1) /\ t[i] = e /\ t[j] = f
      BY <1>1, <3>1
    <3> QED BY <1>1, <3>1, <3>2 DEF Precedes
  <2>2. CASE f = d /\ Holds(s, e)
    <3>1. PICK i \in 1..n : s[i] = e
      BY <1>1, <2>2 DEF Holds
    <3>2. i \in 1..(n + 1) /\ n + 1 \in 1..(n + 1) /\ i < n + 1 /\ t[i] = e /\ t[n + 1] = f
      BY <1>1, <2>2, <3>1
    <3> QED BY <1>1, <3>2 DEF Precedes
  <2> QED BY <1>4, <2>1, <2>2
<1>5. ASSUME Distinct(s) PROVE Distinct(t)
  <2> SUFFICES ASSUME NEW i \in 1..(n + 1), NEW j \in 1..(n + 1), t[i] = t[j] PROVE i = j
    BY <1>1 DEF Distinct
  <2>1. \A k \in 1..n : s[k] # d
    BY <1>1 DEF Holds
  <2> QED BY <1>1, <1>5, <2>1 DEF Distinct
<1> QED BY <1>2, <1>3, <1>4, <1>5 DEF t

(* A request is in its channel once, and neither there nor in the worker's *)
(* hands once its fate is settled.                                         *)
Lined(q) ==
  /\ Distinct(chan[q])
  /\ \A i \in DOMAIN chan[q] : fate[chan[q][i]] = "queued"
  /\ worker[q] \in {"begin", "run"} => fate[current[q]] = "held"
LineInv == \A q \in Deliveries : Lined(q)

LEMMA InitLineInv == Init => LineInv
BY DEF Init, LineInv, Lined, Distinct

LEMMA HandlerLineInv ==
  ASSUME TypeOK, QueueInv, FateInv, LineInv, NEW d \in Deliveries, ReceiveHook(d) \/ Handler(d)
  PROVE  LineInv'
<1> USE NoneAssumption DEF hookVars, queueVars, dropVars, shutdownVars, Goto, Step
<1>1. CoreTypes
  BY TypeOKCore
<1>2. CASE Send(d) /\ HasRoom(handle[d])
  <2>0. PICK c \in Deliveries : c = handle[d]
    BY <1>1, <1>2 DEF CoreTypes, Send, QueueInv, HandlesFit
  <2>1. c \in Deliveries /\ chan[c] \in Seq(Deliveries) /\ fate[d] = "none"
    BY <1>1, <1>2 DEF CoreTypes, Send, FateInv
  <2>2. /\ chan' = [chan EXCEPT ![c] = Append(chan[c], d)] /\ fate' = [fate EXCEPT ![d] = "queued"]
        /\ UNCHANGED <<worker, current>>
    BY <1>2, <2>0 DEF Send
  <2>3. \A q \in Deliveries : ~Holds(chan[q], d) /\ (worker[q] \in {"begin", "run"} => current[q] # d)
    BY <2>1 DEF LineInv, Lined, Holds
  <2>4. \A e \in Deliveries : e # d => fate'[e] = fate[e]
    BY <1>1, <2>2 DEF CoreTypes
  <2>5. \A q \in Deliveries : worker[q] \in {"begin", "run"} => fate'[current[q]] = "held"
    <3>1. \A q \in Deliveries : worker[q] \in {"begin", "run"} => current[q] \in Deliveries
      BY <1>1 DEF CoreTypes, QueueInv, RequestsInPlace, Busy, Belongs
    <3> QED BY <2>3, <2>4, <3>1 DEF LineInv, Lined
  <2>6. ASSUME NEW q \in Deliveries, q # c PROVE Lined(q)'
    <3>1. chan'[q] = chan[q] /\ chan[q] \in Seq(Deliveries)
      BY <1>1, <2>2, <2>6 DEF CoreTypes
    <3>2. \A i \in DOMAIN chan[q] : chan[q][i] \in Deliveries /\ chan[q][i] # d
      BY <2>3, <3>1 DEF Holds
    <3>3. Lined(q) /\ worker' = worker /\ current' = current
      BY <2>2 DEF LineInv
    <3>4. \A i \in DOMAIN chan[q] : fate'[chan[q][i]] = "queued"
      BY <2>4, <3>2, <3>3 DEF Lined
    <3> QED BY <2>5, <3>1, <3>3, <3>4 DEF Lined
  <2>7. Lined(c)'
    <3>1. chan'[c] = Append(chan[c], d)
      BY <1>1, <2>1, <2>2 DEF CoreTypes
    <3>2. Distinct(chan'[c])
      <4>1. Distinct(chan[c]) /\ ~Holds(chan[c], d)
        BY <2>1, <2>3 DEF LineInv, Lined
      <4>2. Distinct(Append(chan[c], d))
        BY <2>1, <4>1, AppendLine
      <4> QED BY <3>1, <4>2
    <3>3. \A i \in DOMAIN chan'[c] : chan'[c][i] = d \/ \E j \in DOMAIN chan[c] : chan'[c][i] = chan[c][j]
      BY <2>1, <3>1
    <3>4. fate'[d] = "queued"
      BY <1>1, <2>2 DEF CoreTypes
    <3>5. \A j \in DOMAIN chan[c] : fate'[chan[c][j]] = "queued"
      <4>1. \A j \in DOMAIN chan[c] : chan[c][j] \in Deliveries /\ chan[c][j] # d
        BY <2>1, <2>3 DEF Holds
      <4> QED BY <2>1, <2>4, <4>1 DEF LineInv, Lined
    <3> QED BY <2>1, <2>2, <2>5, <3>2, <3>3, <3>4, <3>5 DEF Lined
  <2> QED BY <2>6, <2>7 DEF LineInv
<1>3. CASE ~(Send(d) /\ HasRoom(handle[d]))
  <2>1. UNCHANGED <<chan, fate, current>>
    BY <1>3 DEF ReceiveHook, Handler, CanonicalizeFails, Lookup, Create, Supersede, Send, PostQueueFull
  <2>2. \A q \in Deliveries : worker'[q] \in {"begin", "run"} => worker[q] = worker'[q]
    BY <1>1 DEF CoreTypes, ReceiveHook, Handler, CanonicalizeFails, Lookup, Create, Supersede,
                Send, PostQueueFull
  <2> QED BY <2>1, <2>2 DEF LineInv, Lined
<1> QED BY <1>2, <1>3

LEMMA WorkerLineInv ==
  ASSUME TypeOK, QueueInv, FateInv, LineInv, NEW q \in Deliveries, Worker(q) \/ TimeoutCheck(q)
  PROVE  LineInv'
<1> USE NoneAssumption DEF hookVars, queueVars, dropVars, shutdownVars, Step
<1>1. CoreTypes
  BY TypeOKCore
(* The requests in another queue, or in the hands of its worker, are not q's. *)
<1>2. ASSUME NEW h, NEW f, Belongs(h, q), fate' = [fate EXCEPT ![h] = f],
             \A x \in Deliveries \ {q} :
               worker'[x] = worker[x] /\ chan'[x] = chan[x] /\ current'[x] = current[x]
      PROVE  \A x \in Deliveries \ {q} : Lined(x)'
  <2> SUFFICES ASSUME NEW x \in Deliveries \ {q} PROVE Lined(x)'
    OBVIOUS
  <2>1. Lined(x) /\ chan[x] \in Seq(Deliveries)
    BY <1>1 DEF LineInv, CoreTypes
  <2>2. \A i \in DOMAIN chan[x] : chan[x][i] \in Deliveries /\ Belongs(chan[x][i], x)
    BY <2>1 DEF QueueInv, RequestsInPlace
  <2>3. worker[x] \in {"begin", "run"} => current[x] \in Deliveries /\ Belongs(current[x], x)
    BY <1>1 DEF QueueInv, RequestsInPlace, Busy, Belongs, CoreTypes
  <2>4. \A e \in Deliveries : Belongs(e, x) => fate'[e] = fate[e]
    BY <1>1, <1>2 DEF Belongs, CoreTypes
  <2> QED BY <1>2, <2>1, <2>2, <2>3, <2>4 DEF Lined
<1>3. Lined(q) /\ chan[q] \in Seq(Deliveries)
  BY <1>1 DEF LineInv, CoreTypes
<1>4. CASE TakeRequest(q) \/ DrainOne(q)
  <2> DEFINE h == Head(chan[q])
  <2>1. PICK f \in Fates :
          /\ chan[q] # << >> /\ worker[q] \in {"select", "drain"}
          /\ fate' = [fate EXCEPT ![h] = f] /\ chan' = [chan EXCEPT ![q] = Tail(chan[q])]
          /\ \/ worker' = worker /\ current' = current
             \/ worker' = [worker EXCEPT ![q] = "begin"] /\ current' = [current EXCEPT ![q] = h] /\ f = "held"
    BY <1>4 DEF TakeRequest, DrainOne, Fates
  <2>2. h \in Deliveries /\ Belongs(h, q) /\ Tail(chan[q]) \in Seq(Deliveries)
    <3>1. 1 \in DOMAIN chan[q] /\ h = chan[q][1] /\ chan[q][1] \in Deliveries /\ Tail(chan[q]) \in Seq(Deliveries)
      BY <1>3, <2>1
    <3> QED BY <3>1 DEF QueueInv, RequestsInPlace
  <2> HIDE DEF h
  <2>3. \A x \in Deliveries \ {q} : Lined(x)'
    BY <1>1, <1>2, <2>1, <2>2 DEF CoreTypes
  <2>4. chan'[q] = Tail(chan[q])
    BY <1>1, <2>1 DEF CoreTypes
  <2>5. Distinct(chan'[q])
    BY <1>3, <2>1, <2>4, TailDistinct DEF Lined
  <2>6. \A i \in DOMAIN chan'[q] : fate'[chan'[q][i]] = "queued"
    <3> TAKE i \in DOMAIN chan'[q]
    <3>1. Holds(Tail(chan[q]), chan'[q][i])
      BY <2>4 DEF Holds
    <3>2. Holds(chan[q], chan'[q][i]) /\ chan'[q][i] # h
      BY <1>3, <2>1, <3>1, TailHolds DEF Lined, h
    <3>3. fate[chan'[q][i]] = "queued" /\ chan'[q][i] \in Deliveries
      BY <1>3, <3>2 DEF Holds, Lined
    <3> QED BY <1>1, <2>1, <3>2, <3>3 DEF CoreTypes
  <2>7. worker'[q] \in {"begin", "run"} => fate'[current'[q]] = "held"
    BY <1>1, <2>1, <2>2 DEF CoreTypes
  <2> QED BY <2>3, <2>5, <2>6, <2>7 DEF Lined, LineInv
<1>5. CASE FinishCheck(q) \/ (Begin(q) /\ MovedPast(q, current[q]))
  <2>1. PICK f \in {"done", "skipped"} :
          /\ worker[q] \in {"begin", "run"} /\ fate' = [fate EXCEPT ![current[q]] = f] /\ chan' = chan
          /\ worker'[q] \in {"end", "select"}
          /\ \A x \in Deliveries \ {q} : worker'[x] = worker[x] /\ current'[x] = current[x]
    BY <1>1, <1>5 DEF FinishCheck, Begin, CoreTypes
  <2>2. Belongs(current[q], q)
    BY <2>1 DEF QueueInv, RequestsInPlace, Busy
  <2>3. \A x \in Deliveries \ {q} : Lined(x)'
    BY <1>2, <2>1, <2>2
  <2>4. \A i \in DOMAIN chan[q] : fate'[chan[q][i]] = "queued"
    <3>1. \A i \in DOMAIN chan[q] : chan[q][i] \in Deliveries /\ chan[q][i] # current[q]
      BY <1>3, <2>1 DEF Lined
    <3> QED BY <1>1, <1>3, <2>1, <3>1 DEF Lined, CoreTypes
  <2> QED BY <1>3, <2>1, <2>3, <2>4 DEF Lined, LineInv
<1>6. CASE (Begin(q) /\ ~MovedPast(q, current[q])) \/ End(q) \/ TimeoutCheck(q) \/ SeeDone(q)
           \/ DrainedAll(q) \/ NotifiedAll(q) \/ \E p \in PRs : NotifyOne(q, p)
  <2>1. /\ chan' = chan /\ fate' = fate
        /\ \A x \in Deliveries : worker'[x] \in {"begin", "run"} =>
             worker[x] \in {"begin", "run"} /\ current'[x] = current[x]
    BY <1>1, <1>6 DEF CoreTypes, Begin, End, TimeoutCheck, SeeDone, DrainedAll, NotifiedAll, NotifyOne
  <2> QED BY <2>1 DEF LineInv, Lined
<1> QED BY <1>4, <1>5, <1>6 DEF Worker

(* A request is queued once, however often its pull request is, and the    *)
(* worker begins and checks what it holds, not what it has settled.        *)
THEOREM LineCorrect == Spec => []LineInv
<1>1. Init => LineInv
  BY InitLineInv
<1>2. ASSUME TypeOK, QueueInv, ShutdownInv, LineInv, [Next]_vars
      PROVE  LineInv'
  <2>1. FateInv
    BY <1>2 DEF ShutdownInv
  <2>2. CASE StartHTTP \/ Signal \/ Deadline \/ Shutdown \/ Exited \/ UNCHANGED vars
    <3>1. UNCHANGED <<chan, worker, current, fate>>
      BY <2>2 DEF vars, hookVars, queueVars, Shutdown, StartHTTP, Signal, Deadline, StopHTTP, HTTPStopped,
                  Snapshot, CloseDone, ClosedAll, AllDone, CancelAll, GraceOver, Exit, Exited
    <3> QED BY <1>2, <3>1 DEF LineInv, Lined
  <2> QED BY <1>2, <2>1, <2>2, HandlerLineInv, WorkerLineInv DEF Next
<1> QED BY <1>1, <1>2, TypeCorrect, QueueCorrect, ShutdownCorrect, PTL DEF Spec

(* d is somewhere in the line of its queue; the request PRQueue sees of it. *)
Waits(d) == handle[d] # None /\ (AtBegin(d) \/ InChannel(d))
AsRequest(d) == [id |-> d, commit |-> req[d].sha]

(* What the invariants say of the queue of a pull request. *)
LEMMA PRFacts ==
  ASSUME TypeOK, QueueInv
  PROVE  /\ \A d \in Deliveries : handle[d] # None =>
              handle[d] \in Deliveries /\ queues[req[d].repo] = handle[d]
         /\ \A r \in Repos : queues[r] # None =>
              queues[r] \in Deliveries /\ req[queues[r]].repo = r /\ worker[queues[r]] # "none"
         /\ \A d \in Deliveries : Waits(d) => pc[d] = "accepted" /\ handle[d] \in Deliveries
         /\ \A r \in Repos, p \in PRs : CheckOf(r, p) # None =>
              /\ CheckOf(r, p) \in Deliveries /\ current[queues[r]] = CheckOf(r, p)
              /\ queues[r] \in Deliveries /\ worker[queues[r]] \in {"run", "end"}
              /\ handle[CheckOf(r, p)] = queues[r] /\ pc[CheckOf(r, p)] = "accepted"
              /\ req[CheckOf(r, p)].repo = r /\ req[CheckOf(r, p)].pr = p
<1> USE NoneAssumption
<1>1. CoreTypes
  BY TypeOKCore
<1>2. \A d \in Deliveries : handle[d] # None =>
        handle[d] \in Deliveries /\ queues[req[d].repo] = handle[d]
  <2> SUFFICES ASSUME NEW d \in Deliveries, handle[d] # None
               PROVE  handle[d] \in Deliveries /\ queues[req[d].repo] = handle[d]
    OBVIOUS
  <2>1. handle[d] \in Deliveries
    BY <1>1 DEF CoreTypes
  <2>2. worker[handle[d]] # "none" /\ req[handle[d]].repo = req[d].repo
    BY DEF QueueInv, HandlesFit
  <2> QED BY <2>1, <2>2 DEF QueueInv, QueueObjects
<1>3. \A r \in Repos : queues[r] # None =>
        queues[r] \in Deliveries /\ req[queues[r]].repo = r /\ worker[queues[r]] # "none"
  BY <1>1 DEF CoreTypes, QueueInv, QueueObjects
<1>4. ASSUME NEW d \in Deliveries, Waits(d) PROVE pc[d] = "accepted" /\ handle[d] \in Deliveries
  <2>1. handle[d] \in Deliveries
    BY <1>2, <1>4 DEF Waits
  <2> QED BY <1>4, <2>1 DEF Waits, AtBegin, InChannel, Holds, QueueInv, RequestsInPlace, Belongs, Busy
<1>5. ASSUME NEW r \in Repos, NEW p \in PRs, CheckOf(r, p) # None
      PROVE  /\ CheckOf(r, p) \in Deliveries /\ current[queues[r]] = CheckOf(r, p)
             /\ queues[r] \in Deliveries /\ worker[queues[r]] \in {"run", "end"}
             /\ handle[CheckOf(r, p)] = queues[r] /\ pc[CheckOf(r, p)] = "accepted"
             /\ req[CheckOf(r, p)].repo = r /\ req[CheckOf(r, p)].pr = p
  <2>1. PICK q \in Deliveries : queues[r] = q /\ q # None
    BY <1>1, <1>5 DEF CheckOf, CoreTypes
  <2>2. PICK c \in Deliveries : CheckOf(r, p) = c /\ running[q][p] = c
    BY <1>1, <1>5, <2>1 DEF CheckOf, CoreTypes
  <2>3. worker[q] \in {"run", "end"} /\ current[q] = c /\ req[c].pr = p
    BY <2>2 DEF QueueInv, RunningIsCurrent
  <2>4. handle[c] = q /\ pc[c] = "accepted"
    BY <2>3 DEF QueueInv, RequestsInPlace, Belongs, Busy
  <2>5. req[c].repo = r
    <3>1. req[q].repo = req[c].repo
      BY <2>1, <2>4 DEF QueueInv, HandlesFit
    <3> QED BY <1>3, <2>1, <3>1
  <2> QED BY <2>1, <2>2, <2>3, <2>4, <2>5
<1> QED BY <1>2, <1>3, <1>4, <1>5

(* Only those in line have somebody ahead of them. *)
LEMMA AheadOfWaiting ==
  ASSUME NEW r, NEW p
  PROVE  /\ AheadOf(r, p) =
              [y \in PRRequests |->
                 {x \in WaitingOf(r, p) : y \in WaitingOf(r, p) /\ Before(x.id, y.id)}]
         /\ AheadOf(r, p)' =
              [y \in PRRequests |->
                 {x \in WaitingOf(r, p)' : y \in WaitingOf(r, p)' /\ Before(x.id, y.id)'}]
<1>1. ASSUME NEW y \in PRRequests
      PROVE  (IF InLine(y, r, p) THEN {x \in PRRequests : InLine(x, r, p) /\ Before(x.id, y.id)} ELSE {})
               = {x \in WaitingOf(r, p) : y \in WaitingOf(r, p) /\ Before(x.id, y.id)}
  BY DEF WaitingOf
<1>2. ASSUME NEW y \in PRRequests
      PROVE  (IF InLine(y, r, p)' THEN {x \in PRRequests : InLine(x, r, p)' /\ Before(x.id, y.id)'} ELSE {})
               = {x \in WaitingOf(r, p)' : y \in WaitingOf(r, p)' /\ Before(x.id, y.id)'}
  BY DEF WaitingOf
<1> QED BY <1>1, <1>2 DEF AheadOf

(* Nobody enters or leaves the line. *)
LEMMA SameLine ==
  ASSUME NEW r, NEW p,
         \A d \in Deliveries : pc[d] = "send" \/ pc'[d] = "send" \/ Waits(d) \/ Waits(d)' =>
           /\ req'[d] = req[d] /\ handle'[d] = handle[d]
           /\ pc'[d] = "send" <=> pc[d] = "send"
           /\ Waits(d)' <=> Waits(d),
         \A d, e \in Deliveries : Waits(d) /\ Waits(e) => (Before(d, e)' <=> Before(d, e))
  PROVE  UNCHANGED <<SendingOf(r, p), WaitingOf(r, p), AheadOf(r, p)>>
<1>1. SendingOf(r, p)' = SendingOf(r, p)
  BY DEF SendingOf, IsOf, PRRequests
<1>2. \A x \in PRRequests : x \in WaitingOf(r, p) <=> IsOf(x, r, p) /\ Waits(x.id)
  BY DEF WaitingOf, InLine, Waits, IsOf
<1>3. \A x \in PRRequests : x \in WaitingOf(r, p)' <=> IsOf(x, r, p)' /\ Waits(x.id)'
  BY DEF WaitingOf, InLine, Waits, IsOf
<1>4. \A x \in PRRequests : x.id \in Deliveries
  BY DEF PRRequests
<1>5. \A x \in PRRequests : x \in WaitingOf(r, p) <=> x \in WaitingOf(r, p)'
  <2> SUFFICES ASSUME NEW x \in PRRequests, Waits(x.id) \/ Waits(x.id)'
               PROVE  (IsOf(x, r, p) /\ Waits(x.id)) <=> (IsOf(x, r, p)' /\ Waits(x.id)')
    BY <1>2, <1>3
  <2> QED BY <1>4 DEF IsOf
<1>6. WaitingOf(r, p)' = WaitingOf(r, p)
  <2>1. WaitingOf(r, p) \subseteq PRRequests /\ WaitingOf(r, p)' \subseteq PRRequests
    BY DEF WaitingOf
  <2> QED BY <1>5, <2>1
<1>7. AheadOf(r, p)' = AheadOf(r, p)
  <2>1. \A x, y \in WaitingOf(r, p) : Before(x.id, y.id)' <=> Before(x.id, y.id)
    <3>1. \A x \in WaitingOf(r, p) : x.id \in Deliveries /\ Waits(x.id)
      BY <1>2, <1>4 DEF WaitingOf
    <3> QED BY <3>1
  <2> DEFINE w == WaitingOf(r, p)
  <2>2. AheadOf(r, p) = [y \in PRRequests |-> {x \in w : y \in w /\ Before(x.id, y.id)}]
    BY AheadOfWaiting
  <2>3. AheadOf(r, p)' = [y \in PRRequests |-> {x \in w : y \in w /\ Before(x.id, y.id)'}]
    BY <1>6, AheadOfWaiting
  <2>4. ASSUME NEW y \in PRRequests
        PROVE  {x \in w : y \in w /\ Before(x.id, y.id)'} = {x \in w : y \in w /\ Before(x.id, y.id)}
    BY <2>1
  <2> HIDE DEF w
  <2> QED BY <2>2, <2>3, <2>4
<1> QED BY <1>1, <1>6, <1>7

(* Nothing happens to the latest commit or to the check. *)
LEMMA SameCheck ==
  ASSUME NEW r \in Repos, NEW p \in PRs, queues'[r] = queues[r],
         queues[r] # None =>
           /\ latestSHA'[queues[r]][p] = latestSHA[queues[r]][p]
           /\ running'[queues[r]][p] = running[queues[r]][p]
           /\ worker'[queues[r]] \in {"drain", "notify", "exited"} <=>
                worker[queues[r]] \in {"drain", "notify", "exited"},
         CheckOf(r, p) # None =>
           req'[CheckOf(r, p)].sha = req[CheckOf(r, p)].sha /\ cause'[CheckOf(r, p)] = cause[CheckOf(r, p)]
  PROVE  UNCHANGED <<LatestOf(r, p), CheckingOf(r, p), ContextOf(r, p), DrainingOf(r)>>
<1>1. CheckOf(r, p)' = CheckOf(r, p)
  BY DEF CheckOf
<1>2. UNCHANGED <<CheckingOf(r, p), ContextOf(r, p)>>
  BY <1>1 DEF CheckingOf, ContextOf
<1>3. UNCHANGED <<LatestOf(r, p), DrainingOf(r)>>
  BY DEF LatestOf, DrainingOf
<1> QED BY <1>2, <1>3

(* The request of d, when it is one of the pull request, leaves the line. *)
Departs(r, p, d) ==
  /\ SendingOf(r, p)' = SendingOf(r, p)
  /\ req[d].repo = r /\ req[d].pr = p =>
       /\ AsRequest(d) \in WaitingOf(r, p) /\ AheadOf(r, p)[AsRequest(d)] = {}
       /\ WaitingOf(r, p)' = WaitingOf(r, p) \ {AsRequest(d)}
       /\ AheadOf(r, p)' = [y \in PRRequests |-> AheadOf(r, p)[y] \ {AsRequest(d)}]
  /\ ~(req[d].repo = r /\ req[d].pr = p) => UNCHANGED <<WaitingOf(r, p), AheadOf(r, p)>>

(* One waiting request leaves the line, of which it was the first. *)
LEMMA LeaveLine ==
  ASSUME CoreTypes, NEW r, NEW p, NEW d \in Deliveries, Waits(d), UNCHANGED <<pc, req, handle>>,
         \A e \in Deliveries : Waits(e)' <=> Waits(e) /\ e # d,
         \A e, f \in Deliveries : Waits(e)' /\ Waits(f)' => (Before(e, f)' <=> Before(e, f)),
         \A e \in Deliveries : Waits(e) => ~Before(e, d)
  PROVE  Departs(r, p, d)
<1> DEFINE w == WaitingOf(r, p)
           v == WaitingOf(r, p)'
           x0 == AsRequest(d)
<1>1. SendingOf(r, p)' = SendingOf(r, p)
  BY DEF SendingOf, IsOf
<1>2. /\ \A x : x \in w <=> x \in PRRequests /\ IsOf(x, r, p) /\ Waits(x.id)
      /\ \A x : x \in v <=> x \in PRRequests /\ IsOf(x, r, p)' /\ Waits(x.id)'
      /\ \A x \in PRRequests : x.id \in Deliveries /\ x = [id |-> x.id, commit |-> x.commit]
      /\ \A x : IsOf(x, r, p)' <=> IsOf(x, r, p)
  BY DEF WaitingOf, InLine, Waits, IsOf, PRRequests
<1>3. x0 \in PRRequests /\ x0.id = d /\ x0.commit = req[d].sha
  BY DEF AsRequest, PRRequests, CoreTypes
<1>4. \A x \in w : x.id = d <=> x = x0 /\ req[d].repo = r /\ req[d].pr = p
  BY <1>2, <1>3 DEF IsOf, AsRequest
<1>5. req[d].repo = r /\ req[d].pr = p => x0 \in w
  BY <1>2, <1>3 DEF IsOf, Waits
<1>6. /\ \A x \in w, y \in w : x.id # d /\ y.id # d => (Before(x.id, y.id)' <=> Before(x.id, y.id))
      /\ \A x \in w : ~Before(x.id, d)
      /\ \A x : x \in v <=> x \in w /\ x.id # d
  BY <1>2
<1>7. /\ AheadOf(r, p) = [y \in PRRequests |-> {x \in w : y \in w /\ Before(x.id, y.id)}]
      /\ AheadOf(r, p)' = [y \in PRRequests |-> {x \in v : y \in v /\ Before(x.id, y.id)'}]
  BY AheadOfWaiting
<1> HIDE DEF w, v, x0
<1>8. CASE req[d].repo = r /\ req[d].pr = p
  <2>1. v = w \ {x0}
    BY <1>4, <1>6, <1>8
  <2>2. AheadOf(r, p)[x0] = {}
    BY <1>3, <1>6, <1>7
  <2>3. \A y \in PRRequests :
          {x \in v : y \in v /\ Before(x.id, y.id)'} = {x \in w : y \in w /\ Before(x.id, y.id)} \ {x0}
    BY <1>4, <1>6, <1>8, <2>1
  <2>4. AheadOf(r, p)' = [y \in PRRequests |-> AheadOf(r, p)[y] \ {x0}]
    BY <1>7, <2>3
  <2> QED BY <1>1, <1>5, <1>8, <2>1, <2>2, <2>4 DEF Departs, w, v, x0
<1>9. CASE ~(req[d].repo = r /\ req[d].pr = p)
  <2>1. v = w
    BY <1>4, <1>6, <1>9
  <2>2. \A y \in PRRequests :
          {x \in v : y \in v /\ Before(x.id, y.id)'} = {x \in w : y \in w /\ Before(x.id, y.id)}
    BY <1>4, <1>6, <1>9, <2>1
  <2> QED BY <1>1, <1>7, <1>9, <2>1, <2>2 DEF Departs, w, v
<1> QED BY <1>8, <1>9 DEF x0

(* A sent request joins the line behind everybody. *)
LEMMA JoinLine ==
  ASSUME CoreTypes, NEW r, NEW p, NEW d \in Deliveries, ~Waits(d), pc[d] = "send", pc'[d] # "send",
         handle[d] # None, UNCHANGED <<req, handle>>,
         \A e \in Deliveries : e # d => pc'[e] = pc[e],
         \A e \in Deliveries : Waits(e)' <=> Waits(e) \/ e = d,
         \A e, f \in Deliveries : Waits(e) /\ Waits(f) => (Before(e, f)' <=> Before(e, f)),
         \A e \in Deliveries : /\ Waits(e) /\ req[e].repo = r /\ req[d].repo = r => Before(e, d)'
                               /\ ~Before(d, e)'
  PROVE  /\ req[d].repo = r /\ req[d].pr = p =>
              /\ AsRequest(d) \in SendingOf(r, p)
              /\ SendingOf(r, p)' = SendingOf(r, p) \ {AsRequest(d)}
              /\ WaitingOf(r, p)' = WaitingOf(r, p) \cup {AsRequest(d)}
              /\ AheadOf(r, p)' = [AheadOf(r, p) EXCEPT ![AsRequest(d)] = WaitingOf(r, p)]
         /\ ~(req[d].repo = r /\ req[d].pr = p) =>
              UNCHANGED <<SendingOf(r, p), WaitingOf(r, p), AheadOf(r, p)>>
<1> DEFINE w == WaitingOf(r, p)
           v == WaitingOf(r, p)'
           x0 == AsRequest(d)
<1>2. /\ \A x : x \in w <=> x \in PRRequests /\ IsOf(x, r, p) /\ Waits(x.id)
      /\ \A x : x \in v <=> x \in PRRequests /\ IsOf(x, r, p)' /\ Waits(x.id)'
      /\ \A x \in PRRequests : x.id \in Deliveries /\ x = [id |-> x.id, commit |-> x.commit]
      /\ \A x : IsOf(x, r, p)' <=> IsOf(x, r, p)
  BY DEF WaitingOf, InLine, Waits, IsOf, PRRequests
<1>3. x0 \in PRRequests /\ x0.id = d /\ x0.commit = req[d].sha
  BY DEF AsRequest, PRRequests, CoreTypes
<1>4. \A x \in PRRequests : IsOf(x, r, p) =>
        (x.id = d <=> x = x0 /\ req[d].repo = r /\ req[d].pr = p)
  BY <1>2, <1>3 DEF IsOf, AsRequest
<1>5. req[d].repo = r /\ req[d].pr = p => IsOf(x0, r, p)
  BY <1>3 DEF IsOf
<1>6. /\ \A x, y \in w : Before(x.id, y.id)' <=> Before(x.id, y.id)
      /\ req[d].repo = r => \A x \in w : Before(x.id, d)'
      /\ \A x \in v : ~Before(d, x.id)'
      /\ \A x : x \in v <=> x \in w \/ (x \in PRRequests /\ IsOf(x, r, p) /\ x.id = d)
      /\ \A x \in w : x.id # d /\ x \in PRRequests
  BY <1>2 DEF IsOf
<1>7. /\ AheadOf(r, p) = [y \in PRRequests |-> {x \in w : y \in w /\ Before(x.id, y.id)}]
      /\ AheadOf(r, p)' = [y \in PRRequests |-> {x \in v : y \in v /\ Before(x.id, y.id)'}]
  BY AheadOfWaiting
<1> HIDE DEF w, v, x0
<1>8. CASE req[d].repo = r /\ req[d].pr = p
  <2>1. v = w \cup {x0} /\ x0 \notin w
    BY <1>3, <1>4, <1>5, <1>6, <1>8
  <2>2. ASSUME NEW y \in PRRequests
        PROVE  {x \in v : y \in v /\ Before(x.id, y.id)'} =
                 IF y = x0 THEN w ELSE {x \in w : y \in w /\ Before(x.id, y.id)}
    <3>1. CASE y = x0
      <4>1. \A x \in v : Before(x.id, y.id)' <=> x \in w
        BY <1>3, <1>6, <1>8, <2>1, <3>1
      <4> QED BY <2>1, <3>1, <4>1
    <3>2. CASE y # x0
      <4>1. y \in v <=> y \in w
        BY <2>1, <3>2
      <4>2. y \in v => \A x \in v : Before(x.id, y.id)' <=> x \in w /\ Before(x.id, y.id)
        BY <1>3, <1>6, <2>1, <4>1
      <4> QED BY <2>1, <3>2, <4>1, <4>2
    <3> QED BY <3>1, <3>2
  <2>3. AheadOf(r, p)' = [AheadOf(r, p) EXCEPT ![x0] = w]
    BY <1>3, <1>7, <2>2
  <2>4. /\ \A x : x \in SendingOf(r, p) <=> x \in PRRequests /\ pc[x.id] = "send" /\ IsOf(x, r, p)
        /\ \A x : x \in SendingOf(r, p)' <=> x \in PRRequests /\ pc'[x.id] = "send" /\ IsOf(x, r, p)'
    BY DEF SendingOf
  <2>5. x0 \in SendingOf(r, p) /\ SendingOf(r, p)' = SendingOf(r, p) \ {x0}
    BY <1>2, <1>3, <1>4, <1>5, <1>8, <2>4
  <2> QED BY <1>8, <2>1, <2>3, <2>5 DEF w, v, x0
<1>9. CASE ~(req[d].repo = r /\ req[d].pr = p)
  <2>1. v = w
    BY <1>4, <1>6, <1>9
  <2>2. \A y \in PRRequests :
          {x \in v : y \in v /\ Before(x.id, y.id)'} = {x \in w : y \in w /\ Before(x.id, y.id)}
    BY <1>6, <2>1
  <2>3. SendingOf(r, p)' = SendingOf(r, p)
    BY <1>2, <1>4, <1>9 DEF SendingOf
  <2> QED BY <1>7, <1>9, <2>1, <2>2, <2>3 DEF w, v
<1> QED BY <1>8, <1>9 DEF x0

(* The steps of a webhook handler: supersede records, the send is accepted *)
(* or rejected, and nothing else of them shows.                            *)
LEMMA HandlerPR ==
  ASSUME TypeOK, TypeOK', QueueInv, QueueInv', NEW r \in Repos, NEW p \in PRs,
         NEW d \in Deliveries, ReceiveHook(d) \/ Handler(d)
  PROVE  [PRQ(r, p)!Next]_(PRQ(r, p)!vars)
<1> USE NoneAssumption DEF hookVars, queueVars, Goto, Step
<1>1. CoreTypes
  BY TypeOKCore
<1> DEFINE x0 == AsRequest(d)
           OfD == req[d].repo = r /\ req[d].pr = p
<1>2. x0 \in PRRequests /\ x0.commit = req[d].sha
  BY <1>1 DEF AsRequest, PRRequests, CoreTypes
<1>3. CASE ReceiveHook(d) \/ CanonicalizeFails(d) \/ Lookup(d) \/ Create(d) \/ PostQueueFull(d)
  <2>1. /\ pc[d] \in {"idle", "lookup", "create", "full"}
        /\ pc'[d] \in {"lookup", "ignored", "full", "create", "supersede", "rejected"}
        /\ UNCHANGED <<chan, current, latestSHA, running, cause>>
        /\ \A e \in Deliveries : e # d => pc'[e] = pc[e] /\ req'[e] = req[e] /\ handle'[e] = handle[e]
        /\ handle'[d] = handle[d] => \A e \in Deliveries : handle'[e] = handle[e]
        /\ \A e \in Deliveries : worker[e] # "none" => worker'[e] = worker[e]
        /\ \A e \in Deliveries : worker[e] = "none" => worker'[e] \in {"none", "select"}
    <3>1. CASE ReceiveHook(d) \/ CanonicalizeFails(d) \/ Lookup(d) \/ PostQueueFull(d)
      BY <1>1, <3>1 DEF CoreTypes, ReceiveHook, CanonicalizeFails, Lookup, PostQueueFull
    <3>2. CASE Create(d)
      <4>1. StillMissing(req[d].repo) => worker[d] = "none"
        BY <1>1, <3>2 DEF CoreTypes, QueueInv, QueueObjects, Create
      <4> QED BY <1>1, <3>2, <4>1 DEF CoreTypes, Create
    <3> QED BY <1>3, <3>1, <3>2
  <2>2. ~Waits(d) /\ ~Waits(d)'
    <3>1. pc[d] # "accepted" /\ pc'[d] # "accepted"
      BY <2>1
    <3>2. Waits(d) => pc[d] = "accepted"
      BY PRFacts
    <3>3. Waits(d)' => pc'[d] = "accepted"
      <4>1. \A q \in Deliveries : \A i \in DOMAIN chan[q] : chan[q][i] # d
        BY <3>1 DEF QueueInv, RequestsInPlace, Belongs
      <4>2. \A q \in Deliveries : worker'[q] = "begin" => current'[q] # d
        BY <3>1 DEF QueueInv, RequestsInPlace, Belongs, Busy
      <4>3. handle'[d] # None => handle'[d] \in Deliveries
        BY DEF TypeOK
      <4> QED BY <2>1, <4>1, <4>2, <4>3 DEF Waits, AtBegin, InChannel, Holds
    <3> QED BY <3>1, <3>2, <3>3
  <2>3. \A e \in Deliveries : e # d => (Waits(e)' <=> Waits(e))
    <3> SUFFICES ASSUME NEW e \in Deliveries, e # d PROVE Waits(e)' <=> Waits(e)
      OBVIOUS
    <3>1. handle'[e] = handle[e] /\ (handle[e] # None => handle[e] \in Deliveries)
      BY <1>1, <2>1 DEF CoreTypes
    <3>2. handle[e] # None => (worker'[handle[e]] = "begin" <=> worker[handle[e]] = "begin")
      BY <2>1, <3>1
    <3> QED BY <2>1, <3>1, <3>2 DEF Waits, AtBegin, InChannel
  <2>4. \A e, f \in Deliveries : Waits(e) /\ Waits(f) => (Before(e, f)' <=> Before(e, f))
    <3> SUFFICES ASSUME NEW e \in Deliveries, NEW f \in Deliveries, Waits(e), Waits(f)
                 PROVE  Before(e, f)' <=> Before(e, f)
      OBVIOUS
    <3>1. e # d /\ f # d /\ handle[e] \in Deliveries
      BY <2>2, PRFacts
    <3>2. handle'[e] = handle[e] /\ handle'[f] = handle[f]
      BY <2>1, <3>1
    <3>3. worker'[handle[e]] = "begin" <=> worker[handle[e]] = "begin"
      BY <2>1, <3>1
    <3> QED BY <2>1, <3>2, <3>3 DEF Before, AtBegin, InChannel
  <2>5. UNCHANGED <<SendingOf(r, p), WaitingOf(r, p), AheadOf(r, p)>>
    <3>1. \A e \in Deliveries : pc[e] = "send" \/ pc'[e] = "send" \/ Waits(e) \/ Waits(e)' =>
           /\ req'[e] = req[e] /\ handle'[e] = handle[e]
           /\ pc'[e] = "send" <=> pc[e] = "send"
           /\ Waits(e)' <=> Waits(e)
      BY <2>1, <2>2, <2>3
    <3> QED BY <2>4, <3>1, SameLine
  <2>6. CASE queues'[r] = queues[r]
    <3>1. queues[r] # None => queues[r] \in Deliveries /\ worker[queues[r]] # "none"
      BY PRFacts
    <3>2. CheckOf(r, p) # None => CheckOf(r, p) \in Deliveries /\ pc[CheckOf(r, p)] = "accepted"
      BY PRFacts
    <3>3. CheckOf(r, p) # None => CheckOf(r, p) # d /\ CheckOf(r, p) \in Deliveries
      BY <2>1, <3>2
    <3>4. UNCHANGED <<LatestOf(r, p), CheckingOf(r, p), ContextOf(r, p), DrainingOf(r)>>
      BY <2>1, <2>6, <3>1, <3>3, SameCheck
    <3> QED BY <2>5, <3>4 DEF PRQ!vars
  <2>7. CASE queues'[r] # queues[r]
    <3>1. Create(d) /\ queues[r] = None /\ queues'[r] = d /\ worker[d] = "none" /\ worker'[d] = "select"
      <4>1. Create(d)
        BY <1>3, <2>7 DEF ReceiveHook, CanonicalizeFails, Lookup, PostQueueFull
      <4>2. StillMissing(req[d].repo) /\ r = req[d].repo
        BY <1>1, <2>7, <4>1 DEF Create, CoreTypes
      <4> QED BY <1>1, <4>1, <4>2 DEF Create, StillMissing, CoreTypes, QueueInv, QueueObjects
    <3>2. latestSHA[d][p] = None
      <4>1. \A e \in Deliveries : handle[e] # d
        BY <3>1 DEF QueueInv, HandlesFit
      <4> QED BY <4>1 DEF QueueInv, LatestWasRecorded
    <3>3. running[d][p] = None
      <4>1. running[d][p] \in Deliveries \cup {None}
        BY <1>1 DEF CoreTypes
      <4>2. \A e \in Deliveries : running[d][p] # e
        BY <3>1 DEF QueueInv, RunningIsCurrent
      <4> QED BY <4>1, <4>2
    <3>4. UNCHANGED <<LatestOf(r, p), CheckOf(r, p), CheckingOf(r, p), ContextOf(r, p), DrainingOf(r)>>
      BY <2>1, <3>1, <3>2, <3>3 DEF LatestOf, CheckOf, CheckingOf, ContextOf, DrainingOf
    <3> QED BY <2>5, <3>4 DEF PRQ!vars
  <2> QED BY <2>6, <2>7
<1>4. CASE Supersede(d)
  <2>1. PICK q \in Deliveries : q = handle[d] /\ q # None /\ queues[req[d].repo] = q
    <3>1. handle[d] # None
      BY <1>4 DEF Supersede, QueueInv, HandlesFit
    <3>2. handle[d] \in Deliveries /\ queues[req[d].repo] = handle[d]
      BY <3>1, PRFacts
    <3> QED BY <3>1, <3>2
  <2>2. /\ pc[d] = "supersede" /\ pc' = [pc EXCEPT ![d] = "send"]
        /\ latestSHA' = [latestSHA EXCEPT ![q][req[d].pr] = req[d].sha]
        /\ UNCHANGED <<req, handle, queues, chan, running, worker, current>>
    BY <1>4, <2>1 DEF Supersede
  <2>3. UNCHANGED <<WaitingOf(r, p), AheadOf(r, p), CheckOf(r, p), CheckingOf(r, p), DrainingOf(r)>>
    BY <2>2 DEF WaitingOf, AheadOf, InLine, CheckOf, CheckingOf, DrainingOf, IsOf, AtBegin, InChannel, Before
  <2>4. SendingOf(r, p)' = IF OfD THEN SendingOf(r, p) \cup {x0} ELSE SendingOf(r, p)
    <3>1. \A x \in PRRequests : x.id \in Deliveries /\ x = [id |-> x.id, commit |-> x.commit]
      BY DEF PRRequests
    <3>2. \A x \in PRRequests : IsOf(x, r, p)' <=> IsOf(x, r, p)
      BY <2>2 DEF IsOf
    <3>3. \A x \in PRRequests : pc'[x.id] = "send" <=> pc[x.id] = "send" \/ x.id = d
      BY <1>1, <2>2, <3>1 DEF CoreTypes
    <3>4. \A x \in PRRequests : IsOf(x, r, p) /\ x.id = d <=> x = x0 /\ OfD
      BY <1>2, <2>1, <3>1 DEF IsOf, AsRequest
    <3>5. /\ \A x : x \in SendingOf(r, p) <=> x \in PRRequests /\ pc[x.id] = "send" /\ IsOf(x, r, p)
          /\ \A x : x \in SendingOf(r, p)' <=> x \in PRRequests /\ pc'[x.id] = "send" /\ IsOf(x, r, p)'
      BY DEF SendingOf
    <3> HIDE DEF x0, OfD
    <3> QED BY <1>2, <3>2, <3>3, <3>4, <3>5
  <2>5. x0 \notin SendingOf(r, p) \cup WaitingOf(r, p)
    <3>1. pc[d] # "send" /\ ~Waits(d) /\ x0.id = d
      BY <2>2, PRFacts DEF AsRequest
    <3> QED BY <3>1 DEF SendingOf, WaitingOf, InLine, Waits, IsOf
  <2>6. LatestOf(r, p)' = IF OfD THEN req[d].sha ELSE LatestOf(r, p)
    <3>1. queues[r] # None => queues[r] \in Deliveries /\ req[queues[r]].repo = r
      BY PRFacts
    <3>2. req[d].repo # r => queues[r] # q
      <4>1. req[q].repo = req[d].repo
        BY <2>1 DEF QueueInv, HandlesFit
      <4> QED BY <2>1, <3>1, <4>1
    <3>3. req[d].repo = r => queues[r] = q
      BY <2>1
    <3>4. \A y \in Deliveries : latestSHA'[y][p] = IF y = q /\ p = req[d].pr THEN req[d].sha ELSE latestSHA[y][p]
      BY <1>1, <2>1, <2>2 DEF CoreTypes
    <3> QED BY <2>1, <2>2, <3>1, <3>2, <3>3, <3>4 DEF LatestOf
  <2>7. \A e \in Deliveries : cause'[e] = IF /\ e = running[q][req[d].pr] /\ req[e].sha # req[d].sha
                                             /\ cause[e] = "live"
                                          THEN "superseded" ELSE cause[e]
    BY <1>1, <1>4, <2>1 DEF CoreTypes, Supersede, CancelOtherCommit, Cancel
  <2>8. ContextOf(r, p)' = IF OfD /\ ContextOf(r, p) = "live" /\ CheckingOf(r, p) # req[d].sha
                           THEN "superseded" ELSE ContextOf(r, p)
    <3>1. CASE CheckOf(r, p) = None
      BY <2>3, <3>1 DEF ContextOf
    <3>2. CASE CheckOf(r, p) # None
      <4>1. PICK c \in Deliveries : /\ c = CheckOf(r, p) /\ handle[c] = queues[r] /\ queues[r] \in Deliveries
                                    /\ req[c].repo = r /\ req[c].pr = p
        BY <3>2, PRFacts
      <4>2. running[queues[r]][p] = c
        BY <4>1, <3>2 DEF CheckOf
      <4>3. c = running[q][req[d].pr] <=> OfD
        <5>1. CASE c = running[q][req[d].pr]
          <6>1. req[c].pr = req[d].pr /\ current[q] = c /\ worker[q] \in {"run", "end"}
            BY <1>1, <5>1 DEF QueueInv, RunningIsCurrent, CoreTypes
          <6>2. handle[c] = q
            BY <6>1 DEF QueueInv, RequestsInPlace, Belongs, Busy
          <6>3. req[q].repo = req[c].repo /\ req[q].repo = req[d].repo
            BY <2>1, <6>2 DEF QueueInv, HandlesFit
          <6> QED BY <4>1, <5>1, <6>1, <6>3
        <5>2. CASE OfD
          BY <2>1, <4>2, <5>2
        <5> QED BY <5>1, <5>2
      <4>4. ContextOf(r, p) = "live" <=> cause[c] = "live"
        BY <3>2, <4>1 DEF ContextOf
      <4>5. CheckingOf(r, p) = req[c].sha
        BY <3>2, <4>1 DEF CheckingOf
      <4>6. CheckOf(r, p)' = c /\ c # None
        BY <2>3, <4>1
      <4>7. /\ ContextOf(r, p) = IF cause[c] \in {"live", "superseded"} THEN cause[c] ELSE "dead"
            /\ ContextOf(r, p)' = IF cause'[c] \in {"live", "superseded"} THEN cause'[c] ELSE "dead"
        BY <4>1, <4>6 DEF ContextOf
      <4> QED BY <2>7, <4>3, <4>4, <4>5, <4>7
    <3> QED BY <3>1, <3>2
  <2>9. CASE OfD
    <3>1. PRQ(r, p)!Record(x0)
      BY <1>2, <2>3, <2>4, <2>5, <2>6, <2>8, <2>9 DEF PRQ!Record
    <3> QED BY <1>2, <3>1 DEF PRQ!Next
  <2>10. CASE ~OfD
    BY <2>3, <2>4, <2>6, <2>8, <2>10 DEF PRQ!vars
  <2> QED BY <2>9, <2>10
<1>5. CASE Send(d)
  <2>1. PICK q \in Deliveries : q = handle[d] /\ q # None /\ queues[req[d].repo] = q
    <3>1. handle[d] # None
      BY <1>5 DEF Send, QueueInv, HandlesFit
    <3>2. handle[d] \in Deliveries /\ queues[req[d].repo] = handle[d]
      BY <3>1, PRFacts
    <3> QED BY <3>1, <3>2
  <2>2. UNCHANGED <<req, handle, queues, latestSHA, running, worker, current, cause>> /\ pc[d] = "send"
    BY <1>5 DEF Send
  <2>3. UNCHANGED <<LatestOf(r, p), CheckingOf(r, p), ContextOf(r, p), DrainingOf(r)>>
    BY <2>2 DEF LatestOf, CheckOf, CheckingOf, ContextOf, DrainingOf
  <2>4. CASE HasRoom(q)
    <3>1. chan' = [chan EXCEPT ![q] = Append(chan[q], d)] /\ pc' = [pc EXCEPT ![d] = "accepted"]
      BY <1>5, <2>1, <2>4 DEF Send
    <3>2. ~Waits(d)
      BY <2>2, PRFacts
    <3>3. ~Holds(chan[q], d) /\ chan[q] \in Seq(Deliveries) /\ ~AtBegin(d)
      BY <1>1, <2>1, <3>2 DEF Waits, InChannel, CoreTypes
    <3>4. /\ chan'[q] = Append(chan[q], d) /\ pc'[d] = "accepted"
          /\ \A y \in Deliveries : y # q => chan'[y] = chan[y]
          /\ \A e \in Deliveries : e # d => pc'[e] = pc[e]
      BY <1>1, <3>1 DEF CoreTypes
    <3>5. \A e, f :
            /\ Holds(chan'[q], e) <=> Holds(chan[q], e) \/ e = d
            /\ Precedes(chan'[q], e, f) <=> Precedes(chan[q], e, f) \/ (f = d /\ Holds(chan[q], e))
      BY <3>3, <3>4, AppendLine
    <3>6. \A e \in Deliveries : handle[e] # None => handle[e] \in Deliveries
      BY <1>1 DEF CoreTypes
    <3>7. \A e \in Deliveries : Waits(e)' <=> Waits(e) \/ e = d
      <4> SUFFICES ASSUME NEW e \in Deliveries, handle[e] # None PROVE Waits(e)' <=> Waits(e) \/ e = d
        BY <2>1, <2>2 DEF Waits
      <4>1. CASE handle[e] = q
        BY <2>2, <3>5, <4>1 DEF Waits, AtBegin, InChannel
      <4>2. CASE handle[e] # q
        BY <2>1, <2>2, <3>4, <3>6, <4>2 DEF Waits, AtBegin, InChannel
      <4> QED BY <4>1, <4>2
    <3>8. \A e \in Deliveries : ~(Holds(chan[q], e) /\ e = d) /\ ~Precedes(chan[q], d, e) /\ ~Precedes(chan[q], e, d)
      BY <3>3 DEF Holds, Precedes
    <3>9. \A e, f \in Deliveries : Waits(e) /\ Waits(f) => (Before(e, f)' <=> Before(e, f))
      <4> SUFFICES ASSUME NEW e \in Deliveries, NEW f \in Deliveries, Waits(e), Waits(f), handle[e] = handle[f]
                   PROVE  Before(e, f)' <=> Before(e, f)
        BY <2>2 DEF Before
      <4>1. f # d /\ handle[e] \in Deliveries
        BY <3>2, <3>6 DEF Waits
      <4>2. CASE handle[e] = q
        BY <2>2, <3>5, <4>1, <4>2 DEF Before, AtBegin, InChannel
      <4>3. CASE handle[e] # q
        BY <2>2, <3>4, <4>1, <4>3 DEF Before, AtBegin, InChannel
      <4> QED BY <4>2, <4>3
    <3>10. ASSUME NEW e \in Deliveries
           PROVE  /\ Waits(e) /\ req[e].repo = r /\ req[d].repo = r => Before(e, d)'
                  /\ ~Before(d, e)'
      <4>1. Waits(e) /\ req[e].repo = r /\ req[d].repo = r => handle[e] = q
        BY <2>1, PRFacts DEF Waits
      <4>2. Waits(e) /\ handle[e] = q => Before(e, d)'
        BY <2>1, <2>2, <3>5 DEF Waits, Before, AtBegin, InChannel
      <4>3. ~Before(d, e)'
        BY <2>1, <2>2, <3>3, <3>5, <3>8 DEF Before, AtBegin
      <4> QED BY <4>1, <4>2, <4>3
    <3>11. /\ OfD =>
               /\ x0 \in SendingOf(r, p) /\ SendingOf(r, p)' = SendingOf(r, p) \ {x0}
               /\ WaitingOf(r, p)' = WaitingOf(r, p) \cup {x0}
               /\ AheadOf(r, p)' = [AheadOf(r, p) EXCEPT ![x0] = WaitingOf(r, p)]
           /\ ~OfD => UNCHANGED <<SendingOf(r, p), WaitingOf(r, p), AheadOf(r, p)>>
      <4>1. /\ pc[d] = "send" /\ pc'[d] # "send" /\ handle[d] # None /\ UNCHANGED <<req, handle>>
            /\ \A e \in Deliveries : e # d => pc'[e] = pc[e]
        BY <2>1, <2>2, <3>4
      <4>2. \A e \in Deliveries : /\ Waits(e) /\ req[e].repo = r /\ req[d].repo = r => Before(e, d)'
                                  /\ ~Before(d, e)'
        BY <3>10
      <4> HIDE DEF hookVars, queueVars
      <4> QED BY <1>1, <3>2, <3>7, <3>9, <4>1, <4>2, JoinLine
    <3>12. CASE OfD
      <4>1. PRQ(r, p)!Accept(x0)
        BY <2>3, <3>11, <3>12 DEF PRQ!Accept, PRQ!Sent
      <4> QED BY <1>2, <4>1 DEF PRQ!Next, PRQ!Accept, PRQ!Sent
    <3>13. CASE ~OfD
      BY <2>3, <3>11, <3>13 DEF PRQ!vars
    <3> QED BY <3>12, <3>13
  <2>5. CASE ~HasRoom(q)
    <3>1. chan' = chan /\ pc' = [pc EXCEPT ![d] = "full"]
      BY <1>5, <2>1, <2>5 DEF Send
    <3>2. UNCHANGED <<WaitingOf(r, p), AheadOf(r, p)>>
      BY <2>2, <3>1 DEF WaitingOf, AheadOf, InLine, IsOf, AtBegin, InChannel, Before
    <3>3. /\ OfD => x0 \in SendingOf(r, p)
          /\ SendingOf(r, p)' = IF OfD THEN SendingOf(r, p) \ {x0} ELSE SendingOf(r, p)
      <4>1. \A x \in PRRequests : x.id \in Deliveries /\ x = [id |-> x.id, commit |-> x.commit]
        BY DEF PRRequests
      <4>2. \A x \in PRRequests : IsOf(x, r, p)' <=> IsOf(x, r, p)
        BY <2>2 DEF IsOf
      <4>3. \A x \in PRRequests : pc'[x.id] = "send" <=> pc[x.id] = "send" /\ x.id # d
        BY <1>1, <3>1, <4>1 DEF CoreTypes
      <4>4. \A x \in PRRequests : IsOf(x, r, p) /\ x.id = d <=> x = x0 /\ OfD
        BY <1>2, <2>1, <4>1 DEF IsOf, AsRequest
      <4>5. /\ \A x : x \in SendingOf(r, p) <=> x \in PRRequests /\ pc[x.id] = "send" /\ IsOf(x, r, p)
            /\ \A x : x \in SendingOf(r, p)' <=> x \in PRRequests /\ pc'[x.id] = "send" /\ IsOf(x, r, p)'
        BY DEF SendingOf
      <4> HIDE DEF x0, OfD
      <4> QED BY <1>2, <2>2, <4>2, <4>3, <4>4, <4>5
    <3>4. CASE OfD
      <4>1. PRQ(r, p)!Reject(x0)
        BY <2>3, <3>2, <3>3, <3>4 DEF PRQ!Reject, PRQ!Sent
      <4> QED BY <1>2, <4>1 DEF PRQ!Next, PRQ!Reject, PRQ!Sent
    <3>5. CASE ~OfD
      BY <2>3, <3>2, <3>3, <3>5 DEF PRQ!vars
    <3> QED BY <3>4, <3>5
  <2> QED BY <2>4, <2>5
<1> QED BY <1>3, <1>4, <1>5 DEF Handler

(* The worker's steps on the line of its queue: receiving from the channel *)
(* changes nothing, beginning or draining lets the first one go.           *)
LEMMA WorkerLine ==
  ASSUME TypeOK, QueueInv, LineInv, NEW r, NEW p, NEW q \in Deliveries,
         UNCHANGED <<pc, req, handle>>,
         \A x \in Deliveries : x # q =>
           worker'[x] = worker[x] /\ chan'[x] = chan[x] /\ current'[x] = current[x]
  PROVE  /\ \/ /\ worker[q] = "select" /\ chan[q] # << >> /\ chan'[q] = Tail(chan[q])
               /\ worker'[q] = "begin" /\ current'[q] = Head(chan[q])
            \/ worker[q] # "begin" /\ worker'[q] # "begin" /\ chan'[q] = chan[q]
           => UNCHANGED <<SendingOf(r, p), WaitingOf(r, p), AheadOf(r, p)>>
         /\ \A d \in Deliveries :
              /\ handle[d] = q /\ worker'[q] # "begin"
              /\ \/ worker[q] = "begin" /\ current[q] = d /\ chan'[q] = chan[q]
                 \/ worker[q] # "begin" /\ chan[q] # << >> /\ d = Head(chan[q]) /\ chan'[q] = Tail(chan[q])
              =>
              Departs(r, p, d)
<1> USE NoneAssumption
<1>1. CoreTypes /\ \A e \in Deliveries : handle[e] # None => handle[e] \in Deliveries
  BY TypeOKCore DEF CoreTypes
<1>2. chan[q] \in Seq(Deliveries) /\ Distinct(chan[q])
  BY <1>1 DEF LineInv, Lined, CoreTypes
(* Another queue's line is as it was. *)
<1>3. \A e, f \in Deliveries : handle[e] # None /\ handle[e] # q =>
        (Waits(e)' <=> Waits(e)) /\ (Before(e, f)' <=> Before(e, f))
  BY <1>1 DEF Waits, Before, AtBegin, InChannel
(* This queue's line before and after. *)
<1>4. /\ \A e \in Deliveries : handle[e] = q =>
           /\ Waits(e) <=> (worker[q] = "begin" /\ current[q] = e) \/ Holds(chan[q], e)
           /\ Waits(e)' <=> (worker'[q] = "begin" /\ current'[q] = e) \/ Holds(chan'[q], e)
      /\ \A e, f \in Deliveries : handle[e] = q /\ handle[f] = q =>
           /\ Before(e, f) <=> \/ worker[q] = "begin" /\ current[q] = e /\ Holds(chan[q], f)
                              \/ Precedes(chan[q], e, f)
           /\ Before(e, f)' <=> \/ worker'[q] = "begin" /\ current'[q] = e /\ Holds(chan'[q], f)
                               \/ Precedes(chan'[q], e, f)
  BY DEF Waits, Before, AtBegin, InChannel
<1> DEFINE h == Head(chan[q])
           t == Tail(chan[q])
<1>5. ASSUME chan[q] # << >>, NEW e, NEW f
      PROVE  /\ Holds(t, e) <=> Holds(chan[q], e) /\ e # h
             /\ Precedes(t, e, f) <=> Precedes(chan[q], e, f) /\ e # h
             /\ Precedes(chan[q], h, f) <=> Holds(chan[q], f) /\ f # h
             /\ ~Precedes(chan[q], e, h)
             /\ Holds(chan[q], h)
  <2>1. Holds(chan[q], h)
    <3>1. 1 \in DOMAIN chan[q] /\ h = chan[q][1]
      BY <1>2, <1>5
    <3> QED BY <3>1 DEF Holds
  <2>2. Holds(t, e) <=> Holds(chan[q], e) /\ e # h
    BY <1>2, <1>5, TailHolds
  <2>3. Precedes(t, e, f) <=> Precedes(chan[q], e, f) /\ e # h
    BY <1>2, <1>5, TailPrecedes
  <2>4. (Precedes(chan[q], h, f) <=> Holds(chan[q], f) /\ f # h) /\ ~Precedes(chan[q], e, h)
    <3>1. Precedes(chan[q], h, f) <=> Holds(chan[q], f) /\ f # h
      BY <1>2, <1>5, HeadPrecedes
    <3>2. ~Precedes(chan[q], e, h)
      BY <1>2, <1>5, HeadPrecedes
    <3> QED BY <3>1, <3>2
  <2> QED BY <2>1, <2>2, <2>3, <2>4
<1> HIDE DEF h, t
<1>6. \A e, f \in Deliveries : Waits(e) \/ Waits(e)' => handle[e] # None
  BY DEF Waits
<1>7. ASSUME \/ /\ worker[q] = "select" /\ chan[q] # << >> /\ chan'[q] = Tail(chan[q])
                /\ worker'[q] = "begin" /\ current'[q] = Head(chan[q])
             \/ worker[q] # "begin" /\ worker'[q] # "begin" /\ chan'[q] = chan[q]
      PROVE  UNCHANGED <<SendingOf(r, p), WaitingOf(r, p), AheadOf(r, p)>>
  <2>1. ASSUME NEW e \in Deliveries, NEW f \in Deliveries, handle[e] = q, handle[f] = q
        PROVE  (Waits(e)' <=> Waits(e)) /\ (Before(e, f)' <=> Before(e, f))
    <3>1. CASE worker[q] # "begin" /\ worker'[q] # "begin" /\ chan'[q] = chan[q]
      BY <1>4, <2>1, <3>1
    <3>2. CASE /\ worker[q] = "select" /\ chan[q] # << >> /\ chan'[q] = t
               /\ worker'[q] = "begin" /\ current'[q] = h
      <4>1. (Waits(e) <=> Holds(chan[q], e)) /\ (Before(e, f) <=> Precedes(chan[q], e, f))
        BY <1>4, <2>1, <3>2
      <4>2. /\ Waits(e)' <=> h = e \/ Holds(t, e)
            /\ Before(e, f)' <=> (h = e /\ Holds(t, f)) \/ Precedes(t, e, f)
        BY <1>4, <2>1, <3>2
      <4>3. /\ Holds(t, e) <=> Holds(chan[q], e) /\ e # h
            /\ Holds(t, f) <=> Holds(chan[q], f) /\ f # h
            /\ Precedes(t, e, f) <=> Precedes(chan[q], e, f) /\ e # h
            /\ Precedes(chan[q], h, f) <=> Holds(chan[q], f) /\ f # h
            /\ Holds(chan[q], h)
        BY <1>5, <3>2
      <4> QED BY <4>1, <4>2, <4>3
    <3> QED BY <1>7, <3>1, <3>2 DEF h, t
  <2>3. \A e \in Deliveries : Waits(e)' <=> Waits(e)
    BY <1>3, <1>6, <2>1
  <2>4. \A e, f \in Deliveries : Waits(e) /\ Waits(f) => (Before(e, f)' <=> Before(e, f))
    <3>1. \A e, f \in Deliveries : handle[e] # handle[f] => ~Before(e, f) /\ ~Before(e, f)'
      BY DEF Before
    <3> QED BY <1>3, <1>6, <2>1, <3>1
  <2>5. \A d \in Deliveries : pc[d] = "send" \/ pc'[d] = "send" \/ Waits(d) \/ Waits(d)' =>
           /\ req'[d] = req[d] /\ handle'[d] = handle[d]
           /\ pc'[d] = "send" <=> pc[d] = "send"
           /\ Waits(d)' <=> Waits(d)
    BY <2>3
  <2> QED BY <2>4, <2>5, SameLine
<1>8. ASSUME NEW d \in Deliveries, handle[d] = q, worker'[q] # "begin",
             \/ worker[q] = "begin" /\ current[q] = d /\ chan'[q] = chan[q]
             \/ worker[q] # "begin" /\ chan[q] # << >> /\ d = Head(chan[q]) /\ chan'[q] = Tail(chan[q])
      PROVE  Departs(r, p, d)
  <2>1. worker[q] = "begin" => ~Holds(chan[q], d)
    BY <1>8 DEF LineInv, Lined, Holds
  <2>2. ~Holds(chan[q], d) => \A e : ~Precedes(chan[q], e, d) /\ ~Precedes(chan[q], d, e)
    BY DEF Holds, Precedes
  <2>3. ASSUME NEW e \in Deliveries, NEW f \in Deliveries, handle[e] = q, handle[f] = q
        PROVE  /\ Waits(e)' <=> Waits(e) /\ e # d
               /\ e # d => (Before(e, f)' <=> Before(e, f))
               /\ ~Before(e, d)
               /\ Waits(d)
    <3>1. CASE worker[q] = "begin" /\ current[q] = d /\ chan'[q] = chan[q]
      <4>1. /\ Waits(e) <=> d = e \/ Holds(chan[q], e)
            /\ Before(e, f) <=> (d = e /\ Holds(chan[q], f)) \/ Precedes(chan[q], e, f)
            /\ Before(e, d) <=> (d = e /\ Holds(chan[q], d)) \/ Precedes(chan[q], e, d)
            /\ Waits(d)
        BY <1>4, <1>8, <2>3, <3>1
      <4>2. (Waits(e)' <=> Holds(chan[q], e)) /\ (Before(e, f)' <=> Precedes(chan[q], e, f))
        BY <1>4, <1>8, <2>3, <3>1
      <4> QED BY <2>1, <2>2, <3>1, <4>1, <4>2
    <3>2. CASE worker[q] # "begin" /\ chan[q] # << >> /\ d = h /\ chan'[q] = t
      <4>1. /\ Waits(e) <=> Holds(chan[q], e)
            /\ Before(e, f) <=> Precedes(chan[q], e, f)
            /\ Before(e, d) <=> Precedes(chan[q], e, d)
            /\ Waits(d) <=> Holds(chan[q], d)
        BY <1>4, <1>8, <2>3, <3>2
      <4>2. (Waits(e)' <=> Holds(t, e)) /\ (Before(e, f)' <=> Precedes(t, e, f))
        BY <1>4, <1>8, <2>3, <3>2
      <4>3. /\ Holds(t, e) <=> Holds(chan[q], e) /\ e # h
            /\ Precedes(t, e, f) <=> Precedes(chan[q], e, f) /\ e # h
            /\ ~Precedes(chan[q], e, h)
            /\ Holds(chan[q], h)
        BY <1>5, <3>2
      <4> QED BY <3>2, <4>1, <4>2, <4>3
    <3> QED BY <1>8, <3>1, <3>2 DEF h, t
  <2>4. \A e \in Deliveries : ~Before(e, d)
    <3> SUFFICES ASSUME NEW e \in Deliveries, handle[e] = q PROVE ~Before(e, d)
      BY <1>8 DEF Before
    <3> QED BY <1>8, <2>3
  <2>6. Waits(d)
    BY <1>8, <2>3
  <2>7. \A e \in Deliveries : Waits(e)' <=> Waits(e) /\ e # d
    BY <1>3, <1>6, <1>8, <2>3
  <2>8. \A e, f \in Deliveries : Waits(e)' /\ Waits(f)' => (Before(e, f)' <=> Before(e, f))
    <3>1. \A e, f \in Deliveries : handle[e] # handle[f] => ~Before(e, f) /\ ~Before(e, f)'
      BY DEF Before
    <3> QED BY <1>3, <1>6, <2>3, <2>7, <3>1
  <2> QED BY <1>1, <2>4, <2>6, <2>7, <2>8, LeaveLine
<1> QED BY <1>7, <1>8

(* The worker's steps: begin skips the first request or checks it, a       *)
(* timeout expires a check, end ends it, and a queue that is shut down     *)
(* drains.                                                                 *)
LEMMA WorkerPR ==
  ASSUME TypeOK, QueueInv, QueueInv', LineInv, NEW r \in Repos, NEW p \in PRs,
         NEW q \in Deliveries, Worker(q) \/ TimeoutCheck(q)
  PROVE  [PRQ(r, p)!Next]_(PRQ(r, p)!vars)
<1> USE NoneAssumption DEF hookVars, queueVars, Step
<1>1. CoreTypes
  BY TypeOKCore
<1>2. /\ UNCHANGED <<pc, req, handle, queues>>
      /\ \A x \in Deliveries : x # q =>
           worker'[x] = worker[x] /\ chan'[x] = chan[x] /\ current'[x] = current[x]
  <2>1. CASE TakeRequest(q) \/ Begin(q) \/ FinishCheck(q) \/ End(q) \/ TimeoutCheck(q)
    BY <1>1, <2>1 DEF CoreTypes, TakeRequest, Begin, FinishCheck, End, TimeoutCheck
  <2>2. CASE SeeDone(q) \/ DrainOne(q) \/ DrainedAll(q) \/ NotifiedAll(q) \/ \E p1 \in PRs : NotifyOne(q, p1)
    BY <1>1, <2>2 DEF CoreTypes, SeeDone, DrainOne, DrainedAll, NotifiedAll, NotifyOne
  <2> QED BY <2>1, <2>2 DEF Worker
(* Other repositories' queues do not see it. *)
<1>3. /\ queues[r] # None => queues[r] \in Deliveries
      /\ CheckOf(r, p) # None => /\ CheckOf(r, p) \in Deliveries /\ current[queues[r]] = CheckOf(r, p)
                                /\ queues[r] \in Deliveries /\ worker[queues[r]] \in {"run", "end"}
                                /\ handle[CheckOf(r, p)] = queues[r] /\ req[CheckOf(r, p)].pr = p
  BY PRFacts
<1>4. Busy(q) => current[q] \in Deliveries /\ handle[current[q]] = q
  BY <1>1 DEF QueueInv, RequestsInPlace, Belongs, CoreTypes
<1>5. \A d \in Deliveries : handle[d] = q => queues[req[d].repo] = q /\ (queues[r] = q <=> req[d].repo = r)
  <2> SUFFICES ASSUME NEW d \in Deliveries, handle[d] = q
               PROVE  queues[req[d].repo] = q /\ (queues[r] = q <=> req[d].repo = r)
    OBVIOUS
  <2>1. queues[req[d].repo] = q /\ req[q].repo = req[d].repo
    BY PRFacts DEF QueueInv, HandlesFit
  <2>2. queues[r] = q => req[q].repo = r
    BY PRFacts
  <2> QED BY <2>1, <2>2
<1>6. CASE TakeRequest(q) \/ FinishCheck(q) \/ DrainedAll(q) \/ NotifiedAll(q)
           \/ \E p1 \in PRs : NotifyOne(q, p1)
  <2>1. /\ \/ /\ worker[q] = "select" /\ chan[q] # << >> /\ chan'[q] = Tail(chan[q])
              /\ worker'[q] = "begin" /\ current'[q] = Head(chan[q])
           \/ worker[q] # "begin" /\ worker'[q] # "begin" /\ chan'[q] = chan[q]
        /\ worker'[q] \in {"drain", "notify", "exited"} <=> worker[q] \in {"drain", "notify", "exited"}
        /\ UNCHANGED <<latestSHA, running, cause>>
    <3>1. CASE TakeRequest(q)
      <4>1. /\ worker[q] = "select" /\ chan[q] # << >> /\ UNCHANGED <<latestSHA, running, cause>>
            /\ worker' = [worker EXCEPT ![q] = "begin"] /\ chan' = [chan EXCEPT ![q] = Tail(chan[q])]
            /\ current' = [current EXCEPT ![q] = Head(chan[q])]
        BY <3>1 DEF TakeRequest
      <4>2. worker'[q] = "begin" /\ chan'[q] = Tail(chan[q]) /\ current'[q] = Head(chan[q])
        BY <1>1, <4>1 DEF CoreTypes
      <4> QED BY <4>1, <4>2
    <3>2. CASE FinishCheck(q) \/ DrainedAll(q) \/ NotifiedAll(q) \/ \E p1 \in PRs : NotifyOne(q, p1)
      <4>1. /\ worker[q] # "begin" /\ worker'[q] # "begin" /\ UNCHANGED <<chan, latestSHA, running, cause>>
            /\ worker'[q] \in {"drain", "notify", "exited"} <=> worker[q] \in {"drain", "notify", "exited"}
        BY <1>1, <3>2 DEF CoreTypes, FinishCheck, DrainedAll, NotifiedAll, NotifyOne
      <4> QED BY <4>1
    <3> QED BY <1>6, <3>1, <3>2
  <2>2. UNCHANGED <<SendingOf(r, p), WaitingOf(r, p), AheadOf(r, p)>>
    <3>1. UNCHANGED <<pc, req, handle>>
      BY <1>2
    <3> QED BY <1>2, <2>1, <3>1, WorkerLine
  <2>3. UNCHANGED <<LatestOf(r, p), CheckingOf(r, p), ContextOf(r, p), DrainingOf(r)>>
    <3>1. queues[r] # None =>
            (worker'[queues[r]] \in {"drain", "notify", "exited"} <=> worker[queues[r]] \in {"drain", "notify", "exited"})
      BY <1>2, <1>3, <2>1
    <3> QED BY <1>2, <2>1, <3>1, SameCheck
  <2> QED BY <2>2, <2>3 DEF PRQ!vars
<1>7. CASE TimeoutCheck(q)
  <2>1. /\ worker[q] = "run" /\ cause[current[q]] = "live" /\ current[q] \in Deliveries
        /\ cause' = [cause EXCEPT ![current[q]] = "deadline"]
        /\ UNCHANGED <<chan, latestSHA, running, worker, current>>
    BY <1>4, <1>7 DEF TimeoutCheck, Cancel, Busy
  <2>2. UNCHANGED <<SendingOf(r, p), WaitingOf(r, p), AheadOf(r, p), LatestOf(r, p), CheckOf(r, p),
                    CheckingOf(r, p), DrainingOf(r)>>
    BY <1>2, <2>1 DEF SendingOf, WaitingOf, AheadOf, InLine, LatestOf, CheckOf, CheckingOf, DrainingOf,
                      IsOf, AtBegin, InChannel, Before
  <2>3. CASE CheckOf(r, p) = current[q]
    <3>1. ContextOf(r, p) = "live" /\ ContextOf(r, p)' = "dead"
      BY <1>1, <2>1, <2>2, <2>3 DEF ContextOf, CoreTypes
    <3>2. PRQ(r, p)!Expire
      BY <2>2, <3>1 DEF PRQ!Expire
    <3> QED BY <3>2 DEF PRQ!Next
  <2>4. CASE CheckOf(r, p) # current[q]
    <3>1. CheckOf(r, p) # None => cause'[CheckOf(r, p)] = cause[CheckOf(r, p)]
      BY <1>1, <1>3, <2>1, <2>4 DEF CoreTypes
    <3>2. ContextOf(r, p)' = ContextOf(r, p)
      BY <2>2, <3>1 DEF ContextOf
    <3> QED BY <2>2, <3>2 DEF PRQ!vars
  <2> QED BY <2>3, <2>4
<1>8. CASE Begin(q)
  <2>1. PICK d \in Deliveries : /\ d = current[q] /\ handle[d] = q /\ worker[q] = "begin"
                                /\ AsRequest(d) \in PRRequests /\ AsRequest(d).commit = req[d].sha
    BY <1>1, <1>4, <1>8 DEF Begin, Busy, AsRequest, PRRequests, CoreTypes
  <2>2. worker'[q] \in {"select", "run"} /\ chan' = chan /\ latestSHA' = latestSHA
    BY <1>1, <1>8 DEF Begin, CoreTypes
  <2>3. Departs(r, p, d)
    <3>1. UNCHANGED <<pc, req, handle>> /\ worker'[q] # "begin" /\ chan'[q] = chan[q]
      BY <1>2, <2>2
    <3>2. /\ handle[d] = q /\ worker'[q] # "begin"
          /\ \/ worker[q] = "begin" /\ current[q] = d /\ chan'[q] = chan[q]
             \/ worker[q] # "begin" /\ chan[q] # << >> /\ d = Head(chan[q]) /\ chan'[q] = Tail(chan[q])
      BY <2>1, <3>1
    <3> QED BY <1>2, <3>1, <3>2, WorkerLine
  <2>4. UNCHANGED <<LatestOf(r, p), DrainingOf(r)>>
    <3>1. queues[r] # None =>
            (worker'[queues[r]] \in {"drain", "notify", "exited"} <=> worker[queues[r]] \in {"drain", "notify", "exited"})
      BY <1>2, <1>3, <2>1, <2>2
    <3> QED BY <1>2, <2>2, <3>1 DEF LatestOf, DrainingOf
  <2>5. queues[r] = q => CheckOf(r, p) = None /\ ~DrainingOf(r) /\ LatestOf(r, p) = latestSHA[q][p]
    BY <1>3, <2>1 DEF DrainingOf, LatestOf
  <2>6. CASE MovedPast(q, d)
    <3>1. running' = running /\ cause' = cause
      BY <1>8, <2>1, <2>6 DEF Begin
    <3>2. UNCHANGED <<CheckOf(r, p), CheckingOf(r, p), ContextOf(r, p)>>
      BY <1>2, <3>1 DEF CheckOf, CheckingOf, ContextOf
    <3>3. CASE req[d].repo = r /\ req[d].pr = p
      <4>1. queues[r] = q
        BY <1>5, <2>1, <3>3
      <4>2. LatestOf(r, p) \notin {None, AsRequest(d).commit} /\ CheckingOf(r, p) = None
        BY <2>1, <2>5, <2>6, <3>3, <4>1 DEF MovedPast, CheckingOf
      <4>3. PRQ(r, p)!Skip(AsRequest(d))
        BY <2>3, <2>4, <2>5, <3>2, <3>3, <4>1, <4>2 DEF PRQ!Skip, PRQ!Leave, Departs
      <4> QED BY <2>1, <4>3 DEF PRQ!Next, PRQ!Skip, PRQ!Leave
    <3>4. CASE ~(req[d].repo = r /\ req[d].pr = p)
      BY <2>3, <2>4, <3>2, <3>4 DEF PRQ!vars, Departs
    <3> QED BY <3>3, <3>4
  <2>7. CASE ~MovedPast(q, d)
    <3>1. /\ running' = [running EXCEPT ![q][req[d].pr] = d]
          /\ \E c \in {"live", "canceled"} : cause' = [cause EXCEPT ![d] = c]
      BY <1>8, <2>1, <2>7 DEF Begin, NewContext
    <3>2. \A y \in Deliveries : running'[y][p] = IF y = q /\ p = req[d].pr THEN d ELSE running[y][p]
      BY <1>1, <2>1, <3>1 DEF CoreTypes
    <3>3. CASE req[d].repo = r /\ req[d].pr = p
      <4>1. queues[r] = q /\ d # None /\ q # None
        BY <1>5, <2>1, <3>3
      <4>2. LatestOf(r, p) \in {None, AsRequest(d).commit} /\ CheckingOf(r, p) = None
        BY <2>1, <2>5, <2>7, <3>3, <4>1 DEF MovedPast, CheckingOf
      <4>3. CheckOf(r, p)' = d
        BY <1>2, <3>2, <3>3, <4>1 DEF CheckOf
      <4>4. CheckingOf(r, p)' = AsRequest(d).commit
        BY <1>2, <2>1, <4>1, <4>3 DEF CheckingOf
      <4>5. ContextOf(r, p)' \in {"live", "dead"}
        <5>1. cause'[d] \in {"live", "canceled"}
          BY <1>1, <3>1 DEF CoreTypes
        <5> QED BY <4>1, <4>3, <5>1 DEF ContextOf
      <4>6. PRQ(r, p)!Begin(AsRequest(d))
        BY <2>3, <2>4, <2>5, <3>3, <4>1, <4>2, <4>4, <4>5 DEF PRQ!Begin, PRQ!Leave, Departs
      <4> QED BY <2>1, <4>6 DEF PRQ!Next, PRQ!Begin, PRQ!Leave
    <3>4. CASE ~(req[d].repo = r /\ req[d].pr = p)
      <4>1. CheckOf(r, p)' = CheckOf(r, p)
        <5>1. queues[r] = q => p # req[d].pr
          BY <1>5, <2>1, <3>4
        <5> QED BY <1>2, <1>3, <3>2, <5>1 DEF CheckOf
      <4>2. CheckOf(r, p) # None => cause'[CheckOf(r, p)] = cause[CheckOf(r, p)]
        <5>1. CheckOf(r, p) # None => CheckOf(r, p) # d /\ CheckOf(r, p) \in Deliveries
          BY <1>3, <2>1, <2>5
        <5> QED BY <1>1, <3>1, <5>1 DEF CoreTypes
      <4>3. UNCHANGED <<CheckingOf(r, p), ContextOf(r, p)>>
        BY <1>2, <4>1, <4>2 DEF CheckingOf, ContextOf
      <4> QED BY <2>3, <2>4, <3>4, <4>3 DEF PRQ!vars, Departs
    <3> QED BY <3>3, <3>4
  <2> QED BY <2>6, <2>7
<1>9. CASE End(q)
  <2>1. PICK d \in Deliveries : /\ d = current[q] /\ handle[d] = q /\ worker[q] = "end"
                                /\ running[q][req[d].pr] = d /\ req[d].pr \in PRs /\ d # None
    <3>1. current[q] \in Deliveries /\ handle[current[q]] = q /\ worker[q] = "end" /\ req[current[q]].pr \in PRs
      BY <1>1, <1>4, <1>9 DEF End, Busy, CoreTypes
    <3> QED BY <3>1 DEF QueueInv, RunningIsCurrent
  <2>2. /\ running' = [running EXCEPT ![q][req[d].pr] = None]
        /\ \A e \in Deliveries : e # d => cause'[e] = cause[e]
        /\ latestSHA' = IF latestSHA[q][req[d].pr] = req[d].sha
                        THEN [latestSHA EXCEPT ![q][req[d].pr] = None] ELSE latestSHA
        /\ worker'[q] = "select" /\ chan' = chan
    BY <1>1, <1>9, <2>1 DEF End, Unregister, Cancel, CoreTypes
  <2>3. UNCHANGED <<SendingOf(r, p), WaitingOf(r, p), AheadOf(r, p)>>
    <3>1. UNCHANGED <<pc, req, handle>> /\ worker[q] # "begin" /\ worker'[q] # "begin" /\ chan'[q] = chan[q]
      BY <1>2, <2>1, <2>2
    <3> QED BY <1>2, <3>1, WorkerLine
  <2>4. DrainingOf(r)' = DrainingOf(r)
    BY <1>2, <1>3, <2>1, <2>2 DEF DrainingOf
  <2>5. \A y \in Deliveries :
          /\ running'[y][p] = IF y = q /\ p = req[d].pr THEN None ELSE running[y][p]
          /\ latestSHA'[y][p] = IF y = q /\ p = req[d].pr /\ latestSHA[y][p] = req[d].sha
                                THEN None ELSE latestSHA[y][p]
    BY <1>1, <2>1, <2>2 DEF CoreTypes
  <2>6. CASE req[d].repo = r /\ req[d].pr = p
    <3>1. queues[r] = q /\ q # None
      BY <1>5, <2>1, <2>6
    <3>2. CheckOf(r, p) = d /\ CheckOf(r, p)' = None
      BY <1>2, <2>1, <2>5, <2>6, <3>1 DEF CheckOf
    <3>3. CheckingOf(r, p) = req[d].sha /\ CheckingOf(r, p)' = None /\ ContextOf(r, p)' = "none"
      BY <2>1, <3>2 DEF CheckingOf, ContextOf
    <3>4. LatestOf(r, p)' = IF LatestOf(r, p) = CheckingOf(r, p) THEN None ELSE LatestOf(r, p)
      BY <1>2, <2>5, <2>6, <3>1, <3>3 DEF LatestOf
    <3>5. CheckingOf(r, p) # None
      BY <1>1, <3>3 DEF CoreTypes
    <3>6. PRQ(r, p)!End
      BY <2>3, <2>4, <3>3, <3>4, <3>5 DEF PRQ!End
    <3> QED BY <3>6 DEF PRQ!Next
  <2>7. CASE ~(req[d].repo = r /\ req[d].pr = p)
    <3>1. queues[r] = q => p # req[d].pr
      BY <1>5, <2>1, <2>7
    <3>2. UNCHANGED <<CheckOf(r, p), LatestOf(r, p)>>
      BY <1>2, <1>3, <2>5, <3>1 DEF CheckOf, LatestOf
    <3>3. CheckOf(r, p) # None => CheckOf(r, p) # d /\ CheckOf(r, p) \in Deliveries
      BY <1>3, <2>1, <2>7, <3>1
    <3>4. UNCHANGED <<CheckingOf(r, p), ContextOf(r, p)>>
      BY <1>2, <2>2, <3>2, <3>3 DEF CheckingOf, ContextOf
    <3> QED BY <2>3, <2>4, <3>2, <3>4 DEF PRQ!vars
  <2> QED BY <2>6, <2>7
<1>10. CASE SeeDone(q)
  <2>1. /\ worker[q] = "select" /\ worker'[q] \in {"drain", "exited"}
        /\ UNCHANGED <<chan, latestSHA, running, cause>>
    BY <1>1, <1>10 DEF SeeDone, CoreTypes
  <2>2. UNCHANGED <<SendingOf(r, p), WaitingOf(r, p), AheadOf(r, p)>>
    <3>1. UNCHANGED <<pc, req, handle>> /\ worker[q] # "begin" /\ worker'[q] # "begin" /\ chan'[q] = chan[q]
      BY <1>2, <2>1
    <3> QED BY <1>2, <3>1, WorkerLine
  <2>3. UNCHANGED <<LatestOf(r, p), CheckOf(r, p), CheckingOf(r, p), ContextOf(r, p)>>
    BY <1>2, <2>1 DEF LatestOf, CheckOf, CheckingOf, ContextOf
  <2>4. CASE queues[r] = q
    <3>1. CheckingOf(r, p) = None
      BY <1>3, <2>1, <2>4 DEF CheckingOf
    <3>2. ~DrainingOf(r) /\ DrainingOf(r)' = TRUE
      BY <1>2, <2>1, <2>4 DEF DrainingOf
    <3>3. PRQ(r, p)!Drain
      BY <2>2, <2>3, <3>1, <3>2 DEF PRQ!Drain
    <3> QED BY <3>3 DEF PRQ!Next
  <2>5. CASE queues[r] # q
    <3>1. DrainingOf(r)' = DrainingOf(r)
      BY <1>2, <1>3, <2>5 DEF DrainingOf
    <3> QED BY <2>2, <2>3, <3>1 DEF PRQ!vars
  <2> QED BY <2>4, <2>5
<1>11. CASE DrainOne(q)
  <2>1. /\ worker[q] = "drain" /\ worker' = worker /\ chan[q] # << >> /\ chan'[q] = Tail(chan[q])
        /\ UNCHANGED <<latestSHA, running, cause>>
    BY <1>1, <1>11 DEF DrainOne, CoreTypes
  <2>2. PICK d \in Deliveries : /\ d = Head(chan[q]) /\ handle[d] = q /\ AsRequest(d) \in PRRequests
    <3>1. 1 \in DOMAIN chan[q] /\ Head(chan[q]) = chan[q][1] /\ chan[q][1] \in Deliveries
      BY <1>1, <2>1 DEF CoreTypes
    <3>2. handle[chan[q][1]] = q
      BY <3>1 DEF QueueInv, RequestsInPlace, Belongs
    <3>3. AsRequest(chan[q][1]) \in PRRequests
      BY <1>1, <3>1 DEF AsRequest, PRRequests, CoreTypes
    <3> QED BY <3>1, <3>2, <3>3
  <2>3. Departs(r, p, d)
    <3>1. UNCHANGED <<pc, req, handle>> /\ worker[q] # "begin" /\ worker'[q] # "begin"
      BY <1>2, <2>1
    <3>2. /\ handle[d] = q /\ worker'[q] # "begin"
          /\ \/ worker[q] = "begin" /\ current[q] = d /\ chan'[q] = chan[q]
             \/ worker[q] # "begin" /\ chan[q] # << >> /\ d = Head(chan[q]) /\ chan'[q] = Tail(chan[q])
      BY <2>1, <2>2, <3>1
    <3> QED BY <1>2, <3>1, <3>2, WorkerLine
  <2>4. UNCHANGED <<LatestOf(r, p), CheckOf(r, p), CheckingOf(r, p), ContextOf(r, p), DrainingOf(r)>>
    BY <1>2, <2>1 DEF LatestOf, CheckOf, CheckingOf, ContextOf, DrainingOf
  <2>5. CASE req[d].repo = r /\ req[d].pr = p
    <3>1. queues[r] = q
      BY <1>5, <2>2, <2>5
    <3>2. CheckingOf(r, p) = None /\ DrainingOf(r)
      BY <1>3, <2>1, <3>1 DEF CheckingOf, DrainingOf
    <3>3. PRQ(r, p)!Drop(AsRequest(d))
      BY <2>3, <2>4, <2>5, <3>2 DEF PRQ!Drop, PRQ!Leave, Departs
    <3> QED BY <2>2, <3>3 DEF PRQ!Next, PRQ!Drop, PRQ!Leave
  <2>6. CASE ~(req[d].repo = r /\ req[d].pr = p)
    BY <2>3, <2>4, <2>6 DEF PRQ!vars, Departs
  <2> QED BY <2>5, <2>6
<1> QED BY <1>6, <1>7, <1>8, <1>9, <1>10, <1>11 DEF Worker

(* The shutdown reaches a pull request's queue only through cancelAll. *)
LEMMA ClosingPR ==
  ASSUME TypeOK, QueueInv, NEW r \in Repos, NEW p \in PRs,
         StartHTTP \/ Signal \/ Deadline \/ Shutdown \/ Exited \/ UNCHANGED vars
  PROVE  [PRQ(r, p)!Next]_(PRQ(r, p)!vars)
<1>1. UNCHANGED <<pc, req, handle, queues, chan, latestSHA, running, worker, current>>
  BY DEF vars, hookVars, queueVars, Shutdown, StartHTTP, Signal, Deadline, StopHTTP, HTTPStopped, Snapshot,
         CloseDone, ClosedAll, AllDone, CancelAll, GraceOver, Exit, Exited
<1>2. UNCHANGED <<SendingOf(r, p), WaitingOf(r, p), AheadOf(r, p), LatestOf(r, p), CheckOf(r, p),
                  CheckingOf(r, p), DrainingOf(r)>>
  BY <1>1 DEF SendingOf, WaitingOf, AheadOf, InLine, LatestOf, CheckOf, CheckingOf, DrainingOf,
              IsOf, AtBegin, InChannel, Before
<1>3. CASE CancelAll
  <2>1. CheckOf(r, p) # None => CheckOf(r, p) \in Deliveries
    BY PRFacts
  <2>2. \A d \in Deliveries : cause'[d] = IF cause[d] = "live" THEN "canceled" ELSE cause[d]
    BY <1>3 DEF CancelAll
  <2>3. ContextOf(r, p)' = IF ContextOf(r, p) = "live" THEN "dead" ELSE ContextOf(r, p)
    BY <1>2, <2>1, <2>2 DEF ContextOf
  <2>4. CASE ContextOf(r, p) = "live"
    <3>1. PRQ(r, p)!Expire
      BY <1>2, <2>3, <2>4 DEF PRQ!Expire
    <3> QED BY <3>1 DEF PRQ!Next
  <2>5. CASE ContextOf(r, p) # "live"
    BY <1>2, <2>3, <2>5 DEF PRQ!vars
  <2> QED BY <2>4, <2>5
<1>4. CASE ~CancelAll
  <2>1. cause' = cause
    BY <1>4 DEF vars, hookVars, queueVars, Shutdown, StartHTTP, Signal, Deadline, StopHTTP, HTTPStopped, Snapshot,
                CloseDone, ClosedAll, AllDone, GraceOver, Exit, Exited
  <2>2. ContextOf(r, p)' = ContextOf(r, p)
    BY <1>2, <2>1 DEF ContextOf
  <2> QED BY <1>2, <2>2 DEF PRQ!vars
<1> QED BY <1>3, <1>4

LEMMA InitPR ==
  ASSUME Init, NEW r \in Repos, NEW p \in PRs
  PROVE  PRQ(r, p)!Init
<1>1. handle = [d \in Deliveries |-> None] /\ queues[r] = None
  BY DEF Init
<1>2. \A x \in PRRequests : ~IsOf(x, r, p)
  BY <1>1 DEF IsOf, PRRequests
<1>3. SendingOf(r, p) = {} /\ WaitingOf(r, p) = {}
  BY <1>2 DEF SendingOf, WaitingOf, InLine
<1>4. AheadOf(r, p) = [y \in PRRequests |-> {}]
  BY <1>3, AheadOfWaiting
<1>5. /\ LatestOf(r, p) = None /\ CheckOf(r, p) = None /\ CheckingOf(r, p) = None
      /\ ContextOf(r, p) = "none" /\ DrainingOf(r) = FALSE
  BY <1>1 DEF LatestOf, CheckOf, CheckingOf, ContextOf, DrainingOf
<1> QED BY <1>3, <1>4, <1>5 DEF PRQ!Init

(* Every pull request of every repository has the queue of PRQueue to      *)
(* itself, however many others share the channel and the worker: Enqueue,  *)
(* begin, end, the timeouts and the shutdown do to it what PRQueue allows  *)
(* and nothing else.                                                       *)
THEOREM QueuesAreShared == Spec => EachPRQueue
<1>1. Init => \A r \in Repos, p \in PRs : PRQ(r, p)!Init
  BY InitPR
<1>2. ASSUME TypeOK, TypeOK', QueueInv, QueueInv', LineInv, [Next]_vars
      PROVE  \A r \in Repos, p \in PRs : UNCHANGED PRQ(r, p)!vars \/ PRQ(r, p)!Next
  <2> SUFFICES ASSUME NEW r \in Repos, NEW p \in PRs PROVE [PRQ(r, p)!Next]_(PRQ(r, p)!vars)
    OBVIOUS
  <2>1. ASSUME NEW d \in Deliveries, ReceiveHook(d) \/ Handler(d)
        PROVE  [PRQ(r, p)!Next]_(PRQ(r, p)!vars)
    BY <1>2, <2>1, HandlerPR
  <2>2. ASSUME NEW q \in Deliveries, Worker(q) \/ TimeoutCheck(q)
        PROVE  [PRQ(r, p)!Next]_(PRQ(r, p)!vars)
    BY <1>2, <2>2, WorkerPR
  <2>3. CASE StartHTTP \/ Signal \/ Deadline \/ Shutdown \/ Exited \/ UNCHANGED vars
    BY <1>2, <2>3, ClosingPR
  <2> QED BY <1>2, <2>1, <2>2, <2>3 DEF Next
<1> QED BY <1>1, <1>2, TypeCorrect, QueueCorrect, LineCorrect, PTL DEF Spec, EachPRQueue
=============================================================================
