------------------------------ MODULE RepoQueue ------------------------------
(***************************************************************************)
(* The request queues of kubechecks: the webhook handlers that enqueue a   *)
(* check (pkg/server/hook_handler.go), one FIFO queue and one worker per   *)
(* repository (pkg/queue/manager.go), and the shutdown of the process      *)
(* (cmd/controller.go, pkg/server/server.go, QueueManager.Shutdown).       *)
(*                                                                         *)
(* A delivery is one webhook call.  It is also the identity of the request *)
(* it enqueues, of the context that request is checked under and, when it  *)
(* is the delivery that creates a repository's queue, of that RepoQueue    *)
(* object: every object of the program is made by exactly one delivery.    *)
(* Commits are numbered in the order they are pushed; a delivery may name  *)
(* any of them, since webhooks arrive late, twice and out of order.        *)
(***************************************************************************)
EXTENDS Integers, Sequences

CONSTANTS Repos,        \* the repositories, by canonical clone URL
          PRs,          \* CheckIDs
          Commits,      \* commits, by SHA
          Deliveries,   \* webhook calls
          QueueSize,    \* Config.QueueSize, after the default of NewQueueManager
          HasTimeout,   \* Config.CheckTimeout > 0
          EnsuresHooks, \* Config.EnsureWebhooks
          None

ASSUME QueueSizeAssumption == QueueSize \in Nat \ {0}
ASSUME TimeoutAssumption == HasTimeout \in BOOLEAN /\ EnsuresHooks \in BOOLEAN
ASSUME NoneAssumption == None \notin Deliveries \cup Commits

VARIABLES
  pc,           \* where each delivery's groupHandler stands
  req,          \* the pull request each delivery carries
  handle,       \* the *RepoQueue each handler got from the map
  queues,       \* QueueManager.queues
  chan,         \* RepoQueue.queue
  doneClosed,   \* RepoQueue.done is closed
  latestSHA,    \* RepoQueue.latestSHA
  recorded,     \* history: the commit supersede recorded last
  answered,     \* history: a check of that commit has ended since
  running,      \* RepoQueue.running: the request whose context it cancels
  worker,       \* where each queue's worker goroutine stands
  current,      \* the request the worker holds
  cause,        \* context.Cause of each request's context
  fate,         \* what became of each request
  prMap,        \* notifyDroppedRequests: drained request per CheckID
  notices,      \* shutdown comments attempted per queue and CheckID
  gaveUp,       \* notifyDroppedRequests ran into its five seconds
  rootCancelled, \* cancelAll was called
  sd,           \* where the shutdown of the process stands
  deadline,     \* shutdownCtx is done
  http,         \* Server.echo, and what became of echo.Shutdown
  toClose,      \* queues whose done Shutdown has still to close
  awaited,      \* the queues Shutdown waits for
  sdErr         \* QueueManager.Shutdown returned ctx.Err()

hookVars == <<pc, req, handle>>
queueVars == <<queues, chan, latestSHA, recorded, answered, running, worker,
               current, cause, fate>>
dropVars == <<prMap, notices, gaveUp>>
shutdownVars == <<doneClosed, rootCancelled, sd, deadline, http, toClose,
                  awaited, sdErr>>
vars == <<hookVars, queueVars, dropVars, shutdownVars>>

Requests == [repo : Repos, pr : PRs, sha : Commits]
Causes == {"none", "live", "superseded", "deadline", "canceled"}
Fates == {"none", "queued", "held", "skipped", "done", "dropped"}
Settled == {"skipped", "done", "dropped"}
Answered == {"ignored", "accepted", "rejected"}

TypeOK ==
  /\ pc \in [Deliveries -> {"idle", "lookup", "create", "supersede", "send", "full"}
                             \cup Answered]
  /\ req \in [Deliveries -> Requests]
  /\ handle \in [Deliveries -> Deliveries \cup {None}]
  /\ queues \in [Repos -> Deliveries \cup {None}]
  /\ chan \in [Deliveries -> Seq(Deliveries)]
  /\ \A q \in Deliveries : Len(chan[q]) =< QueueSize
  /\ doneClosed \in [Deliveries -> BOOLEAN]
  /\ latestSHA \in [Deliveries -> [PRs -> Commits \cup {None}]]
  /\ recorded \in [Deliveries -> [PRs -> Commits \cup {None}]]
  /\ answered \in [Deliveries -> [PRs -> BOOLEAN]]
  /\ running \in [Deliveries -> [PRs -> Deliveries \cup {None}]]
  /\ worker \in [Deliveries -> {"none", "select", "begin", "run", "end",
                                "drain", "notify", "exited"}]
  /\ current \in [Deliveries -> Deliveries \cup {None}]
  /\ cause \in [Deliveries -> Causes]
  /\ fate \in [Deliveries -> Fates]
  /\ prMap \in [Deliveries -> [PRs -> Deliveries \cup {None}]]
  /\ notices \in [Deliveries -> [PRs -> Nat]]
  /\ gaveUp \in [Deliveries -> BOOLEAN]
  /\ rootCancelled \in BOOLEAN
  /\ sd \in {"up", "pending", "http", "snapshot", "close", "wait", "grace",
             "returned", "exited"}
  /\ deadline \in BOOLEAN
  /\ http \in {"starting", "serving", "closing", "stopped", "failed"}
  /\ toClose \in SUBSET Deliveries
  /\ awaited \in SUBSET Deliveries
  /\ sdErr \in BOOLEAN

(* NewQueueManager: no queue, a live root context.  The request of an idle *)
(* delivery is only chosen when the hook is received.                      *)
Init ==
  /\ pc = [d \in Deliveries |-> "idle"]
  /\ \E r \in Requests : req = [d \in Deliveries |-> r]
  /\ handle = [d \in Deliveries |-> None]
  /\ queues = [r \in Repos |-> None]
  /\ chan = [q \in Deliveries |-> << >>]
  /\ doneClosed = [q \in Deliveries |-> FALSE]
  /\ latestSHA = [q \in Deliveries |-> [p \in PRs |-> None]]
  /\ recorded = [q \in Deliveries |-> [p \in PRs |-> None]]
  /\ answered = [q \in Deliveries |-> [p \in PRs |-> FALSE]]
  /\ running = [q \in Deliveries |-> [p \in PRs |-> None]]
  /\ worker = [q \in Deliveries |-> "none"]
  /\ current = [q \in Deliveries |-> None]
  /\ cause = [d \in Deliveries |-> "none"]
  /\ fate = [d \in Deliveries |-> "none"]
  /\ prMap = [q \in Deliveries |-> [p \in PRs |-> None]]
  /\ notices = [q \in Deliveries |-> [p \in PRs |-> 0]]
  /\ gaveUp = [q \in Deliveries |-> FALSE]
  /\ rootCancelled = FALSE
  /\ sd = "up"
  /\ deadline = FALSE
  /\ http = IF EnsuresHooks THEN "starting" ELSE "serving"
  /\ toClose = {}
  /\ awaited = {}
  /\ sdErr = FALSE

Alive == sd # "exited"
Goto(d, l) == pc' = [pc EXCEPT ![d] = l]
Step(q, l) == worker' = [worker EXCEPT ![q] = l]

(***************************************************************************)
(* The webhook handler: groupHandler and Enqueue.                          *)
(***************************************************************************)

(* The goroutine of Server.Start is through with ensureWebhooks, which     *)
(* asks the VCS about every repository, and sets s.echo; hooks may come.   *)
(* A signal in the meantime does not stop it.  (Where no webhooks are      *)
(* ensured only the start of the goroutine comes first; Init has it done.) *)
StartHTTP ==
  /\ Alive
  /\ http = "starting"
  /\ http' = "serving"
  /\ UNCHANGED <<hookVars, queueVars, dropVars, doneClosed, rootCancelled, sd,
                 deadline, toClose, awaited, sdErr>>

(* The server hands a hook to groupHandler until echo.Shutdown closes the  *)
(* listener.  A hook that does not verify, does not parse, or whose pull   *)
(* request does not pass the label filter is answered at once.             *)
ReceiveHook(d) ==
  /\ Alive
  /\ http = "serving"
  /\ pc[d] = "idle"
  /\ \E r \in Requests : req' = [req EXCEPT ![d] = r]
  /\ \E l \in {"lookup", "ignored"} : Goto(d, l)
  /\ UNCHANGED <<handle, queueVars, dropVars, shutdownVars>>

(* Enqueue cannot canonicalize the clone URL: the handler answers as if    *)
(* the queue were full.                                                    *)
CanonicalizeFails(d) ==
  /\ Alive
  /\ pc[d] = "lookup"
  /\ Goto(d, "full")
  /\ UNCHANGED <<req, handle, queueVars, dropVars, shutdownVars>>

(* The fast path of Enqueue, under the read lock. *)
Lookup(d) ==
  /\ Alive
  /\ pc[d] = "lookup"
  /\ handle' = [handle EXCEPT ![d] = queues[req[d].repo]]
  /\ Goto(d, IF queues[req[d].repo] = None THEN "create" ELSE "supersede")
  /\ UNCHANGED <<req, queueVars, dropVars, shutdownVars>>

(* The double check: is the queue still missing under the write lock? *)
StillMissingUnchecked(r) == TRUE
StillMissing(r) == queues[r] = None

(* The slow path, under the write lock: make the queue and start its       *)
(* worker unless another handler did.                                      *)
Create(d) ==
  LET r == req[d].repo IN
  /\ Alive
  /\ pc[d] = "create"
  /\ IF StillMissing(r)
     THEN /\ queues' = [queues EXCEPT ![r] = d]
          /\ Step(d, "select")
          /\ handle' = [handle EXCEPT ![d] = d]
     ELSE /\ handle' = [handle EXCEPT ![d] = queues[r]]
          /\ UNCHANGED <<queues, worker>>
  /\ Goto(d, "supersede")
  /\ UNCHANGED <<req, chan, latestSHA, recorded, answered, running, current,
                 cause, fate, dropVars, shutdownVars>>

(* Cancelling a context: the first cause wins. *)
Cancel(c, d, why) == IF c[d] = "live" THEN [c EXCEPT ![d] = why] ELSE c

(* The causes after supersede has looked at the check running for d's pull *)
(* request.                                                                *)
CancelOtherCommitNever(q, d) == cause
CancelOtherCommit(q, d) ==
  LET r == running[q][req[d].pr] IN
  IF r # None /\ req[r].sha # req[d].sha THEN Cancel(cause, r, "superseded") ELSE cause

(* supersede, under the queue's lock. *)
Supersede(d) ==
  LET q == handle[d] IN
  /\ Alive
  /\ pc[d] = "supersede"
  /\ latestSHA' = [latestSHA EXCEPT ![q][req[d].pr] = req[d].sha]
  /\ recorded' = [recorded EXCEPT ![q][req[d].pr] = req[d].sha]
  /\ answered' = [answered EXCEPT ![q][req[d].pr] = FALSE]
  /\ cause' = CancelOtherCommit(q, d)
  /\ Goto(d, "send")
  /\ UNCHANGED <<req, handle, queues, chan, running, worker, current, fate,
                 dropVars, shutdownVars>>

(* The channel's buffer takes one more. *)
HasRoom(q) == Len(chan[q]) < QueueSize

(* The non-blocking send of Enqueue: accepted, or the queue is full. *)
Send(d) ==
  LET q == handle[d] IN
  /\ Alive
  /\ pc[d] = "send"
  /\ IF HasRoom(q)
     THEN /\ chan' = [chan EXCEPT ![q] = Append(@, d)]
          /\ fate' = [fate EXCEPT ![d] = "queued"]
          /\ Goto(d, "accepted")
     ELSE /\ Goto(d, "full")
          /\ UNCHANGED <<chan, fate>>
  /\ UNCHANGED <<req, handle, queues, latestSHA, recorded, answered, running,
                 worker, current, cause, dropVars, shutdownVars>>

(* The handler posts the queue-full comment, best effort, and answers. *)
PostQueueFull(d) ==
  /\ Alive
  /\ pc[d] = "full"
  /\ Goto(d, "rejected")
  /\ UNCHANGED <<req, handle, queueVars, dropVars, shutdownVars>>

(***************************************************************************)
(* The worker of a queue: startWorker, processRequest, begin and end.      *)
(***************************************************************************)

(* select took the queue case. *)
TakeRequest(q) ==
  /\ Alive
  /\ worker[q] = "select"
  /\ chan[q] # << >>
  /\ current' = [current EXCEPT ![q] = Head(chan[q])]
  /\ fate' = [fate EXCEPT ![Head(chan[q])] = "held"]
  /\ chan' = [chan EXCEPT ![q] = Tail(@)]
  /\ Step(q, "begin")
  /\ UNCHANGED <<hookVars, queues, latestSHA, recorded, answered, running,
                 cause, dropVars, shutdownVars>>

(* begin's test: the pull request has moved past d's commit. *)
MovedPastOrForgotten(q, d) == latestSHA[q][req[d].pr] # req[d].sha
MovedPast(q, d) == latestSHA[q][req[d].pr] \notin {None, req[d].sha}

(* A new context under the root context is cancelled from the start when   *)
(* the root is.                                                            *)
NewContextDetached == "live"
NewContext == IF rootCancelled THEN "canceled" ELSE "live"

(* begin, under the queue's lock: skip the request or register it as the   *)
(* running check of its pull request.                                      *)
Begin(q) ==
  LET d == current[q] IN
  /\ Alive
  /\ worker[q] = "begin"
  /\ IF MovedPast(q, d)
     THEN /\ fate' = [fate EXCEPT ![d] = "skipped"]
          /\ current' = [current EXCEPT ![q] = None]
          /\ Step(q, "select")
          /\ UNCHANGED <<running, cause>>
     ELSE /\ running' = [running EXCEPT ![q][req[d].pr] = d]
          /\ cause' = [cause EXCEPT ![d] = NewContext]
          /\ Step(q, "run")
          /\ UNCHANGED <<fate, current>>
  /\ UNCHANGED <<hookVars, queues, chan, latestSHA, recorded, answered, dropVars,
                 shutdownVars>>

(* The WithTimeout context of processRequest expires under the check. *)
TimeoutCheck(q) ==
  /\ Alive
  /\ HasTimeout
  /\ worker[q] = "run"
  /\ cause[current[q]] = "live"
  /\ cause' = Cancel(cause, current[q], "deadline")
  /\ UNCHANGED <<hookVars, queues, chan, latestSHA, recorded, answered,
                 running, worker, current, fate, dropVars, shutdownVars>>

(* processFunc returns.  An error only decides which counter goes up, and  *)
(* no property is about the counters.                                      *)
FinishCheck(q) ==
  /\ Alive
  /\ worker[q] = "run"
  /\ fate' = [fate EXCEPT ![current[q]] = "done"]
  /\ Step(q, "end")
  /\ UNCHANGED <<hookVars, queues, chan, latestSHA, recorded, answered,
                 running, current, cause, dropVars, shutdownVars>>

(* Which running entry end deletes: the one of its own commit. *)
UnregisterIfLatest(q, d) ==
  LET p == req[d].pr  r == running[q][p] IN
  IF r # None /\ latestSHA[q][p] = req[d].sha THEN [running EXCEPT ![q][p] = None]
  ELSE running
Unregister(q, d) ==
  LET p == req[d].pr  r == running[q][p] IN
  IF r # None /\ req[r].sha = req[d].sha THEN [running EXCEPT ![q][p] = None]
  ELSE running

(* The deferred end, under the queue's lock. *)
End(q) ==
  LET d == current[q]
      p == req[d].pr
      r == running[q][p]
  IN
  /\ Alive
  /\ worker[q] = "end"
  /\ running' = Unregister(q, d)
  /\ cause' = IF r # None /\ req[r].sha = req[d].sha
              THEN Cancel(cause, r, "canceled") ELSE cause
  /\ latestSHA' = IF latestSHA[q][p] = req[d].sha
                  THEN [latestSHA EXCEPT ![q][p] = None] ELSE latestSHA
  /\ answered' = IF recorded[q][p] = req[d].sha
                 THEN [answered EXCEPT ![q][p] = TRUE] ELSE answered
  /\ current' = [current EXCEPT ![q] = None]
  /\ Step(q, "select")
  /\ UNCHANGED <<hookVars, queues, chan, recorded, fate, dropVars,
                 shutdownVars>>

(* Does the worker drain before it leaves? *)
LeavesItems(q) == FALSE
HasItems(q) == chan[q] # << >>

(* select took the done case; len(rq.queue) decides about the draining. *)
SeeDone(q) ==
  /\ Alive
  /\ worker[q] = "select"
  /\ doneClosed[q]
  /\ Step(q, IF HasItems(q) THEN "drain" ELSE "exited")
  /\ UNCHANGED <<hookVars, queues, chan, latestSHA, recorded, answered,
                 running, current, cause, fate, dropVars, shutdownVars>>

(* notifyDroppedRequests receives one item; the last one of a CheckID is   *)
(* the one that is kept.                                                   *)
DrainOne(q) ==
  LET d == Head(chan[q]) IN
  /\ Alive
  /\ worker[q] = "drain"
  /\ chan[q] # << >>
  /\ chan' = [chan EXCEPT ![q] = Tail(@)]
  /\ prMap' = [prMap EXCEPT ![q][req[d].pr] = d]
  /\ fate' = [fate EXCEPT ![d] = "dropped"]
  /\ UNCHANGED <<hookVars, queues, latestSHA, recorded, answered, running,
                 worker, current, cause, notices, gaveUp, shutdownVars>>

(* ... until the queue is empty. *)
DrainedAll(q) ==
  /\ Alive
  /\ worker[q] = "drain"
  /\ chan[q] = << >>
  /\ Step(q, "notify")
  /\ UNCHANGED <<hookVars, queues, chan, latestSHA, recorded, answered,
                 running, current, cause, fate, dropVars, shutdownVars>>

(* One comment for one pull request of the map, in the map's random order. *)
(* A comment that cannot be posted is logged and not tried again.          *)
NotifyOne(q, p) ==
  /\ Alive
  /\ worker[q] = "notify"
  /\ prMap[q][p] # None
  /\ notices' = [notices EXCEPT ![q][p] = @ + 1]
  /\ prMap' = [prMap EXCEPT ![q][p] = None]
  /\ UNCHANGED <<hookVars, queueVars, gaveUp, shutdownVars>>

(* The loop over the map is over, or notifyCtx is done before it is. *)
NotifiedAll(q) ==
  /\ Alive
  /\ worker[q] = "notify"
  /\ gaveUp' = [gaveUp EXCEPT ![q] = \E p \in PRs : prMap[q][p] # None]
  /\ Step(q, "exited")
  /\ UNCHANGED <<hookVars, queues, chan, latestSHA, recorded, answered,
                 running, current, cause, fate, prMap, notices, shutdownVars>>

(***************************************************************************)
(* The shutdown of the process.                                            *)
(***************************************************************************)

(* waitForShutdown returns: shutdownCtx starts to count. *)
Signal ==
  /\ sd = "up"
  /\ sd' = "pending"
  /\ UNCHANGED <<hookVars, queueVars, dropVars, doneClosed, rootCancelled,
                 deadline, http, toClose, awaited, sdErr>>

(* shutdownCtx expires.  Nobody looks at it once Server.Shutdown is back. *)
Deadline ==
  /\ sd \notin {"up", "returned", "exited"}
  /\ ~deadline
  /\ deadline' = TRUE
  /\ UNCHANGED <<hookVars, queueVars, dropVars, doneClosed, rootCancelled, sd,
                 http, toClose, awaited, sdErr>>

(* waitForPendingRequest returns: it saw no application in flight (that    *)
(* count is the events package's, and may be zero at any moment), or       *)
(* shutdownCtx is done.  Server.Shutdown then closes the listener, or,     *)
(* when Start has not set s.echo yet, goes straight on with the queues.    *)
StopHTTP ==
  /\ sd = "pending"
  /\ IF http = "serving" THEN sd' = "http" /\ http' = "closing"
     ELSE sd' = "snapshot" /\ http' = http
  /\ UNCHANGED <<hookVars, queueVars, dropVars, doneClosed, rootCancelled,
                 deadline, toClose, awaited, sdErr>>

Active == {d \in Deliveries : pc[d] \notin Answered \cup {"idle"}}

(* echo.Shutdown waits for the handlers, or for shutdownCtx; either way    *)
(* Server.Shutdown goes on with the queues.                                *)
HTTPReadyAtOnce == TRUE
HTTPReady == Active = {}
HTTPStopped ==
  /\ sd = "http"
  /\ \/ HTTPReady /\ http' = "stopped"
     \/ deadline /\ http' = "failed"
  /\ sd' = "snapshot"
  /\ UNCHANGED <<hookVars, queueVars, dropVars, doneClosed, rootCancelled,
                 deadline, toClose, awaited, sdErr>>

(* QueueManager.Shutdown copies the map's queues under the lock. *)
Snapshot ==
  LET qs == {queues[r] : r \in Repos} \ {None} IN
  /\ sd = "snapshot"
  /\ toClose' = qs
  /\ awaited' = qs
  /\ sd' = "close"
  /\ UNCHANGED <<hookVars, queueVars, dropVars, doneClosed, rootCancelled,
                 deadline, http, sdErr>>

(* close(queue.done), one queue after the other. *)
CloseDone(q) ==
  /\ sd = "close"
  /\ q \in toClose
  /\ doneClosed' = [doneClosed EXCEPT ![q] = TRUE]
  /\ toClose' = toClose \ {q}
  /\ UNCHANGED <<hookVars, queueVars, dropVars, rootCancelled, sd, deadline,
                 http, awaited, sdErr>>

ClosedAll ==
  /\ sd = "close"
  /\ toClose = {}
  /\ sd' = "wait"
  /\ UNCHANGED <<hookVars, queueVars, dropVars, doneClosed, rootCancelled,
                 deadline, http, toClose, awaited, sdErr>>

(* Every worker Shutdown waits for has called wg.Done. *)
WorkersGone == \A q \in awaited : worker[q] = "exited"

AllDone ==
  /\ sd = "wait"
  /\ WorkersGone
  /\ sd' = "returned"
  /\ UNCHANGED <<hookVars, queueVars, dropVars, doneClosed, rootCancelled,
                 deadline, http, toClose, awaited, sdErr>>

(* ctx.Done won the select: cancelAll cancels the root context and with it *)
(* the context of every running check.                                     *)
TimedOutNever == FALSE
TimedOut == deadline
CancelAll ==
  /\ sd = "wait"
  /\ TimedOut
  /\ rootCancelled' = TRUE
  /\ cause' = [d \in Deliveries |-> IF cause[d] = "live" THEN "canceled" ELSE cause[d]]
  /\ sdErr' = TRUE
  /\ sd' = "grace"
  /\ UNCHANGED <<hookVars, queues, chan, latestSHA, recorded, answered,
                 running, worker, current, fate, dropVars, doneClosed,
                 deadline, http, toClose, awaited>>

(* The workers wind down, or cancelGrace is over: both may come first. *)
GraceOver ==
  /\ sd = "grace"
  /\ sd' = "returned"
  /\ UNCHANGED <<hookVars, queueVars, dropVars, doneClosed, rootCancelled,
                 deadline, http, toClose, awaited, sdErr>>

(* ctr.Shutdown, and main returns: every goroutine is gone. *)
Exit ==
  /\ sd = "returned"
  /\ sd' = "exited"
  /\ UNCHANGED <<hookVars, queueVars, dropVars, doneClosed, rootCancelled,
                 deadline, http, toClose, awaited, sdErr>>

(* Nothing happens after the process is gone. *)
Exited == ~Alive /\ UNCHANGED vars

-----------------------------------------------------------------------------
Handler(d) ==
  \/ CanonicalizeFails(d) \/ Lookup(d) \/ Create(d)
  \/ Supersede(d) \/ Send(d) \/ PostQueueFull(d)

Worker(q) ==
  \/ TakeRequest(q) \/ Begin(q) \/ FinishCheck(q) \/ End(q)
  \/ SeeDone(q) \/ DrainOne(q) \/ DrainedAll(q)
  \/ \E p \in PRs : NotifyOne(q, p)
  \/ NotifiedAll(q)

Shutdown ==
  \/ StopHTTP \/ HTTPStopped \/ Snapshot
  \/ \E q \in Deliveries : CloseDone(q)
  \/ ClosedAll \/ AllDone \/ CancelAll \/ GraceOver \/ Exit

Next ==
  \/ \E d \in Deliveries : ReceiveHook(d) \/ Handler(d) \/ Worker(d) \/ TimeoutCheck(d)
  \/ StartHTTP \/ Signal \/ Deadline \/ Shutdown \/ Exited

Spec == Init /\ [][Next]_vars

(* The goroutine that shuts the process down keeps running.  Nothing else  *)
(* is owed by the specification: no webhook and no signal has to come, and *)
(* a handler may hang in a call to the VCS.                                *)
FairSpec == Spec /\ WF_vars(Shutdown)

(* When the VCS answers and checks return (processFunc is bounded by       *)
(* CheckTimeout), handlers and workers take their next step as well.       *)
Serving == \A d \in Deliveries : WF_vars(Handler(d)) /\ WF_vars(Worker(d))

(* shutdownCtx has a timeout. *)
TimerRuns == WF_vars(Deadline)

-----------------------------------------------------------------------------
(***************************************************************************)
(* Safety.                                                                 *)
(***************************************************************************)

Busy(q) == worker[q] \in {"begin", "run", "end"}

(* Checks of one repository never overlap, however the handlers that find  *)
(* no queue race for its creation (Enqueue's double-checked locking): two  *)
(* workers that hold a request serve different repositories.  The git      *)
(* manager shares one checkout per repository on the strength of this.     *)
OneCheckPerRepo ==
  \A q1, q2 \in Deliveries :
    Busy(q1) /\ Busy(q2) /\ q1 # q2 => req[current[q1]].repo # req[current[q2]].repo

(* begin, supersede and end keep a pull request at its newest delivery:    *)
(* whatever handlers came in between, a check whose context is live is of  *)
(* the commit recorded last, or a check of that commit has ended since it  *)
(* was recorded, so that end has forgotten it and a request that was       *)
(* queued before has its turn (deliveries of commits 1, 2 and 1 again      *)
(* while the first check runs: commit 2 is checked after it).              *)
LiveCheckIsLatest ==
  \A q \in Deliveries :
    LET d == current[q]
    IN  worker[q] = "run" /\ cause[d] = "live" =>
          recorded[q][req[d].pr] = req[d].sha \/ answered[q][req[d].pr]

(* RepoQueue.running has an entry exactly for the check in progress: end   *)
(* removes it on every path, also after the pull request has moved on.     *)
(* A leftover would be cancelled in place of a later check.                *)
RunningIsCurrent ==
  \A q, d \in Deliveries, p \in PRs :
    running[q][p] = d <=> /\ worker[q] \in {"run", "end"}
                          /\ current[q] = d
                          /\ req[d].pr = p

(* begin skips a request only in favour of another one: some delivery has  *)
(* recorded a different commit of the same pull request in the same queue. *)
(* A pull request is never left unchecked because its only commit was      *)
(* enqueued twice, or because end forgot the latest commit.                *)
Recorded(d) == handle[d] # None /\ pc[d] \in {"send", "full", "accepted", "rejected"}
SkippedHasSuccessor ==
  \A d \in Deliveries : fate[d] = "skipped" =>
    \E e \in Deliveries : /\ Recorded(e)
                          /\ handle[e] = handle[d]
                          /\ req[e].pr = req[d].pr
                          /\ req[e].sha # req[d].sha

(* cancelAll reaches every check, those that begin after it too: a worker  *)
(* that takes one more request while Shutdown waits for its grace period   *)
(* runs it under a cancelled context.                                      *)
CancelAllReachesChecks ==
  rootCancelled => \A q \in Deliveries :
    worker[q] = "run" => cause[current[q]] # "live"

(* The requests of one pull request that were waiting when its queue was   *)
(* drained are answered by one comment, never by several and, unless the   *)
(* five seconds of notifyDroppedRequests ran out, never by none.  And when *)
(* the HTTP server was stopped cleanly and Shutdown reported success,      *)
(* every accepted request was checked, skipped or so answered.             *)
CleanShutdownLosesNothing ==
  sd \in {"returned", "exited"} /\ http = "stopped" /\ ~sdErr =>
    \A d \in Deliveries : pc[d] = "accepted" =>
      /\ fate[d] \in Settled
      /\ fate[d] = "dropped" /\ ~gaveUp[handle[d]] => notices[handle[d]][req[d].pr] = 1

-----------------------------------------------------------------------------
(***************************************************************************)
(* The inductive invariant behind these.                                   *)
(***************************************************************************)

(* The map and the workers agree: a repository's queue has a worker, and   *)
(* every worker serves the queue its repository is mapped to.              *)
QueueObjects ==
  /\ \A r \in Repos : queues[r] # None =>
       worker[queues[r]] # "none" /\ req[queues[r]].repo = r
  /\ \A q \in Deliveries : worker[q] # "none" =>
       queues[req[q].repo] = q /\ pc[q] \notin {"idle", "lookup", "create"}

(* The queue a handler holds is the one of its repository. *)
HandlesFit ==
  \A d \in Deliveries :
    /\ pc[d] = "idle" => handle[d] = None
    /\ pc[d] \in {"supersede", "send", "accepted"} => handle[d] # None
    /\ handle[d] # None => worker[handle[d]] # "none" /\ req[handle[d]].repo = req[d].repo

(* A waiting request, and the one in the worker's hands, were accepted for *)
(* this queue.                                                             *)
Belongs(d, q) == d # None /\ pc[d] = "accepted" /\ handle[d] = q
RequestsInPlace ==
  \A q \in Deliveries :
    /\ \A i \in DOMAIN chan[q] : Belongs(chan[q][i], q)
    /\ Busy(q) => Belongs(current[q], q)

(* latestSHA is the commit recorded last until a check of it has ended. *)
LatestIsRecorded ==
  \A q \in Deliveries, p \in PRs :
    latestSHA[q][p] = IF answered[q][p] THEN None ELSE recorded[q][p]

(* A handler that is through supersede has recorded a commit. *)
HandlersRecord ==
  \A d \in Deliveries :
    /\ pc[d] \in {"idle", "lookup", "create"} => handle[d] = None
    /\ Recorded(d) => recorded[handle[d]][req[d].pr] # None

(* No live check is of a commit latestSHA has moved past. *)
LiveNotMovedPast ==
  \A q \in Deliveries :
    LET d == current[q]
    IN  worker[q] = "run" /\ cause[d] = "live" =>
          latestSHA[q][req[d].pr] \in {None, req[d].sha}

(* latestSHA holds commits some handler recorded. *)
LatestWasRecorded ==
  \A q \in Deliveries, p \in PRs : latestSHA[q][p] # None =>
    \E e \in Deliveries : /\ Recorded(e)
                          /\ handle[e] = q
                          /\ req[e].pr = p
                          /\ req[e].sha = latestSHA[q][p]

(* A worker only ever holds requests its own repository's deliveries left  *)
(* in its own queue, its running check is registered, live only for the    *)
(* latest commit, and latestSHA and every skip go back to a recorded       *)
(* delivery: what Enqueue, begin, supersede, end and cancelAll maintain    *)
(* together.                                                               *)
QueueInv ==
  /\ QueueObjects
  /\ HandlesFit
  /\ RequestsInPlace
  /\ RunningIsCurrent
  /\ LiveNotMovedPast
  /\ CancelAllReachesChecks
  /\ LatestWasRecorded
  /\ SkippedHasSuccessor

-----------------------------------------------------------------------------
(***************************************************************************)
(* Refinement: what one pull request sees of the queue of its repository.  *)
(***************************************************************************)

PRRequests == [id : Deliveries, commit : Commits]

(* Request x is one of pull request p of repository r. *)
IsOf(x, r, p) ==
  LET c == req[x.id]
  IN  handle[x.id] # None /\ c.sha = x.commit /\ c.pr = p /\ c.repo = r

(* d is in its queue, in the channel or taken out of it and not yet begun; *)
(* it is there ahead of e.                                                 *)
Holds(s, d) == \E i \in DOMAIN s : s[i] = d
Precedes(s, d, e) == \E i, j \in DOMAIN s : i < j /\ s[i] = d /\ s[j] = e
AtBegin(d) == worker[handle[d]] = "begin" /\ current[handle[d]] = d
InChannel(d) == Holds(chan[handle[d]], d)
Before(d, e) ==
  /\ handle[d] = handle[e]
  /\ (AtBegin(d) /\ InChannel(e)) \/ Precedes(chan[handle[d]], d, e)

SendingOf(r, p) == {x \in PRRequests : pc[x.id] = "send" /\ IsOf(x, r, p)}
InLine(x, r, p) == IsOf(x, r, p) /\ (AtBegin(x.id) \/ InChannel(x.id))
WaitingOf(r, p) == {x \in PRRequests : InLine(x, r, p)}
AheadOf(r, p) ==
  [y \in PRRequests |->
     IF InLine(y, r, p) THEN {x \in PRRequests : InLine(x, r, p) /\ Before(x.id, y.id)} ELSE {}]
LatestOf(r, p) == IF queues[r] = None THEN None ELSE latestSHA[queues[r]][p]
CheckOf(r, p) == IF queues[r] = None THEN None ELSE running[queues[r]][p]
CheckingOf(r, p) == IF CheckOf(r, p) = None THEN None ELSE req[CheckOf(r, p)].sha
ContextOf(r, p) ==
  LET d == CheckOf(r, p)
  IN  IF d = None THEN "none"
      ELSE IF cause[d] \in {"live", "superseded"} THEN cause[d] ELSE "dead"
DrainingOf(r) == queues[r] # None /\ worker[queues[r]] \in {"drain", "notify", "exited"}

PRQ(r, p) == INSTANCE PRQueue WITH
  Requests <- PRRequests, sending <- SendingOf(r, p), waiting <- WaitingOf(r, p),
  ahead <- AheadOf(r, p), latest <- LatestOf(r, p), checking <- CheckingOf(r, p),
  context <- ContextOf(r, p), draining <- DrainingOf(r)

(* Each pull request has the queue of PRQueue to itself: its requests are  *)
(* considered in the order accepted, none begins while its commit has been *)
(* superseded, and none is lost or cancelled for another reason than       *)
(* PRQueue's, however handlers, worker, timeouts and shutdown interleave.  *)
(* (A step outside hookVars and queueVars is one no pull request sees.)    *)
EachPRQueue ==
  /\ \A r \in Repos, p \in PRs : PRQ(r, p)!Init
  /\ [][\/ UNCHANGED <<hookVars, queueVars>>
        \/ \A r \in Repos, p \in PRs : UNCHANGED PRQ(r, p)!vars \/ PRQ(r, p)!Next]_vars

-----------------------------------------------------------------------------
(***************************************************************************)
(* Liveness.                                                               *)
(***************************************************************************)

(* While handlers and workers go on, a request that was answered           *)
(* "Accepted" is checked, skipped or dropped in the end, unless            *)
(* shutdownCtx expired first: no request is stranded in a queue nobody     *)
(* reads, whichever way select and the closing of done interleave with     *)
(* late handlers.  The one exception is a server that starts only after    *)
(* Server.Shutdown found none to stop: main does not wait for its hooks.   *)
StartedTooLate == http = "serving" /\ sd \notin {"up", "pending"}
AcceptedIsSettled ==
  Serving => \A d \in Deliveries :
               pc[d] = "accepted" ~> (fate[d] \in Settled \/ deadline \/ StartedTooLate)

(* A signalled process exits once its timer runs, even when a check hangs, *)
(* ignores its cancellation, or a handler never returns: every wait of the *)
(* shutdown has a way out that depends on a timer only.                    *)
ShutdownTerminates == TimerRuns => (sd = "pending" ~> sd = "exited")
=============================================================================
