----------------------------- MODULE AppWorkers -----------------------------
(***************************************************************************)
(* The application workers of one check: the second half of process and    *)
(* queueApp (pkg/events/check.go), the workers that read appChannel        *)
(* (worker.go), the goroutines a Runner starts for the checks of one       *)
(* application (runner.go), and the report they all write to               *)
(* (pkg/msg/message.go).                                                   *)
(*                                                                         *)
(* A job is one application sent to appChannel.  The workers are alike, so *)
(* the model counts the busy ones and gives them no names.  The context of *)
(* the check only shows in checks that fail, and they may fail anyway.     *)
(* Results are told apart by whether the check got to its end; how they    *)
(* are ranked, and which of them a comment has room for, is not modelled.  *)
(***************************************************************************)
EXTENDS Integers, Sequences, FiniteSets

CONSTANTS
  Apps,        \* application specs, several of which may share a name
  Names,       \* application names
  NameOf,      \* the name of each spec
  Affected,    \* affectedItems.Applications
  Effects,     \* what the diff of each spec asks for, in order
  OtherChecks, \* the processors besides the diff
  StickyNames, \* names with an ApplicationSet finding in the report
  MaxConcurrentChecks, MaxQueueSize,
  AIReviewMax, \* effectiveAIReviewMax, or 0 when there is no reviewer
  Panics,      \* a check may panic
  None

ASSUME NamesAssumption == NameOf \in [Apps -> Names] /\ StickyNames \subseteq Names
ASSUME EffectsAssumption ==
  /\ Affected \in Seq(Apps)
  /\ Effects \in [Apps -> Seq([op : {"queue", "remove"}, app : Apps])]
ASSUME LimitsAssumption ==
  /\ MaxConcurrentChecks \in Nat
  /\ MaxQueueSize \in Nat \ {0}
  /\ AIReviewMax \in Nat
ASSUME FreshAssumption == None \notin Apps /\ "diff" \notin OtherChecks /\ Panics \in BOOLEAN

Checks == OtherChecks \cup {"diff"}

VARIABLES
  main,      \* where process stands
  next,      \* the next affected application to queue
  holder,    \* who holds addedAppsSetLock: Free, Main or a job's diff
  added,     \* addedAppsSet
  jobs,      \* the applications sent so far and how far they are
  chan,      \* appChannel: jobs waiting for a worker
  closed,    \* appChannel is closed
  wg,        \* CheckEvent.wg
  aiCount,   \* aiReviewCount
  results,   \* Message.apps
  deleted,   \* Message.deletedAppsSet
  report,    \* what BuildComment rendered
  status     \* what WorstState looked at

vars == <<main, next, holder, added, jobs, chan, closed, wg, aiCount, results, deleted,
          report, status>>

Free == -1
Main == 0
NewJob(a) ==
  [app |-> a, stage |-> "sending", chk |-> [c \in Checks |-> "none"],
   todo |-> Effects[a], ai |-> "off"]

JobIds == DOMAIN jobs
Name(j) == NameOf[jobs[j].app]
Busy == {j \in JobIds : jobs[j].stage \in {"start", "manifests", "checks"}}
Verdicts == {"done", "error", "panic"}

TypeOK ==
  /\ main \in {"produce", "wait", "build", "status", "over"}
  /\ next \in 1..Len(Affected) + 1
  /\ holder \in {Free, Main} \cup JobIds
  /\ added \in [Names -> Apps \cup {None}]
  /\ \A j \in JobIds :
       /\ jobs[j].app \in Apps
       /\ jobs[j].stage \in {"sending", "queued", "start", "manifests", "checks", "done"}
       /\ jobs[j].chk \in [Checks -> {"none", "run", "call", "panicked", "over"}]
       /\ jobs[j].ai \in {"off", "run", "over"}
  /\ chan \in Seq(JobIds) /\ Len(chan) =< MaxQueueSize
  /\ closed \in BOOLEAN
  /\ wg \in Nat
  /\ aiCount \in Nat
  /\ results \in SUBSET [job : JobIds, check : Checks \cup {"manifests"}, verdict : Verdicts]
  /\ deleted \in SUBSET Names
  /\ report \subseteq results
  /\ status \subseteq results

(* The placeholder exists, the findings of the ApplicationSets are in it   *)
(* and the workers are started.                                            *)
Init ==
  /\ main = "produce" /\ next = 1
  /\ holder = Free /\ added = [n \in Names |-> None]
  /\ jobs = << >> /\ chan = << >> /\ closed = FALSE /\ wg = 0
  /\ aiCount = 0
  /\ results = {} /\ deleted = {} /\ report = {} /\ status = {}

-----------------------------------------------------------------------------
(***************************************************************************)
(* queueApp, called by process and by the diff of a running job.           *)
(***************************************************************************)

(* The spec was already queued under its name. *)
DuplicateName(a) == added[NameOf[a]] # None
Duplicate(a) == added[NameOf[a]] = a

(* Under the lock: record the application and add it to the wait group.    *)
(* The lock is kept until the channel has taken it.                        *)
Register(caller, a) ==
  /\ holder' = caller
  /\ added' = [added EXCEPT ![NameOf[a]] = a]
  /\ wg' = wg + 1
  /\ jobs' = Append(jobs, NewJob(a))

HasRoomForOne == chan = << >>
HasRoom == Len(chan) < MaxQueueSize

(* The job being sent is the last one registered. *)
SendRegistered ==
  /\ HasRoom
  /\ chan' = Append(chan, Len(jobs))
  /\ holder' = Free

QueueAffected ==
  LET a == Affected[next] IN
  /\ main = "produce"
  /\ next =< Len(Affected)
  /\ holder = Free
  /\ IF Duplicate(a)
     THEN next' = next + 1 /\ UNCHANGED <<holder, added, wg, jobs>>
     ELSE Register(Main, a) /\ UNCHANGED next
  /\ UNCHANGED <<main, chan, closed, aiCount, results, deleted, report, status>>

SendAffected ==
  /\ holder = Main
  /\ SendRegistered
  /\ jobs' = [jobs EXCEPT ![Len(jobs)].stage = "queued"]
  /\ next' = next + 1
  /\ UNCHANGED <<main, added, closed, wg, aiCount, results, deleted, report, status>>

DiffWants(j, op) ==
  /\ jobs[j].chk["diff"] = "run"
  /\ jobs[j].todo # << >>
  /\ Head(jobs[j].todo).op = op

(* The diff calls queueApp: from here on it can only wait for the lock and *)
(* then for the channel.                                                   *)
CallQueueApp(j) ==
  /\ DiffWants(j, "queue")
  /\ jobs' = [jobs EXCEPT ![j].chk["diff"] = "call"]
  /\ UNCHANGED <<main, next, holder, added, chan, closed, wg, aiCount, results, deleted,
                 report, status>>

QueueChild(j) ==
  LET a == Head(jobs[j].todo).app IN
  /\ jobs[j].chk["diff"] = "call"
  /\ holder = Free
  /\ IF Duplicate(a)
     THEN /\ jobs' = [jobs EXCEPT ![j].chk["diff"] = "run", ![j].todo = Tail(@)]
          /\ UNCHANGED <<holder, added, wg>>
     ELSE Register(j, a)
  /\ UNCHANGED <<main, next, chan, closed, aiCount, results, deleted, report, status>>

SendChild(j) ==
  /\ holder = j
  /\ SendRegistered
  /\ jobs' = [jobs EXCEPT ![Len(jobs)].stage = "queued",
                          ![j].chk["diff"] = "run", ![j].todo = Tail(@)]
  /\ UNCHANGED <<main, next, added, closed, wg, aiCount, results, deleted, report, status>>

(* Message.RemoveApp refuses an application with a sticky result. *)
MarkDeleted(n) == IF n \in StickyNames THEN deleted ELSE deleted \cup {n}
RemoveChild(j) ==
  /\ DiffWants(j, "remove")
  /\ deleted' = MarkDeleted(NameOf[Head(jobs[j].todo).app])
  /\ jobs' = [jobs EXCEPT ![j].todo = Tail(@)]
  /\ UNCHANGED <<main, next, holder, added, chan, closed, wg, aiCount, results, report,
                 status>>

-----------------------------------------------------------------------------
(***************************************************************************)
(* A worker and its Runner.                                                *)
(***************************************************************************)

Workers == MaxConcurrentChecks + 1

(* An idle worker receives the next job. *)
Take(j) ==
  /\ chan # << >>
  /\ j = Head(chan)
  /\ Cardinality(Busy) < Workers
  /\ chan' = Tail(chan)
  /\ jobs' = [jobs EXCEPT ![j].stage = "start"]
  /\ UNCHANGED <<main, next, holder, added, closed, wg, aiCount, results, deleted, report,
                 status>>

(* Message.AddNewApp takes an earlier delete marker away. *)
AddNewApp(j) ==
  /\ jobs[j].stage = "start"
  /\ deleted' = deleted \ {Name(j)}
  /\ jobs' = [jobs EXCEPT ![j].stage = "manifests"]
  /\ UNCHANGED <<main, next, holder, added, chan, closed, wg, aiCount, results, report,
                 status>>

(* Message.AddToAppMessage: so does a result. *)
AddToAppMessage(j, check, verdict) ==
  /\ results' = results \cup {[job |-> j, check |-> check, verdict |-> verdict]}
  /\ deleted' = deleted \ {Name(j)}

(* No manifests, after the retries, or a panic, which the worker recovers  *)
(* from before it reports the job done.                                    *)
NoManifests(j) ==
  /\ jobs[j].stage = "manifests"
  /\ \E v \in {"error"} \cup (IF Panics THEN {"panic"} ELSE {}) :
       AddToAppMessage(j, "manifests", v)
  /\ jobs' = [jobs EXCEPT ![j].stage = "done"]
  /\ wg' = wg - 1
  /\ UNCHANGED <<main, next, holder, added, chan, closed, aiCount, report, status>>

(* claimAIReviewSlot: the counter goes up whether or not a slot is left. *)
SlotLeft == aiCount + 1 =< AIReviewMax

(* Start the checks, and the AI review when something changed and there is *)
(* a slot for it.                                                          *)
StartChecks(j) ==
  /\ jobs[j].stage = "manifests"
  /\ \E changed \in BOOLEAN :
       LET claims == changed /\ AIReviewMax > 0 IN
       /\ aiCount' = IF claims THEN aiCount + 1 ELSE aiCount
       /\ jobs' = [jobs EXCEPT ![j].stage = "checks",
                               ![j].chk = [c \in Checks |-> "run"],
                               ![j].ai = IF claims /\ SlotLeft THEN "run" ELSE "off"]
  /\ UNCHANGED <<main, next, holder, added, chan, closed, wg, results, deleted, report,
                 status>>

(* A check returns: its result, then r.wg.Done.  A diff that fails leaves  *)
(* the rest of its applications unqueued.                                  *)
CheckReturns(j, c) ==
  /\ jobs[j].chk[c] = "run"
  /\ AddToAppMessage(j, c, IF c = "diff" /\ jobs[j].todo # << >> THEN "error" ELSE "done")
  /\ jobs' = [jobs EXCEPT ![j].chk[c] = "over"]
  /\ UNCHANGED <<main, next, holder, added, chan, closed, wg, aiCount, report, status>>

(* A check panics: r.wg.Done comes first ... *)
CheckPanics(j, c) ==
  /\ Panics
  /\ jobs[j].chk[c] = "run"
  /\ jobs' = [jobs EXCEPT ![j].chk[c] = "panicked"]
  /\ UNCHANGED <<main, next, holder, added, chan, closed, wg, aiCount, results, deleted,
                 report, status>>

(* ... and its result after it. *)
PanicResult(j, c) ==
  /\ jobs[j].chk[c] = "panicked"
  /\ AddToAppMessage(j, c, "panic")
  /\ jobs' = [jobs EXCEPT ![j].chk[c] = "over"]
  /\ UNCHANGED <<main, next, holder, added, chan, closed, wg, aiCount, report, status>>

(* runAIReview ends, with a result or without; a panic is recovered from   *)
(* before aiReviewWg.Done.                                                 *)
AIReview(j) ==
  /\ jobs[j].ai = "run"
  /\ jobs' = [jobs EXCEPT ![j].ai = "over"]
  /\ UNCHANGED <<main, next, holder, added, chan, closed, wg, aiCount, results, deleted,
                 report, status>>

(* runner.Wait and aiReviewWg.Wait return, and the worker calls done. *)
ChecksOverUnwaited(j) == TRUE
ChecksOver(j) ==
  /\ \A c \in Checks : jobs[j].chk[c] \in {"panicked", "over"}
  /\ jobs[j].ai # "run"
FinishJob(j) ==
  /\ jobs[j].stage = "checks"
  /\ ChecksOver(j)
  /\ jobs' = [jobs EXCEPT ![j].stage = "done"]
  /\ wg' = wg - 1
  /\ UNCHANGED <<main, next, holder, added, chan, closed, aiCount, results, deleted,
                 report, status>>

-----------------------------------------------------------------------------
(***************************************************************************)
(* process, after the last affected application.                           *)
(***************************************************************************)

Produced ==
  /\ main = "produce"
  /\ next > Len(Affected)
  /\ main' = "wait"
  /\ UNCHANGED <<next, holder, added, jobs, chan, closed, wg, aiCount, results, deleted,
                 report, status>>

(* wg.Wait returns and the channel is closed. *)
CloseChannel ==
  /\ main = "wait"
  /\ wg = 0
  /\ closed' = TRUE
  /\ main' = "build"
  /\ UNCHANGED <<next, holder, added, jobs, chan, wg, aiCount, results, deleted, report,
                 status>>

(* BuildComment and WorstState both leave deleted applications out; there  *)
(* are calls to the VCS between them.                                      *)
Shown == {r \in results : Name(r.job) \notin deleted}

BuildComment ==
  /\ main = "build"
  /\ report' = Shown
  /\ main' = "status"
  /\ UNCHANGED <<next, holder, added, jobs, chan, closed, wg, aiCount, results, deleted,
                 status>>

WorstState ==
  /\ main = "status"
  /\ status' = Shown
  /\ main' = "over"
  /\ UNCHANGED <<next, holder, added, jobs, chan, closed, wg, aiCount, results, deleted,
                 report>>

(* The check is over; what is left is a panicked check's late result. *)
Over == main = "over" /\ UNCHANGED vars

Job(j) ==
  \/ CallQueueApp(j) \/ QueueChild(j) \/ SendChild(j) \/ RemoveChild(j)
  \/ Take(j) \/ AddNewApp(j) \/ NoManifests(j) \/ StartChecks(j)
  \/ \E c \in Checks : CheckReturns(j, c) \/ CheckPanics(j, c) \/ PanicResult(j, c)
  \/ AIReview(j) \/ FinishJob(j)

Process ==
  QueueAffected \/ SendAffected \/ Produced \/ CloseChannel \/ BuildComment \/ WorstState

Next == Process \/ (\E j \in JobIds : Job(j)) \/ Over

Spec == Init /\ [][Next]_vars

(* Every goroutine that can go on does: checks return, and a mutex or a    *)
(* channel that is free is taken.  A panic is never owed.                  *)
FairSpec == Spec /\ WF_vars(Process \/ \E j \in JobIds : Job(j))

-----------------------------------------------------------------------------
(***************************************************************************)
(* Properties.                                                             *)
(***************************************************************************)

Owing == {j \in JobIds : jobs[j].stage # "done"}

(* The wait group counts the jobs that are not done, those still being     *)
(* sent included.  So process closes appChannel only when nothing is in it *)
(* and nobody is left who could send on it: a diff that queues a child     *)
(* does so while its own job is still counted.                             *)
ClosedAfterLastSend ==
  /\ wg = Cardinality(Owing)
  /\ closed => /\ holder = Free /\ chan = << >>
               /\ \A j \in JobIds : jobs[j].chk["diff"] \notin {"run", "call"} /\ jobs[j].ai # "run"

(* queueApp drops only what is queued already: when the channel is closed, *)
(* every affected application, and every one the diff of another asked     *)
(* for, was checked in exactly the version that was asked for.             *)
Checked(a) == \E j \in JobIds : jobs[j].app = a /\ jobs[j].stage = "done"
EveryAppChecked ==
  closed =>
    /\ \A i \in DOMAIN Affected : Checked(Affected[i])
    /\ \A r \in results : r.check = "diff" /\ r.verdict = "done" =>
         \A i \in DOMAIN Effects[jobs[r.job].app] :
           LET e == Effects[jobs[r.job].app][i] IN e.op = "queue" => Checked(e.app)

(* The comment of process: it makes "one comment per run, containing       *)
(* output for all the apps".  Every check that was started has its result  *)
(* in the report, unless its application was removed, and the commit       *)
(* status is computed from the results that the report shows.  The result  *)
(* of a panic may be late for the report, and undoes a removal.            *)
Panicked(n) ==
  \/ \E j \in JobIds, c \in Checks : Name(j) = n /\ jobs[j].chk[c] = "panicked"
  \/ \E r \in results : Name(r.job) = n /\ r.verdict = "panic"
Of(rs, n) == {r \in rs : Name(r.job) = n}
ReportComplete ==
  \A n \in Names : ~Panicked(n) =>
    /\ main \in {"status", "over"} =>
         \A j \in JobIds, c \in Checks : Name(j) = n /\ jobs[j].chk[c] # "none" =>
           n \in deleted \/ \E r \in report : r.job = j /\ r.check = c
    /\ main = "over" => Of(status, n) = Of(report, n)

(* The check comes to an end: process, holding addedAppsSetLock while it   *)
(* sends, and diffs that queue children never wait for each other for ever.*)
CheckEnds == <>(main = "over")
=============================================================================
