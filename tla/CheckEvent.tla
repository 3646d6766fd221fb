----------------------------- MODULE CheckEvent -----------------------------
(***************************************************************************)
(* The life of the checks of one pull request: CheckEvent.Process,         *)
(* process and settle (pkg/events/check.go), with what they read and write *)
(* in the version control system.  Commits are pushed and their webhooks   *)
(* delivered while a check runs; the check's context may be cancelled      *)
(* between any two of its calls.                                           *)
(*                                                                         *)
(* The queue is RepoQueue seen from one pull request, that is, PRQueue     *)
(* (see QueueOfPR below).  The application workers of a check are one step *)
(* (AppWorkers has them in full).                                          *)
(***************************************************************************)
EXTENDS Integers, Sequences

CONSTANTS MaxCommit,      \* commits pushed to the pull request
          Settings        \* the circumstances that the checks meet

(* A setting: pushes and webhooks in all; whether webhooks come once each, *)
(* in push order and each handled before the next; whether the queue may   *)
(* be full; whether CheckTimeout or cancelAll may end a context; whether a *)
(* call under a live context may fail; the GitHub client or the GitLab     *)
(* one; EnableAIReview.                                                    *)
ASSUME BoundsAssumption == MaxCommit \in Nat \ {0}
ASSUME SettingsAssumption ==
  Settings \subseteq [commits : 1..MaxCommit, deliveries : Nat, inOrder : BOOLEAN,
                     full : BOOLEAN, timeouts : BOOLEAN, flaky : BOOLEAN, gitHub : BOOLEAN, aiReview : BOOLEAN]

Commits == 1..MaxCommit

(* A request to check a commit, of one webhook. *)
Requests == [id : UNION {1..s.deliveries : s \in Settings}, commit : Commits]

VARIABLES
  setting,        \* one of Settings, fixed from the start
  head,           \* the pull request's head commit, in the VCS
  deliveries,     \* webhooks delivered so far
  lastDelivered,  \* the newest commit a webhook told of
  sending,        \* requests recorded and not yet sent to the queue
  queue,          \* requests waiting to be checked
  latest,         \* latestSHA of the queue, 0 when unset
  pc,             \* where the check stands
  cur,            \* the commit being checked
  ctx,            \* context.Cause of the check's context
  superseded,     \* CheckEvent.superseded
  headRead,       \* isSuperseded got an answer
  finalStatusSet, \* CheckEvent.finalStatusSet
  err,            \* process returns an error
  postErr,        \* UpdateMessage failed
  aiNote,         \* CheckEvent.aiNote is set
  holds,          \* references the check holds on the archive cache
  status,         \* commit statuses in the VCS
  comments        \* kubechecks' visible comments on the pull request

envVars == <<setting, head, deliveries, lastDelivered, sending, queue, latest>>
checkVars == <<cur, ctx, superseded, headRead, finalStatusSet, err, postErr, aiNote, holds>>
vcsVars == <<status, comments>>
vars == <<envVars, pc, checkVars, vcsVars>>

Kinds == {"running", "report", "no changes", "AI running", "AI review", "notice"}
Labels == {"idle", "validate", "setRunning", "clone", "prepare", "head", "tidy",
           "noChanges", "note", "aiNote", "apps", "report", "aiReport", "setStatus",
           "settle", "finalStatus", "end"}

TypeOK ==
  /\ setting \in Settings
  /\ head \in 0..MaxCommit
  /\ deliveries \in 0..setting.deliveries
  /\ lastDelivered \in 0..MaxCommit
  /\ sending \in SUBSET Requests
  /\ queue \in Seq(Requests)
  /\ latest \in 0..MaxCommit
  /\ pc \in Labels
  /\ cur \in 0..MaxCommit
  /\ ctx \in {"live", "superseded", "dead"}
  /\ {superseded, headRead, finalStatusSet, err, postErr, aiNote} \subseteq BOOLEAN
  /\ holds \in 0..1
  /\ status \in [Commits -> {"none", "pending", "final"}]
  /\ comments \in SUBSET [commit : Commits, kind : Kinds]

Init ==
  /\ setting \in Settings
  /\ head = 0 /\ deliveries = 0 /\ lastDelivered = 0
  /\ sending = {} /\ queue = << >> /\ latest = 0
  /\ pc = "idle" /\ cur = 0 /\ ctx = "live"
  /\ superseded = FALSE /\ headRead = FALSE /\ finalStatusSet = FALSE
  /\ err = FALSE /\ postErr = FALSE /\ aiNote = FALSE
  /\ holds = 0
  /\ status = [c \in Commits |-> "none"]
  /\ comments = {}

(* What a call to the VCS may come back with.  A call that passes the      *)
(* context on (aware) fails once that context is cancelled.  The GitHub    *)
(* client passes it on always, the GitLab client where UpdateMessage       *)
(* replaces a placeholder, not in new notes, tidying and commit statuses.  *)
(* A call that is under way when its context ends counts as made before if *)
(* it took effect, and as made after if not.                               *)
Outcomes(aware) ==
  {ok \in BOOLEAN : IF ok THEN ctx = "live" \/ ~aware
                    ELSE setting.flaky \/ (aware /\ ctx # "live")}

Comment(kind) == [commit |-> cur, kind |-> kind]

-----------------------------------------------------------------------------
(***************************************************************************)
(* The environment: pushes, webhooks, and the cancelling of contexts.      *)
(***************************************************************************)

Push ==
  /\ head < setting.commits
  /\ head' = head + 1
  /\ UNCHANGED <<setting, deliveries, lastDelivered, sending, queue, latest, pc, checkVars, vcsVars>>

(* A webhook for commit c: supersede records it as the latest and cancels  *)
(* a running check of another commit.                                      *)
Deliver(c) ==
  /\ c =< head
  /\ deliveries < setting.deliveries
  /\ setting.inOrder => c = lastDelivered + 1 /\ sending = {}
  /\ deliveries' = deliveries + 1
  /\ sending' = sending \cup {[id |-> deliveries', commit |-> c]}
  /\ lastDelivered' = IF c > lastDelivered THEN c ELSE lastDelivered
  /\ latest' = c
  /\ ctx' = IF pc # "idle" /\ cur # c /\ ctx = "live" THEN "superseded" ELSE ctx
  /\ UNCHANGED <<setting, head, queue, pc, cur, superseded, headRead, finalStatusSet, err, postErr,
                 aiNote, holds, vcsVars>>

(* Enqueue's send, which a full queue refuses. *)
Send(x) ==
  /\ x \in sending
  /\ sending' = sending \ {x}
  /\ queue' = Append(queue, x) \/ (setting.full /\ queue' = queue)
  /\ UNCHANGED <<setting, head, deliveries, lastDelivered, latest, pc, checkVars, vcsVars>>

(* CheckTimeout expires, or the shutdown cancels the root context. *)
Expire ==
  /\ setting.timeouts
  /\ pc # "idle"
  /\ ctx = "live"
  /\ ctx' = "dead"
  /\ UNCHANGED <<envVars, pc, cur, superseded, headRead, finalStatusSet, err, postErr, aiNote, holds,
                 vcsVars>>

(* The worker takes the next request and begin drops it ... *)
SkipCheck ==
  /\ pc = "idle"
  /\ queue # << >>
  /\ latest \notin {0, Head(queue).commit}
  /\ queue' = Tail(queue)
  /\ UNCHANGED <<setting, head, deliveries, lastDelivered, sending, latest, pc, checkVars, vcsVars>>

(* ... or starts a new CheckEvent for it. *)
StartCheck ==
  /\ pc = "idle"
  /\ queue # << >>
  /\ latest \in {0, Head(queue).commit}
  /\ cur' = Head(queue).commit
  /\ queue' = Tail(queue)
  /\ pc' = "validate"
  /\ ctx' = "live"
  /\ superseded' = FALSE /\ headRead' = FALSE /\ finalStatusSet' = FALSE
  /\ err' = FALSE /\ postErr' = FALSE /\ aiNote' = FALSE
  /\ UNCHANGED <<setting, head, deliveries, lastDelivered, sending, latest, holds, vcsVars>>

-----------------------------------------------------------------------------
(***************************************************************************)
(* process.                                                                *)
(***************************************************************************)

(* process returns e; the deferred Release gives the archive back if Clone *)
(* had handed one out.                                                     *)
Return(e) ==
  /\ err' = e
  /\ holds' = 0
  /\ pc' = "settle"

(* ValidatePullRequest.  A conflict, a draft or a failing call ends the    *)
(* check with a notice, which is itself best effort.                       *)
Validate ==
  /\ pc = "validate"
  /\ \/ /\ TRUE \in Outcomes(TRUE)
        /\ pc' = "setRunning"
        /\ UNCHANGED <<err, holds, comments>>
     \/ /\ Return(TRUE)
        /\ \E ok \in Outcomes(setting.gitHub) :
             comments' = IF ok THEN comments \cup {Comment("notice")} ELSE comments
  /\ UNCHANGED <<envVars, cur, ctx, superseded, headRead, finalStatusSet, postErr, aiNote, status>>

(* CommitStatus: a status other than Running marks the check as settled,   *)
(* whether or not the call to the VCS succeeds.                            *)
CommitStatus(s, ok) ==
  /\ finalStatusSet' = (finalStatusSet \/ s # "pending")
  /\ status' = IF ok THEN [status EXCEPT ![cur] = s] ELSE status

SetRunning ==
  /\ pc = "setRunning"
  /\ \E ok \in Outcomes(setting.gitHub) : CommitStatus("pending", ok)
  /\ pc' = "clone"
  /\ UNCHANGED <<envVars, cur, ctx, superseded, headRead, err, postErr, aiNote, holds, comments>>

(* ArchiveManager.Clone.  PostArchiveErrorMessage falls back to a fresh    *)
(* context, so its notice gets out even when the check was cancelled.      *)
Clone ==
  /\ pc = "clone"
  /\ \/ /\ TRUE \in Outcomes(TRUE)
        /\ holds' = holds + 1
        /\ pc' = "prepare"
        /\ UNCHANGED <<err, comments>>
     \/ /\ Return(TRUE)
        /\ \E ok \in {TRUE, ~setting.flaky} :
             comments' = IF ok THEN comments \cup {Comment("notice")} ELSE comments
  /\ UNCHANGED <<envVars, cur, ctx, superseded, headRead, finalStatusSet, postErr, aiNote, status>>

(* The clone URL, the changed files, the affected applications: all of     *)
(* them may end the check with an error.                                   *)
Prepare ==
  /\ pc = "prepare"
  /\ \/ TRUE \in Outcomes(TRUE) /\ pc' = "head" /\ UNCHANGED <<err, holds>>
     \/ Return(TRUE)
  /\ UNCHANGED <<envVars, cur, ctx, superseded, headRead, finalStatusSet, postErr, aiNote, vcsVars>>

(* isSuperseded: a head that cannot be read, or an answer that names none  *)
(* (both are ok = FALSE), does not stop the check.                         *)
SeesNewerHeadNever(ok) == FALSE
SeesNewerHead(ok) == ok /\ head # cur
CheckHead ==
  /\ pc = "head"
  /\ \E ok \in Outcomes(TRUE) :
       /\ headRead' = ok
       /\ IF SeesNewerHead(ok)
          THEN superseded' = TRUE /\ Return(FALSE)
          ELSE superseded' = superseded /\ pc' = "tidy" /\ UNCHANGED <<err, holds>>
  /\ UNCHANGED <<envVars, cur, ctx, finalStatusSet, postErr, aiNote, vcsVars>>

(* TidyOutdatedComments hides or deletes every earlier comment of the user *)
(* kubechecks runs as, on GitLab only the reports among them; a failure is *)
(* logged.  Then the affected applications decide.                         *)
TidiedNotAtAll == comments
Tidied == {c \in comments : c.kind = "notice" /\ ~setting.gitHub}
TidyComments ==
  /\ pc = "tidy"
  /\ \E ok \in Outcomes(setting.gitHub) : comments' = IF ok THEN Tidied ELSE comments
  /\ pc' \in {"noChanges", "note"}
  /\ UNCHANGED <<envVars, checkVars, status>>

(* Nothing is affected: one comment, and its failure is the check's. *)
PostNoChanges ==
  /\ pc = "noChanges"
  /\ \E ok \in Outcomes(setting.gitHub) :
       /\ comments' = IF ok THEN comments \cup {Comment("no changes")} ELSE comments
       /\ Return(~ok)
  /\ UNCHANGED <<envVars, cur, ctx, superseded, headRead, finalStatusSet, postErr, aiNote, status>>

CreateNote ==
  /\ pc = "note"
  /\ \E ok \in Outcomes(setting.gitHub) :
       IF ok
       THEN /\ comments' = comments \cup {Comment("running")}
            /\ pc' = IF setting.aiReview THEN "aiNote" ELSE "apps"
            /\ UNCHANGED <<err, holds>>
       ELSE Return(TRUE) /\ UNCHANGED comments
  /\ UNCHANGED <<envVars, cur, ctx, superseded, headRead, finalStatusSet, postErr, aiNote, status>>

(* The AI review's own placeholder; without it the review is skipped. *)
CreateAINote ==
  /\ pc = "aiNote"
  /\ \E ok \in Outcomes(setting.gitHub) :
       /\ aiNote' = ok
       /\ comments' = IF ok THEN comments \cup {Comment("AI running")} ELSE comments
  /\ pc' = "apps"
  /\ UNCHANGED <<envVars, cur, ctx, superseded, headRead, finalStatusSet, err, postErr, holds, status>>

(* The workers, until wg.Wait returns. *)
RunApps ==
  /\ pc = "apps"
  /\ pc' = "report"
  /\ UNCHANGED <<envVars, checkVars, vcsVars>>

(* UpdateMessage replaces the placeholder by the report.  Its error is     *)
(* kept for later: the checks did run.                                     *)
PostReport ==
  /\ pc = "report"
  /\ \E ok \in Outcomes(TRUE) :
       /\ postErr' = ~ok
       /\ comments' = IF ok THEN (comments \ {Comment("running")}) \cup {Comment("report")}
                      ELSE comments
  /\ pc' = IF aiNote THEN "aiReport" ELSE "setStatus"
  /\ UNCHANGED <<envVars, cur, ctx, superseded, headRead, finalStatusSet, err, aiNote, holds, status>>

PostAIReport ==
  /\ pc = "aiReport"
  /\ \E ok \in Outcomes(TRUE) :
       comments' = IF ok THEN (comments \ {Comment("AI running")}) \cup {Comment("AI review")}
                   ELSE comments
  /\ pc' = "setStatus"
  /\ UNCHANGED <<envVars, checkVars, status>>

(* The worst state of all results becomes the commit's status; process     *)
(* returns postErr.                                                        *)
SetStatus ==
  /\ pc = "setStatus"
  /\ \E ok \in Outcomes(setting.gitHub) : CommitStatus("final", ok)
  /\ Return(postErr)
  /\ UNCHANGED <<envVars, cur, ctx, superseded, headRead, postErr, aiNote, comments>>

-----------------------------------------------------------------------------
(* settle: is there a status left to set? *)
NeedsFinalIgnoringSupersede == ~finalStatusSet
NeedsFinalOnError == ~superseded /\ ctx # "superseded" /\ ~finalStatusSet /\ err
NeedsFinal == ~superseded /\ ctx # "superseded" /\ ~finalStatusSet

Settle ==
  /\ pc = "settle"
  /\ pc' = IF NeedsFinal THEN "finalStatus" ELSE "end"
  /\ UNCHANGED <<envVars, checkVars, vcsVars>>

(* finalStatus works under a context of its own, so the call only fails    *)
(* when the VCS does, and is not kept from it by a webhook that has come   *)
(* since settle looked.                                                    *)
FinalStatus ==
  /\ pc = "finalStatus"
  /\ \E ok \in {TRUE, ~setting.flaky} : CommitStatus("final", ok)
  /\ pc' = "end"
  /\ UNCHANGED <<envVars, cur, ctx, superseded, headRead, err, postErr, aiNote, holds, comments>>

(* The queue's end forgets the latest commit if it is this one. *)
EndCheck ==
  /\ pc = "end"
  /\ pc' = "idle"
  /\ latest' = IF latest = cur THEN 0 ELSE latest
  /\ UNCHANGED <<setting, head, deliveries, lastDelivered, sending, queue, checkVars, vcsVars>>

Process ==
  \/ Validate \/ SetRunning \/ Clone \/ Prepare \/ CheckHead \/ TidyComments
  \/ PostNoChanges \/ CreateNote \/ CreateAINote \/ RunApps \/ PostReport
  \/ PostAIReport \/ SetStatus \/ Settle \/ FinalStatus \/ EndCheck

Next ==
  \/ Push
  \/ \E c \in Commits : Deliver(c)
  \/ \E x \in sending : Send(x)
  \/ Expire
  \/ SkipCheck \/ StartCheck \/ Process

Spec == Init /\ [][Next]_vars

(* The worker and the handlers keep going, every call returns, and the     *)
(* webhook of a commit comes at last.  Pushes and timeouts need not.       *)
FairSpec ==
  /\ Spec
  /\ WF_vars(SkipCheck \/ StartCheck \/ Process)
  /\ \A c \in Commits : WF_vars(Deliver(c))
  /\ WF_vars(\E x \in sending : Send(x))

-----------------------------------------------------------------------------
(***************************************************************************)
(* Properties.                                                             *)
(***************************************************************************)

Reports(c) == {x \in comments : x.commit = c /\ x.kind # "notice"}

(* Every webhook that came has been worked off, the head's among them. *)
Quiet == pc = "idle" /\ sending = {} /\ queue = << >> /\ head > 0 /\ lastDelivered = head

(* finalStatus is there "so a check that stops early never leaves its      *)
(* status pending": once everything is worked off, the head commit is not  *)
(* left pending, on whichever of process' many ways out its check ended.   *)
HeadNotPending == Quiet => status[head] # "pending"

(* isSuperseded is there because "posting then would hide the newer        *)
(* check's comment behind a stale one": no check of an older commit that   *)
(* could read the head hides a report of a newer one, not even one that    *)
(* read it before the push, or one that was queued by a late webhook.      *)
NewerReportSurvives ==
  [][headRead' => \A c \in Commits : c > cur' => Reports(c) \subseteq comments']_vars

(* A check that knows of its being superseded, because it saw the newer    *)
(* head or because the queue cancelled it, writes no commit status and no  *)
(* report any more.  (A notice about an interrupted download it may.)  On  *)
(* GitLab, which sets statuses and placeholders without the context, only  *)
(* the head stops it.  Nor does settle send it on to finalStatus; but a    *)
(* webhook that comes after settle has looked at the cause is too late,    *)
(* the status is then written, since finalStatus cannot be cancelled.      *)
SupersededIsSilent ==
  [][/\ pc \notin {"idle", "finalStatus"}
     /\ superseded \/ (setting.gitHub /\ ctx = "superseded")
     => /\ pc' # "finalStatus"
        /\ status' = status
        /\ \A c \in Commits : Reports(c)' = Reports(c)]_vars

(* When a report of the head is visible and all is quiet, no report of an  *)
(* older commit is: TidyOutdatedComments of the last check has caught all  *)
(* of them, those of cancelled checks included.  Webhooks come in order    *)
(* and the VCS answers.                                                    *)
OnlyHeadReported ==
  setting.inOrder /\ ~setting.flaky /\ Quiet /\ Reports(head) # {} => \A c \in Commits : c # head => Reports(c) = {}

(* The head commit gets its final status in the end, or a newer commit     *)
(* takes its place: no way through supersede, begin, end and the early     *)
(* returns of process loses the check of the head.  Webhooks come in order *)
(* and find room, and the VCS answers; on GitHub no context expires (see   *)
(* HeadNotPending).                                                        *)
Reliable == setting.inOrder /\ ~setting.full /\ ~setting.flaky /\ (setting.gitHub => ~setting.timeouts)
HeadIsSettled ==
  \A c \in Commits :
    (Reliable /\ c =< setting.deliveries /\ head = c) ~> (status[c] = "final" \/ head # c)

-----------------------------------------------------------------------------
(***************************************************************************)
(* The queue, as PRQueue has it.  Nothing is drained here.                 *)
(***************************************************************************)

Waiting == {queue[i] : i \in DOMAIN queue}
Ahead ==
  [y \in Requests |->
     {x \in Waiting : \E i, j \in DOMAIN queue : i < j /\ queue[i] = x /\ queue[j] = y}]

Q == INSTANCE PRQueue WITH
  None <- 0, waiting <- Waiting, ahead <- Ahead, draining <- FALSE,
  checking <- IF pc = "idle" THEN 0 ELSE cur,
  context <- IF pc = "idle" THEN "none" ELSE ctx

(* The checks are started, skipped and cancelled by the queue that         *)
(* RepoQueue gives a pull request, and by nothing else.                    *)
QueueOfPR == Q!Spec
=============================================================================
