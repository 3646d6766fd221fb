------------------------------- MODULE Intake -------------------------------
(***************************************************************************)
(* From a pull request to the files a check works on: the webhook that     *)
(* ensureWebhooks registers (pkg/server/server.go), its deliveries         *)
(* (groupHandler, VerifyHook and ParseHook of the two clients), and the    *)
(* first part of a check: ValidatePullRequest and Clone                    *)
(* (pkg/archive/manager.go) with DownloadArchive of the two clients, the   *)
(* notices for what fails, GetPullRequestFiles and the first isSuperseded. *)
(*                                                                         *)
(* The host answers late: GitHub's API shows an older head and the merge   *)
(* of an older head for a while, GitLab's merge ref lags behind the head.  *)
(* A commit is a number, the merge of a commit with its base is named by   *)
(* the commit, and a list of changed files is the commit and its length.   *)
(*                                                                         *)
(* The queue is RepoQueue seen from one pull request, with supersede and   *)
(* the send in one step and room for every request; it is lost in a crash. *)
(* The cache is ArchiveCache, here one step with the error its retries end *)
(* with; what follows the first isSuperseded is CheckEvent.                *)
(***************************************************************************)
EXTENDS Integers, Sequences

CONSTANTS MaxCommit,   \* commits pushed to the pull request
          MaxRetries,  \* archiveRetry's maxRetries, GitLab's maxRetries (10 and 5)
          MaxResolves, \* maxRetries of resolveMergeRefToSHA (3)
          ListCap,     \* maxListedPullRequestFiles (3000)
          MaxStarts,   \* starts of the server
          Settings     \* circumstances: see SettingsAssumption

(* A setting: the client; whether the pull request is a fork's, and        *)
(* AllowForkPullRequests; the rest of its labels after "kubechecks:", and  *)
(* LabelFilter; whether ReplanCommentMessage has capital letters;          *)
(* EnsureWebhooks; whether a page of other webhooks precedes ours; the     *)
(* WebhookSecret of each start (0: none); the commits that conflict with   *)
(* the base; the files each commit changes; how often the server starts,   *)
(* comments and edits of the pull request, and calls that may fail (the    *)
(* bounds); whether CheckTimeout may end a check.                          *)
ASSUME BoundsAssumption == {MaxCommit, MaxRetries, MaxResolves, ListCap, MaxStarts} \subseteq Nat
ASSUME SettingsAssumption ==
  Settings \subseteq
    [gitHub : BOOLEAN, fork : BOOLEAN, allowForks : BOOLEAN, labels : SUBSET STRING,
     filter : STRING, capitals : BOOLEAN, ensure : BOOLEAN, crowded : BOOLEAN,
     secrets : [1..MaxStarts -> Nat], conflicts : SUBSET (1..MaxCommit),
     changed : [1..MaxCommit -> Nat], starts : 1..MaxStarts, touches : Nat, faults : Nat,
     timeouts : BOOLEAN]

VARIABLES
  setting,    \* one of Settings, fixed from the start
  host,       \* the pull request as the VCS has it: its head, the head the API shows,
              \* the newest merge, and whether the merge of the head is computed
  hooks,      \* the secrets of our webhooks on the repository
  events,     \* deliveries on their way
  up, starts, \* the server runs; how often it was started
  queue,      \* the commits of the requests that wait
  latest,     \* latestSHA of the queue, 0 when unset
  check,      \* the check that runs; at "end", its part after isSuperseded
  ctx,        \* its context: live, deadline, canceled
  validated,  \* Manager.validatedURLs: the merge each commit's URL is of, 0 for none
  results,    \* checks that went on past isSuperseded
  notices,    \* notices posted on the pull request
  touches, faults

vars == <<setting, host, hooks, events, up, starts, queue, latest, check, ctx, validated,
          results, notices, touches, faults>>
server == <<hooks, up, starts>>
posted == <<results, notices>>

gitHub == setting.gitHub
Commits == 1..MaxCommit
secret == setting.secrets[starts]

Idle == [pc |-> "idle", by |-> "none", sha |-> 0, from |-> "none", try |-> 0, archive |-> 0,
         of |-> 0, files |-> 0, cause |-> "none"]
NoURLs == [c \in Commits |-> 0]

Init ==
  /\ setting \in Settings
  /\ host = [head |-> 0, shown |-> 0, merge |-> 0, mergeable |-> "unknown"]
  /\ hooks = IF setting.ensure THEN <<>> ELSE <<setting.secrets[1]>>
  /\ events = <<>> /\ up = FALSE /\ starts = 0
  /\ queue = <<>> /\ latest = 0 /\ check = Idle /\ ctx = "live" /\ validated = NoURLs
  /\ results = {} /\ notices = {} /\ touches = 0 /\ faults = 0

(* A call fails.                                                           *)
Fault == faults < setting.faults /\ faults' = faults + 1
NoFault == faults' = faults

-----------------------------------------------------------------------------
(* The pull request and the host.  Each webhook gets a delivery of its own.*)
Emit(kind, body, sha) ==
  events' = events \o [i \in DOMAIN hooks |->
                         [kind |-> kind, body |-> body, sha |-> sha, secret |-> hooks[i]]]

Push ==
  /\ host.head < MaxCommit
  /\ host' = IF gitHub THEN [host EXCEPT !.head = @ + 1]
             ELSE [host EXCEPT !.head = @ + 1, !.shown = host.head + 1, !.mergeable = "unknown"]
  /\ Emit(IF host.head = 0 THEN "open" ELSE "push", "none", host.head + 1)
  /\ UNCHANGED <<setting, server, queue, latest, check, ctx, validated, posted, touches, faults>>

(* A comment, a new base branch, or an edit of something else.             *)
Touch ==
  /\ host.head > 0 /\ touches < setting.touches
  /\ touches' = touches + 1
  /\ \/ \E body \in {"replan", "other case", "other text"} : Emit("comment", body, host.head)
     \/ \E kind \in {"retarget", "edit"} : Emit(kind, "none", host.head)
  /\ UNCHANGED <<setting, host, server, queue, latest, check, ctx, validated, posted, faults>>

(* GitHub's API shows the head before its merge is computed; the merge it  *)
(* names until then is the previous head's.                                *)
Show ==
  /\ host.shown < host.head
  /\ host' = [host EXCEPT !.shown = host.head, !.mergeable = "unknown"]
  /\ UNCHANGED <<setting, server, events, queue, latest, check, ctx, validated, posted, touches, faults>>

(* Of a commit that conflicts with its base there is no merge: GitHub's    *)
(* API then names none, or still the one of an older head.                 *)
Merge ==
  /\ host.shown > 0 /\ host.mergeable = "unknown"
  /\ \/ /\ host.shown \notin setting.conflicts
        /\ host' = [host EXCEPT !.mergeable = "yes", !.merge = host.shown]
     \/ /\ host.shown \in setting.conflicts
        /\ \E m \in {host.merge} \cup (IF gitHub THEN {0} ELSE {}) :
             host' = [host EXCEPT !.mergeable = "no", !.merge = m]
  /\ UNCHANGED <<setting, server, events, queue, latest, check, ctx, validated, posted, touches, faults>>

-----------------------------------------------------------------------------
(* Starting the server: ensureWebhooks looks for a webhook with our URL    *)
(* and creates it where there is none.  GitHub's client reads every page   *)
(* of the webhooks, GitLab's the first.                                    *)
(* Mutant: a listing that failed counts as one without the webhook.        *)
GetHookByUrlOrNone(listed) ==
  IF hooks = <<>> \/ ~listed THEN "not found" ELSE "found"

GetHookByUrl(listed) ==
  IF ~listed THEN "error"
  ELSE IF hooks = <<>> \/ (~gitHub /\ setting.crowded) THEN "not found"
  ELSE "found"

(* CreateHook, and whether the server comes up after it: an error without  *)
(* a response makes GitLab's client dereference it.                        *)
CreateHook ==
  \/ NoFault /\ hooks' = Append(hooks, setting.secrets[starts']) /\ up' = TRUE
  \/ Fault /\ hooks' = hooks /\ up' = TRUE
  \/ Fault /\ hooks' \in {hooks, Append(hooks, setting.secrets[starts'])} /\ up' = gitHub

EnsureWebhooks ==
  \/ ~setting.ensure /\ UNCHANGED <<hooks, faults>> /\ up' = TRUE
  \/ /\ setting.ensure /\ GetHookByUrl(TRUE) = "found"
     /\ UNCHANGED <<hooks, faults>> /\ up' = TRUE
  \/ setting.ensure /\ GetHookByUrl(TRUE) = "not found" /\ CreateHook
  \/ /\ setting.ensure /\ Fault /\ up' = TRUE
     /\ hooks' = IF GetHookByUrl(FALSE) = "not found" THEN Append(hooks, setting.secrets[starts']) ELSE hooks

Start ==
  /\ ~up /\ check = Idle /\ starts < setting.starts
  /\ starts' = starts + 1
  /\ EnsureWebhooks
  /\ UNCHANGED <<setting, host, events, queue, latest, check, ctx, validated, posted, touches>>

(* The process dies: what it kept is in memory only.                       *)
Crash ==
  /\ up /\ starts < setting.starts
  /\ up' = FALSE
  /\ queue' = <<>> /\ latest' = 0 /\ check' = Idle /\ ctx' = "live" /\ validated' = NoURLs
  /\ UNCHANGED <<setting, host, hooks, events, starts, posted, touches, faults>>

-----------------------------------------------------------------------------
(* A delivery.                                                             *)
VerifyHook(e) == secret = 0 \/ e.secret = secret

rejectFork == setting.fork /\ ~setting.allowForks

(* GitHub folds the case of both sides, GitLab lowers the comment's only.  *)
IsReplan(body) == body \in {"replan", "other case"} /\ (gitHub \/ ~setting.capitals)

(* ParseHook's ErrInvalidType, or a pull request.  GitLab's update is a    *)
(* push when it names another old revision; a new base branch does not.    *)
IsCheckable(e) ==
  /\ ~rejectFork
  /\ \/ e.kind \in {"open", "push"}
     \/ e.kind = "retarget" /\ gitHub
     \/ e.kind = "comment" /\ IsReplan(e.body)

(* A comment on GitHub does not name the commit: the client asks the API.  *)
AsksHost(e) == gitHub /\ e.kind = "comment"
CommitOf(e) == IF AsksHost(e) THEN host.shown ELSE e.sha

passesLabelFilter ==
  \/ setting.filter \in setting.labels
  \/ setting.labels = {} /\ setting.filter = ""

(* Enqueue: supersede records the commit and cancels a running check of    *)
(* another one; then the request is sent.                                  *)
Enqueue(c) ==
  /\ queue' = Append(queue, c) /\ latest' = c
  /\ ctx' = IF check # Idle /\ check.sha # c /\ ctx = "live" THEN "canceled" ELSE ctx

(* groupHandler: answered 401, 200 "Skipped", 400 or 200 "Accepted".       *)
Unauthorized(e) == ~VerifyHook(e) /\ NoFault /\ UNCHANGED <<queue, latest, ctx>>
Skipped(e) == VerifyHook(e) /\ ~IsCheckable(e) /\ NoFault /\ UNCHANGED <<queue, latest, ctx>>
BadRequest(e) ==
  VerifyHook(e) /\ IsCheckable(e) /\ AsksHost(e) /\ Fault /\ UNCHANGED <<queue, latest, ctx>>
Filtered(e) ==
  /\ VerifyHook(e) /\ IsCheckable(e) /\ ~passesLabelFilter
  /\ NoFault /\ UNCHANGED <<queue, latest, ctx>>
Accepted(e) ==
  /\ VerifyHook(e) /\ IsCheckable(e) /\ passesLabelFilter /\ CommitOf(e) # 0
  /\ NoFault /\ Enqueue(CommitOf(e))

groupHandler ==
  /\ up /\ events # <<>>
  /\ events' = Tail(events)
  /\ \/ Unauthorized(Head(events))
     \/ Skipped(Head(events))
     \/ BadRequest(Head(events))
     \/ Filtered(Head(events))
     \/ Accepted(Head(events))
  /\ UNCHANGED <<setting, host, server, check, validated, posted, touches>>

(* Nobody repeats a delivery that found no server.                         *)
LoseEvent ==
  /\ ~up /\ events # <<>>
  /\ events' = Tail(events)
  /\ UNCHANGED <<setting, host, server, queue, latest, check, ctx, validated, posted, touches, faults>>

-----------------------------------------------------------------------------
(* A check begins: in the queue's worker, or with the process command,     *)
(* whose LoadHook reads the pull request and filters nothing (here: run    *)
(* while no server is up, for a commit that has no answer yet).            *)
Validating(sha, by) == [Idle EXCEPT !.pc = "ask", !.sha = sha, !.by = by, !.from = "validate"]

TakeRequest == up /\ check = Idle /\ queue # <<>> /\ queue' = Tail(queue)
StartCheck ==
  /\ TakeRequest /\ latest \in {0, Head(queue)}
  /\ check' = Validating(Head(queue), "server") /\ ctx' = "live"
  /\ UNCHANGED <<setting, host, server, events, latest, validated, posted, touches, faults>>

(* begin drops a request whose commit is not the latest any more.          *)
SkipCheck ==
  /\ TakeRequest /\ latest \notin {0, Head(queue)}
  /\ UNCHANGED <<setting, host, server, events, latest, check, ctx, validated, posted, touches, faults>>

LoadHook ==
  /\ ~up /\ check = Idle /\ host.shown # 0
  /\ host.shown \notin {r.sha : r \in results \cup notices}
  /\ check' = Validating(host.shown, "command") /\ ctx' = "live"
  /\ UNCHANGED <<setting, host, server, events, queue, latest, validated, posted, touches, faults>>

(* CheckTimeout.                                                           *)
Expire ==
  /\ setting.timeouts /\ check # Idle /\ check.by = "server" /\ ctx = "live"
  /\ ctx' = "deadline"
  /\ UNCHANGED <<setting, host, server, events, queue, latest, check, validated, posted, touches, faults>>

live == ctx = "live"
At(pc) == check.pc = pc
Goto(pc) == check' = [check EXCEPT !.pc = pc]
(* process returns, or goes on to what CheckEvent has.                     *)
Ended == check' = [Idle EXCEPT !.pc = "end", !.by = check.by, !.sha = check.sha]

Quiet == UNCHANGED <<setting, host, server, events, queue, latest, ctx, posted, touches>>

(* DownloadArchive returns: to ValidatePullRequest, which keeps the URL    *)
(* for Clone, or to Clone.                                                 *)
GotURL(merge) ==
  IF check.from = "validate"
  THEN /\ validated' = [validated EXCEPT ![check.sha] = merge]
       /\ Goto("clone")
  ELSE /\ check' = [check EXCEPT !.pc = "auth", !.archive = merge]
       /\ UNCHANGED validated
NoURL(cause) ==
  /\ check' = [check EXCEPT !.pc = IF check.from = "validate" THEN "conflict" ELSE "notify",
                            !.cause = cause]
  /\ UNCHANGED validated

(* The API's pull request is the commit's, and its merge is computed.      *)
headSHAMatches == host.shown = check.sha
mergeComputed == host.mergeable # "unknown"
mergeCommitAvailable == host.merge # 0
(* Mutant: a merge is taken for the head's before it is computed.          *)
MergeReadyUncomputed == headSHAMatches /\ mergeCommitAvailable

MergeReady == headSHAMatches /\ mergeCommitAvailable /\ mergeComputed
NotMergeable == headSHAMatches /\ mergeComputed /\ host.mergeable = "no"

(* One attempt of GitHub's DownloadArchive.                                *)
AskGitHub ==
  /\ gitHub /\ At("ask")
  /\ \/ ~live /\ NoFault /\ NoURL(ctx)
     \/ live /\ Fault /\ NoURL("host")
     \/ live /\ NoFault /\ MergeReady /\ GotURL(host.merge)
     \/ live /\ NoFault /\ ~MergeReady /\ NotMergeable /\ NoURL("host")
     \/ live /\ NoFault /\ ~MergeReady /\ ~NotMergeable /\ check.try = MaxRetries /\ NoURL("host")
     \/ /\ live /\ NoFault /\ ~MergeReady /\ ~NotMergeable /\ check.try < MaxRetries
        /\ Goto("wait") /\ UNCHANGED validated
  /\ Quiet

(* checkMRReadiness, one attempt: what the merge_ref endpoint answers.     *)
mrTransient == ~mergeCommitAvailable
AskGitLab ==
  /\ ~gitHub /\ At("ask")
  /\ \/ ~live /\ NoFault /\ NoURL(ctx)
     \/ live /\ Fault /\ NoURL("host")
     \/ live /\ NoFault /\ host.mergeable = "no" /\ NoURL("host")
     \/ /\ live /\ NoFault /\ host.mergeable # "no" /\ ~mrTransient
        /\ check' = [check EXCEPT !.pc = "resolve", !.try = 0] /\ UNCHANGED validated
     \/ /\ live /\ ((NoFault /\ host.mergeable # "no" /\ mrTransient) \/ Fault)
        /\ IF check.try = MaxRetries THEN NoURL("host") ELSE Goto("wait") /\ UNCHANGED validated
  /\ Quiet

(* resolveMergeRefToSHA: the merge ref as it is now, whatever its head.    *)
ResolveMergeRef ==
  /\ At("resolve")
  /\ \/ live /\ NoFault /\ GotURL(host.merge)
     \/ /\ (~live /\ NoFault) \/ (live /\ Fault)
        /\ IF check.try = MaxResolves THEN NoURL(IF live THEN "host" ELSE ctx)
           ELSE Goto("resolveWait") /\ UNCHANGED validated
  /\ Quiet

(* The wait between two attempts, or the end of the context.               *)
Wait ==
  /\ At("wait") \/ At("resolveWait")
  /\ IF live
     THEN /\ check' = [check EXCEPT !.pc = IF At("wait") THEN "ask" ELSE "resolve", !.try = @ + 1]
          /\ UNCHANGED validated
     ELSE NoURL(ctx)
  /\ NoFault /\ Quiet

-----------------------------------------------------------------------------
(* Clone: the URL that validation left, or another DownloadArchive.        *)
Clone ==
  /\ At("clone")
  /\ check' = IF validated[check.sha] # 0
              THEN [check EXCEPT !.pc = "auth", !.archive = validated[check.sha]]
              ELSE [check EXCEPT !.pc = "ask", !.try = 0, !.from = "clone"]
  /\ validated' = [validated EXCEPT ![check.sha] = 0]
  /\ NoFault /\ Quiet

Failed(cause) == check' = [check EXCEPT !.pc = "notify", !.cause = cause]

(* GetAuthHeaders: GitHub's App fetches a token, GitLab's is configured.   *)
GetAuthHeaders ==
  /\ At("auth")
  /\ \/ (live \/ ~gitHub) /\ NoFault /\ Goto("download")
     \/ gitHub /\ live /\ Fault /\ Failed("auth")
     \/ gitHub /\ ~live /\ NoFault /\ Failed(ctx)
  /\ UNCHANGED validated /\ Quiet

(* GetOrDownload, with the error that its retries end with.                *)
HTTPErrors == {"404", "429", "5xx", "401", "403", "4xx", "3xx"}
GetOrDownload ==
  /\ At("download")
  /\ \/ NoFault /\ Goto("files")
     \/ live /\ Fault /\ \E cause \in HTTPErrors \cup {"network", "extract"} : Failed(cause)
     \/ ~live /\ NoFault /\ Failed(ctx)
  /\ UNCHANGED validated /\ Quiet

(* What PostArchiveErrorMessage tells: the cause first, then the context;  *)
(* the other notices ask for a comment to retry.                           *)
(* Mutant: every HTTP error of the client counts as permanent.             *)
NoticeOfClientErrors(cause) ==
  IF cause \in {"404", "429", "401", "403", "4xx", "auth", "url"} THEN "fix" ELSE "retry"

Notice(cause) ==
  CASE cause \in {"deadline", "canceled"} -> cause
    [] cause \in {"404", "429", "5xx"} -> "retry"
    [] cause \in {"401", "403", "auth", "url", "4xx"} -> "fix"
    [] cause = "3xx" -> "retry"
    [] OTHER -> IF live THEN "retry" ELSE ctx

End(posts) ==
  /\ notices' = notices \cup posts
  /\ Ended
  /\ UNCHANGED <<setting, host, server, events, queue, latest, ctx, validated, results, touches>>
NoticeOf(kind) == [sha |-> check.sha, kind |-> kind, cause |-> check.cause]

(* It is posted under a context of its own when the check's has ended.     *)
(* Mutant: under the check's context, which GitHub's client minds.         *)
MayPostInTime == live \/ ~gitHub

MayPost == TRUE
PostArchiveErrorMessage ==
  /\ At("notify")
  /\ \/ NoFault /\ End(IF MayPost THEN {NoticeOf(Notice(check.cause))} ELSE {})
     \/ Fault /\ End({})

(* The notice after a failed validation is posted under the check's.       *)
PostConflictMessage ==
  /\ At("conflict")
  /\ \/ (live \/ ~gitHub) /\ NoFault /\ End({NoticeOf("conflict")})
     \/ ~live /\ gitHub /\ NoFault /\ End({})
     \/ Fault /\ End({})

-----------------------------------------------------------------------------
(* GetPullRequestFiles: of the head as the host has it now.  GitHub lists  *)
(* the first ListCap files, and is asked for their number when there may   *)
(* be more.                                                                *)
Listed(n) == IF gitHub /\ n > ListCap THEN ListCap ELSE n
(* Mutant: a list at the cap counts as complete.                           *)
MayBeCutAbove(n) == gitHub /\ n > ListCap

MayBeCut(n) == gitHub /\ n >= ListCap

GetPullRequestFiles ==
  /\ At("files")
  /\ \/ /\ live /\ NoFault
        /\ check' = [check EXCEPT !.of = host.shown, !.files = Listed(setting.changed[host.shown]),
                       !.pc = IF MayBeCut(Listed(setting.changed[host.shown])) THEN "count" ELSE "head"]
        /\ UNCHANGED <<validated, notices>>
     \/ ~live /\ NoFault /\ Ended /\ UNCHANGED <<validated, notices>>
     \/ live /\ Fault /\ Ended /\ UNCHANGED <<validated, notices>>
  /\ UNCHANGED <<setting, host, server, events, queue, latest, ctx, results, touches>>

CountFiles ==
  /\ At("count")
  /\ \/ live /\ NoFault /\ setting.changed[host.shown] =< check.files /\ Goto("head")
     \/ live /\ NoFault /\ setting.changed[host.shown] > check.files /\ Ended
     \/ ~live /\ NoFault /\ Ended
     \/ live /\ Fault /\ Ended
  /\ UNCHANGED validated /\ Quiet

(* isSuperseded: the check goes on for the head, or when the head cannot   *)
(* be read.                                                                *)
Result(sure) == [sha |-> check.sha, archive |-> check.archive, of |-> check.of,
                 files |-> check.files, sure |-> sure]
IsSuperseded ==
  /\ At("head")
  /\ Ended
  /\ \/ live /\ NoFault /\ host.shown = check.sha /\ results' = results \cup {Result(TRUE)}
     \/ live /\ NoFault /\ host.shown # check.sha /\ UNCHANGED results
     \/ live /\ Fault /\ results' = results \cup {Result(FALSE)}
     \/ ~live /\ NoFault /\ results' = results \cup {Result(FALSE)}
  /\ UNCHANGED <<setting, host, server, events, queue, latest, ctx, validated, notices, touches>>

(* What follows is over, and the queue's end forgets the commit if it is   *)
(* the latest.  (Without a server nothing is.)                             *)
EndCheck ==
  /\ At("end")
  /\ check' = Idle
  /\ latest' = IF latest = check.sha THEN 0 ELSE latest
  /\ UNCHANGED <<setting, host, server, events, queue, ctx, validated, posted, touches, faults>>

CheckStep ==
  \/ AskGitHub \/ AskGitLab \/ ResolveMergeRef \/ Wait \/ Clone \/ GetAuthHeaders
  \/ GetOrDownload \/ PostArchiveErrorMessage \/ PostConflictMessage
  \/ GetPullRequestFiles \/ CountFiles \/ IsSuperseded \/ EndCheck

Next ==
  \/ Push \/ Touch \/ Show \/ Merge \/ Start \/ Crash \/ groupHandler \/ LoseEvent
  \/ StartCheck \/ SkipCheck \/ LoadHook \/ Expire \/ CheckStep

Spec == Init /\ [][Next]_vars
(* The handlers, the queue's worker and the check go on while they can;    *)
(* the waits between attempts are timers.                                  *)
FairSpec ==
  /\ Spec
  /\ WF_vars(groupHandler)
  /\ WF_vars(StartCheck \/ SkipCheck)
  /\ WF_vars(CheckStep)

-----------------------------------------------------------------------------
(* An archive that a check of a GitHub pull request works on is the merge  *)
(* of the commit the check is for, however late the API shows the head and *)
(* computes the merge; only when that commit conflicts with its base may   *)
(* it be an older one's, if the API still names that one.  GitLab's client *)
(* compares nothing: its archive may be an older head's, but never a newer *)
(* one's that isSuperseded saw.                                            *)
RightFor(c, archive) == archive = c \/ (archive < c /\ c \in setting.conflicts)
ArchiveIsOfCommit ==
  \A r \in results : IF gitHub THEN RightFor(r.sha, r.archive) ELSE r.sure => r.archive =< r.sha

(* A check that knows it is for the head has all of the files that the     *)
(* commit changes: a list that the host cut short, or that is of another   *)
(* head, never gets past the count and the look at the head.               *)
FilesAreComplete ==
  \A r \in results : r.sure => r.of = r.sha /\ r.files = setting.changed[r.sha]

(* What is told of a failure agrees with isRetriableDownloadError, which   *)
(* the cache's own retries go by: to retry for what it retries, to fix the *)
(* configuration for what it does not.  Not so for a broken archive        *)
(* ("extract") and a redirect, which are announced as worth a retry.       *)
isRetriable(cause) == cause \in {"404", "429", "5xx", "network"}
NoticeFitsFailure ==
  \A n \in notices :
    /\ n.kind = "fix" => ~isRetriable(n.cause)
    /\ n.kind = "retry" => isRetriable(n.cause) \/ n.cause \in {"extract", "3xx", "host"}
    /\ n.cause \in {"deadline", "canceled"} => n.kind \in {n.cause, "conflict"}

(* The repository gets one webhook, over restarts, failing listings and    *)
(* creations whose answer was lost.  GitLab's client sees the first page   *)
(* of the webhooks only, and adds one at each start when ours is not on it.*)
WebhookOnce == (gitHub \/ ~setting.crowded) => Len(hooks) =< 1

(* An accepted request is answered on the pull request: its check goes on  *)
(* or a notice says why not, unless a push or another request overtakes    *)
(* it, the process dies or a call fails; and two ends are silent: a        *)
(* context that ends before the archive's URL is known (GitHub), or while  *)
(* the files are listed or counted.                                        *)
Answered(c) == \E x \in results \cup notices : x.sha = c
Silent(c) == check.sha = c /\ ~live /\ ((At("conflict") /\ gitHub) \/ At("files") \/ At("count"))
CutShort(c) == At("count") /\ check.sha = c /\ setting.changed[c] > ListCap
RequestAnswered ==
  \A c \in Commits :
    (\E i \in DOMAIN queue : queue[i] = c)
      ~> (\/ Answered(c) \/ Silent(c) \/ CutShort(c)
          \/ host.head > c \/ latest \notin {0, c} \/ ~up \/ faults > 0)
=============================================================================
