------------------------------ MODULE Comments ------------------------------
(***************************************************************************)
(* What the checks of one pull request leave on it, call by call: earlier  *)
(* comments are tidied, a placeholder is posted, the report replaces it and *)
(* continues in further comments, suggestions are posted as a review, and  *)
(* the commit gets its status                                              *)
(* (pkg/vcs/github_client and gitlab_client: message.go, retry.go,         *)
(* review.go, status.go, pipeline.go).                                     *)
(*                                                                         *)
(* A call to the VCS can fail, and one that failed may have taken effect.  *)
(* The GitLab library repeats a call by itself after a 429 or a 5xx.       *)
(* A setting bounds the calls that fail and the checks of a behaviour; its *)
(* chunks are what BuildComment makes of its results.                      *)
(***************************************************************************)
EXTENDS Report

CONSTANTS Settings,      \* the configurations and results that a behaviour starts from
          Earlier,       \* comments that other people have left
          MaxRetries,    \* of a GitHub call, 3 in the code
          MaxCopies      \* of a note that the GitLab library repeats

ASSUME CommentsAssumption ==
  /\ MaxRetries \in Nat
  /\ MaxCopies \in Nat \ {0}
  /\ \A s \in Settings : s.chunks = BuildComment(s.apps, s.maxComments)
  /\ \A s \in Settings : s.faults \in Nat /\ s.runs \in Nat \ {0}

(* frameChunks makes at least one comment and no more than the limit;      *)
(* suggestions come without repeats (the seen map of                       *)
(* buildAIReviewComment).                                                  *)
ASSUME SettingsAssumption ==
  \A s \in Settings :
    /\ s.gitHub \in BOOLEAN
    /\ Len(s.chunks) \in 1..MaxCommentsPerCheck
    /\ s.suggestions \in Seq(Range(s.suggestions)) /\ IsInjective(s.suggestions)

ASSUME EarlierAssumption ==
  Earlier \in Seq([run : {0}, part : {0}, own : BOOLEAN, marked : BOOLEAN, system : BOOLEAN, at : {"shown"}])

VARIABLES
  setting,    \* gitHub, delete, apps, maxComments, chunks, suggestions, ai, worstAI, pipelines, faults, runs
  comments,   \* all there ever were, oldest first
  reviews,    \* suggestion -> times it is on the pull request
  status,     \* what the commit shows, and the pipeline it is attached to
  pipelines,  \* sources of the commit's pipelines (GitLab)
  run, pc,
  todo,       \* places of the comments to tidy, then of the suggestions to post
  note,       \* the placeholder, 0 when there is none
  part, attempt,
  expired,    \* UpdateMessage's context has ended
  outcome,    \* of UpdateMessage
  tidied,     \* this run's tidying returned no error
  faults, unlisted, repeated

vars == <<setting, comments, reviews, status, pipelines, run, pc, todo, note, part,
          attempt, expired, outcome, tidied, faults, unlisted, repeated>>
page == <<comments, reviews, status, pipelines>>
posting == <<note, part, attempt, expired, outcome>>
counters == <<unlisted, repeated>>

gitHub == setting.gitHub
chunks == setting.chunks
Suggestions(places) == {setting.suggestions[i] : i \in places}
Comment(p) == [run |-> run, part |-> p, own |-> TRUE, marked |-> TRUE, system |-> FALSE, at |-> "shown"]
NoStatus == [state |-> "none", pipeline |-> "none"]

Init ==
  /\ setting \in Settings
  /\ comments = Earlier
  /\ reviews = [s \in Suggestions(DOMAIN setting.suggestions) |-> 0]
  /\ status = NoStatus /\ pipelines = setting.pipelines
  /\ run = 1 /\ pc = "tidy" /\ todo = {} /\ note = 0
  /\ part = 0 /\ attempt = 0 /\ expired = FALSE /\ outcome = "none"
  /\ tidied = FALSE /\ faults = 0 /\ unlisted = 0 /\ repeated = 0

(* A call fails.                                                           *)
Fault == faults < setting.faults /\ faults' = faults + 1
NoFault == faults' = faults

-----------------------------------------------------------------------------
(* TidyOutdatedComments: GitHub takes the bot's comments and whatever      *)
(* names the report, GitLab the bot's notes that do; hiding leaves out     *)
(* what is hidden already (GitHub's own flag, which it asks for with a     *)
(* second query; on GitLab the note says so itself).                       *)
isOwnComment(c) == IF gitHub THEN c.own \/ c.marked ELSE c.own /\ c.marked
ToTidy(c) ==
  /\ c.at # "deleted"
  /\ isOwnComment(c)
  /\ setting.delete \/ (c.at # "hidden" /\ (gitHub \/ ~c.system))
(* Mutant: only the first of the bot's comments is taken for outdated.     *)
OutdatedFirst ==
  {i \in DOMAIN comments : ToTidy(comments[i]) /\ \A j \in 1..(i - 1) : ~ToTidy(comments[j])}

Outdated == {i \in DOMAIN comments : ToTidy(comments[i])}

TidyOutdatedComments ==
  /\ pc = "tidy"
  /\ \/ NoFault /\ todo' = Outdated /\ pc' = "tidying" /\ UNCHANGED tidied
     \/ Fault /\ pc' = "note" /\ tidied' = FALSE /\ UNCHANGED todo
  /\ UNCHANGED <<setting, page, run, posting, counters>>

(* hideOutdatedMessages or pruneOldComments, one comment, oldest first: a  *)
(* call that fails ends it, and the check goes on.                         *)
Tidied(i) == comments' = [comments EXCEPT ![i].at = IF setting.delete THEN "deleted" ELSE "hidden"]
TidyOne ==
  /\ pc = "tidying" /\ todo # {}
  /\ \/ NoFault /\ Tidied(Min(todo)) /\ todo' = todo \ {Min(todo)} /\ UNCHANGED <<pc, tidied>>
     \/ /\ Fault
        /\ Tidied(Min(todo)) \/ UNCHANGED comments
        /\ pc' = "note" /\ tidied' = FALSE /\ todo' = {}
  /\ UNCHANGED <<setting, reviews, status, pipelines, run, posting, counters>>

TidyDone ==
  /\ pc = "tidying" /\ todo = {}
  /\ pc' = "note" /\ tidied' = TRUE /\ NoFault
  /\ UNCHANGED <<setting, page, run, todo, posting, counters>>

(* A new comment: the copies that land when the call succeeds, and when it *)
(* fails.                                                                  *)
CopiesPosted == 1..(IF gitHub THEN 1 ELSE MaxCopies)
CopiesLeft == {0} \cup CopiesPosted
Land(p, n) ==
  /\ comments' = comments \o [i \in 1..n |-> Comment(p)]
  /\ repeated' = repeated + Max({n - 1, 0})

(* createNote.  Without a placeholder the check ends.                      *)
PostMessage ==
  /\ pc = "note"
  /\ \/ /\ NoFault /\ \E n \in CopiesPosted : Land(0, n)
        /\ note' = Len(comments') /\ pc' = "build"
     \/ /\ Fault /\ \E n \in CopiesLeft : Land(0, n)
        /\ note' = 0 /\ pc' = "done"
  /\ UNCHANGED <<setting, reviews, status, pipelines, run, todo, part, attempt, expired,
                 outcome, tidied, unlisted>>

-----------------------------------------------------------------------------
(* The results are in: UpdateMessage starts on the chunks.                 *)
Build ==
  /\ pc = "build"
  /\ part' = 1 /\ attempt' = 0 /\ expired' = FALSE /\ outcome' = "posting" /\ pc' = "post" /\ NoFault
  /\ UNCHANGED <<setting, page, run, todo, note, tidied, counters>>

(* A comment gets its chunk, trimmed to what the VCS takes.                *)
Posted(i) == TextPrefix(chunks[i], MaxLength)

(* UpdateMessage's context ends after ten minutes, or with the check.      *)
Expire ==
  /\ pc \in {"post", "wait"} /\ ~expired
  /\ expired' = TRUE /\ NoFault
  /\ UNCHANGED <<setting, page, run, pc, todo, note, part, attempt, outcome, tidied, counters>>

(* How a call can fail: rate limited for a while or for long, too many     *)
(* requests, refused with another 4xx, a 5xx, no response at all.          *)
Failures == {"limited", "limited long", "too many", "refused", "server error", "silence"}
MayHaveLanded(f) == f \in {"server error", "silence"}

(* Mutant: a call is repeated whether or not it is idempotent.             *)
retryableAlways(f, idempotent) == f # "refused"

retryable(f, idempotent) ==
  \/ f \in {"limited", "limited long", "too many"}
  \/ idempotent /\ f \in {"silence", "server error"}

Repeat(f, edit) ==
  /\ ~expired
  /\ attempt < MaxRetries
  /\ retryable(f, edit)
  /\ f # "limited long"

(* The chunk takes effect: the first one replaces the placeholder.         *)
Write(n) ==
  IF part = 1
    THEN comments' = [comments EXCEPT ![note].part = 1] /\ UNCHANGED repeated
    ELSE Land(part, n)

PostDone(result) ==
  /\ outcome' = result /\ pc' = "review"
  /\ part' = 0 /\ attempt' = 0 /\ expired' = FALSE

(* One chunk: with the next one the attempts start again.                  *)
ChunkPosted ==
  /\ NoFault
  /\ ~expired
  /\ \E n \in CopiesPosted : Write(n)
  /\ IF part = Len(chunks) THEN PostDone("complete")
     ELSE part' = part + 1 /\ attempt' = 0 /\ UNCHANGED <<outcome, pc, expired>>

(* GitHub: rc.do.  An edit is idempotent, a new comment is not.            *)
ChunkFailed ==
  /\ gitHub
  /\ \E f \in Failures :
       /\ \/ UNCHANGED <<comments, repeated>>
          \/ MayHaveLanded(f) /\ Write(1)
       /\ IF Repeat(f, part = 1)
            THEN attempt' = attempt + 1 /\ pc' = "wait" /\ UNCHANGED <<outcome, part, expired>>
            ELSE PostDone("failed")

(* GitLab: the library has given up.                                       *)
NoteFailed ==
  /\ ~gitHub
  /\ \E n \in CopiesLeft : IF n = 0 THEN UNCHANGED <<comments, repeated>> ELSE Write(n)
  /\ PostDone("failed")

(* A call fails, on its own or because its context has ended.              *)
UpdateMessage ==
  /\ pc = "post"
  /\ \/ ChunkPosted
     \/ (Fault \/ (expired /\ NoFault)) /\ (ChunkFailed \/ NoteFailed)
  /\ UNCHANGED <<setting, reviews, status, pipelines, run, todo, note, tidied, unlisted>>

(* rc.do waits before the next attempt, unless its context ends.           *)
WaitOver ==
  /\ pc = "wait" /\ NoFault
  /\ \/ pc' = "post" /\ UNCHANGED <<outcome, part, attempt, expired>>
     \/ expired /\ PostDone("failed")
  /\ UNCHANGED <<setting, page, run, todo, note, tidied, counters>>

-----------------------------------------------------------------------------
(* PostReviewSuggestions.  A suggestion on the pull request is recognised  *)
(* by its path, line and text; one with a code fence in it is read back    *)
(* only up to that fence.                                                  *)
(* Mutant: the block is read back with the mark of its range.              *)
ExtractedWithRange(s) == [s EXCEPT !.text = <<"range", s.text>>]

Extracted(s) == [s EXCEPT !.fenced = FALSE, !.text = IF s.fenced THEN <<"cut", s.text>> ELSE s.text]
Existing == {Extracted(s) : s \in {k \in DOMAIN reviews : reviews[k] > 0}}
isDuplicateSuggestion(existing, s) ==
  \E e \in existing : e.path = s.path /\ e.line = s.line /\ e.text = s.text

(* The lookup of GitLab's diff refs comes first and may fail.  A failed    *)
(* listing counts as an empty one.                                         *)
ListReviews ==
  /\ pc = "review"
  /\ \/ /\ setting.suggestions = <<>>
        /\ NoFault /\ pc' = "status" /\ UNCHANGED <<todo, unlisted>>
     \/ /\ setting.suggestions # <<>> /\ NoFault
        /\ todo' = {i \in DOMAIN setting.suggestions : ~isDuplicateSuggestion(Existing, setting.suggestions[i])}
        /\ pc' = "suggest" /\ UNCHANGED unlisted
     \/ /\ setting.suggestions # <<>> /\ Fault
        /\ \/ todo' = DOMAIN setting.suggestions /\ unlisted' = unlisted + 1 /\ pc' = "suggest"
           \/ ~gitHub /\ pc' = "status" /\ UNCHANGED <<todo, unlisted>>
  /\ UNCHANGED <<setting, page, run, posting, tidied, repeated>>

Suggest(s, n) ==
  /\ reviews' = [k \in DOMAIN reviews |-> reviews[k] + IF k \in s THEN n ELSE 0]
  /\ repeated' = repeated + Max({n - 1, 0})

(* GitHub posts one review with all of them.                               *)
CreateReview ==
  /\ pc = "suggest" /\ gitHub
  /\ \/ todo = {} /\ NoFault /\ UNCHANGED <<reviews, repeated>>
     \/ todo # {} /\ NoFault /\ Suggest(Suggestions(todo), 1)
     \/ todo # {} /\ Fault /\ \E n \in CopiesLeft : Suggest(Suggestions(todo), n)
  /\ pc' = "status" /\ todo' = {}
  /\ UNCHANGED <<setting, comments, status, pipelines, run, posting, tidied, unlisted>>

(* GitLab posts a discussion for each, and goes on when one fails.         *)
CreateDiscussion ==
  /\ pc = "suggest" /\ ~gitHub
  /\ IF todo = {}
       THEN pc' = "status" /\ NoFault /\ UNCHANGED <<reviews, repeated, todo>>
       ELSE /\ \/ NoFault /\ \E n \in CopiesPosted : Suggest(Suggestions({Min(todo)}), n)
               \/ Fault /\ \E n \in CopiesLeft : Suggest(Suggestions({Min(todo)}), n)
            /\ todo' = todo \ {Min(todo)} /\ UNCHANGED pc
  /\ UNCHANGED <<setting, comments, status, pipelines, run, posting, tidied, unlisted>>

-----------------------------------------------------------------------------
(* GetLastPipelinesForCommit: the first of these sources.                  *)
Sources == <<"merge_request_event", "pipeline", "external_pull_request_event", "external">>
MatchedPipeline ==
  LET matching == SelectSeq(Sources, LAMBDA s : s \in pipelines)
  IN IF matching = <<>> THEN "none" ELSE Head(matching)

(* The AI review counts up to the configured state.                        *)
FinalState == Max({WorstState(setting.apps), Min({setting.ai, setting.worstAI})})

SetCommitStatus(pipeline) ==
  /\ pc' = "done"
  /\ \/ NoFault /\ status' = [state |-> IF gitHub THEN toGithubCommitStatus(FinalState) ELSE convertState(FinalState),
                              pipeline |-> pipeline]
     \/ Fault /\ UNCHANGED status

(* CommitStatus.  On GitLab pipelines none of which matched are asked for  *)
(* again, until half a minute is over; a lookup that fails finds none.     *)
CommitStatus ==
  /\ pc = "status"
  /\ \/ (gitHub \/ pipelines = {}) /\ SetCommitStatus("none")
     \/ ~gitHub /\ MatchedPipeline # "none" /\ SetCommitStatus(MatchedPipeline)
     \/ /\ ~gitHub /\ pipelines # {}
        /\ \/ MatchedPipeline = "none" /\ NoFault
           \/ Fault
        /\ pc' = "pipelines" /\ UNCHANGED status
  /\ UNCHANGED <<setting, comments, reviews, pipelines, run, todo, posting, tidied, counters>>

RetryPipelines ==
  /\ pc = "pipelines" /\ MatchedPipeline # "none"
  /\ SetCommitStatus(MatchedPipeline)
  /\ UNCHANGED <<setting, comments, reviews, pipelines, run, todo, posting, tidied, counters>>

(* Mutant: the pipelines are asked for until one matches.                  *)
PipelinesNotGivenUp ==
  /\ pc = "pipelines" /\ MatchedPipeline # "none"
  /\ SetCommitStatus("none")
  /\ UNCHANGED <<setting, comments, reviews, pipelines, run, todo, posting, tidied, counters>>

PipelinesGivenUp ==
  /\ pc = "pipelines"
  /\ SetCommitStatus("none")
  /\ UNCHANGED <<setting, comments, reviews, pipelines, run, todo, posting, tidied, counters>>

PipelineStarts ==
  /\ pc = "pipelines" /\ pipelines \cap {"merge_request_event"} = {}
  /\ pipelines' = pipelines \cup {"merge_request_event"} /\ NoFault
  /\ UNCHANGED <<setting, comments, reviews, status, run, pc, todo, posting, tidied, counters>>

(* The pull request is checked again.                                      *)
NextRun ==
  /\ pc = "done" /\ run < setting.runs
  /\ run' = run + 1 /\ pc' = "tidy" /\ todo' = {} /\ note' = 0
  /\ part' = 0 /\ attempt' = 0 /\ expired' = FALSE /\ outcome' = "none"
  /\ tidied' = FALSE /\ NoFault
  /\ UNCHANGED <<setting, page, counters>>

Next ==
  \/ TidyOutdatedComments \/ TidyOne \/ TidyDone
  \/ PostMessage \/ Build \/ Expire \/ UpdateMessage \/ WaitOver
  \/ ListReviews \/ CreateReview \/ CreateDiscussion
  \/ CommitStatus \/ RetryPipelines \/ PipelinesGivenUp \/ PipelineStarts
  \/ NextRun

Spec == Init /\ [][Next]_vars

(* Calls return and timers fire.                                           *)
FairSpec ==
  /\ Spec
  /\ WF_vars(TidyOutdatedComments \/ TidyOne \/ TidyDone \/ PostMessage \/ Build \/ UpdateMessage
             \/ WaitOver \/ ListReviews \/ CreateReview \/ CreateDiscussion \/ CommitStatus)
  /\ WF_vars(PipelinesGivenUp)

-----------------------------------------------------------------------------
TypeOK ==
  /\ setting \in Settings
  /\ \A i \in DOMAIN comments : comments[i].run \in 0..run /\ comments[i].part \in 0..MaxCommentsPerCheck
  /\ reviews \in [Suggestions(DOMAIN setting.suggestions) -> Nat]
  /\ note \in 0..Len(comments) /\ part \in 0..Len(chunks)
  /\ attempt \in 0..MaxRetries /\ run \in 1..setting.runs /\ faults \in 0..setting.faults
  /\ outcome \in {"none", "posting", "complete", "failed"}

JustBuilt == pc = "post" /\ part = 1 /\ attempt = 0 /\ ~expired

(* Every comment of a report renders on its own, wherever BuildComment had *)
(* to cut: what the VCS takes of it leaves no code fence and no <details>  *)
(* block open, there are no more comments than configured, and none is     *)
(* trimmed.                                                                *)
CommentsRender ==
  JustBuilt =>
    /\ Len(chunks) \in 1..setting.maxComments
    /\ \A i \in DOMAIN chunks : Size(chunks[i]) <= MaxLength /\ StateAfter(Posted(i)) = Closed

(* The lines of the results that the report shows, in order.               *)
LinesOf(app) ==
  IF app.deleted \/ Hidden(app) THEN <<>>
  ELSE Concat([i \in DOMAIN Checks(app) |-> Checks(app)[i].details])
Ids(text) == LET lines == SelectSeq(text, LAMBDA l : l.id # 0) IN [i \in DOMAIN lines |-> lines[i].id]
Expected == Ids(Concat([i \in DOMAIN setting.apps |-> LinesOf(setting.apps[i])]))
Says(text, note_) == \E i \in DOMAIN text : \E k \in DOMAIN text[i].tags : text[i].tags[k].tag = note_

(* Splitting loses and repeats no line: the comments of a report hold the  *)
(* lines of the results one after the other (one that is too long ends in  *)
(* a note).  Only a comment that says it was cut short lacks lines that    *)
(* come before others, and only a report that says it was truncated lacks  *)
(* those at the end.                                                       *)
NothingLost ==
  JustBuilt =>
    LET got == Ids(Concat(chunks))
        cut == \E i \in DOMAIN chunks : Says(chunks[i], "cut short")
        truncated == Says(Last(chunks), "truncated")
    IN /\ ~cut => IsPrefix(got, Expected)
       /\ ~cut /\ ~truncated => got = Expected
       /\ \A i, j \in DOMAIN got : i < j => got[i] < got[j]

(* UpdateMessage delivers a report: its parts appear in order and without  *)
(* a gap, on GitHub never twice whatever was retried, and no error means   *)
(* that all of them are there.                                             *)
Mine == {i \in DOMAIN comments : comments[i].run = run /\ comments[i].part > 0}
Kth(S, k) == CHOOSE i \in S : Cardinality({j \in S : j =< i}) = k
Shown == [k \in 1..Cardinality(Mine) |-> comments[Kth(Mine, k)].part]
D == INSTANCE Delivery WITH total <- IF outcome = "none" THEN 0 ELSE Len(chunks), shown <- Shown, repeats <- ~gitHub
Delivered == D!Spec

(* Once tidying has returned without an error, no report of an earlier     *)
(* check is left in sight, whichever of its calls failed, and no comment   *)
(* that is neither the bot's nor names a report has been touched.          *)
TidiesReports ==
  \A i \in DOMAIN comments :
    LET c == comments[i]
    IN /\ tidied /\ c.run \in 1..(run - 1) => c.at # "shown"
       /\ ~c.own /\ ~c.marked => c.at = "shown"

(* A suggestion is posted again only after a listing of the existing ones  *)
(* failed, or because the GitLab library repeated a call; a review that    *)
(* landed although its call failed is recognised by the next check.        *)
ReviewOnce == \A s \in DOMAIN reviews : ~s.fenced => reviews[s] <= 1 + unlisted + repeated

(* Posting ends, whatever fails: retries run out, waits are over.          *)
RunEnds == pc # "done" ~> pc = "done"
=============================================================================
