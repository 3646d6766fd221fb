--------------------------- MODULE CommentsProofs ---------------------------
(***************************************************************************)
(* Proofs about Comments, for all settings, earlier comments and bounds:   *)
(* calls that fail, calls that took effect although they failed, retries,  *)
(* copies, several checks one after the other.                             *)
(***************************************************************************)
EXTENDS Comments, SequenceTheorems, FiniteSetTheorems, WellFoundedInduction, TLAPS

PcStates == {"tidy", "tidying", "note", "build", "post", "wait", "review", "suggest",
             "status", "pipelines", "done"}
CommentRecord ==
  [run : Nat, part : 0..MaxCommentsPerCheck, own : BOOLEAN, marked : BOOLEAN, system : BOOLEAN,
   at : {"shown", "hidden", "deleted"}]

TypeInv ==
  /\ TypeOK
  /\ comments \in Seq(CommentRecord)
  /\ unlisted \in Nat /\ repeated \in Nat
  /\ pc \in PcStates

(* What a check leaves is the bot's, names the report, and is no system    *)
(* note: the next check finds it.                                          *)
OwnInv ==
  \A i \in DOMAIN comments : comments[i].run > 0 =>
    comments[i].own /\ comments[i].marked /\ ~comments[i].system

(* While comments are tidied, those of earlier checks that are still in    *)
(* sight are on the list, and it holds nobody else's.                      *)
TidyInv ==
  pc = "tidying" =>
    /\ todo \subseteq DOMAIN comments
    /\ \A i \in todo : comments[i].own \/ comments[i].marked
    /\ \A i \in DOMAIN comments :
         comments[i].run \in 1..(run - 1) /\ comments[i].at = "shown" => i \in todo

(* The outcome tells how far the check is, and while the report is posted  *)
(* its comments are the newest ones, the first of them the placeholder,    *)
(* the last of them the part before the one that comes next.               *)
PostInv ==
  /\ outcome = "posting" <=> pc \in {"post", "wait"}
  /\ pc \in {"tidy", "tidying", "note", "build"} => outcome = "none"
  /\ outcome = "none" => Mine = {}
  /\ pc \in {"build", "post", "wait"} => note \in DOMAIN comments /\ comments[note].run = run
  /\ pc = "build" => note = Len(comments)
  /\ pc \in {"post", "wait"} =>
       \/ part = 1 /\ note = Len(comments) /\ Mine \subseteq {note} /\ comments[note].part \in {0, 1}
       \/ part > 1 /\ Mine = note..Len(comments) /\ comments[Len(comments)].part = part - 1

(* A suggestion that is about to be posted is on the pull request once for *)
(* each listing that failed and each call that was repeated, not more.     *)
ReviewInv ==
  pc = "suggest" =>
    /\ todo \subseteq DOMAIN setting.suggestions
    /\ \A i \in todo : LET s == setting.suggestions[i]
                       IN ~s.fenced => reviews[s] <= unlisted + repeated

CommentsInv == TypeInv /\ OwnInv /\ TidyInv /\ TidiesReports /\ PostInv /\ ReviewInv /\ ReviewOnce

-----------------------------------------------------------------------------
LEMMA SettingFacts ==
  ASSUME NEW s \in Settings
  PROVE  /\ s.gitHub \in BOOLEAN /\ Len(s.chunks) \in 1..MaxCommentsPerCheck
         /\ s.faults \in Nat /\ s.runs \in Nat \ {0}
         /\ Len(s.suggestions) \in Nat /\ DOMAIN s.suggestions = 1..Len(s.suggestions)
         /\ \A i, j \in DOMAIN s.suggestions : s.suggestions[i] = s.suggestions[j] => i = j
         /\ MaxRetries \in Nat /\ MaxCopies \in Nat \ {0}
<1>1. s.suggestions \in Seq(Range(s.suggestions)) /\ IsInjective(s.suggestions)
  BY SettingsAssumption
<1>2. Len(s.suggestions) \in Nat /\ DOMAIN s.suggestions = 1..Len(s.suggestions)
  BY <1>1, LenProperties
<1> QED BY <1>1, <1>2, CommentsAssumption, SettingsAssumption DEF IsInjective

LEMMA CommentsFacts ==
  ASSUME comments \in Seq(CommentRecord)
  PROVE  /\ Len(comments) \in Nat /\ DOMAIN comments = 1..Len(comments)
         /\ \A i \in DOMAIN comments : comments[i] \in CommentRecord
BY LenProperties, ElementOfSeq

(* The smallest of a list of places is one of them. *)
LEMMA MinOfPlaces ==
  ASSUME NEW S, S \subseteq Nat, S # {}
  PROVE  Min(S) \in S /\ \A i \in S : Min(S) =< i
<1>1. PICK m \in S : \A i \in S : ~(<<i, m>> \in OpToRel(<, Nat))
  BY WFMin, NatLessThanWellFounded
<1>2. \A i \in S : ~(i < m)
  BY <1>1, Zenon DEF OpToRel
<1>3. \A i \in S : m =< i
  BY <1>2
<1> QED BY <1>3 DEF Min

LEMMA MaxWithZero ==
  ASSUME NEW n \in Nat
  PROVE  Max({n - 1, 0}) \in Nat /\ Max({n - 1, 0}) >= n - 1
<1>1. \E m \in {n - 1, 0} : \A i \in {n - 1, 0} : m >= i
  BY n - 1 >= 0 \/ 0 >= n - 1
<1> QED BY <1>1 DEF Max

(* Tidying a comment changes nothing but whether it is in sight. *)
LEMMA TidiedFacts ==
  ASSUME comments \in Seq(CommentRecord), NEW i \in DOMAIN comments, Tidied(i)
  PROVE  /\ comments' \in Seq(CommentRecord) /\ Len(comments') = Len(comments)
         /\ DOMAIN comments' = DOMAIN comments
         /\ \A j \in DOMAIN comments :
              /\ comments'[j].run = comments[j].run /\ comments'[j].part = comments[j].part
              /\ comments'[j].own = comments[j].own /\ comments'[j].marked = comments[j].marked
              /\ comments'[j].system = comments[j].system
              /\ j # i => comments'[j] = comments[j]
         /\ comments'[i].at \in {"deleted", "hidden"}
<1> DEFINE c == [comments[i] EXCEPT !.at = IF setting.delete THEN "deleted" ELSE "hidden"]
<1>1. comments[i] \in CommentRecord /\ i \in 1..Len(comments)
  BY CommentsFacts
<1>2. /\ c \in CommentRecord /\ c.run = comments[i].run /\ c.part = comments[i].part
      /\ c.own = comments[i].own /\ c.marked = comments[i].marked /\ c.system = comments[i].system
      /\ c.at \in {"deleted", "hidden"}
  BY <1>1 DEF CommentRecord
<1>3. comments' = [comments EXCEPT ![i] = c]
  BY DEF Tidied
<1> HIDE DEF c
<1>4. /\ comments' \in Seq(CommentRecord) /\ Len(comments') = Len(comments)
      /\ \A j \in 1..Len(comments) : comments'[j] = IF j = i THEN c ELSE comments[j]
  BY <1>1, <1>2, <1>3, ExceptSeq
<1> QED BY <1>1, <1>2, <1>4, CommentsFacts, LenProperties

(* The first part takes the place of the placeholder. *)
LEMMA ReplacedFacts ==
  ASSUME comments \in Seq(CommentRecord), NEW i \in DOMAIN comments,
         comments' = [comments EXCEPT ![i].part = 1]
  PROVE  /\ comments' \in Seq(CommentRecord) /\ Len(comments') = Len(comments)
         /\ DOMAIN comments' = DOMAIN comments
         /\ \A j \in DOMAIN comments :
              /\ comments'[j].run = comments[j].run /\ comments'[j].at = comments[j].at
              /\ comments'[j].own = comments[j].own /\ comments'[j].marked = comments[j].marked
              /\ comments'[j].system = comments[j].system
              /\ j # i => comments'[j] = comments[j]
         /\ comments'[i].part = 1
<1> DEFINE c == [comments[i] EXCEPT !.part = 1]
<1>0. 1 \in 0..MaxCommentsPerCheck
  BY DEF MaxCommentsPerCheck
<1>1. comments[i] \in CommentRecord /\ i \in 1..Len(comments)
  BY CommentsFacts
<1>2. /\ c \in CommentRecord /\ c.run = comments[i].run /\ c.at = comments[i].at
      /\ c.own = comments[i].own /\ c.marked = comments[i].marked /\ c.system = comments[i].system
      /\ c.part = 1
  BY <1>0, <1>1 DEF CommentRecord
<1>3. comments' = [comments EXCEPT ![i] = c]
  OBVIOUS
<1> HIDE DEF c
<1>4. /\ comments' \in Seq(CommentRecord) /\ Len(comments') = Len(comments)
      /\ \A j \in 1..Len(comments) : comments'[j] = IF j = i THEN c ELSE comments[j]
  BY <1>1, <1>2, <1>3, ExceptSeq
<1> QED BY <1>1, <1>2, <1>4, CommentsFacts, LenProperties

(* A call that posts adds its copies at the end. *)
LEMMA LandFacts ==
  ASSUME comments \in Seq(CommentRecord), repeated \in Nat, run \in Nat,
         NEW p \in 0..MaxCommentsPerCheck, NEW n \in Nat, Land(p, n)
  PROVE  /\ comments' \in Seq(CommentRecord) /\ Len(comments') = Len(comments) + n
         /\ DOMAIN comments' = 1..(Len(comments) + n)
         /\ \A j \in 1..Len(comments) : comments'[j] = comments[j]
         /\ \A j \in (Len(comments) + 1)..(Len(comments) + n) : comments'[j] = Comment(p)
         /\ repeated' \in Nat /\ repeated' >= repeated
<1> DEFINE copies == [i \in 1..n |-> Comment(p)]
<1>1. Comment(p) \in CommentRecord
  BY DEF Comment, CommentRecord
<1>2. copies \in Seq(CommentRecord)
  BY <1>1, IsASeq
<1>3. Len(copies) = n /\ \A i \in 1..n : copies[i] = Comment(p)
  OBVIOUS
<1>4. Len(comments) \in Nat
  BY LenProperties
<1>5. comments' = comments \o copies
  BY DEF Land
<1> HIDE DEF copies
<1>6. /\ comments' \in Seq(CommentRecord) /\ Len(comments') = Len(comments) + n
      /\ \A j \in 1..(Len(comments) + n) :
           comments'[j] = IF j =< Len(comments) THEN comments[j] ELSE copies[j - Len(comments)]
  BY <1>2, <1>3, <1>5, ConcatProperties
<1>7. \A j \in (Len(comments) + 1)..(Len(comments) + n) : comments'[j] = Comment(p)
  <2> TAKE j \in (Len(comments) + 1)..(Len(comments) + n)
  <2>1. j - Len(comments) \in 1..n /\ j \in 1..(Len(comments) + n) /\ ~(j =< Len(comments))
    BY <1>4
  <2> QED BY <1>3, <1>6, <2>1
<1>8. \A j \in 1..Len(comments) : comments'[j] = comments[j]
  BY <1>4, <1>6
<1>9. repeated' \in Nat /\ repeated' >= repeated
  <2> DEFINE more == Max({n - 1, 0})
  <2>1. more \in Nat /\ repeated' = repeated + more
    BY MaxWithZero DEF Land
  <2> HIDE DEF more
  <2> QED BY <2>1
<1>10. DOMAIN comments' = 1..(Len(comments) + n)
  BY <1>6, LenProperties
<1> QED BY <1>6, <1>7, <1>8, <1>9, <1>10

LEMMA LandedOrThere ==
  ASSUME comments \in Seq(CommentRecord), repeated \in Nat, run \in Nat,
         NEW p \in 0..MaxCommentsPerCheck, NEW n \in Nat, Land(p, n)
  PROVE  \A j \in DOMAIN comments' :
           comments'[j] = Comment(p) \/ (j \in DOMAIN comments /\ comments'[j] = comments[j])
<1>1. Len(comments) \in Nat /\ DOMAIN comments = 1..Len(comments)
  BY CommentsFacts
<1> TAKE j \in DOMAIN comments'
<1>2. j \in 1..Len(comments) \/ j \in (Len(comments) + 1)..(Len(comments) + n)
  BY <1>1, LandFacts
<1> QED BY <1>1, <1>2, LandFacts

(* What one call of UpdateMessage does to the pull request, *)
Kept == comments' = comments /\ repeated' = repeated
Replaced == part = 1 /\ comments' = [comments EXCEPT ![note].part = 1] /\ repeated' = repeated
Added == part > 1 /\ \E n \in CopiesPosted : Land(part, n)

(* and how it goes on. *)
GoesOn == (Replaced \/ Added) /\ part < Len(chunks) /\ part' = part + 1 /\ pc' = "post" /\ outcome' = outcome
Waits == (Kept \/ Replaced) /\ part' = part /\ pc' = "wait" /\ outcome' = outcome
Completes == (Replaced \/ Added) /\ part = Len(chunks) /\ part' = 0 /\ pc' = "review" /\ outcome' = "complete"
Fails == (Kept \/ Replaced \/ Added) /\ part' = 0 /\ pc' = "review" /\ outcome' = "failed"

LEMMA WriteFacts ==
  ASSUME part >= 1, part \in Nat, NEW n \in CopiesPosted, Write(n)
  PROVE  Replaced \/ Added
BY DEF Write, Replaced, Added

LEMMA OneCopy ==
  ASSUME setting \in Settings
  PROVE  /\ 1 \in CopiesPosted
         /\ \A n \in CopiesPosted : n \in Nat \ {0} /\ (gitHub => n = 1) /\ (~gitHub => n \in 1..MaxCopies)
<1>1. MaxCopies \in Nat \ {0}
  BY CommentsAssumption
<1> QED BY <1>1 DEF CopiesPosted

LEMMA PostFacts ==
  ASSUME TypeInv, PostInv, pc = "post"
  PROVE  /\ setting \in Settings /\ note \in DOMAIN comments /\ comments[note].run = run
         /\ part \in Nat /\ part >= 1 /\ part =< Len(chunks) /\ Len(chunks) \in 1..MaxCommentsPerCheck
         /\ part \in 0..MaxCommentsPerCheck /\ run \in Nat /\ outcome = "posting"
<1>1. setting \in Settings /\ Len(chunks) \in 1..MaxCommentsPerCheck /\ setting.runs \in Nat
  BY SettingFacts DEF TypeInv, TypeOK, chunks
<1>2. part \in 0..Len(chunks) /\ run \in 1..setting.runs
  BY DEF TypeInv, TypeOK
<1>3. part = 1 \/ part > 1
  BY DEF PostInv
<1>4. note \in DOMAIN comments /\ comments[note].run = run /\ outcome = "posting"
  BY DEF PostInv
<1>5. part \in 0..MaxCommentsPerCheck
  <2> DEFINE n == Len(chunks)
  <2>1. MaxCommentsPerCheck \in Nat
    BY DEF MaxCommentsPerCheck
  <2>2. n \in 1..MaxCommentsPerCheck /\ part \in 0..n
    BY <1>1, <1>2
  <2> HIDE DEF n
  <2> QED BY <2>1, <2>2
<1> QED BY <1>1, <1>2, <1>3, <1>4, <1>5

(* A call that is repeated has left nothing, or it was the edit. *)
LEMMA FailedCall ==
  ASSUME TypeInv, PostInv, pc = "post", ChunkFailed
  PROVE  Waits \/ Fails
<1>1. PICK f \in Failures :
        /\ Kept \/ (MayHaveLanded(f) /\ Write(1))
        /\ IF Repeat(f, part = 1)
             THEN pc' = "wait" /\ UNCHANGED <<outcome, part>>
             ELSE PostDone("failed")
  BY DEF ChunkFailed, Kept
<1>2. Kept \/ Replaced \/ Added
  BY <1>1, PostFacts, OneCopy, WriteFacts
<1>3. CASE Repeat(f, part = 1)
  <2>1. pc' = "wait" /\ part' = part /\ outcome' = outcome
    BY <1>1, <1>3
  <2>2. Kept \/ part = 1
    BY <1>1, <1>3 DEF Repeat, retryable, MayHaveLanded
  <2>3. ~(Added /\ part = 1)
    BY DEF Added
  <2> QED BY <1>2, <2>1, <2>2, <2>3 DEF Waits, Kept
<1>4. CASE ~Repeat(f, part = 1)
  BY <1>1, <1>2, <1>4 DEF PostDone, Fails
<1> QED BY <1>3, <1>4

LEMMA UpdateStep ==
  ASSUME TypeInv, PostInv, UpdateMessage
  PROVE  /\ pc = "post"
         /\ GoesOn \/ Waits \/ Completes \/ Fails
         /\ UNCHANGED <<setting, reviews, status, pipelines, run, todo, note, tidied, unlisted>>
<1>0. /\ pc = "post"
      /\ UNCHANGED <<setting, reviews, status, pipelines, run, todo, note, tidied, unlisted>>
  BY DEF UpdateMessage
<1>1. CASE ChunkPosted
  <2>1. Replaced \/ Added
    BY <1>0, <1>1, PostFacts, WriteFacts DEF ChunkPosted
  <2>2. CASE part = Len(chunks)
    BY <1>0, <1>1, <2>1, <2>2 DEF ChunkPosted, PostDone, Completes
  <2>3. CASE part # Len(chunks)
    <3>1. part < Len(chunks)
      BY <1>0, <2>3, PostFacts
    <3> QED BY <1>0, <1>1, <2>1, <2>3, <3>1 DEF ChunkPosted, GoesOn
  <2>4. GoesOn \/ Waits \/ Completes \/ Fails
    BY <2>2, <2>3
  <2> QED BY <1>0, <2>4
<1>2. CASE ChunkFailed
  BY <1>0, <1>2, FailedCall
<1>3. CASE NoteFailed
  <2>1. Kept \/ \E n \in CopiesPosted : Write(n)
    BY <1>3 DEF NoteFailed, CopiesLeft, Kept
  <2>2. Kept \/ Replaced \/ Added
    BY <1>0, <2>1, PostFacts, OneCopy, WriteFacts
  <2> QED BY <1>0, <1>3, <2>2 DEF NoteFailed, PostDone, Fails
<1> QED BY <1>1, <1>2, <1>3 DEF UpdateMessage

LEMMA SuggestFacts ==
  ASSUME NEW S, reviews \in [S -> Nat], repeated \in Nat, NEW s, NEW n \in Nat, Suggest(s, n)
  PROVE  /\ reviews' \in [S -> Nat] /\ repeated' \in Nat
         /\ repeated' >= repeated /\ repeated' >= repeated + n - 1
         /\ \A k \in S : reviews'[k] = reviews[k] + IF k \in s THEN n ELSE 0
<1> DEFINE more == Max({n - 1, 0})
<1>1. more \in Nat /\ more >= n - 1 /\ repeated' = repeated + more
  BY MaxWithZero DEF Suggest
<1> HIDE DEF more
<1>2. reviews' = [k \in S |-> reviews[k] + IF k \in s THEN n ELSE 0]
  BY DEF Suggest
<1>3. \A k \in S : reviews'[k] = reviews[k] + IF k \in s THEN n ELSE 0
  BY <1>2
<1>4. \A k \in S : reviews'[k] \in Nat
  BY <1>3
<1> QED BY <1>1, <1>2, <1>3, <1>4

-----------------------------------------------------------------------------
(* The steps that leave the comments, the placeholder and the check alone. *)
Rest ==
  \/ TidyOutdatedComments \/ TidyDone \/ Build \/ Expire \/ WaitOver
  \/ ListReviews \/ CreateReview \/ CreateDiscussion
  \/ CommitStatus \/ RetryPipelines \/ PipelinesGivenUp \/ PipelineStarts

LEMMA NextCases ==
  ASSUME [Next]_vars
  PROVE  TidyOne \/ PostMessage \/ UpdateMessage \/ NextRun \/ Rest \/ UNCHANGED vars
BY DEF Next, Rest

LEMMA RestFrame ==
  ASSUME Rest
  PROVE  UNCHANGED <<setting, comments, run, note>>
<1> USE DEF page, posting, counters
<1>1. CASE TidyOutdatedComments \/ TidyDone \/ Build \/ Expire \/ WaitOver
  BY <1>1 DEF TidyOutdatedComments, TidyDone, Build, Expire, WaitOver
<1>2. CASE ListReviews \/ CreateReview \/ CreateDiscussion
  BY <1>2 DEF ListReviews, CreateReview, CreateDiscussion
<1>3. CASE CommitStatus \/ RetryPipelines \/ PipelinesGivenUp \/ PipelineStarts
  BY <1>3 DEF CommitStatus, RetryPipelines, PipelinesGivenUp, PipelineStarts
<1> QED BY <1>1, <1>2, <1>3 DEF Rest

(* Nothing but a new run of the check starts it over, and one fault more   *)
(* at a time is used up.                                                   *)
LEMMA Frame ==
  ASSUME TypeInv, [Next]_vars
  PROVE  /\ setting' = setting /\ pc' \in PcStates
         /\ faults' = faults \/ (faults < setting.faults /\ faults' = faults + 1)
<1> USE DEF page, posting, counters, Fault, NoFault, PcStates
<1>0. pc \in PcStates
  BY DEF TypeInv
<1>1. CASE TidyOutdatedComments \/ TidyOne \/ TidyDone \/ PostMessage \/ Build \/ Expire
  BY <1>0, <1>1 DEF TidyOutdatedComments, TidyOne, TidyDone, PostMessage, Build, Expire
<1>2. CASE UpdateMessage
  <2>1. pc' \in PcStates
    BY <1>0, <1>2 DEF UpdateMessage, ChunkPosted, ChunkFailed, NoteFailed, PostDone
  <2>2. setting' = setting
    BY <1>2 DEF UpdateMessage
  <2>3. faults' = faults \/ (faults < setting.faults /\ faults' = faults + 1)
    BY <1>2 DEF UpdateMessage, ChunkPosted
  <2> QED BY <2>1, <2>2, <2>3
<1>3. CASE WaitOver \/ ListReviews \/ CreateReview \/ CreateDiscussion
  BY <1>0, <1>3 DEF WaitOver, PostDone, ListReviews, CreateReview, CreateDiscussion
<1>4. CASE CommitStatus \/ RetryPipelines \/ PipelinesGivenUp \/ PipelineStarts \/ NextRun
  BY <1>0, <1>4 DEF CommitStatus, RetryPipelines, PipelinesGivenUp, PipelineStarts, NextRun, SetCommitStatus
<1>5. CASE UNCHANGED vars
  BY <1>0, <1>5 DEF vars
<1> QED BY <1>1, <1>2, <1>3, <1>4, <1>5 DEF Next

(* The attempts of a call are counted up to the limit. *)
LEMMA Attempts ==
  ASSUME TypeInv, [Next]_vars
  PROVE  attempt' \in 0..MaxRetries
<1> USE DEF page, posting, counters
<1>0. attempt \in 0..MaxRetries /\ MaxRetries \in Nat
  BY CommentsAssumption DEF TypeInv, TypeOK
<1>1. CASE TidyOutdatedComments \/ TidyOne \/ TidyDone \/ PostMessage \/ Build \/ Expire
  BY <1>0, <1>1 DEF TidyOutdatedComments, TidyOne, TidyDone, PostMessage, Build, Expire
<1>2. CASE UpdateMessage
  <2>1. CASE ChunkPosted
    BY <1>0, <2>1 DEF ChunkPosted, PostDone
  <2>2. CASE ChunkFailed
    <3>1. \/ attempt < MaxRetries /\ attempt' = attempt + 1
          \/ attempt' = 0
      BY <2>2 DEF ChunkFailed, PostDone, Repeat
    <3> QED BY <1>0, <3>1
  <2>3. CASE NoteFailed
    BY <1>0, <2>3 DEF NoteFailed, PostDone
  <2> QED BY <1>2, <2>1, <2>2, <2>3 DEF UpdateMessage
<1>3. CASE WaitOver \/ ListReviews \/ CreateReview \/ CreateDiscussion
  BY <1>0, <1>3 DEF WaitOver, PostDone, ListReviews, CreateReview, CreateDiscussion
<1>4. CASE CommitStatus \/ RetryPipelines \/ PipelinesGivenUp \/ PipelineStarts \/ NextRun
  BY <1>0, <1>4 DEF CommitStatus, RetryPipelines, PipelinesGivenUp, PipelineStarts, NextRun
<1>5. CASE UNCHANGED vars
  BY <1>0, <1>5 DEF vars
<1> QED BY <1>1, <1>2, <1>3, <1>4, <1>5 DEF Next

LEMMA PartStep ==
  ASSUME TypeInv, PostInv, [Next]_vars
  PROVE  part' \in 0..Len(chunks) /\ outcome' \in {"none", "posting", "complete", "failed"}
<1> USE DEF page, posting, counters
<1> DEFINE n == Len(chunks)
           outcomes == {"none", "posting", "complete", "failed"}
<1> SUFFICES part' \in 0..n /\ outcome' \in outcomes
  OBVIOUS
<1>0. n \in Nat \ {0} /\ part \in 0..n /\ outcome \in outcomes
  <2>1. n \in 1..MaxCommentsPerCheck
    BY SettingFacts DEF TypeInv, TypeOK, chunks
  <2>2. part \in 0..n /\ outcome \in outcomes
    BY DEF TypeInv, TypeOK
  <2> HIDE DEF n
  <2> QED BY <2>1, <2>2 DEF MaxCommentsPerCheck
<1>1. CASE TidyOutdatedComments \/ TidyOne \/ TidyDone \/ PostMessage \/ Build \/ Expire
  <2>1. (part' = part /\ outcome' = outcome) \/ (part' = 1 /\ outcome' = "posting")
    BY <1>1 DEF TidyOutdatedComments, TidyOne, TidyDone, PostMessage, Build, Expire
  <2> HIDE DEF n
  <2> QED BY <1>0, <2>1
<1>2. CASE UpdateMessage
  <2>1. /\ part' = part \/ part' = 0 \/ (part < n /\ part' = part + 1)
        /\ outcome' \in {outcome, "complete", "failed"}
    BY <1>2, UpdateStep DEF GoesOn, Waits, Completes, Fails
  <2> HIDE DEF n
  <2> QED BY <1>0, <2>1
<1>3. CASE WaitOver \/ ListReviews \/ CreateReview \/ CreateDiscussion
  <2>1. (part' = part \/ part' = 0) /\ outcome' \in {outcome, "failed"}
    BY <1>3 DEF WaitOver, PostDone, ListReviews, CreateReview, CreateDiscussion
  <2> HIDE DEF n
  <2> QED BY <1>0, <2>1
<1>4. CASE CommitStatus \/ RetryPipelines \/ PipelinesGivenUp \/ PipelineStarts \/ NextRun
  <2>1. (part' = part \/ part' = 0) /\ outcome' \in {outcome, "none"}
    BY <1>4 DEF CommitStatus, RetryPipelines, PipelinesGivenUp, PipelineStarts, NextRun
  <2> HIDE DEF n
  <2> QED BY <1>0, <2>1
<1>5. CASE UNCHANGED vars
  BY <1>0, <1>5 DEF vars
<1> QED BY <1>1, <1>2, <1>3, <1>4, <1>5 DEF Next

(* What a step does to the comments: nothing, it tidies one, the first     *)
(* part takes the placeholder's place, or copies are added.                *)
LEMMA PageStep ==
  ASSUME TypeInv, TidyInv, PostInv, [Next]_vars
  PROVE  \/ comments' = comments
         \/ \E i \in todo : TidyOne /\ i \in DOMAIN comments /\ Tidied(i)
         \/ UpdateMessage /\ Replaced
         \/ \E p \in 0..MaxCommentsPerCheck, n \in Nat : (PostMessage \/ UpdateMessage) /\ Land(p, n)
<1>1. CASE TidyOne
  <2>1. todo \subseteq DOMAIN comments /\ todo # {}
    BY <1>1 DEF TidyOne, TidyInv
  <2>2. DOMAIN comments \subseteq Nat
    BY CommentsFacts DEF TypeInv
  <2>3. Min(todo) \in todo
    BY <2>1, <2>2, MinOfPlaces
  <2> QED BY <1>1, <2>1, <2>3 DEF TidyOne
<1>2. CASE PostMessage
  <2>1. \E n \in Nat : Land(0, n)
    BY <1>2, OneCopy DEF PostMessage, CopiesLeft, TypeInv, TypeOK
  <2>2. 0 \in 0..MaxCommentsPerCheck
    BY DEF MaxCommentsPerCheck
  <2> QED BY <1>2, <2>1, <2>2
<1>3. CASE UpdateMessage
  <2>1. Kept \/ Replaced \/ Added
    BY <1>3, UpdateStep DEF GoesOn, Waits, Completes, Fails
  <2>2. CASE Added
    <3>1. \E n \in Nat : Land(part, n)
      BY <2>2, OneCopy DEF Added, TypeInv, TypeOK
    <3>2. part \in 0..MaxCommentsPerCheck
      BY <1>3, UpdateStep, PostFacts
    <3> QED BY <1>3, <3>1, <3>2
  <2> QED BY <1>3, <2>1, <2>2 DEF Kept
<1>4. CASE NextRun \/ Rest \/ UNCHANGED vars
  BY <1>4, RestFrame DEF NextRun, vars, page
<1> QED BY <1>1, <1>2, <1>3, <1>4, NextCases

LEMMA RunStep ==
  ASSUME TypeInv, [Next]_vars
  PROVE  /\ run \in 1..setting.runs /\ setting.runs \in Nat /\ run \in Nat
         /\ run' = run \/ (NextRun /\ run' = run + 1 /\ run < setting.runs /\ comments' = comments)
<1>1. run \in 1..setting.runs /\ setting.runs \in Nat
  BY SettingFacts DEF TypeInv, TypeOK
<1>2. run' = run \/ (NextRun /\ run' = run + 1 /\ run < setting.runs /\ comments' = comments)
  BY NextCases, RestFrame
     DEF TidyOne, PostMessage, UpdateMessage, NextRun, vars, posting, page, counters
<1> QED BY <1>1, <1>2

(* The comments keep their type, and none is of a later check. *)
LEMMA CommentsStep ==
  ASSUME TypeInv, TidyInv, PostInv, [Next]_vars
  PROVE  /\ comments' \in Seq(CommentRecord)
         /\ \A i \in DOMAIN comments' : comments'[i].run =< run'
<1>0. /\ comments \in Seq(CommentRecord) /\ repeated \in Nat
      /\ \A i \in DOMAIN comments : comments[i].run =< run
      /\ \A i \in DOMAIN comments : comments[i].run \in Nat
      /\ run \in Nat /\ run' \in Nat /\ run =< run'
  BY RunStep, CommentsFacts DEF TypeInv, TypeOK, CommentRecord
<1>1. CASE comments' = comments
  BY <1>0, <1>1
<1>2. ASSUME NEW i \in DOMAIN comments, Tidied(i)
      PROVE  comments' \in Seq(CommentRecord) /\ \A j \in DOMAIN comments' : comments'[j].run =< run'
  BY <1>0, <1>2, TidiedFacts
<1>3. CASE UpdateMessage /\ Replaced
  <2>1. note \in DOMAIN comments
    BY <1>3, PostFacts DEF UpdateMessage
  <2>2. comments' = [comments EXCEPT ![note].part = 1]
    BY <1>3 DEF Replaced
  <2>3. /\ comments' \in Seq(CommentRecord) /\ DOMAIN comments' = DOMAIN comments
        /\ \A j \in DOMAIN comments : comments'[j].run = comments[j].run
    BY <1>0, <2>1, <2>2, ReplacedFacts
  <2> QED BY <1>0, <2>3
<1>4. ASSUME NEW p \in 0..MaxCommentsPerCheck, NEW n \in Nat, Land(p, n)
      PROVE  comments' \in Seq(CommentRecord) /\ \A j \in DOMAIN comments' : comments'[j].run =< run'
  <2>1. Comment(p).run = run
    BY DEF Comment
  <2>3. \A j \in DOMAIN comments' : comments'[j] = Comment(p) \/ (j \in DOMAIN comments /\ comments'[j] = comments[j])
    BY <1>0, <1>4, LandedOrThere
  <2>4. comments' \in Seq(CommentRecord)
    BY <1>0, <1>4, LandFacts
  <2>5. ASSUME NEW j \in DOMAIN comments' PROVE comments'[j].run =< run'
    <3>1. comments'[j].run = run \/ (comments'[j].run \in Nat /\ comments'[j].run =< run)
      BY <1>0, <2>1, <2>3
    <3> QED BY <1>0, <3>1
  <2> QED BY <2>4, <2>5
<1> QED BY <1>1, <1>2, <1>3, <1>4, PageStep

LEMMA NoteStep ==
  ASSUME TypeInv, TidyInv, PostInv, [Next]_vars
  PROVE  note' \in 0..Len(comments')
<1> DEFINE k == Len(comments)
           l == Len(comments')
<1>0. k \in Nat /\ note \in 0..k
  BY CommentsFacts DEF TypeInv, TypeOK
<1>1. l \in Nat
  BY CommentsStep, LenProperties
<1>2. k =< l
  <2>1. CASE comments' = comments
    BY <1>0, <2>1
  <2>2. ASSUME NEW i \in DOMAIN comments, Tidied(i) PROVE l = k
    BY <2>2, TidiedFacts DEF TypeInv
  <2>3. CASE UpdateMessage /\ Replaced
    <3>1. note \in DOMAIN comments /\ comments' = [comments EXCEPT ![note].part = 1]
      BY <2>3, PostFacts DEF UpdateMessage, Replaced
    <3>2. l = k
      BY <3>1, ReplacedFacts DEF TypeInv
    <3> HIDE DEF k, l
    <3> QED BY <1>0, <3>2
  <2>4. ASSUME NEW p \in 0..MaxCommentsPerCheck, NEW n \in Nat, Land(p, n) PROVE k =< l
    <3>1. l = k + n
      BY <2>4, LandFacts, RunStep DEF TypeInv
    <3> HIDE DEF k, l
    <3> QED BY <1>0, <3>1
  <2>5. ASSUME l = k PROVE k =< l
    <3> HIDE DEF k, l
    <3> QED BY <1>0, <2>5
  <2> QED BY <2>1, <2>2, <2>3, <2>4, <2>5, PageStep
<1>3. note' = note \/ note' = 0 \/ note' = l
  BY NextCases, RestFrame
     DEF TidyOne, PostMessage, UpdateMessage, NextRun, vars, posting
<1> SUFFICES note' \in 0..l
  OBVIOUS
<1> HIDE DEF k, l
<1> QED BY <1>0, <1>1, <1>2, <1>3

(* The counts of listings that failed and of calls that were repeated only *)
(* grow; suggestions come on the pull request when a review is created or  *)
(* a discussion.                                                           *)
LEMMA CountsStep ==
  ASSUME TypeInv, TidyInv, PostInv, [Next]_vars
  PROVE  /\ unlisted' \in Nat /\ unlisted' >= unlisted
         /\ repeated' \in Nat /\ repeated' >= repeated
         /\ reviews' \in [Suggestions(DOMAIN setting.suggestions) -> Nat]
         /\ ~(CreateReview \/ CreateDiscussion) => reviews' = reviews
<1> USE DEF page, posting, counters
<1>0. /\ unlisted \in Nat /\ repeated \in Nat
      /\ reviews \in [Suggestions(DOMAIN setting.suggestions) -> Nat]
      /\ setting \in Settings
  BY DEF TypeInv, TypeOK
<1>1. CASE TidyOutdatedComments \/ TidyOne \/ TidyDone \/ Build \/ Expire \/ WaitOver
  BY <1>0, <1>1 DEF TidyOutdatedComments, TidyOne, TidyDone, Build, Expire, WaitOver
<1>2. CASE PostMessage \/ UpdateMessage
  <2>1. reviews' = reviews /\ unlisted' = unlisted
    BY <1>2 DEF PostMessage, UpdateMessage
  <2>2. repeated' = repeated \/ \E p \in 0..MaxCommentsPerCheck, n \in Nat : Land(p, n)
    <3>1. CASE PostMessage
      <4>1. \E n \in Nat : Land(0, n)
        BY <1>0, <3>1, OneCopy DEF PostMessage, CopiesLeft
      <4>2. 0 \in 0..MaxCommentsPerCheck
        BY DEF MaxCommentsPerCheck
      <4> QED BY <4>1, <4>2
    <3>2. CASE UpdateMessage
      <4>1. Kept \/ Replaced \/ Added
        BY <3>2, UpdateStep DEF GoesOn, Waits, Completes, Fails
      <4>2. part \in 0..MaxCommentsPerCheck
        BY <3>2, UpdateStep, PostFacts
      <4>3. \A n \in CopiesPosted : n \in Nat
        BY <1>0, OneCopy
      <4> QED BY <4>1, <4>2, <4>3 DEF Kept, Replaced, Added
    <3> QED BY <1>2, <3>1, <3>2
  <2>3. repeated' \in Nat /\ repeated' >= repeated
    BY <1>0, <2>2, LandFacts, RunStep DEF TypeInv
  <2> QED BY <1>0, <2>1, <2>3
<1>3. CASE ListReviews
  BY <1>0, <1>3 DEF ListReviews
<1>4. CASE CreateReview \/ CreateDiscussion
  <2>1. unlisted' = unlisted
    BY <1>4 DEF CreateReview, CreateDiscussion
  <2>2. (reviews' = reviews /\ repeated' = repeated) \/ \E s, n : n \in Nat /\ Suggest(s, n)
    BY <1>0, <1>4, OneCopy DEF CreateReview, CreateDiscussion, CopiesLeft
  <2> QED BY <1>0, <1>4, <2>1, <2>2, SuggestFacts
<1>5. CASE CommitStatus \/ RetryPipelines \/ PipelinesGivenUp \/ PipelineStarts \/ NextRun
  BY <1>0, <1>5 DEF CommitStatus, RetryPipelines, PipelinesGivenUp, PipelineStarts, NextRun
<1>6. CASE UNCHANGED vars
  BY <1>0, <1>6 DEF vars
<1> QED BY <1>1, <1>2, <1>3, <1>4, <1>5, <1>6 DEF Next

LEMMA TypeStep ==
  ASSUME TypeInv, TidyInv, PostInv, [Next]_vars
  PROVE  TypeInv'
<1>1. setting' = setting /\ setting' \in Settings /\ pc' \in PcStates
  BY Frame DEF TypeInv, TypeOK
<1>2. faults' \in 0..setting.faults
  <2>1. faults \in 0..setting.faults /\ setting \in Settings
    BY DEF TypeInv, TypeOK
  <2>2. setting.faults \in Nat
    BY <2>1, SettingFacts
  <2>3. faults' = faults \/ (faults < setting.faults /\ faults' = faults + 1)
    BY Frame
  <2> QED BY <2>1, <2>2, <2>3
<1>3. run' \in 1..setting.runs /\ run' \in Nat
  BY RunStep
<1>4. /\ comments' \in Seq(CommentRecord)
      /\ \A i \in DOMAIN comments' : comments'[i].run \in 0..run' /\ comments'[i].part \in 0..MaxCommentsPerCheck
  <2>1. \A i \in DOMAIN comments' : comments'[i] \in CommentRecord
    BY CommentsStep, LenProperties, ElementOfSeq
  <2> QED BY <1>3, <2>1, CommentsStep DEF CommentRecord
<1>5. reviews' \in [Suggestions(DOMAIN setting.suggestions) -> Nat] /\ unlisted' \in Nat /\ repeated' \in Nat
  BY CountsStep
<1>6. reviews' \in [Suggestions(DOMAIN setting.suggestions)' -> Nat]
  BY <1>1, <1>5 DEF Suggestions
<1>7. /\ note' \in 0..Len(comments') /\ part' \in 0..Len(chunks')
      /\ outcome' \in {"none", "posting", "complete", "failed"} /\ attempt' \in 0..MaxRetries
  BY <1>1, NoteStep, PartStep, Attempts DEF chunks
<1>8. TypeOK'
  BY <1>1, <1>2, <1>3, <1>4, <1>6, <1>7 DEF TypeOK
<1> QED BY <1>1, <1>4, <1>5, <1>8 DEF TypeInv

-----------------------------------------------------------------------------
LEMMA OwnStep ==
  ASSUME TypeInv, OwnInv, TidyInv, PostInv, [Next]_vars
  PROVE  OwnInv'
<1> DEFINE Found(c) == c.own /\ c.marked /\ ~c.system
<1>0. comments \in Seq(CommentRecord) /\ \A i \in DOMAIN comments : comments[i].run > 0 => Found(comments[i])
  BY DEF TypeInv, OwnInv
<1> SUFFICES \A i \in DOMAIN comments' : comments'[i].run > 0 => Found(comments'[i])
  BY DEF OwnInv
<1>1. CASE comments' = comments
  BY <1>0, <1>1
<1>2. ASSUME NEW i \in DOMAIN comments, Tidied(i)
      PROVE  \A j \in DOMAIN comments' : comments'[j].run > 0 => Found(comments'[j])
  BY <1>0, <1>2, TidiedFacts
<1>3. CASE UpdateMessage /\ Replaced
  <2>1. note \in DOMAIN comments /\ comments' = [comments EXCEPT ![note].part = 1]
    BY <1>3, PostFacts DEF UpdateMessage, Replaced
  <2>2. \A j \in DOMAIN comments' :
          /\ j \in DOMAIN comments /\ comments'[j].run = comments[j].run /\ comments'[j].own = comments[j].own
          /\ comments'[j].marked = comments[j].marked /\ comments'[j].system = comments[j].system
    BY <1>0, <2>1, ReplacedFacts
  <2> QED BY <1>0, <2>2
<1>4. ASSUME NEW p \in 0..MaxCommentsPerCheck, NEW n \in Nat, Land(p, n)
      PROVE  \A j \in DOMAIN comments' : comments'[j].run > 0 => Found(comments'[j])
  <2>1. Found(Comment(p))
    BY DEF Comment
  <2>2. \A j \in DOMAIN comments' : comments'[j] = Comment(p) \/ (j \in DOMAIN comments /\ comments'[j] = comments[j])
    BY <1>4, LandedOrThere, RunStep DEF TypeInv
  <2> QED BY <1>0, <2>1, <2>2
<1> QED BY <1>1, <1>2, <1>3, <1>4, PageStep

(* Every comment of an earlier check that is in sight is found outdated. *)
LEMMA OutdatedFacts ==
  ASSUME TypeInv, OwnInv
  PROVE  /\ Outdated \subseteq DOMAIN comments
         /\ \A i \in Outdated : comments[i].own \/ comments[i].marked
         /\ \A i \in DOMAIN comments : comments[i].run \in 1..(run - 1) /\ comments[i].at = "shown" => i \in Outdated
<1>1. run \in Nat
  BY SettingFacts DEF TypeInv, TypeOK
<1>2. ASSUME NEW i \in DOMAIN comments, comments[i].run \in 1..(run - 1), comments[i].at = "shown"
      PROVE  i \in Outdated
  <2>1. comments[i].own /\ comments[i].marked /\ ~comments[i].system
    BY <1>1, <1>2 DEF OwnInv
  <2> QED BY <1>2, <2>1 DEF Outdated, ToTidy, isOwnComment
<1> QED BY <1>2 DEF Outdated, ToTidy, isOwnComment

LEMMA TidyOneFacts ==
  ASSUME TypeInv, TidyInv, TidyOne
  PROVE  /\ pc = "tidying" /\ run' = run
         /\ \/ comments' = comments /\ pc' = "note" /\ tidied' = FALSE
            \/ \E i \in todo :
                 /\ i \in DOMAIN comments /\ Tidied(i)
                 /\ \/ pc' = "note" /\ tidied' = FALSE
                    \/ pc' = "tidying" /\ todo' = todo \ {i} /\ tidied' = tidied
<1>1. todo \subseteq DOMAIN comments /\ todo # {}
  BY DEF TidyOne, TidyInv
<1>2. DOMAIN comments \subseteq Nat
  BY CommentsFacts DEF TypeInv
<1>3. Min(todo) \in todo /\ Min(todo) \in DOMAIN comments
  BY <1>1, <1>2, MinOfPlaces
<1> QED BY <1>3 DEF TidyOne

LEMMA TidyStep ==
  ASSUME TypeInv, OwnInv, TidyInv, [Next]_vars
  PROVE  TidyInv'
<1> USE DEF page, posting, counters
<1> SUFFICES ASSUME pc' = "tidying"
             PROVE  /\ todo' \subseteq DOMAIN comments'
                    /\ \A i \in todo' : comments'[i].own \/ comments'[i].marked
                    /\ \A i \in DOMAIN comments' :
                         comments'[i].run \in 1..(run' - 1) /\ comments'[i].at = "shown" => i \in todo'
  BY DEF TidyInv
<1>1. CASE TidyOutdatedComments
  <2>1. todo' = Outdated /\ comments' = comments /\ run' = run
    BY <1>1 DEF TidyOutdatedComments
  <2> QED BY <2>1, OutdatedFacts
<1>2. CASE TidyOne
  <2>1. PICK i \in DOMAIN comments : Tidied(i) /\ todo' = todo \ {i} /\ run' = run /\ pc = "tidying"
    BY <1>2, TidyOneFacts
  <2>2. /\ DOMAIN comments' = DOMAIN comments
        /\ \A j \in DOMAIN comments :
             /\ comments'[j].run = comments[j].run
             /\ comments'[j].own = comments[j].own /\ comments'[j].marked = comments[j].marked
             /\ j # i => comments'[j] = comments[j]
        /\ comments'[i].at # "shown"
    BY <2>1, TidiedFacts DEF TypeInv
  <2>3. /\ todo \subseteq DOMAIN comments
        /\ \A j \in todo : comments[j].own \/ comments[j].marked
        /\ \A j \in DOMAIN comments :
             comments[j].run \in 1..(run - 1) /\ comments[j].at = "shown" => j \in todo
    BY <2>1 DEF TidyInv
  <2> QED BY <2>1, <2>2, <2>3
<1>3. CASE TidyDone \/ PostMessage \/ Build \/ Expire \/ WaitOver
  BY <1>3 DEF TidyDone, PostMessage, Build, Expire, WaitOver, PostDone
<1>4. CASE UpdateMessage
  BY <1>4 DEF UpdateMessage, ChunkPosted, ChunkFailed, NoteFailed, PostDone
<1>5. CASE ListReviews \/ CreateReview \/ CreateDiscussion
  BY <1>5 DEF ListReviews, CreateReview, CreateDiscussion
<1>6. CASE CommitStatus \/ RetryPipelines \/ PipelinesGivenUp \/ PipelineStarts \/ NextRun
  BY <1>6 DEF CommitStatus, RetryPipelines, PipelinesGivenUp, PipelineStarts, NextRun, SetCommitStatus
<1>7. CASE UNCHANGED vars
  BY <1>7 DEF vars, TidyInv
<1> QED BY <1>1, <1>2, <1>3, <1>4, <1>5, <1>6, <1>7 DEF Next

(* Tidying has succeeded in this run of the check, or it does so with this *)
(* step.                                                                   *)
LEMMA TidiedStays ==
  ASSUME TypeInv, [Next]_vars, tidied'
  PROVE  run' = run /\ (tidied \/ TidyDone)
<1> USE DEF page, posting, counters
<1>1. CASE TidyOutdatedComments \/ TidyOne \/ TidyDone \/ PostMessage \/ Build \/ Expire
  BY <1>1 DEF TidyOutdatedComments, TidyOne, TidyDone, PostMessage, Build, Expire
<1>2. CASE UpdateMessage \/ WaitOver \/ ListReviews \/ CreateReview \/ CreateDiscussion
  BY <1>2 DEF UpdateMessage, WaitOver, ListReviews, CreateReview, CreateDiscussion
<1>3. CASE CommitStatus \/ RetryPipelines \/ PipelinesGivenUp \/ PipelineStarts \/ NextRun
  BY <1>3 DEF CommitStatus, RetryPipelines, PipelinesGivenUp, PipelineStarts, NextRun
<1>4. CASE UNCHANGED vars
  BY <1>4 DEF vars
<1> QED BY <1>1, <1>2, <1>3, <1>4 DEF Next

LEMMA TidiesStep ==
  ASSUME TypeInv, OwnInv, TidyInv, TidiesReports, PostInv, [Next]_vars
  PROVE  TidiesReports'
<1>0. /\ comments \in Seq(CommentRecord) /\ run \in Nat
      /\ \A i \in DOMAIN comments :
           /\ tidied /\ comments[i].run \in 1..(run - 1) => comments[i].at # "shown"
           /\ ~comments[i].own /\ ~comments[i].marked => comments[i].at = "shown"
  BY RunStep DEF TypeInv, TidiesReports
<1>1. ASSUME tidied'
      PROVE  /\ run' = run
             /\ \A i \in DOMAIN comments : comments[i].run \in 1..(run - 1) => comments[i].at # "shown"
  <2>1. run' = run /\ (tidied \/ TidyDone)
    BY <1>1, TidiedStays
  <2>2. CASE TidyDone
    BY <2>1, <2>2 DEF TidyDone, TidyInv
  <2> QED BY <1>0, <2>1, <2>2
<1> SUFFICES ASSUME NEW j \in DOMAIN comments'
             PROVE  /\ tidied' /\ comments'[j].run \in 1..(run' - 1) => comments'[j].at # "shown"
                    /\ ~comments'[j].own /\ ~comments'[j].marked => comments'[j].at = "shown"
  BY DEF TidiesReports
<1>2. CASE comments' = comments
  BY <1>0, <1>1, <1>2
<1>3. ASSUME NEW i \in todo, TidyOne, i \in DOMAIN comments, Tidied(i)
      PROVE  /\ tidied' /\ comments'[j].run \in 1..(run' - 1) => comments'[j].at # "shown"
             /\ ~comments'[j].own /\ ~comments'[j].marked => comments'[j].at = "shown"
  <2>1. comments[i].own \/ comments[i].marked
    BY <1>3 DEF TidyOne, TidyInv
  <2>2. /\ j \in DOMAIN comments
        /\ comments'[j].run = comments[j].run
        /\ comments'[j].own = comments[j].own /\ comments'[j].marked = comments[j].marked
        /\ j # i => comments'[j] = comments[j]
        /\ comments'[i].at # "shown"
    BY <1>0, <1>3, TidiedFacts
  <2> QED BY <1>0, <1>1, <2>1, <2>2
<1>4. CASE UpdateMessage /\ Replaced
  <2>1. note \in DOMAIN comments /\ comments' = [comments EXCEPT ![note].part = 1]
    BY <1>4, PostFacts DEF UpdateMessage, Replaced
  <2>2. /\ j \in DOMAIN comments
        /\ comments'[j].run = comments[j].run /\ comments'[j].at = comments[j].at
        /\ comments'[j].own = comments[j].own /\ comments'[j].marked = comments[j].marked
    BY <1>0, <2>1, ReplacedFacts
  <2> QED BY <1>0, <1>1, <2>2
<1>5. ASSUME NEW p \in 0..MaxCommentsPerCheck, NEW n \in Nat, Land(p, n)
      PROVE  /\ tidied' /\ comments'[j].run \in 1..(run' - 1) => comments'[j].at # "shown"
             /\ ~comments'[j].own /\ ~comments'[j].marked => comments'[j].at = "shown"
  <2>1. Comment(p).run = run /\ Comment(p).own /\ Comment(p).at = "shown"
    BY DEF Comment
  <2>2. comments'[j] = Comment(p) \/ (j \in DOMAIN comments /\ comments'[j] = comments[j])
    BY <1>0, <1>5, LandedOrThere DEF TypeInv
  <2>3. CASE comments'[j] = Comment(p)
    BY <1>0, <1>1, <2>1, <2>3
  <2>4. CASE j \in DOMAIN comments /\ comments'[j] = comments[j]
    BY <1>0, <1>1, <2>4
  <2> QED BY <2>2, <2>3, <2>4
<1> QED BY <1>2, <1>3, <1>4, <1>5, PageStep

-----------------------------------------------------------------------------
(* What a listing leaves to post is not on the pull request, unless it has *)
(* a code fence in it.                                                     *)
LEMMA ListedFacts ==
  ASSUME TypeInv, NEW i \in DOMAIN setting.suggestions,
         ~isDuplicateSuggestion(Existing, setting.suggestions[i]), ~setting.suggestions[i].fenced
  PROVE  reviews[setting.suggestions[i]] = 0
<1> DEFINE s == setting.suggestions[i]
<1>1. s \in DOMAIN reviews /\ reviews[s] \in Nat
  BY DEF TypeInv, TypeOK, Suggestions
<1>2. ASSUME reviews[s] > 0 PROVE FALSE
  <2>1. Extracted(s) \in Existing
    BY <1>1, <1>2 DEF Existing
  <2>2. Extracted(s).path = s.path /\ Extracted(s).line = s.line /\ Extracted(s).text = s.text
    BY DEF Extracted
  <2>3. isDuplicateSuggestion(Existing, s)
    BY <2>1, <2>2 DEF isDuplicateSuggestion
  <2> QED BY <2>3
<1> QED BY <1>1, <1>2

(* Posting suggestions of the list: each goes up by the copies that land.  *)
LEMMA PostSuggestions ==
  ASSUME TypeInv, ReviewInv, ReviewOnce, pc = "suggest",
         NEW P \in SUBSET todo, NEW n \in Nat, Suggest(Suggestions(P), n), unlisted' = unlisted
  PROVE  /\ \A s \in DOMAIN reviews : ~s.fenced => reviews'[s] <= 1 + unlisted' + repeated'
         /\ \A i \in todo \ P : LET s == setting.suggestions[i]
                                IN ~s.fenced => reviews'[s] <= unlisted' + repeated'
<1> DEFINE S == Suggestions(DOMAIN setting.suggestions)
<1>1. /\ reviews \in [S -> Nat] /\ repeated \in Nat /\ unlisted \in Nat /\ setting \in Settings
      /\ todo \subseteq DOMAIN setting.suggestions
      /\ \A i \in todo : LET s == setting.suggestions[i] IN ~s.fenced => reviews[s] <= unlisted + repeated
      /\ \A s \in S : ~s.fenced => reviews[s] <= 1 + unlisted + repeated
  BY DEF TypeInv, TypeOK, ReviewInv, ReviewOnce
<1>2. /\ repeated' \in Nat /\ repeated' >= repeated /\ repeated' >= repeated + n - 1
      /\ \A k \in S : reviews'[k] = reviews[k] + IF k \in Suggestions(P) THEN n ELSE 0
  BY <1>1, SuggestFacts
<1>3. ASSUME NEW s \in S, ~s.fenced
      PROVE  reviews'[s] <= 1 + unlisted + repeated'
  <2>1. CASE s \in Suggestions(P)
    <3>1. reviews[s] <= unlisted + repeated
      BY <1>1, <1>3, <2>1 DEF Suggestions
    <3>2. reviews'[s] = reviews[s] + n /\ reviews[s] \in Nat
      BY <1>1, <1>2, <2>1
    <3> QED BY <1>1, <1>2, <3>1, <3>2
  <2>2. CASE s \notin Suggestions(P)
    <3>1. reviews'[s] = reviews[s] /\ reviews[s] \in Nat
      BY <1>1, <1>2, <2>2
    <3> QED BY <1>1, <1>2, <1>3, <3>1
  <2> QED BY <2>1, <2>2
<1>4. ASSUME NEW i \in todo \ P, ~setting.suggestions[i].fenced
      PROVE  reviews'[setting.suggestions[i]] <= unlisted + repeated'
  <2> DEFINE s == setting.suggestions[i]
  <2>1. s \in S /\ i \in DOMAIN setting.suggestions
    BY <1>1 DEF Suggestions
  <2>2. s \notin Suggestions(P)
    BY <1>1, <2>1, SettingFacts DEF Suggestions
  <2>3. reviews'[s] = reviews[s] /\ reviews[s] \in Nat
    BY <1>1, <1>2, <2>1, <2>2
  <2>4. reviews[s] <= unlisted + repeated
    BY <1>1, <1>4
  <2> QED BY <1>1, <1>2, <2>3, <2>4
<1> QED BY <1>1, <1>3, <1>4

LEMMA ReviewStep ==
  ASSUME TypeInv, TidyInv, PostInv, ReviewInv, ReviewOnce, [Next]_vars
  PROVE  ReviewInv' /\ ReviewOnce'
<1> USE DEF page, posting, counters
<1>0. /\ setting' = setting /\ setting \in Settings /\ unlisted \in Nat /\ repeated \in Nat
      /\ unlisted' \in Nat /\ unlisted' >= unlisted /\ repeated' \in Nat /\ repeated' >= repeated
      /\ ~(CreateReview \/ CreateDiscussion) => reviews' = reviews
      /\ reviews \in [Suggestions(DOMAIN setting.suggestions) -> Nat]
      /\ DOMAIN reviews' = DOMAIN reviews
  BY Frame, CountsStep DEF TypeInv, TypeOK
<1>1. ASSUME reviews' = reviews
      PROVE  ReviewOnce'
  BY <1>0, <1>1 DEF ReviewOnce
<1>2. ASSUME reviews' = reviews, pc' # "suggest"
      PROVE  ReviewInv' /\ ReviewOnce'
  BY <1>1, <1>2 DEF ReviewInv
<1>3. ASSUME reviews' = reviews, pc = "suggest", todo' = todo
      PROVE  ReviewInv' /\ ReviewOnce'
  <2>1. \A i \in todo : setting.suggestions[i] \in DOMAIN reviews
    BY <1>0, <1>3 DEF ReviewInv, Suggestions
  <2>2. ReviewInv'
    BY <1>0, <1>3, <2>1 DEF ReviewInv
  <2> QED BY <1>1, <1>3, <2>2
<1>4. CASE TidyOutdatedComments \/ TidyOne \/ TidyDone \/ PostMessage \/ Build
  <2>1. pc' # "suggest"
    BY <1>4 DEF TidyOutdatedComments, TidyOne, TidyDone, PostMessage, Build
  <2>2. ~(CreateReview \/ CreateDiscussion)
    BY <1>4 DEF TidyOutdatedComments, TidyOne, TidyDone, PostMessage, Build, CreateReview, CreateDiscussion
  <2> QED BY <1>0, <1>2, <2>1, <2>2
<1>5. CASE Expire \/ UpdateMessage \/ WaitOver
  <2>1. pc' # "suggest"
    BY <1>5, UpdateStep DEF Expire, WaitOver, PostDone, GoesOn, Waits, Completes, Fails
  <2>2. reviews' = reviews
    BY <1>5 DEF Expire, UpdateMessage, WaitOver
  <2> QED BY <1>2, <2>1, <2>2
<1>6. CASE ListReviews
  <2>1. reviews' = reviews /\ repeated' = repeated
    BY <1>6 DEF ListReviews
  <2>2. ReviewInv'
    <3>1. CASE pc' # "suggest"
      BY <3>1 DEF ReviewInv
    <3>2. CASE /\ todo' = {i \in DOMAIN setting.suggestions : ~isDuplicateSuggestion(Existing, setting.suggestions[i])}
               /\ unlisted' = unlisted
      BY <1>0, <2>1, <3>2, ListedFacts DEF ReviewInv
    <3>3. CASE todo' = DOMAIN setting.suggestions /\ unlisted' = unlisted + 1
      <4>1. ASSUME NEW i \in DOMAIN setting.suggestions, ~setting.suggestions[i].fenced
            PROVE  reviews[setting.suggestions[i]] <= unlisted' + repeated
        <5> DEFINE s == setting.suggestions[i]
        <5>1. s \in DOMAIN reviews /\ reviews[s] \in Nat
          BY <1>0 DEF Suggestions
        <5>2. reviews[s] <= 1 + unlisted + repeated
          BY <4>1, <5>1 DEF ReviewOnce
        <5> HIDE DEF s
        <5>3. reviews[s] <= unlisted' + repeated
          BY <1>0, <3>3, <5>1, <5>2
        <5> QED BY <5>3 DEF s
      <4> QED BY <1>0, <2>1, <3>3, <4>1 DEF ReviewInv
    <3> QED BY <1>6, <3>1, <3>2, <3>3 DEF ListReviews
  <2> QED BY <1>1, <2>1, <2>2
<1>7. CASE CreateReview
  <2>1. pc = "suggest" /\ pc' = "status" /\ unlisted' = unlisted
    BY <1>7 DEF CreateReview
  <2>2. CASE reviews' = reviews
    BY <1>2, <2>1, <2>2
  <2>3. ASSUME NEW n \in Nat, Suggest(Suggestions(todo), n)
        PROVE  ReviewOnce'
    <3>1. todo \in SUBSET todo
      OBVIOUS
    <3> QED BY <1>0, <2>1, <2>3, <3>1, PostSuggestions DEF ReviewOnce
  <2>4. reviews' = reviews \/ \E n \in Nat : Suggest(Suggestions(todo), n)
    BY <1>0, <1>7, OneCopy DEF CreateReview, CopiesLeft
  <2>5. ReviewInv'
    BY <2>1 DEF ReviewInv
  <2> QED BY <2>2, <2>3, <2>4, <2>5
<1>8. CASE CreateDiscussion
  <2>1. pc = "suggest" /\ unlisted' = unlisted
    BY <1>8 DEF CreateDiscussion
  <2>2. CASE todo = {}
    BY <1>2, <1>8, <2>2 DEF CreateDiscussion
  <2>3. CASE todo # {}
    <3> DEFINE i == Min(todo)
    <3>1. todo \subseteq DOMAIN setting.suggestions /\ DOMAIN setting.suggestions \subseteq Nat
      BY <1>0, <2>1, SettingFacts DEF ReviewInv
    <3>2. i \in todo
      BY <2>3, <3>1, MinOfPlaces
    <3>3. todo' = todo \ {i} /\ \E n \in Nat : Suggest(Suggestions({i}), n)
      BY <1>0, <1>8, <2>3, OneCopy DEF CreateDiscussion, CopiesLeft
    <3> HIDE DEF i
    <3>4. {i} \in SUBSET todo
      BY <3>2
    <3>5. /\ \A s \in DOMAIN reviews : ~s.fenced => reviews'[s] <= 1 + unlisted' + repeated'
          /\ \A j \in todo \ {i} : LET s == setting.suggestions[j]
                                   IN ~s.fenced => reviews'[s] <= unlisted' + repeated'
      BY <2>1, <3>3, <3>4, PostSuggestions
    <3>6. ReviewOnce'
      BY <1>0, <3>5 DEF ReviewOnce
    <3>7. ReviewInv'
      BY <1>0, <3>1, <3>3, <3>5 DEF ReviewInv
    <3> QED BY <3>6, <3>7
  <2> QED BY <2>2, <2>3
<1>9. CASE CommitStatus \/ RetryPipelines \/ PipelinesGivenUp \/ PipelineStarts \/ NextRun
  <2>1. pc' # "suggest"
    BY <1>9 DEF CommitStatus, RetryPipelines, PipelinesGivenUp, PipelineStarts, NextRun, SetCommitStatus
  <2>2. reviews' = reviews
    BY <1>9 DEF CommitStatus, RetryPipelines, PipelinesGivenUp, PipelineStarts, NextRun
  <2> QED BY <1>2, <2>1, <2>2
<1>10. CASE UNCHANGED vars
  <2>1. reviews' = reviews /\ pc' = pc /\ todo' = todo
    BY <1>10 DEF vars
  <2> QED BY <1>2, <1>3, <2>1
<1> QED BY <1>4, <1>5, <1>6, <1>7, <1>8, <1>9, <1>10 DEF Next

-----------------------------------------------------------------------------
LEMMA MineSame ==
  ASSUME run' = run, DOMAIN comments' = DOMAIN comments,
         \A j \in DOMAIN comments : comments'[j].run = comments[j].run /\ comments'[j].part = comments[j].part
  PROVE  Mine' = Mine
BY DEF Mine

LEMMA RunIsNat ==
  ASSUME TypeInv
  PROVE  run \in Nat
BY SettingFacts DEF TypeInv, TypeOK

LEMMA MineAdded ==
  ASSUME TypeInv, run' = run, NEW p \in 0..MaxCommentsPerCheck, NEW n \in Nat, Land(p, n)
  PROVE  Mine' = Mine \cup IF p > 0 THEN (Len(comments) + 1)..(Len(comments) + n) ELSE {}
<1> DEFINE l == Len(comments)
<1>1. /\ l \in Nat /\ DOMAIN comments = 1..l /\ DOMAIN comments' = 1..(l + n)
      /\ \A j \in 1..l : comments'[j] = comments[j]
      /\ \A j \in (l + 1)..(l + n) : comments'[j] = Comment(p)
  BY CommentsFacts, LandFacts, RunIsNat DEF TypeInv
<1>2. Comment(p).run = run /\ Comment(p).part = p
  BY DEF Comment
<1> HIDE DEF l
<1>3. Mine = {j \in 1..l : comments[j].run = run /\ comments[j].part > 0}
  BY <1>1 DEF Mine
<1>4. Mine' = {j \in 1..(l + n) : comments'[j].run = run /\ comments'[j].part > 0}
  BY <1>1 DEF Mine
<1>5. ASSUME NEW j \in 1..(l + n)
      PROVE  j \in Mine' <=> j \in Mine \/ (p > 0 /\ j \in (l + 1)..(l + n))
  <2>1. CASE j \in 1..l
    BY <1>1, <1>3, <1>4, <2>1
  <2>2. CASE j \in (l + 1)..(l + n)
    <3>1. j \notin 1..l
      BY <1>1, <2>2
    <3> QED BY <1>1, <1>2, <1>3, <1>4, <2>2, <3>1
  <2> QED BY <1>1, <2>1, <2>2
<1>6. Mine \subseteq 1..(l + n) /\ (l + 1)..(l + n) \subseteq 1..(l + n)
  BY <1>1, <1>3
<1>7. Mine' \subseteq 1..(l + n)
  BY <1>4
<1>8. Mine' = Mine \cup IF p > 0 THEN (l + 1)..(l + n) ELSE {}
  BY <1>5, <1>6, <1>7
<1> QED BY <1>8 DEF l

LEMMA PostStepUpdate ==
  ASSUME TypeInv, TidyInv, PostInv, UpdateMessage
  PROVE  PostInv'
<1> DEFINE l == Len(comments)
<1>0. /\ pc = "post"
      /\ GoesOn \/ Waits \/ Completes \/ Fails
      /\ note' = note /\ run' = run /\ run \in Nat
      /\ note \in DOMAIN comments /\ comments[note].run = run /\ outcome = "posting"
      /\ part \in Nat /\ part >= 1 /\ part \in 0..MaxCommentsPerCheck
      /\ l \in Nat /\ DOMAIN comments = 1..l
  BY UpdateStep, PostFacts, CommentsFacts DEF TypeInv
<1>1. \/ part = 1 /\ note = l /\ Mine \subseteq {note} /\ comments[note].part \in {0, 1}
      \/ part > 1 /\ Mine = note..l /\ comments[l].part = part - 1
  BY <1>0 DEF PostInv
<1>2. CASE Completes \/ Fails
  BY <1>2 DEF Completes, Fails, PostInv
<1>3. CASE Waits /\ Kept
  <2>1. comments' = comments /\ Mine' = Mine /\ part' = part /\ pc' = "wait" /\ outcome' = "posting"
    BY <1>0, <1>3 DEF Waits, Kept, Mine
  <2> QED BY <1>0, <1>1, <2>1 DEF PostInv
<1>4. ASSUME Replaced
      PROVE  /\ part = 1 /\ note = l /\ Len(comments') = l /\ DOMAIN comments' = DOMAIN comments
             /\ comments'[note].run = run /\ comments'[note].part = 1 /\ Mine' = {note}
  <2>1. comments' = [comments EXCEPT ![note].part = 1] /\ part = 1 /\ note = l
    BY <1>1, <1>4 DEF Replaced
  <2>2. /\ Len(comments') = l /\ DOMAIN comments' = DOMAIN comments
        /\ comments'[note].run = comments[note].run /\ comments'[note].part = 1
        /\ \A j \in DOMAIN comments : j # note => comments'[j] = comments[j]
    BY <1>0, <2>1, ReplacedFacts DEF TypeInv
  <2>3. \A j \in DOMAIN comments : j # note => ~(comments[j].run = run /\ comments[j].part > 0)
    BY <1>1, <2>1 DEF Mine
  <2>4. Mine' = {note}
    BY <1>0, <2>2, <2>3 DEF Mine
  <2> QED BY <1>0, <2>1, <2>2, <2>4
<1>5. CASE Waits /\ Replaced
  <2>1. part' = part /\ pc' = "wait" /\ outcome' = "posting"
    BY <1>0, <1>5 DEF Waits
  <2> QED BY <1>0, <1>4, <1>5, <2>1 DEF PostInv
<1>6. CASE GoesOn /\ Replaced
  <2>1. part' = 2 /\ pc' = "post" /\ outcome' = "posting"
    BY <1>0, <1>4, <1>6 DEF GoesOn
  <2>2. {note} = note..l /\ note \in DOMAIN comments'
    BY <1>0, <1>4, <1>6
  <2>3. Mine' = note..Len(comments') /\ comments'[Len(comments')].part = part' - 1
    <3> DEFINE k == Len(comments')
    <3>1. k = l /\ k = note /\ Mine' = {note} /\ comments'[note].part = 1
      BY <1>4, <1>6
    <3> HIDE DEF k, l
    <3>2. Mine' = note..k /\ comments'[k].part = part' - 1
      BY <2>1, <2>2, <3>1
    <3> QED BY <3>2 DEF k
  <2>4. comments'[note].run = run
    BY <1>4, <1>6
  <2> QED BY <1>0, <2>1, <2>2, <2>3, <2>4 DEF PostInv
<1>7. CASE GoesOn /\ Added
  <2>1. part' = part + 1 /\ pc' = "post" /\ outcome' = "posting" /\ part > 1
    BY <1>0, <1>7 DEF GoesOn, Added
  <2>2. PICK n \in CopiesPosted : Land(part, n)
    BY <1>7 DEF Added
  <2>3. n \in Nat \ {0}
    BY OneCopy DEF TypeInv, TypeOK
  <2>4. /\ Len(comments') = l + n /\ DOMAIN comments' = 1..(l + n)
        /\ comments'[note] = comments[note] /\ comments'[l + n] = Comment(part)
    <3>1. note \in 1..l /\ l + n \in (l + 1)..(l + n)
      BY <1>0, <2>3
    <3> QED BY <1>0, <2>2, <2>3, <3>1, LandFacts DEF TypeInv
  <2>5. Mine' = Mine \cup (l + 1)..(l + n)
    BY <1>0, <2>1, <2>2, <2>3, MineAdded
  <2>6. Mine = note..l /\ note \in 1..l
    BY <1>0, <1>1, <2>1
  <2> DEFINE k == Len(comments')
  <2>7. k = l + n
    BY <2>4
  <2>8. comments'[k].part = part
    BY <2>4, <2>7 DEF Comment
  <2> HIDE DEF l
  <2>9. note..l \cup (l + 1)..(l + n) = note..k /\ note \in 1..k
    <3> HIDE DEF k
    <3> QED BY <1>0, <2>3, <2>6, <2>7
  <2>10. Mine' = note..k /\ note \in DOMAIN comments'
    BY <2>4, <2>5, <2>6, <2>7, <2>9
  <2> QED BY <1>0, <2>1, <2>4, <2>8, <2>10 DEF PostInv
<1> QED BY <1>0, <1>2, <1>3, <1>5, <1>6, <1>7 DEF GoesOn, Waits

LEMMA PostStep ==
  ASSUME TypeInv, TidyInv, PostInv, [Next]_vars
  PROVE  PostInv'
<1> USE DEF page, posting, counters
<1>1. ASSUME UNCHANGED <<comments, run, outcome>>, pc' \notin {"build", "post", "wait"},
             pc \notin {"post", "wait"},
             pc' \in {"tidy", "tidying", "note"} => pc \in {"tidy", "tidying", "note", "build"}
      PROVE  PostInv'
  BY <1>1 DEF PostInv, Mine
<1>2. CASE TidyOutdatedComments \/ TidyDone
  BY <1>1, <1>2 DEF TidyOutdatedComments, TidyDone
<1>3. CASE TidyOne
  <2>1. pc = "tidying" /\ pc' \in {"tidying", "note"} /\ outcome' = outcome /\ run' = run
    BY <1>3 DEF TidyOne
  <2>2. Mine' = Mine
    <3>1. CASE comments' = comments
      BY <2>1, <3>1 DEF Mine
    <3>2. ASSUME NEW i \in DOMAIN comments, Tidied(i) PROVE Mine' = Mine
      BY <2>1, <3>2, TidiedFacts, MineSame DEF TypeInv
    <3> QED BY <1>3, <3>1, <3>2, TidyOneFacts
  <2> QED BY <2>1, <2>2 DEF PostInv
<1>4. CASE PostMessage
  <2>1. pc = "note" /\ outcome' = outcome /\ outcome = "none" /\ run' = run /\ Mine = {}
    BY <1>4 DEF PostMessage, PostInv
  <2>2. PICK n \in Nat : /\ Land(0, n)
                         /\ pc' = "done" \/ (n # 0 /\ note' = Len(comments') /\ pc' = "build")
    BY <1>4, OneCopy DEF PostMessage, CopiesLeft, TypeInv, TypeOK
  <2>3. 0 \in 0..MaxCommentsPerCheck
    BY DEF MaxCommentsPerCheck
  <2>4. Mine' = {}
    BY <2>1, <2>2, <2>3, MineAdded
  <2>5. ASSUME n # 0
        PROVE  Len(comments') \in DOMAIN comments' /\ comments'[Len(comments')].run = run
    <3>1. /\ Len(comments') = Len(comments) + n /\ DOMAIN comments' = 1..(Len(comments) + n)
          /\ \A j \in (Len(comments) + 1)..(Len(comments) + n) : comments'[j] = Comment(0)
          /\ Len(comments) \in Nat
      BY <2>2, <2>3, CommentsFacts, LandFacts, RunStep DEF TypeInv
    <3>2. Comment(0).run = run
      BY DEF Comment
    <3> QED BY <2>5, <3>1, <3>2
  <2> QED BY <2>1, <2>2, <2>4, <2>5 DEF PostInv
<1>5. CASE Build
  <2>1. /\ pc = "build" /\ pc' = "post" /\ part' = 1 /\ outcome' = "posting"
        /\ comments' = comments /\ run' = run /\ note' = note
    BY <1>5 DEF Build
  <2>2. Mine = {} /\ note = Len(comments) /\ note \in DOMAIN comments /\ comments[note].run = run
    BY <2>1 DEF PostInv
  <2>3. comments[note].part = 0
    <3> DEFINE p == comments[note].part
    <3>1. p \in 0..MaxCommentsPerCheck
      BY <2>2 DEF TypeInv, TypeOK
    <3>2. ~(p > 0)
      BY <2>2 DEF Mine
    <3> HIDE DEF p
    <3>3. p = 0
      BY <3>1, <3>2 DEF MaxCommentsPerCheck
    <3> QED BY <3>3 DEF p
  <2>4. Mine' = {}
    BY <2>1, <2>2 DEF Mine
  <2> QED BY <2>1, <2>2, <2>3, <2>4 DEF PostInv
<1>6. CASE Expire
  <2>1. UNCHANGED <<comments, run, note, part, pc, outcome>> /\ Mine' = Mine
    BY <1>6 DEF Expire, Mine
  <2> QED BY <2>1 DEF PostInv
<1>7. CASE UpdateMessage
  BY <1>7, PostStepUpdate
<1>8. CASE WaitOver
  <2>1. UNCHANGED <<comments, run, note>> /\ Mine' = Mine /\ pc = "wait"
    BY <1>8 DEF WaitOver, Mine
  <2>2. \/ pc' = "post" /\ UNCHANGED <<outcome, part>>
        \/ pc' = "review" /\ outcome' = "failed"
    BY <1>8 DEF WaitOver, PostDone
  <2> QED BY <2>1, <2>2 DEF PostInv
<1>9. CASE ListReviews \/ CreateReview \/ CreateDiscussion
  BY <1>1, <1>9 DEF ListReviews, CreateReview, CreateDiscussion
<1>10. CASE CommitStatus \/ RetryPipelines \/ PipelinesGivenUp \/ PipelineStarts
  BY <1>1, <1>10 DEF CommitStatus, RetryPipelines, PipelinesGivenUp, PipelineStarts, SetCommitStatus
<1>11. CASE NextRun
  <2>1. pc' = "tidy" /\ outcome' = "none" /\ comments' = comments /\ run' = run + 1 /\ run \in Nat
    BY <1>11, RunStep DEF NextRun
  <2>2. \A i \in DOMAIN comments : comments[i].run # run + 1
    BY <2>1 DEF TypeInv, TypeOK
  <2>3. Mine' = {}
    BY <2>1, <2>2 DEF Mine
  <2> QED BY <2>1, <2>3 DEF PostInv
<1>12. CASE UNCHANGED vars
  <2>1. UNCHANGED <<comments, run, note, part, pc, outcome>> /\ Mine' = Mine
    BY <1>12 DEF vars, Mine
  <2> QED BY <2>1 DEF PostInv
<1> QED BY <1>2, <1>3, <1>4, <1>5, <1>6, <1>7, <1>8, <1>9, <1>10, <1>11, <1>12 DEF Next

-----------------------------------------------------------------------------
LEMMA CommentsInvInit ==
  ASSUME Init
  PROVE  CommentsInv
<1>1. setting \in Settings /\ run = 1 /\ setting.runs \in Nat \ {0} /\ setting.faults \in Nat
  BY SettingFacts DEF Init
<1>2. /\ comments \in Seq([run : {0}, part : {0}, own : BOOLEAN, marked : BOOLEAN, system : BOOLEAN, at : {"shown"}])
      /\ comments = Earlier
  BY EarlierAssumption DEF Init
<1>3. [run : {0}, part : {0}, own : BOOLEAN, marked : BOOLEAN, system : BOOLEAN, at : {"shown"}] \subseteq CommentRecord
  BY DEF CommentRecord, MaxCommentsPerCheck
<1>4. comments \in Seq(CommentRecord)
  BY <1>2, <1>3, SeqMonotonic
<1>5. /\ DOMAIN comments = 1..Len(comments) /\ Len(comments) \in Nat
      /\ \A i \in DOMAIN comments : comments[i].run = 0 /\ comments[i].part = 0 /\ comments[i].at = "shown"
  <2> DEFINE S == [run : {0}, part : {0}, own : BOOLEAN, marked : BOOLEAN, system : BOOLEAN, at : {"shown"}]
  <2>1. \A c \in S : c.run = 0 /\ c.part = 0 /\ c.at = "shown"
    OBVIOUS
  <2>2. comments \in Seq(S)
    BY <1>2
  <2> HIDE DEF S
  <2> QED BY <2>1, <2>2, LenProperties, ElementOfSeq
<1>6. TypeOK
  <2>1. part \in 0..Len(chunks)
    <3> DEFINE n == Len(chunks)
    <3>1. n \in 1..MaxCommentsPerCheck /\ part = 0
      BY <1>1, SettingFacts DEF Init, chunks
    <3> HIDE DEF n
    <3>2. part \in 0..n
      BY <3>1 DEF MaxCommentsPerCheck
    <3> QED BY <3>2 DEF n
  <2>2. attempt \in 0..MaxRetries
    BY CommentsAssumption DEF Init
  <2>3. reviews \in [Suggestions(DOMAIN setting.suggestions) -> Nat]
    BY DEF Init
  <2>4. note \in 0..Len(comments) /\ run \in 1..setting.runs /\ faults \in 0..setting.faults
    BY <1>1, <1>5 DEF Init
  <2>5. \A i \in DOMAIN comments : comments[i].run \in 0..run /\ comments[i].part \in 0..MaxCommentsPerCheck
    BY <1>1, <1>5 DEF MaxCommentsPerCheck
  <2> QED BY <1>1, <2>1, <2>2, <2>3, <2>4, <2>5 DEF Init, TypeOK
<1>7. TypeInv
  BY <1>4, <1>6 DEF TypeInv, Init, PcStates
<1>8. Mine = {}
  BY <1>5 DEF Mine
<1>9. OwnInv /\ TidyInv /\ TidiesReports
  BY <1>5 DEF OwnInv, TidyInv, TidiesReports, Init
<1>10. PostInv
  BY <1>8 DEF PostInv, Init
<1>11. ReviewInv /\ ReviewOnce
  BY DEF ReviewInv, ReviewOnce, Init
<1> QED BY <1>7, <1>9, <1>10, <1>11 DEF CommentsInv

LEMMA CommentsInvStep ==
  ASSUME CommentsInv, [Next]_vars
  PROVE  CommentsInv'
BY TypeStep, OwnStep, TidyStep, TidiesStep, PostStep, ReviewStep DEF CommentsInv

(* Whatever the calls to the VCS return, the comments, the state of the    *)
(* posting and the suggestions agree.                                      *)
THEOREM CommentsInvariant == Spec => []CommentsInv
BY CommentsInvInit, CommentsInvStep, PTL DEF Spec

(* TidyOutdatedComments without an error leaves no report of an earlier    *)
(* check in sight, and no comment of somebody else is ever touched.        *)
THEOREM OutdatedReportsTidied == Spec => []TidiesReports
<1>1. CommentsInv => TidiesReports
  BY DEF CommentsInv
<1> QED BY <1>1, CommentsInvariant, PTL

(* PostReviewSuggestions posts a suggestion again only after a listing     *)
(* that failed or because the GitLab library repeated a call.              *)
THEOREM SuggestedOnce == Spec => []ReviewOnce
<1>1. CommentsInv => ReviewOnce
  BY DEF CommentsInv
<1> QED BY <1>1, CommentsInvariant, PTL

-----------------------------------------------------------------------------
(* The refinement: what the pull request shows of the report, as Delivery  *)
(* describes it.                                                           *)
LEMMA KthOfRange ==
  ASSUME NEW m \in Nat, NEW l \in Nat, NEW k \in 1..(l - m + 1)
  PROVE  Kth(m..l, k) = m + k - 1
<1>1. ASSUME NEW i \in m..l
      PROVE  Cardinality({j \in m..l : j =< i}) = i - m + 1
  <2>1. {j \in m..l : j =< i} = m..i
    OBVIOUS
  <2>2. Cardinality(m..i) = i - m + 1
    BY FS_Interval
  <2> QED BY <2>1, <2>2
<1>2. m + k - 1 \in m..l
  OBVIOUS
<1>3. \A i \in m..l : Cardinality({j \in m..l : j =< i}) = k <=> i = m + k - 1
  BY <1>1
<1> QED BY <1>2, <1>3 DEF Kth

LEMMA PartsAreNat ==
  ASSUME comments \in Seq(CommentRecord)
  PROVE  \A i \in DOMAIN comments : comments[i].part \in Nat
<1>1. ASSUME NEW c \in CommentRecord PROVE c.part \in Nat
  <2>1. c.part \in 0..MaxCommentsPerCheck
    BY DEF CommentRecord
  <2>2. MaxCommentsPerCheck \in Nat
    BY DEF MaxCommentsPerCheck
  <2> QED BY <2>1, <2>2
<1> QED BY <1>1, CommentsFacts

LEMMA ShownOfNothing ==
  Mine = {} => Shown = <<>>
<1> SUFFICES ASSUME Mine = {} PROVE Shown = <<>>
  OBVIOUS
<1>1. Cardinality(Mine) = 0
  BY FS_EmptySet
<1>2. Shown \in Seq(Nat)
  BY <1>1 DEF Shown
<1>3. Len(Shown) = 0
  BY <1>1 DEF Shown
<1> QED BY <1>2, <1>3, EmptySeq

LEMMA ShownOfRange ==
  \A m \in Nat \ {0} :
    comments \in Seq(CommentRecord) /\ m =< Len(comments) /\ Mine = m..Len(comments)
      => /\ Shown \in Seq(Nat) /\ Len(Shown) = Len(comments) - m + 1
         /\ \A k \in 1..(Len(comments) - m + 1) : Shown[k] = comments[m + k - 1].part
<1> TAKE m \in Nat \ {0}
<1> SUFFICES ASSUME comments \in Seq(CommentRecord), m =< Len(comments), Mine = m..Len(comments)
             PROVE  /\ Shown \in Seq(Nat) /\ Len(Shown) = Len(comments) - m + 1
                    /\ \A k \in 1..(Len(comments) - m + 1) : Shown[k] = comments[m + k - 1].part
  OBVIOUS
<1> DEFINE l == Len(comments)
           n == l - m + 1
<1>1. l \in Nat /\ DOMAIN comments = 1..l /\ \A i \in 1..l : comments[i].part \in Nat
  BY CommentsFacts, PartsAreNat
<1>2. n \in Nat /\ Cardinality(Mine) = n
  BY <1>1, FS_Interval
<1>3. ASSUME NEW k \in 1..n
      PROVE  Kth(Mine, k) = m + k - 1 /\ m + k - 1 \in 1..l
  BY <1>1, KthOfRange
<1>4. Shown = [k \in 1..n |-> comments[Kth(Mine, k)].part]
  BY <1>2 DEF Shown
<1> HIDE DEF n, l
<1>5. \A k \in 1..n : Shown[k] = comments[m + k - 1].part /\ Shown[k] \in Nat
  BY <1>1, <1>3, <1>4
<1>6. Shown \in Seq(Nat) /\ Len(Shown) = n
  <2>1. Shown \in [1..n -> Nat]
    BY <1>4, <1>5
  <2>2. Shown \in Seq(Nat)
    BY <1>2, <2>1, SeqDef
  <2>3. DOMAIN Shown = 1..n /\ DOMAIN Shown = 1..Len(Shown) /\ Len(Shown) \in Nat
    BY <1>4, <2>2, LenProperties
  <2> QED BY <1>2, <2>2, <2>3
<1> QED BY <1>5, <1>6 DEF n, l

LEMMA ShownOfNothingNext == (Mine = {} => Shown = <<>>)'
BY ShownOfNothing, PTL

LEMMA ShownOfRangeNext ==
  (\A m \in Nat \ {0} :
     comments \in Seq(CommentRecord) /\ m =< Len(comments) /\ Mine = m..Len(comments)
       => /\ Shown \in Seq(Nat) /\ Len(Shown) = Len(comments) - m + 1
          /\ \A k \in 1..(Len(comments) - m + 1) : Shown[k] = comments[m + k - 1].part)'
BY ShownOfRange, PTL

(* What one call of UpdateMessage adds to the parts in sight: nothing that *)
(* was there already, and else copies of the next part.                    *)
LEMMA ShownStep ==
  ASSUME TypeInv, TidyInv, PostInv, UpdateMessage, Replaced \/ Added
  PROVE  /\ Shown' # <<>> /\ Shown'[Len(Shown')] = part
         /\ \/ Shown' = Shown
            \/ /\ D!NextPart = part
               /\ \E n \in CopiesPosted : Shown' = Shown \o D!Copies(part, n)
<1> DEFINE l == Len(comments)
<1>0. /\ pc = "post" /\ run' = run /\ note' = note /\ setting \in Settings
      /\ note \in DOMAIN comments /\ part \in Nat /\ part >= 1 /\ part \in 0..MaxCommentsPerCheck
      /\ comments \in Seq(CommentRecord) /\ l \in Nat /\ DOMAIN comments = 1..l
      /\ \A i \in 1..l : comments[i].part \in Nat
  <2>1. \A i \in DOMAIN comments : comments[i].part \in Nat
    BY PartsAreNat DEF TypeInv
  <2> QED BY <2>1, UpdateStep, PostFacts, CommentsFacts DEF TypeInv
<1>1. \/ part = 1 /\ note = l /\ Mine \subseteq {note} /\ comments[note].part \in {0, 1}
      \/ part > 1 /\ Mine = note..l /\ comments[l].part = part - 1
  BY <1>0 DEF PostInv
<1>2. CASE Replaced
  <2>1. comments' = [comments EXCEPT ![note].part = 1] /\ part = 1 /\ note = l
    BY <1>1, <1>2 DEF Replaced
  <2>2. /\ comments' \in Seq(CommentRecord) /\ Len(comments') = l /\ DOMAIN comments' = DOMAIN comments
        /\ comments'[note].run = comments[note].run /\ comments'[note].part = 1
        /\ \A j \in DOMAIN comments : j # note => comments'[j] = comments[j]
    BY <1>0, <2>1, ReplacedFacts
  <2>3. Mine' = {note}
    <3>1. \A j \in DOMAIN comments : j # note => ~(comments[j].run = run /\ comments[j].part > 0)
      BY <1>1, <2>1 DEF Mine
    <3>2. comments[note].run = run
      BY <1>0 DEF PostInv
    <3> QED BY <1>0, <2>2, <3>1, <3>2 DEF Mine
  <2>4. Shown' \in Seq(Nat) /\ Len(Shown') = 1 /\ Shown'[1] = 1
    <3>1. {note} = note..l /\ note \in Nat \ {0} /\ note =< l
      BY <1>0, <2>1
    <3>2. Mine' = note..Len(comments') /\ note =< Len(comments')
      BY <2>2, <2>3, <3>1
    <3>3. /\ Shown' \in Seq(Nat) /\ Len(Shown') = Len(comments') - note + 1
          /\ \A k \in 1..(Len(comments') - note + 1) : Shown'[k] = comments'[note + k - 1].part
      BY <2>2, <3>1, <3>2, ShownOfRangeNext
    <3>4. Len(comments') - note + 1 = 1 /\ note + 1 - 1 = note
      BY <1>0, <2>1, <2>2
    <3> QED BY <2>2, <3>3, <3>4
  <2>5. Shown' # <<>> /\ Shown'[Len(Shown')] = part
    BY <2>1, <2>4
  <2>6. CASE Mine = {}
    <3>1. Shown = <<>>
      BY <2>6, ShownOfNothing
    <3>2. D!NextPart = part
      BY <2>1, <3>1 DEF D!NextPart
    <3>3. Shown' = Shown \o D!Copies(part, 1)
      <4>1. D!Copies(part, 1) \in Seq(Nat) /\ Len(D!Copies(part, 1)) = 1 /\ D!Copies(part, 1)[1] = 1
        BY <2>1, IsASeq DEF D!Copies
      <4>2. Shown \o D!Copies(part, 1) = D!Copies(part, 1)
        BY <3>1, <4>1, ConcatEmptySeq
      <4>3. Shown' = D!Copies(part, 1)
        BY <2>4, <4>1, SeqEqual
      <4> QED BY <4>2, <4>3
    <3> QED BY <1>0, <2>5, <3>2, <3>3, OneCopy
  <2>7. CASE Mine # {}
    <3>1. Mine = {note} /\ {note} = note..l /\ note \in Nat \ {0} /\ note =< l
      BY <1>0, <1>1, <2>1, <2>7
    <3>2. comments[note].part = 1
      <4>1. comments[note].part > 0
        BY <3>1 DEF Mine
      <4>2. comments[note].part \in {0, 1}
        BY <1>1, <2>1
      <4> QED BY <4>1, <4>2
    <3>3. Shown \in Seq(Nat) /\ Len(Shown) = 1 /\ Shown[1] = 1
      <4>1. /\ Shown \in Seq(Nat) /\ Len(Shown) = l - note + 1
            /\ \A k \in 1..(l - note + 1) : Shown[k] = comments[note + k - 1].part
        BY <1>0, <3>1, ShownOfRange
      <4>2. l - note + 1 = 1 /\ note + 1 - 1 = note /\ 1 \in 1..(l - note + 1)
        BY <1>0, <2>1
      <4> HIDE DEF l
      <4>3. Shown[1] = comments[note + 1 - 1].part
        BY <4>1, <4>2
      <4> QED BY <3>2, <4>1, <4>2, <4>3
    <3>4. Shown' = Shown
      BY <2>4, <3>3, SeqEqual
    <3> QED BY <2>5, <3>4
  <2> QED BY <2>6, <2>7
<1>3. CASE Added
  <2>1. PICK n \in CopiesPosted : Land(part, n)
    BY <1>3 DEF Added
  <2>2. part > 1 /\ n \in Nat \ {0} /\ Mine = note..l /\ comments[l].part = part - 1
    BY <1>0, <1>1, <1>3, <2>1, OneCopy DEF Added
  <2>3. /\ comments' \in Seq(CommentRecord) /\ Len(comments') = l + n
        /\ \A j \in 1..l : comments'[j] = comments[j]
        /\ \A j \in (l + 1)..(l + n) : comments'[j] = Comment(part)
    BY <1>0, <2>1, <2>2, LandFacts, RunIsNat DEF TypeInv
  <2>4. Comment(part).part = part
    BY DEF Comment
  <2>5. Mine' = Mine \cup (l + 1)..(l + n)
    BY <1>0, <2>1, <2>2, MineAdded
  <2>6. /\ Shown \in Seq(Nat) /\ Len(Shown) = l - note + 1
        /\ \A k \in 1..(l - note + 1) : Shown[k] = comments[note + k - 1].part
    <3>1. note \in Nat \ {0} /\ note =< l
      BY <1>0
    <3> QED BY <1>0, <2>2, <3>1, ShownOfRange
  <2>7. /\ Shown' \in Seq(Nat) /\ Len(Shown') = l + n - note + 1
        /\ \A k \in 1..(l + n - note + 1) : Shown'[k] = comments'[note + k - 1].part
    <3> DEFINE m == Len(comments')
    <3>0. m = l + n
      BY <2>3
    <3>1. note \in Nat \ {0} /\ note =< m /\ Mine' = note..m
      <4> HIDE DEF l, m
      <4> QED BY <1>0, <2>2, <2>5, <3>0
    <3>2. /\ Shown' \in Seq(Nat) /\ Len(Shown') = m - note + 1
          /\ \A k \in 1..(m - note + 1) : Shown'[k] = comments'[note + k - 1].part
      BY <2>3, <3>1, ShownOfRangeNext
    <3> HIDE DEF l, m
    <3>3. m - note + 1 = l + n - note + 1
      BY <1>0, <2>2, <3>0
    <3> QED BY <3>2, <3>3
  <2> DEFINE c == D!Copies(part, n)
  <2>8. c \in Seq(Nat) /\ Len(c) = n /\ \A k \in 1..n : c[k] = part
    BY <1>0, <2>2, IsASeq DEF D!Copies
  <2> HIDE DEF l, c
  <2>9. \A k \in 1..(l + n - note + 1) : Shown'[k] = IF k =< l - note + 1 THEN Shown[k] ELSE part
    <3> TAKE k \in 1..(l + n - note + 1)
    <3>1. CASE k =< l - note + 1
      <4>1. k \in 1..(l - note + 1) /\ note + k - 1 \in 1..l
        BY <1>0, <2>2, <3>1
      <4> QED BY <2>3, <2>6, <2>7, <3>1, <4>1
    <3>2. CASE ~(k =< l - note + 1)
      <4>1. note + k - 1 \in (l + 1)..(l + n)
        BY <1>0, <2>2, <3>2
      <4> QED BY <2>3, <2>4, <2>7, <3>2, <4>1
    <3> QED BY <3>1, <3>2
  <2>10. Shown' = Shown \o c
    <3> DEFINE s == Shown \o c
    <3>1. /\ s \in Seq(Nat) /\ Len(s) = Len(Shown) + Len(c)
          /\ \A k \in 1..(Len(Shown) + Len(c)) : s[k] = IF k <= Len(Shown) THEN Shown[k] ELSE c[k - Len(Shown)]
      BY <2>6, <2>8, ConcatProperties
    <3> HIDE DEF s
    <3>2. Len(Shown) + Len(c) = l + n - note + 1 /\ Len(Shown) = l - note + 1
      BY <1>0, <2>2, <2>6, <2>8
    <3>3. \A k \in 1..(l + n - note + 1) : s[k] = IF k =< l - note + 1 THEN Shown[k] ELSE part
      <4> TAKE k \in 1..(l + n - note + 1)
      <4>1. CASE k =< l - note + 1
        BY <3>1, <3>2, <4>1
      <4>2. CASE ~(k =< l - note + 1)
        <5>1. k - (l - note + 1) \in 1..n
          BY <1>0, <2>2, <4>2
        <5> QED BY <2>8, <3>1, <3>2, <4>2, <5>1
      <4> QED BY <4>1, <4>2
    <3>4. Shown' = s
      BY <2>7, <2>9, <3>1, <3>2, <3>3, SeqEqual
    <3> QED BY <3>4 DEF s
  <2>11. D!NextPart = part
    <3>1. l - note + 1 \in 1..(l - note + 1) /\ note + (l - note + 1) - 1 = l
      BY <1>0
    <3>2. Shown # <<>> /\ Shown[Len(Shown)] = part - 1
      BY <2>2, <2>6, <3>1
    <3> QED BY <1>0, <3>2 DEF D!NextPart
  <2>12. Shown' # <<>> /\ Shown'[Len(Shown')] = part
    <3>1. l + n - note + 1 \in 1..(l + n - note + 1) /\ ~(l + n - note + 1 =< l - note + 1)
      BY <1>0, <2>2
    <3> QED BY <2>7, <2>9, <3>1
  <2> QED BY <2>10, <2>11, <2>12 DEF c
<1> QED BY <1>2, <1>3

LEMMA Limits == \A n \in 1..MaxCommentsPerCheck : n \in Nat \ {0}
BY DEF MaxCommentsPerCheck

LEMMA PostRefines ==
  ASSUME TypeInv, TidyInv, PostInv, UpdateMessage
  PROVE  D!Post
<1> DEFINE n == Len(chunks)
<1>0. /\ setting' = setting /\ run' = run /\ setting \in Settings
      /\ outcome = "posting" /\ part >= 1 /\ part =< n /\ part \in Nat /\ n \in Nat /\ n >= 1
  <2>1. n \in 1..MaxCommentsPerCheck
    BY UpdateStep, PostFacts
  <2>2. n \in Nat /\ n >= 1
    BY <2>1, Limits
  <2> QED BY <2>2, UpdateStep, PostFacts
<1>1. /\ outcome' # "none" /\ Len(chunks') = n
      /\ \/ outcome' \in {"posting", "failed"}
         \/ outcome' = "complete" /\ part = n /\ (Replaced \/ Added)
  BY <1>0, UpdateStep DEF GoesOn, Waits, Completes, Fails, chunks
<1>2. \/ Kept /\ outcome' # "complete"
      \/ Replaced \/ Added
  BY <1>0, UpdateStep DEF GoesOn, Waits, Completes, Fails
<1> HIDE DEF n
<1>3. CASE Kept /\ outcome' # "complete"
  <2>1. Shown' = Shown
    BY <1>0, <1>3 DEF Kept, Shown, Mine
  <2> QED BY <1>0, <1>1, <1>3, <2>1 DEF D!Post, n, gitHub
<1>4. CASE Replaced \/ Added
  <2>1. /\ Shown' # <<>> /\ Shown'[Len(Shown')] = part
        /\ \/ Shown' = Shown
           \/ /\ D!NextPart = part
              /\ \E k \in CopiesPosted : Shown' = Shown \o D!Copies(part, k)
    BY <1>4, ShownStep
  <2>2. D!NextPart' = part + 1
    BY <2>1 DEF D!NextPart
  <2>3. CopiesPosted = 1..(IF ~gitHub THEN MaxCopies ELSE 1)
    BY DEF CopiesPosted
  <2>4. \/ Shown' = Shown
        \/ D!NextPart =< n /\ \E k \in 1..(IF ~gitHub THEN MaxCopies ELSE 1) : Shown' = Shown \o D!Copies(D!NextPart, k)
    BY <1>0, <2>1, <2>3
  <2>5. outcome' \in {"posting", "failed"} \cup (IF D!NextPart' = n + 1 THEN {"complete"} ELSE {})
    BY <1>1, <2>2
  <2> QED BY <1>0, <1>1, <2>4, <2>5 DEF D!Post, n, gitHub
<1> QED BY <1>2, <1>3, <1>4

(* The calls before and after the posting show no part of the report.      *)
LEMMA DeliveredStep ==
  ASSUME CommentsInv, CommentsInv', [Next]_vars
  PROVE  [D!Next]_(D!vars)
<1> USE DEF page, posting, counters
<1> DEFINE n == Len(chunks)
<1>0. /\ TypeInv /\ TidyInv /\ PostInv /\ PostInv' /\ setting' = setting /\ setting \in Settings
      /\ n \in Nat \ {0} /\ Len(chunks') = n
  <2>1. setting' = setting /\ setting \in Settings
    BY Frame DEF CommentsInv, TypeInv, TypeOK
  <2>2. n \in 1..MaxCommentsPerCheck
    BY <2>1, SettingFacts DEF chunks
  <2>3. n \in Nat \ {0}
    BY <2>2, Limits
  <2> QED BY <2>1, <2>3 DEF CommentsInv, chunks
<1>1. ASSUME outcome' = outcome, Shown' = Shown
      PROVE  UNCHANGED D!vars
  BY <1>0, <1>1 DEF D!vars, gitHub
<1>2. ASSUME UNCHANGED <<comments, run>>
      PROVE  Shown' = Shown
  BY <1>2 DEF Shown, Mine
<1>3. ASSUME outcome = "none", outcome' = "none"
      PROVE  UNCHANGED D!vars
  <2>1. Mine = {} /\ Mine' = {}
    BY <1>0, <1>3 DEF PostInv
  <2>2. Shown = <<>> /\ Shown' = <<>>
    BY <2>1, ShownOfNothing, ShownOfNothingNext
  <2> QED BY <1>1, <1>3, <2>2
<1>4. CASE TidyOutdatedComments \/ TidyOne \/ TidyDone \/ PostMessage
  <2>1. pc \in {"tidy", "tidying", "note"} /\ outcome' = outcome
    BY <1>4 DEF TidyOutdatedComments, TidyOne, TidyDone, PostMessage
  <2>2. outcome = "none"
    BY <1>0, <2>1 DEF PostInv
  <2> QED BY <1>3, <2>1, <2>2
<1>5. CASE Build
  <2>1. outcome = "none" /\ outcome' = "posting"
    BY <1>0, <1>5 DEF Build, PostInv
  <2>2. Shown' = Shown
    BY <1>2, <1>5 DEF Build
  <2>3. D!Begin
    BY <1>0, <2>1, <2>2 DEF D!Begin, gitHub
  <2> QED BY <2>3 DEF D!Next
<1>6. CASE Expire
  BY <1>1, <1>2, <1>6 DEF Expire
<1>7. CASE UpdateMessage
  BY <1>0, <1>7, PostRefines DEF D!Next
<1>8. CASE WaitOver
  <2>1. UNCHANGED <<comments, run>> /\ pc = "wait" /\ (outcome' = outcome \/ outcome' = "failed")
    BY <1>8 DEF WaitOver, PostDone
  <2>2. Shown' = Shown /\ outcome = "posting"
    BY <1>0, <1>2, <2>1 DEF PostInv
  <2>3. CASE outcome' = outcome
    BY <1>1, <2>2, <2>3
  <2>4. CASE outcome' = "failed"
    <3>1. D!Post
      BY <1>0, <2>2, <2>4 DEF D!Post, gitHub
    <3> QED BY <3>1 DEF D!Next
  <2> QED BY <2>1, <2>3, <2>4
<1>9. CASE ListReviews \/ CreateReview \/ CreateDiscussion
  BY <1>1, <1>2, <1>9 DEF ListReviews, CreateReview, CreateDiscussion
<1>10. CASE CommitStatus \/ RetryPipelines \/ PipelinesGivenUp \/ PipelineStarts
  BY <1>1, <1>2, <1>10 DEF CommitStatus, RetryPipelines, PipelinesGivenUp, PipelineStarts
<1>11. CASE NextRun
  <2>1. pc = "done" /\ outcome' = "none"
    BY <1>11 DEF NextRun
  <2>2. outcome # "posting" /\ Mine' = {}
    BY <1>0, <2>1 DEF PostInv
  <2>3. Shown' = <<>>
    BY <2>2, ShownOfNothingNext
  <2>4. D!Again
    BY <1>0, <2>1, <2>2, <2>3 DEF D!Again, gitHub
  <2> QED BY <2>4 DEF D!Next
<1>12. CASE UNCHANGED vars
  BY <1>1, <1>2, <1>12 DEF vars
<1> QED BY <1>4, <1>5, <1>6, <1>7, <1>8, <1>9, <1>10, <1>11, <1>12 DEF Next

LEMMA DeliveredInit ==
  ASSUME Init
  PROVE  D!Init
<1>1. CommentsInv /\ outcome = "none"
  BY CommentsInvInit DEF Init
<1>2. Mine = {}
  BY <1>1 DEF CommentsInv, PostInv
<1>3. Shown = <<>>
  BY <1>2, ShownOfNothing
<1>4. (~gitHub) \in BOOLEAN
  OBVIOUS
<1> QED BY <1>1, <1>3, <1>4 DEF D!Init

(* UpdateMessage with its retries, on GitHub and on GitLab, delivers a     *)
(* report as Delivery describes it: its parts in order and without a gap,  *)
(* each of them once where the client repeats no call, and success only    *)
(* when all of them are there.                                             *)
THEOREM ReportDelivered == Spec => Delivered
<1>1. Init => D!Init
  BY DeliveredInit
<1>2. CommentsInv /\ CommentsInv' /\ [Next]_vars => [D!Next]_(D!vars)
  BY DeliveredStep
<1> QED BY <1>1, <1>2, CommentsInvariant, PTL DEF Spec, Delivered, D!Spec

=============================================================================
