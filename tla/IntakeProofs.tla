---------------------------- MODULE IntakeProofs ----------------------------
(***************************************************************************)
(* Proofs about Intake, for any number of commits, attempts, starts and    *)
(* calls that fail, any length of the host's file list, and every setting. *)
(***************************************************************************)
EXTENDS Intake, SequenceTheorems, TLAPS

Event == [kind : {"open", "push", "comment", "retarget", "edit"},
          body : {"none", "replan", "other case", "other text"},
          sha : Commits, secret : Nat]
Labels == {"idle", "ask", "wait", "resolve", "resolveWait", "clone", "conflict", "auth",
           "download", "files", "count", "head", "notify", "end"}
NoURLCauses == {"deadline", "canceled", "host"}
Causes == HTTPErrors \cup NoURLCauses \cup {"network", "extract", "auth"}

HostStates ==
  [head : 0..MaxCommit, shown : 0..MaxCommit, merge : 0..MaxCommit,
   mergeable : {"unknown", "yes", "no"}]
CheckStates ==
  [pc : Labels, by : {"none", "server", "command"}, sha : 0..MaxCommit,
   from : {"none", "validate", "clone"}, try : Int, archive : 0..MaxCommit, of : 0..MaxCommit,
   files : Nat, cause : Causes \cup {"none"}]
TypeOK ==
  /\ setting \in Settings
  /\ host \in HostStates
  /\ hooks \in Seq(Nat)
  /\ events \in Seq(Event)
  /\ starts \in 0..setting.starts
  /\ queue \in Seq(Commits)
  /\ latest \in 0..MaxCommit
  /\ check \in CheckStates
  /\ ctx \in {"live", "deadline", "canceled"}
  /\ validated \in [Commits -> 0..MaxCommit]

(* The merge that the host names is never of a newer head than it shows,   *)
(* and once it is computed it is of the head it shows, unless that head    *)
(* has conflicts.                                                          *)
HostInv ==
  /\ host.merge =< host.shown /\ host.shown =< host.head
  /\ gitHub => /\ host.mergeable = "yes" => host.merge = host.shown
               /\ host.mergeable = "no" => host.shown \in setting.conflicts
  /\ ~gitHub => host.shown = host.head

(* Whatever is checked was pushed before.                                  *)
PushedInv ==
  /\ \A i \in DOMAIN events : events[i].sha =< host.head
  /\ \A i \in DOMAIN queue : queue[i] =< host.head
  /\ check.sha =< host.head
  /\ check.pc # "idle" => check.sha # 0

(* An archive that was found is of the commit that asked for it (GitHub),  *)
(* or of a head that the host has shown by now (GitLab).                   *)
GotArchive == check.pc \in {"auth", "download", "files", "count", "head"}
ArchiveInv ==
  /\ check.pc \in {"resolve", "resolveWait"} => ~gitHub
  /\ \A c \in Commits : /\ validated[c] =< host.shown
                        /\ gitHub /\ validated[c] # 0 => RightFor(c, validated[c]) /\ c =< host.shown
  /\ GotArchive => /\ check.archive =< host.shown /\ check.sha =< host.shown
                   /\ gitHub => RightFor(check.sha, check.archive)

(* The files are those of a head between the check's commit and the one    *)
(* the host shows now; while that head is still shown, the count proves    *)
(* the list complete.                                                      *)
FilesInv ==
  /\ check.pc \in {"count", "head"} => check.sha =< check.of /\ check.of =< host.shown
  /\ check.pc = "count" => check.files = Listed(setting.changed[check.of])
  /\ check.pc = "head" /\ check.of = host.shown => check.files = setting.changed[check.of]

(* A check that is about to post a notice knows a cause for it.            *)
CauseInv ==
  /\ check.pc = "notify" => check.cause \in Causes
  /\ check.pc = "conflict" => check.cause \in NoURLCauses

IntakeInv ==
  /\ TypeOK /\ HostInv /\ PushedInv /\ ArchiveInv /\ FilesInv /\ CauseInv
  /\ ArchiveIsOfCommit /\ FilesAreComplete /\ NoticeFitsFailure /\ WebhookOnce

-----------------------------------------------------------------------------
(* What the proofs use of the constants. *)
LEMMA Bounds ==
  /\ MaxCommit \in Nat /\ MaxRetries \in Nat /\ MaxResolves \in Nat /\ ListCap \in Nat /\ MaxStarts \in Nat
BY BoundsAssumption

LEMMA SettingTypes ==
  ASSUME NEW s \in Settings
  PROVE  /\ {s.gitHub, s.fork, s.allowForks, s.capitals, s.ensure, s.crowded, s.timeouts} \subseteq BOOLEAN
         /\ s.starts \in 1..MaxStarts
         /\ s.secrets \in [1..MaxStarts -> Nat]
         /\ s.changed \in [1..MaxCommit -> Nat]
         /\ s.faults \in Nat /\ s.touches \in Nat
BY SettingsAssumption

LEMMA SeqType ==
  ASSUME NEW S, NEW q \in Seq(S)
  PROVE  Len(q) \in Nat /\ DOMAIN q = 1..Len(q) /\ \A i \in 1..Len(q) : q[i] \in S
OBVIOUS

(* The host's numbers and the check's are numbers. *)
LEMMA Fields ==
  ASSUME TypeOK
  PROVE  /\ host.head \in 0..MaxCommit /\ host.shown \in 0..MaxCommit /\ host.merge \in 0..MaxCommit
         /\ check.sha \in 0..MaxCommit /\ check.pc \in Labels
         /\ check.archive \in 0..MaxCommit /\ check.of \in 0..MaxCommit /\ check.files \in Nat
BY DEF TypeOK, HostStates, CheckStates

LEMMA InitIntakeInv == Init => IntakeInv
<1> SUFFICES ASSUME Init PROVE IntakeInv
  OBVIOUS
<1> USE Bounds DEF Init
<1>0. setting \in Settings /\ setting.secrets[1] \in Nat /\ setting.starts \in Nat
  BY SettingTypes, 1 \in 1..MaxStarts
<1>1. TypeOK
  BY <1>0 DEF TypeOK, HostStates, CheckStates, Idle, NoURLs, Labels, Causes, NoURLCauses, Commits
<1>2. HostInv /\ PushedInv /\ ArchiveInv /\ FilesInv /\ CauseInv
  BY DEF HostInv, PushedInv, ArchiveInv, GotArchive, FilesInv, CauseInv, Idle, NoURLs, Commits, RightFor
<1>3. ArchiveIsOfCommit /\ FilesAreComplete /\ NoticeFitsFailure
  BY DEF ArchiveIsOfCommit, FilesAreComplete, NoticeFitsFailure
<1>4. WebhookOnce
  BY DEF WebhookOnce
<1> QED BY <1>1, <1>2, <1>3, <1>4 DEF IntakeInv

-----------------------------------------------------------------------------
(* Every step of a check before the archive is found. *)
Unfound == {"ask", "wait", "resolve", "resolveWait"}
GoesOn ==
  /\ check' = [check EXCEPT !.pc = check'.pc, !.try = check'.try]
  /\ check'.try \in Int /\ check'.pc \in Unfound
  /\ check'.pc \in {"resolve", "resolveWait"} => ~gitHub
AskOutcome ==
  \/ (gitHub => MergeReady) /\ GotURL(host.merge)
  \/ \E cause \in NoURLCauses : NoURL(cause)
  \/ validated' = validated /\ GoesOn
LEMMA AskStep ==
  ASSUME TypeOK, PushedInv, ArchiveInv, AskGitHub \/ AskGitLab \/ ResolveMergeRef \/ Wait
  PROVE  /\ UNCHANGED <<setting, host, hooks, events, up, starts, queue, latest, ctx, results, notices, touches>>
         /\ check.pc \in Unfound
         /\ AskOutcome
<1>1. ctx # "live" => ctx \in NoURLCauses
  BY DEF TypeOK, NoURLCauses
<1>2. "host" \in NoURLCauses
  BY DEF NoURLCauses
<1>3. ASSUME NEW pc \in Unfound, Goto(pc), pc \in {"resolve", "resolveWait"} => ~gitHub PROVE GoesOn
  BY <1>3 DEF Goto, GoesOn, TypeOK, CheckStates
<1>4. UNCHANGED <<setting, host, hooks, events, up, starts, queue, latest, ctx, results, notices, touches>>
  BY DEF AskGitHub, AskGitLab, ResolveMergeRef, Wait, Quiet, server, posted
<1>5. CASE AskGitHub
  BY <1>1, <1>2, <1>3, <1>4, <1>5 DEF AskGitHub, AskOutcome, Unfound, At, live
<1>6. CASE AskGitLab
  <2>1. ASSUME check' = [check EXCEPT !.pc = "resolve", !.try = 0], ~gitHub PROVE GoesOn
    BY <2>1 DEF GoesOn, TypeOK, CheckStates, Unfound
  <2> QED BY <1>1, <1>2, <1>3, <1>4, <1>6, <2>1 DEF AskGitLab, AskOutcome, Unfound, At, live
<1>7. CASE ResolveMergeRef
  BY <1>1, <1>2, <1>3, <1>4, <1>7 DEF ResolveMergeRef, AskOutcome, Unfound, At, live, ArchiveInv
<1>8. CASE Wait
  <2>1. ASSUME NEW pc \in Unfound, check' = [check EXCEPT !.pc = pc, !.try = @ + 1],
               pc = "resolve" => ~gitHub, pc # "resolveWait"
        PROVE  GoesOn
    BY <2>1 DEF GoesOn, TypeOK, CheckStates
  <2> QED BY <1>1, <1>4, <1>8, <2>1 DEF Wait, AskOutcome, Unfound, At, live, ArchiveInv
<1> QED BY <1>4, <1>5, <1>6, <1>7, <1>8

-----------------------------------------------------------------------------
(* The steps that are not a check's own. *)
Surroundings ==
  Push \/ Touch \/ Show \/ Merge \/ Start \/ Crash \/ groupHandler \/ LoseEvent
    \/ StartCheck \/ SkipCheck \/ LoadHook \/ Expire \/ EndCheck
Found ==
  Clone \/ GetAuthHeaders \/ GetOrDownload \/ PostArchiveErrorMessage \/ PostConflictMessage
    \/ GetPullRequestFiles \/ CountFiles \/ IsSuperseded

LEMMA NextCases ==
  ASSUME [Next]_vars
  PROVE  \/ Surroundings
         \/ AskGitHub \/ AskGitLab \/ ResolveMergeRef \/ Wait
         \/ Found
         \/ UNCHANGED vars
BY DEF Next, CheckStep, Surroundings, Found

LEMMA SeqOfFunction ==
  ASSUME NEW S, NEW n \in Nat, NEW q \in [1..n -> S]
  PROVE  q \in Seq(S) /\ Len(q) = n
OBVIOUS

LEMMA TailOfSeq ==
  ASSUME NEW S, NEW q \in Seq(S), q # <<>>
  PROVE  /\ Head(q) = q[1] /\ 1 \in DOMAIN q
         /\ \A i \in DOMAIN Tail(q) : i + 1 \in DOMAIN q /\ Tail(q)[i] = q[i + 1]
OBVIOUS

(* Deliveries of one commit behind those on their way. *)
LEMMA Extended ==
  ASSUME NEW q \in Seq(Event), NEW r \in Seq(Event), NEW sha, \A j \in DOMAIN r : r[j].sha = sha
  PROVE  /\ q \o r \in Seq(Event)
         /\ \A i \in DOMAIN (q \o r) : (i \in DOMAIN q /\ (q \o r)[i] = q[i]) \/ (q \o r)[i].sha = sha
<1>1. /\ q \o r \in Seq(Event) /\ Len(q \o r) = Len(q) + Len(r)
      /\ \A i \in 1..(Len(q) + Len(r)) : (q \o r)[i] = IF i <= Len(q) THEN q[i] ELSE r[i - Len(q)]
  BY ConcatProperties
<1>2. DOMAIN q = 1..Len(q) /\ DOMAIN r = 1..Len(r) /\ Len(q) \in Nat /\ Len(r) \in Nat
  OBVIOUS
<1>3. DOMAIN (q \o r) = 1..Len(q \o r)
  BY <1>1, SeqType
<1>4. ASSUME NEW i \in 1..(Len(q) + Len(r)), ~(i <= Len(q)) PROVE i - Len(q) \in 1..Len(r)
  BY <1>2, <1>4
<1> QED BY <1>1, <1>2, <1>3, <1>4

(* One delivery for each webhook is added. *)
LEMMA EmitStep ==
  ASSUME TypeOK, NEW kind, NEW body, NEW sha \in Commits, Emit(kind, body, sha),
         kind \in {"open", "push", "comment", "retarget", "edit"},
         body \in {"none", "replan", "other case", "other text"}
  PROVE  /\ events' \in Seq(Event)
         /\ \A i \in DOMAIN events' :
              (i \in DOMAIN events /\ events'[i] = events[i]) \/ events'[i].sha = sha
<1> DEFINE Delivery(i) == [kind |-> kind, body |-> body, sha |-> sha, secret |-> hooks[i]]
           new == [i \in DOMAIN hooks |-> Delivery(i)]
<1>1. hooks \in Seq(Nat) /\ events \in Seq(Event)
  BY DEF TypeOK
<1>2. DOMAIN hooks = 1..Len(hooks) /\ Len(hooks) \in Nat /\ \A i \in DOMAIN hooks : hooks[i] \in Nat
  BY <1>1, SeqType
<1>3. \A i \in DOMAIN hooks : Delivery(i) \in Event /\ Delivery(i).sha = sha
  BY <1>2 DEF Event
<1>4. events' = events \o new
  BY DEF Emit
<1>5. new \in [1..Len(hooks) -> Event] /\ \A i \in DOMAIN new : new[i].sha = sha
  <2> HIDE DEF Delivery
  <2> QED BY <1>2, <1>3
<1> HIDE DEF new
<1>6. new \in Seq(Event)
  BY <1>2, <1>5, SeqOfFunction
<1>7. \A r \in Seq(Event) : (\A j \in DOMAIN r : r[j].sha = sha) /\ events' = events \o r =>
        /\ events' \in Seq(Event)
        /\ \A i \in DOMAIN events' :
             (i \in DOMAIN events /\ events'[i] = events[i]) \/ events'[i].sha = sha
  BY <1>1, Extended
<1> QED BY <1>4, <1>5, <1>6, <1>7

(* How the host changes. *)
LEMMA HostStep ==
  ASSUME TypeOK, HostInv, Push \/ Show \/ Merge
  PROVE  host' \in HostStates /\ HostInv' /\ host.shown =< host'.shown /\ host.head =< host'.head
<1>1. host \in HostStates /\ setting' = setting
  BY DEF TypeOK, Push, Show, Merge
<1>2. CASE Push
  <2>1. /\ host.head < MaxCommit /\ host'.head = host.head + 1
        /\ host'.shown = (IF gitHub THEN host.shown ELSE host.head + 1)
        /\ host'.merge = host.merge
        /\ gitHub => host'.mergeable = host.mergeable
    BY <1>1, <1>2 DEF Push, HostStates
  <2>2. host.head + 1 \in 0..MaxCommit
    BY <2>1, Fields, Bounds
  <2>3. host' \in HostStates
    BY <1>1, <1>2, <2>2 DEF Push, HostStates
  <2> QED BY <1>1, <2>1, <2>3, Fields DEF HostInv, gitHub
<1>3. CASE Show
  <2>1. host'.head = host.head /\ host'.shown = host.head /\ host'.merge = host.merge /\ host'.mergeable = "unknown"
    BY <1>1, <1>3 DEF Show, HostStates
  <2>2. host' \in HostStates
    BY <1>1, <1>3, Fields DEF Show, HostStates
  <2> QED BY <1>1, <2>1, <2>2, Fields DEF HostInv, gitHub
<1>4. CASE Merge
  <2>1. /\ host'.head = host.head /\ host'.shown = host.shown
        /\ \/ host'.mergeable = "yes" /\ host'.merge = host.shown
           \/ /\ host'.mergeable = "no" /\ host.shown \in setting.conflicts
              /\ host'.merge \in {0, host.merge}
    BY <1>1, <1>4 DEF Merge, HostStates
  <2>2. host' \in HostStates
    <3>1. host.shown \in 0..MaxCommit /\ 0 \in 0..MaxCommit /\ host.merge \in 0..MaxCommit
      BY Fields, Bounds
    <3> QED BY <1>1, <1>4, <3>1 DEF Merge, HostStates
  <2> QED BY <1>1, <2>1, <2>2, Fields DEF HostInv, gitHub
<1> QED BY <1>2, <1>3, <1>4

LEMMA IdleFacts ==
  /\ Idle \in CheckStates /\ Idle.sha = 0 /\ Idle.pc = "idle"
<1>1. 0 \in 0..MaxCommit /\ 0 \in Int /\ 0 \in Nat /\ "idle" \in Labels
  BY Bounds DEF Labels
<1> QED BY <1>1 DEF Idle, CheckStates

(* The worker takes the first request. *)
LEMMA NextInLine ==
  ASSUME NEW S, NEW q \in Seq(S), q # <<>>
  PROVE  Tail(q) \in Seq(S) /\ Head(q) \in S
OBVIOUS

LEMMA SurroundingsTypeOK ==
  ASSUME TypeOK, HostInv, PushedInv, Surroundings
  PROVE  TypeOK'
<1> USE DEF server, posted
<1>1. CASE Push
  <2>1. host.head + 1 \in Commits
    BY <1>1, Fields, Bounds DEF Push, Commits
  <2>2. events' \in Seq(Event)
    BY <1>1, <2>1, EmitStep DEF Push
  <2> QED BY <1>1, <2>2, HostStep DEF Push, TypeOK
<1>2. CASE Touch
  <2>1. host.head \in Commits
    <3>1. host.head > 0
      BY <1>2 DEF Touch
    <3> QED BY <3>1, Fields, Bounds DEF Commits
  <2>2. events' \in Seq(Event)
    BY <1>2, <2>1, EmitStep DEF Touch
  <2> QED BY <1>2, <2>2 DEF Touch, TypeOK
<1>3. CASE Show \/ Merge
  BY <1>3, HostStep DEF Show, Merge, TypeOK
<1>4. CASE Start
  <2>1. setting \in Settings /\ starts \in 0..setting.starts /\ hooks \in Seq(Nat)
    BY DEF TypeOK
  <2>2. starts' \in 1..setting.starts /\ setting.secrets[starts'] \in Nat
    BY <1>4, <2>1, SettingTypes, Bounds DEF Start
  <2>3. hooks' \in {hooks, Append(hooks, setting.secrets[starts'])}
    BY <1>4 DEF Start, EnsureWebhooks, CreateHook
  <2>4. hooks' \in Seq(Nat)
    BY <2>1, <2>2, <2>3, AppendProperties
  <2> QED BY <1>4, <2>1, <2>2, <2>4 DEF Start, TypeOK
<1>5. CASE Crash
  <2>1. Idle \in CheckStates /\ NoURLs \in [Commits -> 0..MaxCommit]
    BY Bounds DEF Idle, CheckStates, Labels, NoURLs
  <2> QED BY <1>5, <2>1, Bounds DEF Crash, TypeOK
<1>6. CASE groupHandler
  <2>1. events' \in Seq(Event) /\ Head(events) \in Event
    BY <1>6 DEF groupHandler, TypeOK
  <2>2. CommitOf(Head(events)) \in 0..MaxCommit
    <3>1. Head(events).sha \in Commits
      BY <2>1 DEF Event
    <3> QED BY <3>1, Fields, Bounds DEF CommitOf, Commits
  <2>3. \/ UNCHANGED <<queue, latest, ctx>>
        \/ CommitOf(Head(events)) # 0 /\ Enqueue(CommitOf(Head(events)))
    BY <1>6 DEF groupHandler, Unauthorized, Skipped, BadRequest, Filtered, Accepted
  <2>4. queue' \in Seq(Commits) /\ latest' \in 0..MaxCommit /\ ctx' \in {"live", "deadline", "canceled"}
    <3>1. CommitOf(Head(events)) # 0 => CommitOf(Head(events)) \in Commits
      BY <2>2, Bounds DEF Commits
    <3>2. queue \in Seq(Commits) /\ latest \in 0..MaxCommit /\ ctx \in {"live", "deadline", "canceled"}
      BY DEF TypeOK
    <3>3. \A c \in Commits : Append(queue, c) \in Seq(Commits)
      BY <3>2, AppendProperties
    <3> QED BY <2>2, <2>3, <3>1, <3>2, <3>3 DEF Enqueue
  <2> QED BY <1>6, <2>1, <2>4 DEF groupHandler, TypeOK
<1>7. CASE LoseEvent
  BY <1>7 DEF LoseEvent, TypeOK
<1>8. CASE StartCheck \/ LoadHook
  <2>1. \A sha \in 0..MaxCommit, by \in {"server", "command"} : Validating(sha, by) \in CheckStates
    <3> TAKE sha \in 0..MaxCommit, by \in {"server", "command"}
    <3>1. 0 \in 0..MaxCommit /\ 0 \in Int /\ 0 \in Nat /\ {"ask", "idle"} \subseteq Labels
      BY Bounds DEF Labels
    <3>2. Idle \in CheckStates
      BY <3>1 DEF Idle, CheckStates
    <3> QED BY <3>1, <3>2 DEF CheckStates, Validating
  <2>2. TakeRequest => queue' \in Seq(Commits) /\ Head(queue) \in 0..MaxCommit
    BY NextInLine, Bounds DEF TakeRequest, TypeOK, Commits
  <2> QED BY <1>8, <2>1, <2>2, Bounds, Fields DEF StartCheck, LoadHook, TypeOK
<1>9. CASE Expire
  BY <1>9 DEF Expire, TypeOK
<1>10. CASE SkipCheck
  BY <1>10, NextInLine DEF SkipCheck, TakeRequest, TypeOK
<1>11. CASE EndCheck
  <2>1. Idle \in CheckStates /\ 0 \in 0..MaxCommit
    BY IdleFacts, Bounds
  <2> QED BY <1>11, <2>1 DEF EndCheck, TypeOK
<1> QED BY <1>1, <1>2, <1>3, <1>4, <1>5, <1>6, <1>7, <1>8, <1>9, <1>10, <1>11 DEF Surroundings

-----------------------------------------------------------------------------
(* A request joins the line, or leaves it. *)
LEMMA Longer ==
  ASSUME NEW S, NEW q \in Seq(S), NEW c
  PROVE  \A i \in DOMAIN Append(q, c) :
           (i \in DOMAIN q /\ Append(q, c)[i] = q[i]) \/ Append(q, c)[i] = c
OBVIOUS

LEMMA Taken ==
  ASSUME TypeOK, PushedInv, TakeRequest
  PROVE  /\ Head(queue) \in Commits /\ Head(queue) =< host.head
         /\ \A i \in DOMAIN queue' : queue'[i] =< host.head
<1>1. queue \in Seq(Commits) /\ queue # <<>> /\ queue' = Tail(queue)
  BY DEF TypeOK, TakeRequest
<1>2. /\ Head(queue) = queue[1] /\ 1 \in DOMAIN queue
      /\ \A i \in DOMAIN Tail(queue) : i + 1 \in DOMAIN queue /\ Tail(queue)[i] = queue[i + 1]
  BY <1>1, TailOfSeq
<1> QED BY <1>1, <1>2, NextInLine DEF PushedInv

(* A step of the surroundings keeps the rest: what a check has found stays *)
(* true while the host goes on, and no delivery is of a commit to come.    *)
LEMMA SurroundingsInv ==
  ASSUME IntakeInv, Surroundings
  PROVE  IntakeInv'
<1> USE DEF server, posted
<1>1. TypeOK /\ HostInv /\ PushedInv /\ ArchiveInv /\ FilesInv /\ CauseInv
  BY DEF IntakeInv
<1>2. TypeOK'
  BY <1>1, SurroundingsTypeOK
<1>3. UNCHANGED <<setting, results, notices>>
  BY DEF Surroundings, Push, Touch, Show, Merge, Start, Crash, groupHandler, LoseEvent, StartCheck,
         SkipCheck, LoadHook, Expire, EndCheck
<1>4. ArchiveIsOfCommit' /\ FilesAreComplete' /\ NoticeFitsFailure'
  BY <1>3 DEF IntakeInv, ArchiveIsOfCommit, FilesAreComplete, NoticeFitsFailure, gitHub, RightFor
<1>5. ASSUME UNCHANGED hooks PROVE WebhookOnce'
  BY <1>3, <1>5 DEF IntakeInv, WebhookOnce, gitHub
<1>6. ASSUME UNCHANGED <<check, validated, host>> PROVE HostInv' /\ ArchiveInv' /\ FilesInv' /\ CauseInv'
  BY <1>1, <1>3, <1>6 DEF HostInv, ArchiveInv, GotArchive, FilesInv, CauseInv, gitHub, RightFor, Listed
<1>7. CASE Push \/ Show \/ Merge
  <2>1. HostInv' /\ host.shown =< host'.shown /\ host.head =< host'.head
    BY <1>1, <1>7, HostStep
  <2>2. UNCHANGED <<check, validated, queue, hooks>>
    BY <1>7 DEF Push, Show, Merge
  <2>3. host'.head \in Int /\ host'.shown \in Int /\ host.head \in Int /\ host.shown \in Int
    BY <1>1, <1>2 DEF TypeOK, HostStates
  <2>4. \A i \in DOMAIN events' : events'[i].sha =< host'.head
    <3>1. CASE Push
      <4>1. /\ Emit(IF host.head = 0 THEN "open" ELSE "push", "none", host.head + 1)
            /\ host.head + 1 \in Commits /\ host'.head = host.head + 1
        <5>1. host \in HostStates
          BY <1>1 DEF TypeOK
        <5>2. host.head \in 0..MaxCommit
          BY <5>1, Fields, Bounds DEF HostStates, Commits
        <5> QED BY <3>1, <5>1, <5>2, Fields, Bounds DEF Push, Commits
      <4>2. \A i \in DOMAIN events' :
              (i \in DOMAIN events /\ events'[i] = events[i]) \/ events'[i].sha = host.head + 1
        BY <1>1, <4>1, EmitStep
      <4>3. \A i \in DOMAIN events : events[i].sha \in Int
        <5>1. \A i \in DOMAIN events : events[i] \in Event
          BY <1>1, SeqType DEF TypeOK
        <5>2. \A e \in Event : e.sha \in Int
          <6> TAKE e \in Event
          <6>1. e.sha \in Commits
            BY DEF Event
          <6> QED BY <6>1, Bounds DEF Commits
        <5> QED BY <5>1, <5>2
      <4>4. \A i \in DOMAIN events : events[i].sha =< host.head
        BY <1>1 DEF PushedInv
      <4> QED BY <2>1, <2>3, <4>1, <4>2, <4>3, <4>4
    <3>2. CASE Show \/ Merge
      <4>1. UNCHANGED events /\ host'.head = host.head
        BY <1>1, <3>2 DEF Show, Merge, TypeOK, HostStates
      <4> QED BY <1>1, <4>1 DEF PushedInv
    <3> QED BY <1>7, <3>1, <3>2
  <2>5. PushedInv'
    <3>1. \A i \in DOMAIN queue : queue[i] \in Int
      BY <1>1, SeqType, Bounds DEF TypeOK, Commits
    <3> QED BY <1>1, <2>1, <2>2, <2>3, <2>4, <3>1, Fields DEF PushedInv
  <2>6. ArchiveInv'
    <3>1. \A c \in Commits : c \in Int /\ validated[c] \in Int
      BY <1>1 DEF TypeOK, Commits
    <3> QED BY <1>1, <1>3, <2>1, <2>2, <2>3, <3>1, Fields DEF ArchiveInv, GotArchive, gitHub, RightFor
  <2>7. FilesInv'
    BY <1>1, <1>3, <2>1, <2>2, <2>3, Fields DEF FilesInv, Listed, gitHub
  <2>8. CauseInv'
    BY <1>1, <2>2 DEF CauseInv
  <2> QED BY <1>2, <1>4, <1>5, <2>1, <2>2, <2>5, <2>6, <2>7, <2>8 DEF IntakeInv
<1>8. CASE Touch
  <2>1. UNCHANGED <<host, hooks, queue, check, validated>>
    BY <1>8 DEF Touch
  <2>2. host.head \in Commits
    <3>1. host.head > 0
      BY <1>8 DEF Touch
    <3> QED BY <1>1, <3>1, Fields, Bounds DEF Commits
  <2>3. \A i \in DOMAIN events' :
          (i \in DOMAIN events /\ events'[i] = events[i]) \/ events'[i].sha = host.head
    BY <1>1, <1>8, <2>2, EmitStep DEF Touch
  <2>4. PushedInv'
    BY <1>1, <2>1, <2>2, <2>3 DEF PushedInv, Commits
  <2> QED BY <1>2, <1>4, <1>5, <1>6, <2>1, <2>4 DEF IntakeInv
<1>9. CASE Start
  <2>1. UNCHANGED <<host, events, queue, check, validated>>
    BY <1>9 DEF Start
  <2>2. PushedInv'
    BY <1>1, <2>1 DEF PushedInv
  <2>3. WebhookOnce'
    <3> SUFFICES ASSUME gitHub \/ ~setting.crowded PROVE Len(hooks') =< 1
      BY <1>3 DEF WebhookOnce, gitHub
    <3>1. Len(hooks) =< 1
      BY DEF IntakeInv, WebhookOnce
    <3>2. hooks' \in {hooks, Append(hooks, setting.secrets[starts'])}
      BY <1>9 DEF Start, EnsureWebhooks, CreateHook
    <3>3. hooks' # hooks => hooks = <<>>
      BY <1>9 DEF Start, EnsureWebhooks, CreateHook, GetHookByUrl
    <3>4. Len(Append(<<>>, setting.secrets[starts'])) = 1
      OBVIOUS
    <3> QED BY <3>1, <3>2, <3>3, <3>4
  <2> QED BY <1>2, <1>4, <1>6, <2>1, <2>2, <2>3 DEF IntakeInv
<1>10. CASE Crash
  <2>1. UNCHANGED <<host, hooks, events>> /\ check' = Idle /\ queue' = <<>> /\ validated' = NoURLs
    BY <1>10 DEF Crash
  <2>2. HostInv' /\ ArchiveInv' /\ FilesInv' /\ CauseInv'
    BY <1>1, <1>3, <2>1, Fields DEF HostInv, ArchiveInv, GotArchive, FilesInv, CauseInv, Idle, NoURLs, gitHub, RightFor
  <2>3. PushedInv'
    BY <1>1, <2>1, Fields DEF PushedInv, Idle
  <2> QED BY <1>2, <1>4, <1>5, <2>1, <2>2, <2>3 DEF IntakeInv
<1>11. CASE groupHandler
  <2>1. UNCHANGED <<host, hooks, check, validated>> /\ events # <<>> /\ events' = Tail(events)
    BY <1>11 DEF groupHandler
  <2>2. PushedInv'
    <3>1. Head(events) = events[1] /\ 1 \in DOMAIN events
          /\ \A i \in DOMAIN events' : i + 1 \in DOMAIN events /\ events'[i] = events[i + 1]
      BY <1>1, <2>1, TailOfSeq DEF TypeOK
    <3>2. queue' \in {queue, Append(queue, CommitOf(Head(events)))}
      BY <1>11 DEF groupHandler, Unauthorized, Skipped, BadRequest, Filtered, Accepted, Enqueue
    <3>3. CommitOf(Head(events)) =< host.head
      BY <1>1, <3>1 DEF CommitOf, PushedInv, HostInv
    <3>4. \A i \in DOMAIN queue' : queue'[i] =< host.head
      <4>1. queue \in Seq(Commits) /\ \A i \in DOMAIN queue : queue[i] =< host.head
        BY <1>1 DEF PushedInv, TypeOK
      <4>2. ASSUME NEW c, c =< host.head PROVE \A i \in DOMAIN Append(queue, c) : Append(queue, c)[i] =< host.head
        BY <4>1, <4>2, Longer
      <4> QED BY <3>2, <3>3, <4>1, <4>2
    <3> QED BY <1>1, <2>1, <3>1, <3>4 DEF PushedInv
  <2> QED BY <1>2, <1>4, <1>5, <1>6, <2>1, <2>2 DEF IntakeInv
<1>12. CASE LoseEvent
  <2>1. UNCHANGED <<host, hooks, check, validated, queue>> /\ events # <<>> /\ events' = Tail(events)
    BY <1>12 DEF LoseEvent
  <2>2. PushedInv'
    <3>1. \A i \in DOMAIN events' : i + 1 \in DOMAIN events /\ events'[i] = events[i + 1]
      BY <1>1, <2>1, TailOfSeq DEF TypeOK
    <3> QED BY <1>1, <2>1, <3>1 DEF PushedInv
  <2> QED BY <1>2, <1>4, <1>5, <1>6, <2>1, <2>2 DEF IntakeInv
<1>13. CASE StartCheck \/ LoadHook
  <2>1. /\ UNCHANGED <<host, hooks, events, validated>>
        /\ check'.pc = "ask" /\ check'.sha # 0 /\ check'.sha =< host.head
        /\ \A i \in DOMAIN queue' : queue'[i] =< host.head
    <3>1. \A sha, by : Validating(sha, by).pc = "ask" /\ Validating(sha, by).sha = sha
      BY DEF Validating, Idle
    <3>2. TakeRequest => /\ Head(queue) \in Commits /\ Head(queue) =< host.head
                         /\ \A i \in DOMAIN queue' : queue'[i] =< host.head
      BY <1>1, Taken
    <3> QED BY <1>1, <1>13, <3>1, <3>2, Fields DEF StartCheck, LoadHook, PushedInv, HostInv, Commits
  <2>2. HostInv' /\ ArchiveInv' /\ FilesInv' /\ CauseInv'
    BY <1>1, <1>3, <2>1 DEF HostInv, ArchiveInv, GotArchive, FilesInv, CauseInv, gitHub, RightFor
  <2>3. PushedInv'
    BY <1>1, <2>1 DEF PushedInv
  <2> QED BY <1>2, <1>4, <1>5, <2>1, <2>2, <2>3 DEF IntakeInv
<1>14. CASE Expire
  <2>1. UNCHANGED <<host, hooks, events, queue, check, validated>>
    BY <1>14 DEF Expire
  <2>2. PushedInv'
    BY <1>1, <2>1 DEF PushedInv
  <2> QED BY <1>2, <1>4, <1>5, <1>6, <2>1, <2>2 DEF IntakeInv
<1>15. CASE SkipCheck
  <2>1. UNCHANGED <<host, hooks, events, check, validated>> /\ TakeRequest
    BY <1>15 DEF SkipCheck
  <2>2. PushedInv'
    <3>1. \A i \in DOMAIN queue' : queue'[i] =< host.head
      BY <1>1, <2>1, Taken
    <3> QED BY <1>1, <2>1, <3>1 DEF PushedInv
  <2> QED BY <1>2, <1>4, <1>5, <1>6, <2>1, <2>2 DEF IntakeInv
<1>16. CASE EndCheck
  <2>1. UNCHANGED <<host, hooks, events, queue, validated>> /\ check' = Idle
    BY <1>16 DEF EndCheck
  <2>2. HostInv' /\ ArchiveInv' /\ FilesInv' /\ CauseInv'
    BY <1>1, <1>3, <2>1, IdleFacts DEF HostInv, ArchiveInv, GotArchive, FilesInv, CauseInv, gitHub, RightFor
  <2>3. PushedInv'
    BY <1>1, <2>1, IdleFacts, Fields DEF PushedInv
  <2> QED BY <1>2, <1>4, <1>5, <2>1, <2>2, <2>3 DEF IntakeInv
<1> QED BY <1>7, <1>8, <1>9, <1>10, <1>11, <1>12, <1>13, <1>14, <1>15, <1>16 DEF Surroundings

-----------------------------------------------------------------------------
(* What a step says nothing of, it keeps. *)
LEMMA RestInv ==
  ASSUME IntakeInv, UNCHANGED <<setting, host, hooks, events, queue>>
  PROVE  /\ HostInv'
         /\ WebhookOnce'
         /\ check'.sha =< host.head /\ (check'.pc # "idle" => check'.sha # 0) => PushedInv'
         /\ UNCHANGED results => ArchiveIsOfCommit' /\ FilesAreComplete'
         /\ UNCHANGED notices => NoticeFitsFailure'
         /\ UNCHANGED validated => \A c \in Commits : validated'[c] =< host.shown
                                     /\ (gitHub /\ validated'[c] # 0 => RightFor(c, validated'[c]) /\ c =< host.shown)
<1>1. HostInv' /\ WebhookOnce'
  BY DEF IntakeInv, HostInv, WebhookOnce, gitHub
<1>2. check'.sha =< host.head /\ (check'.pc # "idle" => check'.sha # 0) => PushedInv'
  BY DEF IntakeInv, PushedInv
<1>3. UNCHANGED results => ArchiveIsOfCommit' /\ FilesAreComplete'
  BY DEF IntakeInv, ArchiveIsOfCommit, FilesAreComplete, gitHub, RightFor
<1>4. UNCHANGED notices => NoticeFitsFailure'
  BY DEF IntakeInv, NoticeFitsFailure
<1>5. UNCHANGED validated => \A c \in Commits : validated'[c] =< host.shown
                               /\ (gitHub /\ validated'[c] # 0 => RightFor(c, validated'[c]) /\ c =< host.shown)
  BY DEF IntakeInv, ArchiveInv
<1> QED BY <1>1, <1>2, <1>3, <1>4, <1>5

(* Where the archive is found, it is the right one. *)
LEMMA AskInv ==
  ASSUME IntakeInv, AskGitHub \/ AskGitLab \/ ResolveMergeRef \/ Wait
  PROVE  IntakeInv'
<1>1. TypeOK /\ HostInv /\ PushedInv /\ ArchiveInv
  BY DEF IntakeInv
<1>2. /\ UNCHANGED <<setting, host, hooks, events, up, starts, queue, latest, ctx, results, notices, touches>>
      /\ check.pc \in Unfound /\ AskOutcome
  BY <1>1, AskStep
<1>3. /\ check \in CheckStates /\ validated \in [Commits -> 0..MaxCommit]
      /\ check.sha \in Commits /\ check.sha =< host.head
      /\ host.head \in Int /\ host.shown \in 0..MaxCommit /\ host.merge \in 0..MaxCommit
  BY <1>1, <1>2, Fields, Bounds DEF TypeOK, PushedInv, Unfound, Commits
<1>4. HostInv' /\ WebhookOnce' /\ ArchiveIsOfCommit' /\ FilesAreComplete' /\ NoticeFitsFailure'
  BY <1>2, RestInv
<1>5. SUFFICES TypeOK' /\ PushedInv' /\ ArchiveInv' /\ FilesInv' /\ CauseInv'
  BY <1>4 DEF IntakeInv
<1>6. SUFFICES /\ check' \in CheckStates /\ validated' \in [Commits -> 0..MaxCommit]
               /\ check'.sha = check.sha /\ ArchiveInv' /\ FilesInv' /\ CauseInv'
  <2>1. PushedInv'
    BY <1>2, <1>3, <1>6, RestInv, Bounds DEF Commits
  <2> QED BY <1>1, <1>2, <1>6, <2>1 DEF TypeOK
<1>7. CASE (gitHub => MergeReady) /\ GotURL(host.merge)
  <2>1. host.merge =< host.shown /\ (gitHub => RightFor(check.sha, host.merge)) /\ check.sha =< host.shown
    BY <1>1, <1>3, <1>7 DEF MergeReady, headSHAMatches, mergeCommitAvailable, mergeComputed, HostInv,
                           TypeOK, HostStates, RightFor
  <2>2. CASE check.from = "validate"
    <3>1. /\ check' \in CheckStates /\ check'.sha = check.sha /\ check'.pc = "clone"
          /\ validated' = [validated EXCEPT ![check.sha] = host.merge]
      BY <1>3, <1>7, <2>2 DEF GotURL, Goto, CheckStates, Labels
    <3>2. ArchiveInv'
      BY <1>1, <1>2, <1>3, <2>1, <3>1 DEF ArchiveInv, GotArchive, gitHub, RightFor
    <3> QED BY <1>3, <3>1, <3>2 DEF FilesInv, CauseInv
  <2>3. CASE check.from # "validate"
    <3>1. /\ check' \in CheckStates /\ check'.sha = check.sha /\ check'.pc = "auth"
          /\ check'.archive = host.merge /\ validated' = validated
      BY <1>3, <1>7, <2>3 DEF GotURL, CheckStates, Labels
    <3>2. ArchiveInv'
      BY <1>1, <1>2, <2>1, <3>1 DEF ArchiveInv, GotArchive, gitHub, RightFor
    <3> QED BY <1>3, <3>1, <3>2 DEF FilesInv, CauseInv
  <2> QED BY <2>2, <2>3
<1>8. ASSUME NEW cause \in NoURLCauses, NoURL(cause)
      PROVE  /\ check' \in CheckStates /\ validated' \in [Commits -> 0..MaxCommit]
             /\ check'.sha = check.sha /\ ArchiveInv' /\ FilesInv' /\ CauseInv'
  <2>1. cause \in Causes
    BY DEF Causes
  <2>2. /\ check' \in CheckStates /\ check'.sha = check.sha /\ check'.pc \in {"conflict", "notify"}
        /\ check'.cause = cause /\ validated' = validated
    BY <1>3, <1>8, <2>1 DEF NoURL, CheckStates, Labels
  <2>3. ArchiveInv'
    BY <1>1, <1>2, <2>2 DEF ArchiveInv, GotArchive, gitHub, RightFor
  <2> QED BY <1>3, <2>1, <2>2, <2>3 DEF FilesInv, CauseInv
<1>9. CASE validated' = validated /\ GoesOn
  <2>1. /\ check'.sha = check.sha /\ check'.pc \in Unfound
    BY <1>3, <1>9 DEF GoesOn, CheckStates
  <2>2. check' \in CheckStates
    BY <1>3, <1>9, <2>1 DEF GoesOn, CheckStates, Unfound, Labels
  <2>3. ArchiveInv'
    BY <1>1, <1>2, <1>9, <2>1 DEF GoesOn, Unfound, ArchiveInv, GotArchive, gitHub, RightFor
  <2> QED BY <1>3, <1>9, <2>1, <2>2, <2>3 DEF FilesInv, CauseInv, Unfound
<1> QED BY <1>2, <1>7, <1>8, <1>9 DEF AskOutcome

(* A check that is over promises nothing. *)
LEMMA EndedInv ==
  ASSUME IntakeInv, check.pc # "idle", Ended, UNCHANGED <<setting, host, hooks, events, starts, queue, latest, ctx, validated>>,
         ArchiveIsOfCommit', FilesAreComplete', NoticeFitsFailure'
  PROVE  IntakeInv'
<1>0. check' \in CheckStates /\ check'.sha = check.sha /\ check'.pc = "end"
  <2>1. check.by \in {"none", "server", "command"} /\ check.sha \in 0..MaxCommit /\ "end" \in Labels
    BY DEF IntakeInv, TypeOK, CheckStates, Labels
  <2>2. Idle \in CheckStates /\ check' = [Idle EXCEPT !.pc = "end", !.by = check.by, !.sha = check.sha]
    BY IdleFacts DEF Ended
  <2> QED BY <2>1, <2>2 DEF CheckStates
<1>1. TypeOK'
  BY <1>0 DEF IntakeInv, TypeOK
<1>2. HostInv' /\ WebhookOnce' /\ PushedInv'
  BY <1>0, RestInv DEF IntakeInv, PushedInv
<1>3. ArchiveInv' /\ FilesInv' /\ CauseInv'
  BY <1>0, RestInv DEF ArchiveInv, GotArchive, FilesInv, CauseInv, gitHub, RightFor
<1> QED BY <1>1, <1>2, <1>3 DEF IntakeInv

(* A check that goes on. *)
LEMMA AdvanceInv ==
  ASSUME IntakeInv, UNCHANGED <<setting, host, hooks, events, starts, queue, latest, ctx, results, notices>>,
         check.pc # "idle", check' \in CheckStates, check'.sha = check.sha,
         validated' \in [Commits -> 0..MaxCommit],
         ArchiveInv', FilesInv', CauseInv'
  PROVE  IntakeInv'
<1>1. TypeOK'
  BY DEF IntakeInv, TypeOK
<1>2. HostInv' /\ WebhookOnce' /\ ArchiveIsOfCommit' /\ FilesAreComplete' /\ NoticeFitsFailure'
  BY RestInv
<1>3. PushedInv'
  BY RestInv DEF IntakeInv, PushedInv
<1> QED BY <1>1, <1>2, <1>3 DEF IntakeInv

(* The archive, the files and the cause of a check that goes on with the   *)
(* archive it has, or to a notice.                                         *)
LEMMA KeepsArchive ==
  ASSUME IntakeInv, UNCHANGED <<setting, host, validated>>, GotArchive,
         check'.sha = check.sha, check'.archive = check.archive,
         check'.pc \in {"download", "files", "count", "head", "notify"}
  PROVE  ArchiveInv'
BY DEF IntakeInv, ArchiveInv, GotArchive, gitHub, RightFor

LEMMA CloneInv == ASSUME IntakeInv, Clone PROVE IntakeInv'
<1>1. check \in CheckStates /\ check.sha \in Commits /\ validated \in [Commits -> 0..MaxCommit]
  BY Fields, Bounds DEF IntakeInv, TypeOK, PushedInv, Clone, At, Commits
<1>2. /\ UNCHANGED <<setting, host, hooks, events, up, starts, queue, latest, ctx, results, notices, touches>>
      /\ check.pc = "clone" /\ validated' = [validated EXCEPT ![check.sha] = 0]
  BY DEF Clone, Quiet, server, posted, At
<1>3. validated' \in [Commits -> 0..MaxCommit] /\ host.shown \in 0..MaxCommit
  BY <1>1, <1>2, Fields, Bounds DEF IntakeInv
<1>4. \A c \in Commits : validated'[c] =< host.shown /\ (gitHub /\ validated'[c] # 0 => RightFor(c, validated'[c]) /\ c =< host.shown)
  BY <1>1, <1>2, <1>3 DEF IntakeInv, ArchiveInv
<1>5. CASE validated[check.sha] # 0
  <2>1. validated[check.sha] \in 0..MaxCommit
    BY <1>1
  <2>2. check' = [check EXCEPT !.pc = "auth", !.archive = validated[check.sha]]
    BY <1>5 DEF Clone
  <2>3. /\ check' \in CheckStates /\ check'.sha = check.sha /\ check'.pc = "auth"
        /\ check'.archive = validated[check.sha]
    BY <1>1, <2>1, <2>2 DEF CheckStates, Labels
  <2>4. /\ validated[check.sha] =< host.shown
        /\ gitHub => RightFor(check.sha, validated[check.sha]) /\ check.sha =< host.shown
    BY <1>1, <1>5 DEF IntakeInv, ArchiveInv
  <2>5. check.sha =< host.shown
    <3>1. check.sha =< host.head /\ (~gitHub => host.shown = host.head)
      BY DEF IntakeInv, HostInv, PushedInv
    <3> QED BY <1>1, <1>3, <2>1, <2>4, <3>1
  <2>6. ArchiveInv'
    BY <1>2, <1>4, <2>3, <2>4, <2>5 DEF ArchiveInv, GotArchive, gitHub, RightFor
  <2>7. FilesInv' /\ CauseInv'
    BY <2>3 DEF FilesInv, CauseInv
  <2> QED BY <1>2, <1>3, <2>3, <2>6, <2>7, AdvanceInv
<1>6. CASE validated[check.sha] = 0
  <2>1. check' = [check EXCEPT !.pc = "ask", !.try = 0, !.from = "clone"]
    BY <1>6 DEF Clone
  <2>2. check' \in CheckStates /\ check'.sha = check.sha /\ check'.pc = "ask"
    <3>1. 0 \in Int /\ "ask" \in Labels
      BY DEF Labels
    <3> QED BY <1>1, <2>1, <3>1 DEF CheckStates
  <2>3. ArchiveInv' /\ FilesInv' /\ CauseInv'
    BY <1>2, <1>4, <2>2 DEF ArchiveInv, GotArchive, FilesInv, CauseInv, gitHub, RightFor
  <2> QED BY <1>2, <1>3, <2>2, <2>3, AdvanceInv
<1> QED BY <1>5, <1>6

(* GetAuthHeaders and GetOrDownload go on, or to the notice of a cause.    *)
LEMMA FetchInv == ASSUME IntakeInv, GetAuthHeaders \/ GetOrDownload PROVE IntakeInv'
<1>1. /\ UNCHANGED <<setting, host, hooks, events, up, starts, queue, latest, ctx, results, notices, touches, validated>>
      /\ check.pc \in {"auth", "download"}
  BY DEF GetAuthHeaders, GetOrDownload, Quiet, server, posted, At
<1>2. /\ check \in CheckStates /\ validated \in [Commits -> 0..MaxCommit] /\ ctx \in {"live", "deadline", "canceled"}
  BY DEF IntakeInv, TypeOK
<1>3. \/ Goto("download") \/ Goto("files")
      \/ \E cause \in Causes : Failed(cause)
  BY <1>2 DEF GetAuthHeaders, GetOrDownload, Causes, NoURLCauses, live
<1>4. /\ check' \in CheckStates /\ check'.sha = check.sha /\ check'.archive = check.archive
      /\ \/ check'.pc \in {"download", "files"}
         \/ check'.pc = "notify" /\ check'.cause \in Causes
  BY <1>2, <1>3 DEF Goto, Failed, CheckStates, Labels
<1>5. ArchiveInv'
  BY <1>1, <1>4, KeepsArchive DEF GotArchive
<1>6. FilesInv' /\ CauseInv'
  BY <1>4 DEF FilesInv, CauseInv
<1> QED BY <1>1, <1>2, <1>4, <1>5, <1>6, AdvanceInv

(* Both notices end the check; what they say fits the cause. *)
LEMMA NoticeInv == ASSUME IntakeInv, PostArchiveErrorMessage \/ PostConflictMessage PROVE IntakeInv'
<1>1. /\ UNCHANGED <<setting, host, hooks, events, up, starts, queue, latest, ctx, validated, results, touches>>
      /\ Ended /\ check.pc # "idle"
  BY DEF PostArchiveErrorMessage, PostConflictMessage, End, server, At
<1>2. ArchiveIsOfCommit' /\ FilesAreComplete'
  BY <1>1, RestInv
<1>3. ctx \in {"live", "deadline", "canceled"}
  BY DEF IntakeInv, TypeOK
<1>4. NoticeFitsFailure'
  <2>1. ASSUME NEW n, NEW k, n = NoticeOf(k), notices' \subseteq notices \cup {n},
               k = "conflict" \/ (check.cause \in Causes /\ k = Notice(check.cause))
        PROVE  NoticeFitsFailure'
    <3>1. n.kind = k /\ n.cause = check.cause
      BY <2>1 DEF NoticeOf
    <3>2. /\ n.kind = "fix" => ~isRetriable(n.cause)
          /\ n.kind = "retry" => isRetriable(n.cause) \/ n.cause \in {"extract", "3xx", "host"}
          /\ n.cause \in {"deadline", "canceled"} => n.kind \in {n.cause, "conflict"}
      BY <1>3, <2>1, <3>1 DEF Notice, isRetriable, Causes, HTTPErrors, NoURLCauses, live
    <3> QED BY <2>1, <3>2 DEF IntakeInv, NoticeFitsFailure
  <2>2. CASE PostArchiveErrorMessage
    <3>1. check.cause \in Causes
      BY <2>2 DEF PostArchiveErrorMessage, At, IntakeInv, CauseInv
    <3>2. notices' \subseteq notices \cup {NoticeOf(Notice(check.cause))}
      BY <2>2 DEF PostArchiveErrorMessage, End
    <3> QED BY <2>1, <3>1, <3>2
  <2>3. CASE PostConflictMessage
    <3>1. notices' \subseteq notices \cup {NoticeOf("conflict")}
      BY <2>3 DEF PostConflictMessage, End
    <3> QED BY <2>1, <3>1
  <2> QED BY <2>2, <2>3
<1> QED BY <1>1, <1>2, <1>4, EndedInv

(* The files are those of the head that is shown. *)
LEMMA FilesStep == ASSUME IntakeInv, GetPullRequestFiles PROVE IntakeInv'
<1>1. /\ UNCHANGED <<setting, host, hooks, events, up, starts, queue, latest, ctx, validated, results, notices, touches>>
      /\ check.pc = "files"
  BY DEF GetPullRequestFiles, server, At
<1>2. CASE Ended
  BY <1>1, <1>2, RestInv, EndedInv
<1>3. CASE ~Ended
  <2> DEFINE n == setting.changed[host.shown]
  <2>1. /\ check \in CheckStates /\ validated \in [Commits -> 0..MaxCommit]
        /\ host.shown \in Commits /\ check.sha =< host.shown
    <3>1. check \in CheckStates /\ validated \in [Commits -> 0..MaxCommit]
      BY DEF IntakeInv, TypeOK
    <3>2. check.sha # 0 /\ check.sha =< host.shown
      BY <1>1 DEF IntakeInv, PushedInv, ArchiveInv, GotArchive
    <3>3. check.sha \in 0..MaxCommit /\ host.shown \in 0..MaxCommit
      BY Fields DEF IntakeInv
    <3> QED BY <3>1, <3>2, <3>3, Bounds DEF Commits
  <2>2. n \in Nat /\ Listed(n) \in Nat
    BY <2>1, SettingTypes, Bounds DEF IntakeInv, TypeOK, Commits, Listed
  <2>3. check' = [check EXCEPT !.of = host.shown, !.files = Listed(n),
                               !.pc = IF MayBeCut(Listed(n)) THEN "count" ELSE "head"]
    BY <1>3 DEF GetPullRequestFiles
  <2> HIDE DEF n
  <2>4. host.shown \in 0..MaxCommit /\ (IF MayBeCut(Listed(n)) THEN "count" ELSE "head") \in Labels
    BY <2>1, Bounds DEF Commits, Labels
  <2>5. /\ check' \in CheckStates
        /\ check'.sha = check.sha /\ check'.archive = check.archive
        /\ check'.of = host.shown /\ check'.files = Listed(n)
        /\ check'.pc = IF MayBeCut(Listed(n)) THEN "count" ELSE "head"
    BY <2>1, <2>2, <2>3, <2>4 DEF CheckStates
  <2>6. ~MayBeCut(Listed(n)) => Listed(n) = n
    BY <2>2, Bounds DEF MayBeCut, Listed
  <2>7. FilesInv'
    BY <1>1, <2>1, <2>5, <2>6 DEF FilesInv, n, Listed, gitHub, Commits
  <2>8. ArchiveInv' /\ CauseInv'
    BY <1>1, <2>5, KeepsArchive DEF GotArchive, CauseInv
  <2> QED BY <1>1, <2>1, <2>5, <2>7, <2>8, AdvanceInv
<1> QED BY <1>2, <1>3

(* The count is of the head that is shown now. *)
LEMMA CountStep == ASSUME IntakeInv, CountFiles PROVE IntakeInv'
<1>1. /\ UNCHANGED <<setting, host, hooks, events, up, starts, queue, latest, ctx, validated, results, notices, touches>>
      /\ check.pc = "count"
  BY DEF CountFiles, Quiet, server, posted, At
<1>2. CASE Ended
  BY <1>1, <1>2, RestInv, EndedInv
<1>3. CASE ~Ended
  <2>1. check \in CheckStates /\ validated \in [Commits -> 0..MaxCommit]
    BY DEF IntakeInv, TypeOK
  <2>2. setting.changed[host.shown] =< check.files /\ Goto("head")
    BY <1>3 DEF CountFiles
  <2>3. /\ check' \in CheckStates /\ check'.pc = "head"
        /\ check'.sha = check.sha /\ check'.archive = check.archive
        /\ check'.of = check.of /\ check'.files = check.files
    BY <2>1, <2>2 DEF Goto, CheckStates, Labels
  <2>4. /\ check.sha =< check.of /\ check.of =< host.shown
        /\ check.files = Listed(setting.changed[check.of])
    BY <1>1 DEF IntakeInv, FilesInv
  <2>5. check.sha # 0 /\ check.sha \in 0..MaxCommit /\ check.of \in 0..MaxCommit
    BY <1>1, Fields DEF IntakeInv, PushedInv
  <2>6. setting.changed[check.of] \in Nat
    BY <2>4, <2>5, SettingTypes, Bounds DEF IntakeInv, TypeOK
  <2>7. check.of = host.shown => check.files = setting.changed[check.of]
    BY <2>2, <2>4, <2>6, Bounds DEF Listed
  <2>8. FilesInv'
    BY <1>1, <2>3, <2>4, <2>7 DEF FilesInv
  <2>9. ArchiveInv' /\ CauseInv'
    BY <1>1, <2>3, KeepsArchive DEF GotArchive, CauseInv
  <2> QED BY <1>1, <2>1, <2>3, <2>8, <2>9, AdvanceInv
<1> QED BY <1>2, <1>3

(* The look at the head is what makes sure. *)
LEMMA SupersededStep == ASSUME IntakeInv, IsSuperseded PROVE IntakeInv'
<1>1. /\ UNCHANGED <<setting, host, hooks, events, up, starts, queue, latest, ctx, validated, notices, touches>>
      /\ check.pc = "head" /\ Ended
  BY DEF IsSuperseded, server, At
<1>2. NoticeFitsFailure'
  BY <1>1, RestInv
<1>3. /\ \A r \in results' : r \in results \/ r = Result(FALSE)
                               \/ (r = Result(TRUE) /\ host.shown = check.sha)
  BY DEF IsSuperseded
<1>4. \A sure : /\ Result(sure).sha = check.sha /\ Result(sure).archive = check.archive
                /\ Result(sure).of = check.of /\ Result(sure).files = check.files
                /\ Result(sure).sure = sure
  BY DEF Result
<1>5. ArchiveIsOfCommit'
  <2>1. check.archive =< host.shown /\ (gitHub => RightFor(check.sha, check.archive))
    BY <1>1 DEF IntakeInv, ArchiveInv, GotArchive
  <2>2. setting' = setting /\ ArchiveIsOfCommit
    BY <1>1 DEF IntakeInv
  <2>3. ASSUME NEW r \in results'
        PROVE  IF gitHub THEN RightFor(r.sha, r.archive) ELSE r.sure => r.archive =< r.sha
    <3>1. CASE r \in results
      BY <2>2, <3>1 DEF ArchiveIsOfCommit
    <3>2. CASE r = Result(FALSE)
      BY <1>4, <2>1, <3>2
    <3>3. CASE r = Result(TRUE) /\ host.shown = check.sha
      BY <1>4, <2>1, <3>3
    <3> QED BY <1>3, <3>1, <3>2, <3>3
  <2> QED BY <2>2, <2>3 DEF ArchiveIsOfCommit, gitHub, RightFor
<1>6. FilesAreComplete'
  <2>1. /\ check.sha =< check.of /\ check.of =< host.shown
        /\ check.of = host.shown => check.files = setting.changed[check.of]
    BY <1>1 DEF IntakeInv, FilesInv
  <2>2. host.shown = check.sha => check.of = check.sha
    BY <2>1, Fields DEF IntakeInv
  <2> SUFFICES ASSUME NEW r \in results', r.sure
               PROVE  r.of = r.sha /\ r.files = setting.changed[r.sha]
    BY <1>1 DEF FilesAreComplete
  <2>3. CASE r \in results
    BY <2>3 DEF IntakeInv, FilesAreComplete
  <2>4. CASE r = Result(TRUE) /\ host.shown = check.sha
    BY <1>4, <2>1, <2>2, <2>4
  <2>5. Result(FALSE).sure = FALSE
    BY <1>4
  <2> QED BY <1>3, <2>3, <2>4, <2>5
<1> QED BY <1>1, <1>2, <1>5, <1>6, EndedInv

-----------------------------------------------------------------------------
LEMMA NextIntakeInv == IntakeInv /\ [Next]_vars => IntakeInv'
<1> SUFFICES ASSUME IntakeInv, [Next]_vars PROVE IntakeInv'
  OBVIOUS
<1>1. CASE UNCHANGED vars
  BY <1>1 DEF vars, IntakeInv, TypeOK, HostInv, PushedInv, ArchiveInv, GotArchive, FilesInv, CauseInv,
              ArchiveIsOfCommit, FilesAreComplete, NoticeFitsFailure, WebhookOnce, gitHub, Listed, RightFor
<1>2. CASE Found
  BY <1>2, CloneInv, FetchInv, NoticeInv, FilesStep, CountStep, SupersededStep DEF Found
<1> QED BY <1>1, <1>2, NextCases, SurroundingsInv, AskInv

(* The inductive invariant: the host's order of heads and merges, what was *)
(* pushed, and what a check may rely on at each of its places.             *)
THEOREM IntakeInvariant == Spec => []IntakeInv
<1> QED BY InitIntakeInv, NextIntakeInv, PTL DEF Spec

(* A check of a GitHub pull request works on the merge of its own commit   *)
(* (or, if that has conflicts, perhaps on an older one), and one of a      *)
(* GitLab merge request that saw the head on none of a newer head,         *)
(* whatever the host answers late (DownloadArchive, isSuperseded).         *)
THEOREM RightArchive == Spec => []ArchiveIsOfCommit
BY IntakeInvariant, PTL DEF IntakeInv

(* A check that saw the head has every file the commit changes, for any    *)
(* length of the host's list (GetPullRequestFiles).                        *)
THEOREM CompleteFiles == Spec => []FilesAreComplete
BY IntakeInvariant, PTL DEF IntakeInv

(* A notice tells to retry what isRetriableDownloadError retries, and to   *)
(* fix what it does not (PostArchiveErrorMessage).                         *)
THEOREM FittingNotice == Spec => []NoticeFitsFailure
BY IntakeInvariant, PTL DEF IntakeInv

(* However often the server starts and calls to the host fail, it has one  *)
(* webhook for the server (ensureWebhooks).                                *)
THEOREM OneWebhook == Spec => []WebhookOnce
BY IntakeInvariant, PTL DEF IntakeInv
=============================================================================
