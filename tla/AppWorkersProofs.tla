-------------------------- MODULE AppWorkersProofs --------------------------
(***************************************************************************)
(* Proofs about AppWorkers, for any applications, names, effects of diffs, *)
(* checks, workers, room in the channel and slots for AI reviews.          *)
(***************************************************************************)
EXTENDS AppWorkers, FiniteSetTheorems, SequenceTheorems, TLAPS

Effect == [op : {"queue", "remove"}, app : Apps]
Stages == {"sending", "queued", "start", "manifests", "checks", "done"}
ChkStates == {"none", "run", "call", "panicked", "over"}
JobStates ==
  [app : Apps, stage : Stages, chk : [Checks -> ChkStates], todo : Seq(Effect), ai : {"off", "run", "over"}]
TypeInv ==
  /\ main \in {"produce", "wait", "build", "status", "over"}
  /\ next \in 1..Len(Affected) + 1
  /\ holder \in {Free, Main} \cup JobIds
  /\ added \in [Names -> Apps \cup {None}]
  /\ jobs \in Seq(JobStates)
  /\ chan \in Seq(JobIds) /\ Len(chan) =< MaxQueueSize
  /\ closed \in BOOLEAN
  /\ wg \in Nat
  /\ aiCount \in Nat
  /\ deleted \in SUBSET Names
  /\ results \in SUBSET [job : JobIds, check : Checks \cup {"manifests"}, verdict : Verdicts]
  /\ report \subseteq results
  /\ status \subseteq results

(* What a job does fits how far it is: its checks run inside "checks", and *)
(* one that asks for a child has it at the head of its list.               *)
Fits(s) ==
  /\ \A c \in Checks : /\ s.chk[c] \in {"run", "call"} => s.stage = "checks"
                       /\ s.chk[c] # "none" => s.stage \in {"checks", "done"}
                       /\ s.chk[c] = "call" => c = "diff"
  /\ s.ai = "run" => s.stage = "checks"
  /\ s.chk["diff"] = "call" => s.todo # <<>> /\ Head(s.todo).op = "queue"
StageInv == \A j \in JobIds : Fits(jobs[j])

(* The lock is held while the newest job waits for room in the channel, by *)
(* whoever asked for it.                                                   *)
LockInv ==
  /\ \A j \in JobIds : jobs[j].stage = "sending" => j = Len(jobs) /\ holder # Free
  /\ holder # Free => jobs # <<>> /\ jobs[Len(jobs)].stage = "sending"
  /\ holder = Main => main = "produce" /\ next =< Len(Affected) /\ jobs[Len(jobs)].app = Affected[next]
  /\ holder \in JobIds => jobs[holder].chk["diff"] = "call"
                          /\ jobs[Len(jobs)].app = Head(jobs[holder].todo).app

(* The channel holds queued jobs, each of them once. *)
ChanInv ==
  /\ \A i \in DOMAIN chan : jobs[chan[i]].stage = "queued"
  /\ \A i, k \in DOMAIN chan : chan[i] = chan[k] => i = k

(* The wait group counts the jobs that are owing; nothing is left when     *)
(* process has waited for it.                                              *)
CountInv ==
  /\ wg = Cardinality(Owing)
  /\ closed <=> main \in {"build", "status", "over"}
  /\ closed => wg = 0
  /\ main # "produce" => next > Len(Affected)

(* There is a job for each affected application that process is past, for  *)
(* each one in addedAppsSet, and for each child that a diff is past.       *)
HasJob(a) == \E j \in JobIds : jobs[j].app = a
Past(s) == Len(Effects[s.app]) - Len(s.todo)
Remaining(s) ==
  Past(s) >= 0 /\ \A i \in 1..Len(s.todo) : s.todo[i] = Effects[s.app][Past(s) + i]
Asked(s) ==
  \A i \in 1..Past(s) : Effects[s.app][i].op = "queue" => HasJob(Effects[s.app][i].app)
QueuedInv ==
  /\ \A i \in 1..next - 1 : HasJob(Affected[i])
  /\ \A n \in Names : added[n] # None => HasJob(added[n])
  /\ \A j \in JobIds : Remaining(jobs[j]) /\ Asked(jobs[j])
  /\ \A r \in results : r.check = "diff" /\ r.verdict = "done" => jobs[r.job].todo = <<>>

(* A check that is over has a result; and what would be shown of a name is *)
(* what the report shows, until a panicked check of it is reported.        *)
ResultsInv ==
  /\ \A j \in JobIds, c \in Checks :
       jobs[j].chk[c] = "over" => \E r \in results : r.job = j /\ r.check = c
  /\ main \in {"status", "over"} => \A n \in Names : ~Panicked(n) => Of(Shown, n) = Of(report, n)

WorkersInv ==
  /\ TypeInv /\ StageInv /\ LockInv /\ ChanInv /\ CountInv /\ QueuedInv /\ ResultsInv
  /\ ReportComplete

-----------------------------------------------------------------------------
(* Sequences. *)
LEMMA SeqFacts ==
  ASSUME NEW S, NEW q \in Seq(S)
  PROVE  /\ Len(q) \in Nat /\ DOMAIN q = 1..Len(q) /\ \A i \in DOMAIN q : q[i] \in S
         /\ q # <<>> => /\ Len(q) \in DOMAIN q /\ 1 \in DOMAIN q /\ Head(q) = q[1]
                        /\ Tail(q) \in Seq(S) /\ Len(Tail(q)) = Len(q) - 1
                        /\ DOMAIN Tail(q) = 1..(Len(q) - 1)
                        /\ \A i \in 1..(Len(q) - 1) : Tail(q)[i] = q[i + 1]
         /\ q = <<>> <=> Len(q) = 0
OBVIOUS

LEMMA SeqAppend ==
  ASSUME NEW S, NEW q \in Seq(S), NEW e \in S
  PROVE  /\ Append(q, e) \in Seq(S) /\ Len(Append(q, e)) = Len(q) + 1
         /\ DOMAIN Append(q, e) = 1..(Len(q) + 1)
         /\ \A i \in DOMAIN q : i \in DOMAIN Append(q, e) /\ Append(q, e)[i] = q[i]
         /\ Append(q, e)[Len(q) + 1] = e
<1>1. Len(q) \in Nat /\ DOMAIN q = 1..Len(q)
  OBVIOUS
<1>2. /\ Append(q, e) \in Seq(S) /\ Len(Append(q, e)) = Len(q) + 1
      /\ Append(q, e)[Len(q) + 1] = e /\ \A i \in 1..Len(q) : Append(q, e)[i] = q[i]
  BY AppendProperties
<1>3. DOMAIN Append(q, e) = 1..Len(Append(q, e))
  BY <1>2, SeqFacts
<1> QED BY <1>1, <1>2, <1>3

LEMMA SeqWidens ==
  ASSUME NEW S, NEW T, S \subseteq T, NEW q \in Seq(S)
  PROVE  q \in Seq(T)
OBVIOUS

LEMMA SeqPut ==
  ASSUME NEW S, NEW q \in Seq(S), NEW j \in DOMAIN q, NEW e \in S
  PROVE  /\ [q EXCEPT ![j] = e] \in Seq(S) /\ Len([q EXCEPT ![j] = e]) = Len(q)
         /\ DOMAIN [q EXCEPT ![j] = e] = DOMAIN q
         /\ [q EXCEPT ![j] = e][j] = e
         /\ \A k \in DOMAIN q : k # j => [q EXCEPT ![j] = e][k] = q[k]
<1>1. DOMAIN q = 1..Len(q) /\ Len(q) \in Nat /\ \A i \in 1..Len(q) : q[i] \in S
  OBVIOUS
<1>2. [q EXCEPT ![j] = e] \in [1..Len(q) -> S]
  BY <1>1
<1> QED BY <1>1, <1>2

(* The constants. *)
LEMMA Constants ==
  /\ Effects \in [Apps -> Seq(Effect)] /\ Affected \in Seq(Apps) /\ NameOf \in [Apps -> Names]
  /\ None \notin Apps /\ "diff" \in Checks /\ MaxQueueSize \in Nat /\ MaxQueueSize > 0
<1>1. Effects \in [Apps -> Seq(Effect)] /\ Affected \in Seq(Apps)
  BY EffectsAssumption DEF Effect
<1>2. NameOf \in [Apps -> Names]
  BY NamesAssumption
<1>3. None \notin Apps /\ "diff" \in Checks
  BY FreshAssumption DEF Checks
<1>4. MaxQueueSize \in Nat /\ MaxQueueSize > 0
  BY LimitsAssumption
<1> QED BY <1>1, <1>2, <1>3, <1>4

(* Parts of a job. *)
LEMMA JobParts ==
  ASSUME NEW s \in JobStates
  PROVE  /\ s.app \in Apps /\ s.stage \in Stages /\ s.chk \in [Checks -> ChkStates]
         /\ s.todo \in Seq(Effect) /\ s.ai \in {"off", "run", "over"}
         /\ \A c \in Checks : s.chk[c] \in ChkStates
         /\ Effects[s.app] \in Seq(Effect)
BY Constants DEF JobStates

SetChk(s, c, v) == [s EXCEPT !.chk[c] = v]
SetStage(s, v) == [s EXCEPT !.stage = v]
SetTodo(s, v) == [s EXCEPT !.todo = v]
SetAi(s, v) == [s EXCEPT !.ai = v]

LEMMA WithChk ==
  ASSUME NEW s \in JobStates, NEW c \in Checks, NEW v \in ChkStates
  PROVE  /\ SetChk(s, c, v) \in JobStates
         /\ SetChk(s, c, v).app = s.app /\ SetChk(s, c, v).stage = s.stage
         /\ SetChk(s, c, v).todo = s.todo /\ SetChk(s, c, v).ai = s.ai
         /\ SetChk(s, c, v).chk[c] = v
         /\ \A d \in Checks : d # c => SetChk(s, c, v).chk[d] = s.chk[d]
<1>1. s.chk \in [Checks -> ChkStates]
  BY JobParts
<1>2. [s.chk EXCEPT ![c] = v] \in [Checks -> ChkStates]
  BY <1>1
<1> QED BY <1>1, <1>2 DEF JobStates, SetChk

LEMMA WithStage ==
  ASSUME NEW s \in JobStates, NEW v \in Stages
  PROVE  /\ SetStage(s, v) \in JobStates
         /\ SetStage(s, v).app = s.app /\ SetStage(s, v).stage = v
         /\ SetStage(s, v).todo = s.todo /\ SetStage(s, v).ai = s.ai
         /\ SetStage(s, v).chk = s.chk
BY DEF JobStates, SetStage

LEMMA WithTodo ==
  ASSUME NEW s \in JobStates, NEW v \in Seq(Effect)
  PROVE  /\ SetTodo(s, v) \in JobStates
         /\ SetTodo(s, v).app = s.app /\ SetTodo(s, v).stage = s.stage
         /\ SetTodo(s, v).todo = v /\ SetTodo(s, v).ai = s.ai
         /\ SetTodo(s, v).chk = s.chk
BY DEF JobStates, SetTodo

LEMMA WithAi ==
  ASSUME NEW s \in JobStates, NEW v \in {"off", "run", "over"}
  PROVE  /\ SetAi(s, v) \in JobStates
         /\ SetAi(s, v).app = s.app /\ SetAi(s, v).stage = s.stage
         /\ SetAi(s, v).todo = s.todo /\ SetAi(s, v).ai = v
         /\ SetAi(s, v).chk = s.chk
BY DEF JobStates, SetAi

LEMMA NewJobState ==
  ASSUME NEW a \in Apps
  PROVE  /\ NewJob(a) \in JobStates /\ NewJob(a).app = a /\ NewJob(a).stage = "sending"
         /\ NewJob(a).todo = Effects[a] /\ NewJob(a).ai = "off"
         /\ \A c \in Checks : NewJob(a).chk[c] = "none"
<1>1. [c \in Checks |-> "none"] \in [Checks -> ChkStates] /\ "sending" \in Stages /\ Effects[a] \in Seq(Effect)
  BY Constants DEF ChkStates, Stages
<1> QED BY <1>1 DEF NewJob, JobStates

-----------------------------------------------------------------------------
(* The jobs keep their applications. *)
SameApps == JobIds' = JobIds /\ \A k \in JobIds : jobs'[k].app = jobs[k].app

LEMMA JobsStay ==
  ASSUME SameApps
  PROVE  \A a : HasJob(a) => HasJob(a)'
BY DEF SameApps, HasJob

(* A step that changes one job. *)
Puts(j, e) == jobs' = [jobs EXCEPT ![j] = e]

LEMMA PutJob ==
  ASSUME TypeInv, NEW j \in JobIds, NEW e \in JobStates, Puts(j, e), e.app = jobs[j].app
  PROVE  /\ jobs[j] \in JobStates
         /\ jobs' \in Seq(JobStates) /\ JobIds' = JobIds /\ Len(jobs') = Len(jobs) /\ jobs'[j] = e
         /\ \A k \in JobIds : k # j => jobs'[k] = jobs[k]
         /\ SameApps
         /\ e.todo = jobs[j].todo => \A k \in JobIds : jobs'[k].todo = jobs[k].todo
<1>1. jobs \in Seq(JobStates)
  BY DEF TypeInv
<1>2. /\ jobs[j] \in JobStates
      /\ jobs' \in Seq(JobStates) /\ DOMAIN jobs' = DOMAIN jobs /\ Len(jobs') = Len(jobs) /\ jobs'[j] = e
      /\ \A k \in DOMAIN jobs : k # j => jobs'[k] = jobs[k]
  BY <1>1, SeqPut, SeqFacts DEF Puts, JobIds
<1> QED BY <1>2 DEF JobIds, SameApps

LEMMA StageKept ==
  ASSUME TypeInv, StageInv, NEW j \in JobIds, NEW e \in JobStates, Puts(j, e), e.app = jobs[j].app, Fits(e)
  PROVE  StageInv'
BY PutJob DEF StageInv, Fits

LEMMA LockKept ==
  ASSUME TypeInv, LockInv, NEW j \in JobIds, NEW e \in JobStates, Puts(j, e), e.app = jobs[j].app,
         UNCHANGED <<holder, main, next>>, e.stage = "sending" <=> jobs[j].stage = "sending",
         holder = j => e.chk["diff"] = "call" /\ e.todo = jobs[j].todo
  PROVE  LockInv'
<1>1. jobs # <<>> => Len(jobs) \in JobIds
  BY SeqFacts DEF TypeInv, JobIds
<1>2. jobs # <<>> => jobs' # <<>>
  BY PutJob, SeqFacts DEF TypeInv
<1> QED BY <1>1, <1>2, PutJob DEF LockInv

LEMMA ChanKept ==
  ASSUME TypeInv, ChanInv, NEW j \in JobIds, NEW e \in JobStates, Puts(j, e), e.app = jobs[j].app,
         UNCHANGED chan, jobs[j].stage = "queued" => e.stage = "queued"
  PROVE  ChanInv'
<1>1. \A i \in DOMAIN chan : chan[i] \in JobIds
  BY SeqFacts DEF TypeInv
<1> QED BY <1>1, PutJob DEF ChanInv

(* Counting. *)
LEMMA OwingFinite ==
  ASSUME TypeInv
  PROVE  /\ IsFiniteSet(JobIds) /\ IsFiniteSet(Owing) /\ Cardinality(Owing) \in Nat
         /\ Cardinality(Owing) = 0 <=> Owing = {}
<1>1. JobIds = 1..Len(jobs) /\ Len(jobs) \in Nat
  BY SeqFacts DEF TypeInv, JobIds
<1>2. IsFiniteSet(JobIds)
  BY <1>1, FS_Interval
<1>3. IsFiniteSet(Owing)
  BY <1>2, FS_Subset DEF Owing
<1> QED BY <1>2, <1>3, FS_CardinalityType, FS_EmptySet

LEMMA NotClosed ==
  ASSUME TypeInv, CountInv, NEW j \in JobIds, jobs[j].stage # "done"
  PROVE  ~closed /\ main \in {"produce", "wait"} /\ wg > 0
<1>1. Cardinality(Owing) # 0
  BY OwingFinite DEF Owing
<1> QED BY <1>1, OwingFinite DEF CountInv, TypeInv

LEMMA CountKept ==
  ASSUME TypeInv, CountInv, NEW j \in JobIds, NEW e \in JobStates, Puts(j, e), e.app = jobs[j].app,
         UNCHANGED <<wg, main, closed, next>>, e.stage = "done" <=> jobs[j].stage = "done"
  PROVE  CountInv'
<1>1. Owing' = Owing
  BY PutJob DEF Owing
<1> QED BY <1>1 DEF CountInv

LEMMA CountDown ==
  ASSUME TypeInv, CountInv, NEW j \in JobIds, NEW e \in JobStates, Puts(j, e), e.app = jobs[j].app,
         UNCHANGED <<main, closed, next>>, wg' = wg - 1, jobs[j].stage # "done", e.stage = "done"
  PROVE  CountInv' /\ wg' \in Nat
<1>1. Owing' = Owing \ {j} /\ j \in Owing
  BY PutJob DEF Owing
<1>2. Cardinality(Owing') = Cardinality(Owing) - 1
  BY <1>1, OwingFinite, FS_RemoveElement
<1> QED BY <1>2, NotClosed DEF CountInv, TypeInv

(* What was asked for. *)
LEMMA QueuedKept ==
  ASSUME TypeInv, QueuedInv, SameApps, \A k \in JobIds : jobs'[k].todo = jobs[k].todo,
         UNCHANGED <<next, added>>,
         \A r \in results' \ results : r.job \in JobIds
           /\ (r.check = "diff" /\ r.verdict = "done" => jobs[r.job].todo = <<>>)
  PROVE  QueuedInv'
<1>1. JobIds' = JobIds /\ \A k \in JobIds : jobs'[k].app = jobs[k].app /\ jobs'[k].todo = jobs[k].todo
  BY DEF SameApps
<1>2. \A k \in JobIds : Past(jobs'[k]) = Past(jobs[k])
  BY <1>1 DEF Past
<1>3. \A i \in 1..next - 1 : HasJob(Affected[i])'
  BY JobsStay DEF QueuedInv
<1>4. \A n \in Names : added[n] # None => HasJob(added[n])'
  BY JobsStay DEF QueuedInv
<1>5. \A k \in JobIds : Remaining(jobs'[k]) /\ Asked(jobs[k])'
  <2> TAKE k \in JobIds
  <2>1. Remaining(jobs[k]) /\ Asked(jobs[k])
    BY DEF QueuedInv
  <2>2. Remaining(jobs'[k])
    BY <1>1, <1>2, <2>1 DEF Remaining
  <2>3. Asked(jobs[k])'
    BY <1>1, <1>2, <2>1, JobsStay DEF Asked
  <2> QED BY <2>2, <2>3
<1>6. \A r \in results' : r.check = "diff" /\ r.verdict = "done" => jobs'[r.job].todo = <<>>
  BY <1>1 DEF QueuedInv, TypeInv
<1> QED BY <1>1, <1>3, <1>4, <1>5, <1>6 DEF QueuedInv

(* The diff is past one more effect. *)
LEMMA QueuedAdvance ==
  ASSUME TypeInv, QueuedInv, SameApps, NEW j \in JobIds, jobs'[j].todo = Tail(jobs[j].todo),
         \A k \in JobIds : k # j => jobs'[k].todo = jobs[k].todo,
         UNCHANGED <<next, added, results>>, jobs[j].todo # <<>>,
         Head(jobs[j].todo).op = "queue" => HasJob(Head(jobs[j].todo).app)
  PROVE  QueuedInv'
<1> DEFINE s == jobs[j]
           e == jobs'[j]
<1>0. s \in JobStates /\ e.app = s.app
  BY SeqFacts DEF TypeInv, JobIds, SameApps
<1>1. /\ Len(s.todo) \in Nat /\ Len(Effects[s.app]) \in Nat /\ Len(s.todo) > 0
      /\ Head(s.todo) = s.todo[1] /\ Len(e.todo) = Len(s.todo) - 1
      /\ \A i \in 1..(Len(s.todo) - 1) : e.todo[i] = s.todo[i + 1]
  <2>1. s.todo \in Seq(Effect) /\ Effects[s.app] \in Seq(Effect)
    BY <1>0, JobParts
  <2> QED BY <2>1, SeqFacts
<1>2. Remaining(s) /\ Asked(s)
  BY DEF QueuedInv
<1>3. Past(e) = Past(s) + 1 /\ Past(s) \in Int
  <2>1. Len(Effects[e.app]) = Len(Effects[s.app])
    BY <1>0
  <2>2. Past(s) = Len(Effects[s.app]) - Len(s.todo) /\ Past(e) = Len(Effects[e.app]) - Len(e.todo)
    BY DEF Past
  <2> HIDE DEF s, e
  <2> QED BY <1>1, <2>1, <2>2
<1>4. Past(s) >= 0 /\ \A i \in 1..Len(s.todo) : s.todo[i] = Effects[s.app][Past(s) + i]
  BY <1>2 DEF Remaining
<1>5. Remaining(e)
  <2>1. ASSUME NEW i \in 1..Len(e.todo) PROVE e.todo[i] = Effects[e.app][Past(e) + i]
    <3>1. i \in 1..(Len(s.todo) - 1) /\ i + 1 \in 1..Len(s.todo) /\ Past(s) + (i + 1) = Past(e) + i
      <4>1. Len(s.todo) \in Nat /\ i \in 1..(Len(s.todo) - 1)
        BY <1>1
      <4> HIDE DEF s, e
      <4> QED BY <4>1, <1>3
    <3>2. s.todo[i + 1] = Effects[s.app][Past(s) + (i + 1)]
      BY <1>4, <3>1
    <3> QED BY <1>0, <1>1, <3>1, <3>2
  <2> QED BY <1>3, <1>4, <2>1 DEF Remaining
<1>6. ASSUME NEW i \in 1..Past(e), Effects[e.app][i].op = "queue" PROVE HasJob(Effects[e.app][i].app)
  <2>1. CASE i \in 1..Past(s)
    BY <1>0, <1>2, <1>6, <2>1 DEF Asked
  <2>2. CASE i = Past(s) + 1
    <3>1. Effects[e.app][i] = Head(s.todo)
      BY <1>0, <1>1, <1>4, <2>2
    <3> QED BY <1>6, <3>1
  <2> QED BY <1>3, <1>4, <2>1, <2>2
<1>7. \A k \in JobIds : Remaining(jobs'[k]) /\ Asked(jobs[k])'
  <2> TAKE k \in JobIds
  <2>1. CASE k = j
    <3>1. \A i \in 1..Past(e) :
            Effects[e.app][i].op = "queue" => \E m \in JobIds' : jobs'[m].app = Effects[e.app][i].app
      BY <1>6 DEF HasJob, SameApps
    <3> QED BY <1>5, <2>1, <3>1 DEF Asked, HasJob
  <2>2. CASE k # j
    <3>1. Remaining(jobs[k]) /\ Asked(jobs[k]) /\ jobs'[k].app = jobs[k].app /\ jobs'[k].todo = jobs[k].todo
      BY <2>2 DEF QueuedInv, SameApps
    <3>2. Past(jobs'[k]) = Past(jobs[k])
      BY <3>1 DEF Past
    <3>3. Remaining(jobs'[k])
      BY <3>1, <3>2 DEF Remaining
    <3> QED BY <3>1, <3>2, <3>3, JobsStay DEF Asked
  <2> QED BY <2>1, <2>2
<1>8. \A r \in results' : r.check = "diff" /\ r.verdict = "done" => jobs'[r.job].todo = <<>>
  <2> SUFFICES ASSUME NEW r \in results, r.check = "diff", r.verdict = "done" PROVE jobs'[r.job].todo = <<>>
    OBVIOUS
  <2>1. r.job \in JobIds /\ jobs[r.job].todo = <<>>
    BY DEF QueuedInv, TypeInv
  <2> QED BY <2>1
<1>9. \A i \in 1..next - 1 : HasJob(Affected[i])'
  BY JobsStay DEF QueuedInv
<1>10. \A n \in Names : added[n] # None => HasJob(added[n])'
  BY JobsStay DEF QueuedInv
<1> QED BY <1>7, <1>8, <1>9, <1>10 DEF QueuedInv, SameApps

(* Before the report nothing is promised of it. *)
LEMMA ResultsKept ==
  ASSUME TypeInv, ResultsInv, NEW j \in JobIds, NEW e \in JobStates, Puts(j, e), e.app = jobs[j].app,
         main' \in {"produce", "wait"}, results \subseteq results',
         \A c \in Checks : e.chk[c] = "over" =>
           jobs[j].chk[c] = "over" \/ \E r \in results' : r.job = j /\ r.check = c
  PROVE  ResultsInv' /\ ReportComplete'
<1>1. \A k \in JobIds, c \in Checks : jobs'[k].chk[c] = "over" => \E r \in results' : r.job = k /\ r.check = c
  BY PutJob DEF ResultsInv
<1> QED BY <1>1, PutJob DEF ResultsInv, ReportComplete

LEMMA TypeKept ==
  ASSUME TypeInv, NEW j \in JobIds, NEW e \in JobStates, Puts(j, e), e.app = jobs[j].app,
         UNCHANGED <<main, next, holder, added, closed, report, status>>,
         chan' \in Seq(JobIds), Len(chan') =< MaxQueueSize, wg' \in Nat, aiCount' \in Nat,
         deleted' \in SUBSET Names, results \subseteq results',
         results' \in SUBSET [job : JobIds, check : Checks \cup {"manifests"}, verdict : Verdicts]
  PROVE  TypeInv'
BY PutJob DEF TypeInv

-----------------------------------------------------------------------------
(* queueApp registers a job, for process or for the diff of another job. *)
LEMMA RegisterStep ==
  ASSUME WorkersInv, NEW caller \in {Main} \cup JobIds, NEW a \in Apps, holder = Free, Register(caller, a),
         UNCHANGED <<main, next, chan, closed, aiCount, results, deleted, report, status>>,
         main \in {"produce", "wait"},
         caller = Main => main = "produce" /\ next =< Len(Affected) /\ a = Affected[next],
         caller \in JobIds => jobs[caller].chk["diff"] = "call" /\ Head(jobs[caller].todo).app = a
  PROVE  WorkersInv'
<1>1. TypeInv /\ jobs \in Seq(JobStates) /\ DOMAIN jobs = 1..Len(jobs) /\ Len(jobs) \in Nat
  BY SeqFacts DEF WorkersInv, TypeInv
<1>2. /\ holder' = caller /\ added' = [added EXCEPT ![NameOf[a]] = a]
      /\ wg' = wg + 1 /\ jobs' = Append(jobs, NewJob(a))
  BY DEF Register
<1>3. /\ jobs' \in Seq(JobStates) /\ Len(jobs') = Len(jobs) + 1 /\ DOMAIN jobs' = 1..(Len(jobs) + 1)
      /\ \A k \in DOMAIN jobs : jobs'[k] = jobs[k]
      /\ jobs'[Len(jobs) + 1] = NewJob(a)
  BY <1>1, <1>2, NewJobState, SeqAppend
<1>4. /\ JobIds = 1..Len(jobs) /\ JobIds' = 1..(Len(jobs) + 1) /\ JobIds \subseteq JobIds'
      /\ JobIds' = JobIds \cup {Len(jobs) + 1} /\ Len(jobs) + 1 \notin JobIds
      /\ jobs' # <<>> /\ \A k \in JobIds : jobs'[k] = jobs[k]
  BY <1>1, <1>3, SeqFacts DEF JobIds
<1>5. \A b : (HasJob(b) \/ b = a) => HasJob(b)'
  BY <1>3, <1>4, NewJobState DEF HasJob
<1>6. TypeInv'
  <2>1. chan' \in Seq(JobIds')
    BY <1>1, <1>4, SeqWidens DEF TypeInv
  <2>2. added' \in [Names -> Apps \cup {None}]
    BY <1>1, <1>2, Constants DEF TypeInv
  <2>3. results' \in SUBSET [job : JobIds', check : Checks \cup {"manifests"}, verdict : Verdicts]
    BY <1>1, <1>4 DEF TypeInv
  <2>4. wg' \in Nat /\ holder' \in {Free, Main} \cup JobIds'
    BY <1>1, <1>2, <1>4 DEF TypeInv
  <2> QED BY <1>1, <1>3, <2>1, <2>2, <2>3, <2>4 DEF TypeInv
<1>7. StageInv'
  <2>1. Fits(NewJob(a))
    BY NewJobState, Constants DEF Fits
  <2> QED BY <1>3, <1>4, <2>1 DEF WorkersInv, StageInv, Fits
<1>8. LockInv'
  <2>1. \A j \in JobIds : jobs[j].stage # "sending"
    BY DEF WorkersInv, LockInv
  <2>2. jobs'[Len(jobs')].stage = "sending" /\ jobs'[Len(jobs')].app = a
    BY <1>3, NewJobState
  <2>3. caller # Free /\ Main \notin JobIds
    BY <1>4 DEF Free, Main
  <2>4. \A j \in JobIds' : jobs'[j].stage = "sending" => j = Len(jobs') /\ holder' # Free
    BY <1>2, <1>3, <1>4, <2>1, <2>3
  <2>5. caller \in JobIds' => caller \in JobIds
    BY <1>4 DEF Main
  <2> QED BY <1>2, <1>4, <2>2, <2>3, <2>4, <2>5 DEF LockInv
<1>9. ChanInv'
  <2>1. \A i \in DOMAIN chan : chan[i] \in JobIds
    BY <1>1, SeqFacts DEF TypeInv
  <2> QED BY <1>4, <2>1 DEF WorkersInv, ChanInv
<1>10. CountInv'
  <2>1. Owing' = Owing \cup {Len(jobs) + 1} /\ Len(jobs) + 1 \notin Owing
    BY <1>3, <1>4, NewJobState DEF Owing
  <2>2. Cardinality(Owing') = Cardinality(Owing) + 1
    BY <1>1, <2>1, OwingFinite, FS_AddElement
  <2> QED BY <1>1, <1>2, <2>2 DEF WorkersInv, CountInv
<1>11. QueuedInv'
  <2>1. \A i \in 1..next - 1 : HasJob(Affected[i])'
    BY <1>5 DEF WorkersInv, QueuedInv
  <2>2. \A n \in Names : added'[n] # None => HasJob(added[n])'
    <3> SUFFICES ASSUME NEW n \in Names, added'[n] # None
                 PROVE  \E j \in JobIds' : jobs'[j].app = added'[n]
      BY DEF HasJob
    <3>1. added'[n] = added[n] \/ added'[n] = a
      BY <1>1, <1>2 DEF TypeInv
    <3>2. \A b : (HasJob(b) \/ b = a) => \E j \in JobIds' : jobs'[j].app = b
      BY <1>5 DEF HasJob
    <3> QED BY <3>1, <3>2 DEF WorkersInv, QueuedInv
  <2>3. \A k \in JobIds : Remaining(jobs'[k]) /\ Asked(jobs[k])'
    <3> TAKE k \in JobIds
    <3>1. jobs'[k] = jobs[k] /\ Remaining(jobs[k]) /\ Asked(jobs[k])
      BY <1>4 DEF WorkersInv, QueuedInv
    <3> QED BY <1>5, <3>1 DEF Asked
  <2>4. Remaining(NewJob(a)) /\ Past(NewJob(a)) = 0
    <3>1. Effects[a] \in Seq(Effect) /\ Len(Effects[a]) \in Nat
      BY Constants, SeqFacts
    <3>2. Past(NewJob(a)) = 0
      BY <3>1, NewJobState DEF Past
    <3>3. \A i \in 1..Len(Effects[a]) : Effects[a][i] = Effects[a][0 + i]
      BY <3>1
    <3> QED BY <3>1, <3>2, <3>3, NewJobState DEF Remaining
  <2>5. ASSUME NEW k, k = Len(jobs) + 1 PROVE Remaining(jobs'[k]) /\ Asked(jobs[k])'
    <3>1. jobs'[k] = NewJob(a)
      BY <1>3, <2>5
    <3> QED BY <2>4, <3>1 DEF Asked
  <2>6. \A r \in results' : r.check = "diff" /\ r.verdict = "done" => jobs'[r.job].todo = <<>>
    BY <1>1, <1>4 DEF WorkersInv, QueuedInv, TypeInv
  <2> QED BY <1>4, <2>1, <2>2, <2>3, <2>5, <2>6 DEF QueuedInv
<1>12. ResultsInv' /\ ReportComplete'
  <2>1. \A k \in JobIds', c \in Checks : jobs'[k].chk[c] = "over" => \E r \in results' : r.job = k /\ r.check = c
    BY <1>3, <1>4, NewJobState DEF WorkersInv, ResultsInv
  <2> QED BY <2>1 DEF ResultsInv, ReportComplete
<1> QED BY <1>6, <1>7, <1>8, <1>9, <1>10, <1>11, <1>12 DEF WorkersInv

-----------------------------------------------------------------------------
(* The steps of a diff.  A job that a check of is running is not done.     *)
LEMMA Running ==
  ASSUME WorkersInv, NEW j \in JobIds, NEW c \in Checks, jobs[j].chk[c] \in {"run", "call"}
  PROVE  /\ jobs[j].stage = "checks" /\ ~closed /\ main \in {"produce", "wait"} /\ wg > 0
         /\ jobs[j] \in JobStates
<1>1. jobs[j].stage = "checks" /\ jobs[j] \in JobStates
  BY SeqFacts DEF WorkersInv, StageInv, Fits, TypeInv, JobIds
<1> QED BY <1>1, NotClosed DEF WorkersInv

LEMMA CallStep ==
  ASSUME WorkersInv, NEW j \in JobIds, CallQueueApp(j)
  PROVE  WorkersInv'
<1> DEFINE e == SetChk(jobs[j], "diff", "call")
<1>1. /\ jobs[j].chk["diff"] = "run" /\ jobs[j].todo # <<>> /\ Head(jobs[j].todo).op = "queue"
      /\ Puts(j, e)
      /\ UNCHANGED <<main, next, holder, added, chan, closed, wg, aiCount, results, deleted, report, status>>
  BY DEF CallQueueApp, DiffWants, Puts, SetChk
<1>2. jobs[j].stage = "checks" /\ main \in {"produce", "wait"} /\ jobs[j] \in JobStates /\ "diff" \in Checks
  BY <1>1, Running, Constants
<1>3. /\ e \in JobStates /\ e.app = jobs[j].app /\ e.stage = jobs[j].stage
      /\ e.todo = jobs[j].todo /\ e.ai = jobs[j].ai /\ e.chk["diff"] = "call"
      /\ \A d \in Checks : d # "diff" => e.chk[d] = jobs[j].chk[d]
  <2>1. "call" \in ChkStates
    BY DEF ChkStates
  <2> QED BY <1>2, <2>1, WithChk
<1> HIDE DEF e
<1>4. TypeInv /\ StageInv /\ LockInv /\ ChanInv /\ CountInv /\ QueuedInv /\ ResultsInv
  BY DEF WorkersInv
<1>5. TypeInv'
  BY <1>1, <1>3, <1>4, TypeKept DEF TypeInv
<1>6. Fits(e)
  BY <1>1, <1>2, <1>3, <1>4 DEF StageInv, Fits
<1>7. LockInv'
  BY <1>1, <1>3, <1>4, LockKept
<1>8. ChanInv' /\ CountInv' /\ StageInv' /\ QueuedInv'
  BY <1>1, <1>2, <1>3, <1>4, <1>6, PutJob, ChanKept, CountKept, StageKept, QueuedKept
<1>9. ResultsInv' /\ ReportComplete'
  <2>1. \A c \in Checks : e.chk[c] = "over" => jobs[j].chk[c] = "over"
    BY <1>3
  <2> QED BY <1>1, <1>2, <1>3, <1>4, <2>1, ResultsKept
<1> QED BY <1>5, <1>7, <1>8, <1>9 DEF WorkersInv

(* queueApp for a child: already queued in this version, or registered.    *)
LEMMA QueueChildStep ==
  ASSUME WorkersInv, NEW j \in JobIds, QueueChild(j)
  PROVE  WorkersInv'
<1> DEFINE a == Head(jobs[j].todo).app
<1>1. /\ jobs[j].chk["diff"] = "call" /\ holder = Free
      /\ UNCHANGED <<main, next, chan, closed, aiCount, results, deleted, report, status>>
  BY DEF QueueChild
<1>2. /\ jobs[j].stage = "checks" /\ main \in {"produce", "wait"} /\ jobs[j] \in JobStates /\ "diff" \in Checks
  BY <1>1, Running, Constants
<1>3. TypeInv /\ StageInv /\ LockInv /\ ChanInv /\ CountInv /\ QueuedInv /\ ResultsInv
  BY DEF WorkersInv
<1>4. jobs[j].todo # <<>> /\ Head(jobs[j].todo).op = "queue"
  BY <1>1, <1>3 DEF StageInv, Fits
<1>5. a \in Apps /\ Tail(jobs[j].todo) \in Seq(Effect)
  <2>1. jobs[j].todo \in Seq(Effect)
    BY <1>2, JobParts
  <2>2. Head(jobs[j].todo) \in Effect
    BY <1>4, <2>1, SeqFacts
  <2> QED BY <1>4, <2>1, <2>2, SeqFacts DEF Effect
<1>6. CASE ~Duplicate(a)
  <2>1. Register(j, a)
    BY <1>6 DEF QueueChild
  <2>2. j # Main
    BY <1>3, SeqFacts DEF TypeInv, JobIds, Main
  <2> HIDE DEF a
  <2>3. Head(jobs[j].todo).app = a
    BY DEF a
  <2> QED BY <1>1, <1>2, <1>5, <2>1, <2>2, <2>3, RegisterStep
<1>7. CASE Duplicate(a)
  <2> DEFINE e1 == SetChk(jobs[j], "diff", "run")
             e == SetTodo(e1, Tail(jobs[j].todo))
  <2>1. jobs' = [jobs EXCEPT ![j].chk["diff"] = "run", ![j].todo = Tail(@)] /\ UNCHANGED <<holder, added, wg>>
    BY <1>7 DEF QueueChild
  <2>2. /\ e1 \in JobStates /\ e1.app = jobs[j].app /\ e1.stage = jobs[j].stage
        /\ e1.todo = jobs[j].todo /\ e1.ai = jobs[j].ai /\ e1.chk["diff"] = "run"
        /\ \A d \in Checks : d # "diff" => e1.chk[d] = jobs[j].chk[d]
    <3>1. "run" \in ChkStates
      BY DEF ChkStates
    <3> QED BY <1>2, <3>1, WithChk
  <2>3. Puts(j, e)
    BY <2>1, <1>2, <1>3 DEF Puts, SetChk, SetTodo
  <2> HIDE DEF e1
  <2>4. /\ e \in JobStates /\ e.app = jobs[j].app /\ e.stage = jobs[j].stage
        /\ e.todo = Tail(jobs[j].todo) /\ e.ai = jobs[j].ai /\ e.chk["diff"] = "run"
        /\ \A d \in Checks : d # "diff" => e.chk[d] = jobs[j].chk[d]
    <3>1. /\ e \in JobStates /\ e.app = e1.app /\ e.stage = e1.stage
          /\ e.todo = Tail(jobs[j].todo) /\ e.ai = e1.ai /\ e.chk = e1.chk
      BY <1>5, <2>2, WithTodo
    <3> QED BY <2>2, <3>1
  <2> HIDE DEF e
  <2>5. TypeInv'
    BY <1>1, <1>3, <2>1, <2>3, <2>4, TypeKept DEF TypeInv
  <2>6. Fits(e)
    BY <1>2, <1>3, <2>4 DEF StageInv, Fits
  <2>7. holder # j
    BY <1>1, <1>3, SeqFacts DEF TypeInv, JobIds, Free
  <2>8. LockInv' /\ ChanInv' /\ CountInv' /\ StageInv'
    BY <1>1, <1>2, <1>3, <2>1, <2>3, <2>4, <2>6, <2>7, LockKept, ChanKept, CountKept, StageKept
  <2>9. QueuedInv'
    <3>1. added[NameOf[a]] = a /\ NameOf[a] \in Names /\ a # None
      BY <1>5, <1>7, Constants DEF Duplicate
    <3>2. HasJob(a)
      BY <1>3, <3>1 DEF QueuedInv
    <3>3. /\ jobs'[j].todo = Tail(jobs[j].todo) /\ SameApps
          /\ \A k \in JobIds : k # j => jobs'[k].todo = jobs[k].todo
      BY <1>3, <2>3, <2>4, PutJob
    <3>4. UNCHANGED <<next, added, results>>
      BY <1>1, <2>1
    <3> QED BY <1>3, <1>4, <3>2, <3>3, <3>4, QueuedAdvance
  <2>10. ResultsInv' /\ ReportComplete'
    <3>1. \A c \in Checks : e.chk[c] = "over" => jobs[j].chk[c] = "over"
      BY <2>4
    <3> QED BY <1>1, <1>2, <1>3, <2>3, <2>4, <3>1, ResultsKept
  <2> QED BY <2>5, <2>8, <2>9, <2>10 DEF WorkersInv
<1> QED BY <1>6, <1>7

(* process and the lock. *)
LEMMA QueueAffectedStep ==
  ASSUME WorkersInv, QueueAffected
  PROVE  WorkersInv'
<1> DEFINE a == Affected[next]
<1>1. /\ main = "produce" /\ next =< Len(Affected) /\ holder = Free
      /\ UNCHANGED <<main, chan, closed, aiCount, results, deleted, report, status>>
  BY DEF QueueAffected
<1>2. TypeInv /\ StageInv /\ LockInv /\ ChanInv /\ CountInv /\ QueuedInv /\ ResultsInv
  BY DEF WorkersInv
<1>3. next \in 1..Len(Affected) /\ a \in Apps
  <2>1. next \in 1..Len(Affected)
    BY <1>1, <1>2, Constants, SeqFacts DEF TypeInv
  <2> QED BY <2>1, Constants, SeqFacts
<1>4. CASE ~Duplicate(a)
  <2>1. Register(Main, a) /\ UNCHANGED next
    BY <1>4 DEF QueueAffected
  <2>2. Main \notin JobIds
    BY <1>2, SeqFacts DEF TypeInv, JobIds, Main
  <2> HIDE DEF a
  <2>3. a = Affected[next]
    BY DEF a
  <2> QED BY <1>1, <1>3, <2>1, <2>2, <2>3, RegisterStep
<1>5. CASE Duplicate(a)
  <2>1. next' = next + 1 /\ UNCHANGED <<holder, added, wg, jobs>>
    BY <1>5 DEF QueueAffected
  <2>2. HasJob(a)
    <3>1. added[NameOf[a]] = a /\ NameOf[a] \in Names /\ a # None
      BY <1>3, <1>5, Constants DEF Duplicate
    <3> QED BY <1>2, <3>1 DEF QueuedInv
  <2>3. next' \in 1..Len(Affected) + 1 /\ \A i \in 1..next' - 1 : i \in 1..next - 1 \/ i = next
    BY <1>3, <2>1, Constants, SeqFacts
  <2>4. TypeInv'
    BY <1>1, <1>2, <2>1, <2>3 DEF TypeInv, JobIds
  <2>5. StageInv' /\ LockInv' /\ ChanInv'
    BY <1>1, <1>2, <2>1 DEF StageInv, LockInv, ChanInv, Free, Main, JobIds
  <2>6. CountInv'
    BY <1>1, <1>2, <2>1 DEF CountInv, Owing, JobIds
  <2>7. QueuedInv'
    <3>1. \A i \in 1..next' - 1 : HasJob(Affected[i])
      BY <1>2, <2>2, <2>3 DEF QueuedInv
    <3>2. \A b : HasJob(b) <=> \E k \in JobIds' : jobs'[k].app = b
      BY <2>1 DEF HasJob, JobIds
    <3>3. \A i \in 1..next' - 1 : \E k \in JobIds' : jobs'[k].app = Affected[i]
      BY <3>1, <3>2
    <3> QED BY <1>1, <1>2, <2>1, <3>3 DEF QueuedInv, HasJob, Asked, JobIds
  <2>8. ResultsInv' /\ ReportComplete'
    BY <1>1, <1>2, <2>1 DEF ResultsInv, ReportComplete, JobIds
  <2> QED BY <2>4, <2>5, <2>6, <2>7, <2>8 DEF WorkersInv
<1> QED BY <1>4, <1>5

(* The channel takes the job being sent, which nothing in it is. *)
LEMMA ChanPut ==
  ASSUME WorkersInv, SendRegistered, jobs # <<>>, jobs[Len(jobs)].stage = "sending",
         DOMAIN jobs' = DOMAIN jobs, jobs'[Len(jobs)].stage = "queued",
         \A k \in JobIds : jobs[k].stage = "queued" => jobs'[k].stage = "queued"
  PROVE  ChanInv' /\ chan' \in Seq(JobIds) /\ Len(chan') =< MaxQueueSize
<1>1. chan \in Seq(JobIds) /\ Len(jobs) \in JobIds
  BY SeqFacts DEF WorkersInv, TypeInv, JobIds
<1>2. chan' = Append(chan, Len(jobs)) /\ Len(chan) < MaxQueueSize
  BY DEF SendRegistered, HasRoom
<1>3. /\ chan' \in Seq(JobIds) /\ Len(chan') = Len(chan) + 1 /\ Len(chan) \in Nat
      /\ DOMAIN chan = 1..Len(chan) /\ DOMAIN chan' = 1..(Len(chan) + 1)
      /\ \A i \in DOMAIN chan : chan[i] \in JobIds /\ chan'[i] = chan[i]
      /\ chan'[Len(chan) + 1] = Len(jobs)
  BY <1>1, <1>2, SeqAppend, SeqFacts
<1>4. \A i \in DOMAIN chan : chan[i] # Len(jobs)
  BY DEF WorkersInv, ChanInv
<1>5. \A i \in DOMAIN chan' : i \in DOMAIN chan \/ i = Len(chan) + 1
  BY <1>3
<1>6. \A i \in DOMAIN chan' : jobs'[chan'[i]].stage = "queued"
  BY <1>3, <1>5 DEF WorkersInv, ChanInv
<1>7. \A i, k \in DOMAIN chan' : chan'[i] = chan'[k] => i = k
  BY <1>3, <1>4, <1>5 DEF WorkersInv, ChanInv
<1>8. Len(chan') =< MaxQueueSize
  BY <1>2, <1>3, Constants
<1> QED BY <1>3, <1>6, <1>7, <1>8 DEF ChanInv

LEMMA SendAffectedStep ==
  ASSUME WorkersInv, SendAffected
  PROVE  WorkersInv'
<1> DEFINE k == Len(jobs)
           e == SetStage(jobs[k], "queued")
<1>1. /\ holder = Main /\ SendRegistered /\ Puts(k, e) /\ next' = next + 1 /\ holder' = Free
      /\ UNCHANGED <<main, added, closed, wg, aiCount, results, deleted, report, status>>
  BY DEF SendAffected, SendRegistered, Puts, SetStage
<1>2. TypeInv /\ StageInv /\ LockInv /\ ChanInv /\ CountInv /\ QueuedInv /\ ResultsInv
  BY DEF WorkersInv
<1>3. /\ jobs # <<>> /\ jobs[k].stage = "sending" /\ main = "produce"
      /\ next =< Len(Affected) /\ jobs[k].app = Affected[next]
  BY <1>1, <1>2 DEF LockInv, Main, Free
<1>4. k \in JobIds /\ jobs[k] \in JobStates
  BY <1>2, <1>3, SeqFacts DEF TypeInv, JobIds
<1>5. /\ e \in JobStates /\ e.app = jobs[k].app /\ e.stage = "queued" /\ e.todo = jobs[k].todo
      /\ e.ai = jobs[k].ai /\ e.chk = jobs[k].chk
  <2>1. "queued" \in Stages
    BY DEF Stages
  <2> QED BY <1>4, <2>1, WithStage
<1> HIDE DEF e
<1>6. /\ jobs' \in Seq(JobStates) /\ JobIds' = JobIds /\ jobs'[k] = e
      /\ \A i \in JobIds : i # k => jobs'[i] = jobs[i]
      /\ \A i \in JobIds : jobs'[i].todo = jobs[i].todo
      /\ SameApps
  BY <1>1, <1>2, <1>4, <1>5, PutJob
<1>7. ChanInv' /\ chan' \in Seq(JobIds) /\ Len(chan') =< MaxQueueSize
  BY <1>1, <1>3, <1>4, <1>5, <1>6, ChanPut DEF JobIds
<1>8. next \in 1..Len(Affected) /\ next' \in 1..Len(Affected) + 1 /\ \A i \in 1..next' - 1 : i \in 1..next - 1 \/ i = next
  <2>1. Len(Affected) \in Nat
    BY Constants, SeqFacts
  <2> QED BY <1>1, <1>2, <1>3, <2>1 DEF TypeInv
<1>9. TypeInv'
  BY <1>1, <1>2, <1>6, <1>7, <1>8 DEF TypeInv
<1>10. StageInv'
  <2>1. Fits(e)
    BY <1>2, <1>3, <1>4, <1>5 DEF StageInv, Fits
  <2> QED BY <1>1, <1>2, <1>4, <1>5, <2>1, StageKept
<1>11. LockInv'
  BY <1>1, <1>2, <1>5, <1>6 DEF LockInv, Free, Main, TypeInv, JobIds
<1>12. CountInv'
  <2>1. Owing' = Owing
    BY <1>3, <1>5, <1>6 DEF Owing
  <2> QED BY <1>1, <1>2, <1>3, <2>1 DEF CountInv
<1>13. QueuedInv'
  <2>1. \A i \in 1..next' - 1 : HasJob(Affected[i])'
    <3>1. HasJob(Affected[next])
      BY <1>3, <1>4 DEF HasJob
    <3>2. \A i \in 1..next' - 1 : HasJob(Affected[i])
      BY <1>2, <1>8, <3>1 DEF QueuedInv
    <3> QED BY <1>6, <3>2, JobsStay
  <2>2. \A n \in Names : added[n] # None => HasJob(added[n])'
    BY <1>1, <1>2, <1>6, JobsStay DEF QueuedInv
  <2>3. \A i \in JobIds : Remaining(jobs'[i]) /\ Asked(jobs[i])'
    <3> TAKE i \in JobIds
    <3>1. Remaining(jobs[i]) /\ Asked(jobs[i])
      BY <1>2 DEF QueuedInv
    <3>2. jobs'[i].app = jobs[i].app /\ jobs'[i].todo = jobs[i].todo
      BY <1>6 DEF SameApps
    <3>3. Past(jobs'[i]) = Past(jobs[i])
      BY <3>2 DEF Past
    <3>4. Remaining(jobs'[i])
      BY <3>1, <3>2, <3>3 DEF Remaining
    <3>5. Asked(jobs[i])'
      BY <1>6, JobsStay, <3>1, <3>2, <3>3 DEF Asked
    <3> QED BY <3>4, <3>5
  <2>4. \A r \in results' : r.check = "diff" /\ r.verdict = "done" => jobs'[r.job].todo = <<>>
    BY <1>1, <1>2, <1>5, <1>6 DEF QueuedInv, TypeInv
  <2> QED BY <1>1, <1>6, <2>1, <2>2, <2>3, <2>4 DEF QueuedInv
<1>14. ResultsInv' /\ ReportComplete'
  BY <1>1, <1>2, <1>3, <1>4, <1>5, ResultsKept
<1> QED BY <1>7, <1>9, <1>10, <1>11, <1>12, <1>13, <1>14 DEF WorkersInv

(* The send of a child: the child is queued and its parent goes on. *)
LEMMA SendChildStep ==
  ASSUME WorkersInv, NEW j \in JobIds, SendChild(j)
  PROVE  WorkersInv'
<1> DEFINE k == Len(jobs)
           q == SetStage(jobs[k], "queued")
           e1 == SetChk(jobs[j], "diff", "run")
           e == SetTodo(e1, Tail(jobs[j].todo))
<1>1. /\ holder = j /\ SendRegistered /\ holder' = Free
      /\ jobs' = [jobs EXCEPT ![k].stage = "queued", ![j].chk["diff"] = "run", ![j].todo = Tail(@)]
      /\ UNCHANGED <<main, next, added, closed, wg, aiCount, results, deleted, report, status>>
  BY DEF SendChild, SendRegistered
<1>2. TypeInv /\ StageInv /\ LockInv /\ ChanInv /\ CountInv /\ QueuedInv /\ ResultsInv
  BY DEF WorkersInv
<1>3. j # Main /\ j # Free
  BY <1>2, SeqFacts DEF TypeInv, JobIds, Main, Free
<1>4. /\ jobs # <<>> /\ jobs[k].stage = "sending" /\ jobs[j].chk["diff"] = "call"
      /\ jobs[k].app = Head(jobs[j].todo).app
  BY <1>1, <1>2, <1>3 DEF LockInv
<1>5. /\ k \in JobIds /\ jobs[k] \in JobStates /\ jobs[j] \in JobStates /\ jobs \in Seq(JobStates)
      /\ "diff" \in Checks /\ JobIds = DOMAIN jobs
  BY <1>2, <1>4, SeqFacts, Constants DEF TypeInv, JobIds
<1>6. jobs[j].stage = "checks" /\ main \in {"produce", "wait"} /\ k # j
  BY <1>4, <1>5, Running
<1>7. jobs[j].todo # <<>> /\ Head(jobs[j].todo).op = "queue"
  BY <1>2, <1>4 DEF StageInv, Fits
<1>8. /\ q \in JobStates /\ q.app = jobs[k].app /\ q.stage = "queued" /\ q.todo = jobs[k].todo
      /\ q.ai = jobs[k].ai /\ q.chk = jobs[k].chk
  <2>1. "queued" \in Stages
    BY DEF Stages
  <2> QED BY <1>5, <2>1, WithStage
<1>9. /\ e1 \in JobStates /\ e1.app = jobs[j].app /\ e1.stage = jobs[j].stage
      /\ e1.todo = jobs[j].todo /\ e1.ai = jobs[j].ai /\ e1.chk["diff"] = "run"
      /\ \A d \in Checks : d # "diff" => e1.chk[d] = jobs[j].chk[d]
  <2>1. "run" \in ChkStates
    BY DEF ChkStates
  <2> QED BY <1>5, <2>1, WithChk
<1>10. jobs' = [[jobs EXCEPT ![k] = q] EXCEPT ![j] = e]
  <2>1. jobs' = [[jobs EXCEPT ![k].stage = "queued"] EXCEPT ![j].chk["diff"] = "run", ![j].todo = Tail(@)]
    BY <1>1
  <2> QED BY <2>1, <1>5, <1>6 DEF SetStage, SetChk, SetTodo
<1> HIDE DEF q, e1
<1>11. /\ e \in JobStates /\ e.app = jobs[j].app /\ e.stage = jobs[j].stage
       /\ e.todo = Tail(jobs[j].todo) /\ e.ai = jobs[j].ai /\ e.chk["diff"] = "run"
       /\ \A d \in Checks : d # "diff" => e.chk[d] = jobs[j].chk[d]
  <2>1. jobs[j].todo \in Seq(Effect)
    BY <1>5, JobParts
  <2>2. Tail(jobs[j].todo) \in Seq(Effect)
    BY <1>7, <2>1, SeqFacts
  <2>3. /\ e \in JobStates /\ e.app = e1.app /\ e.stage = e1.stage
        /\ e.todo = Tail(jobs[j].todo) /\ e.ai = e1.ai /\ e.chk = e1.chk
    BY <1>9, <2>2, WithTodo
  <2> QED BY <1>9, <2>3
<1> HIDE DEF e
<1>12. /\ jobs' \in Seq(JobStates) /\ JobIds' = JobIds /\ Len(jobs') = k /\ jobs'[k] = q /\ jobs'[j] = e
       /\ \A i \in JobIds : i # k /\ i # j => jobs'[i] = jobs[i]
  <2> DEFINE m == [jobs EXCEPT ![k] = q]
  <2>1. /\ m \in Seq(JobStates) /\ Len(m) = k /\ DOMAIN m = DOMAIN jobs /\ m[k] = q
        /\ \A i \in DOMAIN jobs : i # k => m[i] = jobs[i]
    BY <1>5, <1>8, SeqPut
  <2> HIDE DEF m
  <2>2. jobs' = [m EXCEPT ![j] = e]
    BY <1>10 DEF m
  <2>3. /\ jobs' \in Seq(JobStates) /\ Len(jobs') = Len(m) /\ DOMAIN jobs' = DOMAIN m /\ jobs'[j] = e
        /\ \A i \in DOMAIN m : i # j => jobs'[i] = m[i]
    BY <1>5, <1>11, <2>1, <2>2, SeqPut
  <2> QED BY <1>5, <1>6, <2>1, <2>3 DEF JobIds
<1>13. SameApps
  BY <1>8, <1>11, <1>12 DEF SameApps
<1>14. ChanInv' /\ chan' \in Seq(JobIds) /\ Len(chan') =< MaxQueueSize
  BY <1>1, <1>4, <1>6, <1>8, <1>12, ChanPut DEF JobIds
<1>15. TypeInv'
  BY <1>1, <1>2, <1>12, <1>14 DEF TypeInv
<1>16. StageInv'
  <2>1. Fits(q)
    BY <1>2, <1>4, <1>5, <1>8 DEF StageInv, Fits
  <2>2. Fits(e)
    BY <1>2, <1>6, <1>11 DEF StageInv, Fits
  <2>3. \A i \in JobIds : Fits(jobs'[i])
    BY <1>2, <1>12, <2>1, <2>2 DEF StageInv
  <2> QED BY <1>12, <2>3 DEF StageInv
<1>17. LockInv'
  <2>1. \A i \in JobIds : jobs'[i].stage # "sending"
    BY <1>2, <1>6, <1>8, <1>11, <1>12 DEF LockInv
  <2>2. holder' = Free /\ Free # Main /\ Free \notin JobIds'
    BY <1>1, <1>5, <1>12, SeqFacts DEF Free, Main, JobIds
  <2> QED BY <1>12, <2>1, <2>2 DEF LockInv
<1>18. CountInv'
  <2>1. Owing' = Owing
    BY <1>4, <1>6, <1>8, <1>11, <1>12 DEF Owing
  <2> QED BY <1>1, <1>2, <2>1 DEF CountInv
<1>19. QueuedInv'
  <2>1. jobs'[j].todo = Tail(jobs[j].todo) /\ \A i \in JobIds : i # j => jobs'[i].todo = jobs[i].todo
    BY <1>8, <1>11, <1>12
  <2>2. HasJob(Head(jobs[j].todo).app)
    BY <1>4, <1>5 DEF HasJob
  <2> QED BY <1>1, <1>2, <1>7, <1>13, <2>1, <2>2, QueuedAdvance
<1>20. ResultsInv' /\ ReportComplete'
  <2>1. \A i \in JobIds, c \in Checks : jobs'[i].chk[c] = "over" => jobs[i].chk[c] = "over"
    BY <1>8, <1>11, <1>12
  <2>2. \A i \in JobIds', c \in Checks :
          jobs'[i].chk[c] = "over" => \E r \in results' : r.job = i /\ r.check = c
    <3>1. JobIds' = JobIds /\ results' = results
      BY <1>1, <1>12
    <3> QED BY <1>2, <2>1, <3>1 DEF ResultsInv
  <2> QED BY <1>1, <1>6, <2>2 DEF ResultsInv, ReportComplete
<1> QED BY <1>14, <1>15, <1>16, <1>17, <1>18, <1>19, <1>20 DEF WorkersInv

LEMMA RemoveChildStep ==
  ASSUME WorkersInv, NEW j \in JobIds, RemoveChild(j)
  PROVE  WorkersInv'
<1> DEFINE e == SetTodo(jobs[j], Tail(jobs[j].todo))
           n == NameOf[Head(jobs[j].todo).app]
<1>1. /\ jobs[j].chk["diff"] = "run" /\ jobs[j].todo # <<>> /\ Head(jobs[j].todo).op = "remove"
      /\ deleted' = MarkDeleted(n)
      /\ jobs' = [jobs EXCEPT ![j].todo = Tail(@)]
      /\ UNCHANGED <<main, next, holder, added, chan, closed, wg, aiCount, results, report, status>>
  BY DEF RemoveChild, DiffWants
<1>2. jobs[j].stage = "checks" /\ main \in {"produce", "wait"} /\ jobs[j] \in JobStates /\ "diff" \in Checks
  BY <1>1, Constants, Running
<1>3. TypeInv /\ StageInv /\ LockInv /\ ChanInv /\ CountInv /\ QueuedInv /\ ResultsInv
  BY DEF WorkersInv
<1>4. Tail(jobs[j].todo) \in Seq(Effect) /\ n \in Names
  <2>1. jobs[j].todo \in Seq(Effect)
    BY <1>2, JobParts
  <2>2. Head(jobs[j].todo) \in Effect /\ Tail(jobs[j].todo) \in Seq(Effect)
    BY <1>1, <2>1, SeqFacts
  <2> QED BY <2>2, Constants DEF Effect
<1>5. deleted' \in SUBSET Names
  BY <1>1, <1>3, <1>4 DEF MarkDeleted, TypeInv
<1>6. Puts(j, e)
  BY <1>1, <1>3 DEF Puts, SetTodo
<1>7. /\ e \in JobStates /\ e.app = jobs[j].app /\ e.stage = jobs[j].stage
      /\ e.todo = Tail(jobs[j].todo) /\ e.ai = jobs[j].ai /\ e.chk = jobs[j].chk
  BY <1>2, <1>4, WithTodo
<1> HIDE DEF e, n
<1>8. TypeInv'
  BY <1>1, <1>3, <1>5, <1>6, <1>7, TypeKept DEF TypeInv
<1>9. Fits(e)
  BY <1>1, <1>3, <1>7 DEF StageInv, Fits
<1>10. holder # j
  BY <1>1, <1>3 DEF LockInv
<1>11. LockInv' /\ ChanInv' /\ CountInv' /\ StageInv'
  BY <1>1, <1>2, <1>3, <1>6, <1>7, <1>9, <1>10, LockKept, ChanKept, CountKept, StageKept
<1>12. QueuedInv'
  <2>1. /\ SameApps /\ jobs'[j].todo = Tail(jobs[j].todo)
        /\ \A k \in JobIds : k # j => jobs'[k].todo = jobs[k].todo
    BY <1>3, <1>6, <1>7, PutJob
  <2> QED BY <1>1, <1>3, <2>1, QueuedAdvance
<1>13. ResultsInv' /\ ReportComplete'
  BY <1>1, <1>2, <1>3, <1>6, <1>7, ResultsKept
<1> QED BY <1>8, <1>11, <1>12, <1>13 DEF WorkersInv

-----------------------------------------------------------------------------
(* The steps of a job in the hands of a worker that leave its list, the    *)
(* lock and the channel alone.                                             *)
LEMMA JobStep ==
  ASSUME WorkersInv, NEW j \in JobIds, NEW e \in JobStates, Puts(j, e),
         e.app = jobs[j].app, e.todo = jobs[j].todo, Fits(e),
         UNCHANGED <<main, next, holder, added, chan, closed, report, status>>,
         jobs[j].stage \in {"start", "manifests", "checks"}, e.stage \in {"manifests", "checks", "done"},
         jobs[j].chk["diff"] = "call" => e.chk["diff"] = "call",
         wg' = IF e.stage = "done" THEN wg - 1 ELSE wg,
         aiCount' \in Nat, deleted' \in SUBSET Names, results \subseteq results',
         results' \in SUBSET [job : JobIds, check : Checks \cup {"manifests"}, verdict : Verdicts],
         \A r \in results' \ results : r.check = "diff" /\ r.verdict = "done" => jobs[r.job].todo = <<>>,
         \A c \in Checks : e.chk[c] = "over" =>
           jobs[j].chk[c] = "over" \/ \E r \in results' : r.job = j /\ r.check = c
  PROVE  WorkersInv'
<1>1. TypeInv /\ StageInv /\ LockInv /\ ChanInv /\ CountInv /\ QueuedInv /\ ResultsInv
  BY DEF WorkersInv
<1>2. main \in {"produce", "wait"}
  BY <1>1, NotClosed
<1>3. CountInv' /\ wg' \in Nat
  <2>1. CASE e.stage = "done"
    BY <1>1, <2>1, CountDown
  <2>2. CASE e.stage # "done"
    <3>1. CountInv'
      BY <1>1, <2>2, CountKept
    <3> QED BY <1>1, <2>2, <3>1 DEF TypeInv
  <2> QED BY <2>1, <2>2
<1>4. TypeInv'
  BY <1>1, <1>3, TypeKept DEF TypeInv
<1>5. LockInv' /\ ChanInv' /\ StageInv'
  <2>1. holder = j => e.chk["diff"] = "call"
    BY <1>1 DEF LockInv
  <2> QED BY <1>1, <2>1, LockKept, ChanKept, StageKept
<1>6. QueuedInv'
  <2>1. SameApps /\ \A k \in JobIds : jobs'[k].todo = jobs[k].todo
    BY <1>1, PutJob
  <2>2. \A r \in results' \ results : r.job \in JobIds
    OBVIOUS
  <2> QED BY <1>1, <2>1, <2>2, QueuedKept
<1>7. ResultsInv' /\ ReportComplete'
  BY <1>1, <1>2, ResultsKept
<1> QED BY <1>3, <1>4, <1>5, <1>6, <1>7 DEF WorkersInv

LEMMA JobFacts ==
  ASSUME WorkersInv, NEW j \in JobIds
  PROVE  jobs[j] \in JobStates /\ Fits(jobs[j]) /\ Name(j) \in Names
<1>1. jobs[j] \in JobStates
  BY SeqFacts DEF WorkersInv, TypeInv, JobIds
<1> QED BY <1>1, JobParts, Constants DEF WorkersInv, StageInv, Name

LEMMA ResultAdded ==
  ASSUME WorkersInv, NEW j \in JobIds, NEW c \in Checks \cup {"manifests"}, NEW v \in Verdicts,
         AddToAppMessage(j, c, v)
  PROVE  /\ deleted' \in SUBSET Names /\ results \subseteq results'
         /\ results' \in SUBSET [job : JobIds, check : Checks \cup {"manifests"}, verdict : Verdicts]
         /\ \A r \in results' \ results : r.job = j /\ r.check = c /\ r.verdict = v
         /\ \E r \in results' : r.job = j /\ r.check = c
<1>1. results \in SUBSET [job : JobIds, check : Checks \cup {"manifests"}, verdict : Verdicts] /\ deleted \in SUBSET Names
  BY DEF WorkersInv, TypeInv
<1> DEFINE r == [job |-> j, check |-> c, verdict |-> v]
<1>2. results' = results \cup {r} /\ deleted' = deleted \ {Name(j)}
  BY DEF AddToAppMessage
<1>3. r \in [job : JobIds, check : Checks \cup {"manifests"}, verdict : Verdicts] /\ r.job = j /\ r.check = c /\ r.verdict = v
  OBVIOUS
<1> HIDE DEF r
<1> QED BY <1>1, <1>2, <1>3

LEMMA AddNewAppStep ==
  ASSUME WorkersInv, NEW j \in JobIds, AddNewApp(j)
  PROVE  WorkersInv'
<1> DEFINE e == SetStage(jobs[j], "manifests")
<1>1. /\ jobs[j].stage = "start" /\ deleted' = deleted \ {Name(j)} /\ Puts(j, e)
      /\ UNCHANGED <<main, next, holder, added, chan, closed, wg, aiCount, results, report, status>>
  BY DEF AddNewApp, Puts, SetStage
<1>2. jobs[j] \in JobStates /\ Fits(jobs[j]) /\ "manifests" \in Stages /\ "diff" \in Checks
  BY JobFacts, Constants DEF Stages
<1>3. /\ e \in JobStates /\ e.app = jobs[j].app /\ e.stage = "manifests"
      /\ e.todo = jobs[j].todo /\ e.ai = jobs[j].ai /\ e.chk = jobs[j].chk
  BY <1>2, WithStage
<1> HIDE DEF e
<1>4. Fits(e)
  BY <1>1, <1>2, <1>3 DEF Fits
<1>5. deleted' \in SUBSET Names /\ results' = results /\ aiCount' \in Nat
      /\ results' \in SUBSET [job : JobIds, check : Checks \cup {"manifests"}, verdict : Verdicts]
  BY <1>1 DEF WorkersInv, TypeInv
<1> QED BY <1>1, <1>3, <1>4, <1>5, JobStep

LEMMA NoManifestsStep ==
  ASSUME WorkersInv, NEW j \in JobIds, NoManifests(j)
  PROVE  WorkersInv'
<1> DEFINE e == SetStage(jobs[j], "done")
<1>1. /\ jobs[j].stage = "manifests" /\ wg' = wg - 1 /\ Puts(j, e)
      /\ UNCHANGED <<main, next, holder, added, chan, closed, aiCount, report, status>>
  BY DEF NoManifests, Puts, SetStage
<1>2. PICK v \in Verdicts : AddToAppMessage(j, "manifests", v)
  BY DEF NoManifests, Verdicts
<1>3. jobs[j] \in JobStates /\ Fits(jobs[j]) /\ "done" \in Stages /\ "diff" \in Checks
  BY JobFacts, Constants DEF Stages
<1>4. /\ e \in JobStates /\ e.app = jobs[j].app /\ e.stage = "done"
      /\ e.todo = jobs[j].todo /\ e.ai = jobs[j].ai /\ e.chk = jobs[j].chk
  BY <1>3, WithStage
<1> HIDE DEF e
<1>5. Fits(e)
  BY <1>1, <1>3, <1>4 DEF Fits
<1>6. /\ deleted' \in SUBSET Names /\ results \subseteq results' /\ aiCount' \in Nat
      /\ results' \in SUBSET [job : JobIds, check : Checks \cup {"manifests"}, verdict : Verdicts]
      /\ \A r \in results' \ results : r.check = "manifests"
  <2>1. "manifests" \in Checks \cup {"manifests"}
    OBVIOUS
  <2>2. aiCount' \in Nat
    BY <1>1 DEF WorkersInv, TypeInv
  <2>3. /\ deleted' \in SUBSET Names /\ results \subseteq results'
        /\ results' \in SUBSET [job : JobIds, check : Checks \cup {"manifests"}, verdict : Verdicts]
        /\ \A r \in results' \ results : r.job = j /\ r.check = "manifests" /\ r.verdict = v
    BY <1>2, <2>1, ResultAdded
  <2> QED BY <2>2, <2>3
<1> QED BY <1>1, <1>4, <1>5, <1>6, JobStep

LEMMA StartChecksStep ==
  ASSUME WorkersInv, NEW j \in JobIds, StartChecks(j)
  PROVE  WorkersInv'
<1> DEFINE running == [c \in Checks |-> "run"]
           E(v) == [jobs[j] EXCEPT !.stage = "checks", !.chk = running, !.ai = v]
<1>1. /\ jobs[j].stage = "manifests"
      /\ UNCHANGED <<main, next, holder, added, chan, closed, wg, results, deleted, report, status>>
  BY DEF StartChecks
<1>2. PICK changed \in BOOLEAN :
        LET claims == changed /\ AIReviewMax > 0 IN
        /\ aiCount' = IF claims THEN aiCount + 1 ELSE aiCount
        /\ jobs' = [jobs EXCEPT ![j].stage = "checks", ![j].chk = running,
                                ![j].ai = IF claims /\ SlotLeft THEN "run" ELSE "off"]
  BY DEF StartChecks
<1>3. PICK v \in {"run", "off"} : Puts(j, E(v))
  <2>1. CASE (changed /\ AIReviewMax > 0) /\ SlotLeft
    BY <1>2, <2>1 DEF Puts
  <2>2. CASE ~((changed /\ AIReviewMax > 0) /\ SlotLeft)
    BY <1>2, <2>2 DEF Puts
  <2> QED BY <2>1, <2>2
<1>4. aiCount' \in Nat
  BY <1>2 DEF WorkersInv, TypeInv
<1>5. jobs[j] \in JobStates /\ Fits(jobs[j]) /\ "diff" \in Checks
  BY JobFacts, Constants
<1>6. running \in [Checks -> ChkStates] /\ "checks" \in Stages /\ \A c \in Checks : running[c] = "run"
  BY DEF ChkStates, Stages
<1> HIDE DEF running
<1> DEFINE e == E(v)
<1>7. /\ e \in JobStates /\ e.app = jobs[j].app /\ e.stage = "checks"
      /\ e.todo = jobs[j].todo /\ e.ai = v /\ e.chk = running
  BY <1>3, <1>5, <1>6 DEF JobStates
<1>8. Puts(j, e)
  BY <1>3
<1> HIDE DEF e
<1>9. Fits(e) /\ jobs[j].chk["diff"] = "none"
  BY <1>1, <1>5, <1>6, <1>7, JobParts DEF Fits, ChkStates
<1>10. deleted' \in SUBSET Names /\ results' = results
       /\ results' \in SUBSET [job : JobIds, check : Checks \cup {"manifests"}, verdict : Verdicts]
  BY <1>1 DEF WorkersInv, TypeInv
<1>11. \A c \in Checks : e.chk[c] # "over"
  BY <1>6, <1>7
<1> QED BY <1>1, <1>4, <1>7, <1>8, <1>9, <1>10, <1>11, JobStep

LEMMA CheckReturnsStep ==
  ASSUME WorkersInv, NEW j \in JobIds, NEW c \in Checks, CheckReturns(j, c)
  PROVE  WorkersInv'
<1> DEFINE e == SetChk(jobs[j], c, "over")
           v == IF c = "diff" /\ jobs[j].todo # <<>> THEN "error" ELSE "done"
<1>1. /\ jobs[j].chk[c] = "run" /\ AddToAppMessage(j, c, v) /\ Puts(j, e)
      /\ UNCHANGED <<main, next, holder, added, chan, closed, wg, aiCount, report, status>>
  BY DEF CheckReturns, Puts, SetChk
<1>2. jobs[j].stage = "checks" /\ jobs[j] \in JobStates /\ Fits(jobs[j])
  BY <1>1, Running, JobFacts
<1>3. /\ e \in JobStates /\ e.app = jobs[j].app /\ e.stage = jobs[j].stage
      /\ e.todo = jobs[j].todo /\ e.ai = jobs[j].ai /\ e.chk[c] = "over"
      /\ \A d \in Checks : d # c => e.chk[d] = jobs[j].chk[d]
  <2>1. "over" \in ChkStates
    BY DEF ChkStates
  <2> QED BY <1>2, <2>1, WithChk
<1>4. v \in Verdicts /\ (c = "diff" /\ v = "done" => jobs[j].todo = <<>>)
  BY DEF Verdicts
<1> HIDE DEF e, v
<1>5. jobs[j].chk["diff"] = "call" => e.chk["diff"] = "call"
  BY <1>1, <1>3, Constants
<1>6. Fits(e)
  BY <1>1, <1>2, <1>3, Constants DEF Fits
<1>7. /\ deleted' \in SUBSET Names /\ results \subseteq results' /\ aiCount' \in Nat
      /\ results' \in SUBSET [job : JobIds, check : Checks \cup {"manifests"}, verdict : Verdicts]
      /\ \A r \in results' \ results : r.job = j /\ r.check = c /\ r.verdict = v
      /\ \E r \in results' : r.job = j /\ r.check = c
  BY <1>1, <1>4, ResultAdded DEF WorkersInv, TypeInv
<1>8. \A d \in Checks : e.chk[d] = "over" =>
        jobs[j].chk[d] = "over" \/ \E r \in results' : r.job = j /\ r.check = d
  BY <1>3, <1>7
<1>9. \A r \in results' \ results : r.check = "diff" /\ r.verdict = "done" => jobs[r.job].todo = <<>>
  BY <1>4, <1>7
<1>10. wg' = IF e.stage = "done" THEN wg - 1 ELSE wg
  BY <1>1, <1>2, <1>3
<1> QED BY <1>1, <1>2, <1>3, <1>5, <1>6, <1>7, <1>8, <1>9, <1>10, JobStep

(* A panic: no result yet. *)
LEMMA CheckPanicsStep ==
  ASSUME WorkersInv, NEW j \in JobIds, NEW c \in Checks, CheckPanics(j, c)
  PROVE  WorkersInv'
<1> DEFINE e == SetChk(jobs[j], c, "panicked")
<1>1. /\ jobs[j].chk[c] = "run" /\ Puts(j, e)
      /\ UNCHANGED <<main, next, holder, added, chan, closed, wg, aiCount, results, deleted, report, status>>
  BY DEF CheckPanics, Puts, SetChk
<1>2. jobs[j].stage = "checks" /\ jobs[j] \in JobStates /\ Fits(jobs[j])
  BY <1>1, Running, JobFacts
<1>3. /\ e \in JobStates /\ e.app = jobs[j].app /\ e.stage = jobs[j].stage
      /\ e.todo = jobs[j].todo /\ e.ai = jobs[j].ai /\ e.chk[c] = "panicked"
      /\ \A d \in Checks : d # c => e.chk[d] = jobs[j].chk[d]
  <2>1. "panicked" \in ChkStates
    BY DEF ChkStates
  <2> QED BY <1>2, <2>1, WithChk
<1> HIDE DEF e
<1>4. (jobs[j].chk["diff"] = "call" => e.chk["diff"] = "call") /\ \A d \in Checks : e.chk[d] = "over" => jobs[j].chk[d] = "over"
  BY <1>1, <1>3, Constants
<1>5. Fits(e)
  BY <1>1, <1>2, <1>3, Constants DEF Fits
<1>6. /\ deleted' \in SUBSET Names /\ results' = results /\ aiCount' \in Nat
      /\ results' \in SUBSET [job : JobIds, check : Checks \cup {"manifests"}, verdict : Verdicts]
      /\ wg' = IF e.stage = "done" THEN wg - 1 ELSE wg
  BY <1>1, <1>2, <1>3 DEF WorkersInv, TypeInv
<1> QED BY <1>1, <1>2, <1>3, <1>4, <1>5, <1>6, JobStep

LEMMA AIReviewStep ==
  ASSUME WorkersInv, NEW j \in JobIds, AIReview(j)
  PROVE  WorkersInv'
<1> DEFINE e == SetAi(jobs[j], "over")
<1>1. /\ jobs[j].ai = "run" /\ Puts(j, e)
      /\ UNCHANGED <<main, next, holder, added, chan, closed, wg, aiCount, results, deleted, report, status>>
  BY DEF AIReview, Puts, SetAi
<1>2. jobs[j].stage = "checks" /\ jobs[j] \in JobStates /\ Fits(jobs[j])
  BY <1>1, JobFacts DEF Fits
<1>3. /\ e \in JobStates /\ e.app = jobs[j].app /\ e.stage = jobs[j].stage
      /\ e.todo = jobs[j].todo /\ e.ai = "over" /\ e.chk = jobs[j].chk
  BY <1>2, WithAi
<1> HIDE DEF e
<1>4. Fits(e)
  BY <1>1, <1>2, <1>3 DEF Fits
<1>5. /\ deleted' \in SUBSET Names /\ results' = results /\ aiCount' \in Nat
      /\ results' \in SUBSET [job : JobIds, check : Checks \cup {"manifests"}, verdict : Verdicts]
      /\ wg' = IF e.stage = "done" THEN wg - 1 ELSE wg
  BY <1>1, <1>2, <1>3 DEF WorkersInv, TypeInv
<1> QED BY <1>1, <1>2, <1>3, <1>4, <1>5, JobStep

LEMMA FinishJobStep ==
  ASSUME WorkersInv, NEW j \in JobIds, FinishJob(j)
  PROVE  WorkersInv'
<1> DEFINE e == SetStage(jobs[j], "done")
<1>1. /\ jobs[j].stage = "checks" /\ ChecksOver(j) /\ wg' = wg - 1 /\ Puts(j, e)
      /\ UNCHANGED <<main, next, holder, added, chan, closed, aiCount, results, deleted, report, status>>
  BY DEF FinishJob, Puts, SetStage
<1>2. jobs[j] \in JobStates /\ Fits(jobs[j]) /\ "done" \in Stages
  BY JobFacts DEF Stages
<1>3. /\ e \in JobStates /\ e.app = jobs[j].app /\ e.stage = "done"
      /\ e.todo = jobs[j].todo /\ e.ai = jobs[j].ai /\ e.chk = jobs[j].chk
  BY <1>2, WithStage
<1> HIDE DEF e
<1>4. Fits(e)
  BY <1>1, <1>2, <1>3 DEF Fits, ChecksOver
<1>5. /\ deleted' \in SUBSET Names /\ results' = results /\ aiCount' \in Nat
      /\ results' \in SUBSET [job : JobIds, check : Checks \cup {"manifests"}, verdict : Verdicts]
      /\ wg' = IF e.stage = "done" THEN wg - 1 ELSE wg
  BY <1>1, <1>3 DEF WorkersInv, TypeInv
<1> QED BY <1>1, <1>3, <1>4, <1>5, JobStep

(* A worker receives the job at the head of the channel. *)
LEMMA TakeStep ==
  ASSUME WorkersInv, NEW j \in JobIds, Take(j)
  PROVE  WorkersInv'
<1> DEFINE e == SetStage(jobs[j], "start")
<1>1. /\ chan # <<>> /\ j = Head(chan) /\ chan' = Tail(chan) /\ Puts(j, e)
      /\ UNCHANGED <<main, next, holder, added, closed, wg, aiCount, results, deleted, report, status>>
  BY DEF Take, Puts, SetStage
<1>2. TypeInv /\ StageInv /\ LockInv /\ ChanInv /\ CountInv /\ QueuedInv /\ ResultsInv
  BY DEF WorkersInv
<1>3. /\ 1 \in DOMAIN chan /\ j = chan[1] /\ chan \in Seq(JobIds) /\ DOMAIN chan = 1..Len(chan)
      /\ Len(chan) \in Nat /\ chan' \in Seq(JobIds) /\ Len(chan') = Len(chan) - 1
      /\ DOMAIN chan' = 1..(Len(chan) - 1)
      /\ \A i \in DOMAIN chan' : i + 1 \in DOMAIN chan /\ chan'[i] = chan[i + 1]
  BY <1>1, <1>2, SeqFacts DEF TypeInv
<1>4. jobs[j].stage = "queued" /\ jobs[j] \in JobStates /\ Fits(jobs[j]) /\ "start" \in Stages
  BY <1>2, <1>3, JobFacts DEF ChanInv, Stages
<1>5. /\ e \in JobStates /\ e.app = jobs[j].app /\ e.stage = "start"
      /\ e.todo = jobs[j].todo /\ e.ai = jobs[j].ai /\ e.chk = jobs[j].chk
  BY <1>4, WithStage
<1> HIDE DEF e
<1>6. Fits(e)
  BY <1>4, <1>5 DEF Fits
<1>7. TypeInv'
  <2>1. Len(chan') =< MaxQueueSize
    BY <1>2, <1>3, Constants DEF TypeInv
  <2> QED BY <1>1, <1>2, <1>3, <1>5, <2>1, TypeKept DEF TypeInv
<1>8. LockInv' /\ StageInv' /\ CountInv'
  <2>1. holder = j => e.chk["diff"] = "call"
    BY <1>2, <1>5 DEF LockInv
  <2> QED BY <1>1, <1>2, <1>4, <1>5, <1>6, <2>1, LockKept, StageKept, CountKept
<1>9. ChanInv'
  <2>1. \A i \in DOMAIN chan' : chan'[i] \in JobIds /\ chan'[i] # j
    BY <1>2, <1>3, SeqFacts DEF ChanInv
  <2>2. \A k \in JobIds : k # j => jobs'[k] = jobs[k]
    BY <1>1, <1>2, <1>5, PutJob
  <2>3. \A i \in DOMAIN chan' : jobs'[chan'[i]].stage = "queued"
    BY <1>2, <1>3, <2>1, <2>2 DEF ChanInv
  <2>4. \A i, k \in DOMAIN chan' : chan'[i] = chan'[k] => i = k
    <3> SUFFICES ASSUME NEW i \in DOMAIN chan', NEW k \in DOMAIN chan', chan'[i] = chan'[k] PROVE i = k
      OBVIOUS
    <3>1. i + 1 = k + 1
      BY <1>2, <1>3 DEF ChanInv
    <3> QED BY <1>3, <3>1
  <2> QED BY <2>3, <2>4 DEF ChanInv
<1>10. QueuedInv'
  BY <1>1, <1>2, <1>5, PutJob, QueuedKept
<1>11. ResultsInv' /\ ReportComplete'
  <2>1. main \in {"produce", "wait"}
    BY <1>2, <1>4, NotClosed
  <2> QED BY <1>1, <1>2, <1>5, <2>1, ResultsKept
<1> QED BY <1>7, <1>8, <1>9, <1>10, <1>11 DEF WorkersInv

(* The result of a panic, which may come when the check is over: it is     *)
(* about a name that has panicked, and nothing else changes.               *)
LEMMA PanicResultStep ==
  ASSUME WorkersInv, NEW j \in JobIds, NEW c \in Checks, PanicResult(j, c)
  PROVE  WorkersInv'
<1> DEFINE e == SetChk(jobs[j], c, "over")
<1>1. /\ jobs[j].chk[c] = "panicked" /\ AddToAppMessage(j, c, "panic") /\ Puts(j, e)
      /\ UNCHANGED <<main, next, holder, added, chan, closed, wg, aiCount, report, status>>
  BY DEF PanicResult, Puts, SetChk
<1>2. TypeInv /\ StageInv /\ LockInv /\ ChanInv /\ CountInv /\ QueuedInv /\ ResultsInv /\ ReportComplete
  BY DEF WorkersInv
<1>3. jobs[j] \in JobStates /\ Fits(jobs[j]) /\ "over" \in ChkStates /\ "panic" \in Verdicts
  BY JobFacts DEF ChkStates, Verdicts
<1>4. /\ e \in JobStates /\ e.app = jobs[j].app /\ e.stage = jobs[j].stage
      /\ e.todo = jobs[j].todo /\ e.ai = jobs[j].ai /\ e.chk[c] = "over"
      /\ \A d \in Checks : d # c => e.chk[d] = jobs[j].chk[d]
  BY <1>3, WithChk
<1> HIDE DEF e
<1>5. Fits(e)
  BY <1>1, <1>3, <1>4, Constants DEF Fits
<1>6. /\ deleted' \in SUBSET Names /\ results \subseteq results'
      /\ results' \in SUBSET [job : JobIds, check : Checks \cup {"manifests"}, verdict : Verdicts]
      /\ \A r \in results' \ results : r.job = j /\ r.check = c /\ r.verdict = "panic"
      /\ \E r \in results' : r.job = j /\ r.check = c
  BY <1>1, <1>3, ResultAdded
<1>7. \E r \in results' : r.job = j /\ r.verdict = "panic"
  <2> DEFINE r == [job |-> j, check |-> c, verdict |-> "panic"]
  <2>1. r \in results'
    BY <1>1 DEF AddToAppMessage
  <2>2. r.job = j /\ r.verdict = "panic"
    OBVIOUS
  <2> HIDE DEF r
  <2> QED BY <2>1, <2>2
<1>8. TypeInv'
  BY <1>1, <1>2, <1>4, <1>6, TypeKept DEF TypeInv
<1>9. LockInv' /\ ChanInv' /\ CountInv' /\ StageInv'
  <2>1. holder = j => e.chk["diff"] = "call"
    BY <1>1, <1>2, <1>4, Constants DEF LockInv
  <2> QED BY <1>1, <1>2, <1>4, <1>5, <2>1, LockKept, ChanKept, CountKept, StageKept
<1>10. /\ JobIds' = JobIds /\ SameApps /\ \A k \in JobIds : jobs'[k].todo = jobs[k].todo
       /\ \A k \in JobIds : k # j => jobs'[k] = jobs[k]
       /\ jobs'[j] = e
  BY <1>1, <1>2, <1>4, PutJob
<1>11. QueuedInv'
  BY <1>1, <1>2, <1>6, <1>10, QueuedKept
<1>12. \A k \in JobIds : NameOf[jobs'[k].app] = Name(k)
  BY <1>10 DEF Name, SameApps
<1>13. deleted' = deleted \ {Name(j)}
  BY <1>1 DEF AddToAppMessage
<1>14. \A n \in Names : ~Panicked(n)' => n # Name(j) /\ ~Panicked(n)
  BY <1>2, <1>6, <1>7, <1>10, <1>12 DEF Panicked, Name, TypeInv
<1>15. \A n \in Names : ~Panicked(n)' =>
         Of(Shown, n)' = Of(Shown, n) /\ Of(report, n)' = Of(report, n) /\ Of(status, n)' = Of(status, n)
  <2>1. \A r \in results' : r.job \in JobIds /\ (Name(r.job) # Name(j) => r \in results)
    BY <1>6
  <2>2. report \subseteq results /\ status \subseteq results
    BY <1>2 DEF TypeInv
  <2>3. \A r \in results' : Name(r.job)' = Name(r.job)
    BY <1>12, <2>1 DEF Name
  <2> TAKE n \in Names
  <2> HAVE ~Panicked(n)'
  <2>4. n # Name(j)
    BY <1>14
  <2>5. Of(report, n)' = Of(report, n) /\ Of(status, n)' = Of(status, n)
    BY <1>1, <1>6, <2>2, <2>3 DEF Of
  <2>6. \A r \in results' : Name(r.job) = n => (r \in results /\ (n \in deleted' <=> n \in deleted))
    BY <1>13, <2>1, <2>4
  <2>7. Of(Shown, n)' = {r \in results' : n \notin deleted' /\ Name(r.job) = n}
    BY <2>3 DEF Of, Shown
  <2>8. Of(Shown, n) = {r \in results : n \notin deleted /\ Name(r.job) = n}
    BY DEF Of, Shown
  <2> QED BY <1>6, <2>5, <2>6, <2>7, <2>8
<1>16. ResultsInv'
  <2>1. \A k \in JobIds, d \in Checks : jobs'[k].chk[d] = "over" => \E r \in results' : r.job = k /\ r.check = d
    BY <1>2, <1>4, <1>6, <1>10 DEF ResultsInv
  <2> QED BY <1>1, <1>2, <1>10, <1>14, <1>15, <2>1 DEF ResultsInv
<1>17. ReportComplete'
  <2> SUFFICES ASSUME NEW n \in Names, ~Panicked(n)'
               PROVE  /\ main' \in {"status", "over"} =>
                           \A k \in JobIds', d \in Checks : NameOf[jobs'[k].app] = n /\ jobs'[k].chk[d] # "none" =>
                             n \in deleted' \/ \E r \in report' : r.job = k /\ r.check = d
                      /\ main' = "over" => Of(status, n)' = Of(report, n)'
    BY DEF ReportComplete, Name
  <2>1. n # Name(j) /\ ~Panicked(n)
    BY <1>14
  <2>2. main' = "over" => Of(status, n)' = Of(report, n)'
    BY <1>1, <1>2, <1>15, <2>1 DEF ReportComplete
  <2>3. ASSUME NEW k \in JobIds, NEW d \in Checks, NameOf[jobs'[k].app] = n, jobs'[k].chk[d] # "none",
               main' \in {"status", "over"}
        PROVE  n \in deleted' \/ \E r \in report' : r.job = k /\ r.check = d
    <3>1. Name(k) = n /\ k # j /\ jobs[k].chk[d] # "none"
      BY <1>10, <1>12, <2>1, <2>3
    <3>2. n \in deleted \/ \E r \in report : r.job = k /\ r.check = d
      BY <1>1, <1>2, <2>1, <2>3, <3>1 DEF ReportComplete
    <3> QED BY <1>1, <1>13, <2>1, <3>2
  <2> QED BY <1>10, <2>2, <2>3
<1> QED BY <1>8, <1>9, <1>11, <1>16, <1>17 DEF WorkersInv

-----------------------------------------------------------------------------
(* process after its last application.  The jobs stay as they are. *)
LEMMA JobsKept ==
  ASSUME WorkersInv, UNCHANGED <<next, holder, added, jobs, chan, wg, results>>, holder # Main
  PROVE  /\ StageInv' /\ LockInv' /\ ChanInv' /\ QueuedInv' /\ JobIds' = JobIds /\ Owing' = Owing
         /\ \A j \in JobIds : Name(j)' = Name(j)
<1>1. StageInv /\ LockInv /\ ChanInv /\ QueuedInv /\ TypeInv /\ JobIds' = JobIds /\ SameApps
  BY DEF WorkersInv, JobIds, SameApps
<1>2. StageInv' /\ ChanInv'
  BY <1>1 DEF StageInv, ChanInv, Fits
<1>3. LockInv'
  BY <1>1 DEF LockInv
<1>4. QueuedInv'
  BY <1>1, QueuedKept
<1> QED BY <1>1, <1>2, <1>3, <1>4 DEF Owing, Name

LEMMA ProducedStep ==
  ASSUME WorkersInv, Produced
  PROVE  WorkersInv'
<1>1. /\ main = "produce" /\ next > Len(Affected) /\ main' = "wait"
      /\ UNCHANGED <<next, holder, added, jobs, chan, closed, wg, aiCount, results, deleted, report, status>>
  BY DEF Produced
<1>2. TypeInv /\ LockInv /\ CountInv /\ ResultsInv
  BY DEF WorkersInv
<1>3. holder # Main
  BY <1>1, <1>2, Constants, SeqFacts DEF LockInv, TypeInv
<1>4. StageInv' /\ LockInv' /\ ChanInv' /\ QueuedInv' /\ JobIds' = JobIds /\ Owing' = Owing
  BY <1>1, <1>3, JobsKept
<1>5. TypeInv'
  BY <1>1, <1>2, <1>4 DEF TypeInv
<1>6. CountInv'
  BY <1>1, <1>2, <1>4 DEF CountInv
<1>7. ResultsInv' /\ ReportComplete'
  BY <1>1, <1>2, <1>4 DEF ResultsInv, ReportComplete
<1> QED BY <1>4, <1>5, <1>6, <1>7 DEF WorkersInv

LEMMA CloseChannelStep ==
  ASSUME WorkersInv, CloseChannel
  PROVE  WorkersInv'
<1>1. /\ main = "wait" /\ wg = 0 /\ closed' = TRUE /\ main' = "build"
      /\ UNCHANGED <<next, holder, added, jobs, chan, wg, aiCount, results, deleted, report, status>>
  BY DEF CloseChannel
<1>2. TypeInv /\ LockInv /\ CountInv /\ ResultsInv
  BY DEF WorkersInv
<1>3. holder # Main
  BY <1>1, <1>2 DEF LockInv
<1>4. StageInv' /\ LockInv' /\ ChanInv' /\ QueuedInv' /\ JobIds' = JobIds /\ Owing' = Owing
  BY <1>1, <1>3, JobsKept
<1>5. TypeInv'
  BY <1>1, <1>2, <1>4 DEF TypeInv
<1>6. CountInv'
  BY <1>1, <1>2, <1>4 DEF CountInv
<1>7. ResultsInv' /\ ReportComplete'
  BY <1>1, <1>2, <1>4 DEF ResultsInv, ReportComplete
<1> QED BY <1>4, <1>5, <1>6, <1>7 DEF WorkersInv

(* When the channel is closed every job is done, and so are its checks. *)
LEMMA ClosedDone ==
  ASSUME WorkersInv, closed
  PROVE  /\ holder = Free /\ chan = <<>>
         /\ \A j \in JobIds : /\ jobs[j].stage = "done" /\ jobs[j].ai # "run"
                              /\ \A c \in Checks : jobs[j].chk[c] \in {"none", "panicked", "over"}
<1>1. TypeInv /\ LockInv /\ CountInv /\ ChanInv
  BY DEF WorkersInv
<1>2. Owing = {}
  BY <1>1, OwingFinite DEF CountInv
<1>3. \A j \in JobIds : jobs[j].stage = "done"
  BY <1>2 DEF Owing
<1>4. \A j \in JobIds : jobs[j].ai # "run" /\ \A c \in Checks : jobs[j].chk[c] \in {"none", "panicked", "over"}
  BY <1>3, JobFacts, JobParts DEF Fits, ChkStates
<1>5. holder = Free
  <2>1. jobs # <<>> => Len(jobs) \in JobIds
    BY <1>1, SeqFacts DEF TypeInv, JobIds
  <2> QED BY <1>1, <1>3, <2>1 DEF LockInv
<1>6. chan = <<>>
  <2>1. chan # <<>> => 1 \in DOMAIN chan /\ chan[1] \in JobIds
    BY <1>1, SeqFacts DEF TypeInv
  <2> QED BY <1>1, <1>3, <2>1 DEF ChanInv
<1> QED BY <1>3, <1>4, <1>5, <1>6

(* What is shown of a name without a panic are the results of all of its   *)
(* checks, unless it is deleted.                                           *)
LEMMA BuildCommentStep ==
  ASSUME WorkersInv, BuildComment
  PROVE  WorkersInv'
<1>1. /\ main = "build" /\ report' = Shown /\ main' = "status"
      /\ UNCHANGED <<next, holder, added, jobs, chan, closed, wg, aiCount, results, deleted, status>>
  BY DEF BuildComment
<1>2. TypeInv /\ LockInv /\ CountInv /\ ResultsInv
  BY DEF WorkersInv
<1>3. holder # Main /\ closed
  BY <1>1, <1>2 DEF LockInv, CountInv
<1>4. /\ StageInv' /\ LockInv' /\ ChanInv' /\ QueuedInv' /\ JobIds' = JobIds /\ Owing' = Owing
      /\ \A j \in JobIds : Name(j)' = Name(j)
  BY <1>1, <1>3, JobsKept
<1>5. TypeInv'
  BY <1>1, <1>2, <1>4 DEF TypeInv, Shown
<1>6. CountInv'
  BY <1>1, <1>2, <1>4 DEF CountInv
<1>7. Shown' = Shown
  BY <1>1, <1>2, <1>4 DEF Shown, TypeInv
<1>8. ResultsInv'
  <2>1. \A n : Of(Shown, n)' = Of(report, n)'
    BY <1>1, <1>7 DEF Of
  <2> QED BY <1>1, <1>2, <1>4, <2>1 DEF ResultsInv
<1>9. ReportComplete'
  <2>1. ASSUME NEW n \in Names, ~Panicked(n)', NEW j \in JobIds, NEW c \in Checks, Name(j)' = n,
               jobs'[j].chk[c] # "none"
        PROVE  n \in deleted' \/ \E r \in report' : r.job = j /\ r.check = c
    <3>1. Name(j) = n /\ jobs[j].chk[c] # "none" /\ jobs[j].chk[c] # "panicked"
      BY <1>1, <1>4, <2>1 DEF Panicked
    <3>2. jobs[j].chk[c] = "over"
      BY <1>3, <3>1, ClosedDone
    <3>3. PICK r \in results : r.job = j /\ r.check = c
      BY <1>2, <3>2 DEF ResultsInv
    <3> QED BY <1>1, <3>1, <3>3 DEF Shown
  <2> QED BY <1>1, <1>4, <2>1 DEF ReportComplete
<1> QED BY <1>4, <1>5, <1>6, <1>8, <1>9 DEF WorkersInv

LEMMA WorstStateStep ==
  ASSUME WorkersInv, WorstState
  PROVE  WorkersInv'
<1>1. /\ main = "status" /\ status' = Shown /\ main' = "over"
      /\ UNCHANGED <<next, holder, added, jobs, chan, closed, wg, aiCount, results, deleted, report>>
  BY DEF WorstState
<1>2. TypeInv /\ LockInv /\ CountInv /\ ResultsInv /\ ReportComplete
  BY DEF WorkersInv
<1>3. holder # Main
  BY <1>1, <1>2 DEF LockInv
<1>4. /\ StageInv' /\ LockInv' /\ ChanInv' /\ QueuedInv' /\ JobIds' = JobIds /\ Owing' = Owing
      /\ \A j \in JobIds : Name(j)' = Name(j)
  BY <1>1, <1>3, JobsKept
<1>5. TypeInv'
  BY <1>1, <1>2, <1>4 DEF TypeInv, Shown
<1>6. CountInv'
  BY <1>1, <1>2, <1>4 DEF CountInv
<1>7. Shown' = Shown /\ (\A n \in Names : Panicked(n)' <=> Panicked(n))
      /\ (\A n : Of(report, n)' = Of(report, n) /\ Of(Shown, n)' = Of(Shown, n) /\ Of(status, n)' = Of(Shown, n))
  <2>1. \A r \in results : r.job \in JobIds /\ Name(r.job)' = Name(r.job)
    BY <1>2, <1>4 DEF TypeInv
  <2>2. Shown' = Shown
    BY <1>1, <2>1 DEF Shown
  <2>3. \A n \in Names : Panicked(n)' <=> Panicked(n)
    BY <1>1, <1>4, <2>1 DEF Panicked
  <2>4. Shown \subseteq results /\ report \subseteq results
    BY <1>2 DEF Shown, TypeInv
  <2> QED BY <1>1, <2>1, <2>2, <2>3, <2>4 DEF Of
<1>8. ResultsInv'
  BY <1>1, <1>2, <1>4, <1>7 DEF ResultsInv
<1>9. ReportComplete'
  <2>1. ASSUME NEW n \in Names, ~Panicked(n)
        PROVE  \A j \in JobIds, c \in Checks : Name(j) = n /\ jobs[j].chk[c] # "none" =>
                 n \in deleted \/ \E r \in report : r.job = j /\ r.check = c
    BY <1>1, <1>2, <2>1 DEF ReportComplete
  <2>2. ASSUME NEW n \in Names, ~Panicked(n)
        PROVE  Of(status, n)' = Of(report, n)'
    BY <1>1, <1>2, <1>7, <2>2 DEF ResultsInv
  <2> QED BY <1>1, <1>4, <1>7, <2>1, <2>2 DEF ReportComplete
<1> QED BY <1>4, <1>5, <1>6, <1>8, <1>9 DEF WorkersInv

-----------------------------------------------------------------------------
LEMMA InitInv == Init => WorkersInv
<1> SUFFICES ASSUME Init PROVE WorkersInv
  OBVIOUS
<1>1. /\ main = "produce" /\ next = 1 /\ holder = Free /\ added = [n \in Names |-> None]
      /\ jobs = <<>> /\ chan = <<>> /\ closed = FALSE /\ wg = 0 /\ aiCount = 0
      /\ results = {} /\ deleted = {} /\ report = {} /\ status = {}
  BY DEF Init
<1>2. JobIds = {} /\ jobs \in Seq(JobStates) /\ chan \in Seq(JobIds) /\ DOMAIN chan = {} /\ Len(chan) = 0
  BY <1>1 DEF JobIds
<1>3. TypeInv
  <2>1. 1 \in 1..Len(Affected) + 1
    BY Constants, SeqFacts
  <2>2. Len(chan) =< MaxQueueSize /\ next \in 1..Len(Affected) + 1
    BY <1>1, <1>2, <2>1, Constants
  <2>3. added \in [Names -> Apps \cup {None}] /\ deleted \in SUBSET Names /\ closed \in BOOLEAN
    BY <1>1
  <2>4. /\ results \in SUBSET [job : JobIds, check : Checks \cup {"manifests"}, verdict : Verdicts]
        /\ report \subseteq results /\ status \subseteq results
    BY <1>1
  <2>5. /\ main \in {"produce", "wait", "build", "status", "over"} /\ wg \in Nat /\ aiCount \in Nat
        /\ holder \in {Free, Main} \cup JobIds
    BY <1>1
  <2> QED BY <1>2, <2>2, <2>3, <2>4, <2>5 DEF TypeInv
<1>4. StageInv /\ LockInv /\ ChanInv
  BY <1>1, <1>2 DEF StageInv, LockInv, ChanInv, Free, Main
<1>5. CountInv
  BY <1>1, <1>2, FS_EmptySet DEF CountInv, Owing
<1>6. QueuedInv
  BY <1>1, <1>2 DEF QueuedInv
<1>7. ResultsInv /\ ReportComplete
  BY <1>1, <1>2 DEF ResultsInv, ReportComplete
<1> QED BY <1>3, <1>4, <1>5, <1>6, <1>7 DEF WorkersInv

LEMMA NextInv == WorkersInv /\ [Next]_vars => WorkersInv'
<1> SUFFICES ASSUME WorkersInv, [Next]_vars PROVE WorkersInv'
  OBVIOUS
<1>1. CASE Process
  BY <1>1, QueueAffectedStep, SendAffectedStep, ProducedStep, CloseChannelStep, BuildCommentStep,
     WorstStateStep DEF Process
<1>2. ASSUME NEW j \in JobIds, Job(j) PROVE WorkersInv'
  <2>1. CASE CallQueueApp(j) \/ QueueChild(j) \/ SendChild(j) \/ RemoveChild(j)
    BY <2>1, CallStep, QueueChildStep, SendChildStep, RemoveChildStep
  <2>2. CASE Take(j) \/ AddNewApp(j) \/ NoManifests(j) \/ StartChecks(j) \/ AIReview(j) \/ FinishJob(j)
    BY <2>2, TakeStep, AddNewAppStep, NoManifestsStep, StartChecksStep, AIReviewStep, FinishJobStep
  <2>3. CASE \E c \in Checks : CheckReturns(j, c) \/ CheckPanics(j, c) \/ PanicResult(j, c)
    BY <2>3, CheckReturnsStep, CheckPanicsStep, PanicResultStep
  <2> QED BY <1>2, <2>1, <2>2, <2>3 DEF Job
<1>3. CASE UNCHANGED vars
  <2>1. /\ UNCHANGED <<main, next, holder, added, jobs, chan, closed, wg, aiCount, results, deleted, report, status>>
        /\ JobIds' = JobIds /\ Owing' = Owing /\ Shown' = Shown
    BY <1>3 DEF vars, JobIds, Owing, Shown, Name
  <2>2. TypeInv' /\ StageInv' /\ LockInv' /\ ChanInv' /\ CountInv'
    BY <2>1 DEF WorkersInv, TypeInv, StageInv, Fits, LockInv, ChanInv, CountInv
  <2>3. QueuedInv'
    BY <2>1, QueuedKept DEF WorkersInv, SameApps
  <2>4. (\A n : Panicked(n)' <=> Panicked(n)) /\ \A j \in JobIds : Name(j)' = Name(j)
    BY <2>1 DEF Panicked, Name
  <2>5. \A n : Of(Shown, n)' = Of(Shown, n) /\ Of(report, n)' = Of(report, n) /\ Of(status, n)' = Of(status, n)
    BY <2>1 DEF Of, Name
  <2>6. ResultsInv' /\ ReportComplete'
    BY <2>1, <2>4, <2>5 DEF WorkersInv, ResultsInv, ReportComplete
  <2> QED BY <2>2, <2>3, <2>6 DEF WorkersInv
<1> QED BY <1>1, <1>2, <1>3 DEF Next, Over

(* However the applications, their children and the workers interleave,    *)
(* the bookkeeping of a check (the stages of its jobs, the lock of         *)
(* addedAppsSet, the channel, the wait group and the results) stays        *)
(* consistent.                                                             *)
THEOREM WorkersInvariant == Spec => []WorkersInv
<1>1. Init => WorkersInv
  BY InitInv
<1>2. WorkersInv /\ [Next]_vars => WorkersInv'
  BY NextInv
<1> QED BY <1>1, <1>2, PTL DEF Spec

(* process closes appChannel after every goroutine that could send on it,  *)
(* and the wait group counts exactly the jobs that are not done.           *)
THEOREM ChannelClosedAfterLastSend == Spec => []ClosedAfterLastSend
<1>1. WorkersInv => ClosedAfterLastSend
  <2> SUFFICES ASSUME WorkersInv PROVE ClosedAfterLastSend
    OBVIOUS
  <2>1. wg = Cardinality(Owing)
    BY DEF WorkersInv, CountInv
  <2>2. closed => /\ holder = Free /\ chan = <<>>
                  /\ \A j \in JobIds : jobs[j].chk["diff"] \notin {"run", "call"} /\ jobs[j].ai # "run"
    BY ClosedDone, Constants
  <2> QED BY <2>1, <2>2 DEF ClosedAfterLastSend
<1> QED BY <1>1, WorkersInvariant, PTL

(* queueApp drops a spec only when the same one is queued already, so when *)
(* the channel is closed every affected application, and every child that  *)
(* a diff which got to its end asked for, was checked in that version.     *)
THEOREM AllAppsChecked == Spec => []EveryAppChecked
<1>1. WorkersInv => EveryAppChecked
  <2> SUFFICES ASSUME WorkersInv, closed
               PROVE  /\ \A i \in DOMAIN Affected : Checked(Affected[i])
                      /\ \A r \in results : r.check = "diff" /\ r.verdict = "done" =>
                           \A i \in DOMAIN Effects[jobs[r.job].app] :
                             Effects[jobs[r.job].app][i].op = "queue" => Checked(Effects[jobs[r.job].app][i].app)
    BY DEF EveryAppChecked
  <2>1. \A a : HasJob(a) => Checked(a)
    BY ClosedDone DEF HasJob, Checked
  <2>2. \A i \in DOMAIN Affected : Checked(Affected[i])
    <3>1. next > Len(Affected) /\ next \in 1..Len(Affected) + 1
      BY DEF WorkersInv, CountInv, TypeInv
    <3>2. DOMAIN Affected = 1..Len(Affected) /\ Len(Affected) \in Nat
      BY Constants, SeqFacts
    <3>3. \A i \in DOMAIN Affected : i \in 1..next - 1
      BY <3>1, <3>2
    <3> QED BY <2>1, <3>3 DEF WorkersInv, QueuedInv
  <2>3. ASSUME NEW r \in results, r.check = "diff", r.verdict = "done",
               NEW i \in DOMAIN Effects[jobs[r.job].app], Effects[jobs[r.job].app][i].op = "queue"
        PROVE  Checked(Effects[jobs[r.job].app][i].app)
    <3> DEFINE s == jobs[r.job]
    <3>1. r.job \in JobIds /\ s.todo = <<>>
      BY <2>3 DEF WorkersInv, QueuedInv, TypeInv
    <3>2. Asked(s) /\ Effects[s.app] \in Seq(Effect)
      BY <3>1, JobFacts, JobParts DEF WorkersInv, QueuedInv
    <3>3. i \in 1..Past(s)
      <4>1. Len(s.todo) = 0 /\ Len(Effects[s.app]) \in Nat /\ DOMAIN Effects[s.app] = 1..Len(Effects[s.app])
        BY <3>1, <3>2, SeqFacts
      <4>2. i \in DOMAIN Effects[s.app] /\ Past(s) = Len(Effects[s.app]) - Len(s.todo)
        BY DEF Past
      <4> HIDE DEF s
      <4> QED BY <4>1, <4>2
    <3>4. HasJob(Effects[s.app][i].app)
      BY <2>3, <3>2, <3>3 DEF Asked
    <3> QED BY <2>1, <3>4
  <2> QED BY <2>2, <2>3
<1> QED BY <1>1, WorkersInvariant, PTL

(* The report has the result of every check that was started, unless its   *)
(* application was removed, and the commit status is computed from what    *)
(* the report shows: for every name that no check panicked for.            *)
THEOREM ReportHasEverything == Spec => []ReportComplete
<1>1. WorkersInv => ReportComplete
  BY DEF WorkersInv
<1> QED BY <1>1, WorkersInvariant, PTL
=============================================================================
