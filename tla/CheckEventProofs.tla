-------------------------- MODULE CheckEventProofs --------------------------
(***************************************************************************)
(* Proofs about CheckEvent, for any number of commits and webhooks and     *)
(* every setting: webhooks late, twice or out of order, calls that fail,   *)
(* contexts that end.                                                      *)
(***************************************************************************)
EXTENDS CheckEvent, SequenceTheorems, TLAPS

(* Nothing is of a commit that was not pushed. *)
PushedInv ==
  /\ \A x \in sending : x.commit =< head
  /\ \A i \in DOMAIN queue : queue[i].commit =< head
  /\ lastDelivered =< head /\ cur =< head
  /\ \A x \in comments : x.commit =< head
  /\ pc # "idle" => cur # 0

(* A reference on the archive cache is held between Clone and Return only. *)
HoldsInv == holds = 0 \/ pc \in {"prepare", "head", "tidy", "noChanges", "note", "aiNote", "apps",
                                 "report", "aiReport", "setStatus"}

(* Who saw a newer head has stopped; who saw its own commit as the head    *)
(* meets no comment of a newer one.                                        *)
HeadInv ==
  /\ superseded => pc \in {"settle", "end", "idle"}
  /\ headRead /\ ~superseded => \A x \in comments : x.commit =< cur

(* Webhooks in push order: the queue holds newer and newer commits, all of *)
(* them newer than the check's, and the one on its way to the queue is the *)
(* newest of them.                                                         *)
OrderInv ==
  setting.inOrder =>
    /\ cur =< lastDelivered
    /\ \A i \in DOMAIN queue : cur < queue[i].commit /\ queue[i].commit =< lastDelivered
    /\ \A i, j \in DOMAIN queue : i < j => queue[i].commit < queue[j].commit
    /\ \A x \in sending : /\ x.commit = lastDelivered /\ cur < lastDelivered
                          /\ \A i \in DOMAIN queue : queue[i].commit < lastDelivered
                          /\ \A y \in sending : y = x
    /\ \A x \in comments : x.commit =< cur

(* A request is on its way to the queue or in it, and there once. *)
LineInv ==
  /\ \A x \in sending : x.id =< deliveries
  /\ \A i \in DOMAIN queue : queue[i].id =< deliveries /\ queue[i] \notin sending
  /\ \A i, j \in DOMAIN queue : queue[i] = queue[j] => i = j

(* There is one commit that has reports.  After a tidying that failed, no  *)
(* report of the check's own gets through either.                          *)
OnlyOfCur == \A x \in comments : x.kind # "notice" => x.commit = cur
BeforeTidy == {"validate", "setRunning", "clone", "prepare", "head", "tidy"}
Posting == {"noChanges", "note", "aiNote", "apps", "report", "aiReport"}
ReportsInv ==
  setting.inOrder /\ ~setting.flaky =>
    /\ OnlyOfCur \/ Reports(cur) = {}
    /\ pc \in BeforeTidy => Reports(cur) = {}
    /\ pc \in Posting => OnlyOfCur \/ (Reports(cur) = {} /\ setting.gitHub /\ ctx # "live")

CheckEventInv == TypeOK /\ PushedInv /\ HoldsInv /\ HeadInv /\ OrderInv /\ LineInv /\ ReportsInv

-----------------------------------------------------------------------------
LEMMA Bounds == MaxCommit \in Nat /\ 1 \in Commits
BY BoundsAssumption DEF Commits

LEMMA SettingTypes ==
  ASSUME NEW s \in Settings
  PROVE  /\ s.commits \in 1..MaxCommit /\ s.deliveries \in Nat
         /\ {s.inOrder, s.full, s.timeouts, s.flaky, s.gitHub, s.aiReview} \subseteq BOOLEAN
BY SettingsAssumption

LEMMA RequestTypes == \A x \in Requests : x.id \in Nat /\ x.commit \in Commits
<1> SUFFICES ASSUME NEW x \in Requests PROVE x.id \in Nat /\ x.commit \in Commits
  OBVIOUS
<1>1. x.commit \in Commits /\ \E s \in Settings : x.id \in 1..s.deliveries
  BY DEF Requests
<1> QED BY <1>1, SettingTypes

LEMMA SeqFacts ==
  ASSUME NEW S, NEW q \in Seq(S)
  PROVE  /\ Len(q) \in Nat /\ DOMAIN q = 1..Len(q) /\ \A i \in 1..Len(q) : q[i] \in S
         /\ \A e \in S : /\ Append(q, e) \in Seq(S) /\ Len(Append(q, e)) = Len(q) + 1
                         /\ \A i \in 1..Len(q) : Append(q, e)[i] = q[i]
                         /\ Append(q, e)[Len(q) + 1] = e
         /\ q # <<>> => /\ Len(q) > 0 /\ Head(q) = q[1] /\ Head(q) \in S
                        /\ Tail(q) \in Seq(S) /\ Len(Tail(q)) = Len(q) - 1
                        /\ \A i \in 1..(Len(q) - 1) : Tail(q)[i] = q[i + 1]
OBVIOUS

(* A call on GitHub that carries an ended context fails, and while the     *)
(* host answers, only such a call does.                                    *)
LEMMA OutcomeFacts ==
  ASSUME NEW aware \in BOOLEAN, NEW ok \in Outcomes(aware)
  PROVE  /\ ok \in BOOLEAN
         /\ ok /\ aware => ctx = "live"
         /\ ~ok /\ ~setting.flaky => aware /\ ctx # "live"
BY DEF Outcomes

LEMMA InitInv == Init => CheckEventInv
<1> SUFFICES ASSUME Init PROVE CheckEventInv
  OBVIOUS
<1>1. TypeOK
  <2>1. setting \in Settings /\ 0 \in 0..MaxCommit /\ 0 \in 0..setting.deliveries /\ "idle" \in Labels
    BY SettingTypes, Bounds DEF Init, Labels
  <2>2. {superseded, headRead, finalStatusSet, err, postErr, aiNote} \subseteq BOOLEAN
    BY DEF Init
  <2>3. queue \in Seq(Requests) /\ status \in [Commits -> {"none", "pending", "final"}]
    BY DEF Init
  <2> QED BY <2>1, <2>2, <2>3 DEF Init, TypeOK
<1>2. PushedInv /\ HoldsInv /\ HeadInv /\ OrderInv /\ LineInv
  BY DEF Init, PushedInv, HoldsInv, HeadInv, OrderInv, LineInv
<1>3. ReportsInv
  BY DEF Init, ReportsInv, Reports, OnlyOfCur, BeforeTidy, Posting
<1> QED BY <1>1, <1>2, <1>3 DEF CheckEventInv

-----------------------------------------------------------------------------
(* Pushes, webhooks, the end of a context and the queue. *)
LEMMA PushStep == ASSUME CheckEventInv, Push PROVE CheckEventInv'
<1>1. /\ head' = head + 1 /\ head < setting.commits
      /\ UNCHANGED <<setting, deliveries, lastDelivered, sending, queue, latest, pc, checkVars, vcsVars>>
  BY DEF Push
<1>2. UNCHANGED <<cur, ctx, superseded, headRead, finalStatusSet, err, postErr, aiNote, holds, status, comments>>
  BY <1>1 DEF checkVars, vcsVars
<1>3. /\ setting \in Settings /\ head \in 0..MaxCommit /\ cur \in 0..MaxCommit
      /\ lastDelivered \in 0..MaxCommit /\ setting.commits \in 1..MaxCommit
      /\ \A i \in DOMAIN queue : queue[i].commit \in Commits
      /\ \A x \in sending : x.commit \in Commits
      /\ \A x \in comments : x.commit \in Commits
  BY SettingTypes, SeqFacts, RequestTypes DEF CheckEventInv, TypeOK
<1>4. TypeOK'
  BY <1>1, <1>2, <1>3, Bounds DEF CheckEventInv, TypeOK
<1>5. PushedInv'
  BY <1>1, <1>2, <1>3, Bounds DEF CheckEventInv, PushedInv, Commits
<1>6. HoldsInv' /\ HeadInv' /\ OrderInv' /\ LineInv' /\ ReportsInv'
  BY <1>1, <1>2 DEF CheckEventInv, HoldsInv, HeadInv, OrderInv, LineInv, ReportsInv, Reports, OnlyOfCur
<1> QED BY <1>4, <1>5, <1>6 DEF CheckEventInv

LEMMA DeliverStep == ASSUME CheckEventInv, NEW c \in Commits, Deliver(c) PROVE CheckEventInv'
<1> DEFINE x0 == [id |-> deliveries + 1, commit |-> c]
<1>1. /\ c =< head /\ deliveries < setting.deliveries
      /\ setting.inOrder => c = lastDelivered + 1 /\ sending = {}
      /\ deliveries' = deliveries + 1 /\ sending' = sending \cup {x0}
      /\ lastDelivered' = IF c > lastDelivered THEN c ELSE lastDelivered
      /\ latest' = c
      /\ ctx' = ctx \/ (ctx = "live" /\ ctx' = "superseded")
      /\ UNCHANGED <<setting, head, queue, pc, cur, superseded, headRead, finalStatusSet, err, postErr, aiNote,
                     holds, status, comments>>
  BY DEF Deliver, vcsVars
<1>2. /\ lastDelivered \in 0..MaxCommit /\ cur \in 0..MaxCommit /\ head \in 0..MaxCommit /\ setting \in Settings
      /\ queue \in Seq(Requests) /\ deliveries \in 0..setting.deliveries /\ setting.deliveries \in Nat
      /\ sending \subseteq Requests
  BY SettingTypes DEF CheckEventInv, TypeOK
<1>3. /\ \A i \in DOMAIN queue : queue[i] \in Requests /\ queue[i].id \in Nat /\ queue[i].commit \in Commits
      /\ \A x \in sending : x.id \in Nat /\ x.commit \in Commits
  BY <1>2, SeqFacts, RequestTypes
<1>4. x0 \in Requests /\ x0.id = deliveries + 1 /\ x0.commit = c
  <2>1. deliveries + 1 \in 1..setting.deliveries
    BY <1>1, <1>2
  <2> QED BY <1>2, <2>1 DEF Requests
<1>5. TypeOK'
  <2>1. lastDelivered' \in 0..MaxCommit /\ latest' \in 0..MaxCommit /\ deliveries' \in 0..setting.deliveries
    BY <1>1, <1>2, Bounds DEF Commits
  <2> QED BY <1>1, <1>2, <1>4, <2>1 DEF CheckEventInv, TypeOK
<1> HIDE DEF x0
<1>6. PushedInv'
  BY <1>1, <1>2, <1>4, Bounds DEF CheckEventInv, PushedInv, Commits
<1>7. OrderInv'
  BY <1>1, <1>2, <1>3, <1>4, Bounds DEF CheckEventInv, OrderInv, Commits
<1>8. LineInv'
  BY <1>1, <1>2, <1>3, <1>4 DEF CheckEventInv, LineInv
<1>9. HoldsInv' /\ HeadInv' /\ ReportsInv'
  BY <1>1 DEF CheckEventInv, HoldsInv, HeadInv, ReportsInv, Reports, OnlyOfCur
<1> QED BY <1>5, <1>6, <1>7, <1>8, <1>9 DEF CheckEventInv

LEMMA SendStep == ASSUME CheckEventInv, NEW x \in sending, Send(x) PROVE CheckEventInv'
<1>1. /\ sending' = sending \ {x} /\ queue' \in {queue, Append(queue, x)}
      /\ UNCHANGED <<setting, head, deliveries, lastDelivered, latest, pc, cur, ctx, superseded, headRead,
                     finalStatusSet, err, postErr, aiNote, holds, status, comments>>
  BY DEF Send, checkVars, vcsVars
<1>2. /\ lastDelivered \in 0..MaxCommit /\ cur \in 0..MaxCommit /\ head \in 0..MaxCommit
      /\ queue \in Seq(Requests) /\ x \in Requests /\ sending \subseteq Requests
      /\ x.commit \in Commits
  BY DEF CheckEventInv, TypeOK, Requests
<1>3. /\ queue' \in Seq(Requests) /\ Len(queue) \in Nat /\ DOMAIN queue = 1..Len(queue)
      /\ DOMAIN queue' \in {1..Len(queue), 1..(Len(queue) + 1)}
      /\ \A i \in 1..Len(queue) : queue'[i] = queue[i] /\ queue[i] \in Requests /\ queue[i].commit \in Commits
      /\ \A i \in DOMAIN queue' : i \in 1..Len(queue) \/ (i = Len(queue) + 1 /\ queue'[i] = x)
  <2>1. /\ Len(queue) \in Nat /\ DOMAIN queue = 1..Len(queue)
        /\ \A i \in 1..Len(queue) : queue[i] \in Requests /\ queue[i].commit \in Commits
    BY <1>2, SeqFacts, RequestTypes
  <2>2. CASE queue' = queue
    BY <1>2, <2>1, <2>2
  <2>3. CASE queue' = Append(queue, x)
    <3>1. /\ queue' \in Seq(Requests) /\ Len(queue') = Len(queue) + 1 /\ queue'[Len(queue) + 1] = x
          /\ \A i \in 1..Len(queue) : queue'[i] = queue[i]
      BY <1>2, <2>3, SeqFacts
    <3>2. DOMAIN queue' = 1..(Len(queue) + 1)
      BY <3>1, SeqFacts
    <3> QED BY <2>1, <3>1, <3>2
  <2> QED BY <1>1, <2>2, <2>3
<1>4. TypeOK'
  BY <1>1, <1>2, <1>3 DEF CheckEventInv, TypeOK
<1>5. PushedInv' /\ LineInv'
  BY <1>1, <1>3 DEF CheckEventInv, PushedInv, LineInv
<1>6. OrderInv'
  <2> SUFFICES ASSUME setting.inOrder
               PROVE  /\ \A i \in DOMAIN queue' : cur < queue'[i].commit /\ queue'[i].commit =< lastDelivered
                      /\ \A i, j \in DOMAIN queue' : i < j => queue'[i].commit < queue'[j].commit
                      /\ sending' = {}
    BY <1>1 DEF CheckEventInv, OrderInv
  <2>1. /\ x.commit = lastDelivered /\ cur < lastDelivered /\ sending = {x}
        /\ \A i \in 1..Len(queue) : cur < queue[i].commit /\ queue[i].commit < lastDelivered
        /\ \A i, j \in 1..Len(queue) : i < j => queue[i].commit < queue[j].commit
    BY <1>3 DEF CheckEventInv, OrderInv
  <2>2. lastDelivered \in Nat /\ \A i \in 1..Len(queue) : queue[i].commit \in Nat
    BY <1>2, <1>3 DEF Commits
  <2> QED BY <1>1, <1>3, <2>1, <2>2
<1>7. HoldsInv' /\ HeadInv' /\ ReportsInv'
  BY <1>1 DEF CheckEventInv, HoldsInv, HeadInv, ReportsInv, Reports, OnlyOfCur
<1> QED BY <1>4, <1>5, <1>6, <1>7 DEF CheckEventInv

LEMMA ExpireStep == ASSUME CheckEventInv, Expire PROVE CheckEventInv'
<1>1. /\ ctx' = "dead"
      /\ UNCHANGED <<setting, head, deliveries, lastDelivered, sending, queue, latest, pc, cur, superseded,
                     headRead, finalStatusSet, err, postErr, aiNote, holds, status, comments>>
  BY DEF Expire, envVars, vcsVars
<1>2. TypeOK'
  BY <1>1 DEF CheckEventInv, TypeOK
<1> QED BY <1>1, <1>2 DEF CheckEventInv, PushedInv, HoldsInv, HeadInv, OrderInv, LineInv, ReportsInv, Reports,
              OnlyOfCur

LEMMA SkipStep == ASSUME CheckEventInv, SkipCheck PROVE CheckEventInv'
<1>1. /\ pc = "idle" /\ queue # <<>> /\ queue' = Tail(queue)
      /\ UNCHANGED <<setting, head, deliveries, lastDelivered, sending, latest, pc, cur, ctx, superseded,
                     headRead, finalStatusSet, err, postErr, aiNote, holds, status, comments>>
  BY DEF SkipCheck, checkVars, vcsVars
<1>2. queue \in Seq(Requests) /\ cur \in 0..MaxCommit /\ lastDelivered \in 0..MaxCommit
  BY DEF CheckEventInv, TypeOK
<1>3. /\ queue' \in Seq(Requests) /\ Len(queue) \in Nat /\ Len(queue') = Len(queue) - 1
      /\ DOMAIN queue = 1..Len(queue) /\ DOMAIN queue' = 1..(Len(queue) - 1)
      /\ \A i \in 1..(Len(queue) - 1) : queue'[i] = queue[i + 1]
  BY <1>1, <1>2, SeqFacts
<1>4. TypeOK'
  BY <1>1, <1>3 DEF CheckEventInv, TypeOK
<1>5. PushedInv' /\ OrderInv' /\ LineInv'
  BY <1>1, <1>2, <1>3 DEF CheckEventInv, PushedInv, OrderInv, LineInv
<1> QED BY <1>1, <1>4, <1>5 DEF CheckEventInv, HoldsInv, HeadInv, ReportsInv, Reports, OnlyOfCur

(* A new check is of a commit that no comment is of yet. *)
LEMMA StartStep == ASSUME CheckEventInv, StartCheck PROVE CheckEventInv'
<1>1. /\ pc = "idle" /\ queue # <<>> /\ queue' = Tail(queue) /\ cur' = Head(queue).commit
      /\ pc' = "validate" /\ ctx' = "live"
      /\ superseded' = FALSE /\ headRead' = FALSE /\ finalStatusSet' = FALSE
      /\ err' = FALSE /\ postErr' = FALSE /\ aiNote' = FALSE
      /\ UNCHANGED <<setting, head, deliveries, lastDelivered, sending, latest, holds, status, comments>>
  BY DEF StartCheck, vcsVars
<1>2. /\ queue \in Seq(Requests) /\ cur \in 0..MaxCommit /\ lastDelivered \in 0..MaxCommit
      /\ \A x \in comments : x.commit \in Commits
  BY DEF CheckEventInv, TypeOK
<1>3. /\ queue' \in Seq(Requests) /\ Len(queue) \in Nat /\ Len(queue') = Len(queue) - 1
      /\ DOMAIN queue = 1..Len(queue) /\ DOMAIN queue' = 1..(Len(queue) - 1)
      /\ \A i \in 1..(Len(queue) - 1) : queue'[i] = queue[i + 1]
      /\ Len(queue) > 0 /\ cur' = queue[1].commit /\ cur' \in Commits
      /\ \A i \in 1..Len(queue) : queue[i].commit \in Commits
  BY <1>1, <1>2, SeqFacts, RequestTypes
<1>4. TypeOK'
  <2>1. cur' \in 0..MaxCommit /\ pc' \in Labels
    BY <1>1, <1>3, Bounds DEF Commits, Labels
  <2>2. {superseded', headRead', finalStatusSet', err', postErr', aiNote'} \subseteq BOOLEAN
    BY <1>1
  <2> QED BY <1>1, <1>3, <2>1, <2>2 DEF CheckEventInv, TypeOK
<1>5. PushedInv'
  BY <1>1, <1>2, <1>3 DEF CheckEventInv, PushedInv, Commits
<1>6. setting.inOrder => cur < cur'
  BY <1>2, <1>3 DEF CheckEventInv, OrderInv
<1>7. OrderInv' /\ LineInv'
  <2>1. OrderInv'
    <3> SUFFICES ASSUME setting.inOrder
                 PROVE  /\ cur' =< lastDelivered
                        /\ \A i \in DOMAIN queue' : cur' < queue'[i].commit /\ queue'[i].commit =< lastDelivered
                        /\ \A i, j \in DOMAIN queue' : i < j => queue'[i].commit < queue'[j].commit
                        /\ \A x \in sending : /\ x.commit = lastDelivered /\ cur' < lastDelivered
                                              /\ \A i \in DOMAIN queue' : queue'[i].commit < lastDelivered
                                              /\ \A y \in sending : y = x
                        /\ \A x \in comments : x.commit =< cur'
      BY <1>1 DEF OrderInv
    <3>1. /\ \A i \in 1..Len(queue) : queue[i].commit =< lastDelivered
          /\ \A i, j \in 1..Len(queue) : i < j => queue[i].commit < queue[j].commit
          /\ \A x \in sending : /\ x.commit = lastDelivered
                                /\ \A i \in 1..Len(queue) : queue[i].commit < lastDelivered
                                /\ \A y \in sending : y = x
          /\ \A x \in comments : x.commit =< cur
      BY <1>3 DEF CheckEventInv, OrderInv
    <3>2. \A i \in DOMAIN queue' : i + 1 \in 1..Len(queue) /\ queue'[i] = queue[i + 1] /\ 1 < i + 1
      BY <1>3
    <3>3. 1 \in 1..Len(queue)
      BY <1>3
    <3>4. \A i, j \in DOMAIN queue' : i < j => i + 1 < j + 1
      BY <1>3
    <3>5. \A x \in comments : x.commit =< cur'
      BY <1>2, <1>3, <1>6, <3>1 DEF Commits
    <3> QED BY <1>3, <3>1, <3>2, <3>3, <3>4, <3>5
  <2>2. LineInv'
    BY <1>1, <1>2, <1>3 DEF CheckEventInv, LineInv
  <2> QED BY <2>1, <2>2
<1>8. setting.inOrder => Reports(cur)' = {}
  BY <1>1, <1>2, <1>3, <1>6 DEF CheckEventInv, OrderInv, Reports, Commits
<1>9. ReportsInv'
  BY <1>1, <1>8 DEF ReportsInv, Posting
<1> QED BY <1>1, <1>4, <1>5, <1>7, <1>9 DEF CheckEventInv, HoldsInv, HeadInv

-----------------------------------------------------------------------------
(* A check's own steps post for its own commit only. *)
Own == [commit : {cur}, kind : Kinds]
Steady == UNCHANGED <<setting, head, deliveries, lastDelivered, sending, queue, cur, ctx>>

LEMMA OwnComment ==
  ASSUME NEW kind \in Kinds
  PROVE  Comment(kind) \in Own /\ Comment(kind).commit = cur /\ Comment(kind).kind = kind
BY DEF Comment, Own

LEMMA ProcessSteady ==
  ASSUME TypeOK, PushedInv, Process
  PROVE  pc # "idle" /\ cur \in Commits /\ Steady
<1>1. pc # "idle" /\ Steady
  BY DEF Process, Validate, SetRunning, Clone, Prepare, CheckHead, TidyComments, PostNoChanges, CreateNote,
         CreateAINote, RunApps, PostReport, PostAIReport, SetStatus, Settle, FinalStatus, EndCheck, Steady, Return,
         envVars, checkVars, vcsVars
<1> QED BY <1>1, Bounds DEF TypeOK, PushedInv, Commits

LEMMA ProcessTypeOK == ASSUME TypeOK, PushedInv, HoldsInv, Process PROVE TypeOK'
<1> USE DEF envVars, checkVars, vcsVars
<1>1. pc # "idle" /\ cur \in Commits /\ Steady
  BY ProcessSteady
<1>2. \A kind \in Kinds : Comment(kind) \in [commit : Commits, kind : Kinds]
  BY <1>1 DEF Comment
<1>3. ASSUME NEW s \in {"none", "pending", "final"}, NEW ok \in BOOLEAN, CommitStatus(s, ok)
      PROVE  status' \in [Commits -> {"none", "pending", "final"}] /\ finalStatusSet' \in BOOLEAN
  BY <1>1, <1>3 DEF CommitStatus, TypeOK
<1>4. ASSUME NEW e \in BOOLEAN, Return(e)
      PROVE  err' \in BOOLEAN /\ holds' \in 0..1 /\ pc' \in Labels
  BY <1>4 DEF Return, Labels
<1>5. \A aware \in BOOLEAN : Outcomes(aware) \subseteq BOOLEAN
  BY OutcomeFacts
<1>6. setting.gitHub \in BOOLEAN /\ setting.flaky \in BOOLEAN
  BY SettingTypes DEF TypeOK
<1>7. CASE Validate
  BY <1>2, <1>4, <1>7 DEF Validate, TypeOK, Labels, Kinds
<1>8. CASE SetRunning
  BY <1>3, <1>5, <1>6, <1>8 DEF SetRunning, TypeOK, Labels
<1>9. CASE Clone
  <2>1. comments' \subseteq comments \cup {Comment("notice")}
    BY <1>9 DEF Clone
  <2>2. comments' \in SUBSET [commit : Commits, kind : Kinds]
    BY <1>2, <2>1 DEF TypeOK, Kinds
  <2>3. err' \in BOOLEAN /\ holds' \in 0..1 /\ pc' \in Labels
    <3>1. holds = 0 /\ err \in BOOLEAN
      BY <1>9 DEF Clone, HoldsInv, TypeOK
    <3>2. CASE Return(TRUE)
      BY <1>4, <3>2
    <3>3. CASE holds' = holds + 1 /\ pc' = "prepare" /\ err' = err
      BY <3>1, <3>3 DEF Labels
    <3> QED BY <1>9, <3>2, <3>3 DEF Clone
  <2> QED BY <1>9, <2>2, <2>3 DEF Clone, TypeOK
<1>10. CASE Prepare
  BY <1>4, <1>10 DEF Prepare, TypeOK, Labels
<1>11. CASE CheckHead
  BY <1>4, <1>5, <1>11 DEF CheckHead, TypeOK, Labels
<1>12. CASE TidyComments
  BY <1>12 DEF TidyComments, Tidied, TypeOK, Labels
<1>13. CASE PostNoChanges
  BY <1>2, <1>4, <1>5, <1>6, <1>13 DEF PostNoChanges, TypeOK, Kinds
<1>14. CASE CreateNote
  <2>1. comments' \subseteq comments \cup {Comment("running")}
    BY <1>14 DEF CreateNote
  <2>2. comments' \in SUBSET [commit : Commits, kind : Kinds]
    BY <1>2, <2>1 DEF TypeOK, Kinds
  <2>3. err' \in BOOLEAN /\ holds' \in 0..1 /\ pc' \in Labels
    <3>1. err \in BOOLEAN /\ holds \in 0..1
      BY DEF TypeOK
    <3> QED BY <1>4, <1>14, <3>1 DEF CreateNote, Labels
  <2> QED BY <1>14, <2>2, <2>3 DEF CreateNote, TypeOK
<1>15. CASE CreateAINote
  <2>1. comments' \subseteq comments \cup {Comment("AI running")}
    BY <1>15 DEF CreateAINote
  <2>2. comments' \in SUBSET [commit : Commits, kind : Kinds]
    BY <1>2, <2>1 DEF TypeOK, Kinds
  <2>3. aiNote' \in BOOLEAN /\ pc' \in Labels
    BY <1>5, <1>6, <1>15 DEF CreateAINote, Labels
  <2> QED BY <1>15, <2>2, <2>3 DEF CreateAINote, TypeOK
<1>16. CASE RunApps
  BY <1>16 DEF RunApps, TypeOK, Labels
<1>17. CASE PostReport
  BY <1>2, <1>5, <1>17 DEF PostReport, TypeOK, Labels, Kinds
<1>18. CASE PostAIReport
  BY <1>2, <1>18 DEF PostAIReport, TypeOK, Labels, Kinds
<1>19. CASE SetStatus
  <2>1. status' \in [Commits -> {"none", "pending", "final"}] /\ finalStatusSet' \in BOOLEAN
    <3>1. \E ok \in BOOLEAN : CommitStatus("final", ok)
      BY <1>5, <1>6, <1>19 DEF SetStatus
    <3> QED BY <1>3, <3>1
  <2>2. err' \in BOOLEAN /\ holds' \in 0..1 /\ pc' \in Labels
    BY <1>4, <1>19 DEF SetStatus, TypeOK
  <2> QED BY <1>19, <2>1, <2>2 DEF SetStatus, TypeOK
<1>20. CASE Settle
  BY <1>20 DEF Settle, TypeOK, Labels
<1>21. CASE FinalStatus
  <2>1. status' \in [Commits -> {"none", "pending", "final"}] /\ finalStatusSet' \in BOOLEAN
    <3>1. \E ok \in BOOLEAN : CommitStatus("final", ok)
      BY <1>6, <1>21 DEF FinalStatus
    <3> QED BY <1>3, <3>1
  <2> QED BY <1>21, <2>1 DEF FinalStatus, TypeOK, Labels
<1>22. CASE EndCheck
  BY <1>22, Bounds DEF EndCheck, TypeOK, Labels
<1> QED BY <1>7, <1>8, <1>9, <1>10, <1>11, <1>12, <1>13, <1>14, <1>15, <1>16, <1>17, <1>18, <1>19, <1>20,
           <1>21, <1>22 DEF Process

-----------------------------------------------------------------------------
(* What a step of the check does to the comments. *)
LEMMA CommentsStep ==
  ASSUME TypeOK, Process
  PROVE  comments' \subseteq comments \cup Own
<1> USE DEF Kinds
<1>1. CASE Validate \/ Clone
  BY <1>1, OwnComment DEF Validate, Clone
<1>2. CASE SetRunning \/ Prepare \/ CheckHead \/ RunApps \/ SetStatus \/ Settle \/ FinalStatus \/ EndCheck
  BY <1>2 DEF SetRunning, Prepare, CheckHead, RunApps, SetStatus, Settle, FinalStatus, EndCheck, checkVars, vcsVars
<1>3. CASE TidyComments
  BY <1>3 DEF TidyComments, Tidied
<1>4. CASE PostNoChanges \/ CreateNote \/ CreateAINote \/ PostReport \/ PostAIReport
  BY <1>4, OwnComment DEF PostNoChanges, CreateNote, CreateAINote, PostReport, PostAIReport
<1> QED BY <1>1, <1>2, <1>3, <1>4 DEF Process

LEMMA HoldsStep == ASSUME HoldsInv, Process PROVE HoldsInv'
BY DEF HoldsInv, Process, Validate, SetRunning, Clone, Prepare, CheckHead, TidyComments, PostNoChanges,
       CreateNote, CreateAINote, RunApps, PostReport, PostAIReport, SetStatus, Settle, FinalStatus, EndCheck, Return, checkVars

LEMMA HeadStep == ASSUME CheckEventInv, Process PROVE HeadInv'
<1>1. Steady /\ comments' \subseteq comments \cup Own
  BY ProcessSteady, CommentsStep DEF CheckEventInv
<1>2. CASE CheckHead
  <2>1. (headRead' /\ ~superseded') => head = cur
    <3>1. PICK ok \in Outcomes(TRUE) : /\ headRead' = ok
                                       /\ SeesNewerHead(ok) => superseded' = TRUE
      BY <1>2 DEF CheckHead
    <3>2. headRead' /\ head # cur => SeesNewerHead(ok)
      BY <3>1 DEF SeesNewerHead
    <3> QED BY <3>1, <3>2
  <2>2. superseded' => pc' = "settle"
    BY <1>2 DEF CheckHead, Return, CheckEventInv, HeadInv
  <2>3. comments' = comments
    BY <1>2 DEF CheckHead, vcsVars
  <2> QED BY <1>1, <2>1, <2>2, <2>3 DEF CheckEventInv, PushedInv, HeadInv, Steady
<1>3. CASE ~CheckHead
  <2>1. UNCHANGED <<superseded, headRead>>
    BY <1>3 DEF Process, Validate, SetRunning, Clone, Prepare, TidyComments, PostNoChanges, CreateNote,
                CreateAINote, RunApps, PostReport, PostAIReport, SetStatus, Settle, FinalStatus, EndCheck, checkVars
  <2>2. superseded /\ pc \in {"settle", "end"} => pc' \in {"end", "idle"}
    BY <1>3 DEF Process, Validate, SetRunning, Clone, Prepare, TidyComments, PostNoChanges, CreateNote,
                CreateAINote, RunApps, PostReport, PostAIReport, SetStatus, Settle, NeedsFinal, FinalStatus,
                EndCheck
  <2>3. pc # "idle"
    BY ProcessSteady DEF CheckEventInv
  <2>4. superseded' => pc' \in {"settle", "end", "idle"}
    BY <2>1, <2>2, <2>3 DEF CheckEventInv, HeadInv
  <2>5. headRead' /\ ~superseded' => \A x \in comments' : x.commit =< cur'
    <3>1. cur \in Int /\ \A x \in Own : x.commit = cur
      BY DEF CheckEventInv, TypeOK, Own
    <3> QED BY <1>1, <2>1, <3>1 DEF CheckEventInv, HeadInv, Steady
  <2> QED BY <2>4, <2>5 DEF HeadInv
<1> QED BY <1>2, <1>3

LEMMA OtherStep == ASSUME CheckEventInv, Process PROVE PushedInv' /\ OrderInv' /\ LineInv'
<1>1. Steady /\ comments' \subseteq comments \cup Own /\ pc # "idle"
  BY ProcessSteady, CommentsStep DEF CheckEventInv
<1>2. cur \in Int /\ cur =< head /\ \A x \in Own : x.commit = cur
  BY DEF CheckEventInv, TypeOK, PushedInv, Own
<1> QED BY <1>1, <1>2 DEF CheckEventInv, PushedInv, OrderInv, LineInv, Steady

(* No two reports of different commits: what a step posts is of cur, and   *)
(* until the tidying there is no report of cur.                            *)
LEMMA ReportsStep == ASSUME CheckEventInv, Process PROVE ReportsInv'
<1> SUFFICES ASSUME setting'.inOrder, ~setting'.flaky
             PROVE  /\ OnlyOfCur' \/ Reports(cur)' = {}
                    /\ pc' \in BeforeTidy => Reports(cur)' = {}
                    /\ pc' \in Posting => OnlyOfCur' \/ (Reports(cur)' = {} /\ setting'.gitHub /\ ctx' # "live")
  BY DEF ReportsInv
<1>1. Steady /\ comments' \subseteq comments \cup Own /\ \A x \in Own : x.commit = cur
  BY ProcessSteady, CommentsStep DEF CheckEventInv, Own
<1>2. setting.inOrder /\ ~setting.flaky /\ setting.gitHub \in BOOLEAN
  BY <1>1, SettingTypes DEF Steady, CheckEventInv, TypeOK
<1>3. /\ OnlyOfCur \/ Reports(cur) = {}
      /\ pc \in BeforeTidy => Reports(cur) = {}
      /\ pc \in Posting => OnlyOfCur \/ (Reports(cur) = {} /\ setting.gitHub /\ ctx # "live")
  BY <1>2 DEF CheckEventInv, ReportsInv
<1>4. OnlyOfCur => OnlyOfCur'
  BY <1>1 DEF OnlyOfCur, Steady
<1>5. ASSUME \A x \in comments' : x \in comments \/ x.kind = "notice" PROVE Reports(cur) = {} => Reports(cur)' = {}
  BY <1>1, <1>5 DEF Reports, Steady
<1>6. CASE Validate \/ SetRunning \/ Clone \/ Prepare \/ CheckHead
  <2>1. \A x \in comments' : x \in comments \/ x.kind = "notice"
    <3>1. comments' \subseteq comments \cup {Comment("notice")}
      BY <1>6 DEF Validate, SetRunning, Clone, Prepare, CheckHead, vcsVars
    <3>2. Comment("notice").kind = "notice"
      BY OwnComment DEF Kinds
    <3> QED BY <3>1, <3>2
  <2>2. pc \in BeforeTidy /\ pc' \notin Posting
    BY <1>6 DEF Validate, SetRunning, Clone, Prepare, CheckHead, Return, BeforeTidy, Posting
  <2> QED BY <1>3, <1>5, <2>1, <2>2
<1>7. CASE TidyComments
  <2>1. pc \in BeforeTidy /\ pc' \notin BeforeTidy
    BY <1>7 DEF TidyComments, BeforeTidy
  <2>2. PICK ok \in Outcomes(setting.gitHub) : comments' = IF ok THEN Tidied ELSE comments
    BY <1>7 DEF TidyComments
  <2>3. CASE ok
    <3>1. OnlyOfCur'
      BY <2>2, <2>3 DEF Tidied, OnlyOfCur
    <3> QED BY <2>1, <3>1
  <2>4. CASE ~ok
    <3>1. setting.gitHub /\ ctx # "live"
      BY <1>2, <2>2, <2>4, OutcomeFacts
    <3>2. Reports(cur)' = {}
      BY <1>3, <1>5, <2>1, <2>2, <2>4
    <3> QED BY <1>1, <2>1, <3>1, <3>2 DEF Steady
  <2> QED BY <2>3, <2>4
<1>8. CASE PostNoChanges \/ CreateNote \/ CreateAINote \/ PostReport \/ PostAIReport
  <2>1. pc \in Posting /\ pc' \notin BeforeTidy
    BY <1>8 DEF PostNoChanges, CreateNote, CreateAINote, PostReport, PostAIReport, Return, Posting, BeforeTidy
  <2>2. CASE OnlyOfCur
    BY <1>4, <2>1, <2>2
  <2>3. CASE Reports(cur) = {} /\ setting.gitHub /\ ctx # "live"
    <3>1. TRUE \notin Outcomes(setting.gitHub) /\ TRUE \notin Outcomes(TRUE)
      BY <1>2, <2>3, OutcomeFacts
    <3>2. \A aware \in BOOLEAN : Outcomes(aware) \subseteq BOOLEAN
      BY OutcomeFacts
    <3>3. comments' = comments
      BY <1>2, <1>8, <3>1, <3>2 DEF PostNoChanges, CreateNote, CreateAINote, PostReport, PostAIReport
    <3> QED BY <1>1, <1>5, <2>1, <2>3, <3>3 DEF Steady
  <2> QED BY <1>3, <2>1, <2>2, <2>3
<1>9. CASE RunApps \/ SetStatus \/ Settle \/ FinalStatus \/ EndCheck
  <2>1. comments' = comments /\ pc' \notin BeforeTidy /\ (pc' \in Posting => pc \in Posting)
    BY <1>9 DEF RunApps, SetStatus, Settle, FinalStatus, EndCheck, Return, Posting, BeforeTidy, vcsVars
  <2> QED BY <1>1, <1>3, <1>4, <1>5, <2>1 DEF Steady
<1> QED BY <1>6, <1>7, <1>8, <1>9 DEF Process

LEMMA NextInv == CheckEventInv /\ [Next]_vars => CheckEventInv'
<1> SUFFICES ASSUME CheckEventInv, [Next]_vars PROVE CheckEventInv'
  OBVIOUS
<1>1. CASE UNCHANGED vars
  BY <1>1 DEF vars, envVars, checkVars, vcsVars, CheckEventInv, TypeOK, PushedInv, HoldsInv, HeadInv, OrderInv,
              LineInv, ReportsInv, Reports, OnlyOfCur
<1>2. CASE Process
  BY <1>2, ProcessTypeOK, OtherStep, HoldsStep, HeadStep, ReportsStep DEF CheckEventInv
<1> QED BY <1>1, <1>2, PushStep, DeliverStep, SendStep, ExpireStep, SkipStep, StartStep DEF Next

(* The inductive invariant. *)
THEOREM CheckEventInvariant == Spec => []CheckEventInv
BY InitInv, NextInv, PTL DEF Spec

(* Type correctness: a check holds at most one reference on the cache, and *)
(* comments, statuses and the queue are of pushed commits.                 *)
THEOREM CheckEventTypeOK == Spec => []TypeOK
BY CheckEventInvariant, PTL DEF CheckEventInv

(* When all webhooks are worked off and the head has a report, no report   *)
(* of an older commit is visible (TidyOutdatedComments).                   *)
THEOREM HeadReportedOnly == Spec => []OnlyHeadReported
<1>1. CheckEventInv => OnlyHeadReported
  <2> SUFFICES ASSUME CheckEventInv, setting.inOrder, ~setting.flaky, Quiet, Reports(head) # {},
                      NEW c \in Commits, c # head
               PROVE  Reports(c) = {}
    BY DEF OnlyHeadReported
  <2>1. PICK x \in comments : x.commit = head /\ x.kind # "notice"
    BY DEF Reports
  <2>2. cur = head
    <3>1. x.commit =< cur /\ cur =< head /\ cur \in Int /\ head \in Int
      BY DEF CheckEventInv, OrderInv, PushedInv, TypeOK
    <3> QED BY <2>1, <3>1
  <2>3. OnlyOfCur
    BY <2>1, <2>2 DEF CheckEventInv, ReportsInv, Reports
  <2> QED BY <2>2, <2>3 DEF OnlyOfCur, Reports
<1> QED BY <1>1, CheckEventInvariant, PTL

(* A check that could read the head hides no report of a newer commit,     *)
(* whatever was pushed after it read it (isSuperseded).                    *)
THEOREM NewerReportsSurvive == Spec => NewerReportSurvives
<1>1. ASSUME CheckEventInv, [Next]_vars
      PROVE  [headRead' => \A c \in Commits : c > cur' => Reports(c) \subseteq comments']_vars
  <2> SUFFICES ASSUME Next, headRead', NEW c \in Commits, c > cur', NEW x \in Reports(c) PROVE x \in comments'
    BY <1>1
  <2>1. x \in comments /\ x.commit = c
    BY DEF Reports
  <2>2. CASE ~Process
    BY <2>1, <2>2 DEF Next, Push, Deliver, Send, Expire, SkipCheck, StartCheck, vcsVars
  <2>3. CASE TidyComments
    <3>1. headRead /\ ~superseded /\ cur' = cur
      BY <1>1, <2>3 DEF TidyComments, checkVars, CheckEventInv, HeadInv
    <3>2. x.commit =< cur /\ cur \in Int /\ c \in Int
      BY <1>1, <2>1, <3>1 DEF CheckEventInv, HeadInv, TypeOK, Commits
    <3> QED BY <2>1, <3>1, <3>2
  <2>4. CASE PostReport \/ PostAIReport
    <3>1. cur' = cur /\ c # cur
      <4>1. cur' = cur
        BY <2>4 DEF PostReport, PostAIReport, checkVars
      <4>2. cur \in Int /\ c \in Int
        BY <1>1 DEF CheckEventInv, TypeOK, Commits
      <4> QED BY <4>1, <4>2
    <3>2. x # Comment("running") /\ x # Comment("AI running")
      <4>1. \A kind : Comment(kind).commit = cur
        BY DEF Comment
      <4> QED BY <2>1, <3>1, <4>1
    <3>3. comments \subseteq comments' \cup {Comment("running"), Comment("AI running")}
      BY <2>4 DEF PostReport, PostAIReport
    <3> QED BY <2>1, <3>2, <3>3
  <2>5. CASE Validate \/ SetRunning \/ Clone \/ Prepare \/ CheckHead \/ PostNoChanges \/ CreateNote
             \/ CreateAINote \/ RunApps \/ SetStatus \/ Settle \/ FinalStatus \/ EndCheck
    BY <2>1, <2>5 DEF Validate, SetRunning, Clone, Prepare, CheckHead, PostNoChanges, CreateNote, CreateAINote,
                      RunApps, SetStatus, Settle, FinalStatus, EndCheck, checkVars, vcsVars
  <2> QED BY <2>2, <2>3, <2>4, <2>5 DEF Process
<1> QED BY <1>1, CheckEventInvariant, PTL DEF Spec, NewerReportSurvives

(* A check that saw a newer head writes no status and no report any more,  *)
(* nor, on GitHub, one that the queue cancelled before settle looked at    *)
(* the cause.                                                              *)
THEOREM SupersededStaysSilent == Spec => SupersededIsSilent
<1>1. ASSUME CheckEventInv, [Next]_vars
      PROVE  [/\ pc \notin {"idle", "finalStatus"}
              /\ superseded \/ (setting.gitHub /\ ctx = "superseded")
              => /\ pc' # "finalStatus"
                 /\ status' = status
                 /\ \A c \in Commits : Reports(c)' = Reports(c)]_vars
  <2> SUFFICES ASSUME Next, pc \notin {"idle", "finalStatus"},
                      superseded \/ (setting.gitHub /\ ctx = "superseded")
               PROVE  /\ pc' # "finalStatus"
                      /\ status' = status /\ \A c \in Commits : Reports(c)' = Reports(c)
    BY <1>1
  <2>0. pc' # "finalStatus"
    <3>1. CASE ~Process
      BY <3>1 DEF Next, Push, Deliver, Send, Expire, SkipCheck, StartCheck
    <3>2. CASE Process
      BY <3>2 DEF Process, Validate, SetRunning, Clone, Prepare, CheckHead, TidyComments, PostNoChanges,
                  CreateNote, CreateAINote, RunApps, PostReport, PostAIReport, SetStatus, Settle,
                  NeedsFinal, FinalStatus, EndCheck, Return
    <3> QED BY <3>1, <3>2
  <2>1. ASSUME comments' = comments PROVE \A c \in Commits : Reports(c)' = Reports(c)
    BY <2>1 DEF Reports
  <2>2. CASE ~Process
    BY <2>0, <2>1, <2>2 DEF Next, Push, Deliver, Send, Expire, SkipCheck, StartCheck, vcsVars
  <2>3. CASE Process /\ superseded
    <3>1. pc \in {"settle", "end"}
      BY <1>1, <2>3 DEF CheckEventInv, HeadInv
    <3>2. Settle \/ EndCheck
      BY <2>3, <3>1 DEF Process, Validate, SetRunning, Clone, Prepare, CheckHead, TidyComments, PostNoChanges,
                        CreateNote, CreateAINote, RunApps, PostReport, PostAIReport, SetStatus, FinalStatus
    <3> QED BY <2>0, <2>1, <3>2 DEF Settle, EndCheck, vcsVars
  <2>4. CASE Process /\ setting.gitHub /\ ctx = "superseded"
    <3>1. setting.gitHub = TRUE
      BY <1>1, <2>4, SettingTypes DEF CheckEventInv, TypeOK
    <3>2. \A ok \in Outcomes(TRUE) : ok = FALSE
      BY <2>4, OutcomeFacts
    <3>3. CASE Validate \/ Clone
      <4>1. status' = status /\ comments \subseteq comments' /\ comments' \subseteq comments \cup {Comment("notice")}
        BY <3>3 DEF Validate, Clone
      <4>2. Comment("notice").kind = "notice"
        BY DEF Comment
      <4> QED BY <2>0, <4>1, <4>2 DEF Reports
    <3>4. CASE SetRunning \/ TidyComments \/ PostNoChanges \/ CreateNote \/ CreateAINote \/ PostReport
               \/ PostAIReport \/ SetStatus
      <4>1. status' = status /\ comments' = comments
        BY <3>1, <3>2, <3>4 DEF SetRunning, TidyComments, PostNoChanges, CreateNote, CreateAINote, PostReport,
                                PostAIReport, SetStatus, CommitStatus
      <4> QED BY <2>0, <2>1, <4>1
    <3>5. CASE Prepare \/ CheckHead \/ RunApps \/ Settle \/ EndCheck
      BY <2>0, <2>1, <3>5 DEF Prepare, CheckHead, RunApps, Settle, EndCheck, vcsVars
    <3>6. ~FinalStatus
      BY DEF FinalStatus
    <3> QED BY <2>4, <3>3, <3>4, <3>5, <3>6 DEF Process
  <2> QED BY <2>0, <2>2, <2>3, <2>4
<1> QED BY <1>1, CheckEventInvariant, PTL DEF Spec, SupersededIsSilent

-----------------------------------------------------------------------------
(* The queue.  A request that is sent is behind all others; the one that   *)
(* leaves was ahead of all others.                                         *)
LEMMA SendAhead ==
  ASSUME queue \in Seq(Requests), NEW x \in Requests, x \notin Waiting, queue' = Append(queue, x)
  PROVE  Waiting' = Waiting \cup {x} /\ Ahead' = [Ahead EXCEPT ![x] = Waiting]
<1> DEFINE n == Len(queue)
<1>1. /\ n \in Nat /\ DOMAIN queue = 1..n /\ DOMAIN queue' = 1..(n + 1) /\ queue'[n + 1] = x
      /\ \A i \in 1..n : queue'[i] = queue[i]
  <2>1. queue' \in Seq(Requests) /\ Len(queue') = n + 1
    BY SeqFacts
  <2> QED BY <2>1, SeqFacts
<1> HIDE DEF n
<1>2. Waiting' = Waiting \cup {x} /\ \A i \in 1..n : queue[i] # x /\ queue[i] \in Waiting
  BY <1>1 DEF Waiting
<1>3. \A y \in Requests : Ahead'[y] = IF y = x THEN Waiting ELSE Ahead[y]
  <2> TAKE y \in Requests
  <2>1. /\ Ahead[y] = {z \in Waiting : \E i, j \in 1..n : i < j /\ queue[i] = z /\ queue[j] = y}
        /\ Ahead'[y] = {z \in Waiting' : \E i, j \in 1..(n + 1) : i < j /\ queue'[i] = z /\ queue'[j] = y}
    BY <1>1 DEF Ahead
  <2>2. CASE y = x
    <3>1. \A z \in Waiting : \E i \in 1..n : queue'[i] = z /\ i < n + 1
      BY <1>1 DEF Waiting
    <3>2. n + 1 \in 1..(n + 1) /\ \A i \in 1..n : i \in 1..(n + 1)
      BY <1>1
    <3>3. \A i, j \in 1..(n + 1) : i < j => i \in 1..n
      BY <1>1
    <3> QED BY <1>1, <1>2, <2>1, <2>2, <3>1, <3>2, <3>3
  <2>3. CASE y # x
    <3>1. \A j \in 1..(n + 1) : queue'[j] = y => j \in 1..n
      BY <1>1, <2>3
    <3>2. \A i, j \in 1..(n + 1) : i < j /\ j \in 1..n => i \in 1..n
      BY <1>1
    <3>3. \A i \in 1..n : i \in 1..(n + 1)
      BY <1>1
    <3> QED BY <1>1, <1>2, <2>1, <2>3, <3>1, <3>2, <3>3
  <2> QED BY <2>2, <2>3
<1>4. Ahead = [y \in Requests |-> Ahead[y]] /\ Ahead' = [y \in Requests |-> Ahead'[y]]
  BY DEF Ahead
<1> QED BY <1>2, <1>3, <1>4

LEMMA HeadLeaves ==
  ASSUME queue \in Seq(Requests), queue # << >>, \A i, j \in DOMAIN queue : queue[i] = queue[j] => i = j,
         queue' = Tail(queue)
  PROVE  /\ Head(queue) \in Requests /\ Head(queue) \in Waiting /\ Ahead[Head(queue)] = {}
         /\ Waiting' = Waiting \ {Head(queue)}
         /\ Ahead' = [y \in Requests |-> Ahead[y] \ {Head(queue)}]
<1> DEFINE n == Len(queue)
           h == Head(queue)
<1>1. /\ n \in Nat /\ n > 0 /\ DOMAIN queue = 1..n /\ DOMAIN queue' = 1..(n - 1) /\ h = queue[1] /\ h \in Requests
      /\ \A i \in 1..(n - 1) : queue'[i] = queue[i + 1]
  BY SeqFacts
<1> HIDE DEF n, h
<1>2. /\ 1 \in 1..n /\ \A i \in 1..(n - 1) : i + 1 \in 1..n /\ i + 1 # 1
      /\ \A i \in 1..n : i = 1 \/ (i - 1 \in 1..(n - 1) /\ (i - 1) + 1 = i)
  BY <1>1
<1>3. /\ \A i \in 1..n : queue[i] = h => i = 1
      /\ \A i \in 1..n : i # 1 => queue'[i - 1] = queue[i]
  BY <1>1, <1>2
<1>4. h \in Waiting /\ Waiting' = Waiting \ {h}
  <2>1. \A z \in Waiting' : z \in Waiting /\ z # h
    BY <1>1, <1>2, <1>3 DEF Waiting
  <2>2. ASSUME NEW i \in 1..n, i # 1 PROVE queue[i] \in Waiting'
    <3>1. i - 1 \in DOMAIN queue' /\ queue'[i - 1] = queue[i]
      BY <1>1, <1>2, <1>3, <2>2
    <3> QED BY <3>1 DEF Waiting
  <2>3. h \in Waiting /\ \A z \in Waiting : \E i \in 1..n : z = queue[i]
    BY <1>1, <1>2 DEF Waiting
  <2> QED BY <1>1, <2>1, <2>2, <2>3
<1>5. \A y \in Requests :
        /\ Ahead[y] = {z \in Waiting : \E i, j \in 1..n : i < j /\ queue[i] = z /\ queue[j] = y}
        /\ Ahead'[y] = {z \in Waiting' : \E i, j \in DOMAIN queue' : i < j /\ queue'[i] = z /\ queue'[j] = y}
  <2> TAKE y \in Requests
  <2>1. Ahead[y] = {z \in Waiting : \E i, j \in 1..n : i < j /\ queue[i] = z /\ queue[j] = y}
    BY <1>1 DEF Ahead
  <2>2. Ahead'[y] = {z \in Waiting' : \E i, j \in DOMAIN queue' : i < j /\ queue'[i] = z /\ queue'[j] = y}
    BY <1>1 DEF Ahead
  <2> QED BY <2>1, <2>2
<1>6. Ahead[h] = {}
  <2>1. \A i, j \in 1..n : i < j => j # 1
    BY <1>1
  <2> QED BY <1>1, <1>3, <1>5, <2>1
<1>7. \A y \in Requests : Ahead'[y] = Ahead[y] \ {h}
  <2> TAKE y \in Requests
  <2>1. ASSUME NEW z \in Ahead'[y] PROVE z \in Ahead[y] /\ z # h
    <3>0. z \in Waiting' /\ \E i, j \in DOMAIN queue' : i < j /\ queue'[i] = z /\ queue'[j] = y
      BY <1>5, <2>1
    <3>1. PICK i \in 1..(n - 1), j \in 1..(n - 1) : i < j /\ queue'[i] = z /\ queue'[j] = y
      BY <1>1, <3>0
    <3>2. i + 1 < j + 1
      BY <1>1, <3>1
    <3> QED BY <1>1, <1>2, <1>4, <1>5, <3>0, <3>1, <3>2
  <2>2. ASSUME NEW z \in Ahead[y], z # h PROVE z \in Ahead'[y]
    <3>1. PICK i \in 1..n, j \in 1..n : i < j /\ queue[i] = z /\ queue[j] = y
      BY <1>5, <2>2
    <3>2. i # 1 /\ j # 1 /\ i - 1 < j - 1
      BY <1>1, <2>2, <3>1
    <3>3. queue'[i - 1] = z /\ queue'[j - 1] = y /\ i - 1 \in 1..(n - 1) /\ j - 1 \in 1..(n - 1)
      BY <1>2, <1>3, <3>1, <3>2
    <3>4. i - 1 \in DOMAIN queue' /\ j - 1 \in DOMAIN queue' /\ z \in Waiting'
      BY <1>1, <1>4, <1>5, <2>2, <3>3
    <3> QED BY <1>5, <3>2, <3>3, <3>4
  <2> QED BY <2>1, <2>2
<1>8. Ahead' = [y \in Requests |-> Ahead'[y]]
  BY DEF Ahead
<1> QED BY <1>1, <1>4, <1>6, <1>7, <1>8 DEF h

(* The checks of a pull request are started, skipped and cancelled as the  *)
(* queue of PRQueue does it, which RepoQueue implements (QueuesAreShared): *)
(* supersede, send, begin and end are the queue's, and no step of the      *)
(* check touches it.                                                       *)
THEOREM ChecksAreQueued == Spec => QueueOfPR
<1>1. Init => Q!Init
  BY DEF Init, Q!Init, Waiting, Ahead
<1>2. ASSUME CheckEventInv, CheckEventInv', [Next]_vars PROVE [Q!Next]_(Q!vars)
  <2>1. /\ queue \in Seq(Requests) /\ sending \subseteq Requests /\ cur \in Nat /\ MaxCommit \in Nat
        /\ \A i, j \in DOMAIN queue : queue[i] = queue[j] => i = j
        /\ ctx \in {"live", "superseded", "dead"} /\ (pc # "idle" => cur # 0)
        /\ \A x \in Requests : x.commit # 0
    BY <1>2, Bounds, RequestTypes DEF CheckEventInv, TypeOK, LineInv, PushedInv, Commits
  <2>2. queue' = queue => UNCHANGED <<Waiting, Ahead>>
    BY DEF Waiting, Ahead
  <2>3. CASE Push \/ UNCHANGED vars
    BY <2>2, <2>3 DEF Push, vars, envVars, checkVars, Q!vars
  <2>4. ASSUME NEW c \in Commits, Deliver(c) PROVE Q!Next
    <3>1. PICK x : /\ x = [id |-> deliveries + 1, commit |-> c] /\ sending' = sending \cup {x}
                   /\ queue' = queue /\ latest' = c /\ pc' = pc /\ cur' = cur
                   /\ ctx' = IF pc # "idle" /\ cur # c /\ ctx = "live" THEN "superseded" ELSE ctx
      BY <2>4 DEF Deliver
    <3>2. x \in Requests /\ x.commit = c
      BY <1>2, <3>1 DEF CheckEventInv, TypeOK
    <3>3. x \notin sending \cup Waiting
      <4>1. deliveries \in Nat /\ x.id = deliveries + 1
        BY <1>2, <3>1, SettingTypes DEF CheckEventInv, TypeOK
      <4>2. \A y \in sending \cup Waiting : y.id =< deliveries
        BY <1>2 DEF CheckEventInv, LineInv, Waiting
      <4> QED BY <4>1, <4>2
    <3>4. Q!Record(x)
      BY <2>2, <3>1, <3>2, <3>3 DEF Q!Record
    <3> QED BY <3>2, <3>4 DEF Q!Next
  <2>5. ASSUME NEW x \in sending, Send(x) PROVE Q!Next
    <3>1. /\ x \in Requests /\ x \in sending /\ sending' = sending \ {x}
          /\ UNCHANGED <<latest, pc, cur, ctx>>
      BY <2>1, <2>5 DEF Send, checkVars
    <3>2. CASE queue' = queue
      <4>1. Q!Reject(x)
        BY <2>2, <3>1, <3>2 DEF Q!Reject, Q!Sent
      <4> QED BY <3>1, <4>1 DEF Q!Next
    <3>3. CASE queue' = Append(queue, x)
      <4>1. x \notin Waiting
        BY <1>2 DEF CheckEventInv, LineInv, Waiting
      <4>2. Q!Accept(x)
        BY <2>1, <3>1, <3>3, <4>1, SendAhead DEF Q!Accept, Q!Sent
      <4> QED BY <3>1, <4>2 DEF Q!Next
    <3> QED BY <2>5, <3>2, <3>3 DEF Send
  <2>6. CASE Expire
    <3>1. Q!Expire
      BY <2>2, <2>6 DEF Expire, Q!Expire, envVars
    <3> QED BY <3>1 DEF Q!Next
  <2>7. CASE SkipCheck
    <3>1. Q!Skip(Head(queue)) /\ Head(queue) \in Requests
      BY <2>1, <2>7, HeadLeaves DEF SkipCheck, checkVars, Q!Skip, Q!Leave
    <3> QED BY <3>1 DEF Q!Next, Q!Skip, Q!Leave
  <2>8. CASE StartCheck
    <3>1. Q!Begin(Head(queue)) /\ Head(queue) \in Requests
      BY <2>1, <2>8, HeadLeaves DEF StartCheck, Q!Begin, Q!Leave
    <3> QED BY <3>1 DEF Q!Next, Q!Begin, Q!Leave
  <2>9. CASE EndCheck
    <3>1. Q!End
      BY <2>1, <2>2, <2>9 DEF EndCheck, checkVars, Q!End
    <3> QED BY <3>1 DEF Q!Next
  <2>10. CASE Process /\ ~EndCheck
    <3>1. Steady /\ latest' = latest /\ pc # "idle" /\ pc' # "idle"
      <4>1. latest' = latest /\ pc' # "idle"
        BY <2>10 DEF Process, Validate, SetRunning, Clone, Prepare, CheckHead, TidyComments, PostNoChanges,
                     CreateNote, CreateAINote, RunApps, PostReport, PostAIReport, SetStatus, Settle, FinalStatus, Return,
                     envVars
      <4> QED BY <1>2, <2>10, <4>1, ProcessSteady DEF CheckEventInv
    <3> QED BY <2>2, <3>1 DEF Steady, Q!vars
  <2> QED BY <1>2, <2>3, <2>4, <2>5, <2>6, <2>7, <2>8, <2>9, <2>10 DEF Next
<1> QED BY <1>1, <1>2, CheckEventInvariant, PTL DEF Spec, QueueOfPR, Q!Spec
=============================================================================
