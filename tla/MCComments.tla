----------------------------- MODULE MCComments -----------------------------
(* An instance of Comments for TLC: comments of 700 bytes, so that details *)
(* of a few lines have to be cut in every way.                             *)
EXTENDS Comments

Text(n) == Plain(n)
Fence(n, info) == FenceLine(n, info)
Summary(n) == Tagged(20 + n, "summary", 19 + n, n)

Diff == <<Fence(3, 4), Text(90), Text(90), Text(90), Text(90), Fence(3, 0)>>
Nested == <<DetailsOpen, Summary(100), Fence(4, 0), Text(120), Fence(3, 0), Text(120), Fence(4, 0), Text(30),
            Tagged(11, "close", 10, 0)>>
Minified == <<Text(20), Fence(3, 4), Text(900), Fence(3, 0), Text(250)>>
OneLine == <<Text(200),
             [Text(600) EXCEPT !.tags = <<[tag |-> "open", end |-> 9, text |-> 0],
                                          [tag |-> "summary", end |-> 39, text |-> 11],
                                          [tag |-> "close", end |-> 590, text |-> 0]>>],
             Text(60)>>
LongInfo == <<Fence(3, 400), Text(40), Fence(3, 300), Text(40), Fence(3, 0)>>
Short == <<Text(30)>>
Shapes == {Diff, Nested, Minified, OneLine, LongInfo, Short}

Result(state, summary, details) ==
  [state |-> state, noChanges |-> FALSE, sticky |-> FALSE, summary |-> summary, details |-> details]
Unchanged == [Result(StateNone, 20, Short) EXCEPT !.noChanges = TRUE]
Sticky(r) == [r EXCEPT !.sticky = TRUE]
App(results) == [deleted |-> FALSE, results |-> results]
Gone(app) == [app EXCEPT !.deleted = TRUE]

(* The lines are numbered in the order of the report.                      *)
NumberedLines(details, n) == [l \in DOMAIN details |-> [details[l] EXCEPT !.id = n + l]]
NumberedResults(results, n) ==
  [r \in DOMAIN results |-> [results[r] EXCEPT !.details = NumberedLines(results[r].details, n + 100 * r)]]
Numbered(apps) ==
  [a \in DOMAIN apps |-> [apps[a] EXCEPT !.results = NumberedResults(apps[a].results, 1000 * a)]]

OneApp == {<<App(<<Result(StateNone, n, d), Result(StateFailure, 40, e)>>)>> : n \in {20, 130}, d, e \in Shapes}
LongSummaries == {<<App(<<Result(StateWarning, n, d)>>)>> : n \in {300, 420, 700}, d \in {Diff, Nested, OneLine}}
Many ==
  {<<App(<<Result(StateSuccess, 20, Short)>>), Gone(App(<<Result(StateError, 20, Diff)>>)),
     App(<<Unchanged, Result(StateFailure, 20, Short)>>), App(<<Unchanged, Sticky(Result(StateWarning, 20, Nested))>>),
     App(<<Result(StateSkip, 20, Diff), Result(StateSuccess, 20, Short), Result(StateSuccess, 20, Short)>>)>>,
   <<App(<<Result(StateNone, 30, Diff), Result(StateNone, 30, Diff)>>), App(<<Result(StateSuccess, 20, Diff)>>),
     App(<<Result(StateSuccess, 20, Short)>>)>>,
   <<App(<<Unchanged>>)>>, <<>>}
Big == Numbered(<<App(<<Result(StateFailure, 20, Diff)>>), App(<<Result(StateSuccess, 20, Diff)>>)>>)
Reports == {Numbered(apps) : apps \in OneApp \cup LongSummaries \cup Many}

Plan(text, fenced) == [path |-> "f", line |-> 1, text |-> <<text>>, fenced |-> fenced]
With(gh, apps) ==
  [gitHub |-> gh, delete |-> FALSE, apps |-> apps, maxComments |-> 3, suggestions |-> <<>>,
   ai |-> StateNone, worstAI |-> StateWarning, pipelines |-> {}, faults |-> 0, runs |-> 1]
Reviewed(gh, delete, pipes, max) ==
  [With(gh, Big) EXCEPT !.faults = max, !.runs = 2, !.delete = delete, !.ai = StateFailure,
                           !.pipelines = pipes, !.suggestions = IF delete THEN <<>> ELSE <<Plan("s", FALSE), Plan("t", TRUE)>>]
Chosen ==
  {With(gh, apps) : gh \in BOOLEAN, apps \in Reports}
  \cup {[With(TRUE, Big) EXCEPT !.faults = 4],
        Reviewed(TRUE, FALSE, {}, 1), Reviewed(TRUE, TRUE, {}, 1),
        Reviewed(FALSE, FALSE, {"push"}, 1), Reviewed(FALSE, TRUE, {"push", "external"}, 1)}

MCSettings == {("chunks" :> BuildComment(s.apps, s.maxComments)) @@ s : s \in Chosen}

Person(marked) == [run |-> 0, part |-> 0, own |-> FALSE, marked |-> marked, system |-> FALSE, at |-> "shown"]
MCEarlier == <<Person(FALSE), Person(TRUE)>>
=============================================================================
