------------------------------ MODULE MCIntake ------------------------------
(* Instances of Intake for TLC. *)
EXTENDS Intake

(* A pull request of the repository itself, watched by a webhook with a    *)
(* secret; the first commit changes one file more than the list holds, the *)
(* second as many.                                                         *)
Plain(gh, clashes, faultCount, expires) ==
  [gitHub |-> gh, fork |-> FALSE, allowForks |-> FALSE, labels |-> {}, filter |-> "",
   capitals |-> FALSE, ensure |-> FALSE, crowded |-> FALSE,
   secrets |-> [s \in 1..MaxStarts |-> 1], conflicts |-> clashes,
   changed |-> [c \in 1..MaxCommit |-> IF c = 1 THEN ListCap + 1 ELSE ListCap],
   starts |-> 1, touches |-> 1, faults |-> faultCount, timeouts |-> expires]

MCSettings ==
  {Plain(g, {}, 1, FALSE) : g \in BOOLEAN}
    \cup {[Plain(g, {2}, 0, TRUE) EXCEPT !.touches = 0] : g \in BOOLEAN}
    \* webhooks ensured at each start, among many others
    \cup {[Plain(g, {}, 2, FALSE) EXCEPT !.ensure = TRUE, !.crowded = x, !.starts = MaxStarts,
                                         !.touches = 0] : g, x \in BOOLEAN}
    \* a secret that changes with a restart, a fork, and labels
    \cup {[Plain(g, {}, 0, FALSE) EXCEPT !.secrets = [s \in 1..MaxStarts |-> s - 1],
              !.starts = MaxStarts, !.fork = TRUE, !.allowForks = a] : g, a \in BOOLEAN}
    \cup {[Plain(FALSE, {}, 0, FALSE) EXCEPT !.labels = {"staging"}, !.filter = f, !.capitals = TRUE]
           : f \in {"", "staging"}}
=============================================================================
