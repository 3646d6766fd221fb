------------------------------ MODULE PRQueue ------------------------------
(***************************************************************************)
(* What a repository's queue promises each of its pull requests, whatever  *)
(* other pull requests share the queue, whoever created it and however the *)
(* process shuts down: its requests are considered one at a time and in    *)
(* the order in which they were accepted, each of them is checked, or      *)
(* skipped when another commit was recorded after it, and a check loses    *)
(* its context only to another commit, a timeout or the shutdown.          *)
(* RepoQueue implements it for every pull request of every repository;     *)
(* CheckEvent has its checks started by such a queue.                      *)
(***************************************************************************)
CONSTANTS Requests,   \* records with a field commit
          None

VARIABLES sending,    \* requests recorded but not yet sent
          waiting,    \* requests accepted and not yet considered
          ahead,      \* the waiting requests ahead of each waiting one
          latest,     \* the commit recorded last, or None
          checking,   \* the commit being checked, or None
          context,    \* "none", "live", "superseded" or "dead"
          draining    \* the queue has been shut down

vars == <<sending, waiting, ahead, latest, checking, context, draining>>

Init ==
  /\ sending = {} /\ waiting = {} /\ ahead = [x \in Requests |-> {}]
  /\ latest = None /\ checking = None /\ context = "none" /\ draining = FALSE

(* A new commit cancels the check of another one. *)
Record(x) ==
  /\ latest' = x.commit
  /\ x \notin sending \cup waiting
  /\ sending' = sending \cup {x}
  /\ context' = IF context = "live" /\ checking # x.commit THEN "superseded" ELSE context
  /\ UNCHANGED <<waiting, ahead, checking, draining>>

Sent(x) == x \in sending /\ sending' = sending \ {x}
Accept(x) ==
  /\ Sent(x)
  /\ waiting' = waiting \cup {x}
  /\ ahead' = [ahead EXCEPT ![x] = waiting]
  /\ UNCHANGED <<latest, checking, context, draining>>

(* The queue is full. *)
Reject(x) == Sent(x) /\ UNCHANGED <<waiting, ahead, latest, checking, context, draining>>

(* The first one in line leaves it. *)
Leave(x) ==
  /\ x \in waiting /\ ahead[x] = {} /\ checking = None
  /\ waiting' = waiting \ {x}
  /\ ahead' = [y \in Requests |-> ahead[y] \ {x}]

Skip(x) ==
  /\ ~draining /\ Leave(x)
  /\ latest \notin {None, x.commit}
  /\ UNCHANGED <<sending, latest, checking, context, draining>>

Begin(x) ==
  /\ ~draining /\ Leave(x)
  /\ latest \in {None, x.commit}
  /\ checking' = x.commit /\ context' \in {"live", "dead"}
  /\ UNCHANGED <<sending, latest, draining>>

(* A timeout, or the shutdown, cancels the check. *)
Expire ==
  /\ context = "live" /\ context' = "dead"
  /\ UNCHANGED <<sending, waiting, ahead, latest, checking, draining>>

End ==
  /\ checking # None
  /\ checking' = None /\ context' = "none"
  /\ latest' = IF latest = checking THEN None ELSE latest
  /\ UNCHANGED <<sending, waiting, ahead, draining>>

(* A queue that is shut down begins nothing any more. *)
Drain ==
  /\ ~draining /\ checking = None
  /\ draining' = TRUE
  /\ UNCHANGED <<sending, waiting, ahead, latest, checking, context>>
Drop(x) == draining /\ Leave(x) /\ UNCHANGED <<sending, latest, checking, context, draining>>

Next ==
  \/ \E x \in Requests : Record(x)
  \/ \E x \in sending : Accept(x) \/ Reject(x)
  \/ \E x \in waiting : Skip(x) \/ Begin(x) \/ Drop(x)
  \/ Expire \/ End \/ Drain

Spec == Init /\ [][Next]_vars
=============================================================================
