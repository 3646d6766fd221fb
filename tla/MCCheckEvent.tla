---------------------------- MODULE MCCheckEvent ----------------------------
(* Instances of CheckEvent for TLC. *)
EXTENDS CheckEvent

(* Webhooks once each and in push order, or late, twice and out of order.  *)
InOrder(gitHub, timeouts) ==
  [commits |-> 3, deliveries |-> 3, inOrder |-> TRUE, full |-> FALSE, timeouts |-> timeouts, flaky |-> FALSE,
   gitHub |-> gitHub, aiReview |-> TRUE]
AnyOrder(gitHub, n) ==
  [commits |-> 2, deliveries |-> n, inOrder |-> FALSE, full |-> TRUE, timeouts |-> TRUE, flaky |-> TRUE,
   gitHub |-> gitHub, aiReview |-> FALSE]

MCSettings == {InOrder(TRUE, FALSE), InOrder(FALSE, TRUE), AnyOrder(TRUE, 3), AnyOrder(FALSE, 3)}
MCTimeout == {[InOrder(TRUE, TRUE) EXCEPT !.commits = 1, !.deliveries = 1, !.aiReview = FALSE]}
=============================================================================
