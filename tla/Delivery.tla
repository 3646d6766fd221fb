------------------------------ MODULE Delivery ------------------------------
(***************************************************************************)
(* What posting a report promises, whatever the calls to the VCS return:   *)
(* its parts appear on the pull request in order and without a gap, each   *)
(* of them once (a client that retries on its own may show a part again    *)
(* before the next), and posting succeeds only when all of them are there. *)
(* Comments implements it.                                                 *)
(***************************************************************************)
EXTENDS Integers, Sequences

CONSTANT MaxCopies   \* of one part, where the client may repeat it

VARIABLES total,     \* parts of the report, 0 before it is built
          shown,     \* parts on the pull request, oldest first
          outcome,   \* "none", "posting", "complete" or "failed"
          repeats    \* the client may post a part more than once

vars == <<total, shown, outcome, repeats>>

Init == total = 0 /\ shown = <<>> /\ outcome = "none" /\ repeats \in BOOLEAN

NextPart == IF shown = <<>> THEN 1 ELSE shown[Len(shown)] + 1
Copies(part, n) == [i \in 1..n |-> part]

Begin ==
  /\ outcome = "none"
  /\ outcome' = "posting"
  /\ total' \in Nat \ {0}
  /\ UNCHANGED <<shown, repeats>>

(* The next part appears, or nothing does, and posting goes on or ends.    *)
Post ==
  /\ outcome = "posting"
  /\ \/ shown' = shown
     \/ /\ NextPart <= total
        /\ \E n \in 1..(IF repeats THEN MaxCopies ELSE 1) : shown' = shown \o Copies(NextPart, n)
  /\ outcome' \in {"posting", "failed"} \cup (IF NextPart' = total + 1 THEN {"complete"} ELSE {})
  /\ UNCHANGED <<total, repeats>>

(* The next check of the pull request starts its own report.               *)
Again ==
  /\ outcome # "posting"
  /\ outcome' = "none" /\ total' = 0 /\ shown' = <<>>
  /\ UNCHANGED repeats

Next == Begin \/ Post \/ Again
Spec == Init /\ [][Next]_vars
=============================================================================
