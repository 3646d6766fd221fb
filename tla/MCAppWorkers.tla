---------------------------- MODULE MCAppWorkers ----------------------------
(* Instances of AppWorkers for TLC: two parents p and q, both affected by  *)
(* the pull request, whose diffs ask for the child c in two versions.      *)
EXTENDS AppWorkers

MCNameOf == [p1 |-> "p", q1 |-> "q", c1 |-> "c", c2 |-> "c", d1 |-> "d"]
MCApps == DOMAIN MCNameOf
MCNames == {MCNameOf[a] : a \in MCApps}
MCAffected == <<"p1", "q1">>

Queue(a) == [op |-> "queue", app |-> a]
Remove(a) == [op |-> "remove", app |-> a]
NoEffects == [a \in MCApps |-> << >>]

(* q asks for two versions of one child and removes an application with a  *)
(* sticky finding.                                                         *)
MCEffects == [NoEffects EXCEPT !["p1"] = <<Queue("c1")>>,
                               !["q1"] = <<Remove("d1"), Queue("c1"), Queue("c2")>>]
=============================================================================
