----------------------------- MODULE MCAffected -----------------------------
(* An instance of Affected for TLC: application a, in two namespaces, and  *)
(* application b, ApplicationSets s and t, and pull requests that touch    *)
(* what they read in different ways.                                       *)
EXTENDS Affected

CONSTANTS a1, a2, b1
MCAppKeys == {a1, a2, b1}
MCAppNameOf == [k \in MCAppKeys |-> IF k = b1 THEN "b" ELSE "a"]
Namespaces == Permutations({a1, a2})

Src(repo, path, values) == [repo |-> repo, path |-> path, values |-> values]
App(srcs, rev) == [sources |-> srcs, rev |-> rev]

(* A chart with a value file elsewhere, two sources of one repository, a   *)
(* source that follows main, a chart of no git repository.                 *)
MCAppSpecs ==
  {App(<<Src("r1", <<"x">>, {<<"..", "c", "v">>})>>, "HEAD"),
   App(<<Src("r1", <<"x">>, {}), Src("r1", <<"/", "y">>, {})>>, ""),
   App(<<Src("r1", <<"y">>, {<<"v">>})>>, "main"),
   App(<<Src("charts", <<"x">>, {})>>, "")}

Dir(p) == [kind |-> "dir", path |-> p, exclude |-> FALSE]
NotDir(p) == [kind |-> "dir", path |-> p, exclude |-> TRUE]
File(p) == [kind |-> "file", path |-> p, exclude |-> FALSE]
Gen(nested, repo, es) == [nested |-> nested, repo |-> repo, entries |-> es]
Set(rev, gens) == [repo |-> "r1", values |-> {}, rev |-> rev, gens |-> gens]

Envs == Set("HEAD", <<Gen(0, "r1", <<Dir(<<"env", "*">>), NotDir(<<"env", "c">>)>>)>>)
EnvFiles == Set("HEAD", <<Gen(1, "r1", <<File(<<"env", "*", "f">>)>>)>>)
Elsewhere == Set("main", <<Gen(1, "r1", <<Dir(<<"env", "*">>)>>), Gen(0, "r2", <<Dir(<<"env", "*">>)>>),
                           Gen(2, "r1", <<Dir(<<"*">>)>>)>>)
MCSetSpecs == {Envs, EnvFiles, Elsewhere}

NoFiles == [d \in {} |-> {}]
PR(change, base, head) ==
  [repo |-> "r1", branch |-> "main", change |-> change, base |-> base, head |-> head,
   kust |-> NoFiles, manifests |-> NoFiles, config |-> None]
Common == {<<"x", "f">>, <<"y", "f">>, <<"c", "v">>, <<"lib", "f">>, <<"env", "n", "f">>}
Refs(files, resources, components) ==
  [files |-> files, resources |-> resources, components |-> components]
Kustomized == Common \cup {<<"x", "kustomization.yaml">>, <<"y", "kustomization.yaml">>}

(* The value file; a directory that x refers to; environments that come,   *)
(* go and stay, one with the name of another directory; two manifests of   *)
(* one name, and a reference that leads nowhere; the chart, with a         *)
(* configuration.                                                          *)
MCPRs ==
  {PR({<<"c", "v">>, <<"y", "f">>}, Common, Common),
   [PR({<<"lib", "f">>}, Kustomized, Kustomized) EXCEPT
      !.kust = <<"x">> :> Refs({}, {<<"..", "y">>, <<"f">>, <<"https:", "z">>}, {}) @@
               <<"y">> :> Refs({<<"f">>}, {}, {<<"/", "lib">>, <<"..", "x">>})],
   PR({<<"env", "a", "f">>, <<"env", "b", "f">>, <<"env", "c", "f">>},
      Common \cup {<<"env", "b", "f">>, <<"env", "c", "f">>}, Common \cup {<<"env", "a", "f">>, <<"env", "c", "f">>}),
   [PR({<<"set">>, <<"copy">>, <<"y", "f">>}, Kustomized, Kustomized \cup {<<"set">>, <<"copy">>}) EXCEPT
      !.kust = <<"x">> :> Refs({}, {<<"..", "y">>, <<"gone">>}, {}) @@
               <<"y">> :> Refs({}, {}, {}),
      !.manifests = <<"set">> :> [name |-> "t", spec |-> Elsewhere] @@
                    <<"copy">> :> [name |-> "t", spec |-> Envs]],
   [PR({<<"x", "f">>}, Common, Common) EXCEPT
      !.config = [apps |-> {[name |-> "a", paths |-> {<<"/", "x">>, <<"lib">>}]},
                  sets |-> {[name |-> "s", paths |-> {<<"x">>}]}]]}

MCOtherFiles == [r \in {"r2", "charts"} |-> {<<"env", "n", "f">>}]
MCAppsOfSet == [s |-> {"b"}, t |-> {}]
MCSegmentPairs == {<<"mylib", "lib">>}
=============================================================================
