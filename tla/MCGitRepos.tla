----------------------------- MODULE MCGitRepos -----------------------------
(* Instances of GitRepos for TLC.  Both checks refer to the repository of  *)
(* the location; the pull request of the first targets a branch that is    *)
(* not the default one.                                                    *)
EXTENDS GitRepos

MCUrls == {"own", "shared"}
MCBranches == {"HEAD", "main", "dev"}
MCOwnKeys == [c1 |-> {Key("own", "dev"), Key("own", "HEAD")}, c2 |-> {}]
MCWants == [c1 |-> {Key("own", "main"), Key("shared", "HEAD"), Key("shared", "main")},
            c2 |-> {Key("shared", "dev")}]
MCLocKey == Key("shared", "")
=============================================================================
