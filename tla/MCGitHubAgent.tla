--------------------------- MODULE MCGitHubAgent ---------------------------
(* Instances of GitHubAgent: two commands approve the same pull request.    *)
EXTENDS GitHubAgent
CONSTANTS c1, c2, c3, c4, p1, p2

MCApproveOf == (c1 :> p1) @@ (c2 :> p1) @@ (c3 :> p2) @@ (c4 :> None)
=============================================================================
