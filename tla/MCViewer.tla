------------------------------ MODULE MCViewer ------------------------------
(***************************************************************************)
(* Instances of the live feed with one browser.                            *)
(***************************************************************************)
EXTENDS Viewer, TLC

CONSTANTS r1, r2, s1, s2, all, posts

MCRequests == {r1, r2}
MCStreams == {s1, s2}
OneStreamOf == (r1 :> s1) @@ (r2 :> s1)

MCFilters == {all, posts}
MCPasses == (all :> MCRequests) @@ (posts :> {r1})

OneRequest == {r1}
OneStream == {s1}
OnlyStreamOf == r1 :> s1
OneFilter == {all}
OnePasses == all :> OneRequest
TwoPasses == all :> MCRequests

Alike ==
    Permutations(Fetches) \cup Permutations(Conns) \cup Permutations(MCRequests)
=============================================================================
