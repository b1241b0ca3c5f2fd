--------------------------- MODULE MCMergeResolve ---------------------------
(* MergeResolve with two files and three contents, for TLC.  A commit of another *)
(* branch has one content in all the files it has; what is committed here mixes. *)
EXTENDS MergeResolve, TLC

CONSTANTS f1, f2, x, y, z

MCPath == {f1, f2}
MCBlob == {x, y, z}
MCCommits ==
    {files \in [MCPath -> MCBlob \cup {Missing}] :
        \A p, q \in MCPath : Missing \in {files[p], files[q]} \/ files[p] = files[q]}

Symmetry == Permutations(MCPath) \cup Permutations(MCBlob)

=============================================================================
