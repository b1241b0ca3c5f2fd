---------------------------- MODULE MCCommitSync ----------------------------
(* CommitSync with two keys, for TLC. *)
EXTENDS CommitSync, TLC

CONSTANTS k1, k2, a, null

MCPk == {k1, k2}
MCContent == {a, null}

KeySymmetry == Permutations(MCPk)

\* Only GitCommit sets head, and FaultySpec reads it nowhere but in TypeOK.
ButHead == <<tableVars, tree, pc, whole, selected, changes, seen, deltas, todo, stuck>>

=============================================================================
