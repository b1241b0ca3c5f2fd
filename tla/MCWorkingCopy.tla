---------------------------- MODULE MCWorkingCopy ----------------------------
(* WorkingCopy with two keys, for TLC. *)
EXTENDS WorkingCopy, TLC

CONSTANTS k1, k2, a, null

MCPk == {k1, k2}
MCContent == {a, null}
MCHidden == {a}

KeySymmetry == Permutations(MCPk)

=============================================================================
