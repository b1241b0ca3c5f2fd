---------------------------- MODULE MCRepository ----------------------------
(* Repository for TLC: one feature, two branches, two paths of working copies, and a       *)
(* spatial filter that leaves the feature out.                                             *)
EXTENDS Repository, TLC

CONSTANTS main, topic, f, v, here, there

MCBranch == {main, topic}
MCFeature == {f}
MCValue == {v}
MCPlace == {there}
MCFilter == {{}, {v}}

Symmetry == Permutations(MCBranch)

\* No command reads why the copy is behind, nor what rows were made from; the properties
\* ask the latter of the copy in use only, which had it written by its last rebuild.
Seen(path) ==
    IF copies[path] = None THEN None
    ELSE IF behind = "no" /\ path = WcPath(worktree) THEN copies[path]
    ELSE [copies[path] EXCEPT !.from = None]

WhatCommandsRead == <<git, [path \in Path |-> Seen(path)], behind = "no">>

=============================================================================
