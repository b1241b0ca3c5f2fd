--------------------------- MODULE VersionedTable ---------------------------
(***************************************************************************)
(* What committing from a working copy promises a user.  Rows are edited   *)
(* at will.  A commit is asked for a set of keys; when it is done, HEAD    *)
(* holds for exactly those keys what the rows hold, and every other key of *)
(* HEAD is as it was.  A commit that is given up changes nothing.          *)
(***************************************************************************)
CONSTANTS
    Pk, Row,
    NotAsked    \* no commit is under way

VARIABLES
    rows,       \* the working copy
    committed,  \* HEAD
    asked       \* the keys the commit under way is for

vars == <<rows, committed, asked>>

Init ==
    /\ rows \in [Pk -> Row]
    /\ committed = rows
    /\ asked = NotAsked

Edit ==
    /\ rows' \in [Pk -> Row]
    /\ UNCHANGED <<committed, asked>>

Ask(keys) ==
    /\ asked = NotAsked
    /\ asked' = keys
    /\ UNCHANGED <<rows, committed>>

Commit ==
    /\ asked # NotAsked
    /\ committed' = [p \in Pk |-> IF p \in asked THEN rows[p] ELSE committed[p]]
    /\ asked' = NotAsked
    /\ UNCHANGED rows

GiveUp ==
    /\ asked # NotAsked
    /\ asked' = NotAsked
    /\ UNCHANGED <<rows, committed>>

Next == Edit \/ Commit \/ GiveUp \/ \E keys \in SUBSET Pk : Ask(keys)

Spec == Init /\ [][Next]_vars

=============================================================================
