---------------------------- MODULE TrackedTable ----------------------------
(***************************************************************************)
(* One dataset's table in a GeoPackage working copy, with the change       *)
(* tracking of crates/geogit-wc/src/tracking.rs on it.  A GIS edits the    *)
(* rows through SQLite; AFTER triggers append to a log and keep the row as *)
(* it was before its first edit.                                           *)
(*                                                                         *)
(* The log is a table, not a sequence: an entry carries its rowid, SQLite  *)
(* gives a new entry one more than the largest rowid present, and the      *)
(* reader asks for the entries ORDER BY rowid.  A row is its primary key   *)
(* together with its Content; what the columns hold is opaque.             *)
(***************************************************************************)
EXTENDS Naturals

CONSTANTS
    Pk,         \* primary keys a row can have (integers, as the int path scheme needs)
    Content,    \* the values a row's other columns can have together
    NullRow,    \* the content whose every column is NULL
    Absent,     \* no row
    NoOld,      \* no saved row
    MaxRowid    \* bound on the log: an edit that needs a larger rowid is not taken

ASSUME ContentAssumption == NullRow \in Content /\ Absent \notin Content
ASSUME NoOldAssumption == NoOld \notin [pk : Pk, content : Content]
ASSUME MaxRowidAssumption == MaxRowid \in Nat

VARIABLES
    rows,       \* the dataset's table: the content of each primary key's row
    track,      \* _geogit_track: the log of edits
    old         \* _geogit_track_old: the saved row under each key

tableVars == <<rows, track, old>>

Row == Content \cup {Absent}
ChangeType == {"I", "U", "D"}
Entry == [id : 1..MaxRowid, pk : Pk, type : ChangeType]
OldRow == [pk : Pk, content : Content]

TableTypeOK ==
    /\ rows \in [Pk -> Row]
    /\ track \in SUBSET Entry
    /\ old \in [Pk -> OldRow \cup {NoOld}]

Tracked(p) == \E e \in track : e.pk = p

\* The entry, or delta, that comes last among those of its key.
LastOfItsKey(e, log) == \A f \in log : f.pk = e.pk => f.id <= e.id

-----------------------------------------------------------------------------
(* What the triggers do. *)

\* The rowid SQLite gives the next entry: one more than the largest.
NextRowid(id) ==
    /\ \A e \in track : e.id < id
    /\ id = 1 \/ \E e \in track : e.id = id - 1

LogChange(p, t) ==
    \E id \in 1..MaxRowid :
        /\ NextRowid(id)
        /\ track' = track \cup {[id |-> id, pk |-> p, type |-> t]}

\* Mutant of SaveOld: INSERT OR REPLACE, which keeps the last value, not the first.
SaveLast(q, p) == old' = [old EXCEPT ![q] = [pk |-> p, content |-> rows[p]]]

\* INSERT OR IGNORE of the OLD row, whose key is p, under the key q.
SaveOld(q, p) ==
    old' = IF old[q] = NoOld
           THEN [old EXCEPT ![q] = [pk |-> p, content |-> rows[p]]]
           ELSE old

\* Mutant of DeleteTrigger: the row that goes is not saved.
DeleteTriggerSavingNothing(p) == LogChange(p, "D") /\ UNCHANGED old

InsertTrigger(p) == LogChange(p, "I") /\ UNCHANGED old
UpdateTrigger(p, q) == SaveOld(q, p) /\ LogChange(q, "U")
DeleteTrigger(p) == SaveOld(p, p) /\ LogChange(p, "D")

-----------------------------------------------------------------------------
(* A GIS's statements on one row, each with the trigger it fires. *)

InsertRow(p, c) ==
    /\ rows[p] = Absent
    /\ rows' = [rows EXCEPT ![p] = c]
    /\ InsertTrigger(p)

UpdateRow(p, c) ==
    /\ rows[p] # Absent
    /\ rows' = [rows EXCEPT ![p] = c]
    /\ UpdateTrigger(p, p)

DeleteRow(p) ==
    /\ rows[p] # Absent
    /\ rows' = [rows EXCEPT ![p] = Absent]
    /\ DeleteTrigger(p)

\* UPDATE ... SET pk = q: only the new key reaches the log.
RekeyRow(p, q) ==
    /\ p # q
    /\ rows[p] # Absent /\ rows[q] = Absent
    /\ rows' = [rows EXCEPT ![p] = Absent, ![q] = rows[p]]
    /\ UpdateTrigger(p, q)

\* INSERT OR REPLACE over a row that is there: without recursive_triggers the
\* row it replaces fires no delete trigger.
ReplaceRow(p, c) ==
    /\ rows[p] # Absent
    /\ rows' = [rows EXCEPT ![p] = c]
    /\ InsertTrigger(p)

\* UPDATE OR REPLACE, which may also move the row over another: no trigger fires
\* for the row it replaces, and SQLite applies the statement's OR REPLACE to the
\* trigger's own INSERT OR IGNORE, so that the saved row is overwritten.
UpdateOrReplaceRow(p, q, c) ==
    /\ rows[p] # Absent
    /\ rows' = [rows EXCEPT ![p] = Absent, ![q] = c]
    /\ old' = [old EXCEPT ![q] = [pk |-> p, content |-> rows[p]]]
    /\ LogChange(q, "U")

PlainEdit ==
    \E p \in Pk :
        \/ \E c \in Content : InsertRow(p, c) \/ UpdateRow(p, c)
        \/ DeleteRow(p)

KeyEdit ==
    \E p \in Pk :
        \/ \E q \in Pk : RekeyRow(p, q)
        \/ \E c \in Content : ReplaceRow(p, c)
        \/ \E q \in Pk, c \in Content : UpdateOrReplaceRow(p, q, c)

-----------------------------------------------------------------------------
(* Clearing: tracking.rs issues two statements, outside any transaction. *)

\* Mutant of ClearLogOf: one feature's commit clears the table's whole log.
ClearLogOfAll(p) == p \in Pk /\ track' = {}

ClearLog == track' = {}
ClearOld == old' = [p \in Pk |-> NoOld]
ClearLogOf(p) == track' = {e \in track : e.pk # p}
ClearOldOf(p) == old' = [old EXCEPT ![p] = NoOld]

=============================================================================
