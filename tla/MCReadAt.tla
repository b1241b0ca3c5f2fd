------------------------------ MODULE MCReadAt ------------------------------
(* ReadAt for TLC: a commit that adds a feature and a legend to one, rewrites another     *)
(* feature and loses a third, and a commit without the dataset.                           *)
EXTENDS ReadAt

CONSTANTS k, l, f, g, h

MCLegend == {k, l}
MCFeature == {f, g, h}

Row(legend, row) == [legend |-> legend, row |-> row]
Of(kk, ll, ff, gg, hh) ==
    [name \in File |-> CASE name = k -> kk [] name = l -> ll
                         [] name = f -> ff [] name = g -> gg [] name = h -> hh]

First == [schema |-> 1, files |-> Of(k, NoFile, Row(k, 1), Row(k, 1), Row(k, 2))]
Second == [schema |-> 2, files |-> Of(k, l, Row(l, 1), NoFile, Row(k, 2))]
Without == [schema |-> NoFile, files |-> Of(NoFile, NoFile, NoFile, NoFile, NoFile)]
MCTree == {First, Second, Without}

=============================================================================
