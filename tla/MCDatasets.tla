----------------------------- MODULE MCDatasets -----------------------------
(* Datasets for TLC: a flat path a, the nested path n of table n_ beside the flat *)
(* path n_, titles that are names of tables and one that is not.                  *)
EXTENDS Datasets, TLC

CONSTANTS a, n, n_, x

MCDataset == {a, n, n_}
MCTable == {a, n_}
MCTableName == a :> a @@ n :> n_ @@ n_ :> n_
MCTitle == {a, n_, x}

=============================================================================
