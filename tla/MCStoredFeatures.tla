-------------------------- MODULE MCStoredFeatures --------------------------
(* StoredFeatures for TLC: sources with two, one or no columns beside the key. *)
EXTENDS StoredFeatures

CONSTANTS f, g, u

MCName == {f, g}
MCValue == {u}
MCOrders == {<<Key, f, g>>, <<g, Key>>, <<Key>>}

=============================================================================
