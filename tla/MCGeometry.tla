----------------------------- MODULE MCGeometry -----------------------------
(* Geometry for TLC: a point, lines of each type, an empty line; a filter whose box one  *)
(* line and the point only touch.                                                        *)
EXTENDS Geometry, TLC

MCShape == {[kind |-> "point", dim |-> "xy", at |-> {<<2, 2>>}],
            [kind |-> "line", dim |-> "xy", at |-> {<<0, 0>>, <<1, 2>>}],
            [kind |-> "line", dim |-> "xyz", at |-> {<<0, 0, 5>>, <<1, 1, 4>>}],
            [kind |-> "line", dim |-> "xyzm", at |-> {<<3, 0, 1, 6>>}],
            [kind |-> "line", dim |-> "xym", at |-> {1 :> 4 @@ 2 :> 0 @@ 4 :> 7}],
            [kind |-> "line", dim |-> "xym", at |-> {}]}
MCSrs == {0, 4326}
MCBox == {[low |-> <<1, 2>>, high |-> <<2, 3>>]}

=============================================================================
