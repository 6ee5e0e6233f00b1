---------------------------- MODULE MCOrderDesk ----------------------------
(* The orders of the runs of OrderDesk, and the symmetry of the threads. *)
EXTENDS OrderDesk, TLC

(* Two items of one restaurant, one of another, in such a quantity that its  *)
(* price is no int, an unknown item, an order of nothing, and one that takes *)
(* away, with or without having been given before.                           *)
MCOrders == {<<"cookie", 1>>, <<"cake", 1>>, <<"tea", 150>>, <<"pizza", 1>>, <<"cookie", 0>>,
             <<"cookie", -1>>}

Symmetry == Permutations(Customers)

=============================================================================
