----------------------------- MODULE MCDispatch -----------------------------
(* Model values and symmetry for the runs of Dispatch. *)
EXTENDS Dispatch, TLC

(* The threads run the same code and are only compared for equality. *)
Symmetry == Permutations(Customers)

=============================================================================
