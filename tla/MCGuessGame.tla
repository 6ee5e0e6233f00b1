---------------------------- MODULE MCGuessGame -----------------------------
(* Numbers and bounds for the runs of GuessGame. *)
EXTENDS GuessGame

(* Numbers inside the bounds, on them and outside; with IntMax = 15 the sum  *)
(* of the bounds 1 .. 13 overflows as soon as the lower one is above 2.      *)
MCTruths == -1 .. 14
MCUppers == {1, 2, 7, 12, 13}

LiveTruths == 1 .. 6

=============================================================================
