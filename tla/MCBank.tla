------------------------------- MODULE MCBank -------------------------------
(* Requests for the runs of Bank, and the symmetry of the clients. *)
EXTENDS Bank, TLC

Req(o, a, n) == [op |-> o, amount |-> a, left |-> n]

(* With IntMax = 2 two deposits of 2 overflow; a withdrawal of 2 may fail; a *)
(* deposit of a negative amount, a word that is no operation and a number of *)
(* times that is not positive are requests the client program can send.      *)
MCRequests == {Req("deposit", 2, 2), Req("deposit", 1, 1), Req("withdraw", 2, 1),
               Req("withdraw", 1, 2), Req("deposit", -1, 1), Req("other", 1, 1),
               Req("withdraw", 1, 0)}

LiveRequests == {Req("deposit", 1, 2), Req("withdraw", 1, 1)}

Symmetry == Permutations(Clients)

=============================================================================
