---------------------------- MODULE MCOrderMenu -----------------------------
(* Prices and distances for the runs of OrderMenu: two restaurants, items    *)
(* of different prices, one quantity that takes an order back.               *)
EXTENDS OrderMenu

MCPrice == <<<<1, 2>>, <<3, 1>>>>
MCDistance == <<1, 2>>
MCQuantities == {-1, 1, 2}

=============================================================================
