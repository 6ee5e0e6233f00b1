------------------------------- MODULE MCKiosk ------------------------------
(* Orders for the run of Kiosk: prices of one to three digits and one below   *)
(* zero; distances none, within and beyond the LEDs there are.               *)
EXTENDS Kiosk, TLC

MCPrices == {-1, 7, 60, 102}
MCNumbers == {0, 2, 4}
MCOrders == {[price |-> -1, leds |-> 2], [price |-> 7, leds |-> 0],
             [price |-> 102, leds |-> 4], [price |-> 60, leds |-> 2]}

Symmetry == Permutations(Writers)

=============================================================================
