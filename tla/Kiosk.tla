-------------------------------- MODULE Kiosk -------------------------------
(***************************************************************************)
(* hw1: kiosks (processes of hw1.c) that share the two devices.  A         *)
(* delivery writes its price to the seven-segment driver, then, when that  *)
(* write has returned, its distance to the LED driver.  OrderMenu says     *)
(* where an order comes from; here it is any of Orders.                    *)
(***************************************************************************)
EXTENDS LedDriver, Sequences

CONSTANTS
  Prices,     \* the prices of the orders
  MaxDigits,  \* as in SegDriver
  Orders      \* the orders that may be delivered: records of a price and leds

ASSUME KioskAssumption ==
  /\ Writers # {} /\ MaxDigits \in Nat \ {0}
  /\ Prices \subseteq {p \in Int : p < 10 ^ MaxDigits}
  /\ Orders \subseteq [price : Prices, leds : Numbers]

VARIABLES
  display, seg_pc, price, digits, segment, written, lone, seen,  \* of SegDriver
  at,     \* per kiosk: "menu", or the device it has to write to or writes to
  order,  \* per kiosk: its delivery
  alone   \* history: no other kiosk delivered during this delivery

segs   == <<display, seg_pc, price, digits, segment, written, lone, seen>>
kiosks == <<at, order, alone>>
all    == <<vars, segs, kiosks>>

Seg == INSTANCE SegDriver WITH pc <- seg_pc

NoOrder == [price |-> 0, leds |-> 0]

KInit ==
  /\ Init /\ Seg!Init
  /\ at = [w \in Writers |-> "menu"]
  /\ order = [w \in Writers |-> NoOrder]
  /\ alone = [w \in Writers |-> TRUE]

-----------------------------------------------------------------------------
Delivering(w) == at[w] # "menu"

KGoto(w, a, b) == at[w] = a /\ at' = [at EXCEPT ![w] = b]

(* "confirm" with a total: write(fd_seg, &total_amount, sizeof(int)). *)
Deliver(w) ==
  /\ KGoto(w, "menu", "seg") /\ Seg!Write(w)
  /\ \E o \in Orders : o.price = price'[w] /\ order' = [order EXCEPT ![w] = o]
  /\ alone' = [u \in Writers |->
                 IF u = w THEN \A v \in Writers : ~Delivering(v)
                          ELSE alone[u] /\ ~Delivering(u)]
  /\ UNCHANGED vars

PriceShown_notAwaited(w) == TRUE

PriceShown(w) == ~Seg!Busy(w)

Distance(w) == order[w].leds

(* write(fd_led, &distance, 1), once the first write has returned. *)
ShowDistance(w) ==
  /\ KGoto(w, "seg", "led") /\ PriceShown(w)
  /\ Write(w) /\ num_leds'[w] = Distance(w)
  /\ UNCHANGED <<segs, order, alone>>

(* "Meal delivered!", once the second write has returned. *)
Delivered(w) ==
  /\ KGoto(w, "led", "menu") /\ pc[w] = "idle"
  /\ UNCHANGED <<vars, segs, order, alone>>

Devices(w) ==
  \/ Step(w) /\ UNCHANGED <<segs, kiosks>>
  \/ (Seg!Extract(w) \/ Seg!SetSegment(w)) /\ UNCHANGED <<vars, kiosks>>

KNext == \E w \in Writers : Deliver(w) \/ ShowDistance(w) \/ Delivered(w) \/ Devices(w)

KSpec == KInit /\ [][KNext]_all

-----------------------------------------------------------------------------
(* A write that no other overlapped has shown, digit by digit, its price.    *)
ShowsThePrice == Seg!ShowsThePrice

(* What overlapping writes leave is made of segments of their last digits.   *)
SegmentsOfTheLast == Seg!SegmentsOfTheLast

(* While the LEDs count a delivery down that no other kiosk overlapped, the  *)
(* price's last digit stays on the display, and the LEDs are the distance    *)
(* that is left: what a customer sees on both devices is the one order.      *)
DevicesAgree ==
  \A w \in Writers : pc[w] = "off" /\ alone[w] =>
    /\ order[w].price > 0 =>
         \A s \in Seg!Segments : display[s] = Seg!num[order[w].price % 10][s]
    /\ lit = {i \in Leds : i <= order[w].leds /\ i <= led[w]}

=============================================================================
