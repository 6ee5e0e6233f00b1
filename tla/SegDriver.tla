----------------------------- MODULE SegDriver ------------------------------
(***************************************************************************)
(* hw1/seg_driver.c, etx_write: a write of a price takes its decimal       *)
(* digits, the last one first, then shows them on the one display, the     *)
(* first one first.  Nothing keeps two processes from writing at once, so  *)
(* each gpio_set_value of a segment is a step.                             *)
(***************************************************************************)
EXTENDS Integers, Sequences

CONSTANTS
  Writers,   \* the processes that may write to the device
  Prices,    \* what price may be after copy_from_user
  MaxDigits  \* the size of the array digits, 10 in the code: no int has more

Segments == 1 .. 7  \* A to G, in the order in which they are set

num ==
  [d \in 0 .. 9 |->
     CASE d = 0 -> <<1,1,1,1,1,1,0>> [] d = 1 -> <<0,1,1,0,0,0,0>>
       [] d = 2 -> <<1,1,0,1,1,0,1>> [] d = 3 -> <<1,1,1,1,0,0,1>>
       [] d = 4 -> <<0,1,1,0,0,1,1>> [] d = 5 -> <<1,0,1,1,0,1,1>>
       [] d = 6 -> <<1,0,1,1,1,1,1>> [] d = 7 -> <<1,1,1,0,0,0,0>>
       [] d = 8 -> <<1,1,1,1,1,1,1>> [] d = 9 -> <<1,1,1,1,0,1,1>>]

VARIABLES
  display,  \* the value of each segment
  pc,       \* per writer: the loop it is in, or "idle"
  price,    \* per writer
  digits,   \* per writer: the digits found; those to show, once all are found
  segment,  \* per writer: the segment to set
  written,  \* history: the price of the write
  lone,     \* history: no other write was in progress during this one
  seen      \* history: the number made of the digits the display showed

vars == <<display, pc, price, digits, segment, written, lone, seen>>

Init ==
  /\ display = [s \in Segments |-> 0]
  /\ pc = [w \in Writers |-> "idle"]
  /\ price = [w \in Writers |-> 0] /\ digits = [w \in Writers |-> << >>]
  /\ segment = [w \in Writers |-> 1]
  /\ written = [w \in Writers |-> 0] /\ lone = [w \in Writers |-> TRUE]
  /\ seen = [w \in Writers |-> 0]

Busy(w) == pc[w] # "idle"

Write(w) ==
  /\ ~Busy(w) /\ pc' = [pc EXCEPT ![w] = "extract"]
  /\ \E p \in Prices :
       price' = [price EXCEPT ![w] = p] /\ written' = [written EXCEPT ![w] = p]
  /\ digits' = [digits EXCEPT ![w] = << >>] /\ seen' = [seen EXCEPT ![w] = 0]
  /\ lone' = [u \in Writers |->
                IF u = w THEN \A v \in Writers : ~Busy(v) ELSE lone[u] /\ ~Busy(u)]
  /\ UNCHANGED <<display, segment>>

MoreDigits_whileTwo(w) == price[w] >= 10

MoreDigits(w) == price[w] > 0

(* while (price > 0), and what follows it: a price without digits shows none.*)
Extract(w) ==
  /\ pc[w] = "extract"
  /\ IF MoreDigits(w)
     THEN /\ digits' = [digits EXCEPT ![w] = Append(@, price[w] % 10)]
          /\ price' = [price EXCEPT ![w] = @ \div 10] /\ UNCHANGED pc
     ELSE /\ pc' = [pc EXCEPT ![w] = IF digits[w] = << >> THEN "idle" ELSE "show"]
          /\ UNCHANGED <<digits, price>>
  /\ UNCHANGED <<display, segment, written, lone, seen>>

Shown_lowestFirst(w) == Head(digits[w])

(* digits[i], where i counts down from count - 1. *)
Shown(w) == digits[w][Len(digits[w])]

(* The digit whose segments are lit, or -1. *)
DigitOf(lit) ==
  LET Reads(d) == \A s \in Segments : lit[s] = num[d][s]
  IN IF \E d \in 0 .. 9 : Reads(d) THEN CHOOSE d \in 0 .. 9 : Reads(d) ELSE -1

(* One gpio_set_value of set_gpio_segments; after the last one the display   *)
(* is read for half a second, and the next digit is on.                      *)
SetSegment(w) ==
  /\ pc[w] = "show"
  /\ display' = [display EXCEPT ![segment[w]] = num[Shown(w)][segment[w]]]
  /\ IF segment[w] < 7
     THEN segment' = [segment EXCEPT ![w] = @ + 1] /\ UNCHANGED <<pc, digits, seen>>
     ELSE /\ segment' = [segment EXCEPT ![w] = 1]
          /\ digits' = [digits EXCEPT ![w] = SubSeq(@, 1, Len(@) - 1)]
          /\ pc' = [pc EXCEPT ![w] = IF Len(digits[w]) = 1 THEN "idle" ELSE "show"]
          /\ seen' = [seen EXCEPT ![w] = 10 * @ + DigitOf(display')]
  /\ UNCHANGED <<price, written, lone>>

Next == \E w \in Writers : Write(w) \/ Extract(w) \/ SetSegment(w)

Spec == Init /\ [][Next]_vars

-----------------------------------------------------------------------------
(* Every variable stays in its range; the digits fit the array. *)
TypeOK ==
  /\ display \in [Segments -> 0 .. 1]
  /\ pc \in [Writers -> {"idle", "extract", "show"}]
  /\ price \in [Writers -> Prices \cup {p \in Int : 0 <= p /\ p < 10 ^ MaxDigits}]
  /\ \A w \in Writers : digits[w] \in Seq(0 .. 9) /\ Len(digits[w]) <= MaxDigits
  /\ segment \in [Writers -> Segments]
  /\ \A w \in Writers : pc[w] = "show" => digits[w] # << >>

(* A write that no other overlapped has shown, digit by digit, the price it  *)
(* was given; one of zero or less shows nothing.                             *)
ShowsThePrice ==
  \A w \in Writers :
    ~Busy(w) /\ lone[w] => seen[w] = IF written[w] > 0 THEN written[w] ELSE 0

(* What two writes at once leave on the display is made of the segments of   *)
(* digits they wrote: each segment is the one of the last digit of one of    *)
(* them.                                                                     *)
SegmentsOfTheLast ==
  (\A w \in Writers : ~Busy(w) /\ ~lone[w] /\ written[w] > 0) =>
     \A s \in Segments : \E w \in Writers : display[s] = num[written[w] % 10][s]

=============================================================================
