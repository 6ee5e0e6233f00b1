------------------------------ MODULE LedDriver -----------------------------
(***************************************************************************)
(* hw1/led_driver.c, etx_write: a write of n lights the LEDs 1 to n and    *)
(* darkens the others, then darkens one LED per second from n down to 1,   *)
(* and returns.  Nothing keeps two processes from writing at once, so each *)
(* gpio_set_value is a step.                                               *)
(***************************************************************************)
EXTENDS Integers

CONSTANTS
  Writers,  \* the processes that may write to the device
  NumLeds,  \* 8 in the code
  Numbers   \* what num_leds may be after copy_from_user

ASSUME LedAssumption == NumLeds \in Nat \ {0} /\ Numbers \subseteq Int

Leds == 1 .. NumLeds

VARIABLES
  lit,       \* the LEDs that are lit
  pc,        \* per writer: the loop it is in, or "idle"
  num_leds,  \* per writer
  led        \* per writer: i of the first loop, j of the second

vars == <<lit, pc, num_leds, led>>

Init ==
  /\ lit = {}
  /\ pc = [w \in Writers |-> "idle"]
  /\ num_leds = [w \in Writers |-> 0]
  /\ led = [w \in Writers |-> 0]

Wanted(w) == led[w] <= num_leds[w]

Write(w) ==
  /\ pc[w] = "idle" /\ pc' = [pc EXCEPT ![w] = "set"]
  /\ \E n \in Numbers : num_leds' = [num_leds EXCEPT ![w] = n]
  /\ led' = [led EXCEPT ![w] = 1]
  /\ UNCHANGED lit

(* for (i = 1; i <= 8; ++i) *)
Set(w) ==
  /\ pc[w] = "set"
  /\ lit' = IF led[w] <= num_leds[w] THEN lit \cup {led[w]} ELSE lit \ {led[w]}
  /\ IF led[w] < NumLeds
     THEN led' = [led EXCEPT ![w] = @ + 1] /\ UNCHANGED pc
     ELSE led' = led /\ pc' = [pc EXCEPT ![w] = "off"]
  /\ UNCHANGED num_leds

LastLed_two == 2

LastLed == 1

(* for (j = 8; j >= 1; j--), and the return after the last. *)
CountDown(w) ==
  /\ pc[w] = "off"
  /\ lit' = IF Wanted(w) THEN lit \ {led[w]} ELSE lit
  /\ led' = [led EXCEPT ![w] = @ - 1]
  /\ pc' = [pc EXCEPT ![w] = IF led[w] = LastLed THEN "idle" ELSE "off"]
  /\ UNCHANGED num_leds

Step(w) == Set(w) \/ CountDown(w)

Next == \E w \in Writers : Write(w) \/ Step(w)

Spec == Init /\ [][Next]_vars

-----------------------------------------------------------------------------
(* Every variable stays in its range: get_gpio_by_index is only asked for    *)
(* LEDs there are.                                                           *)
TypeOK ==
  /\ lit \subseteq Leds
  /\ pc \in [Writers -> {"idle", "set", "off"}]
  /\ num_leds \in [Writers -> Int]
  /\ led \in [Writers -> 0 .. NumLeds]
  /\ \A w \in Writers : pc[w] # "idle" => led[w] \in Leds

(* However many processes write at once, when no write is in progress all    *)
(* the LEDs are dark: the deliveries shown are over.                         *)
DarkWhenIdle == (\A w \in Writers : pc[w] = "idle") => lit = {}

(* A LED goes dark only after all those above it, unless another write is in *)
(* progress: the LEDs are the distance that is left.                         *)
TopFirst ==
  [][\A w \in Writers :
       (\A u \in Writers \ {w} : pc[u] = "idle") =>
         \A i \in lit \ lit' : \A j \in lit : j <= i]_vars

=============================================================================
