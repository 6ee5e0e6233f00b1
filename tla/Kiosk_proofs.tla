---------------------------- MODULE Kiosk_proofs ----------------------------
(***************************************************************************)
(* For every number of kiosks and of LEDs and any orders: what the LED     *)
(* driver keeps whoever writes to it, and what a delivery shows on the two *)
(* devices together.                                                       *)
(***************************************************************************)
EXTENDS Kiosk, TLAPS

-----------------------------------------------------------------------------
(* The LED driver by itself.  The inductive invariant says who will darken   *)
(* each LED that is lit: a writer that has lit it and whose second loop has  *)
(* not got to it.                                                            *)

Owes(w, i) ==
  /\ i <= num_leds[w]
  /\ \/ pc[w] = "set" /\ i < led[w]
     \/ pc[w] = "off" /\ i <= led[w]

Owed == \A i \in lit : \E w \in Writers : Owes(w, i)

IInv == TypeOK /\ Owed

LEMMA InitIInv == Init => IInv
  BY LedAssumption DEF Init, IInv, TypeOK, Owed

LEMMA TypeStep == TypeOK /\ [Next]_vars => TypeOK'
<1> SUFFICES ASSUME TypeOK, [Next]_vars PROVE TypeOK'
  OBVIOUS
<1> USE LedAssumption DEF TypeOK, Leds
<1>1. ASSUME NEW w \in Writers, Write(w) PROVE TypeOK'
  BY <1>1 DEF Write
<1>2. ASSUME NEW w \in Writers, Set(w) PROVE TypeOK'
  <2>1. led[w] \in 1 .. NumLeds
    BY <1>2 DEF Set
  <2>2. lit' \subseteq 1 .. NumLeds /\ pc' \in [Writers -> {"idle", "set", "off"}]
    BY <1>2, <2>1 DEF Set
  <2>3. led' \in [Writers -> 0 .. NumLeds]
    BY <1>2, <2>1 DEF Set
  <2>4. \A u \in Writers : pc'[u] # "idle" => led'[u] \in 1 .. NumLeds
    BY <1>2, <2>1 DEF Set
  <2>5. QED
    BY <1>2, <2>2, <2>3, <2>4 DEF Set
<1>3. ASSUME NEW w \in Writers, CountDown(w) PROVE TypeOK'
  <2>1. led[w] \in 1 .. NumLeds
    BY <1>3 DEF CountDown
  <2>2. lit' \subseteq 1 .. NumLeds /\ pc' \in [Writers -> {"idle", "set", "off"}]
    BY <1>3, <2>1 DEF CountDown
  <2>3. led' \in [Writers -> 0 .. NumLeds]
    BY <1>3, <2>1 DEF CountDown
  <2>4. \A u \in Writers : pc'[u] # "idle" => led'[u] \in 1 .. NumLeds
    BY <1>3, <2>1 DEF CountDown, LastLed
  <2>5. QED
    BY <1>3, <2>2, <2>3, <2>4 DEF CountDown
<1>4. CASE UNCHANGED vars
  BY <1>4 DEF vars
<1>5. QED
  BY <1>1, <1>2, <1>3, <1>4 DEF Next, Step

(* What a writer owes, another one's step leaves owed; what the step itself  *)
(* lights, it owes.                                                          *)
LEMMA OwedStep == IInv /\ [Next]_vars => Owed'
<1> SUFFICES ASSUME IInv, [Next]_vars, NEW i \in lit'
             PROVE  \E w \in Writers : Owes(w, i)'
  BY DEF Owed
<1> USE LedAssumption DEF IInv, TypeOK, Owed, Owes, Leds
<1>1. ASSUME NEW w \in Writers, Write(w) PROVE \E u \in Writers : Owes(u, i)'
  BY <1>1 DEF Write
<1>2. ASSUME NEW w \in Writers, Set(w) PROVE \E u \in Writers : Owes(u, i)'
  <2>1. CASE i = led[w]
    <3>1. Owes(w, i)'
      BY <1>2, <2>1 DEF Set
    <3>2. QED
      BY <3>1
  <2>2. CASE i # led[w]
    <3>1. PICK u \in Writers : Owes(u, i)
      BY <1>2, <2>2 DEF Set
    <3>2. Owes(u, i)'
      BY <1>2, <2>2, <3>1 DEF Set
    <3>3. QED
      BY <3>2
  <2>3. QED
    BY <2>1, <2>2
<1>3. ASSUME NEW w \in Writers, CountDown(w) PROVE \E u \in Writers : Owes(u, i)'
  <2>1. PICK u \in Writers : Owes(u, i)
    BY <1>3 DEF CountDown
  <2>2. Owes(u, i)'
    BY <1>3, <2>1 DEF CountDown, Wanted, LastLed
  <2>3. QED
    BY <2>2
<1>4. CASE UNCHANGED vars
  BY <1>4 DEF vars
<1>5. QED
  BY <1>1, <1>2, <1>3, <1>4 DEF Next, Step

LEMMA Invariance == Spec => []IInv
<1>1. IInv /\ [Next]_vars => IInv'
  BY TypeStep, OwedStep DEF IInv
<1>2. QED
  BY InitIInv, <1>1, PTL DEF Spec

(* Every variable stays in its range, the index of the LEDs included.        *)
THEOREM TypeCorrect == Spec => []TypeOK
<1>1. IInv => TypeOK
  BY DEF IInv
<1>2. QED
  BY <1>1, Invariance, PTL

(* Whatever the overlap of the writes of any number of processes, all the    *)
(* LEDs are dark when the last one has returned.                             *)
THEOREM LedsEndDark == Spec => []DarkWhenIdle
<1>1. IInv => DarkWhenIdle
  BY DEF IInv, TypeOK, Owed, Owes, DarkWhenIdle
<1>2. QED
  BY <1>1, Invariance, PTL

(* A write that is alone darkens the LEDs from the top. *)
THEOREM LedsCountDown == Spec => TopFirst
<1> DEFINE Alone(w) == \A u \in Writers \ {w} : pc[u] = "idle"
           FromTop == \A i \in lit \ lit' : \A j \in lit : j <= i
<1>1. ASSUME IInv, [Next]_vars, NEW w \in Writers, Alone(w) PROVE FromTop
  <2>1. \A j \in lit : Owes(w, j)
    BY <1>1 DEF IInv, Owed, Owes
  <2>2. ASSUME NEW u \in Writers, Set(u) PROVE FromTop
    BY <1>1, <2>1, <2>2 DEF Set, Owes, IInv, TypeOK, Leds
  <2>3. ASSUME NEW u \in Writers, CountDown(u) PROVE FromTop
    BY <1>1, <2>1, <2>3 DEF CountDown, Owes, IInv, TypeOK, Leds
  <2>4. ASSUME NEW u \in Writers, Write(u) PROVE FromTop
    BY <2>4 DEF Write
  <2>5. CASE UNCHANGED vars
    BY <2>5 DEF vars
  <2>6. QED
    BY <1>1, <2>2, <2>3, <2>4, <2>5 DEF Next, Step
<1>2. IInv /\ [Next]_vars => [\A w \in Writers : Alone(w) => FromTop]_vars
  BY <1>1
<1>3. QED
  BY <1>2, Invariance, PTL DEF Spec, TopFirst


-----------------------------------------------------------------------------
(* The kiosks are writers of the LED driver like any others.                 *)
LEMMA KioskStep == [KNext]_all => [Next]_vars
BY DEF KNext, all, kiosks, segs, Next, Deliver, ShowDistance, Delivered, Devices

(* Two kiosks that deliver at once use the LED driver as its specification   *)
(* lets any writers use it, so that what is proved of it holds of them.      *)
THEOREM KioskUsesLedDriver == KSpec => Spec
<1>1. KInit => Init
  BY DEF KInit
<1> QED BY <1>1, KioskStep, PTL DEF KSpec, Spec

(* Between deliveries, however they overlapped, the LEDs are dark.           *)
THEOREM KioskLedsEndDark == KSpec => []DarkWhenIdle
BY KioskUsesLedDriver, LedsEndDark, PTL

(* A kiosk that delivers alone counts the distance down from the top. *)
THEOREM KioskLedsCountDown == KSpec => TopFirst
BY KioskUsesLedDriver, LedsCountDown, PTL

-----------------------------------------------------------------------------
(* Both devices during a delivery.                                           *)

Digit(p) == p % 10

KTypes ==
  /\ TypeOK
  /\ at \in [Writers -> {"menu", "seg", "led"}]
  /\ order \in [Writers -> Orders \cup {NoOrder}]
  /\ alone \in [Writers -> BOOLEAN]
  /\ seg_pc \in [Writers -> {"idle", "extract", "show"}]
  /\ price \in [Writers -> Int] /\ digits \in [Writers -> Seq(Int)]
  /\ segment \in [Writers -> Seg!Segments]
  /\ display = [s \in Seg!Segments |-> display[s]]

(* A kiosk writes to at most the device it is at; a delivery that is alone   *)
(* has the devices for itself.                                               *)
Placed ==
  \A w \in Writers :
    /\ at[w] # "led" => pc[w] = "idle"
    /\ at[w] # "seg" => seg_pc[w] = "idle"
    /\ seg_pc[w] # "show" => segment[w] = 1
    /\ alone[w] /\ at[w] # "menu" => \A v \in Writers \ {w} : at[v] = "menu"

Shows(p) == p > 0 => \A s \in Seg!Segments : display[s] = Seg!num[Digit(p)][s]

(* How far the display is with the price of a delivery that is alone. *)
PriceInv ==
  \A w \in Writers : alone[w] =>
    /\ seg_pc[w] = "extract" =>
         IF digits[w] = << >> THEN price[w] = order[w].price
                              ELSE digits[w][1] = Digit(order[w].price)
    /\ seg_pc[w] = "show" =>
         /\ digits[w] # << >> /\ digits[w][1] = Digit(order[w].price)
         /\ Len(digits[w]) = 1 =>
              \A s \in Seg!Segments :
                s < segment[w] => display[s] = Seg!num[Digit(order[w].price)][s]
    /\ at[w] # "menu" /\ seg_pc[w] = "idle" => Shows(order[w].price)

(* How far the LEDs are with its distance. *)
DistanceInv ==
  \A w \in Writers :
    /\ pc[w] # "idle" => num_leds[w] = order[w].leds
    /\ alone[w] /\ pc[w] = "set" => lit = {i \in Leds : i <= num_leds[w] /\ i < led[w]}
    /\ alone[w] /\ pc[w] = "off" => lit = {i \in Leds : i <= num_leds[w] /\ i <= led[w]}

KInv == KTypes /\ Placed /\ PriceInv /\ DistanceInv

LEMMA OrdersAreNumbers ==
  ASSUME NEW o \in Orders \cup {NoOrder}
  PROVE  o.price \in Int /\ o.leds \in Int
<1>1. CASE o \in Orders
  <2>1. o \in [price : Prices, leds : Numbers]
    BY <1>1, KioskAssumption
  <2>2. Prices \subseteq Int /\ Numbers \subseteq Int
    BY KioskAssumption, LedAssumption
  <2> QED BY <2>1, <2>2
<1>2. CASE o = NoOrder
  BY <1>2 DEF NoOrder
<1> QED BY <1>1, <1>2

LEMMA InitKInv == KInit => KInv
<1> SUFFICES ASSUME KInit PROVE KInv
  OBVIOUS
<1> USE LedAssumption DEF KInit, Init, Seg!Init, Seg!Segments
<1>1. KTypes
  <2>1. TypeOK
    BY DEF TypeOK
  <2> QED BY <2>1 DEF KTypes
<1>2. Placed
  BY DEF Placed
<1>3. PriceInv /\ DistanceInv
  BY DEF PriceInv, DistanceInv
<1> QED BY <1>1, <1>2, <1>3 DEF KInv

(* What only the LED driver does. *)
LEMMA LedStep ==
  ASSUME KInv, NEW w \in Writers, Step(w), UNCHANGED <<segs, kiosks>>
  PROVE  KInv'
<1> USE LedAssumption DEF segs, kiosks, Seg!Segments
<1>1. KTypes'
  <2>1. TypeOK'
    BY TypeStep DEF KInv, KTypes, Next
  <2> QED BY <2>1 DEF KInv, KTypes
<1>2. Placed'
  <2>1. pc[w] # "idle" /\ \A v \in Writers \ {w} : pc'[v] = pc[v]
    BY DEF KInv, KTypes, TypeOK, Step, Set, CountDown
  <2>2. at[w] = "led"
    BY <2>1 DEF KInv, Placed
  <2>3. \A v \in Writers : at[v] # "led" => pc'[v] = "idle"
    BY <2>1, <2>2 DEF KInv, Placed
  <2> QED BY <2>3 DEF KInv, Placed
<1>3. PriceInv'
  BY DEF KInv, PriceInv, Shows
<1>4. DistanceInv'
  <2> SUFFICES ASSUME NEW v \in Writers
               PROVE  /\ pc'[v] # "idle" => num_leds'[v] = order'[v].leds
                      /\ alone'[v] /\ pc'[v] = "set" =>
                           lit' = {i \in Leds : i <= num_leds'[v] /\ i < led'[v]}
                      /\ alone'[v] /\ pc'[v] = "off" =>
                           lit' = {i \in Leds : i <= num_leds'[v] /\ i <= led'[v]}
    BY DEF DistanceInv, Leds
  <2>1. pc'[v] # "idle" => pc[v] # "idle" /\ num_leds'[v] = order'[v].leds
    BY DEF KInv, KTypes, TypeOK, DistanceInv, Step, Set, CountDown
  <2>2. alone'[v] /\ pc'[v] # "idle" => v = w
    BY <2>1 DEF KInv, KTypes, TypeOK, Placed, Step, Set, CountDown
  <2>3. CASE Set(w) /\ v = w
    BY <2>1, <2>3 DEF KInv, KTypes, TypeOK, Placed, DistanceInv, Set, Leds
  <2>4. CASE CountDown(w) /\ v = w
    BY <2>1, <2>4 DEF KInv, KTypes, TypeOK, Placed, DistanceInv, CountDown, Wanted, LastLed, Leds
  <2> QED BY <2>1, <2>2, <2>3, <2>4 DEF Step
<1> QED BY <1>1, <1>2, <1>3, <1>4 DEF KInv

LEMMA DigitsAreNumbers ==
  ASSUME NEW p \in Int
  PROVE  p % 10 \in 0 .. 9 /\ p \div 10 \in Int
BY SMT

(* A sequence that is not empty has a length. *)
LEMMA NonEmpty ==
  ASSUME NEW d \in Seq(Int), d # << >>
  PROVE  Len(d) = 1 \/ Len(d) > 1
<1> DEFINE n == Len(d)
<1>1. n \in Nat /\ n # 0
  OBVIOUS
<1> HIDE DEF n
<1>2. n = 1 \/ n > 1
  BY <1>1
<1> QED BY <1>2 DEF n

(* A shorter sequence begins like the longer one. *)
LEMMA Shorter ==
  ASSUME NEW d \in Seq(Int), Len(d) > 1
  PROVE  /\ SubSeq(d, 1, Len(d) - 1) # << >>
         /\ SubSeq(d, 1, Len(d) - 1)[1] = d[1]
<1> DEFINE e == SubSeq(d, 1, Len(d) - 1)
<1>1. Len(e) = Len(d) - 1
  OBVIOUS
<1>2. \A i \in 1 .. Len(d) - 1 : e[i] = d[i]
  OBVIOUS
<1>3. 1 \in 1 .. Len(d) - 1
  OBVIOUS
<1>4. e # << >>
  BY <1>1, SMTT(30)
<1> QED BY <1>2, <1>3, <1>4

(* What only the seven-segment driver does. *)
LEMMA ExtractStep ==
  ASSUME KInv, NEW w \in Writers, Seg!Extract(w), UNCHANGED <<vars, kiosks>>
  PROVE  KInv'
<1> USE DEF vars, kiosks, Seg!Segments, Seg!Extract, Seg!MoreDigits
<1>1. KTypes'
  <2>1. price[w] % 10 \in Int /\ price[w] \div 10 \in Int
    BY DigitsAreNumbers DEF KInv, KTypes
  <2>2. price' \in [Writers -> Int]
    BY <2>1 DEF KInv, KTypes
  <2>3. Append(digits[w], price[w] % 10) \in Seq(Int)
    BY <2>1 DEF KInv, KTypes
  <2>4. digits' \in [Writers -> Seq(Int)]
    BY <2>3 DEF KInv, KTypes
  <2> QED BY <2>2, <2>4 DEF KInv, KTypes, TypeOK
<1>2. Placed'
  BY SMTT(30) DEF KInv, KTypes, Placed
<1>3. PriceInv'
  <2> SUFFICES ASSUME NEW v \in Writers, alone[v]
               PROVE  /\ seg_pc'[v] = "extract" =>
                           IF digits'[v] = << >> THEN price'[v] = order[v].price
                                                 ELSE digits'[v][1] = Digit(order[v].price)
                      /\ seg_pc'[v] = "show" =>
                           /\ digits'[v] # << >> /\ digits'[v][1] = Digit(order[v].price)
                           /\ Len(digits'[v]) = 1 =>
                                \A s \in Seg!Segments : s < segment'[v] =>
                                  display'[s] = Seg!num[Digit(order[v].price)][s]
                      /\ at'[v] # "menu" /\ seg_pc'[v] = "idle" => Shows(order[v].price)
    BY DEF PriceInv, Shows
  <2>1. CASE v # w
    BY <2>1 DEF KInv, KTypes, PriceInv
  <2>2. CASE v = w /\ price[w] > 0
    <3>1. digits'[w] = Append(digits[w], Digit(price[w])) /\ seg_pc'[w] = "extract"
      BY <2>2 DEF KInv, KTypes, Digit
    <3>2. digits'[w] # << >> /\ digits'[w][1] = Digit(order[w].price)
      BY <2>2, <3>1 DEF KInv, KTypes, PriceInv
    <3> QED BY <2>2, <3>1, <3>2
  <2>3. CASE v = w /\ ~(price[w] > 0) /\ digits[w] = << >>
    BY <2>3 DEF KInv, KTypes, PriceInv, Shows
  <2>4. CASE v = w /\ ~(price[w] > 0) /\ digits[w] # << >>
    BY <2>4 DEF KInv, KTypes, PriceInv, Placed
  <2> QED BY <2>1, <2>2, <2>3, <2>4
<1>4. DistanceInv'
  BY DEF KInv, DistanceInv, Leds
<1> QED BY <1>1, <1>2, <1>3, <1>4 DEF KInv

LEMMA SegmentStep ==
  ASSUME KInv, NEW w \in Writers, Seg!SetSegment(w), UNCHANGED <<vars, kiosks>>
  PROVE  KInv'
<1> USE DEF vars, kiosks, Seg!Segments, Seg!Shown
<1>0. /\ digits[w] \in Seq(Int) /\ segment[w] \in 1 .. 7 /\ seg_pc[w] = "show"
      /\ UNCHANGED price
      /\ display' = [display EXCEPT ![segment[w]] =
                       Seg!num[digits[w][Len(digits[w])]][segment[w]]]
  BY DEF KInv, KTypes, Seg!SetSegment
<1>a. segment[w] < 7 => /\ segment' = [segment EXCEPT ![w] = segment[w] + 1]
                        /\ UNCHANGED <<seg_pc, digits>>
  BY DEF Seg!SetSegment
<1>b. ~(segment[w] < 7) =>
        /\ segment' = [segment EXCEPT ![w] = 1]
        /\ digits' = [digits EXCEPT ![w] = SubSeq(digits[w], 1, Len(digits[w]) - 1)]
        /\ seg_pc' = [seg_pc EXCEPT ![w] = IF Len(digits[w]) = 1 THEN "idle" ELSE "show"]
  BY DEF Seg!SetSegment
<1>c. alone[w] => digits[w] # << >> /\ digits[w][1] = Digit(order[w].price)
  BY <1>0 DEF KInv, PriceInv
<1>1. KTypes'
  <2>1. segment' \in [Writers -> Seg!Segments]
    <3>1. segment \in [Writers -> 1 .. 7]
      BY DEF KInv, KTypes
    <3>2. PICK n \in 1 .. 7 : segment' = [segment EXCEPT ![w] = n]
      <4>1. CASE segment[w] < 7
        BY <1>0, <1>a, <4>1
      <4>2. CASE ~(segment[w] < 7)
        BY <1>b, <4>2
      <4> QED BY <4>1, <4>2
    <3> QED BY <3>1, <3>2
  <2>2. SubSeq(digits[w], 1, Len(digits[w]) - 1) \in Seq(Int)
    BY <1>0
  <2>3. digits' \in [Writers -> Seq(Int)]
    BY <1>a, <1>b, <2>2 DEF KInv, KTypes
  <2>4. display' = [s \in Seg!Segments |-> display'[s]]
    BY <1>0 DEF KInv, KTypes
  <2>5. seg_pc' \in [Writers -> {"idle", "extract", "show"}] /\ price' \in [Writers -> Int]
    BY <1>0, <1>a, <1>b DEF KInv, KTypes
  <2>6. TypeOK' /\ at' \in [Writers -> {"menu", "seg", "led"}]
        /\ order' \in [Writers -> Orders \cup {NoOrder}] /\ alone' \in [Writers -> BOOLEAN]
    BY DEF KInv, KTypes, TypeOK
  <2> QED BY <2>1, <2>3, <2>4, <2>5, <2>6 DEF KTypes
<1>2. Placed'
  BY <1>0, <1>a, <1>b DEF KInv, KTypes, Placed
<1>3. PriceInv'
  <2> SUFFICES ASSUME NEW v \in Writers, alone[v]
               PROVE  /\ seg_pc'[v] = "extract" =>
                           IF digits'[v] = << >> THEN price'[v] = order[v].price
                                                 ELSE digits'[v][1] = Digit(order[v].price)
                      /\ seg_pc'[v] = "show" =>
                           /\ digits'[v] # << >> /\ digits'[v][1] = Digit(order[v].price)
                           /\ Len(digits'[v]) = 1 =>
                                \A s \in Seg!Segments : s < segment'[v] =>
                                  display'[s] = Seg!num[Digit(order[v].price)][s]
                      /\ at'[v] # "menu" /\ seg_pc'[v] = "idle" =>
                           (order[v].price > 0 => \A s \in Seg!Segments :
                              display'[s] = Seg!num[Digit(order[v].price)][s])
    BY DEF PriceInv, Shows
  <2>1. CASE v # w
    <3>1. at[w] = "seg" /\ at[v] = "menu" /\ seg_pc[v] = "idle"
      BY <1>0, <2>1 DEF KInv, KTypes, Placed
    <3> QED BY <1>a, <1>b, <2>1, <3>1 DEF KInv, KTypes
  <2>2. CASE v = w /\ segment[w] < 7
    <3>1. digits'[w] = digits[w] /\ segment'[w] = segment[w] + 1 /\ seg_pc'[w] = "show"
      BY <1>0, <1>a, <2>2 DEF KInv, KTypes
    <3>2. Len(digits[w]) = 1 =>
            display' = [display EXCEPT ![segment[w]] = Seg!num[Digit(order[w].price)][segment[w]]]
      BY <1>0, <1>c, <2>2
    <3> QED BY <1>0, <1>c, <2>2, <3>1, <3>2 DEF KInv, KTypes, PriceInv
  <2>3. CASE v = w /\ ~(segment[w] < 7) /\ Len(digits[w]) = 1
    <3>1. seg_pc'[w] = "idle" /\ segment[w] = 7
      BY <1>0, <1>b, <2>3 DEF KInv, KTypes
    <3>2. display' = [display EXCEPT ![7] = Seg!num[Digit(order[w].price)][7]]
      BY <1>0, <1>c, <2>3, <3>1
    <3> QED BY <1>0, <2>3, <3>1, <3>2 DEF KInv, KTypes, PriceInv
  <2>4. CASE v = w /\ ~(segment[w] < 7) /\ Len(digits[w]) # 1
    <3>1. seg_pc'[w] = "show" /\ segment'[w] = 1
      BY <1>0, <1>b, <2>4 DEF KInv, KTypes
    <3>2. digits'[w] = SubSeq(digits[w], 1, Len(digits[w]) - 1)
      BY <1>b, <2>4 DEF KInv, KTypes
    <3>3. Len(digits[w]) > 1
      <4>1. digits[w] # << >>
        BY <1>c, <2>4
      <4>2. digits[w] \in Seq(Int) /\ Len(digits[w]) # 1
        BY <1>0, <2>4
      <4> QED BY <4>1, <4>2, NonEmpty, Zenon
    <3>4. digits'[w] # << >> /\ digits'[w][1] = Digit(order[w].price)
      BY <1>0, <1>c, <2>4, <3>2, <3>3, Shorter
    <3> QED BY <2>4, <3>1, <3>4
  <2> QED BY <2>1, <2>2, <2>3, <2>4
<1>4. DistanceInv'
  BY DEF KInv, DistanceInv, Leds
<1> QED BY <1>1, <1>2, <1>3, <1>4 DEF KInv

(* A delivery begins: the price is written, and whoever else delivers is not *)
(* alone any more.                                                           *)
LEMMA DeliverStep ==
  ASSUME KInv, NEW w \in Writers, Deliver(w)
  PROVE  KInv'
<1> USE DEF vars, Seg!Segments
<1>1. PICK o \in Orders, p \in Prices :
        /\ price' = [price EXCEPT ![w] = p] /\ o.price = price'[w]
        /\ order' = [order EXCEPT ![w] = o]
  BY DEF Deliver, Seg!Write
<1>2. /\ at[w] = "menu" /\ at' = [at EXCEPT ![w] = "seg"] /\ UNCHANGED vars
      /\ seg_pc' = [seg_pc EXCEPT ![w] = "extract"] /\ digits' = [digits EXCEPT ![w] = << >>]
      /\ UNCHANGED <<display, segment>>
      /\ alone' = [u \in Writers |->
                     IF u = w THEN \A v \in Writers : ~Delivering(v)
                              ELSE alone[u] /\ ~Delivering(u)]
  BY DEF Deliver, KGoto, Seg!Write
<1>3. p \in Int /\ o.price = p
  BY <1>1, OrdersAreNumbers DEF KInv, KTypes
<1>4. pc[w] = "idle" /\ seg_pc[w] = "idle"
  BY <1>2 DEF KInv, Placed
<1>5. \A u \in Writers : alone'[u] /\ at'[u] # "menu" => u = w /\ \A v \in Writers : at[v] = "menu"
  BY <1>2 DEF Delivering, KInv, KTypes
<1>6. KTypes'
  <2>1. price' \in [Writers -> Int] /\ order' \in [Writers -> Orders \cup {NoOrder}]
    BY <1>1, <1>3 DEF KInv, KTypes
  <2>2. digits' \in [Writers -> Seq(Int)]
    BY <1>2 DEF KInv, KTypes
  <2>3. alone' \in [Writers -> BOOLEAN]
    BY <1>2, Zenon DEF KInv, KTypes, Delivering
  <2> QED BY <1>2, <2>1, <2>2, <2>3 DEF KInv, KTypes, TypeOK
<1>7. Placed'
  <2>1. \A u \in Writers :
          /\ at'[u] # "led" => pc'[u] = "idle"
          /\ at'[u] # "seg" => seg_pc'[u] = "idle"
          /\ seg_pc'[u] # "show" => segment'[u] = 1
    BY <1>2, <1>4 DEF KInv, KTypes, Placed
  <2>2. \A u \in Writers : alone'[u] /\ at'[u] # "menu" => \A v \in Writers \ {u} : at'[v] = "menu"
    BY <1>2, <1>5 DEF KInv, KTypes
  <2> QED BY <2>1, <2>2 DEF Placed
<1>8. PriceInv'
  <2> SUFFICES ASSUME NEW v \in Writers, alone'[v]
               PROVE  /\ seg_pc'[v] = "extract" =>
                           IF digits'[v] = << >> THEN price'[v] = order'[v].price
                                                 ELSE digits'[v][1] = Digit(order'[v].price)
                      /\ seg_pc'[v] = "show" => FALSE
                      /\ at'[v] # "menu" /\ seg_pc'[v] = "idle" => FALSE
    BY DEF PriceInv
  <2>1. CASE v = w
    BY <1>1, <1>2, <1>3, <2>1 DEF KInv, KTypes
  <2>2. CASE v # w
    BY <1>2, <1>5, <2>2 DEF KInv, KTypes, Placed
  <2> QED BY <2>1, <2>2
<1>9. DistanceInv'
  <2>1. \A v \in Writers : pc'[v] # "idle" => v # w /\ order'[v] = order[v] /\ ~alone'[v]
    BY <1>1, <1>2, <1>4, <1>5 DEF KInv, KTypes, Placed
  <2> QED BY <1>2, <2>1 DEF KInv, DistanceInv, Leds
<1> QED BY <1>6, <1>7, <1>8, <1>9 DEF KInv

(* The price is shown: the distance is written. *)
LEMMA ShowDistanceStep ==
  ASSUME KInv, DarkWhenIdle, NEW w \in Writers, ShowDistance(w)
  PROVE  KInv'
<1> USE DEF segs, Seg!Segments
<1>1. /\ at[w] = "seg" /\ at' = [at EXCEPT ![w] = "led"] /\ seg_pc[w] = "idle"
      /\ pc' = [pc EXCEPT ![w] = "set"] /\ led' = [led EXCEPT ![w] = 1]
      /\ UNCHANGED <<segs, order, alone, lit>>
  BY DEF ShowDistance, KGoto, PriceShown, Seg!Busy, Write
<1>2. PICK n \in Numbers : num_leds' = [num_leds EXCEPT ![w] = n] /\ num_leds'[w] = order[w].leds
  BY DEF ShowDistance, Write, Distance
<1>3. KTypes'
  <2>1. TypeOK'
    BY TypeStep DEF KInv, KTypes, Next, ShowDistance
  <2> QED BY <1>1, <2>1 DEF KInv, KTypes
<1>4. Placed'
  BY <1>1, SMTT(30) DEF KInv, KTypes, TypeOK, Placed
<1>5. PriceInv'
  <2>1. \A v \in Writers : at'[v] # "menu" <=> at[v] # "menu"
    BY <1>1 DEF KInv, KTypes
  <2> QED BY <1>1, <2>1 DEF KInv, PriceInv, Shows
<1>6. DistanceInv'
  <2>1. alone[w] => lit = {}
    <3>1. alone[w] => \A v \in Writers : pc[v] = "idle"
      BY <1>1 DEF KInv, Placed
    <3> QED BY <3>1 DEF DarkWhenIdle
  <2>2. \A v \in Writers \ {w} : alone[v] => pc[v] = "idle"
    BY <1>1 DEF KInv, Placed
  <2>3. pc'[w] = "set" /\ led'[w] = 1 /\ num_leds'[w] = order[w].leds /\ n \in Int
    BY <1>1, <1>2, LedAssumption DEF KInv, KTypes, TypeOK
  <2>4. \A v \in Writers \ {w} : pc'[v] = pc[v] /\ num_leds'[v] = num_leds[v]
    BY <1>1, <1>2 DEF KInv, KTypes, TypeOK
  <2>5. {i \in Leds : i <= num_leds'[w] /\ i < led'[w]} = {}
    BY <2>3, LedAssumption DEF Leds
  <2> QED BY <1>1, <2>1, <2>2, <2>3, <2>4, <2>5 DEF KInv, DistanceInv, Leds
<1> QED BY <1>3, <1>4, <1>5, <1>6 DEF KInv

LEMMA DeliveredStep ==
  ASSUME KInv, NEW w \in Writers, Delivered(w)
  PROVE  KInv'
<1> USE DEF Delivered, KGoto, vars, segs, Seg!Segments
<1>1. KTypes'
  BY DEF KInv, KTypes, TypeOK
<1>2. Placed'
  BY DEF KInv, KTypes, Placed
<1>3. PriceInv'
  BY DEF KInv, KTypes, PriceInv, Shows
<1>4. DistanceInv'
  BY DEF KInv, DistanceInv, Leds
<1> QED BY <1>1, <1>2, <1>3, <1>4 DEF KInv

LEMMA KInvIsInvariant == KSpec => []KInv
<1>1. KInv /\ DarkWhenIdle /\ [KNext]_all => KInv'
  <2> SUFFICES ASSUME KInv, DarkWhenIdle, [KNext]_all PROVE KInv'
    OBVIOUS
  <2>1. ASSUME NEW w \in Writers, Devices(w) PROVE KInv'
    BY <2>1, LedStep, ExtractStep, SegmentStep DEF Devices
  <2>2. CASE KNext
    BY <2>1, <2>2, DeliverStep, ShowDistanceStep, DeliveredStep DEF KNext
  <2>3. CASE UNCHANGED all
    BY <2>3 DEF all, vars, segs, kiosks, KInv, KTypes, TypeOK, Placed, PriceInv, DistanceInv, Shows, Leds
  <2> QED BY <2>2, <2>3
<1> QED BY InitKInv, KioskLedsEndDark, <1>1, PTL DEF KSpec

(* What a delivery that no other kiosk overlaps shows on the two devices is  *)
(* one order: its price's last digit and the distance that is left.          *)
THEOREM DevicesShowOneOrder == KSpec => []DevicesAgree
<1>1. KInv => DevicesAgree
  <2> SUFFICES ASSUME KInv, NEW w \in Writers, pc[w] = "off", alone[w]
               PROVE  /\ order[w].price > 0 =>
                           \A s \in Seg!Segments : display[s] = Seg!num[order[w].price % 10][s]
                      /\ lit = {i \in Leds : i <= order[w].leds /\ i <= led[w]}
    BY DEF DevicesAgree
  <2>1. at[w] = "led" /\ seg_pc[w] = "idle"
    BY DEF KInv, Placed
  <2>2. Shows(order[w].price)
    BY <2>1 DEF KInv, PriceInv
  <2>3. lit = {i \in Leds : i <= order[w].leds /\ i <= led[w]}
    BY DEF KInv, DistanceInv
  <2> QED BY <2>2, <2>3 DEF Shows, Digit
<1> QED BY KInvIsInvariant, <1>1, PTL

-----------------------------------------------------------------------------
(* The seven-segment driver, whoever writes to it.                           *)

LEMMA KioskSegStep == [KNext]_all => [Seg!Next]_segs
BY DEF KNext, all, kiosks, segs, Seg!Next, Deliver, ShowDistance, Delivered, Devices

(* The kiosks' deliveries are writes of the seven-segment driver like any.   *)
THEOREM KioskUsesSegDriver == KSpec => Seg!Spec
<1>1. KInit => Seg!Init
  BY DEF KInit
<1>2. [KNext]_all => [Seg!Next]_Seg!vars
  BY KioskSegStep DEF segs, Seg!vars
<1> QED BY <1>1, <1>2, PTL DEF KSpec, Seg!Spec

(* What is used of the types. *)
SegTypes ==
  /\ seg_pc \in [Writers -> {"idle", "extract", "show"}]
  /\ price \in [Writers -> Int] /\ digits \in [Writers -> Seq(Int)]
  /\ segment \in [Writers -> Seg!Segments]
  /\ display = [s \in Seg!Segments |-> display[s]]
  /\ written \in [Writers -> Int] /\ lone \in [Writers -> BOOLEAN]
  /\ seen = [w \in Writers |-> seen[w]]

(* A write still knows its number's last digit: before it is taken off, in   *)
(* price; afterwards as the first of its digits.                             *)
KnowsLast ==
  \A w \in Writers :
    /\ seg_pc[w] = "extract" /\ digits[w] = << >> => price[w] = written[w]
    /\ seg_pc[w] # "idle" /\ digits[w] # << >> =>
         written[w] > 0 /\ digits[w][1] = Digit(written[w])
    /\ seg_pc[w] = "show" => digits[w] # << >>
    /\ seg_pc[w] # "show" => segment[w] = 1

(* The write is going to set segment s to its last digit's. *)
Owing(w, s) ==
  \/ seg_pc[w] = "extract" /\ written[w] > 0
  \/ seg_pc[w] = "show" /\ (s >= segment[w] \/ Len(digits[w]) > 1)

(* Segment s is the one of the write's last digit. *)
Left(w, s) == written[w] > 0 /\ display[s] = Seg!num[Digit(written[w])][s]

Traced == \A s \in Seg!Segments : \E w \in Writers : written[w] <= 0 \/ Owing(w, s) \/ Left(w, s)

SegInv == SegTypes /\ KnowsLast

LEMMA InitSegInv == KInit => SegInv /\ Traced
<1> SUFFICES ASSUME KInit PROVE SegInv /\ Traced
  OBVIOUS
<1> USE DEF KInit, Seg!Init, Seg!Segments
<1>1. SegTypes /\ KnowsLast
  BY DEF SegTypes, KnowsLast
<1>2. Traced
  BY KioskAssumption DEF Traced
<1> QED BY <1>1, <1>2 DEF SegInv

(* A write begins. *)
LEMMA SegWriteStep ==
  ASSUME SegInv, NEW w \in Writers, Seg!Write(w)
  PROVE  SegInv' /\ (Traced => Traced')
<1> USE DEF Seg!Segments
<1>1. PICK p \in Prices : /\ price' = [price EXCEPT ![w] = p]
                          /\ written' = [written EXCEPT ![w] = p]
  BY DEF Seg!Write
<1>2. /\ seg_pc[w] = "idle" /\ seg_pc' = [seg_pc EXCEPT ![w] = "extract"]
      /\ digits' = [digits EXCEPT ![w] = << >>] /\ seen' = [seen EXCEPT ![w] = 0]
      /\ UNCHANGED <<display, segment>>
  BY DEF Seg!Write, Seg!Busy
<1>3. p \in Int
  BY KioskAssumption
<1>4. lone' \in [Writers -> BOOLEAN]
  BY Zenon DEF Seg!Write, Seg!Busy, SegInv, SegTypes
<1>5. SegTypes'
  <2>1. price' \in [Writers -> Int] /\ written' \in [Writers -> Int]
    BY <1>1, <1>3 DEF SegInv, SegTypes
  <2>2. digits' \in [Writers -> Seq(Int)]
    BY <1>2 DEF SegInv, SegTypes
  <2>3. seg_pc' \in [Writers -> {"idle", "extract", "show"}]
    BY <1>2 DEF SegInv, SegTypes
  <2>4. seen' = [u \in Writers |-> seen'[u]]
    BY <1>2 DEF SegInv, SegTypes
  <2> QED BY <1>2, <1>4, <2>1, <2>2, <2>3, <2>4 DEF SegInv, SegTypes
<1>6. KnowsLast'
  BY <1>1, <1>2 DEF SegInv, SegTypes, KnowsLast
<1>7. Traced'
  <2>1. written'[w] = p /\ seg_pc'[w] = "extract"
    BY <1>1, <1>2 DEF SegInv, SegTypes
  <2>2. \A s \in Seg!Segments : written'[w] <= 0 \/ Owing(w, s)'
    BY <1>3, <2>1 DEF Owing
  <2> QED BY <2>2 DEF Traced
<1> QED BY <1>5, <1>6, <1>7 DEF SegInv

(* One division of the price, or the end of the digits. *)
LEMMA SegExtractStep ==
  ASSUME SegInv, NEW w \in Writers, Seg!Extract(w)
  PROVE  SegInv' /\ (Traced => Traced')
<1> USE DEF Seg!Segments, Seg!MoreDigits
<1>1. seg_pc[w] = "extract" /\ UNCHANGED <<display, segment, written, lone, seen>>
  BY DEF Seg!Extract
<1>2. CASE price[w] > 0
  <2>1. /\ digits' = [digits EXCEPT ![w] = Append(@, Digit(price[w]))]
        /\ price' = [price EXCEPT ![w] = @ \div 10] /\ UNCHANGED seg_pc
    BY <1>2 DEF Seg!Extract, Digit
  <2>2. Digit(price[w]) \in Int /\ price[w] \div 10 \in Int
    BY DigitsAreNumbers DEF SegInv, SegTypes, Digit
  <2>3. SegTypes'
    <3>1. Append(digits[w], Digit(price[w])) \in Seq(Int)
      BY <2>2 DEF SegInv, SegTypes
    <3> QED BY <1>1, <2>1, <2>2, <3>1 DEF SegInv, SegTypes
  <2>4. digits'[w] # << >> /\ written[w] > 0 /\ digits'[w][1] = Digit(written[w])
    <3>1. digits'[w] = Append(digits[w], Digit(price[w])) /\ digits[w] \in Seq(Int)
      BY <2>1 DEF SegInv, SegTypes
    <3>2. CASE digits[w] = << >>
      <4>1. digits'[w] = <<Digit(price[w])>> /\ price[w] = written[w]
        BY <1>1, <3>1, <3>2 DEF SegInv, KnowsLast
      <4> QED BY <1>2, <4>1
    <3>3. CASE digits[w] # << >>
      <4>1. written[w] > 0 /\ digits[w][1] = Digit(written[w])
        BY <1>1, <3>3 DEF SegInv, KnowsLast
      <4>2. Len(digits[w]) = 1 \/ Len(digits[w]) > 1
        BY <3>1, <3>3, NonEmpty, Zenon
      <4>3. digits'[w] # << >> /\ digits'[w][1] = digits[w][1]
        BY <2>2, <3>1, <4>2, SMTT(30)
      <4> QED BY <4>1, <4>3
    <3> QED BY <3>2, <3>3
  <2>5. KnowsLast'
    BY <1>1, <2>1, <2>4 DEF SegInv, SegTypes, KnowsLast
  <2>6. \A u \in Writers, s \in Seg!Segments : Owing(u, s) => Owing(u, s)'
    BY <1>1, <2>1 DEF Owing, SegInv, SegTypes
  <2>7. \A u \in Writers, s \in Seg!Segments : Left(u, s) => Left(u, s)'
    BY <1>1 DEF Left
  <2> QED BY <1>1, <2>3, <2>5, <2>6, <2>7 DEF SegInv, Traced
<1>3. CASE ~(price[w] > 0)
  <2>1. /\ seg_pc' = [seg_pc EXCEPT ![w] = IF digits[w] = << >> THEN "idle" ELSE "show"]
        /\ UNCHANGED <<digits, price>>
    BY <1>3 DEF Seg!Extract
  <2>2. SegTypes' /\ KnowsLast'
    BY <1>1, <2>1 DEF SegInv, SegTypes, KnowsLast
  <2>3. \A u \in Writers, s \in Seg!Segments : Owing(u, s) => Owing(u, s)'
    BY <1>1, <1>3, <2>1 DEF Owing, SegInv, SegTypes, KnowsLast
  <2>4. \A u \in Writers, s \in Seg!Segments : Left(u, s) => Left(u, s)'
    BY <1>1 DEF Left
  <2> QED BY <1>1, <2>2, <2>3, <2>4 DEF SegInv, Traced
<1> QED BY <1>2, <1>3

(* What is left to show after the last segment of a digit. *)
LEMMA RemainingDigits ==
  ASSUME NEW d \in Seq(Int), d # << >>, Len(d) # 1
  PROVE  LET e == SubSeq(d, 1, Len(d) - 1)
         IN /\ e \in Seq(Int) /\ e # << >> /\ Len(e) = Len(d) - 1 /\ Len(e) \in Nat \ {0}
            /\ \A i \in 1 .. Len(e) : e[i] = d[i]
<1> DEFINE n == Len(d)  e == SubSeq(d, 1, n - 1)
<1>1. n \in Nat /\ n # 0 /\ n # 1
  OBVIOUS
<1>2. /\ e \in Seq(Int) /\ Len(e) = n - 1
      /\ \A i \in 1 .. n - 1 : e[i] = d[i]
  <2>1. e \in Seq(Int)
    OBVIOUS
  <2>2. Len(e) = n - 1
    <3>1. n > 1
      BY NonEmpty
    <3> QED BY <3>1
  <2>3. \A i \in 1 .. n - 1 : e[i] = d[i]
    OBVIOUS
  <2> QED BY <2>1, <2>2, <2>3
<1> HIDE DEF n, e
<1>3. Len(e) \in Nat \ {0}
  BY <1>1, <1>2
<1>4. e # << >>
  BY <1>3
<1> QED BY <1>2, <1>3, <1>4 DEF n, e

(* One segment is set; after the seventh the next digit is on. *)
LEMMA SegSetStep ==
  ASSUME SegInv, NEW w \in Writers, Seg!SetSegment(w)
  PROVE  SegInv' /\ (Traced => Traced')
<1> USE DEF Seg!Segments, Seg!Shown
<1>0. /\ digits[w] \in Seq(Int) /\ digits[w] # << >>
      /\ segment[w] \in 1 .. 7 /\ seg_pc[w] = "show"
      /\ UNCHANGED <<price, written, lone>>
      /\ display' = [display EXCEPT ![segment[w]] =
                       Seg!num[digits[w][Len(digits[w])]][segment[w]]]
      /\ written[w] > 0 /\ digits[w][1] = Digit(written[w])
  BY DEF SegInv, SegTypes, KnowsLast, Seg!SetSegment
<1>1. CASE segment[w] < 7
  <2>1. segment' = [segment EXCEPT ![w] = @ + 1] /\ UNCHANGED <<seg_pc, digits, seen>>
    BY <1>1 DEF Seg!SetSegment
  <2>2. SegTypes'
    <3>1. segment' \in [Writers -> 1 .. 7]
      BY <1>0, <1>1, <2>1, SMTT(30) DEF SegInv, SegTypes
    <3>2. display' = [s \in Seg!Segments |-> display'[s]]
      BY <1>0 DEF SegInv, SegTypes
    <3> QED BY <1>0, <2>1, <3>1, <3>2 DEF SegInv, SegTypes
  <2>3. KnowsLast'
    BY <1>0, <2>1 DEF SegInv, SegTypes, KnowsLast
  <2>4. ASSUME NEW s \in Seg!Segments, NEW u \in Writers, Owing(u, s)
        PROVE  Owing(u, s)' \/ Left(w, s)'
    <3>1. CASE u = w /\ s = segment[w] /\ Len(digits[w]) = 1
      BY <1>0, <2>1, <3>1 DEF Left, SegInv, SegTypes
    <3>2. CASE u = w /\ s # segment[w]
      BY <1>0, <1>1, <2>1, <2>4, <3>2 DEF Owing, SegInv, SegTypes
    <3>3. CASE u = w /\ Len(digits[w]) # 1
      <4>1. Len(digits[w]) > 1
        BY <1>0, <3>3, NonEmpty, Zenon
      <4> QED BY <1>0, <2>1, <3>3, <4>1 DEF Owing
    <3>4. CASE u # w
      BY <1>0, <2>1, <2>4, <3>4 DEF Owing, SegInv, SegTypes
    <3> QED BY <3>1, <3>2, <3>3, <3>4
  <2>5. ASSUME NEW s \in Seg!Segments, NEW u \in Writers, Left(u, s)
        PROVE  Left(u, s)' \/ Owing(w, s)' \/ Left(w, s)'
    <3>1. CASE s = segment[w] /\ Len(digits[w]) = 1
      BY <1>0, <3>1 DEF Left, SegInv, SegTypes
    <3>2. CASE s = segment[w] /\ Len(digits[w]) # 1
      <4>1. Len(digits[w]) > 1
        BY <1>0, <3>2, NonEmpty, Zenon
      <4> QED BY <1>0, <2>1, <4>1 DEF Owing
    <3>3. CASE s # segment[w]
      BY <1>0, <2>5, <3>3 DEF Left, SegInv, SegTypes
    <3> QED BY <3>1, <3>2, <3>3
  <2> QED BY <1>0, <2>2, <2>3, <2>4, <2>5 DEF SegInv, Traced
<1>2. CASE segment[w] = 7
  <2>1. /\ segment' = [segment EXCEPT ![w] = 1]
        /\ digits' = [digits EXCEPT ![w] = SubSeq(@, 1, Len(@) - 1)]
        /\ seg_pc' = [seg_pc EXCEPT ![w] = IF Len(digits[w]) = 1 THEN "idle" ELSE "show"]
    BY <1>2 DEF Seg!SetSegment
  <2>a. seen' = [u \in Writers |-> seen'[u]]
    BY <1>2 DEF Seg!SetSegment, SegInv, SegTypes
  <2>2. SegTypes'
    <3>1. SubSeq(digits[w], 1, Len(digits[w]) - 1) \in Seq(Int)
      BY <1>0
    <3>2. digits' \in [Writers -> Seq(Int)]
      BY <2>1, <3>1 DEF SegInv, SegTypes
    <3>3. segment' \in [Writers -> 1 .. 7]
      BY <2>1 DEF SegInv, SegTypes
    <3>4. seg_pc' \in [Writers -> {"idle", "extract", "show"}]
      BY <2>1 DEF SegInv, SegTypes
    <3>5. display' = [s \in Seg!Segments |-> display'[s]]
      BY <1>0 DEF SegInv, SegTypes
    <3> QED BY <1>0, <2>a, <3>2, <3>3, <3>4, <3>5 DEF SegInv, SegTypes
  <2>b. Len(digits[w]) # 1 =>
          /\ digits'[w] # << >> /\ digits'[w][1] = Digit(written[w])
          /\ Len(digits[w]) > 1
    BY <1>0, <2>1, NonEmpty, Shorter DEF SegInv, SegTypes
  <2>3. KnowsLast'
    <3>1. \A u \in Writers \ {w} : /\ seg_pc'[u] = seg_pc[u] /\ digits'[u] = digits[u]
                                   /\ segment'[u] = segment[u] /\ price'[u] = price[u]
                                   /\ written'[u] = written[u]
      BY <1>0, <2>1 DEF SegInv, SegTypes
    <3>2. Len(digits[w]) = 1 => seg_pc'[w] = "idle"
      BY <2>1 DEF SegInv, SegTypes
    <3>3. Len(digits[w]) # 1 => seg_pc'[w] = "show"
      BY <2>1 DEF SegInv, SegTypes
    <3>4. segment'[w] = 1 /\ written'[w] = written[w]
      BY <1>0, <2>1 DEF SegInv, SegTypes
    <3> QED BY <1>0, <2>b, <3>1, <3>2, <3>3, <3>4 DEF SegInv, KnowsLast
  <2>4. ASSUME Len(digits[w]) # 1, NEW s \in Seg!Segments PROVE Owing(w, s)'
    <3>1. seg_pc'[w] = "show" /\ segment'[w] = 1
      BY <2>1, <2>4 DEF SegInv, SegTypes
    <3> QED BY <3>1 DEF Owing
  <2>5. ASSUME Len(digits[w]) = 1, NEW s \in Seg!Segments, NEW u \in Writers, Owing(u, s)
        PROVE  Owing(u, s)' \/ Left(w, s)'
    <3>1. CASE u = w
      <4>1. s = 7
        <5>1. Owing(w, s) /\ ~(Len(digits[w]) > 1)
          BY <2>5, <3>1
        <5>2. s >= segment[w]
          BY <1>0, <5>1, Zenon DEF Owing
        <5> QED BY <1>2, <5>2
      <4> QED BY <1>0, <1>2, <2>5, <4>1 DEF Left, SegInv, SegTypes
    <3>2. CASE u # w
      BY <1>0, <2>1, <2>5, <3>2 DEF Owing, SegInv, SegTypes
    <3> QED BY <3>1, <3>2
  <2>6. ASSUME Len(digits[w]) = 1, NEW s \in Seg!Segments, NEW u \in Writers, Left(u, s)
        PROVE  Left(u, s)' \/ Left(w, s)'
    BY <1>0, <1>2, <2>6 DEF Left, SegInv, SegTypes
  <2> QED BY <1>0, <2>2, <2>3, <2>4, <2>5, <2>6 DEF SegInv, Traced
<1> QED BY <1>0, <1>1, <1>2

LEMMA SegInvIsInvariant == KSpec => [](SegInv /\ Traced)
<1>1. SegInv /\ Traced /\ [KNext]_all => (SegInv /\ Traced)'
  <2> SUFFICES ASSUME SegInv, Traced, [Seg!Next]_segs PROVE (SegInv /\ Traced)'
    BY KioskSegStep
  <2>1. CASE Seg!Next
    BY <2>1, SegWriteStep, SegExtractStep, SegSetStep DEF Seg!Next
  <2>2. CASE UNCHANGED segs
    BY <2>2 DEF segs, SegInv, SegTypes, KnowsLast, Traced, Owing, Left
  <2> QED BY <2>1, <2>2
<1> QED BY InitSegInv, <1>1, PTL DEF KSpec

(* Whatever writes overlapped, and how many, every segment that is left on   *)
(* the display is the one of the last digit of one of them.                  *)
THEOREM DisplayIsOfTheLast == KSpec => []SegmentsOfTheLast
<1>1. SegInv /\ Traced => SegmentsOfTheLast
  <2> SUFFICES ASSUME SegInv, Traced, \A w \in Writers : seg_pc[w] = "idle" /\ written[w] > 0,
                      NEW s \in Seg!Segments
               PROVE  \E w \in Writers : display[s] = Seg!num[written[w] % 10][s]
    BY DEF SegmentsOfTheLast, Seg!SegmentsOfTheLast, Seg!Busy
  <2>1. PICK w \in Writers : written[w] <= 0 \/ Owing(w, s) \/ Left(w, s)
    BY DEF Traced
  <2> QED BY <2>1 DEF Owing, Left, Digit, SegInv, SegTypes
<1> QED BY SegInvIsInvariant, <1>1, PTL

-----------------------------------------------------------------------------
(* The digits of a price.                                                    *)

(* The code of a digit, segment by segment. *)
LEMMA NumValues ==
  /\ Seg!num[0] = <<1,1,1,1,1,1,0>> /\ Seg!num[1] = <<0,1,1,0,0,0,0>>
  /\ Seg!num[2] = <<1,1,0,1,1,0,1>> /\ Seg!num[3] = <<1,1,1,1,0,0,1>>
  /\ Seg!num[4] = <<0,1,1,0,0,1,1>> /\ Seg!num[5] = <<1,0,1,1,0,1,1>>
  /\ Seg!num[6] = <<1,0,1,1,1,1,1>> /\ Seg!num[7] = <<1,1,1,0,0,0,0>>
  /\ Seg!num[8] = <<1,1,1,1,1,1,1>> /\ Seg!num[9] = <<1,1,1,1,0,1,1>>
BY DEF Seg!num

(* No two digits look alike: what is lit reads as the digit it was set from. *)
LEMMA NumIsInjective ==
  ASSUME NEW d \in 0 .. 9, NEW e \in 0 .. 9,
         \A s \in 1 .. 7 : Seg!num[d][s] = Seg!num[e][s]
  PROVE  d = e
<1>1. /\ Seg!num[d][1] = Seg!num[e][1] /\ Seg!num[d][2] = Seg!num[e][2]
      /\ Seg!num[d][3] = Seg!num[e][3] /\ Seg!num[d][4] = Seg!num[e][4]
      /\ Seg!num[d][5] = Seg!num[e][5] /\ Seg!num[d][6] = Seg!num[e][6]
      /\ Seg!num[d][7] = Seg!num[e][7]
  OBVIOUS
<1> QED BY <1>1, NumValues

LEMMA ReadsTheDigit ==
  ASSUME NEW lights, NEW d \in 0 .. 9,
         \A s \in Seg!Segments : lights[s] = Seg!num[d][s]
  PROVE  Seg!DigitOf(lights) = d
<1> DEFINE Reads(e) == \A s \in Seg!Segments : lights[s] = Seg!num[e][s]
           r == CHOOSE e \in 0 .. 9 : Reads(e)
<1>1. Seg!DigitOf(lights) = r
  BY DEF Seg!DigitOf
<1>2. r \in 0 .. 9 /\ Reads(r)
  OBVIOUS
<1> HIDE DEF r
<1>3. \A s \in 1 .. 7 : Seg!num[d][s] = Seg!num[r][s]
  BY <1>2 DEF Seg!Segments
<1>4. d = r
  BY <1>2, <1>3, NumIsInjective
<1> QED BY <1>1, <1>4

LEMMA Division ==
  ASSUME NEW n \in Int, n > 0
  PROVE  /\ n \div 10 \in Int /\ n \div 10 >= 0
         /\ Digit(n) \in 0 .. 9 /\ n = 10 * (n \div 10) + Digit(n)
BY SMT DEF Digit

(* The digits found so far are those of the quotients q of the price. *)
Quotients(w, q) ==
  /\ q[1] = written[w]
  /\ \A i \in 1 .. Len(digits[w]) :
       q[i] > 0 /\ digits[w][i] = Digit(q[i]) /\ q[i + 1] = q[i] \div 10

(* How far a write is: what is left of the price to divide, or the number    *)
(* made of the digits the display has shown.                                 *)
Reached(w, q) ==
  /\ seg_pc[w] = "extract" => price[w] = q[Len(digits[w]) + 1] /\ seen[w] = 0
  /\ seg_pc[w] = "show" => seen[w] = q[Len(digits[w]) + 1]

(* A write that is alone is the only one; the segments it has set are those  *)
(* of the digit it shows.                                                    *)
LoneWrite(w) ==
  /\ \A v \in Writers \ {w} : seg_pc[v] = "idle"
  /\ \E q \in [Nat -> Int] : Quotients(w, q) /\ Reached(w, q)
  /\ seg_pc[w] = "show" => \A s \in Seg!Segments :
       s < segment[w] => display[s] = Seg!num[digits[w][Len(digits[w])]][s]

LoneInv ==
  \A w \in Writers : lone[w] =>
    IF seg_pc[w] = "idle" THEN seen[w] = IF written[w] > 0 THEN written[w] ELSE 0
                          ELSE LoneWrite(w)

LEMMA LoneWriteStep ==
  ASSUME SegInv, LoneInv, NEW w \in Writers, Seg!Write(w)
  PROVE  LoneInv'
<1>1. PICK p \in Prices : /\ price' = [price EXCEPT ![w] = p]
                          /\ written' = [written EXCEPT ![w] = p]
  BY DEF Seg!Write
<1>2. /\ seg_pc[w] = "idle" /\ seg_pc' = [seg_pc EXCEPT ![w] = "extract"]
      /\ digits' = [digits EXCEPT ![w] = << >>] /\ seen' = [seen EXCEPT ![w] = 0]
      /\ UNCHANGED <<display, segment>>
      /\ lone' = [u \in Writers |->
                    IF u = w THEN \A v \in Writers : seg_pc[v] = "idle"
                             ELSE lone[u] /\ seg_pc[u] = "idle"]
  BY DEF Seg!Write, Seg!Busy
<1>3. p \in Int
  BY KioskAssumption
<1> SUFFICES ASSUME NEW v \in Writers, lone'[v]
             PROVE  IF seg_pc'[v] = "idle"
                    THEN seen'[v] = IF written'[v] > 0 THEN written'[v] ELSE 0
                    ELSE LoneWrite(v)'
  BY DEF LoneInv
<1>4. CASE v = w
  <2>1. seg_pc'[w] = "extract" /\ price'[w] = p /\ written'[w] = p /\ seen'[w] = 0
        /\ digits'[w] = << >>
    BY <1>1, <1>2 DEF SegInv, SegTypes
  <2>2. \A u \in Writers \ {w} : seg_pc'[u] = "idle"
    BY <1>2, <1>4 DEF SegInv, SegTypes
  <2>3. \E q \in [Nat -> Int] : (Quotients(w, q) /\ Reached(w, q))'
    <3>1. [i \in Nat |-> p] \in [Nat -> Int]
      BY <1>3
    <3>2. (Quotients(w, [i \in Nat |-> p]))'
      BY <2>1 DEF Quotients
    <3>3. (Reached(w, [i \in Nat |-> p]))'
      BY <2>1 DEF Reached
    <3> QED BY <3>1, <3>2, <3>3
  <2> QED BY <1>4, <2>1, <2>2, <2>3 DEF LoneWrite
<1>5. CASE v # w
  BY <1>1, <1>2, <1>5 DEF SegInv, SegTypes, LoneInv
<1> QED BY <1>4, <1>5

LEMMA LoneExtractStep ==
  ASSUME SegInv, LoneInv, NEW w \in Writers, Seg!Extract(w)
  PROVE  LoneInv'
<1> USE DEF Seg!MoreDigits
<1>1. seg_pc[w] = "extract" /\ UNCHANGED <<display, segment, written, lone, seen>>
      /\ price[w] \in Int /\ digits[w] \in Seq(Int)
  BY DEF Seg!Extract, SegInv, SegTypes
<1> SUFFICES ASSUME NEW v \in Writers, lone[v]
             PROVE  IF seg_pc'[v] = "idle"
                    THEN seen[v] = IF written[v] > 0 THEN written[v] ELSE 0
                    ELSE LoneWrite(v)'
  BY <1>1 DEF LoneInv
<1>2. CASE v # w
  <2>1. seg_pc'[v] = seg_pc[v]
    BY <1>2 DEF Seg!Extract, SegInv, SegTypes
  <2>2. seg_pc[v] = "idle"
    BY <1>1, <1>2 DEF LoneInv, LoneWrite
  <2> QED BY <2>1, <2>2 DEF LoneInv
<1>3. CASE v = w
  <2>0. LoneWrite(w)
    BY <1>1, <1>3 DEF LoneInv
  <2>1. PICK q \in [Nat -> Int] : Quotients(w, q) /\ Reached(w, q)
    BY <2>0 DEF LoneWrite
  <2> DEFINE n == Len(digits[w])
  <2>2. n \in Nat /\ price[w] = q[n + 1] /\ seen[w] = 0
    BY <1>1, <2>1 DEF Reached
  <2>3. CASE price[w] > 0
    <3>1. /\ digits' = [digits EXCEPT ![w] = Append(@, Digit(price[w]))]
          /\ price' = [price EXCEPT ![w] = @ \div 10] /\ UNCHANGED seg_pc
      BY <2>3 DEF Seg!Extract, Digit
    <3>2. Digit(price[w]) \in Int /\ price[w] \div 10 \in Int
      BY <1>1, DigitsAreNumbers DEF Digit
    <3>3. /\ digits'[w] = Append(digits[w], Digit(price[w]))
          /\ price'[w] = price[w] \div 10 /\ Len(digits'[w]) = n + 1
      BY <1>1, <3>1, <3>2 DEF SegInv, SegTypes
    <3>4. digits'[w][n + 1] = Digit(price[w]) /\ \A i \in 1 .. n : digits'[w][i] = digits[w][i]
      BY <1>1, <3>2, <3>3
    <3>5. PICK r \in [Nat -> Int] :
            r[n + 2] = price[w] \div 10 /\ \A i \in 1 .. n + 1 : r[i] = q[i]
      <4> DEFINE f == [q EXCEPT ![n + 2] = price[w] \div 10]
      <4> HIDE DEF n
      <4>1. f \in [Nat -> Int] /\ f[n + 2] = price[w] \div 10
            /\ \A i \in 1 .. n + 1 : f[i] = q[i]
        BY <2>2, <3>2
      <4> QED BY <4>1
    <3>6. /\ q[1] = written[w]
          /\ \A i \in 1 .. n : q[i] > 0 /\ digits[w][i] = Digit(q[i]) /\ q[i + 1] = q[i] \div 10
      BY <2>1 DEF Quotients
    <3> HIDE DEF n
    <3>7. r[1] = written[w]
      BY <2>2, <3>5, <3>6
    <3>8. ASSUME NEW i \in 1 .. n + 1
          PROVE  r[i] > 0 /\ digits'[w][i] = Digit(r[i]) /\ r[i + 1] = r[i] \div 10
      <4>1. CASE i \in 1 .. n
        <5>1. r[i] = q[i] /\ r[i + 1] = q[i + 1]
          BY <2>2, <3>5, <4>1
        <5> QED BY <3>4, <3>6, <4>1, <5>1
      <4>2. CASE i = n + 1
        <5>1. r[i] = price[w] /\ r[i + 1] = price[w] \div 10
          BY <2>2, <3>5, <4>2
        <5> QED BY <2>3, <3>4, <4>2, <5>1
      <4> QED BY <2>2, <3>8, <4>1, <4>2
    <3>9. Quotients(w, r)'
      <4>1. written'[w] = written[w] /\ Len(digits'[w]) = n + 1
        BY <1>1, <3>3
      <4> QED BY <3>7, <3>8, <4>1 DEF Quotients
    <3>10. Reached(w, r)'
      <4>1. r[Len(digits'[w]) + 1] = price'[w]
        <5>1. n + 1 + 1 = n + 2
          BY <2>2
        <5> QED BY <3>3, <3>5, <5>1
      <4>2. seg_pc'[w] = "extract" /\ seen'[w] = 0
        BY <1>1, <2>2, <3>1
      <4> QED BY <4>1, <4>2 DEF Reached
    <3>11. \A u \in Writers \ {w} : seg_pc'[u] = "idle"
      BY <2>0, <3>1 DEF LoneWrite
    <3>12. seg_pc'[w] = "extract"
      BY <1>1, <3>1
    <3> QED BY <1>3, <3>9, <3>10, <3>11, <3>12 DEF LoneWrite
  <2>4. CASE ~(price[w] > 0) /\ digits[w] = << >>
    <3>1. seg_pc'[w] = "idle"
      BY <2>4 DEF Seg!Extract, SegInv, SegTypes
    <3>2. price[w] = written[w]
      BY <1>1, <2>4 DEF SegInv, KnowsLast
    <3> QED BY <1>3, <2>2, <2>4, <3>1, <3>2
  <2>5. CASE ~(price[w] > 0) /\ digits[w] # << >>
    <3>1. /\ seg_pc' = [seg_pc EXCEPT ![w] = "show"] /\ UNCHANGED <<digits, price>>
          /\ segment[w] = 1
      BY <1>1, <2>5 DEF Seg!Extract, SegInv, KnowsLast
    <3>2. n \in 1 .. n /\ n + 1 \in Nat
      BY <1>1, <2>2, <2>5, NonEmpty
    <3>3. q[n] > 0 /\ q[n + 1] = q[n] \div 10 /\ q[n] \in Int
      <4>1. \A i \in 1 .. n : q[i] > 0 /\ q[i + 1] = q[i] \div 10
        BY <2>1 DEF Quotients
      <4>2. n \in Nat
        BY <2>2
      <4> HIDE DEF n
      <4> QED BY <3>2, <4>1, <4>2
    <3>4. seen[w] = q[n + 1]
      <4> HIDE DEF n
      <4>1. q[n + 1] >= 0
        BY <3>3, Division
      <4> QED BY <2>2, <2>5, <3>3, <4>1
    <3>5. (Quotients(w, q) /\ Reached(w, q))'
      BY <1>1, <2>1, <3>1, <3>4 DEF Quotients, Reached, SegInv, SegTypes
    <3>6. \A u \in Writers \ {w} : seg_pc'[u] = "idle"
      BY <2>0, <3>1 DEF LoneWrite, SegInv, SegTypes
    <3>7. \A s \in Seg!Segments : ~(s < segment'[w])
      BY <1>1, <3>1 DEF Seg!Segments
    <3>8. seg_pc'[w] = "show"
      BY <3>1 DEF SegInv, SegTypes
    <3> QED BY <1>3, <3>5, <3>6, <3>7, <3>8 DEF LoneWrite
  <2> QED BY <2>3, <2>4, <2>5
<1> QED BY <1>2, <1>3

LEMMA LoneSetStep ==
  ASSUME SegInv, LoneInv, NEW w \in Writers, Seg!SetSegment(w)
  PROVE  LoneInv'
<1> USE DEF Seg!Shown
<1> DEFINE n == Len(digits[w])
<1>1. /\ digits[w] \in Seq(Int) /\ digits[w] # << >> /\ segment[w] \in 1 .. 7
      /\ seg_pc[w] = "show" /\ UNCHANGED <<price, written, lone>>
      /\ display' = [display EXCEPT ![segment[w]] = Seg!num[digits[w][n]][segment[w]]]
  BY DEF SegInv, SegTypes, KnowsLast, Seg!SetSegment, Seg!Segments
<1> SUFFICES ASSUME NEW v \in Writers, lone[v]
             PROVE  IF seg_pc'[v] = "idle"
                    THEN seen'[v] = IF written[v] > 0 THEN written[v] ELSE 0
                    ELSE LoneWrite(v)'
  BY <1>1 DEF LoneInv
<1>2. CASE v # w
  <2>1. seg_pc'[v] = seg_pc[v] /\ seen'[v] = seen[v]
    BY <1>2 DEF Seg!SetSegment, SegInv, SegTypes
  <2>2. seg_pc[v] = "idle"
    BY <1>1, <1>2 DEF LoneInv, LoneWrite
  <2> QED BY <2>1, <2>2 DEF LoneInv
<1>3. CASE v = w
  <2>0. LoneWrite(w)
    BY <1>1, <1>3 DEF LoneInv
  <2>1. PICK q \in [Nat -> Int] : Quotients(w, q) /\ Reached(w, q)
    BY <2>0 DEF LoneWrite
  <2>2. n \in 1 .. n /\ n \in Nat \ {0}
    BY <1>1, NonEmpty
  <2>3. /\ q[1] = written[w] /\ q[n] > 0 /\ q[n] \in Int /\ digits[w][n] = Digit(q[n])
        /\ q[n + 1] = q[n] \div 10 /\ seen[w] = q[n + 1]
    BY <1>1, <2>1, <2>2 DEF Quotients, Reached
  <2>4. \A s \in Seg!Segments : s <= segment[w] => display'[s] = Seg!num[digits[w][n]][s]
    <3>1. \A s \in Seg!Segments : s < segment[w] => display[s] = Seg!num[digits[w][n]][s]
      BY <1>1, <2>0 DEF LoneWrite
    <3>2. /\ display'[segment[w]] = Seg!num[digits[w][n]][segment[w]]
          /\ \A s \in Seg!Segments : s # segment[w] => display'[s] = display[s]
      <4> HIDE DEF n
      <4> QED BY <1>1 DEF SegInv, SegTypes, Seg!Segments
    <3>3. \A s \in Seg!Segments : s <= segment[w] => s < segment[w] \/ s = segment[w]
      BY <1>1, SMTT(30) DEF Seg!Segments
    <3> HIDE DEF n
    <3> QED BY <3>1, <3>2, <3>3, Zenon
  <2>5. CASE segment[w] < 7
    <3>1. segment' = [segment EXCEPT ![w] = @ + 1] /\ UNCHANGED <<seg_pc, digits, seen>>
      BY <2>5 DEF Seg!SetSegment
    <3>2. (Quotients(w, q) /\ Reached(w, q))'
      BY <1>1, <2>1, <3>1 DEF Quotients, Reached
    <3>3. segment'[w] = segment[w] + 1
      BY <3>1 DEF SegInv, SegTypes
    <3>4. \A s \in Seg!Segments : s < segment'[w] => display'[s] = Seg!num[digits'[w][Len(digits'[w])]][s]
      <4>1. \A s \in Seg!Segments : s < segment'[w] => s <= segment[w]
        BY <1>1, <3>3, SMTT(30) DEF Seg!Segments
      <4> QED BY <2>4, <3>1, <4>1
    <3> QED BY <1>1, <1>3, <2>0, <3>1, <3>2, <3>4 DEF LoneWrite
  <2>6. CASE segment[w] = 7
    <3>1. /\ segment' = [segment EXCEPT ![w] = 1]
          /\ digits' = [digits EXCEPT ![w] = SubSeq(@, 1, Len(@) - 1)]
          /\ seg_pc' = [seg_pc EXCEPT ![w] = IF n = 1 THEN "idle" ELSE "show"]
          /\ seen' = [seen EXCEPT ![w] = 10 * @ + Seg!DigitOf(display')]
      BY <2>6 DEF Seg!SetSegment
    <3>2. seen'[w] = q[n]
      <4>1. Digit(q[n]) \in 0 .. 9 /\ q[n] = 10 * (q[n] \div 10) + Digit(q[n])
        BY <2>3, Division
      <4>2. \A s \in Seg!Segments : display'[s] = Seg!num[Digit(q[n])][s]
        <5>1. \A s \in Seg!Segments : display'[s] = Seg!num[digits[w][n]][s]
          <6>1. \A s \in Seg!Segments : s <= segment[w]
            BY <2>6 DEF Seg!Segments
          <6> QED BY <2>4, <6>1
        <5>2. digits[w][n] = Digit(q[n])
          BY <2>3
        <5> HIDE DEF n
        <5> QED BY <5>1, <5>2
      <4>3. Seg!DigitOf(display') = Digit(q[n])
        <5> DEFINE d == Digit(q[n])
        <5>1. d \in 0 .. 9 /\ \A s \in Seg!Segments : display'[s] = Seg!num[d][s]
          BY <4>1, <4>2
        <5> HIDE DEF d
        <5>2. Seg!DigitOf(display') = d
          BY <5>1, ReadsTheDigit
        <5> QED BY <5>2 DEF d
      <4>4. seen'[w] = 10 * seen[w] + Seg!DigitOf(display')
        BY <3>1 DEF SegInv, SegTypes
      <4> QED BY <2>3, <4>1, <4>3, <4>4
    <3>3. CASE n = 1
      <4>1. seg_pc'[w] = "idle"
        BY <3>1, <3>3 DEF SegInv, SegTypes
      <4> QED BY <1>3, <2>3, <3>2, <3>3, <4>1
    <3>4. CASE n # 1
      <4> DEFINE e == SubSeq(digits[w], 1, n - 1)
      <4>1. e # << >> /\ Len(e) = n - 1 /\ \A i \in 1 .. Len(e) : e[i] = digits[w][i]
        BY <1>1, <3>4, RemainingDigits
      <4>2. digits'[w] = e /\ seg_pc'[w] = "show" /\ segment'[w] = 1
        BY <3>1, <3>4 DEF SegInv, SegTypes
      <4>3. \A i \in 1 .. n : /\ q[i] > 0 /\ digits[w][i] = Digit(q[i])
                               /\ q[i + 1] = q[i] \div 10
        BY <2>1 DEF Quotients
      <4> HIDE DEF e, n
      <4>4. \A i \in 1 .. Len(e) : /\ q[i] > 0 /\ e[i] = Digit(q[i])
                                    /\ q[i + 1] = q[i] \div 10
        BY <2>2, <4>1, <4>3, SMTT(30)
      <4>5. Quotients(w, q)'
        BY <1>1, <2>3, <4>2, <4>4 DEF Quotients
      <4>6. Len(e) + 1 = n
        BY <2>2, <4>1
      <4>7. Reached(w, q)'
        BY <3>2, <4>2, <4>6 DEF Reached
      <4>8. \A u \in Writers \ {w} : seg_pc'[u] = "idle"
        BY <2>0, <3>1 DEF LoneWrite, SegInv, SegTypes
      <4>9. \A s \in Seg!Segments : ~(s < segment'[w])
        BY <4>2 DEF Seg!Segments
      <4> QED BY <1>3, <4>2, <4>5, <4>7, <4>8, <4>9 DEF LoneWrite
    <3> QED BY <3>3, <3>4
  <2> QED BY <1>1, <2>5, <2>6
<1> QED BY <1>2, <1>3

(* A price that no other write overlapped has been shown digit by digit:     *)
(* dividing by ten until nothing is left, and showing the digits backwards,  *)
(* loses and repeats none, for a price of any length (seg_driver.c:133-156). *)
THEOREM PriceIsShown == KSpec => []ShowsThePrice
<1>1. KInit => LoneInv
  BY DEF KInit, Seg!Init, LoneInv
<1>2. SegInv /\ LoneInv /\ [KNext]_all => LoneInv'
  <2> SUFFICES ASSUME SegInv, LoneInv, [Seg!Next]_segs PROVE LoneInv'
    BY KioskSegStep
  <2>1. CASE Seg!Next
    BY <2>1, LoneWriteStep, LoneExtractStep, LoneSetStep DEF Seg!Next
  <2>2. CASE UNCHANGED segs
    BY <2>2 DEF segs, LoneInv, LoneWrite, Quotients, Reached
  <2> QED BY <2>1, <2>2
<1>3. LoneInv => ShowsThePrice
  BY DEF LoneInv, ShowsThePrice, Seg!ShowsThePrice, Seg!Busy
<1> QED BY SegInvIsInvariant, <1>1, <1>2, <1>3, PTL DEF KSpec

=============================================================================
