----------------------------- MODULE Hw1_proofs ------------------------------
(***************************************************************************)
(* Proofs about the menu of hw1 and about the initialisation of its two    *)
(* drivers.                                                                *)
(*                                                                         *)
(* OrderMenu, for any restaurants, prices and quantities and any size of   *)
(* an int: the invariant relates the total to what the user has asked for  *)
(* at each point of main: within an order everything asked is of its       *)
(* restaurant, and between orders the total is zero, unless it has been    *)
(* spoilt.                                                                 *)
(*                                                                         *)
(* DriverInit, for any number of GPIOs: LoadInv says what the driver holds *)
(* at each call and at each error label: at a label, what the calls before *)
(* the one that failed have acquired, without what the kernel refused.     *)
(***************************************************************************)
EXTENDS OrderMenu, DriverInit, TLAPS


Ordering == at = "quantity" \/ (at = "order" /\ confirm_order = 1)

Tallied ==
  IF Ordering
  THEN asked = [Nothing EXCEPT ![restaurant_choice] = total_amount]
  ELSE total_amount = 0 /\ (at = "order" => asked = Nothing)

Inv ==
  /\ TypeOK
  /\ ~spoilt => Tallied
  /\ at = "quantity" => confirm_order = 1
  /\ shopping_cart = 0

(* An int stays an int. *)
LEMMA WrapRange == \A n \in Int : Wrap(n) \in -Half .. Half - 1
  BY MenuAssumption DEF Wrap, Half

LEMMA ZeroRange == 0 \in -Half .. Half - 1 /\ Nothing \in [Restaurants -> -Half .. Half - 1]
  BY MenuAssumption DEF Half, Nothing

(* scanf leaves a value that the variable may have. *)
LEMMA ScannedRange ==
  ASSUME NEW V, NEW old \in V, junk \in BOOLEAN, NEW s \in Scanned(old, V)
  PROVE  s[1] \in V /\ s[2] \in BOOLEAN
<1>1. CASE s = <<old, TRUE>> BY <1>1
<1>2. CASE s \in V \X BOOLEAN BY <1>2
<1> QED BY <1>1, <1>2 DEF Scanned

LEMMA InitInv == Init => Inv
<1> SUFFICES ASSUME Init PROVE Inv OBVIOUS
<1>1. TypeOK
  <2>1. total_amount \in -Half .. Half - 1 /\ asked \in [Restaurants -> -Half .. Half - 1]
    BY ZeroRange DEF Init
  <2>2. at = "menu" /\ junk \in BOOLEAN /\ spoilt \in BOOLEAN
    BY DEF Init
  <2>3. shopping_cart \in 0 .. 1 /\ confirm_order \in 0 .. 1
    BY DEF Init
  <2>4. /\ choice \in Choices /\ restaurant_choice \in RestaurantChoices
        /\ item_choice \in ItemChoices /\ quantity \in Quantities
    BY DEF Init
  <2> QED BY <2>1, <2>2, <2>3, <2>4 DEF TypeOK
<1>2. Tallied BY DEF Init, Tallied, Ordering
<1> QED BY <1>1, <1>2 DEF Init, Inv

LEMMA ReadChoiceInv == Inv /\ ReadChoice => Inv'
<1> SUFFICES ASSUME Inv, ReadChoice PROVE Inv' OBVIOUS
<1>1. PICK s \in Scanned(choice, Choices) :
        /\ choice' = s[1] /\ junk' = s[2]
        /\ at' = CASE s[1] = 1 -> "shops" [] s[1] = 2 -> "order" [] OTHER -> "menu"
        /\ IF s[1] = 2
           THEN shopping_cart' = 0 /\ confirm_order' = 0 /\ asked' = Nothing
           ELSE UNCHANGED <<flags, asked>>
  BY DEF ReadChoice
<1>2. s[1] \in Choices /\ s[2] \in BOOLEAN
  BY ScannedRange DEF Inv, TypeOK
<1>3. CASE s[1] = 2
  <2>1. at' = "order" /\ confirm_order' = 0 /\ shopping_cart' = 0 /\ asked' = Nothing
    BY <1>1, <1>3
  <2>2. TypeOK'
    BY <1>1, <1>2, <2>1, ZeroRange DEF Inv, TypeOK, ReadChoice
  <2>3. (~spoilt => Tallied)'
    BY <2>1 DEF ReadChoice, Inv, Tallied, Ordering
  <2> QED BY <2>1, <2>2, <2>3 DEF Inv
<1>4. CASE s[1] # 2
  <2>1. at' \in {"shops", "menu"} /\ UNCHANGED <<flags, asked>>
    BY <1>1, <1>2, <1>4 DEF Choices
  <2>2. TypeOK'
    BY <1>1, <1>2, <2>1 DEF Inv, TypeOK, ReadChoice, flags
  <2>3. (~spoilt => Tallied)'
    BY <2>1 DEF ReadChoice, Inv, Tallied, Ordering
  <2> QED BY <2>1, <2>2, <2>3 DEF Inv, flags
<1> QED BY <1>3, <1>4

LEMMA ShowShopsInv == Inv /\ ShowShops => Inv'
<1> SUFFICES ASSUME Inv, ShowShops PROVE Inv' OBVIOUS
<1>1. TypeOK' BY DEF Inv, TypeOK, ShowShops, entered, flags
<1>2. (~spoilt => Tallied)' BY DEF Inv, Tallied, Ordering, ShowShops, flags
<1> QED BY <1>1, <1>2 DEF Inv, ShowShops, flags

LEMMA ChooseRestaurantInv == Inv /\ ChooseRestaurant => Inv'
<1> SUFFICES ASSUME Inv, ChooseRestaurant PROVE Inv' OBVIOUS
<1>1. PICK s \in Scanned(restaurant_choice, RestaurantChoices) :
        /\ restaurant_choice' = s[1] /\ junk' = s[2]
        /\ IF Offered(s[1])
           THEN confirm_order' = 1 /\ UNCHANGED at
           ELSE at' = "menu" /\ UNCHANGED confirm_order
  BY DEF ChooseRestaurant
<1>2. s[1] \in RestaurantChoices /\ s[2] \in BOOLEAN
  BY ScannedRange DEF Inv, TypeOK
<1>3. TypeOK'
  BY <1>1, <1>2 DEF Inv, TypeOK, ChooseRestaurant, Offered
<1>4. ~spoilt => total_amount = 0 /\ asked = Nothing
  BY DEF Inv, Tallied, Ordering, ChooseRestaurant
<1>5. (~spoilt => Tallied)'
  <2>1. [Nothing EXCEPT ![restaurant_choice'] = 0] = Nothing
    BY DEF Nothing
  <2> QED BY <1>1, <1>4, <2>1 DEF ChooseRestaurant, Tallied, Ordering
<1> QED BY <1>1, <1>3, <1>5 DEF Inv, ChooseRestaurant

LEMMA ChooseItemInv == Inv /\ ChooseItem => Inv'
<1> SUFFICES ASSUME Inv, ChooseItem PROVE Inv' OBVIOUS
<1>1. PICK s \in Scanned(item_choice, ItemChoices) :
        /\ item_choice' = s[1] /\ junk' = s[2]
        /\ \/ s[1] \notin 1 .. 4 /\ InvalidItem
           \/ s[1] = 4 /\ Cancel
           \/ s[1] \in {1, 2} /\ AskQuantity
           \/ s[1] = 3 /\ (Deliver \/ NothingOrdered)
  BY DEF ChooseItem
<1>2. s[1] \in ItemChoices /\ s[2] \in BOOLEAN
  BY ScannedRange DEF Inv, TypeOK
<1>3. at = "order" /\ confirm_order = 1 /\ shopping_cart = 0
  BY DEF Inv, TypeOK, ChooseItem
<1>4. restaurant_choice \in Restaurants /\ UNCHANGED <<choice, restaurant_choice, quantity>>
  BY <1>3 DEF Inv, TypeOK, ChooseItem
<1>5. ~spoilt => asked = [Nothing EXCEPT ![restaurant_choice] = total_amount]
  BY <1>3 DEF Inv, Tallied, Ordering
<1>6. CASE InvalidItem
  <2>1. TypeOK'
    BY <1>1, <1>2, <1>4, <1>6 DEF Inv, TypeOK, InvalidItem, flags
  <2>2. (~spoilt => Tallied)'
    BY <1>6 DEF InvalidItem, Tallied, Ordering
  <2> QED BY <2>1, <2>2, <1>6, <1>3 DEF Inv, InvalidItem, flags
<1>7. CASE Cancel
  <2>1. TypeOK'
    BY <1>1, <1>2, <1>4, <1>7, ZeroRange DEF Inv, TypeOK, Cancel, CancelTotal, ResetTotal, flags
  <2>2. (~spoilt => Tallied)'
    BY <1>7 DEF Cancel, CancelTotal, ResetTotal, Tallied, Ordering
  <2> QED BY <2>1, <2>2, <1>7, <1>3 DEF Inv, Cancel, flags
<1>8. CASE s[1] \in {1, 2} /\ AskQuantity
  <2>1. TypeOK'
    BY <1>1, <1>2, <1>4, <1>8 DEF Inv, TypeOK, AskQuantity, flags
  <2>2. (~spoilt => Tallied)'
    BY <1>4, <1>5, <1>8 DEF AskQuantity, Tallied, Ordering
  <2> QED BY <2>1, <2>2, <1>8, <1>3 DEF Inv, AskQuantity, flags
<1>9. CASE Deliver
  <2>1. TypeOK'
    BY <1>1, <1>2, <1>4, <1>9, ZeroRange DEF Inv, TypeOK, Deliver, ResetTotal, flags
  <2>2. (~spoilt => Tallied)'
    BY <1>9 DEF Deliver, ResetTotal, Tallied, Ordering
  <2> QED BY <2>1, <2>2, <1>9, <1>3 DEF Inv, Deliver, flags
<1>10. CASE NothingOrdered
  <2>1. TypeOK'
    BY <1>1, <1>2, <1>3, <1>4, <1>10 DEF Inv, TypeOK, NothingOrdered
  <2>2. total_amount = 0 => [Nothing EXCEPT ![restaurant_choice] = total_amount] = Nothing
    BY DEF Nothing
  <2>3. (~spoilt => Tallied)'
    BY <1>3, <1>5, <1>10, <2>2 DEF NothingOrdered, Tallied, Ordering
  <2> QED BY <2>1, <2>3, <1>10, <1>3 DEF Inv, NothingOrdered
<1> QED BY <1>1, <1>6, <1>7, <1>8, <1>9, <1>10

LEMMA ChooseQuantityInv == Inv /\ ChooseQuantity => Inv'
<1> SUFFICES ASSUME Inv, ChooseQuantity PROVE Inv' OBVIOUS
<1>1. PICK s \in Scanned(quantity, Quantities) :
        /\ quantity' = s[1] /\ junk' = s[2]
        /\ total_amount' = Wrap(total_amount + Cost(s[1]))
        /\ IF s[2]
           THEN spoilt' = TRUE /\ UNCHANGED asked
           ELSE /\ asked' = [asked EXCEPT ![restaurant_choice] =
                               Wrap(@ + Price[restaurant_choice][item_choice] * s[1])]
                /\ UNCHANGED spoilt
  BY DEF ChooseQuantity
<1>2. s[1] \in Quantities /\ s[2] \in BOOLEAN
  BY ScannedRange DEF Inv, TypeOK
<1>3. restaurant_choice \in Restaurants /\ item_choice \in 1 .. 2 /\ confirm_order = 1
      /\ asked \in [Restaurants -> -Half .. Half - 1] /\ total_amount \in -Half .. Half - 1
  BY DEF Inv, TypeOK, ChooseQuantity
<1>4. UNCHANGED <<choice, restaurant_choice, item_choice, flags, shown>> /\ at' = "order"
  BY DEF ChooseQuantity
<1>5. Price[restaurant_choice][item_choice] * s[1] \in Int /\ Half \in Int
  <2>1. Price[restaurant_choice][item_choice] \in Int /\ s[1] \in Int
    BY <1>2, <1>3, MenuAssumption DEF Restaurants
  <2> QED BY <2>1, MenuAssumption DEF Half
<1>6. total_amount' \in -Half .. Half - 1
  BY <1>1, <1>3, <1>5, WrapRange DEF Cost
<1>7. asked' \in [Restaurants -> -Half .. Half - 1]
  <2>1. Wrap(asked[restaurant_choice] + Price[restaurant_choice][item_choice] * s[1])
          \in -Half .. Half - 1
    BY <1>3, <1>5, WrapRange
  <2> QED BY <1>1, <1>3, <2>1
<1>8. TypeOK'
  BY <1>1, <1>2, <1>3, <1>4, <1>6, <1>7 DEF Inv, TypeOK, flags
<1>9. (~spoilt => Tallied)'
  <2> SUFFICES ASSUME ~spoilt' PROVE Tallied' OBVIOUS
  <2>1. ~spoilt /\ asked = [Nothing EXCEPT ![restaurant_choice] = total_amount]
    BY <1>1, <1>3 DEF Inv, Tallied, Ordering, ChooseQuantity
  <2>2. asked[restaurant_choice] = total_amount
    BY <2>1, <1>3 DEF Nothing
  <2>3. asked' = [asked EXCEPT ![restaurant_choice] = total_amount']
    BY <1>1, <2>2, <1>2 DEF Cost
  <2>4. asked' = [Nothing EXCEPT ![restaurant_choice] = total_amount']
    BY <2>1, <2>3 DEF Nothing
  <2> QED BY <1>3, <1>4, <2>4 DEF Tallied, Ordering, flags
<1> QED BY <1>3, <1>4, <1>8, <1>9 DEF Inv, flags, ChooseQuantity

LEMMA SpecInv == Spec => []Inv
<1>1. Inv /\ [Next]_vars => Inv'
  <2>1. Inv /\ UNCHANGED vars => Inv'
    BY DEF vars, entered, flags, Inv, TypeOK, Tallied, Ordering
  <2> QED
    BY <2>1, ReadChoiceInv, ShowShopsInv, ChooseRestaurantInv, ChooseItemInv,
      ChooseQuantityInv DEF Next
<1> QED BY <1>1, InitInv, PTL DEF Spec

(* Every variable stays in its range, and no step buys an item of a          *)
(* restaurant or of a menu entry that does not exist.                        *)
THEOREM TypeCorrect == Spec => []TypeOK
<1>1. Inv => TypeOK BY DEF Inv
<1> QED BY <1>1, SpecInv, PTL

(* A delivery shows the price of what was asked of its restaurant, and its   *)
(* distance, unless the total was spoilt.                                    *)
THEOREM DeliveriesAreAsOrdered == Spec => DeliveredAsOrdered
<1>1. Inv /\ [Next]_vars =>
        [Delivers /\ ~spoilt =>
           shown' = [price |-> asked[restaurant_choice],
                     leds |-> Distance[restaurant_choice]]]_vars
  <2> SUFFICES ASSUME Inv, Next, Delivers, ~spoilt
               PROVE  shown' = [price |-> asked[restaurant_choice],
                                leds |-> Distance[restaurant_choice]]
    OBVIOUS
  <2>1. ChooseItem
    BY DEF Next, Delivers, ReadChoice, ShowShops, ChooseRestaurant, ChooseQuantity
  <2>2. Deliver
    BY <2>1 DEF Delivers, ChooseItem, NothingOrdered
  <2>3. asked = [Nothing EXCEPT ![restaurant_choice] = total_amount]
    BY DEF Delivers, Inv, Tallied, Ordering
  <2>4. asked[restaurant_choice] = total_amount
    BY <2>3 DEF Nothing, Inv, TypeOK, Delivers
  <2> QED BY <2>2, <2>4 DEF Deliver
<1> QED BY <1>1, SpecInv, PTL DEF Spec, DeliveredAsOrdered

-----------------------------------------------------------------------------
(* DriverInit *)

(* What is held at each point: what was asked for so far, but for what the   *)
(* kernel refused.  A label is reached by falling through, with its resource *)
(* held, or by the failure of the call that acquires it.                     *)
HeldAt ==
  /\ pc \in {"unloaded", "region"} => held = {}
  /\ pc \in {"region", "cdev", "class"} => refused = {}
  /\ pc = "cdev" => held = {"region"}
  /\ pc = "class" => held = {"region", "cdev"}
  /\ pc = "device" => refused \subseteq {"class"} /\ held = {"region", "cdev", "class"} \ refused
  /\ pc \in {"valid", "request", "configure", "loaded", "r_gpio", "r_device", "oops"} =>
       held = Resources \ refused /\ ("class" \in refused => "device" \in refused)
  /\ pc = "r_class" => held = {"region", "cdev", "class"}
  /\ pc = "r_del" => held \in {{"region", "cdev"}, {"region"}}
  /\ pc = "r_unreg" => held \in {{"region"}, {}}

(* Which GPIOs are the driver's: those before the one requested next; of     *)
(* those before the one denied, or of all, those from the one freed next;    *)
(* and otherwise none or all.                                                *)
OwnedAt ==
  /\ pc = "request" => \A g \in Gpios : owner[g] = "driver" <=> g < gpio
  /\ pc \in {"configure", "loaded"} => gpio = 1 /\ \A g \in Gpios : owner[g] = "driver"
  /\ pc = "r_gpio" => \A g \in Gpios :
                        owner[g] = "driver" <=> g >= gpio /\ (denied = 0 \/ g < denied)
  /\ pc \notin {"request", "configure", "loaded", "r_gpio"} =>
       \A g \in Gpios : owner[g] # "driver"

(* No request has been denied as long as the initialisation goes on. *)
DeniedAt == pc \in Setup \cup {"loaded"} => denied = 0

LoadInv == LoadTypeOK /\ HeldAt /\ OwnedAt /\ DeniedAt

LEMMA FirstGpio == 1 \in Gpios
  BY DriverAssumption DEF Gpios

LEMMA LoadInitInv == LoadInit => LoadInv
<1> SUFFICES ASSUME LoadInit PROVE LoadInv OBVIOUS
<1>1. LoadTypeOK BY FirstGpio DEF LoadInit, LoadTypeOK
<1>2. HeldAt BY DEF LoadInit, HeldAt
<1>3. OwnedAt BY DEF LoadInit, OwnedAt
<1>4. DeniedAt BY DEF LoadInit, DeniedAt
<1> QED BY <1>1, <1>2, <1>3, <1>4 DEF LoadInv

(* The steps that acquire a resource, and those that change none. *)
LEMMA SetupInv ==
  ASSUME LoadInv, Insmod \/ AllocRegion \/ AddCdev \/ CreateClass \/ CreateDevice
                    \/ Configure \/ Rmmod
  PROVE  LoadInv'
<1> USE FirstGpio DEF LoadInv, history
<1>1. CASE Insmod
  <2>1. LoadTypeOK' BY <1>1 DEF LoadTypeOK, Setup, Teardown, Resources, Insmod
  <2>2. HeldAt' BY <1>1 DEF LoadTypeOK, HeldAt, Resources, Insmod
  <2>3. OwnedAt' BY <1>1 DEF OwnedAt, DeniedAt, Insmod
  <2>4. DeniedAt' BY <1>1 DEF DeniedAt, Setup, Insmod
  <2> QED BY <2>1, <2>2, <2>3, <2>4
<1>2. CASE AllocRegion
  <2>1. LoadTypeOK' BY <1>2 DEF LoadTypeOK, Setup, Teardown, Resources, AllocRegion, Acquire
  <2>2. HeldAt' BY <1>2 DEF LoadTypeOK, HeldAt, Resources, AllocRegion, Acquire
  <2>3. OwnedAt' BY <1>2 DEF OwnedAt, DeniedAt, AllocRegion, Acquire
  <2>4. DeniedAt' BY <1>2 DEF DeniedAt, Setup, AllocRegion, Acquire
  <2> QED BY <2>1, <2>2, <2>3, <2>4
<1>3. CASE AddCdev
  <2>1. LoadTypeOK' BY <1>3 DEF LoadTypeOK, Setup, Teardown, Resources, AddCdev, Acquire
  <2>2. HeldAt' BY <1>3 DEF LoadTypeOK, HeldAt, Resources, AddCdev, Acquire
  <2>3. OwnedAt' BY <1>3 DEF OwnedAt, DeniedAt, AddCdev, Acquire
  <2>4. DeniedAt' BY <1>3 DEF DeniedAt, Setup, AddCdev, Acquire
  <2> QED BY <2>1, <2>2, <2>3, <2>4
<1>4. CASE CreateClass
  <2>1. LoadTypeOK' BY <1>4 DEF LoadTypeOK, Setup, Teardown, Resources, CreateClass, Create
  <2>2. HeldAt' BY <1>4 DEF LoadTypeOK, HeldAt, Resources, CreateClass, Create
  <2>3. OwnedAt' BY <1>4 DEF OwnedAt, DeniedAt, CreateClass, Create
  <2>4. DeniedAt' BY <1>4 DEF DeniedAt, Setup, CreateClass, Create
  <2> QED BY <2>1, <2>2, <2>3, <2>4
<1>5. CASE CreateDevice
  <2>1. LoadTypeOK' BY <1>5 DEF LoadTypeOK, Setup, Teardown, Resources, CreateDevice, Create
  <2>2. HeldAt' BY <1>5 DEF LoadTypeOK, HeldAt, Resources, CreateDevice, Create
  <2>3. OwnedAt' BY <1>5 DEF OwnedAt, DeniedAt, CreateDevice, Create
  <2>4. DeniedAt' BY <1>5 DEF DeniedAt, Setup, CreateDevice, Create
  <2> QED BY <2>1, <2>2, <2>3, <2>4
<1>6. CASE Configure
  <2>1. LoadTypeOK' BY <1>6 DEF LoadTypeOK, Setup, Teardown, Resources, Configure
  <2>2. HeldAt' BY <1>6 DEF LoadTypeOK, HeldAt, Resources, Configure
  <2>3. OwnedAt' BY <1>6 DEF OwnedAt, DeniedAt, Configure
  <2>4. DeniedAt' BY <1>6 DEF DeniedAt, Setup, Configure
  <2> QED BY <2>1, <2>2, <2>3, <2>4
<1>7. CASE Rmmod
  <2>1. LoadTypeOK' BY <1>7 DEF LoadTypeOK, Setup, Teardown, Resources, Rmmod
  <2>2. HeldAt' BY <1>7 DEF LoadTypeOK, HeldAt, Resources, Rmmod
  <2>3. OwnedAt' BY <1>7, DriverAssumption DEF OwnedAt, DeniedAt, Gpios, Rmmod
  <2>4. DeniedAt' BY <1>7 DEF DeniedAt, Setup, Rmmod
  <2> QED BY <2>1, <2>2, <2>3, <2>4
<1> QED BY <1>1, <1>2, <1>3, <1>4, <1>5, <1>6, <1>7

(* The steps that give a resource back. *)
LEMMA TeardownInv ==
  ASSUME LoadInv, DestroyDevice \/ DestroyClass \/ DelCdev \/ UnregRegion
  PROVE  LoadInv'
<1> USE DEF LoadInv, history
<1>1. CASE DestroyDevice
  <2>1. LoadTypeOK' BY <1>1 DEF LoadTypeOK, Setup, Teardown, Resources, DestroyDevice, Release
  <2>2. HeldAt' BY <1>1 DEF LoadTypeOK, HeldAt, Resources, DestroyDevice, Release
  <2>3. OwnedAt' BY <1>1 DEF OwnedAt, DeniedAt, DestroyDevice, Release
  <2>4. DeniedAt' BY <1>1 DEF DeniedAt, Setup, DestroyDevice, Release
  <2> QED BY <2>1, <2>2, <2>3, <2>4
<1>2. CASE DestroyClass
  <2>1. LoadTypeOK' BY <1>2 DEF LoadTypeOK, Setup, Teardown, Resources, DestroyClass, Release
  <2>2. HeldAt' BY <1>2 DEF LoadTypeOK, HeldAt, Resources, DestroyClass, Release
  <2>3. OwnedAt' BY <1>2 DEF OwnedAt, DeniedAt, DestroyClass, Release
  <2>4. DeniedAt' BY <1>2 DEF DeniedAt, Setup, DestroyClass, Release
  <2> QED BY <2>1, <2>2, <2>3, <2>4
<1>3. CASE DelCdev
  <2>1. LoadTypeOK' BY <1>3 DEF LoadTypeOK, Setup, Teardown, Resources, DelCdev, Release
  <2>2. HeldAt' BY <1>3 DEF LoadTypeOK, HeldAt, Resources, DelCdev, Release
  <2>3. OwnedAt' BY <1>3 DEF OwnedAt, DeniedAt, DelCdev, Release
  <2>4. DeniedAt' BY <1>3 DEF DeniedAt, Setup, DelCdev, Release
  <2> QED BY <2>1, <2>2, <2>3, <2>4
<1>4. CASE UnregRegion
  <2>1. LoadTypeOK' BY <1>4 DEF LoadTypeOK, Setup, Teardown, Resources, UnregRegion, Release
  <2>2. HeldAt' BY <1>4 DEF LoadTypeOK, HeldAt, Resources, UnregRegion, Release
  <2>3. OwnedAt' BY <1>4 DEF OwnedAt, DeniedAt, UnregRegion, Release
  <2>4. DeniedAt' BY <1>4 DEF DeniedAt, Setup, UnregRegion, Release
  <2> QED BY <2>1, <2>2, <2>3, <2>4
<1> QED BY <1>1, <1>2, <1>3, <1>4

(* The steps that run through the GPIOs. *)
LEMMA GpioInv ==
  ASSUME LoadInv, CheckGpio \/ RequestGpio \/ FreeGpio
  PROVE  LoadInv'
<1> USE DriverAssumption DEF LoadInv, LoadTypeOK, Gpios, Setup, Teardown, LastGpio, NextGpio, history
<1>1. CASE CheckGpio
  <2>1. LoadTypeOK'
    <3>1. gpio' \in 1 .. NumGpios BY <1>1 DEF CheckGpio
    <3>2. pc' \in {"valid", "request", "r_device"} BY <1>1 DEF CheckGpio, InvalidLabel
    <3>3. UNCHANGED <<held, owner, refused, denied>> BY <1>1 DEF CheckGpio
    <3> QED BY <3>1, <3>2, <3>3
  <2>2. HeldAt' BY <1>1 DEF CheckGpio, InvalidLabel, HeldAt
  <2>3. OwnedAt' BY <1>1 DEF CheckGpio, InvalidLabel, OwnedAt
  <2>4. DeniedAt' BY <1>1 DEF CheckGpio, InvalidLabel, DeniedAt
  <2> QED BY <2>1, <2>2, <2>3, <2>4
<1>2. CASE RequestGpio
  <2>1. CASE /\ owner[gpio] = "nobody" /\ NextGpio("request", "configure")
             /\ owner' = [owner EXCEPT ![gpio] = "driver"]
             /\ UNCHANGED denied
    <3>1. LoadTypeOK' /\ HeldAt' BY <1>2, <2>1 DEF RequestGpio, HeldAt
    <3>2. OwnedAt' BY <1>2, <2>1 DEF RequestGpio, OwnedAt
    <3>3. DeniedAt' BY <1>2, <2>1 DEF RequestGpio, DeniedAt
    <3> QED BY <3>1, <3>2, <3>3
  <2>2. CASE pc' = GpioLabel /\ gpio' = 1 /\ denied' = gpio /\ UNCHANGED owner
    <3>1. LoadTypeOK' /\ HeldAt' BY <1>2, <2>2 DEF RequestGpio, GpioLabel, HeldAt
    <3>2. OwnedAt' BY <1>2, <2>2 DEF RequestGpio, GpioLabel, OwnedAt
    <3>3. DeniedAt' BY <2>2 DEF GpioLabel, DeniedAt
    <3> QED BY <3>1, <3>2, <3>3
  <2> QED BY <1>2, <2>1, <2>2 DEF RequestGpio
<1>3. CASE FreeGpio
  <2>1. LoadTypeOK' /\ HeldAt' BY <1>3 DEF FreeGpio, HeldAt
  <2>2. OwnedAt' BY <1>3 DEF FreeGpio, OwnedAt
  <2>3. DeniedAt' BY <1>3 DEF FreeGpio, DeniedAt
  <2> QED BY <2>1, <2>2, <2>3
<1> QED BY <1>1, <1>2, <1>3

LEMMA LoadNextInv == LoadInv /\ [LoadNext]_loading => LoadInv'
<1> SUFFICES ASSUME LoadInv, [LoadNext]_loading PROVE LoadInv' OBVIOUS
<1>1. CASE Driver BY <1>1, SetupInv, TeardownInv, GpioInv DEF Driver
<1>2. ASSUME NEW g \in Gpios, Others(g) PROVE LoadInv'
  <2>1. UNCHANGED <<pc, gpio, held, refused, denied>> BY <1>2 DEF Others, history
  <2>2. LoadTypeOK' BY <1>2, <2>1 DEF LoadInv, LoadTypeOK, Others
  <2>3. HeldAt' /\ DeniedAt' BY <2>1 DEF LoadInv, HeldAt, DeniedAt
  <2>4. \A h \in Gpios : owner'[h] = "driver" <=> owner[h] = "driver"
    BY <1>2 DEF LoadInv, LoadTypeOK, Others
  <2>5. OwnedAt'
    <3>1. OwnedAt BY DEF LoadInv
    <3> QED BY <2>1, <2>4, <3>1 DEF OwnedAt
  <2> QED BY <2>2, <2>3, <2>5 DEF LoadInv
<1>3. CASE UNCHANGED loading
  BY <1>3 DEF loading, history, LoadInv, LoadTypeOK, HeldAt, OwnedAt, DeniedAt
<1> QED BY <1>1, <1>2, <1>3 DEF LoadNext

LEMMA LoadSpecInv == LoadSpec => []LoadInv
  BY LoadInitInv, LoadNextInv, PTL DEF LoadSpec

(* Whatever fails, seen by the code or not, and whoever uses the GPIOs: a    *)
(* driver that is not loaded has kept neither a resource nor a GPIO.         *)
THEOREM NothingIsKept == LoadSpec => []NothingKept
<1>1. LoadInv => NothingKept BY DEF LoadInv, HeldAt, OwnedAt, NothingKept, Owned
<1> QED BY <1>1, LoadSpecInv, PTL

(* A driver that loads has all its GPIOs, and lacks exactly the class and    *)
(* the device that the kernel refused it without its noticing.               *)
THEOREM LoadedLacksTheRefused == LoadSpec => []LoadedLacksOnlyRefused
<1>1. LoadInv => LoadedLacksOnlyRefused
  BY DEF LoadInv, LoadTypeOK, HeldAt, OwnedAt, LoadedLacksOnlyRefused, Owned, Resources
<1> QED BY <1>1, LoadSpecInv, PTL

(* What was built on a resource goes before it, with whatever was refused.   *)
THEOREM ReleasedInOrder == LoadSpec => []DependentsFirst
<1>1. ASSUME LoadInv PROVE DependentsFirst
  <2> USE <1>1 DEF LoadInv, LoadTypeOK, Setup, Teardown, Resources
  <2>1. /\ "cdev" \in held => "region" \in held
        /\ "class" \in held => "cdev" \in held
        /\ "device" \in held => "class" \in held
    BY DEF HeldAt
  <2>2. Owned # {} => pc \in {"request", "configure", "loaded", "r_gpio"}
    BY DEF OwnedAt, Owned
  <2>3. pc \in {"request", "configure", "loaded", "r_gpio"} => Resources \ held \subseteq refused
    BY DEF HeldAt
  <2> QED BY <2>1, <2>2, <2>3 DEF DependentsFirst
<1> QED BY <1>1, LoadSpecInv, PTL

(* The driver takes and frees GPIOs of somebody else only when a request of  *)
(* its own was denied, and then only the denied one and those after it.      *)
THEOREM OthersGpiosSafe == LoadSpec => OthersKeepTheirs
<1>1. LoadInv /\ [LoadNext]_loading =>
        [\A g \in Gpios :
           Driver /\ owner[g] = "others" /\ owner'[g] # "others"
             => denied # 0 /\ g >= denied]_loading
  <2> SUFFICES ASSUME LoadInv, NEW g \in Gpios, Driver, owner[g] = "others",
                      owner'[g] # "others"
               PROVE  denied # 0 /\ g >= denied
    OBVIOUS
  <2>1. CASE RequestGpio
    BY <2>1 DEF RequestGpio, LoadInv, LoadTypeOK
  <2>2. CASE FreeGpio
    <3>1. pc = "r_gpio" /\ g = gpio /\ owner[g] # "driver"
      BY <2>2 DEF FreeGpio, LoadInv, LoadTypeOK
    <3>2. gpio \in Int /\ denied \in Int /\ g >= gpio
      BY <3>1, DriverAssumption DEF LoadInv, LoadTypeOK, Gpios
    <3> QED BY <3>1, <3>2 DEF LoadInv, OwnedAt
  <2> QED
    BY <2>1, <2>2 DEF Driver, Insmod, AllocRegion, AddCdev, CreateClass, CreateDevice,
      Acquire, Create, CheckGpio, Configure, Rmmod, DestroyDevice, DestroyClass, DelCdev,
      UnregRegion, Release
<1> QED BY <1>1, LoadSpecInv, PTL DEF LoadSpec, OthersKeepTheirs

(* Every variable of a driver stays in its range. *)
THEOREM LoadTypesCorrect == LoadSpec => []LoadTypeOK
<1>1. LoadInv => LoadTypeOK BY DEF LoadInv
<1> QED BY <1>1, LoadSpecInv, PTL

=============================================================================
