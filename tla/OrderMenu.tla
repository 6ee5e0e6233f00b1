----------------------------- MODULE OrderMenu ------------------------------
(***************************************************************************)
(* hw1/hw1.c: the menu of the kiosk.  A scanf that meets something that is *)
(* not a number leaves it in the input and its variable as it was; only    *)
(* the getchar's of the shop list can take it away.  An int wraps around.  *)
(***************************************************************************)
EXTENDS Integers

CONSTANTS
  NumRestaurants,  \* 3 in the code
  Price,           \* per restaurant: the prices of its two items
  Distance,        \* per restaurant
  Quantities,      \* the quantities the user may enter
  Word             \* the number of values of an int

ASSUME MenuAssumption ==
  /\ NumRestaurants \in Nat \ {0} /\ Word \in Nat /\ Word >= 2 /\ Word % 2 = 0
  /\ Price \in [1 .. NumRestaurants -> [1 .. 2 -> Int]]
  /\ Distance \in [1 .. NumRestaurants -> Int]
  /\ Quantities \subseteq Int

Restaurants == 1 .. NumRestaurants

(* What the user may enter at a prompt: a choice that is offered, or not.    *)
Choices == 0 .. 2
RestaurantChoices == 0 .. NumRestaurants + 1
ItemChoices == 0 .. 4

Half == Word \div 2
Wrap(n) == ((n + Half) % Word) - Half

VARIABLES
  at,                 \* what main does next
  choice, restaurant_choice, item_choice, quantity,  \* uninitialised at first
  total_amount,
  shopping_cart, confirm_order,
  junk,               \* the input begins with something that is no number
  shown,              \* the price and the distance last written to the devices
  asked,              \* history: what the user has asked of each restaurant
  spoilt              \* history: the total holds what the user did not ask for

entered == <<choice, restaurant_choice, item_choice, quantity>>
flags   == <<shopping_cart, confirm_order>>
vars    == <<at, entered, total_amount, flags, junk, shown, asked, spoilt>>

Nothing == [r \in Restaurants |-> 0]

Init ==
  /\ at = "menu" /\ junk = FALSE
  /\ choice \in Choices /\ restaurant_choice \in RestaurantChoices
  /\ item_choice \in ItemChoices /\ quantity \in Quantities
  /\ total_amount = 0 /\ shopping_cart = 0 /\ confirm_order = 0
  /\ shown = [price |-> 0, leds |-> 0]
  /\ asked = Nothing /\ spoilt = FALSE

-----------------------------------------------------------------------------
(* What scanf("%d", &v) leaves in v, whose value was old, and in the input.  *)
Scanned(old, values) ==
  IF junk THEN {<<old, TRUE>>} ELSE (values \X BOOLEAN) \cup {<<old, TRUE>>}

(* Case 2 starts with an empty cart; a new order asks for nothing yet.       *)
ReadChoice ==
  /\ at = "menu"
  /\ \E s \in Scanned(choice, Choices) :
       /\ choice' = s[1] /\ junk' = s[2]
       /\ at' = CASE s[1] = 1 -> "shops" [] s[1] = 2 -> "order" [] OTHER -> "menu"
       /\ IF s[1] = 2
          THEN shopping_cart' = 0 /\ confirm_order' = 0 /\ asked' = Nothing
          ELSE UNCHANGED <<flags, asked>>
  /\ UNCHANGED <<restaurant_choice, item_choice, quantity, total_amount, shown, spoilt>>

(* The two getchar's: the rest of the line, and the key pressed.             *)
ShowShops ==
  /\ at = "shops" /\ at' = "menu" /\ junk' \in BOOLEAN
  /\ UNCHANGED <<entered, total_amount, flags, shown, asked, spoilt>>

Offered(r) == r \in Restaurants

ChooseRestaurant ==
  /\ at = "order" /\ shopping_cart = 0 /\ confirm_order = 0
  /\ \E s \in Scanned(restaurant_choice, RestaurantChoices) :
       /\ restaurant_choice' = s[1] /\ junk' = s[2]
       /\ IF Offered(s[1])
          THEN confirm_order' = 1 /\ UNCHANGED at
          ELSE at' = "menu" /\ UNCHANGED confirm_order
  /\ UNCHANGED <<choice, item_choice, quantity, total_amount, shopping_cart, shown,
                 asked, spoilt>>

(* The total starts again from zero. *)
ResetTotal == total_amount' = 0 /\ asked' = Nothing /\ spoilt' = FALSE

CancelTotal_keeps == UNCHANGED <<total_amount, asked, spoilt>>

CancelTotal == ResetTotal

(* The branches of the item prompt, for the item_choice just entered.        *)
InvalidItem ==
  /\ at' = "menu" /\ spoilt' = (spoilt \/ total_amount # 0)
  /\ UNCHANGED <<total_amount, flags, shown, asked>>

Cancel == at' = "menu" /\ CancelTotal /\ UNCHANGED <<flags, shown>>

AskQuantity == at' = "quantity" /\ UNCHANGED <<total_amount, flags, shown, asked, spoilt>>

Deliver ==
  /\ total_amount # 0
  /\ shown' = [price |-> total_amount, leds |-> Distance[restaurant_choice]]
  /\ ResetTotal /\ at' = "menu" /\ UNCHANGED flags

NothingOrdered ==
  /\ total_amount = 0 /\ shopping_cart' = 0 /\ confirm_order' = 0
  /\ UNCHANGED <<at, total_amount, shown, asked, spoilt>>

ChooseItem ==
  /\ at = "order" /\ ~(shopping_cart = 0 /\ confirm_order = 0)
  /\ \E s \in Scanned(item_choice, ItemChoices) :
       /\ item_choice' = s[1] /\ junk' = s[2]
       /\ \/ s[1] \notin 1 .. 4 /\ InvalidItem
          \/ s[1] = 4 /\ Cancel
          \/ s[1] \in {1, 2} /\ AskQuantity
          \/ s[1] = 3 /\ (Deliver \/ NothingOrdered)
  /\ UNCHANGED <<choice, restaurant_choice, quantity>>

Cost(q) == Price[restaurant_choice][item_choice] * q

(* The statement shopping_cart==1 that follows changes nothing.  The user    *)
(* has asked for it unless neither prompt got an answer from him.            *)
ChooseQuantity ==
  /\ at = "quantity" /\ at' = "order"
  /\ \E s \in Scanned(quantity, Quantities) :
       /\ quantity' = s[1] /\ junk' = s[2]
       /\ total_amount' = Wrap(total_amount + Cost(s[1]))
       /\ IF s[2]
          THEN spoilt' = TRUE /\ UNCHANGED asked
          ELSE /\ asked' = [asked EXCEPT ![restaurant_choice] =
                              Wrap(@ + Price[restaurant_choice][item_choice] * s[1])]
               /\ UNCHANGED spoilt
  /\ UNCHANGED <<choice, restaurant_choice, item_choice, flags, shown>>

Next == ReadChoice \/ ShowShops \/ ChooseRestaurant \/ ChooseItem \/ ChooseQuantity

Spec == Init /\ [][Next]_vars

(* The behaviours in which every answer is a number. *)
NumbersSpec == Init /\ [][Next /\ ~junk']_vars

(* main always goes on, and the user answers every prompt with something.    *)
FairSpec == Spec /\ WF_vars(Next)

-----------------------------------------------------------------------------
(* Every variable stays in its range; an item is only asked for, and bought, *)
(* of a restaurant and an entry of its menu that exist.                      *)
TypeOK ==
  /\ at \in {"menu", "shops", "order", "quantity"}
  /\ choice \in Choices /\ restaurant_choice \in RestaurantChoices
  /\ item_choice \in ItemChoices /\ quantity \in Quantities
  /\ total_amount \in -Half .. Half - 1
  /\ shopping_cart \in 0 .. 1 /\ confirm_order \in 0 .. 1
  /\ junk \in BOOLEAN /\ spoilt \in BOOLEAN
  /\ asked \in [Restaurants -> -Half .. Half - 1]
  /\ at = "order" /\ confirm_order = 1 => restaurant_choice \in Restaurants
  /\ at = "quantity" => restaurant_choice \in Restaurants /\ item_choice \in 1 .. 2

Delivers == at = "order" /\ confirm_order = 1 /\ item_choice' = 3 /\ at' = "menu"

(* The price and the distance shown are those of what the user has asked for *)
(* since this order began, unless an order left by an invalid choice, or an  *)
(* answer that is no number, has spoilt the total.                           *)
DeliveredAsOrdered ==
  [][Delivers /\ ~spoilt =>
       shown' = [price |-> asked[restaurant_choice], leds |-> Distance[restaurant_choice]]]_vars

(* hw1.c:114, "calculate the total amount of the order": what is delivered   *)
(* is this order.                                                            *)
TotalIsOfThisOrder ==
  [][Delivers => shown'.price = asked[restaurant_choice]]_vars

(* hw1.c:97 and 146, "Invalid choice.": an answer that is no choice is told  *)
(* so and the user is asked again, so the input is read sooner or later.     *)
InputIsRead == []<>~junk

=============================================================================
