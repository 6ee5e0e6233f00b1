------------------------------ MODULE OrderDesk -----------------------------
(***************************************************************************)
(* hw3/hw3.c, the part of handleclient before a confirmed order: every     *)
(* customer's thread reads one command after another, keeps the order of   *)
(* its customer, and answers.  determine_restaurant, called for the first  *)
(* order of every customer, returns a static buffer that all the threads   *)
(* share and that each of them copies after the call.                      *)
(*                                                                         *)
(* strcpy is not atomic: a write of the buffer and a copy of it take two   *)
(* steps each, and a copy or a write that overlaps another one may leave a *)
(* mixture of the two names, which equals no name: Torn.                   *)
(***************************************************************************)
EXTENDS Integers

CONSTANTS
  Customers,  \* the connected customers, each served by one handleclient thread
  Orders,     \* the <<item, quantity>> pairs the customers may order
  MaxOrders,  \* bound of the model: how often a customer orders
  IntMax,     \* the largest int, 2^31 - 1
  Torn,       \* a name mixed from two names
  Nothing     \* no item yet, an empty buffer

IntRange == -IntMax - 1 .. IntMax

(* sscanf accepts any int for a quantity, and nobody looks at it. *)
ASSUME OrderDeskAssumption ==
  /\ \A o \in Orders : o[1] # Nothing /\ o[2] \in IntRange
  /\ MaxOrders \in Nat /\ IntMax \in Nat
  /\ Torn # Nothing

(* The items the code knows; any other item has the restaurant "Unknown". *)
MenuItems == {"cookie", "cake", "tea", "boba", "fried-rice", "Egg-drop-soup"}

VARIABLES
  buffer,      \* the static char restaurant[] of determine_restaurant
  at,          \* per thread: the next statement of handleclient
  current,     \* per thread: the <<item, quantity>> of the order being handled
  first,       \* per thread: the item of the first order (Nothing: firstorder = 1)
  raced,       \* per thread: a write by another thread overlapped its strcpy
  restaurant,  \* per thread: its own copy of the buffer
  order_distance, \* per thread: order.distance
  count,       \* per thread: order.total_cookie ... order.total_egg_drop_soup
  price,       \* per thread: total_price
  answered,    \* per thread: the last command was answered
  told,        \* history, per thread: what the list last sent costs
  orders       \* per thread: how often its customer has ordered

shared == <<buffer, raced>>
determined == <<first, restaurant, order_distance>>
listing == <<count, told>>
desk == <<shared, at, current, determined, listing, price, answered, orders>>

Places == {"recv", "write", "writing", "copy", "copying", "update",
           "confirmed", "closed"}

Init ==
  /\ buffer = Nothing
  /\ at = [t \in Customers |-> "recv"]
  /\ current = [t \in Customers |-> <<Nothing, 0>>]
  /\ first = [t \in Customers |-> Nothing]
  /\ raced = [t \in Customers |-> FALSE]
  /\ restaurant = [t \in Customers |-> Nothing]
  /\ order_distance = [t \in Customers |-> 0]
  /\ count = [t \in Customers |-> [i \in MenuItems |-> 0]]
  /\ price = [t \in Customers |-> 0]
  /\ answered = [t \in Customers |-> TRUE]
  /\ told = [t \in Customers |-> 0]
  /\ orders = [t \in Customers |-> 0]

-----------------------------------------------------------------------------
Move(t, a, b) == at[t] = a /\ at' = [at EXCEPT ![t] = b]

Answer(t, b) == answered' = [answered EXCEPT ![t] = b]

ShopOf(item) ==
  CASE item \in {"cookie", "cake"}              -> "Dessert shop"
    [] item \in {"tea", "boba"}                 -> "Beverage shop"
    [] item \in {"fried-rice", "Egg-drop-soup"} -> "Diner"
    [] OTHER                                    -> "Unknown"

DistanceOf(shop, old) ==
  CASE shop = "Dessert shop"  -> 3
    [] shop = "Beverage shop" -> 5
    [] shop = "Diner"         -> 8
    [] OTHER                  -> old

(* What fits in an int stays; an overflow is undefined, and wraps around.    *)
Wrap(n) ==
  IF n \in IntRange THEN n ELSE ((n + IntMax + 1) % (2 * IntMax + 2)) - IntMax - 1

(* The items sendtoclient lists. *)
SoldBy(shop) == {i \in MenuItems : ShopOf(i) = shop}

(* Before the result is put into an int. *)
ComputePrice(shop, n) ==
  CASE shop = "Dessert shop"  -> n["cookie"] * 60 + n["cake"] * 80
    [] shop = "Beverage shop" -> n["tea"] * 40 + n["boba"] * 70
    [] shop = "Diner"         -> n["fried-rice"] * 120 + n["Egg-drop-soup"] * 50
    [] OTHER                  -> 0

Listed(shop, n) == {i \in SoldBy(shop) : n[i] > 0}

(* What "shop list" says an item costs. *)
ShopListPrice(item) ==
  CASE item = "cookie" -> 60 [] item = "cake" -> 80
    [] item = "tea" -> 40 [] item = "boba" -> 70
    [] item = "fried-rice" -> 120 [] item = "Egg-drop-soup" -> 50

(* What the list of sendtoclient comes to at those prices. *)
Charge(item, n) == IF n[item] > 0 THEN n[item] * ShopListPrice(item) ELSE 0

ListPrice(shop, n) ==
  CASE shop = "Dessert shop"  -> Charge("cookie", n) + Charge("cake", n)
    [] shop = "Beverage shop" -> Charge("tea", n) + Charge("boba", n)
    [] shop = "Diner"         -> Charge("fried-rice", n) + Charge("Egg-drop-soup", n)
    [] OTHER                  -> 0

-----------------------------------------------------------------------------
Target(t) == ShopOf(current[t][1])

(* Another thread is writing another name into the buffer. *)
Clash_clearsFirst(t, name) == \E u \in Customers \ {t} : at[u] = "writing"

Clash(t, name) == \E u \in Customers \ {t} : at[u] = "writing" /\ Target(u) # name

MaybeTorn(t) == IF raced[t] THEN {Torn} ELSE {}

FirstOrder_always(t) == TRUE

FirstOrder(t) == first[t] = Nothing

(* The command "order <item> <quantity>". *)
Order(t) ==
  /\ Move(t, "recv", IF FirstOrder(t) THEN "write" ELSE "update")
  /\ \E o \in Orders : current' = [current EXCEPT ![t] = o]
  /\ orders[t] < MaxOrders /\ orders' = [orders EXCEPT ![t] = @ + 1]
  /\ UNCHANGED <<shared, determined, listing, price, answered>>

(* strcpy into the static buffer, then order->distance.  Writing the name    *)
(* that is already there changes no byte.                                    *)
BeginWrite(t) ==
  /\ Move(t, "write", "writing")
  /\ buffer' = IF buffer = Target(t) THEN buffer ELSE Torn
  /\ first' = [first EXCEPT ![t] = current[t][1]]
  /\ raced' = [u \in Customers |->
                 CASE u = t             -> Clash(t, Target(t))
                   [] at[u] = "writing" -> raced[u] \/ Target(u) # Target(t)
                   [] at[u] = "copying" -> raced[u] \/ buffer # Target(t)
                   [] OTHER             -> raced[u]]
  /\ UNCHANGED <<current, restaurant, order_distance, listing, price, answered, orders>>

EndWrite(t) ==
  /\ Move(t, "writing", "copy")
  /\ buffer' \in {Target(t)} \cup MaybeTorn(t)
  /\ order_distance' = [order_distance EXCEPT ![t] = DistanceOf(Target(t), @)]
  /\ UNCHANGED <<current, first, raced, restaurant, listing, price, answered, orders>>

(* strcpy(restaurant, determine_restaurant(...)): the copy of the buffer. *)
BeginCopy(t) ==
  /\ Move(t, "copy", "copying")
  /\ raced' = [raced EXCEPT ![t] = Clash(t, buffer)]
  /\ UNCHANGED <<buffer, current, determined, listing, price, answered, orders>>

EndCopy(t) ==
  /\ Move(t, "copying", "update")
  /\ \E r \in {buffer} \cup MaybeTorn(t) : restaurant' = [restaurant EXCEPT ![t] = r]
  /\ UNCHANGED <<shared, current, first, order_distance, listing, price, answered, orders>>

Counted(n, o) == IF o[1] \in MenuItems THEN [n EXCEPT ![o[1]] = Wrap(@ + o[2])] ELSE n

(* update_item_count, then sendtoclient, which sends nothing if no item of   *)
(* the customer's restaurant has a positive count.                           *)
UpdateCount(t) ==
  /\ Move(t, "update", "recv")
  /\ count' = [count EXCEPT ![t] = Counted(@, current[t])]
  /\ LET sent == Listed(restaurant[t], count'[t]) # {}
     IN /\ Answer(t, sent)
        /\ told' = IF sent THEN [told EXCEPT ![t] = ListPrice(restaurant[t], count'[t])] ELSE told
  /\ UNCHANGED <<shared, current, determined, price, orders>>

(* "shop list", any other command, and "confirm" without an order yet, which *)
(* is asked for one: one answer, nothing else.                               *)
JustAnswer(t) ==
  /\ at[t] = "recv" /\ Answer(t, TRUE)
  /\ UNCHANGED <<shared, at, current, determined, listing, price, orders>>

BilledBy_shared(t) == buffer

BilledBy(t) == restaurant[t]

(* "confirm" *)
ConfirmOrder(t) ==
  /\ Move(t, "recv", "confirmed") /\ ~FirstOrder(t)
  /\ price' = [price EXCEPT ![t] = Wrap(ComputePrice(BilledBy(t), count[t]))]
  /\ UNCHANGED <<shared, current, determined, listing, answered, orders>>

(* "cancel", or read returns 0 or an error. *)
Close(t) ==
  /\ Move(t, "recv", "closed")
  /\ UNCHANGED <<shared, current, determined, listing, price, answered, orders>>

Step(t) ==
  \/ Order(t) \/ BeginWrite(t) \/ EndWrite(t) \/ BeginCopy(t) \/ EndCopy(t)
  \/ UpdateCount(t) \/ JustAnswer(t) \/ ConfirmOrder(t) \/ Close(t)

Next == \E t \in Customers : Step(t)

Spec == Init /\ [][Next]_desk

-----------------------------------------------------------------------------
(* Every variable stays in its range. *)
TypeOK ==
  LET Names == {"Dessert shop", "Beverage shop", "Diner", "Unknown", Torn, Nothing}
      Items == {o[1] : o \in Orders}
  IN /\ buffer \in Names
     /\ at \in [Customers -> Places]
     /\ current \in [Customers -> Orders \cup {<<Nothing, 0>>}]
     /\ first \in [Customers -> Items \cup {Nothing}]
     /\ raced \in [Customers -> BOOLEAN]
     /\ restaurant \in [Customers -> Names]
     /\ order_distance \in [Customers -> {0, 3, 5, 8}]
     /\ count \in [Customers -> [MenuItems -> IntRange]]
     /\ price \in [Customers -> IntRange]
     /\ answered \in [Customers -> BOOLEAN]
     /\ told \in [Customers -> Nat]
     /\ orders \in [Customers -> 0 .. MaxOrders]

Determined(t) == restaurant[t] # Nothing

(* A customer is given a restaurant other than that of the first item only   *)
(* if some other customer's first item is of another restaurant: the shared  *)
(* buffer of determine_restaurant is the only way from one order to another. *)
MismatchHasCulprit ==
  \A t \in Customers :
    Determined(t) /\ restaurant[t] # ShopOf(first[t])
    => \E u \in Customers : first[u] # Nothing /\ ShopOf(first[u]) # ShopOf(first[t])

(* Once determined, the restaurant and the distance of an order never        *)
(* change, whatever is ordered later and whatever other threads do.          *)
RestaurantIsFinal ==
  [][\A t \in Customers : Determined(t) =>
       /\ restaurant'[t] = restaurant[t]
       /\ order_distance'[t] = order_distance[t]]_desk

(* Whatever restaurant a customer was given: as long as the price fits in an *)
(* int, who confirms never pays more than the list last sent to him comes to *)
(* at the prices of "shop list" (hw3.c:56), and less only if a count is      *)
(* negative, nobody checking the quantities, or nothing is listed any more.  *)
PaysTheList ==
  \A t \in Customers :
    at[t] = "confirmed" /\ ComputePrice(restaurant[t], count[t]) \in IntRange =>
      /\ price[t] <= told[t]
      /\ price[t] < told[t] =>
           \/ \E i \in SoldBy(restaurant[t]) : count[t][i] < 0
           \/ Listed(restaurant[t], count[t]) = {}

-----------------------------------------------------------------------------
(* What the documentation says, without the provisos above. *)

(* src/Readme.md:45, hw3 "can handle race condition issue": a customer's     *)
(* restaurant, by which the price is computed, is that of the first order.   *)
RestaurantIsOwn ==
  \A t \in Customers : Determined(t) => restaurant[t] = ShopOf(first[t])

(* hw2/client.c:47, "Receive a response from the server" before the next     *)
(* input: the server does not wait for a command leaving the last unanswered.*)
EveryCommandAnswered == \A t \in Customers : at[t] = "recv" => answered[t]

=============================================================================
