-------------------------- MODULE OrderDesk_proofs --------------------------
(***************************************************************************)
(* For any number of customers and any orders: the shared buffer of        *)
(* determine_restaurant mixes restaurants up only if customers order from  *)
(* different ones, an order's restaurant never changes once it is copied,  *)
(* and nobody pays more than the list he was sent comes to.                *)
(*                                                                         *)
(* "Only if" is proved the other way round: as long as all the first       *)
(* orders so far are of one restaurant S, every name that is written over, *)
(* read while it is written, or copied twice is S.                         *)
(***************************************************************************)
EXTENDS OrderDesk, TLAPS

(* The labels from the first order to the copy of its restaurant's name. *)
Determining == {"write", "writing", "copy", "copying"}

(* What a thread's label says of its own order. *)
LabelInv ==
  \A t \in Customers :
    /\ at[t] \in Determining => restaurant[t] = Nothing
    /\ at[t] = "write" => first[t] = Nothing /\ current[t][1] # Nothing
    /\ at[t] \in {"writing", "copy", "copying"} =>
         first[t] = current[t][1] /\ first[t] # Nothing
    /\ restaurant[t] # Nothing => first[t] # Nothing

(* All that a thread's step needs to know of the types. *)
Types ==
  /\ at \in [Customers -> Places]
  /\ first = [t \in Customers |-> first[t]] /\ current = [t \in Customers |-> current[t]]
  /\ raced \in [Customers -> BOOLEAN]
  /\ restaurant = [t \in Customers |-> restaurant[t]]
  /\ order_distance = [t \in Customers |-> order_distance[t]]

(* All the first orders so far are of S. *)
Uniform(S) == \A t \in Customers : first[t] # Nothing => ShopOf(first[t]) = S

(* With one restaurant only, no write or copy sees another name. *)
Unmixed(S) ==
  \A t \in Customers :
    /\ at[t] \in {"writing", "copying"} => ~raced[t]
    /\ at[t] \in {"copy", "copying"} \/ restaurant[t] # Nothing => buffer = S
    /\ restaurant[t] \in {Nothing, S}

MixInv == \A S : Uniform(S) => Unmixed(S)

(* The labels and the types are inductive by themselves. *)
Ordered == Types /\ LabelInv

LEMMA InitOrdered == Init => Ordered
BY DEF Init, Ordered, Types, LabelInv, Determining, Places

(* A thread's step keeps what the labels say, of it and of the others. *)
LEMMA OrderedStep ==
  ASSUME Ordered, NEW t \in Customers, Step(t)
  PROVE  Ordered'
<1> USE OrderDeskAssumption
    DEF Ordered, Types, LabelInv, Determining, Places, Move, Answer, shared, determined, listing
<1>1. CASE Order(t)
  BY <1>1 DEF Order, FirstOrder
<1>2. CASE BeginWrite(t)
  BY <1>2 DEF BeginWrite, Clash
<1>3. CASE EndWrite(t)
  BY <1>3 DEF EndWrite
<1>4. CASE BeginCopy(t)
  BY <1>4 DEF BeginCopy, Clash
<1>5. CASE EndCopy(t)
  BY <1>5 DEF EndCopy
<1>6. CASE UpdateCount(t)
  BY <1>6 DEF UpdateCount
<1>7. CASE JustAnswer(t)
  BY <1>7 DEF JustAnswer
<1>8. CASE ConfirmOrder(t)
  BY <1>8 DEF ConfirmOrder
<1>9. CASE Close(t)
  BY <1>9 DEF Close
<1> QED BY <1>1, <1>2, <1>3, <1>4, <1>5, <1>6, <1>7, <1>8, <1>9 DEF Step

(* What Unmixed speaks of is only changed by the four steps on the buffer. *)
LEMMA MixStep ==
  ASSUME Ordered, MixInv, NEW t \in Customers, Step(t), NEW S, Uniform(S)'
  PROVE  Unmixed(S)'
<1> USE DEF Ordered, Types, Move, Answer, shared, determined
<1>1. CASE BeginWrite(t)
  <2>1. Target(t) = S /\ Uniform(S)
    BY <1>1 DEF BeginWrite, Uniform, Target, LabelInv
  <2>2. Unmixed(S)
    BY <2>1 DEF MixInv
  <2>3. \A u \in Customers : at[u] = "writing" => Target(u) = S
    BY <2>1 DEF Uniform, Target, LabelInv
  <2>4. \A u \in Customers : at[u] = "copying" => buffer = S
    BY <2>2 DEF Unmixed
  <2>5. \A u \in Customers : at'[u] \in {"writing", "copying"} => ~raced'[u]
    BY <1>1, <2>1, <2>2, <2>3, <2>4 DEF BeginWrite, Clash, Unmixed
  <2>6. \A u \in Customers : at'[u] \in {"copy", "copying"} \/ restaurant'[u] # Nothing => buffer' = S
    BY <1>1, <2>1, <2>2 DEF BeginWrite, Unmixed
  <2>7. \A u \in Customers : restaurant'[u] \in {Nothing, S}
    BY <1>1, <2>2 DEF BeginWrite, Unmixed
  <2> QED BY <2>5, <2>6, <2>7 DEF Unmixed
<1>2. CASE EndWrite(t)
  <2>1. Uniform(S)
    BY <1>2 DEF EndWrite, Uniform
  <2>2. Unmixed(S) /\ ~raced[t] /\ Target(t) = S
    BY <1>2, <2>1 DEF MixInv, Unmixed, EndWrite, Uniform, Target, LabelInv
  <2>3. buffer' = S
    BY <1>2, <2>2 DEF EndWrite, MaybeTorn
  <2> QED BY <1>2, <2>2, <2>3 DEF EndWrite, Unmixed
<1>3. CASE BeginCopy(t)
  <2>1. Uniform(S)
    BY <1>3 DEF BeginCopy, Uniform
  <2>2. Unmixed(S) /\ buffer = S
    BY <1>3, <2>1 DEF MixInv, Unmixed, BeginCopy
  <2>3. \A u \in Customers : at[u] = "writing" => Target(u) = S
    BY <2>1 DEF Uniform, Target, LabelInv
  <2>4. ~raced'[t]
    BY <1>3, <2>2, <2>3 DEF BeginCopy, Clash
  <2> QED BY <1>3, <2>2, <2>4 DEF BeginCopy, Unmixed
<1>4. CASE EndCopy(t)
  <2>1. Uniform(S)
    BY <1>4 DEF EndCopy, Uniform
  <2>2. Unmixed(S) /\ ~raced[t] /\ buffer = S
    BY <1>4, <2>1 DEF MixInv, Unmixed, EndCopy
  <2>3. restaurant' = [restaurant EXCEPT ![t] = S]
    BY <1>4, <2>2 DEF EndCopy, MaybeTorn
  <2> QED BY <1>4, <2>2, <2>3 DEF EndCopy, Unmixed
<1>5. CASE Order(t) \/ UpdateCount(t) \/ JustAnswer(t) \/ ConfirmOrder(t) \/ Close(t)
  <2>1. Uniform(S)
    BY <1>5 DEF Uniform, Order, UpdateCount, JustAnswer, ConfirmOrder, Close
  <2>2. Unmixed(S)
    BY <2>1 DEF MixInv
  <2> QED BY <1>5, <2>2 DEF Unmixed, Order, UpdateCount, JustAnswer, ConfirmOrder, Close
<1> QED BY <1>1, <1>2, <1>3, <1>4, <1>5 DEF Step

LEMMA OrderedIsInvariant == Spec => []Ordered
<1>1. Ordered /\ [Next]_desk => Ordered'
  BY OrderedStep DEF Next, desk, shared, determined, Ordered, Types, LabelInv
<1> QED BY InitOrdered, <1>1, PTL DEF Spec

LEMMA MixInvIsInvariant == Spec => []MixInv
<1>1. Init => MixInv
  BY DEF Init, MixInv, Unmixed
<1>2. Ordered /\ MixInv /\ [Next]_desk => MixInv'
  <2> SUFFICES ASSUME Ordered, MixInv, [Next]_desk, NEW S, Uniform(S)'
               PROVE  Unmixed(S)'
    BY DEF MixInv
  <2>1. CASE Next
    BY <2>1, MixStep DEF Next
  <2>2. CASE UNCHANGED desk
    BY <2>2 DEF desk, shared, determined, MixInv, Uniform, Unmixed
  <2> QED BY <2>1, <2>2
<1> QED BY OrderedIsInvariant, <1>1, <1>2, PTL DEF Spec

(* A customer billed by a restaurant other than that of the first item has   *)
(* met, in the static buffer of hw3.c:78, one who orders elsewhere.          *)
THEOREM WrongNameHasCulprit == Spec => []MismatchHasCulprit
<1>1. MixInv => MismatchHasCulprit
  <2> SUFFICES ASSUME MixInv, NEW t \in Customers, Determined(t),
                      restaurant[t] # ShopOf(first[t]),
                      \A u \in Customers : first[u] # Nothing => ShopOf(first[u]) = ShopOf(first[t])
               PROVE  FALSE
    BY DEF MismatchHasCulprit
  <2>1. Unmixed(ShopOf(first[t]))
    BY DEF MixInv, Uniform
  <2> QED BY <2>1 DEF Unmixed, Determined
<1> QED BY MixInvIsInvariant, <1>1, PTL

(* Once copied (hw3.c:182), the restaurant and the distance of an order are  *)
(* never changed again.                                                      *)
THEOREM RestaurantStays == Spec => RestaurantIsFinal
<1>1. Ordered /\ [Next]_desk =>
        [\A t \in Customers : Determined(t) =>
           /\ restaurant'[t] = restaurant[t]
           /\ order_distance'[t] = order_distance[t]]_desk
  <2> SUFFICES ASSUME Ordered, NEW u \in Customers, Step(u),
                      NEW t \in Customers, Determined(t)
               PROVE  /\ restaurant'[t] = restaurant[t]
                      /\ order_distance'[t] = order_distance[t]
    BY DEF Next
  <2> USE DEF Ordered, Types, LabelInv, Determining, Determined, Move, determined
  <2>1. CASE EndWrite(u)
    BY <2>1 DEF EndWrite
  <2>2. CASE EndCopy(u)
    BY <2>2 DEF EndCopy
  <2>3. CASE ~(EndWrite(u) \/ EndCopy(u))
    BY <2>3 DEF Step, Order, BeginWrite, BeginCopy, UpdateCount, JustAnswer, ConfirmOrder, Close
  <2> QED BY <2>1, <2>2, <2>3
<1> QED BY OrderedIsInvariant, <1>1, PTL DEF Spec, RestaurantIsFinal

-----------------------------------------------------------------------------
(* The bill. *)

(* An int stays an int, and one that fits is not changed. *)
LEMMA WrapInt == \A n \in Int : Wrap(n) \in IntRange /\ (n \in IntRange => Wrap(n) = n)
<1> SUFFICES ASSUME NEW n \in Int
             PROVE  Wrap(n) \in IntRange /\ (n \in IntRange => Wrap(n) = n)
  OBVIOUS
<1>1. IntMax \in Nat BY OrderDeskAssumption
<1> DEFINE w == 2 * IntMax + 2
           m == (n + IntMax + 1) % w
<1>2. w \in Nat \ {0} BY <1>1
<1>3. m \in 0 .. w - 1 BY <1>1, <1>2
<1>4. m - IntMax - 1 \in IntRange BY <1>1, <1>3 DEF IntRange
<1> QED BY <1>4 DEF Wrap

(* What update_item_count does to the counts: they stay ints. *)
LEMMA CountedInt ==
  ASSUME NEW n \in [MenuItems -> IntRange], NEW o \in Orders \cup {<<Nothing, 0>>}
  PROVE  Counted(n, o) \in [MenuItems -> IntRange]
<1>1. o[2] \in Int /\ \A k \in IntRange : k \in Int
  BY OrderDeskAssumption DEF IntRange
<1>2. o[1] \in MenuItems => Wrap(n[o[1]] + o[2]) \in IntRange
  BY <1>1, WrapInt
<1> QED BY <1>2 DEF Counted

(* An int times a price, and the part of it that a list shows. *)
LEMMA ChargeOf ==
  ASSUME NEW n \in [MenuItems -> IntRange], NEW i \in MenuItems
  PROVE  /\ n[i] \in Int /\ Charge(i, n) \in Nat
         /\ n[i] * ShopListPrice(i) <= Charge(i, n)
         /\ n[i] >= 0 => Charge(i, n) = n[i] * ShopListPrice(i)
         /\ ~(n[i] > 0) => Charge(i, n) = 0
<1>1. n[i] \in Int BY DEF IntRange
<1>2. ShopListPrice(i) \in {60, 80, 40, 70, 120, 50} BY DEF ShopListPrice, MenuItems
<1>3. \A k \in Int, p \in {60, 80, 40, 70, 120, 50} :
        /\ k > 0 => k * p \in Nat
        /\ ~(k > 0) => k * p <= 0
        /\ k = 0 => k * p = 0
        /\ k * p \in Int
  OBVIOUS
<1> DEFINE k == n[i]  x == n[i] * ShopListPrice(i)
<1>4. /\ k > 0 => x \in Nat
      /\ ~(k > 0) => x <= 0
      /\ k = 0 => x = 0
      /\ x \in Int
  BY <1>1, <1>2, <1>3
<1>5. Charge(i, n) = IF k > 0 THEN x ELSE 0 BY DEF Charge
<1> HIDE DEF x
<1>6. /\ Charge(i, n) \in Nat /\ x <= Charge(i, n)
      /\ k >= 0 => Charge(i, n) = x
      /\ ~(k > 0) => Charge(i, n) = 0
  <2>1. CASE k > 0 BY <1>1, <1>4, <1>5, <2>1
  <2>2. CASE ~(k > 0)
    <3>1. k >= 0 => k = 0 BY <1>1, <2>2
    <3> QED BY <1>4, <1>5, <2>2, <3>1
  <2> QED BY <2>1, <2>2
<1> QED BY <1>1, <1>6 DEF x

(* The prices of compute_price are those of the shop list, so it never       *)
(* charges more than the list shows, the same if no count is negative, and   *)
(* nothing for nothing.                                                      *)
LEMMA PriceOfList ==
  ASSUME NEW n \in [MenuItems -> IntRange], NEW shop
  PROVE  /\ ComputePrice(shop, n) \in Int /\ ListPrice(shop, n) \in Nat
         /\ ComputePrice(shop, n) <= ListPrice(shop, n)
         /\ (\A i \in SoldBy(shop) : n[i] >= 0) => ComputePrice(shop, n) = ListPrice(shop, n)
         /\ Listed(shop, n) = {} => ListPrice(shop, n) = 0
<1>1. ASSUME NEW i \in MenuItems, NEW j \in MenuItems,
             ShopOf(i) = shop, ShopOf(j) = shop,
             ComputePrice(shop, n) = n[i] * ShopListPrice(i) + n[j] * ShopListPrice(j),
             ListPrice(shop, n) = Charge(i, n) + Charge(j, n)
      PROVE  /\ ComputePrice(shop, n) \in Int /\ ListPrice(shop, n) \in Nat
             /\ ComputePrice(shop, n) <= ListPrice(shop, n)
             /\ (\A k \in SoldBy(shop) : n[k] >= 0) => ComputePrice(shop, n) = ListPrice(shop, n)
             /\ Listed(shop, n) = {} => ListPrice(shop, n) = 0
  <2> DEFINE x == n[i] * ShopListPrice(i)  y == n[j] * ShopListPrice(j)
             c == Charge(i, n)  d == Charge(j, n)
  <2>1. /\ c \in Nat /\ x <= c /\ (n[i] >= 0 => c = x) /\ (~(n[i] > 0) => c = 0)
        /\ d \in Nat /\ y <= d /\ (n[j] >= 0 => d = y) /\ (~(n[j] > 0) => d = 0)
    BY ChargeOf
  <2>2. x \in Int /\ y \in Int
    <3>1. \A k \in MenuItems : ShopListPrice(k) \in Int BY DEF ShopListPrice, MenuItems
    <3>2. n[i] \in Int /\ n[j] \in Int BY ChargeOf
    <3> QED BY <3>1, <3>2
  <2>3. (\A k \in SoldBy(shop) : n[k] >= 0) => n[i] >= 0 /\ n[j] >= 0
    BY <1>1 DEF SoldBy
  <2>4. Listed(shop, n) = {} => ~(n[i] > 0) /\ ~(n[j] > 0)
    BY <1>1 DEF Listed, SoldBy
  <2>5. ComputePrice(shop, n) = x + y /\ ListPrice(shop, n) = c + d
    BY <1>1
  <2> HIDE DEF x, y, c, d
  <2> QED BY <2>1, <2>2, <2>3, <2>4, <2>5
<1> USE DEF ComputePrice, ListPrice, ShopListPrice, ShopOf, MenuItems
<1>2. CASE shop = "Dessert shop"
  <2>1. ComputePrice(shop, n) = n["cookie"] * ShopListPrice("cookie") + n["cake"] * ShopListPrice("cake")
    BY <1>2
  <2>2. ListPrice(shop, n) = Charge("cookie", n) + Charge("cake", n)
    BY <1>2
  <2> QED BY <1>1, <1>2, <2>1, <2>2
<1>3. CASE shop = "Beverage shop"
  <2>1. ComputePrice(shop, n) = n["tea"] * ShopListPrice("tea") + n["boba"] * ShopListPrice("boba")
    BY <1>3
  <2>2. ListPrice(shop, n) = Charge("tea", n) + Charge("boba", n)
    BY <1>3
  <2> QED BY <1>1, <1>3, <2>1, <2>2
<1>4. CASE shop = "Diner"
  <2>1. ComputePrice(shop, n) = n["fried-rice"] * ShopListPrice("fried-rice")
                                  + n["Egg-drop-soup"] * ShopListPrice("Egg-drop-soup")
    BY <1>4
  <2>2. ListPrice(shop, n) = Charge("fried-rice", n) + Charge("Egg-drop-soup", n)
    BY <1>4
  <2> QED BY <1>1, <1>4, <2>1, <2>2
<1>5. CASE shop \notin {"Dessert shop", "Beverage shop", "Diner"}
  <2>1. ComputePrice(shop, n) = 0 /\ ListPrice(shop, n) = 0
    BY <1>5
  <2> HIDE DEF ComputePrice, ListPrice, ShopListPrice, ShopOf, MenuItems
  <2> QED BY <2>1
<1> QED BY <1>2, <1>3, <1>4, <1>5

NoCount == [i \in MenuItems |-> 0]

(* Nothing is counted before the restaurant is known; then, after every      *)
(* update, the list last sent comes to no less than the price, and is still  *)
(* the list there is unless that is empty.                                   *)
Billed ==
  /\ at \in [Customers -> Places]
  /\ count \in [Customers -> [MenuItems -> IntRange]]
  /\ told \in [Customers -> Nat]
  /\ price \in [Customers -> IntRange]
  /\ current \in [Customers -> Orders \cup {<<Nothing, 0>>}]
  /\ first = [t \in Customers |-> first[t]]
  /\ restaurant = [t \in Customers |-> restaurant[t]]
  /\ \A t \in Customers :
       /\ at[t] \in Determining \/ first[t] = Nothing => count[t] = NoCount
       /\ at[t] = "update" => first[t] # Nothing
       /\ ComputePrice(restaurant[t], count[t]) <= told[t]
       /\ Listed(restaurant[t], count[t]) # {} => told[t] = ListPrice(restaurant[t], count[t])
       /\ at[t] = "confirmed" => price[t] = Wrap(ComputePrice(restaurant[t], count[t]))

(* With no counts nothing is listed and nothing is due, wherever. *)
LEMMA NothingDue ==
  ASSUME NEW shop
  PROVE  ComputePrice(shop, NoCount) = 0 /\ Listed(shop, NoCount) = {}
  BY DEF ComputePrice, Listed, SoldBy, NoCount, MenuItems

LEMMA InitBilled == Init => Billed
<1> SUFFICES ASSUME Init PROVE Billed OBVIOUS
<1>1. 0 \in IntRange BY OrderDeskAssumption DEF IntRange
<1>2. \A t \in Customers : count[t] = NoCount /\ told[t] = 0 /\ at[t] = "recv"
  BY DEF Init, NoCount
<1>3. \A t \in Customers :
        /\ ComputePrice(restaurant[t], count[t]) <= told[t]
        /\ Listed(restaurant[t], count[t]) = {}
  <2> SUFFICES ASSUME NEW t \in Customers
               PROVE  /\ ComputePrice(restaurant[t], count[t]) <= told[t]
                      /\ Listed(restaurant[t], count[t]) = {}
    OBVIOUS
  <2>1. /\ ComputePrice(restaurant[t], NoCount) = 0
        /\ Listed(restaurant[t], NoCount) = {}
    BY NothingDue
  <2> QED BY <1>2, <2>1
<1> QED BY <1>1, <1>2, <1>3 DEF Init, Billed, Places

LEMMA BilledStep ==
  ASSUME Ordered, Billed, NEW t \in Customers, Step(t)
  PROVE  Billed'
<1> USE DEF Billed, Places, Move, Answer, shared, determined, listing
<1>1. CASE Order(t)
  BY <1>1 DEF Order, FirstOrder, Determining
<1>2. CASE UpdateCount(t)
  <2> DEFINE n == Counted(count[t], current[t])  shop == restaurant[t]
  <2>1. n \in [MenuItems -> IntRange]
    BY CountedInt
  <2>2. count' = [count EXCEPT ![t] = n] /\ UNCHANGED <<current, restaurant, first, price>>
        /\ at[t] = "update" /\ at' = [at EXCEPT ![t] = "recv"]
    BY <1>2 DEF UpdateCount
  <2>3. told' = IF Listed(shop, n) # {} THEN [told EXCEPT ![t] = ListPrice(shop, n)] ELSE told
    BY <1>2, <2>2 DEF UpdateCount
  <2> HIDE DEF n
  <2>4. /\ ComputePrice(shop, n) \in Int /\ ListPrice(shop, n) \in Nat
        /\ ComputePrice(shop, n) <= ListPrice(shop, n)
        /\ Listed(shop, n) = {} => ListPrice(shop, n) = 0
    BY <2>1, PriceOfList
  <2>5. told' \in [Customers -> Nat] /\ ComputePrice(shop, n) <= told'[t]
        /\ (Listed(shop, n) # {} => told'[t] = ListPrice(shop, n))
    <3>1. CASE Listed(shop, n) # {} BY <2>3, <2>4, <3>1
    <3>2. CASE Listed(shop, n) = {}
      <4>1. told[t] \in Nat /\ told' = told BY <2>3, <3>2
      <4>2. ComputePrice(shop, n) <= 0 BY <2>4, <3>2
      <4> QED BY <2>4, <3>2, <4>1, <4>2
    <3> QED BY <3>1, <3>2
  <2>6. count'[t] = n /\ restaurant'[t] = shop /\ at'[t] = "recv" /\ first'[t] # Nothing
    BY <2>2
  <2>7. \A u \in Customers \ {t} : /\ count'[u] = count[u] /\ told'[u] = told[u] /\ at'[u] = at[u]
                                   /\ restaurant'[u] = restaurant[u] /\ first'[u] = first[u]
                                   /\ price'[u] = price[u]
    BY <2>2, <2>3
  <2> QED BY <2>1, <2>2, <2>5, <2>6, <2>7 DEF Determining
<1>3. CASE ConfirmOrder(t)
  <2>1. Wrap(ComputePrice(restaurant[t], count[t])) \in IntRange
    BY PriceOfList, WrapInt
  <2> QED BY <1>3, <2>1 DEF ConfirmOrder, BilledBy, Determining
<1>4. CASE EndWrite(t) \/ BeginCopy(t) \/ JustAnswer(t) \/ Close(t)
  BY <1>4 DEF EndWrite, BeginCopy, JustAnswer, Close, Determining
<1>5. CASE BeginWrite(t)
  BY <1>5 DEF BeginWrite, Determining
<1>6. CASE EndCopy(t)
  <2>1. count[t] = NoCount /\ told[t] \in Nat /\ first[t] # Nothing
    BY <1>6 DEF EndCopy, Determining, Ordered, LabelInv
  <2>2. PICK r : restaurant' = [restaurant EXCEPT ![t] = r]
    BY <1>6 DEF EndCopy
  <2>3. ComputePrice(r, count[t]) <= told[t] /\ Listed(r, count[t]) = {}
    BY <2>1, NothingDue
  <2>4. UNCHANGED <<count, told, first, price, current>> /\ at' = [at EXCEPT ![t] = "update"]
    BY <1>6 DEF EndCopy
  <2> QED BY <2>1, <2>2, <2>3, <2>4 DEF Determining
<1> QED BY <1>1, <1>2, <1>3, <1>4, <1>5, <1>6 DEF Step

LEMMA BilledIsInvariant == Spec => []Billed
<1>1. Ordered /\ Billed /\ [Next]_desk => Billed'
  <2> SUFFICES ASSUME Ordered, Billed, [Next]_desk PROVE Billed' OBVIOUS
  <2>1. CASE Next BY <2>1, BilledStep DEF Next
  <2>2. CASE UNCHANGED desk BY <2>2 DEF desk, shared, determined, listing, Billed
  <2> QED BY <2>1, <2>2
<1> QED BY InitBilled, OrderedIsInvariant, <1>1, PTL DEF Spec

(* compute_price (hw3.c:96) charges what sendtoclient (hw3.c:108) has listed *)
(* at the prices of handle_shop_list (hw3.c:56), and never more, for any     *)
(* quantities, negative ones too, any size of an int and any restaurant a    *)
(* race has left, unless the price does not fit in an int.                   *)
THEOREM PaidAsListed == Spec => []PaysTheList
<1>1. ASSUME Billed PROVE PaysTheList
  <2> SUFFICES ASSUME NEW t \in Customers, at[t] = "confirmed",
                      ComputePrice(restaurant[t], count[t]) \in IntRange
               PROVE  /\ price[t] <= told[t]
                      /\ price[t] < told[t] =>
                           \/ \E i \in SoldBy(restaurant[t]) : count[t][i] < 0
                           \/ Listed(restaurant[t], count[t]) = {}
    BY DEF PaysTheList
  <2> DEFINE n == count[t]  due == ComputePrice(restaurant[t], n)
  <2>1. n \in [MenuItems -> IntRange] /\ told[t] \in Nat BY <1>1 DEF Billed
  <2>2. due \in Int BY <2>1, PriceOfList
  <2>3. price[t] = due BY <1>1, <2>2, WrapInt DEF Billed
  <2>4. due <= told[t] BY <1>1 DEF Billed
  <2>5. ASSUME due < told[t], Listed(restaurant[t], n) # {}
        PROVE  \E i \in SoldBy(restaurant[t]) : n[i] < 0
    <3>1. told[t] = ListPrice(restaurant[t], n) BY <1>1, <2>5 DEF Billed
    <3>2. due # ListPrice(restaurant[t], n) BY <2>1, <2>2, <2>5, <3>1
    <3>3. PICK i \in SoldBy(restaurant[t]) : ~(n[i] >= 0) BY <2>1, <3>2, PriceOfList
    <3>4. n[i] \in Int BY <2>1, <3>3 DEF SoldBy, IntRange
    <3> QED BY <3>3, <3>4
  <2> HIDE DEF due
  <2> QED BY <2>3, <2>4, <2>5
<1> QED BY <1>1, BilledIsInvariant, PTL

-----------------------------------------------------------------------------
(* Types. *)

(* The item of an order, or Nothing. *)
LEMMA ItemOf ==
  ASSUME NEW o \in Orders \cup {<<Nothing, 0>>}
  PROVE  o[1] \in {p[1] : p \in Orders} \cup {Nothing}
<1>1. CASE o \in Orders
  <2>1. o[1] \in {p[1] : p \in Orders}
    BY <1>1, Zenon
  <2> QED BY <2>1
<1>2. CASE o = <<Nothing, 0>>
  BY <1>2
<1> QED BY <1>1, <1>2

LEMMA OneMoreOrder == \A k \in 0 .. MaxOrders : k < MaxOrders => k + 1 \in 0 .. MaxOrders
  BY OrderDeskAssumption

(* A name that is written or torn is one of those a buffer may hold; counts  *)
(* and prices are Billed's.                                                  *)
LEMMA TypeStep ==
  ASSUME TypeOK, Billed', NEW t \in Customers, Step(t)
  PROVE  TypeOK'
<1> USE DEF TypeOK, Places, Move, Answer, shared, determined, listing
<1>1. count' \in [Customers -> [MenuItems -> IntRange]] /\ told' \in [Customers -> Nat]
      /\ price' \in [Customers -> IntRange] /\ at' \in [Customers -> Places]
      /\ current' \in [Customers -> Orders \cup {<<Nothing, 0>>}]
  BY DEF Billed
<1>2. CASE Order(t)
  <2>1. orders' \in [Customers -> 0 .. MaxOrders]
    <3>1. orders' = [orders EXCEPT ![t] = orders[t] + 1] /\ orders[t] < MaxOrders
      BY <1>2 DEF Order
    <3>2. orders[t] \in 0 .. MaxOrders OBVIOUS
    <3>3. orders[t] + 1 \in 0 .. MaxOrders BY <3>1, <3>2, OneMoreOrder
    <3> QED BY <3>1, <3>3
  <2> QED BY <1>1, <1>2, <2>1 DEF Order
<1>3. CASE BeginWrite(t)
  <2>1. raced' \in [Customers -> BOOLEAN]
    <3>1. \A u \in Customers : raced[u] \in BOOLEAN
      OBVIOUS
    <3>2. \A u \in Customers : raced'[u] \in BOOLEAN
      BY <1>3, <3>1 DEF BeginWrite, Clash
    <3> QED BY <1>3, <3>2 DEF BeginWrite
  <2>2. first' \in [Customers -> {o[1] : o \in Orders} \cup {Nothing}]
    <3>1. current[t][1] \in {o[1] : o \in Orders} \cup {Nothing}
      <4>1. current[t] \in Orders \cup {<<Nothing, 0>>}
        OBVIOUS
      <4> QED BY <4>1, ItemOf, Zenon
    <3> QED BY <1>3, <3>1 DEF BeginWrite
  <2> QED BY <1>1, <1>3, <2>1, <2>2 DEF BeginWrite, Target, ShopOf
<1>4. CASE EndWrite(t)
  <2>1. Target(t) \in {"Dessert shop", "Beverage shop", "Diner", "Unknown"}
    BY DEF Target, ShopOf
  <2>2. order_distance' \in [Customers -> {0, 3, 5, 8}]
    BY <1>4 DEF EndWrite, DistanceOf
  <2> QED BY <1>1, <1>4, <2>1, <2>2 DEF EndWrite, MaybeTorn
<1>5. CASE BeginCopy(t)
  BY <1>1, <1>5 DEF BeginCopy, Clash
<1>6. CASE EndCopy(t)
  <2>1. PICK r \in {buffer, Torn} : restaurant' = [restaurant EXCEPT ![t] = r]
    BY <1>6 DEF EndCopy, MaybeTorn
  <2> QED BY <1>1, <1>6, <2>1 DEF EndCopy
<1>7. CASE UpdateCount(t)
  BY <1>1, <1>7 DEF UpdateCount
<1>8. CASE JustAnswer(t) \/ Close(t) \/ ConfirmOrder(t)
  BY <1>1, <1>8 DEF JustAnswer, Close, ConfirmOrder
<1> QED BY <1>2, <1>3, <1>4, <1>5, <1>6, <1>7, <1>8 DEF Step

(* Every variable stays in its range, for any ints as quantities: the buffer *)
(* and its copies hold names or a mixture, and counts and prices are ints,   *)
(* what a list shows never negative.                                         *)
THEOREM TypeCorrect == Spec => []TypeOK
<1>1. Init => TypeOK
  <2>1. 0 \in IntRange /\ 0 \in 0 .. MaxOrders BY OrderDeskAssumption DEF IntRange
  <2> QED BY <2>1 DEF Init, TypeOK, Places
<1>2. TypeOK /\ Billed' /\ [Next]_desk => TypeOK'
  <2> SUFFICES ASSUME TypeOK, Billed', [Next]_desk PROVE TypeOK' OBVIOUS
  <2>1. CASE Next BY <2>1, TypeStep DEF Next
  <2>2. CASE UNCHANGED desk BY <2>2 DEF desk, shared, determined, listing, TypeOK
  <2> QED BY <2>1, <2>2
<1> QED BY BilledIsInvariant, <1>1, <1>2, PTL DEF Spec

=============================================================================
