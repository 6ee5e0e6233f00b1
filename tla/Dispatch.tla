------------------------------ MODULE Dispatch ------------------------------
(***************************************************************************)
(* hw3/hw3.c, the "confirm" command of handleclient and what follows it:   *)
(* a customer's thread picks one of the two delivery persons, adds the     *)
(* order's distance to that person's next_available_time (asking the       *)
(* customer first when the wait is long), and then rides: it holds the     *)
(* person's time mutex and takes one second after another off the total.   *)
(*                                                                         *)
(* Every read and every write of next_available_time is a step of its own, *)
(* because the choice of the person reads it without a lock and because a  *)
(* mutex may be released twice.  sleep(1), the prints and the text of the  *)
(* messages are abstracted away.                                           *)
(***************************************************************************)
EXTENDS Integers

CONSTANTS
  Customers,  \* the connected customers, each served by one handleclient thread
  None,       \* the holder of a free mutex, the answer nobody gave yet
  Limit,      \* total above which the customer is asked (30 in the code)
  Distances,  \* distances an order may have (3, 5, 8; 0 for an unknown item)
  Answers     \* replies of the customers to the question, a subset of Replies

Replies == {"Yes", "No", "Other"}  \* "Other" includes a closed connection

ASSUME DispatchAssumption ==
  /\ None \notin Customers \cup Replies
  /\ Limit \in Nat
  /\ Distances \subseteq Nat
  /\ Answers \subseteq Replies

Persons == {0, 1}

VARIABLES
  next_available_time,  \* per person; shared by all the threads
  mutex,                \* per person: holder of delivery_persons[p].mutex
  mutex_time,           \* per person: holder of mutex_time1, mutex_time2
  pc,                   \* per thread: the next statement of handleclient
  distance,             \* per thread: order.distance
  deliver,              \* per thread: the person chosen
  answer,               \* per thread: the reply to the question
  reg,                  \* per thread: next_available_time as last read
  left                  \* per thread: order.distance - i of the riding loop

shared == <<next_available_time, mutex, mutex_time>>
local  == <<distance, deliver, answer, reg, left>>
vars   == <<next_available_time, mutex, mutex_time, pc,
            distance, deliver, answer, reg, left>>

(* Labels at which a thread reads or writes its person's total under the     *)
(* mutex, labels of the riding loop, and labels of an ended thread.          *)
Critical == {"check", "ask", "load", "store", "tload", "tstore"}
Riding   == {"ride", "tload", "tstore", "tunlock"}
Finished == {"served", "gone"}
Labels   == {"session", "read", "choose", "lock", "early", "grab", "unlock",
             "start"} \cup Critical \cup Riding \cup Finished

Init ==
  /\ next_available_time = [p \in Persons |-> 0]
  /\ mutex = [p \in Persons |-> None]
  /\ mutex_time = [p \in Persons |-> None]
  /\ pc = [t \in Customers |-> "session"]
  /\ distance = [t \in Customers |-> 0]
  /\ deliver = [t \in Customers |-> 0]
  /\ answer = [t \in Customers |-> None]
  /\ reg = [t \in Customers |-> 0]
  /\ left = [t \in Customers |-> 0]

-----------------------------------------------------------------------------
(* The thread goes from label a to label b. *)
Goto(t, a, b) == pc[t] = a /\ pc' = [pc EXCEPT ![t] = b]

(* A default pthread mutex: lock waits until it is free, and unlock frees it *)
(* whoever holds it, and does nothing to a free one (what glibc does).       *)
LockPerson_never(t) == UNCHANGED mutex

LockPerson(t) == mutex[deliver[t]] = None /\ mutex' = [mutex EXCEPT ![deliver[t]] = t]

UnlockPerson_never(t) == UNCHANGED mutex

UnlockPerson(t) == mutex' = [mutex EXCEPT ![deliver[t]] = None]

LockTime_never(t, m) == UNCHANGED mutex_time

LockTime(t, m) == mutex_time[m] = None /\ mutex_time' = [mutex_time EXCEPT ![m] = t]

UnlockTime(t) == mutex_time' = [mutex_time EXCEPT ![deliver[t]] = None]

ReadTime(t, p) == reg' = [reg EXCEPT ![t] = next_available_time[p]]

WriteTime(t, n) == next_available_time' = [next_available_time EXCEPT ![deliver[t]] = n]

Exceeds_forgetsTheOrder(t) == next_available_time[deliver[t]] > Limit

Exceeds(t) == next_available_time[deliver[t]] + distance[t] > Limit

RideOver(t) == left[t] = 0

(* The statement after next_available_time += order.distance. *)
AfterCharge_alwaysTwice(t) == "early"

AfterCharge(t) == IF answer[t] = "Yes" THEN "early" ELSE "unlock"

-----------------------------------------------------------------------------
(* The customer leaves with "cancel" or by closing the connection. *)
Leave(t) == Goto(t, "session", "gone") /\ UNCHANGED <<shared, local>>

(* "confirm" after at least one "order": the distance is that of the order. *)
Confirm(t) ==
  /\ Goto(t, "session", "read")
  /\ \E d \in Distances : distance' = [distance EXCEPT ![t] = d]
  /\ UNCHANGED <<shared, deliver, answer, reg, left>>

(* The comparison of the two totals reads one, then the other, unlocked. *)
ReadFirst(t) ==
  /\ Goto(t, "read", "choose") /\ ReadTime(t, 0)
  /\ UNCHANGED <<shared, distance, deliver, answer, left>>

Choose(t) ==
  /\ Goto(t, "choose", "lock")
  /\ deliver' = [deliver EXCEPT ![t] = IF reg[t] <= next_available_time[1] THEN 0 ELSE 1]
  /\ UNCHANGED <<shared, distance, answer, reg, left>>

Lock(t) ==
  /\ Goto(t, "lock", "check") /\ LockPerson(t)
  /\ UNCHANGED <<next_available_time, mutex_time, local>>

Check(t) ==
  /\ Goto(t, "check", IF Exceeds(t) THEN "ask" ELSE "load")
  /\ UNCHANGED <<shared, local>>

(* The reply to "do you want to wait?", read while holding the mutex. *)
Refuse(t) == Goto(t, "ask", "gone") /\ UnlockPerson(t)

Agree(t) == Goto(t, "ask", "load") /\ UNCHANGED mutex

Mumble(t) == Goto(t, "ask", "unlock") /\ UNCHANGED mutex

Reply(t) ==
  /\ \E a \in Answers :
       /\ answer' = [answer EXCEPT ![t] = a]
       /\ \/ a = "No" /\ Refuse(t)
          \/ a = "Yes" /\ Agree(t)
          \/ a = "Other" /\ Mumble(t)
  /\ UNCHANGED <<next_available_time, mutex_time, distance, deliver, reg, left>>

(* next_available_time += order.distance *)
Load(t) ==
  /\ Goto(t, "load", "store") /\ ReadTime(t, deliver[t])
  /\ UNCHANGED <<shared, distance, deliver, answer, left>>

Store(t) ==
  /\ Goto(t, "store", AfterCharge(t)) /\ WriteTime(t, reg[t] + distance[t])
  /\ UNCHANGED <<mutex, mutex_time, local>>

(* The unlock inside the "Yes" branch; that of person 2's branch is followed *)
(* by a lock of mutex_time1, which nothing releases.                         *)
UnlockEarly(t) ==
  /\ Goto(t, "early", IF deliver[t] = 1 THEN "grab" ELSE "unlock") /\ UnlockPerson(t)
  /\ UNCHANGED <<next_available_time, mutex_time, local>>

GrabTime1(t) ==
  /\ Goto(t, "grab", "unlock") /\ LockTime(t, 0)
  /\ UNCHANGED <<next_available_time, mutex, local>>

(* The unlock after the branches, then "Please wait a few minutes...". *)
Unlock(t) ==
  /\ Goto(t, "unlock", "start") /\ UnlockPerson(t)
  /\ UNCHANGED <<next_available_time, mutex_time, local>>

StartRide(t) ==
  /\ Goto(t, "start", "ride") /\ LockTime(t, deliver[t])
  /\ left' = [left EXCEPT ![t] = distance[t]]
  /\ UNCHANGED <<next_available_time, mutex, distance, deliver, answer, reg>>

(* One second of the ride: next_available_time-- under the person's mutex. *)
TickLock(t) ==
  /\ ~RideOver(t) /\ Goto(t, "ride", "tload") /\ LockPerson(t)
  /\ UNCHANGED <<next_available_time, mutex_time, local>>

TickLoad(t) ==
  /\ Goto(t, "tload", "tstore") /\ ReadTime(t, deliver[t])
  /\ UNCHANGED <<shared, distance, deliver, answer, left>>

TickStore(t) ==
  /\ Goto(t, "tstore", "tunlock") /\ WriteTime(t, reg[t] - 1)
  /\ left' = [left EXCEPT ![t] = @ - 1]
  /\ UNCHANGED <<mutex, mutex_time, distance, deliver, answer, reg>>

TickUnlock(t) ==
  /\ Goto(t, "tunlock", "ride") /\ UnlockPerson(t)
  /\ UNCHANGED <<next_available_time, mutex_time, local>>

(* "Delivery has arrived and you need to pay ..." *)
Arrive(t) ==
  /\ RideOver(t) /\ Goto(t, "ride", "served") /\ UnlockTime(t)
  /\ UNCHANGED <<next_available_time, mutex, local>>

-----------------------------------------------------------------------------
Step(t) ==
  \/ Confirm(t) \/ Leave(t) \/ ReadFirst(t) \/ Choose(t) \/ Lock(t)
  \/ Check(t) \/ Reply(t) \/ Load(t) \/ Store(t) \/ UnlockEarly(t)
  \/ GrabTime1(t) \/ Unlock(t) \/ StartRide(t) \/ TickLock(t) \/ TickLoad(t)
  \/ TickStore(t) \/ TickUnlock(t) \/ Arrive(t)

(* Every customer is gone: the server only waits for new connections. *)
Idle == (\A t \in Customers : pc[t] \in Finished) /\ UNCHANGED vars

Next == (\E t \in Customers : Step(t)) \/ Idle

Spec == Init /\ [][Next]_vars

(* The kernel keeps running every thread that can run, and a customer who is *)
(* asked replies or closes the connection.  Nothing forces a customer to     *)
(* confirm.  Weak fairness is enough for the locks: a thread takes each of   *)
(* them finitely often, so a lock others keep taking is free in the end.     *)
Proceed(t) == pc[t] # "session" /\ Step(t)

FairSpec == Spec /\ \A t \in Customers : WF_vars(Proceed(t))

-----------------------------------------------------------------------------
(* A customer of person p agreed to wait: the branch that unlocks twice. *)
Agreed(p) == \E t \in Customers : deliver[t] = p /\ answer[t] = "Yes"

Exclusive(p) ==
  \A t, u \in Customers :
    /\ deliver[t] = p /\ deliver[u] = p
    /\ pc[t] \in Critical /\ pc[u] \in Critical
    => t = u

(* How far the order of t has come, and the seconds still to be ridden for   *)
(* it: what Couriers knows of a customer.                                    *)
Phase(t) ==
  IF pc[t] \in {"early", "grab", "unlock", "start"} THEN "booked"
  ELSE IF pc[t] \in Riding THEN "riding"
  ELSE IF pc[t] = "served" THEN "arrived" ELSE "new"

Todo(t) ==
  CASE Phase(t) = "new"    -> 0
    [] Phase(t) = "booked" -> distance[t]
    [] OTHER               -> left[t]

C == INSTANCE Couriers WITH
       total  <- next_available_time,
       phase  <- [t \in Customers |-> Phase(t)],
       person <- [t \in Customers |-> IF Phase(t) = "new" THEN 0 ELSE deliver[t]],
       todo   <- [t \in Customers |-> Todo(t)],
       strict <- [p \in Persons |-> ~Agreed(p)]

(* The variables stay in their ranges; in particular a ride never runs past  *)
(* the distance of its order.                                                *)
TypeOK ==
  /\ next_available_time \in [Persons -> Int]
  /\ mutex \in [Persons -> Customers \cup {None}]
  /\ mutex_time \in [Persons -> Customers \cup {None}]
  /\ pc \in [Customers -> Labels]
  /\ distance \in [Customers -> Nat]
  /\ deliver \in [Customers -> Persons]
  /\ answer \in [Customers -> Replies \cup {None}]
  /\ reg \in [Customers -> Int]
  /\ left \in [Customers -> Nat]

(* A delivery person rides for one customer at a time, whatever the          *)
(* customers answer: mutex_time1 and mutex_time2 serialise the two riding    *)
(* loops of handleclient.                                                    *)
OneRideAtATime ==
  \A t, u \in Customers :
    /\ pc[t] \in Riding /\ pc[u] \in Riding
    /\ deliver[t] = deliver[u]
    => t = u

(* As long as no customer of person p agreed to a long wait, at most one     *)
(* thread is in a section guarded by delivery_persons[p].mutex.              *)
ExclusiveUnlessAgreed == \A p \in Persons : Agreed(p) \/ Exclusive(p)

(* As long as no customer of p agreed to a long wait, the total of p is      *)
(* within the 30 seconds beyond which a customer has to be asked: no         *)
(* interleaving of several confirmations gets past the check.                *)
LimitRespected == \A p \in Persons : Agreed(p) \/ next_available_time[p] <= Limit

(* The threads, with their unlocked choice, their four mutexes and their     *)
(* reads and writes in separate steps, implement Couriers: until a customer  *)
(* of p agrees to a long wait no += and no -- on the total of p is lost, and *)
(* a ride starts when the person is free and takes as long as its order.     *)
RefinesCouriers == C!CSpec

(* A thread that ended holds no mutex, on every path out of handleclient but *)
(* one: person 2's customer who agreed to wait keeps mutex_time1.            *)
LocksReleased ==
  \A t \in Customers : pc[t] \in Finished =>
    /\ \A p \in Persons : mutex[p] # t
    /\ mutex_time[1] # t
    /\ mutex_time[0] = t => deliver[t] = 1 /\ answer[t] = "Yes"

(* If no customer of person 2 agrees to a long wait, every confirmed order   *)
(* is delivered or refused in the end.                                       *)
EveryOrderEnds ==
  []~Agreed(1) => \A t \in Customers : pc[t] = "read" ~> pc[t] \in Finished

-----------------------------------------------------------------------------
(* What the documentation says, without the provisos above. *)

(* src/Readme.md:45 says of hw3 that it "can handle race condition issue":   *)
(* the person's mutex excludes.                                              *)
PersonMutexExclusive == \A p \in Persons : Exclusive(p)

(* hw3.c:202, "find first deliver person 1 first": the order is given to the *)
(* person who is available first, to person 1 when they are equal.           *)
FirstAvailableChosen ==
  \A t \in Customers : pc[t] = "check" =>
    IF deliver[t] = 0 THEN next_available_time[0] <= next_available_time[1]
                      ELSE next_available_time[1] < next_available_time[0]

(* hw3.c:275 tells the customer to "Please wait a few minutes...": a ride    *)
(* that was announced takes place.                                           *)
AnnouncedRideTakesPlace ==
  \A t \in Customers : pc[t] = "start" ~> pc[t] = "served"

=============================================================================
