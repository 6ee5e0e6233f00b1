------------------------------ MODULE Couriers ------------------------------
(***************************************************************************)
(* What hw3's server promises of its two delivery persons: an order is     *)
(* added to its person's total at once, and within the limit; every second *)
(* of its ride is taken off at once; a person rides for one customer after *)
(* another, and each ride lasts as long as its order.  Nothing is promised *)
(* of the total of a person once a customer of his has agreed to wait      *)
(* beyond the limit; who is asked and says neither Yes nor No is not       *)
(* charged, and rides.                                                     *)
(***************************************************************************)
EXTENDS Integers

CONSTANTS
  Customers,  \* those who may order
  Persons,    \* the delivery persons
  Limit,      \* the total beyond which a customer is asked
  Distances   \* the seconds a ride may take

VARIABLES
  total,   \* per person: next_available_time
  phase,   \* per customer: "new", "booked", "riding", "arrived"
  person,  \* per customer: who delivers his order, 0 before
  todo,    \* per customer: the seconds still to be ridden for him
  strict   \* per person: no customer agreed to wait beyond the limit

couriers == <<total, phase, person, todo, strict>>

Turn(t, a, b) == phase[t] = a /\ phase' = [phase EXCEPT ![t] = b]

(* The total of p becomes n, of those nothing is promised of it is anything. *)
Becomes(p, n) ==
  \A q \in Persons : strict[q] => total'[q] = IF q = p THEN n ELSE total[q]

CInit ==
  /\ total = [p \in Persons |-> 0] /\ strict = [p \in Persons |-> TRUE]
  /\ phase = [t \in Customers |-> "new"]
  /\ person = [t \in Customers |-> 0] /\ todo = [t \in Customers |-> 0]

Fits(p, d) == total[p] + d <= Limit

Book(t) ==
  /\ Turn(t, "new", "booked") /\ UNCHANGED strict
  /\ \E p \in Persons, d \in Distances :
       /\ person' = [person EXCEPT ![t] = p] /\ todo' = [todo EXCEPT ![t] = d]
       /\ IF strict[p] /\ ~Fits(p, d) THEN Becomes(p, total[p]) ELSE Becomes(p, total[p] + d)

(* A customer of p agrees to wait. *)
Stretch(p) ==
  /\ strict' = [strict EXCEPT ![p] = FALSE] /\ UNCHANGED <<total, phase, person, todo>>

Free(p) == \A u \in Customers : phase[u] = "riding" => person[u] # p

Depart(t) ==
  /\ Turn(t, "booked", "riding") /\ Free(person[t])
  /\ UNCHANGED <<total, person, todo, strict>>

Second(t) ==
  /\ phase[t] = "riding" /\ todo[t] > 0
  /\ todo' = [todo EXCEPT ![t] = @ - 1] /\ Becomes(person[t], total[person[t]] - 1)
  /\ UNCHANGED <<phase, person, strict>>

Arrive(t) ==
  /\ Turn(t, "riding", "arrived") /\ todo[t] = 0
  /\ UNCHANGED <<total, person, todo, strict>>

CNext ==
  \/ \E t \in Customers : Book(t) \/ Depart(t) \/ Second(t) \/ Arrive(t)
  \/ \E p \in Persons : Stretch(p)

CSpec == CInit /\ [][CNext]_couriers

=============================================================================
