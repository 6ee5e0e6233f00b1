-------------------------- MODULE Dispatch_proofs --------------------------
(***************************************************************************)
(* Proofs, for every set of customers, every limit and every set of        *)
(* distances and answers, of the invariants of Dispatch that MCDispatch    *)
(* checks for three customers, and that Dispatch implements Couriers.      *)
(*                                                                         *)
(* None of the invariants is inductive.  IInv adds what each label says of the       *)
(* thread's own variables, and who holds each of the four mutexes.         *)
(***************************************************************************)
EXTENDS Dispatch, TLAPS

(* Labels between the lock of the person's mutex and an unlock of it. *)
Holding == Critical \cup {"unlock", "tunlock"}

(* What a label says of the variables of its own thread. *)
LabelInv ==
  \A t \in Customers :
    /\ pc[t] \in {"session", "read", "choose", "lock", "check", "ask"} => answer[t] = None
    /\ pc[t] \notin {"session", "gone"} => distance[t] \in Distances
    /\ pc[t] = "early" => answer[t] = "Yes"
    /\ pc[t] = "grab" => answer[t] = "Yes" /\ deliver[t] = 1
    /\ pc[t] \in {"tload", "tstore"} => left[t] > 0

(* A riding thread holds the person's time mutex; time mutexes are held by   *)
(* riding threads, and by threads that went through the lock of line 257.    *)
TimeInv ==
  \A t \in Customers :
    /\ pc[t] \in Riding => mutex_time[deliver[t]] = t
    /\ \A m \in Persons : mutex_time[m] = t =>
         \/ m = deliver[t] /\ pc[t] \in Riding
         \/ m = 0 /\ deliver[t] = 1 /\ answer[t] = "Yes"

(* Between lock and unlock a thread holds the mutex of a person nobody       *)
(* agreed to wait for; only there a thread holds a person's mutex at all.    *)
MutexInv ==
  \A t \in Customers :
    /\ pc[t] \in Holding => Agreed(deliver[t]) \/ mutex[deliver[t]] = t
    /\ \A p \in Persons : mutex[p] = t =>
         p = deliver[t] /\ pc[t] \in Holding \cup {"early"}

(* The total, and what the thread in the critical section knows of it.       *)
TotalInv ==
  /\ LimitRespected
  /\ \A t \in Customers :
       \/ Agreed(deliver[t])
       \/ /\ pc[t] = "ask"    => Exceeds(t)
          /\ pc[t] = "load"   => ~Exceeds(t)
          /\ pc[t] = "store"  => ~Exceeds(t) /\ reg[t] = next_available_time[deliver[t]]
          /\ pc[t] = "tstore" => reg[t] = next_available_time[deliver[t]]

IInv == TypeOK /\ LabelInv /\ TimeInv /\ MutexInv /\ TotalInv

USE DispatchAssumption DEF Persons, Replies

-----------------------------------------------------------------------------
LEMMA InitIInv == Init => IInv
  BY DEF Init, IInv, TypeOK, LabelInv, TimeInv, MutexInv, TotalInv, LimitRespected,
     Exceeds, Agreed, Labels, Critical, Riding, Finished, Holding

(* A step changes the label, the answer and the person of its own thread     *)
(* only; it chooses the person before it has an answer, and keeps an answer. *)
LEMMA StepIsLocal ==
  ASSUME TypeOK, LabelInv, NEW t \in Customers, Step(t)
  PROVE  /\ \A u \in Customers \ {t} :
              /\ pc'[u] = pc[u] /\ deliver'[u] = deliver[u] /\ answer'[u] = answer[u]
              /\ reg'[u] = reg[u] /\ left'[u] = left[u] /\ distance'[u] = distance[u]
         /\ answer[t] = "Yes" => answer'[t] = "Yes" /\ deliver'[t] = deliver[t]
  BY DEF TypeOK, LabelInv, Step, Goto, ReadTime, shared, local,
     Leave, Confirm, ReadFirst, Choose, Lock, Check, Reply, Refuse, Agree, Mumble, Load, Store,
     UnlockEarly, GrabTime1, Unlock, StartRide, TickLock, TickLoad, TickStore, TickUnlock, Arrive

(* Once a customer of p agreed to wait, that stays so. *)
LEMMA AgreedIsStable ==
  ASSUME TypeOK, LabelInv, NEW t \in Customers, Step(t), NEW p \in Persons, Agreed(p)
  PROVE  Agreed(p)'
  BY StepIsLocal DEF Agreed

LEMMA TypeStep ==
  ASSUME TypeOK, LabelInv, NEW t \in Customers, Step(t)
  PROVE  TypeOK' /\ LabelInv'
  BY DEF TypeOK, LabelInv, Step, Goto, LockPerson, UnlockPerson, LockTime, UnlockTime,
     ReadTime, WriteTime, RideOver, AfterCharge, shared, local, Labels, Critical, Riding, Finished,
     Leave, Confirm, ReadFirst, Choose, Lock, Check, Reply, Refuse, Agree, Mumble, Load, Store,
     UnlockEarly, GrabTime1, Unlock, StartRide, TickLock, TickLoad, TickStore, TickUnlock, Arrive

LEMMA TimeStep ==
  ASSUME TypeOK, LabelInv, TimeInv, NEW t \in Customers, Step(t)
  PROVE  TimeInv'
  BY DEF TypeOK, LabelInv, TimeInv, Step, Goto, LockTime, UnlockTime,
     ReadTime, AfterCharge, shared, local, Labels, Critical, Riding, Finished,
     Leave, Confirm, ReadFirst, Choose, Lock, Check, Reply, Refuse, Agree, Mumble, Load, Store,
     UnlockEarly, GrabTime1, Unlock, StartRide, TickLock, TickLoad, TickStore, TickUnlock, Arrive

(* An unlock of the person's mutex by a thread that holds it frees no        *)
(* other's; after one by a thread that does not, the person is Agreed.       *)
LEMMA MutexStep ==
  ASSUME TypeOK, LabelInv, MutexInv, NEW t \in Customers, Step(t)
  PROVE  MutexInv'
<1>1. \A p \in Persons : Agreed(p) => Agreed(p)'
  BY AgreedIsStable
<1>2. ASSUME mutex' = mutex,
             pc'[t] \in Holding => pc[t] \in Holding,
             pc[t] \in Holding \cup {"early"} => pc'[t] \in Holding \cup {"early"},
             pc[t] \in Holding \cup {"early"} => deliver'[t] = deliver[t]
      PROVE  MutexInv'
  BY <1>1, <1>2, StepIsLocal DEF MutexInv, TypeOK, Holding
<1>3. CASE Confirm(t) \/ Leave(t) \/ ReadFirst(t) \/ Choose(t) \/ StartRide(t) \/ Arrive(t)
  BY <1>2, <1>3
  DEF TypeOK, Goto, shared, local, Holding, Critical,
      Confirm, Leave, ReadFirst, Choose, StartRide, Arrive
<1>4. CASE GrabTime1(t)
  <2>1. Agreed(deliver[t])
    BY <1>4 DEF LabelInv, Agreed, GrabTime1, Goto
  <2>2. QED
    BY <1>1, <1>4, <2>1, StepIsLocal
    DEF TypeOK, MutexInv, Goto, local, Holding, Critical, GrabTime1
<1>5. CASE Check(t) \/ Load(t) \/ Store(t) \/ TickLoad(t) \/ TickStore(t)
  BY <1>2, <1>5
  DEF TypeOK, Goto, ReadTime, AfterCharge, shared, local, Holding, Critical,
      Check, Load, Store, TickLoad, TickStore
<1>6. CASE Lock(t) \/ TickLock(t)
  BY <1>1, <1>6, StepIsLocal
  DEF TypeOK, MutexInv, Goto, LockPerson, local, Holding, Critical, Lock, TickLock
<1>7. CASE Reply(t)
  <2>1. CASE Refuse(t)
    BY <1>1, <1>7, <2>1, StepIsLocal
    DEF TypeOK, MutexInv, Goto, UnlockPerson, Holding, Critical, Reply, Refuse
  <2>2. CASE Agree(t) \/ Mumble(t)
    BY <1>2, <1>7, <2>2 DEF TypeOK, Goto, Holding, Critical, Reply, Agree, Mumble
  <2>3. QED  BY <1>7, <2>1, <2>2 DEF Reply
<1>8. CASE UnlockEarly(t)
  <2>1. Agreed(deliver[t])
    BY <1>8 DEF LabelInv, Agreed, UnlockEarly, Goto
  <2>2. QED
    BY <1>1, <1>8, <2>1, StepIsLocal
    DEF TypeOK, MutexInv, Goto, UnlockPerson, local, Holding, Critical, UnlockEarly
<1>9. CASE Unlock(t) \/ TickUnlock(t)
  BY <1>1, <1>9, StepIsLocal
  DEF TypeOK, MutexInv, Goto, UnlockPerson, local, Holding, Critical, Unlock, TickUnlock
<1>10. QED
  BY <1>3, <1>4, <1>5, <1>6, <1>7, <1>8, <1>9 DEF Step

(* While nobody agreed to wait for p, only one thread is between its lock    *)
(* and unlock: what another read of the total of p is not there to be stale. *)
LEMMA ExclusionFromMutexInv ==
  ASSUME TypeOK, MutexInv, NEW t \in Customers, NEW u \in Customers,
         deliver[t] = deliver[u], ~Agreed(deliver[t]),
         pc[t] \in Holding, pc[u] \in Holding
  PROVE  t = u
  BY DEF MutexInv

LEMMA TotalStep ==
  ASSUME TypeOK, LabelInv, MutexInv, TotalInv, NEW t \in Customers, Step(t)
  PROVE  TotalInv'
<1>1. \A p \in Persons : Agreed(p) => Agreed(p)'
  BY AgreedIsStable
<1>2. ASSUME next_available_time' = next_available_time,
             pc'[t] \notin {"ask", "load", "store", "tstore"}
      PROVE  TotalInv'
  BY <1>1, <1>2, StepIsLocal, TypeStep DEF TotalInv, LimitRespected, TypeOK, Exceeds
<1>3. CASE Confirm(t) \/ Leave(t) \/ ReadFirst(t) \/ Choose(t) \/ Lock(t) \/ UnlockEarly(t)
           \/ GrabTime1(t) \/ Unlock(t) \/ StartRide(t) \/ TickLock(t) \/ TickUnlock(t)
           \/ Arrive(t)
  BY <1>2, <1>3
  DEF TypeOK, Goto, shared, local, Confirm, Leave, ReadFirst, Choose, Lock, UnlockEarly,
      GrabTime1, Unlock, StartRide, TickLock, TickUnlock, Arrive
<1>4. CASE Check(t) \/ Load(t) \/ TickLoad(t)
  BY <1>1, <1>4, StepIsLocal
  DEF TypeOK, TotalInv, LimitRespected, Exceeds, Goto, ReadTime, shared, local,
      Check, Load, TickLoad
<1>5. CASE Reply(t)
  <2>1. CASE Agree(t)
    <3>1. Agreed(deliver[t])'
      BY <1>5, <2>1 DEF TypeOK, Agreed, Reply, Agree, Refuse, Mumble, Goto
    <3>2. QED
      BY <1>1, <1>5, <2>1, <3>1, StepIsLocal
      DEF TypeOK, TotalInv, LimitRespected, Exceeds, Reply, Agree
  <2>2. CASE Refuse(t) \/ Mumble(t)
    BY <1>2, <1>5, <2>2 DEF TypeOK, Goto, Reply, Refuse, Mumble
  <2>3. QED  BY <1>5, <2>1, <2>2 DEF Reply
<1>6. CASE Store(t) \/ TickStore(t)
  <2>1. next_available_time'[deliver[t]] <= Limit \/ Agreed(deliver[t])
    BY <1>6
    DEF TypeOK, TotalInv, LimitRespected, Exceeds, Goto, WriteTime, Store, TickStore
  <2>2. \A u \in Customers \ {t} :
          pc[u] \in Holding /\ deliver[u] = deliver[t] => Agreed(deliver[t])
    BY <1>6, ExclusionFromMutexInv DEF Goto, Store, TickStore, Holding, Critical, TypeOK
  <2>3. /\ \A p \in Persons \ {deliver[t]} : next_available_time'[p] = next_available_time[p]
        /\ deliver' = deliver
        /\ pc'[t] \notin {"ask", "load", "store", "tstore"}
    BY <1>6 DEF TypeOK, Goto, AfterCharge, WriteTime, local, Store, TickStore
  <2>4. LimitRespected'
    BY <1>1, <2>1, <2>3 DEF TotalInv, LimitRespected, TypeOK
  <2>5. QED
    BY <1>1, <2>2, <2>3, <2>4, StepIsLocal DEF TypeOK, TotalInv, Exceeds, Holding, Critical
<1>7. QED
  BY <1>3, <1>4, <1>5, <1>6 DEF Step

-----------------------------------------------------------------------------
(* IInv is inductive. *)
LEMMA NextIInv == IInv /\ [Next]_vars => IInv'
<1>1. ASSUME IInv, NEW t \in Customers, Step(t)
      PROVE  IInv'
  BY <1>1, TypeStep, TimeStep, MutexStep, TotalStep DEF IInv
<1>2. ASSUME IInv, UNCHANGED vars
      PROVE  IInv'
  BY <1>2 DEF IInv, vars, TypeOK, LabelInv, TimeInv, MutexInv, TotalInv, LimitRespected,
     Exceeds, Agreed
<1>3. QED
  BY <1>1, <1>2 DEF Next, Idle

LEMMA Invariance == Spec => []IInv
  BY InitIInv, NextIInv, PTL DEF Spec

(* Every variable stays in its range; the riding loop of line 281 never      *)
(* counts past the distance of the order.                                    *)
THEOREM TypeCorrect == Spec => []TypeOK
<1>1. IInv => TypeOK
  BY DEF IInv
<1>2. QED
  BY <1>1, Invariance, PTL

(* A delivery person rides for one customer at a time, for any number of     *)
(* customers and whatever they answer.                                       *)
THEOREM RidesAreExclusive == Spec => []OneRideAtATime
<1>1. IInv => OneRideAtATime
  BY DEF IInv, TypeOK, TimeInv, OneRideAtATime
<1>2. QED
  BY <1>1, Invariance, PTL

(* The person's mutex excludes until a customer of that person agrees to a   *)
(* long wait, the one path that unlocks it twice.                            *)
THEOREM MutexExcludesUnlessAgreed == Spec => []ExclusiveUnlessAgreed
<1>1. IInv => ExclusiveUnlessAgreed
  BY ExclusionFromMutexInv DEF IInv, ExclusiveUnlessAgreed, Exclusive, Holding
<1>2. QED
  BY <1>1, Invariance, PTL

(* No interleaving of confirmations takes a total past the limit, until a    *)
(* customer of that person agrees to it.                                     *)
THEOREM LimitHolds == Spec => []LimitRespected
<1>1. IInv => LimitRespected
  BY DEF IInv, TotalInv
<1>2. QED
  BY <1>1, Invariance, PTL

(* No ended thread holds a mutex, but for mutex_time1 of line 257. *)
THEOREM EndedThreadsHoldNoLock == Spec => []LocksReleased
<1>1. IInv => LocksReleased
  BY DEF IInv, TypeOK, TimeInv, MutexInv, LocksReleased, Finished, Holding, Critical, Riding
<1>2. QED
  BY <1>1, Invariance, PTL

-----------------------------------------------------------------------------
(* The refinement. *)

LEMMA InitRefines == Init => C!CInit
  BY DEF Init, C!CInit, Phase, Todo, Riding, Agreed

(* What a step of t means to Couriers, given what it does to t alone. *)
LEMMA OthersStay ==
  ASSUME TypeOK, LabelInv, NEW t \in Customers, Step(t)
  PROVE  \A u \in Customers \ {t} :
           Phase(u)' = Phase(u) /\ Todo(u)' = Todo(u) /\ deliver'[u] = deliver[u]
  BY StepIsLocal DEF Phase, Todo

(* Only an agreement of t lifts the promise about its person. *)
LEMMA StrictStays ==
  ASSUME TypeOK, LabelInv, NEW t \in Customers, Step(t), ~(Reply(t) /\ Agree(t))
  PROVE  \A p \in Persons : Agreed(p)' <=> Agreed(p)
<1>1. answer'[t] = "Yes" <=> answer[t] = "Yes"
  BY DEF TypeOK, LabelInv, Step, Goto, shared, local,
     Leave, Confirm, ReadFirst, Choose, Lock, Check, Reply, Refuse, Agree, Mumble, Load, Store,
     UnlockEarly, GrabTime1, Unlock, StartRide, TickLock, TickLoad, TickStore, TickUnlock, Arrive
<1>2. QED
  BY <1>1, StepIsLocal DEF Agreed

LEMMA StepRefines ==
  ASSUME IInv, NEW t \in Customers, Step(t)
  PROVE  C!CNext \/ UNCHANGED C!couriers
<1> DEFINE Who(u) == IF Phase(u) = "new" THEN 0 ELSE deliver[u]
           phase  == [u \in Customers |-> Phase(u)]
           person == [u \in Customers |-> Who(u)]
           todo   == [u \in Customers |-> Todo(u)]
           strict == [p \in Persons |-> ~Agreed(p)]
<1>1. \A u \in Customers \ {t} :
        Phase(u)' = Phase(u) /\ Todo(u)' = Todo(u) /\ deliver'[u] = deliver[u]
  BY OthersStay DEF IInv
<1>2. /\ phase' = [phase EXCEPT ![t] = Phase(t)']
      /\ todo' = [todo EXCEPT ![t] = Todo(t)']
      /\ person' = [person EXCEPT ![t] = Who(t)']
  <2>1. \A u \in Customers \ {t} : Who(u)' = Who(u)
    BY <1>1
  <2> HIDE DEF Who
  <2>2. QED
    BY <1>1, <2>1
<1>3. ASSUME ~(Reply(t) /\ Agree(t))  PROVE strict' = strict
  BY <1>3, StrictStays DEF IInv
<1>4. ASSUME next_available_time' = next_available_time, strict' = strict,
             Phase(t)' = Phase(t), Todo(t)' = Todo(t),
             Phase(t) # "new" => deliver'[t] = deliver[t]
      PROVE  UNCHANGED C!couriers
  BY <1>2, <1>4 DEF C!couriers
<1>5. CASE Confirm(t) \/ Leave(t) \/ ReadFirst(t) \/ Choose(t) \/ Lock(t) \/ Check(t) \/ Load(t)
           \/ (Reply(t) /\ Refuse(t)) \/ UnlockEarly(t) \/ GrabTime1(t) \/ Unlock(t)
           \/ TickLock(t) \/ TickLoad(t) \/ TickUnlock(t)
  <2>1. /\ next_available_time' = next_available_time
        /\ Phase(t)' = Phase(t) /\ Todo(t)' = Todo(t)
        /\ Phase(t) # "new" => deliver'[t] = deliver[t]
    BY <1>5
    DEF IInv, TypeOK, Phase, Todo, Riding, Goto, shared, local, Confirm, Leave, ReadFirst, Choose,
        Lock, Check, Load, Reply, Refuse, UnlockEarly, GrabTime1, Unlock, TickLock, TickLoad,
        TickUnlock
  <2>2. ~(Reply(t) /\ Agree(t))
    BY <1>5
    DEF IInv, TypeOK, Goto, Confirm, Leave, ReadFirst, Choose,
        Lock, Check, Load, Reply, Agree, Refuse, UnlockEarly, GrabTime1, Unlock, TickLock, TickLoad,
        TickUnlock
  <2>3. QED
    BY <1>3, <1>4, <2>1, <2>2
<1>6. CASE Reply(t) /\ Agree(t)
  <2>1. /\ next_available_time' = next_available_time /\ deliver' = deliver
        /\ Phase(t)' = Phase(t) /\ Todo(t)' = Todo(t)
        /\ answer'[t] = "Yes"
    BY <1>6 DEF IInv, TypeOK, Phase, Todo, Riding, Goto, Reply, Agree, Refuse, Mumble
  <2>2. \A p \in Persons : Agreed(p)' <=> p = deliver[t] \/ Agreed(p)
    BY <2>1, StepIsLocal DEF IInv, TypeOK, Agreed
  <2>3. strict' = [strict EXCEPT ![deliver[t]] = FALSE]
    BY <2>2
  <2>4. deliver[t] \in Persons /\ UNCHANGED <<next_available_time, phase, person, todo>>
    <3>1. Who(t)' = Who(t)
      BY <2>1
    <3>2. UNCHANGED <<phase, person, todo>>
      BY <1>2, <2>1, <3>1
    <3>3. QED
      BY <2>1, <3>2 DEF IInv, TypeOK
  <2>5. C!Stretch(deliver[t])
    BY <2>3, <2>4 DEF C!Stretch
  <2>6. QED
    BY <2>4, <2>5 DEF C!CNext
<1>7. CASE (Reply(t) /\ Mumble(t)) \/ Store(t)
  <2>1. /\ Phase(t) = "new" /\ Phase(t)' = "booked"
        /\ Todo(t)' = distance[t] /\ deliver' = deliver
        /\ distance[t] \in Distances /\ deliver[t] \in Persons
    BY <1>7
    DEF IInv, TypeOK, LabelInv, Phase, Todo, Riding, Goto, AfterCharge, Reply, Mumble, Refuse, Agree,
        Store, local
  <2>2. strict' = strict
    BY <1>3, <1>7 DEF IInv, TypeOK, Goto, Reply, Mumble, Agree, Refuse, Store
  <2>3. \/ /\ next_available_time' = next_available_time
           /\ Agreed(deliver[t]) \/ ~C!Fits(deliver[t], distance[t])
        \/ /\ \A q \in Persons \ {deliver[t]} : next_available_time'[q] = next_available_time[q]
           /\ \/ Agreed(deliver[t])
              \/ /\ next_available_time'[deliver[t]] = next_available_time[deliver[t]] + distance[t]
                 /\ C!Fits(deliver[t], distance[t])
    BY <1>7
    DEF IInv, TypeOK, TotalInv, Exceeds, Goto, Reply, Mumble, Refuse, Agree, Store, WriteTime, C!Fits
  <2>4. IF strict[deliver[t]] /\ ~C!Fits(deliver[t], distance[t])
        THEN C!Becomes(deliver[t], next_available_time[deliver[t]])
        ELSE C!Becomes(deliver[t], next_available_time[deliver[t]] + distance[t])
    BY <2>1, <2>3 DEF C!Becomes
  <2>5. C!Turn(t, "new", "booked")
    BY <1>2, <2>1 DEF C!Turn
  <2>6. C!Book(t)
    BY <1>2, <2>1, <2>2, <2>4, <2>5 DEF C!Book
  <2>7. QED
    BY <2>6 DEF C!CNext
<1>8. CASE StartRide(t)
  <2>1. /\ Phase(t) = "booked" /\ Phase(t)' = "riding" /\ Todo(t)' = Todo(t)
        /\ deliver' = deliver /\ next_available_time' = next_available_time
        /\ mutex_time[deliver[t]] = None /\ deliver[t] \in Persons
    BY <1>8 DEF IInv, TypeOK, Phase, Todo, Riding, Goto, StartRide, LockTime
  <2>2. C!Free(person[t])
    BY <2>1 DEF IInv, TimeInv, C!Free, Phase
  <2>3. strict' = strict
    BY <1>3, <1>8 DEF IInv, TypeOK, Goto, Reply, Agree, StartRide
  <2>4. C!Depart(t)
    BY <1>2, <2>1, <2>2, <2>3 DEF C!Depart, C!Turn
  <2>5. QED
    BY <2>4 DEF C!CNext
<1>9. CASE TickStore(t)
  <2>1. /\ Phase(t) = "riding" /\ Phase(t)' = "riding" /\ deliver' = deliver
        /\ Todo(t) > 0 /\ Todo(t)' = Todo(t) - 1 /\ deliver[t] \in Persons
    BY <1>9 DEF IInv, TypeOK, LabelInv, Phase, Todo, Riding, Goto, TickStore
  <2>2. C!Becomes(deliver[t], next_available_time[deliver[t]] - 1)
    BY <1>9 DEF IInv, TypeOK, TotalInv, Goto, TickStore, WriteTime, C!Becomes
  <2>3. strict' = strict
    BY <1>3, <1>9 DEF IInv, TypeOK, Goto, Reply, Agree, TickStore
  <2>4. UNCHANGED <<phase, person>> /\ person[t] = deliver[t]
    <3>1. Phase(t)' = Phase(t) /\ Who(t)' = Who(t) /\ Who(t) = deliver[t]
      BY <2>1
    <3>2. UNCHANGED <<phase, person>>
      BY <1>2, <3>1
    <3>3. QED
      BY <3>1, <3>2
  <2>5. todo[t] = Todo(t) /\ todo' = [todo EXCEPT ![t] = @ - 1]
    BY <1>2, <2>1
  <2>6. C!Second(t)
    BY <2>1, <2>2, <2>3, <2>4, <2>5 DEF C!Second
  <2>7. QED
    BY <2>6 DEF C!CNext
<1>10. CASE Arrive(t)
  <2>1. /\ Phase(t) = "riding" /\ Phase(t)' = "arrived" /\ deliver' = deliver
        /\ Todo(t) = 0 /\ Todo(t)' = 0 /\ next_available_time' = next_available_time
    BY <1>10 DEF IInv, TypeOK, Phase, Todo, Riding, RideOver, Goto, Arrive, local
  <2>2. strict' = strict
    BY <1>3, <1>10 DEF IInv, TypeOK, Goto, Reply, Agree, Arrive
  <2>3. C!Arrive(t)
    BY <1>2, <2>1, <2>2 DEF C!Arrive, C!Turn
  <2>4. QED
    BY <2>3 DEF C!CNext
<1>11. QED
  BY <1>5, <1>6, <1>7, <1>8, <1>9, <1>10 DEF Step, Reply

(* Four mutexes and a total read without them implement couriers whose       *)
(* bookings, rides and seconds each take effect at once: for any number of   *)
(* customers no charge and no second is lost on a person nobody agreed to    *)
(* wait for.                                                                 *)
THEOREM DispatchImplementsCouriers == Spec => RefinesCouriers
<1>1. IInv /\ [Next]_vars => [C!CNext]_C!couriers
  <2>1. ASSUME UNCHANGED vars  PROVE UNCHANGED C!couriers
    BY <2>1 DEF vars, C!couriers, Phase, Todo, Agreed
  <2>2. QED
    BY <2>1, StepRefines DEF Next, Idle
<1>2. Spec => C!CSpec
  BY <1>1, InitRefines, Invariance, PTL DEF Spec, C!CSpec
<1>3. QED
  BY <1>2 DEF RefinesCouriers

=============================================================================
