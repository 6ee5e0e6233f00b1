----------------------------- MODULE Bank_proofs -----------------------------
(***************************************************************************)
(* Proofs about Bank for every number of clients, slots and requests and   *)
(* every width of int: the safety invariants that MCBank checks, and that  *)
(* the server implements Account.                                          *)
(*                                                                         *)
(* IInv adds to the invariants who holds the mutex, what the thread that   *)
(* holds it knows of the balance, and what the slots hold.                 *)
(***************************************************************************)
EXTENDS Bank, TLAPS

Inside == {"check", "load", "store", "unlock"}

(* The mutex is held by the thread in its section, or by main in its own; it *)
(* is destroyed by the handler only.                                         *)
MutexInv ==
  /\ \A s \in Slots : pc[s] \in Inside => ~Open \/ mutex = s
  /\ main \in {"admit", "unlock"} => mutex = Main
  /\ ~Open => main \in {"destroyed", "exited"}

(* What a label says of the request of its thread. *)
RequestInv ==
  \A s \in Slots :
    /\ pc[s] \in {"unused", "start", "read"} => request[s] = A!NoRequest
    /\ pc[s] \in Inside => request[s].left > 0
    /\ pc[s] = "check" => request[s].op = "withdraw"
    /\ pc[s] \in {"load", "store"} => request[s].op \in {"deposit", "withdraw"}

(* What the thread in its section knows of the balance is still so. *)
BalanceInv ==
  \A s \in Slots : Open =>
    /\ pc[s] = "store" => reg[s] = account_balance
    /\ pc[s] \in {"load", "store"} /\ request[s].op = "withdraw" => Covers(s)

(* The slots from num_clients on are unused, and the client that main is     *)
(* about to admit has no thread yet.                                         *)
SlotInv ==
  /\ \A s \in Slots : Started(s) <=> s < num_clients
  /\ \A s \in Slots : Started(s) => Socket(s) \in Clients
  /\ main \in {"lock", "admit"} => accepted \in Clients /\ conn[accepted] = "new"
  /\ SocketIsOwn

IInv == TypeOK /\ MutexInv /\ RequestInv /\ BalanceInv /\ NothingLost /\ NeverOverdrawn
        /\ SlotInv


-----------------------------------------------------------------------------
LEMMA InitIInv == Init => IInv
<1> SUFFICES ASSUME Init PROVE IInv
  OBVIOUS
<1> USE DEF Init
<1>1. TypeOK
  <2>1. 0 \in IntRange /\ 0 \in 0 .. MaxClients
    BY BankAssumption DEF IntRange
  <2>2. A!NoRequest \in AnyRequest
    BY <2>1 DEF A!NoRequest, AnyRequest
  <2>3. request \in [Slots -> AnyRequest] /\ reg \in [Slots -> IntRange]
    BY <2>1, <2>2
  <2>4. /\ mutex \in Slots \cup {Main, None, Destroyed}
        /\ client_sockets \in [Slots -> Clients \cup {None}]
        /\ client_socket \in [Slots -> Clients \cup {None}]
        /\ conn \in [Clients -> {"new", "handed", "leaked", "rejected", "closed"}]
        /\ main \in MainLabels
        /\ pc \in [Slots -> Labels]
    BY DEF MainLabels, Labels
  <2>5. account_balance = 0 /\ ledger = 0 /\ num_clients = 0 /\ accepted = None
    OBVIOUS
  <2>6. overflowed \in BOOLEAN
    OBVIOUS
  <2> HIDE DEF Init
  <2>7. QED
    BY <2>1, <2>3, <2>4, <2>5, <2>6 DEF TypeOK
<1>2. MutexInv /\ RequestInv /\ BalanceInv /\ NothingLost /\ NeverOverdrawn
  BY BankAssumption DEF MutexInv, RequestInv, BalanceInv, NothingLost, NeverOverdrawn, Inside, Open
<1>3. SlotInv
  BY BankAssumption DEF SlotInv, SocketIsOwn, Started, Slots
<1>4. QED
  BY <1>1, <1>2, <1>3 DEF IInv

(* The sum of a balance and an amount, wrapped, is an int again. *)
LEMMA WrapInRange ==
  ASSUME TypeOK, NEW s \in Slots
  PROVE  A!Wrap(reg[s] + Change(s)) \in IntRange
<1>1. reg[s] \in IntRange /\ request[s].amount \in IntRange
  BY DEF TypeOK, AnyRequest
<1>2. IntMax \in Nat
  BY BankAssumption
<1>3. QED
  BY <1>1, <1>2 DEF Change, A!Wrap, IntRange

LEMMA TypeStep ==
  ASSUME TypeOK, RequestInv, [Next]_vars
  PROVE  TypeOK'
<1> USE DEF TypeOK, bank, listener, own, MainGoto
<1>1. CASE \E c \in Clients : Accept(c)
  BY <1>1 DEF Accept, MainGoto, MainLabels
<1>2. CASE LockAdmit \/ UnlockAdmit
  BY <1>2 DEF LockAdmit, UnlockAdmit, Lock, Unlock, MainLabels
<1>3. CASE Start
  <2>1. num_clients + 1 \in 0 .. MaxClients
    BY <1>3, BankAssumption DEF Start, Admit, UseSlot, SlotLeft, NextSlot
  <2>2. QED
    BY <1>3, <2>1 DEF Start, Admit, UseSlot, SlotLeft, NextSlot, MainLabels, Labels
<1>4. CASE FailToStart \/ Reject
  BY <1>4 DEF FailToStart, Reject, Admit, UseSlot, MainLabels
<1>5. CASE Sigint
  BY <1>5 DEF Sigint, Interrupt, Destroy, Exit, MainLabels, Handler
<1>6. ASSUME NEW s \in Slots, Thread(s)
      PROVE  TypeOK'
  <2> USE DEF Goto, Labels
  <2>1. CASE Begin(s) \/ Close(s) \/ Check(s)
    BY <2>1 DEF Begin, Close, Check
  <2>2. CASE Receive(s)
    BY <2>2, BankAssumption DEF Receive
  <2>3. CASE LockBalance(s)
    BY <2>3 DEF LockBalance, Lock
  <2>4. CASE Load(s)
    BY <2>4 DEF Load
  <2>5. CASE Store(s)
    <3>1. ledger + Change(s) \in Int
      BY BankAssumption DEF Change, IntRange, AnyRequest
    <3>2. QED
      BY <2>5, <3>1, WrapInRange DEF Store
  <2>6. CASE UnlockBalance(s)
    <3>1. request[s].left - 1 \in IntRange
      BY <2>6, BankAssumption DEF UnlockBalance, RequestInv, Inside, AnyRequest, IntRange
    <3>2. request' \in [Slots -> AnyRequest]
      BY <2>6, <3>1 DEF UnlockBalance, AnyRequest
    <3>3. QED
      BY <2>6, <3>2 DEF UnlockBalance, Unlock
  <2>7. QED
    BY <1>6, <2>1, <2>2, <2>3, <2>4, <2>5, <2>6 DEF Thread
<1>7. CASE UNCHANGED vars
  BY <1>7 DEF vars
<1>8. QED
  BY <1>1, <1>2, <1>3, <1>4, <1>5, <1>6, <1>7 DEF Next, MainStep

LEMMA MutexStep ==
  ASSUME TypeOK, MutexInv, [Next]_vars
  PROVE  MutexInv'
<1> USE BankAssumption DEF TypeOK, MutexInv, Open, bank, listener, own, MainGoto, Inside
<1>1. CASE MainStep
  BY <1>1
  DEF MainStep, Accept, LockAdmit, Start, Admit, UseSlot, FailToStart, Reject, UnlockAdmit, Lock, Unlock
<1>2. CASE Sigint
  BY <1>2 DEF Sigint, Interrupt, Destroy, Exit, Handler
<1>3. ASSUME NEW s \in Slots, Thread(s)
      PROVE  MutexInv'
  BY <1>3
  DEF Thread, Begin, Receive, Close, LockBalance, Check, Load, Store,
      UnlockBalance, Goto, Lock, Unlock
<1>4. CASE UNCHANGED vars
  BY <1>4 DEF vars
<1>5. QED
  BY <1>1, <1>2, <1>3, <1>4 DEF Next

LEMMA RequestStep ==
  ASSUME TypeOK, RequestInv, SlotInv, [Next]_vars
  PROVE  RequestInv'
<1> USE BankAssumption DEF TypeOK, RequestInv, bank, listener, own, MainGoto, Inside
<1>1. CASE MainStep
  <2>1. CASE Start
    <3>1. num_clients \in Slots /\ pc[num_clients] = "unused"
      BY <2>1 DEF Start, Admit, UseSlot, SlotLeft, NextSlot, SlotInv, Started, Slots
    <3>2. QED
      BY <2>1, <3>1 DEF Start, Admit, UseSlot, SlotLeft, NextSlot
  <2>2. QED
    BY <1>1, <2>1
    DEF MainStep, Accept, LockAdmit, Admit, UseSlot, FailToStart, Reject, UnlockAdmit
<1>2. CASE Sigint
  BY <1>2 DEF Sigint, Interrupt, Destroy, Exit
<1>3. ASSUME NEW s \in Slots, Thread(s)
      PROVE  RequestInv'
  BY <1>3
  DEF Thread, Begin, Receive, Close, LockBalance, Check, Load, Store,
      UnlockBalance, Goto, AnyRequest
<1>4. CASE UNCHANGED vars
  BY <1>4 DEF vars
<1>5. QED
  BY <1>1, <1>2, <1>3, <1>4 DEF Next

LEMMA SlotStep ==
  ASSUME TypeOK, SlotInv, [Next]_vars
  PROVE  SlotInv'
<1> USE BankAssumption DEF TypeOK, SlotInv, SocketIsOwn, Started, Socket, bank, listener, own, MainGoto
<1>1. CASE \E c \in Clients : Accept(c)
  BY <1>1 DEF Accept
<1>2. CASE LockAdmit \/ UnlockAdmit \/ Sigint
  BY <1>2 DEF LockAdmit, UnlockAdmit, Sigint, Interrupt, Destroy, Exit
<1>3. CASE Start
  <2>1. PICK n \in Slots : n = num_clients /\ pc[n] = "unused"
    BY <1>3 DEF Start, Admit, UseSlot, SlotLeft, NextSlot, Slots
  <2>2. \A s \in Slots : Started(s)' <=> s = n \/ Started(s)
    BY <1>3, <2>1 DEF Start, Admit, UseSlot, SlotLeft, NextSlot
  <2>3. \A s \in Slots : Started(s) => s # n /\ Socket(s)' = Socket(s)
    BY <1>3, <2>1 DEF Start, Admit, UseSlot, SlotLeft, NextSlot
  <2>4. /\ Socket(n)' = accepted
        /\ accepted \in Clients /\ conn[accepted] = "new"
        /\ conn' = [conn EXCEPT ![accepted] = "handed"]
    BY <1>3, <2>1 DEF Start, Admit, UseSlot, SlotLeft, NextSlot
  <2>5. SocketIsOwn'
    <3> HIDE DEF Started, Socket
    <3>1. QED  BY <2>2, <2>3, <2>4
  <2>6. (\A s \in Slots : Started(s) <=> s < num_clients)'
    BY <1>3, <2>1, <2>2 DEF Start, Admit, UseSlot, SlotLeft, NextSlot, Slots
  <2>7. QED
    BY <1>3, <2>2, <2>3, <2>4, <2>5, <2>6 DEF Start, Admit, UseSlot, SlotLeft, NextSlot
<1>4. CASE FailToStart \/ Reject
  <2>1. \A s \in Slots : Started(s) => client_sockets'[s] = client_sockets[s]
    BY <1>4 DEF FailToStart, Reject, UseSlot
  <2>2. /\ accepted \in Clients /\ conn[accepted] = "new"
        /\ \A c \in Clients \ {accepted} : conn'[c] = conn[c]
    BY <1>4 DEF FailToStart, Reject, Admit
  <2>3. \A s \in Slots : Started(s) => Socket(s)' = Socket(s) /\ Socket(s) # accepted
    BY <1>4, <2>1, <2>2 DEF FailToStart, Reject, Admit
  <2>4. UNCHANGED <<num_clients, pc>> /\ main' = "unlock"
    BY <1>4 DEF FailToStart, Reject, Admit
  <2>5. QED
    BY <2>2, <2>3, <2>4
<1>5. ASSUME NEW s \in Slots, Thread(s)
      PROVE  SlotInv'
  BY <1>5
  DEF Thread, Begin, Receive, Close, LockBalance, Check, Load, Store,
      UnlockBalance, Goto
<1>6. CASE UNCHANGED vars
  BY <1>6 DEF vars
<1>7. QED
  BY <1>1, <1>2, <1>3, <1>4, <1>5, <1>6 DEF Next, MainStep

(* While the mutex exists, a thread in its section is alone there. *)
LEMMA Alone ==
  ASSUME MutexInv, Open, NEW s \in Slots, NEW u \in Slots, pc[s] \in Inside, pc[u] \in Inside
  PROVE  s = u
  BY DEF MutexInv

(* A mutex that was destroyed stays so. *)
LEMMA OpenIsFinal == [Next]_vars /\ Open' => Open
  BY BankAssumption
  DEF Next, MainStep, Sigint, Thread, Accept, LockAdmit, Start, Admit, UseSlot, FailToStart, Reject,
      UnlockAdmit, Interrupt, Destroy, Exit, Begin, Receive, Close,
      LockBalance, Check, Load, Store, UnlockBalance, Lock, Unlock, vars, MainGoto, Goto, bank, listener, own,
      Open

(* What the invariants say of the balance, with the requests as they are. *)
LEMMA BalanceStep ==
  ASSUME TypeOK, MutexInv, RequestInv, BalanceInv, NothingLost, NeverOverdrawn, [Next]_vars
  PROVE  BalanceInv' /\ NothingLost' /\ NeverOverdrawn'
<1> USE DEF TypeOK, bank, listener, own, MainGoto
<1> SUFFICES ASSUME Open'
             PROVE  BalanceInv' /\ NothingLost' /\ NeverOverdrawn'
  BY DEF BalanceInv, NothingLost, NeverOverdrawn
<1>1. Open
  BY OpenIsFinal
<1>2. CASE MainStep \/ Sigint
  <2>1. UNCHANGED <<bank, request, reg>> /\ \A s \in Slots : pc'[s] = pc[s] \/ pc'[s] = "start"
    BY <1>2
    DEF MainStep, Sigint, Accept, LockAdmit, Start, Admit, UseSlot, FailToStart, Reject, UnlockAdmit,
        Interrupt, Destroy, Exit
  <2>2. QED
    BY <1>1, <2>1 DEF BalanceInv, NothingLost, NeverOverdrawn, Covers
<1>3. ASSUME NEW s \in Slots, Thread(s)
      PROVE  BalanceInv' /\ NothingLost' /\ NeverOverdrawn'
  <2>1. \A u \in Slots \ {s} : pc'[u] = pc[u] /\ request'[u] = request[u] /\ reg'[u] = reg[u]
    BY <1>3
    DEF Thread, Begin, Receive, Close, LockBalance, Check, Load, Store,
        UnlockBalance, Goto
  <2>2. CASE Receive(s)
    <3>1. pc[s] = "read" /\ pc'[s] = "top" /\ UNCHANGED <<bank, reg>>
      BY <2>2 DEF Receive, Goto
    <3>2. request[s].op # "deposit"
      BY <3>1 DEF RequestInv, A!NoRequest
    <3>3. QED
      BY <1>1, <2>1, <3>1, <3>2 DEF BalanceInv, NothingLost, NeverOverdrawn, Covers
  <2>3. CASE Store(s)
    <3>1. reg[s] = account_balance /\ pc[s] = "store" /\ pc'[s] = "unlock"
      BY <1>1, <2>3 DEF BalanceInv, Store, Goto
    <3>2. \A u \in Slots : pc'[u] \notin {"load", "store"}
      BY <1>1, <2>1, <3>1, Alone DEF Inside
    <3>3. NothingLost'
      BY <1>1, <2>3, <3>1 DEF Store, NothingLost, IntRange
    <3>4. ~overflowed' => account_balance' = account_balance + Change(s)
      BY <2>3, <3>1 DEF Store
    <3>5. request[s].op = "withdraw" => Change(s) = -request[s].amount
      BY DEF Change
    <3>6. NeverOverdrawn'
      BY <1>1, <2>3, <3>1, <3>4 DEF NeverOverdrawn, BalanceInv, RequestInv, Change, Covers, Store,
         IntRange, AnyRequest
    <3>7. QED
      BY <3>2, <3>3, <3>6 DEF BalanceInv
  <2>4. CASE UnlockBalance(s)
    <3>1. UNCHANGED <<bank, reg>> /\ pc'[s] = "top" /\ request'[s].op = request[s].op
            /\ request'[s].amount = request[s].amount
      BY <2>4 DEF UnlockBalance, Goto, AnyRequest
    <3>2. QED
      BY <1>1, <2>1, <3>1 DEF BalanceInv, NothingLost, NeverOverdrawn, Covers
  <2>5. CASE Check(s) \/ Load(s)
    BY <1>1, <2>1, <2>5
    DEF BalanceInv, NothingLost, NeverOverdrawn, Covers, Check, Load, Goto
  <2>6. CASE Begin(s) \/ Close(s) \/ LockBalance(s)
    BY <1>1, <2>1, <2>6
    DEF BalanceInv, NothingLost, NeverOverdrawn, Covers, Begin, Close,
        LockBalance, Goto
  <2>7. QED
    BY <1>3, <2>2, <2>3, <2>4, <2>5, <2>6 DEF Thread
<1>4. CASE UNCHANGED vars
  BY <1>1, <1>4 DEF BalanceInv, NothingLost, NeverOverdrawn, Covers, vars
<1>5. QED
  BY <1>2, <1>3, <1>4 DEF Next

-----------------------------------------------------------------------------
LEMMA NextIInv == IInv /\ [Next]_vars => IInv'
  BY TypeStep, MutexStep, RequestStep, SlotStep, BalanceStep DEF IInv

LEMMA Invariance == Spec => []IInv
  BY InitIInv, NextIInv, PTL DEF Spec

(* Every variable stays in its range; the balance in that of an int. *)
THEOREM TypeCorrect == Spec => []TypeOK
<1>1. IInv => TypeOK
  BY DEF IInv
<1>2. QED
  BY <1>1, Invariance, PTL

(* The balance is what the deposits and withdrawals of all the threads sum   *)
(* up to, as long as the mutex exists and int suffices.                      *)
THEOREM NoMoneyIsLost == Spec => []NothingLost
<1>1. IInv => NothingLost
  BY DEF IInv
<1>2. QED
  BY <1>1, Invariance, PTL

(* The balance is never negative, under the same provisos and if deposits    *)
(* are not.                                                                  *)
THEOREM AccountIsNotOverdrawn == Spec => []NeverOverdrawn
<1>1. IInv => NeverOverdrawn
  BY DEF IInv
<1>2. QED
  BY <1>1, Invariance, PTL

(* Every thread serves a client of its own, through slots that main reuses   *)
(* only when no thread was created.                                          *)
THEOREM EveryThreadHasItsClient == Spec => []SocketIsOwn
<1>1. IInv => SocketIsOwn
  BY DEF IInv, SlotInv
<1>2. QED
  BY <1>1, Invariance, PTL

-----------------------------------------------------------------------------
LEMMA InitRefines == Init => A!AInit
  BY BankAssumption DEF Init, A!AInit, Todo, Open

(* Receive is Ask; the last access of an iteration to the balance, which is  *)
(* the comparison when a withdrawal fails, is Apply; every other step        *)
(* leaves the account alone.                                                 *)
LEMMA StepRefines ==
  ASSUME IInv, [Next]_vars
  PROVE  [A!ANext]_(A!account)
<1> USE DEF IInv, TypeOK, bank, listener, own, MainGoto
<1>1. CASE ~Open
  <2>1. ~Open'
    BY <1>1, OpenIsFinal DEF Open
  <2>2. QED
    BY <1>1, <2>1 DEF A!ANext, A!ShuttingDown
<1>2. ASSUME Open, MainStep \/ Interrupt \/ Exit
      PROVE  UNCHANGED A!account
  <2>1. UNCHANGED <<account_balance, request>>
        /\ \A s \in Slots : pc'[s] = pc[s] \/ (pc[s] = "unused" /\ pc'[s] = "start")
    BY <1>2 DEF MainStep, Accept, LockAdmit, Start, Admit, UseSlot, FailToStart, Reject, UnlockAdmit,
        Interrupt, Exit, SlotInv, Started
  <2>2. Todo' = Todo
    BY <2>1 DEF Todo
  <2>3. Open'
    BY <1>2, BankAssumption
    DEF MainStep, Accept, LockAdmit, Start, Admit, UseSlot, FailToStart, Reject, UnlockAdmit,
        Interrupt, Exit, Open, Lock, Unlock
  <2>4. QED
    BY <1>2, <2>1, <2>2, <2>3 DEF A!account
<1>3. ASSUME Open, Destroy
      PROVE  [A!ANext]_(A!account)
  <2>1. UNCHANGED <<account_balance, Todo>>
    BY <1>3 DEF Destroy, Todo
  <2>2. CASE Open'
    BY <1>3, <2>1, <2>2 DEF A!account, Open
  <2>3. CASE ~Open'
    BY <1>3, <2>1, <2>3 DEF A!ANext, A!Close, Open
  <2>4. QED
    BY <2>2, <2>3
<1>4. ASSUME Open, NEW s \in Slots, Thread(s)
      PROVE  [A!ANext]_(A!account)
  <2>1. Open'
    BY <1>4, BankAssumption
    DEF Thread, Begin, Receive, Close, LockBalance, Check, Load, Store,
        UnlockBalance, Lock, Unlock, Open
  <2>2. CASE Receive(s)
    <3>1. Todo[s] = A!NoRequest
      BY <2>2 DEF Receive, Goto, Todo, RequestInv
    <3>2. PICK r \in Requests : request' = [request EXCEPT ![s] = r]
      BY <2>2 DEF Receive
    <3>3. Todo' = [Todo EXCEPT ![s] = r]
      BY <2>2, <3>2 DEF Receive, Goto, Todo
    <3>4. A!Ask(s)
      BY <1>4, <2>1, <2>2, <3>1, <3>3 DEF Receive, A!Ask
    <3>5. QED
      BY <3>4 DEF A!ANext
  <2>3. ASSUME pc[s] # "unlock", pc'[s] = "unlock", request[s].left > 0,
               pc' = [pc EXCEPT ![s] = "unlock"], request' = request,
               account_balance' = A!Effect(account_balance, request[s])
        PROVE  A!Apply(s)
    <3>1. Todo[s] = request[s] /\ request[s].left > 0
      BY <2>3 DEF Todo
    <3>2. Todo' = [Todo EXCEPT ![s] = [request[s] EXCEPT !.left = @ - 1]]
      BY <2>3 DEF Todo
    <3>3. Todo' = [Todo EXCEPT ![s].left = @ - 1]
      BY <3>1, <3>2
    <3>4. QED
      BY <1>4, <2>1, <2>3, <3>1, <3>3 DEF A!Apply
  <2>4. CASE LockBalance(s) /\ pc'[s] = "unlock"
    <3>1. request[s].op \notin {"deposit", "withdraw"}
      BY <2>4 DEF LockBalance, Goto
    <3>2. A!Apply(s)
      BY <2>3, <2>4, <3>1 DEF LockBalance, Goto, A!Effect
    <3>3. QED
      BY <3>2 DEF A!ANext
  <2>5. CASE Check(s) /\ pc'[s] = "unlock"
    <3>1. request[s].op = "withdraw" /\ ~(account_balance >= request[s].amount)
      BY <2>5 DEF Check, Goto, Covers, RequestInv
    <3>2. A!Apply(s)
      BY <2>3, <2>5, <3>1 DEF Check, Goto, RequestInv, Inside, A!Effect
    <3>3. QED
      BY <3>2 DEF A!ANext
  <2>6. CASE Store(s)
    <3>1. reg[s] = account_balance /\ request[s].op \in {"deposit", "withdraw"}
            /\ (request[s].op = "withdraw" => account_balance >= request[s].amount)
      BY <1>4, <2>6 DEF Store, Goto, BalanceInv, RequestInv, Covers
    <3>2. account_balance' = A!Effect(account_balance, request[s])
      BY <2>6, <3>1, BankAssumption DEF Store, Change, A!Effect, IntRange, AnyRequest
    <3>3. A!Apply(s)
      BY <2>3, <2>6, <3>2 DEF Store, Goto, RequestInv, Inside
    <3>4. QED
      BY <3>3 DEF A!ANext
  <2>7. CASE UnlockBalance(s)
    <3>1. Todo' = Todo
      BY <2>7 DEF UnlockBalance, Goto, Todo
    <3>2. QED
      BY <1>4, <2>1, <2>7, <3>1 DEF UnlockBalance, A!account
  <2>8. CASE \/ Begin(s) \/ Close(s) \/ Load(s)
             \/ ((LockBalance(s) \/ Check(s)) /\ pc'[s] # "unlock")
    <3>1. UNCHANGED <<account_balance, request>> /\ pc[s] # "unlock" /\ pc'[s] # "unlock"
            /\ \A u \in Slots \ {s} : pc'[u] = pc[u]
      BY <2>8
      DEF Begin, Close, LockBalance, Load, Check, Goto
    <3>2. Todo' = Todo
      BY <3>1 DEF Todo
    <3>3. QED
      BY <1>4, <2>1, <3>1, <3>2 DEF A!account
  <2>9. QED
    BY <1>4, <2>2, <2>4, <2>5, <2>6, <2>7, <2>8 DEF Thread
<1>5. CASE UNCHANGED vars
  BY <1>5 DEF vars, A!account, Todo, Open
<1>6. QED
  BY <1>1, <1>2, <1>3, <1>4, <1>5 DEF Next, Sigint

(* The server, with its threads, its mutex and its shutdown, implements the  *)
(* account on which every deposit and withdrawal takes effect at once.       *)
THEOREM ServerImplementsAccount == Spec => RefinesAccount
<1>1. Spec => A!ASpec
  BY InitRefines, StepRefines, Invariance, PTL DEF Spec, A!ASpec
<1>2. QED
  BY <1>1 DEF RefinesAccount

=============================================================================
