------------------------------ MODULE Account -------------------------------
(***************************************************************************)
(* What lab6's server promises of its one account: every accepted request  *)
(* is "times" deposits or withdrawals, and each of them takes effect at    *)
(* once, on the balance that the one before it left.  Nothing is promised  *)
(* once the server is shutting down.                                       *)
(***************************************************************************)
EXTENDS Integers

CONSTANTS
  Slots,     \* the threads that may serve a client
  Requests,  \* the requests: records [op, amount, left]
  IntMax     \* the largest int

VARIABLES
  balance,   \* account_balance
  todo,      \* per slot: the request with the number of times left to apply
  open       \* the server is not shutting down

account == <<balance, todo, open>>

NoRequest == [op |-> "none", amount |-> 0, left |-> 0]

(* 32-bit addition as the processor does it, for a sum of two ints. *)
Wrap(x) ==
  IF x > IntMax THEN x - 2 * (IntMax + 1)
  ELSE IF x < -IntMax - 1 THEN x + 2 * (IntMax + 1)
  ELSE x

Effect(b, r) ==
  IF r.op = "deposit" THEN Wrap(b + r.amount)
  ELSE IF r.op = "withdraw" /\ b >= r.amount THEN Wrap(b - r.amount)
  ELSE b

AInit == balance = 0 /\ todo = [s \in Slots |-> NoRequest] /\ open = TRUE

Ask(s) ==
  /\ todo[s] = NoRequest
  /\ \E r \in Requests : todo' = [todo EXCEPT ![s] = r]
  /\ UNCHANGED <<balance, open>>

Apply(s) ==
  /\ open
  /\ todo[s].left > 0
  /\ balance' = Effect(balance, todo[s])
  /\ todo' = [todo EXCEPT ![s].left = @ - 1]
  /\ UNCHANGED open

Close == open /\ open' = FALSE /\ UNCHANGED <<balance, todo>>

ShuttingDown == ~open /\ ~open'

ANext == (\E s \in Slots : Ask(s) \/ Apply(s)) \/ Close \/ ShuttingDown

ASpec == AInit /\ [][ANext]_account
=============================================================================
