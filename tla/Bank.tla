-------------------------------- MODULE Bank --------------------------------
(***************************************************************************)
(* lab6/server.c: main accepts connections and starts a thread for each in *)
(* a slot of client_sockets, of which there are MAX_CLIENTS and none is    *)
(* used twice; a thread reads one request and applies it "times" times to  *)
(* account_balance, each time under the one mutex that main takes too.     *)
(* SIGINT, at any moment, runs handle_sigint on the main thread: it        *)
(* destroys the mutex and exits while the other threads go on.             *)
(*                                                                         *)
(* Reads and writes of account_balance are steps of their own.  The steps  *)
(* of handle_sigint that threads can tell apart are kept: its start, the   *)
(* end of the mutex, the exit.                                             *)
(***************************************************************************)
EXTENDS Integers, FiniteSets

CONSTANTS
  Clients,     \* connections that clients make
  MaxClients,  \* MAX_CLIENTS, 100 in the code
  Requests,    \* requests [op, amount, left], left being "times"
  IntMax,      \* the largest int
  Main,        \* the main thread
  None,        \* the holder of a free mutex
  Destroyed    \* stands for a destroyed mutex

Slots == 0 .. MaxClients - 1
IntRange == -IntMax - 1 .. IntMax
AnyRequest == [op : {"none", "deposit", "withdraw", "other"}, amount : IntRange, left : IntRange]

ASSUME BankAssumption ==
  /\ MaxClients \in Nat
  /\ IntMax \in Nat
  /\ Requests \subseteq {r \in AnyRequest : r.op # "none"}
  /\ {Main, None, Destroyed} \cap Slots = {}
  /\ Main # None /\ Main # Destroyed /\ None # Destroyed
  /\ None \notin Clients

VARIABLES
  account_balance,
  mutex,           \* its holder
  num_clients,
  client_sockets,  \* per slot: the client whose socket it holds
  main,            \* the next statement of main, or of handle_sigint
  accepted,        \* the client main accepted
  conn,            \* per client: what became of its connection
  pc,              \* per slot: the next statement of its thread
  client_socket,   \* per slot: the thread's own copy of the socket
  request,         \* per slot: operation, amount, and times - i
  reg,             \* per slot: account_balance as last read
  ledger,          \* history: what the deposits and withdrawals sum up to
  overflowed       \* history: an addition left the range of int

bank == <<account_balance, ledger, overflowed>>
listener == <<num_clients, client_sockets, accepted, conn>>
own == <<client_socket, request, reg>>
vars == <<account_balance, ledger, overflowed, mutex, num_clients, client_sockets,
          accepted, conn, main, pc, client_socket, request, reg>>

Handler == {"closing", "destroyed", "exited"}
MainLabels == {"accept", "lock", "admit", "unlock"} \cup Handler
Labels == {"unused", "start", "read", "top", "check", "load", "store", "unlock", "closed"}

(* What the account of the specification sees: a request has taken effect    *)
(* once more when its thread gets to the unlock.                             *)
Open == mutex # Destroyed

Todo == [s \in Slots |-> IF pc[s] = "unlock" THEN [request[s] EXCEPT !.left = @ - 1]
                                             ELSE request[s]]

A == INSTANCE Account WITH balance <- account_balance, todo <- Todo, open <- Open

Init ==
  /\ account_balance = 0 /\ ledger = 0 /\ overflowed = FALSE
  /\ mutex = None
  /\ num_clients = 0
  /\ client_sockets = [s \in Slots |-> None]
  /\ accepted = None
  /\ conn = [c \in Clients |-> "new"]
  /\ main = "accept"
  /\ pc = [s \in Slots |-> "unused"]
  /\ client_socket = [s \in Slots |-> None]
  /\ request = [s \in Slots |-> A!NoRequest]
  /\ reg = [s \in Slots |-> 0]

-----------------------------------------------------------------------------
(* pthread_mutex_lock and unlock; both fail with EINVAL, which nobody looks  *)
(* at, on a mutex that was destroyed.                                        *)
Lock_never(h) == UNCHANGED mutex

Lock(h) == IF mutex = Destroyed THEN UNCHANGED mutex ELSE mutex = None /\ mutex' = h

Unlock_never == UNCHANGED mutex

Unlock == mutex' = IF mutex = Destroyed THEN Destroyed ELSE None

(* main: accept, then the slot under the mutex. *)
MainGoto(a, b) == main = a /\ main' = b

Accept(c) ==
  /\ MainGoto("accept", "lock") /\ conn[c] = "new" /\ accepted' = c
  /\ UNCHANGED <<bank, mutex, num_clients, client_sockets, conn, pc, own>>

LockAdmit == MainGoto("lock", "admit") /\ Lock(Main) /\ UNCHANGED <<bank, listener, pc, own>>

SlotLeft == num_clients < MaxClients

NextSlot_same == num_clients

NextSlot == num_clients + 1

Admit(outcome) ==
  /\ MainGoto("admit", "unlock")
  /\ conn' = [conn EXCEPT ![accepted] = outcome]
  /\ UNCHANGED <<bank, mutex, accepted, own>>

UseSlot == client_sockets' = [client_sockets EXCEPT ![num_clients] = accepted]

Start ==
  /\ SlotLeft /\ UseSlot /\ Admit("handed")
  /\ pc' = [pc EXCEPT ![num_clients] = "start"]
  /\ num_clients' = NextSlot

(* pthread_create fails: the slot is taken by the next client, the socket of *)
(* this one stays open.                                                      *)
FailToStart == SlotLeft /\ UseSlot /\ Admit("leaked") /\ UNCHANGED <<num_clients, pc>>

Reject == ~SlotLeft /\ Admit("rejected") /\ UNCHANGED <<num_clients, client_sockets, pc>>

UnlockAdmit == MainGoto("unlock", "accept") /\ Unlock /\ UNCHANGED <<bank, listener, pc, own>>

(* handle_sigint; pthread_mutex_destroy does nothing to a mutex that         *)
(* somebody holds.                                                           *)
Interrupt ==
  /\ main \notin Handler /\ main' = "closing"
  /\ UNCHANGED <<bank, mutex, listener, pc, own>>

Destroy ==
  /\ MainGoto("closing", "destroyed")
  /\ mutex' = IF mutex = None THEN Destroyed ELSE mutex
  /\ UNCHANGED <<bank, listener, pc, own>>

Exit == MainGoto("destroyed", "exited") /\ UNCHANGED <<bank, mutex, listener, pc, own>>

-----------------------------------------------------------------------------
Goto(s, a, b) == main # "exited" /\ pc[s] = a /\ pc' = [pc EXCEPT ![s] = b] /\ UNCHANGED main

(* The thread copies its socket, then reads. *)
Begin(s) ==
  /\ Goto(s, "start", "read")
  /\ client_socket' = [client_socket EXCEPT ![s] = client_sockets[s]]
  /\ UNCHANGED <<bank, mutex, listener, request, reg>>

(* sscanf; a field that the request lacks is an uninitialised variable,      *)
(* which may hold what any other request says.                               *)
Receive(s) ==
  /\ Goto(s, "read", "top")
  /\ \E r \in Requests : request' = [request EXCEPT ![s] = r]
  /\ UNCHANGED <<bank, mutex, listener, client_socket, reg>>

(* All the times are done, or read gave nothing because the client, or       *)
(* handle_sigint, closed the socket.                                         *)
Close(s) ==
  /\ \/ Goto(s, "read", "closed")
     \/ Goto(s, "top", "closed") /\ request[s].left <= 0
  /\ conn' = [conn EXCEPT ![client_socket[s]] = "closed"]
  /\ UNCHANGED <<bank, mutex, num_clients, client_sockets, accepted, own>>

(* The lock, and the comparisons of the operation. *)
LockBalance(s) ==
  /\ request[s].left > 0 /\ Lock(s)
  /\ Goto(s, "top", CASE request[s].op = "deposit"  -> "load"
                      [] request[s].op = "withdraw" -> "check"
                      [] OTHER                      -> "unlock")
  /\ UNCHANGED <<bank, listener, own>>

Covers_always(s) == TRUE

Covers(s) == account_balance >= request[s].amount

Check(s) ==
  /\ Goto(s, "check", IF Covers(s) THEN "load" ELSE "unlock")
  /\ UNCHANGED <<bank, mutex, listener, own>>

(* account_balance += amount, or -= amount *)
Load(s) ==
  /\ Goto(s, "load", "store")
  /\ reg' = [reg EXCEPT ![s] = account_balance]
  /\ UNCHANGED <<bank, mutex, listener, client_socket, request>>

Change(s) == IF request[s].op = "deposit" THEN request[s].amount ELSE -request[s].amount

Store(s) ==
  /\ Goto(s, "store", "unlock")
  /\ account_balance' = A!Wrap(reg[s] + Change(s))
  /\ ledger' = ledger + Change(s)
  /\ overflowed' = (overflowed \/ account_balance' # reg[s] + Change(s))
  /\ UNCHANGED <<mutex, listener, own>>

UnlockBalance(s) ==
  /\ Goto(s, "unlock", "top") /\ Unlock
  /\ request' = [request EXCEPT ![s].left = @ - 1]
  /\ UNCHANGED <<bank, listener, client_socket, reg>>

-----------------------------------------------------------------------------
MainStep ==
  (\E c \in Clients : Accept(c))
    \/ LockAdmit \/ Start \/ FailToStart \/ Reject \/ UnlockAdmit

Sigint == Interrupt \/ Destroy \/ Exit

Thread(s) ==
  \/ Begin(s) \/ Receive(s) \/ Close(s) \/ LockBalance(s) \/ Check(s)
  \/ Load(s) \/ Store(s) \/ UnlockBalance(s)

Next == MainStep \/ Sigint \/ \E s \in Slots : Thread(s)

Spec == Init /\ [][Next]_vars

(* The kernel runs every thread that can run; a client sends its request or  *)
(* closes right after connecting, and handle_sigint runs to its end.  SIGINT *)
(* itself need not come.                                                     *)
FairSpec ==
  /\ Spec
  /\ WF_vars(MainStep) /\ WF_vars(Destroy \/ Exit)
  /\ \A s \in Slots : WF_vars(Thread(s))

-----------------------------------------------------------------------------
(* Every variable stays in its range: the balance in that of an int, and the *)
(* clients started within the slots there are.                               *)
TypeOK ==
  /\ account_balance \in IntRange
  /\ ledger \in Int
  /\ overflowed \in BOOLEAN
  /\ mutex \in Slots \cup {Main, None, Destroyed}
  /\ num_clients \in 0 .. MaxClients
  /\ client_sockets \in [Slots -> Clients \cup {None}]
  /\ accepted \in Clients \cup {None}
  /\ conn \in [Clients -> {"new", "handed", "leaked", "rejected", "closed"}]
  /\ main \in MainLabels
  /\ pc \in [Slots -> Labels]
  /\ client_socket \in [Slots -> Clients \cup {None}]
  /\ request \in [Slots -> AnyRequest]
  /\ reg \in [Slots -> IntRange]

(* While the mutex exists and no int overflowed, the balance is what the     *)
(* deposits and withdrawals sum up to: those of concurrent clients are never *)
(* lost or counted twice.                                                    *)
NothingLost == Open /\ ~overflowed => account_balance = ledger

(* Nor is it ever negative, if no client deposits a negative amount (which   *)
(* the server lets through): the balance that a withdrawal was checked       *)
(* against is the one it is taken from.                                      *)
NeverOverdrawn ==
  /\ Open /\ ~overflowed
  /\ \A s \in Slots : request[s].op = "deposit" => request[s].amount >= 0
  => account_balance >= 0

Started(s) == pc[s] # "unused"

Socket(s) == IF pc[s] = "start" THEN client_sockets[s] ELSE client_socket[s]

(* The slot a thread reads its socket from, after main went on to the next   *)
(* client, is its own: no two threads serve one client, and none serves a    *)
(* client that was rejected or whose thread could not be created.            *)
SocketIsOwn ==
  \A s \in Slots : Started(s) =>
    /\ conn[Socket(s)] \in {"handed", "closed"}
    /\ \A u \in Slots : Started(u) /\ Socket(u) = Socket(s) => u = s

(* The detailed server implements the account. *)
RefinesAccount == A!ASpec

(* If SIGINT does not come, every client is served and hung up on, rejected, *)
(* or forgotten because its thread could not be created.                     *)
EveryClientEnds ==
  [](main \notin Handler) =>
    \A c \in Clients : <>(conn[c] \in {"closed", "rejected", "leaked"})

-----------------------------------------------------------------------------
(* What the documentation says, without the provisos above. *)

(* server.c:24, "wait for thread to complete": the server exits when no      *)
(* thread is in the middle of a request.                                     *)
ShutdownWaits ==
  main = "exited" => \A s \in Slots : pc[s] \in {"unused", "closed"}

(* server.c:126, "Maximum clients reached": who is rejected finds MaxClients *)
(* clients being served.                                                     *)
RejectedOnlyWhenFull ==
  [][Reject => Cardinality({s \in Slots : Started(s) /\ pc[s] # "closed"}) = MaxClients]_vars

(* lab6/Readme.md:3, "the server must be able to correctly handle the race   *)
(* condition problem": nothing is lost, during the shutdown either.          *)
NothingEverLost == ~overflowed => account_balance = ledger

=============================================================================
