---------------------------- MODULE HelloServer -----------------------------
(***************************************************************************)
(* hw2/server.c: a server that accepts one customer, waits for a message   *)
(* of his, says hello, closes, and accepts the next.  Who works in lock-   *)
(* step waits for the server to speak first (Customer).                    *)
(***************************************************************************)
EXTENDS Customer

VARIABLES
  at,      \* the next statement of the loop of main
  connfd,  \* the customer being served
  queue    \* the connections that wait for accept

loop  == <<at, connfd, queue>>
hello == <<customer, loop>>

HelloInit == CInit /\ at = "accept" /\ connfd = None /\ queue = << >>

(* The kernel completes the connection long before accept. *)
Connect(c) ==
  /\ Connected(c) /\ queue' = Append(queue, c)
  /\ UNCHANGED <<wires, seen, joined, at, connfd>>

At(a, b) == at = a /\ at' = b

HelloAccept ==
  /\ At("accept", "read") /\ queue # << >>
  /\ connfd' = Head(queue) /\ queue' = Tail(queue) /\ UNCHANGED customer

HasRead_anyway == TRUE

HasRead == toServer[connfd] # << >> \/ Gone(connfd)

(* read gets all that has been typed so far, or the end of the connection.   *)
Read ==
  /\ At("read", "send") /\ HasRead
  /\ toServer' = [toServer EXCEPT ![connfd] = << >>]
  /\ UNCHANGED <<up, toClient, over, reset, user, connfd, queue>>

(* The first message on this connection: no RST can have come before it, so  *)
(* there is no SIGPIPE.                                                       *)
SendHello ==
  /\ At("send", "close") /\ Send(connfd, "hello")
  /\ UNCHANGED <<up, toServer, over, user, connfd, queue>>

Served_stillOpen == UNCHANGED over

Served == over' = [over EXCEPT ![connfd] = TRUE]

CloseConnection ==
  /\ At("close", "accept") /\ Served
  /\ UNCHANGED <<up, toServer, toClient, reset, user, connfd, queue>>

Main == HelloAccept \/ Read \/ SendHello \/ CloseConnection

HelloNext ==
  \/ Main
  \/ \E c \in Customers : Connect(c) \/ ((Program(c) \/ User(c)) /\ UNCHANGED loop)

HelloSpec == HelloInit /\ [][HelloNext]_hello

(* The server's process runs. *)
HelloFairSpec == HelloSpec /\ WF_hello(Main)

-----------------------------------------------------------------------------
(* Every variable stays in its range; a queued customer has connected. *)
HelloTypeOK ==
  /\ prog \in [Customers -> {"new", "free", "read", "again", "type", "gone"}]
  /\ toServer \in [Customers -> Seq(Commands)] /\ toClient \in [Customers -> Seq(Message)]
  /\ over \in [Customers -> BOOLEAN] /\ reset \in [Customers -> BOOLEAN] /\ up \in BOOLEAN
  /\ seen \in [Customers -> Message \cup {None}] /\ joined \in [Customers -> BOOLEAN]
  /\ at \in {"accept", "read", "send", "close"} /\ connfd \in Customers \cup {None}
  /\ queue \in Seq({c \in Customers : prog[c] # "new"})

(* A customer with client.c and the server wait for each other: once         *)
(* accepted he holds the server until he gives up, and whoever is behind him *)
(* in the queue waits as long.                                               *)
LockStepHoldsServer ==
  [][at = "read" /\ connfd \notin Free /\ at' # "read" => Gone(connfd)]_hello

Blocked == at = "read" /\ toServer[connfd] = << >> /\ ~Gone(connfd)

(* If whoever is served types or leaves at some time, everybody in the queue *)
(* is served in turn.                                                        *)
EveryoneInTurn ==
  []<>~Blocked => \A c \in Customers :
    (\E i \in 1 .. Len(queue) : queue[i] = c) ~> over[c]

=============================================================================
