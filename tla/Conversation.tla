---------------------------- MODULE Conversation ----------------------------
(***************************************************************************)
(* hw3/hw3.c, handleclient as a customer sees it: which command is         *)
(* answered by which messages, on a connection that the customer may close *)
(* at any moment.  What is ordered and who rides is in OrderDesk and       *)
(* Dispatch: here an order is listed or not, a wait is long or not, and a  *)
(* ride just takes its time.                                               *)
(*                                                                         *)
(* A send to a reset connection raises SIGPIPE, which nobody handles: it   *)
(* ends the server with all its threads.                                   *)
(***************************************************************************)
EXTENDS Customer

VARIABLES
  greets,   \* constant: the server sends the first message; hw3's does not,
            \*   but client.c is written for one that does
  thread,   \* per customer: where its handleclient is
  ordered,  \* per customer: "no" (firstorder = 1), "nothing" listed, "listed"
  silent    \* history, per customer: the last command was not answered

session == <<ordered, silent>>
talk    == <<customer, greets, thread, session>>

Init ==
  /\ CInit /\ greets \in BOOLEAN
  /\ thread = [c \in Customers |-> "none"]
  /\ ordered = [c \in Customers |-> "no"]
  /\ silent = [c \in Customers |-> FALSE]

Goto(c, a, b) == up /\ thread[c] = a /\ thread' = [thread EXCEPT ![c] = b]

(* The thread of c sends m.  If nobody is left to receive it, all end.       *)
Sends(c, m, a, b) ==
  IF Broken(c)
  THEN up /\ thread[c] = a /\ up' = FALSE /\ UNCHANGED <<thread, toClient, reset>>
  ELSE Goto(c, a, b) /\ Send(c, m) /\ UNCHANGED up

Quietly(c, a, b) == Goto(c, a, b) /\ UNCHANGED <<up, toClient, reset>>

Accept(c) ==
  /\ Connected(c)
  /\ IF greets THEN Sends(c, "hello", "none", "recv") ELSE Quietly(c, "none", "recv")
  /\ UNCHANGED <<toServer, over, seen, joined, greets, session>>

Close(c) == over' = [over EXCEPT ![c] = TRUE]

(* pthread_create fails, and main closes the connection. *)
TurnAway(c) ==
  /\ Connected(c) /\ Quietly(c, "none", "closed") /\ Close(c)
  /\ UNCHANGED <<toServer, seen, joined, greets, session>>

-----------------------------------------------------------------------------
(* read returns one or more commands, of which only the first is looked at.  *)
Reads(c, words) ==
  /\ toServer[c] # << >> /\ Head(toServer[c]) \in words
  /\ \E n \in 1 .. Len(toServer[c]) : toServer' = [toServer EXCEPT ![c] = Rest(@, n)]
  /\ UNCHANGED <<over, user, greets>>

Answered(c, b) == silent' = [silent EXCEPT ![c] = ~b]

(* "order" of something that its restaurant lists. *)
Order(c) ==
  /\ Reads(c, {"order"}) /\ Sends(c, "list", "recv", "recv") /\ Answered(c, TRUE)
  /\ ordered' = [ordered EXCEPT ![c] = "listed"]

(* "order" of what adds nothing to the list, or takes from it, a quantity    *)
(* being any number: sendtoclient sends the list there is, if one is left.   *)
OrderNothing(c) ==
  /\ Reads(c, {"nothing"})
  /\ \/ /\ ordered[c] = "listed" /\ Sends(c, "list", "recv", "recv")
        /\ UNCHANGED ordered /\ Answered(c, TRUE)
     \/ /\ Quietly(c, "recv", "recv")
        /\ ordered' = [ordered EXCEPT ![c] = "nothing"] /\ Answered(c, FALSE)

Confirmed(c) == ordered[c] # "no"

Unconfirmed_ignored(c) == Quietly(c, "recv", "recv")

Unconfirmed(c) == Sends(c, "info", "recv", "recv")

(* What is no command, as "No" here, "shop list", and a "confirm" before any order. *)
Inform(c) ==
  /\ \/ Reads(c, {"No"}) /\ Sends(c, "info", "recv", "recv")
     \/ Reads(c, {"confirm"}) /\ ~Confirmed(c) /\ Unconfirmed(c)
  /\ Answered(c, TRUE) /\ UNCHANGED ordered

(* A person is chosen; the wait is long or not. *)
Confirm(c) ==
  /\ Reads(c, {"confirm"}) /\ Confirmed(c)
  /\ Quietly(c, "recv", "question") \/ Quietly(c, "recv", "announce")
  /\ Answered(c, TRUE) /\ UNCHANGED ordered

Cancel(c) ==
  /\ toServer[c] # << >> /\ Head(toServer[c]) = "cancel" /\ Quietly(c, "recv", "closed")
  /\ Close(c) /\ UNCHANGED <<toServer, user, greets, session>>

(* Without the test of bytes_read. *)
HangUp_untested(c) ==
  /\ HungUp(c) /\ Sends(c, "info", "recv", "recv")
  /\ UNCHANGED <<over, toServer, user, greets, session>>

(* read returns 0 or an error. *)
HangUp(c) ==
  /\ HungUp(c) /\ Quietly(c, "recv", "closed") /\ Close(c)
  /\ UNCHANGED <<toServer, user, greets, session>>

-----------------------------------------------------------------------------
Ask(c) ==
  /\ Sends(c, "question", "question", "reply")
  /\ UNCHANGED <<toServer, over, user, greets, session>>

Refuse(c) ==
  /\ toServer[c] # << >> /\ Head(toServer[c]) = "No" /\ Quietly(c, "reply", "closed")
  /\ Close(c) /\ UNCHANGED <<toServer, user, greets, session>>

(* Any other reply, Yes or not; the end of the connection leaves "confirm" in buffer.    *)
Wait(c) ==
  /\ Quietly(c, "reply", "announce") /\ UNCHANGED session
  /\ \/ Reads(c, Commands \ {"No"})
     \/ HungUp(c) /\ UNCHANGED <<toServer, over, user, greets>>

Announce(c) ==
  /\ Sends(c, "wait", "announce", "ride")
  /\ UNCHANGED <<toServer, over, user, greets, session>>

Ride(c) ==
  /\ Quietly(c, "ride", "arrive")
  /\ UNCHANGED <<toServer, over, user, greets, session>>

Arrive(c) ==
  /\ Sends(c, "arrival", "arrive", "closed") /\ Close(c)
  /\ UNCHANGED <<toServer, user, greets, session>>

-----------------------------------------------------------------------------
Handle(c) ==
  \/ Order(c) \/ OrderNothing(c) \/ Inform(c) \/ Confirm(c) \/ Cancel(c) \/ HangUp(c)
  \/ Ask(c) \/ Refuse(c) \/ Wait(c) \/ Announce(c) \/ Ride(c) \/ Arrive(c)

Runs(c)  == Program(c) /\ UNCHANGED <<greets, thread, session>>
Typed(c) == User(c) /\ UNCHANGED <<greets, thread, session>>

Next == \E c \in Customers : Accept(c) \/ TurnAway(c) \/ Handle(c) \/ Runs(c) \/ Typed(c)

Spec == Init /\ [][Next]_talk

(* Threads and programs go on; Dispatch says when a ride begins and ends.    *)
(* Nobody has to type.                                                       *)
FairSpec ==
  Spec /\ \A c \in Customers : WF_talk(Handle(c)) /\ WF_talk(Runs(c))

-----------------------------------------------------------------------------
(* Every variable stays in its range, and at most the announcement and the   *)
(* arrival are on their way to a program that works in lock-step.            *)
TypeOK ==
  /\ prog \in [Customers -> {"new", "free", "read", "again", "type", "gone"}]
  /\ toServer \in [Customers -> Seq(Commands)] /\ toClient \in [Customers -> Seq(Message)]
  /\ over \in [Customers -> BOOLEAN] /\ reset \in [Customers -> BOOLEAN]
  /\ seen \in [Customers -> Message \cup {None}] /\ joined \in [Customers -> BOOLEAN]
  /\ greets \in BOOLEAN /\ up \in BOOLEAN
  /\ thread \in [Customers -> {"none", "recv", "question", "reply", "announce", "ride",
                               "arrive", "closed"}]
  /\ ordered \in [Customers -> {"no", "nothing", "listed"}]
  /\ silent \in [Customers -> BOOLEAN]
  /\ \A c \in Customers \ Free : Len(toServer[c]) <= 1 /\ Len(toClient[c]) <= 2

(* The program waits for the server and the server for the program. *)
WaitForEachOther(c) ==
  /\ up /\ prog[c] \in {"read", "again"} /\ toClient[c] = << >> /\ ~over[c]
  /\ thread[c] \in {"recv", "reply"} /\ toServer[c] = << >>

(* Program and server wait for each other only after an order that is not    *)
(* answered, or at the beginning, if the server leaves the first message to  *)
(* the program: every other command is followed by what ends a read.         *)
OnlySilenceDeadlocks ==
  \A c \in Customers : WaitForEachOther(c) => silent[c] \/ (~greets /\ seen[c] = None)

(* The server only dies of a customer who left after "confirm", or, of one   *)
(* who types ahead, before all the answers: who leaves at a prompt of the    *)
(* session, or while waiting for a single answer, harms nobody else.         *)
DiesOfAbandonedRide ==
  ~up => \E c \in Customers :
           Gone(c) /\ (c \in Free \/ thread[c] \in {"announce", "arrive"})

(* What the server takes for the reply to its question is typed by a         *)
(* customer who has been shown the question, unless he types ahead.          *)
ReplyIsToTheQuestion ==
  \A c \in Customers \ Free :
    thread[c] = "reply" /\ toServer[c] # << >> => seen[c] = "question"

(* A customer with client.c whose delivery is announced is shown the         *)
(* arrival, if he stays, the server lives, and the two messages are not      *)
(* joined in one read, of which the program shows the first only.            *)
ArrivalIsShown ==
  \A c \in Customers \ Free :
    thread[c] = "ride" ~> seen[c] = "arrival" \/ joined[c] \/ Gone(c) \/ ~up

-----------------------------------------------------------------------------
(* What the code says, without the provisos above. *)

(* hw3.c:275, "Please wait a few minutes...", after which the customer may   *)
(* go: nobody else is harmed.                                                *)
ServerLives == up

=============================================================================
