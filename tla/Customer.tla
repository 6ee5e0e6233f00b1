------------------------------ MODULE Customer ------------------------------
(***************************************************************************)
(* hw2/client.c: the customer's program, with the two directions of its    *)
(* connection.  It works in lock-step: it reads one message before it lets *)
(* its user type the next, and after "Please wait a few minutes..." reads  *)
(* once more for the arrival.  Free customers use another program (netcat, *)
(* external): they type and listen when they like.                         *)
(*                                                                         *)
(* A module that EXTENDS this one is the server.  One read may return      *)
(* several messages joined; the program shows, and compares, the first     *)
(* only, since the servers' messages end with a NUL.                       *)
(***************************************************************************)
EXTENDS Integers, Sequences

CONSTANTS
  Customers,  \* who may connect
  Free,       \* those who do not use client.c
  Commands,   \* what may be typed
  MaxTyped,   \* bound of the model: commands of a free customer on the way
  None        \* no message seen yet

ASSUME CustomerAssumption == Free \subseteq Customers /\ MaxTyped \in Nat

VARIABLES
  prog,      \* per customer: where its program is
  toServer,  \* per customer: the commands the server has yet to read
  toClient,  \* per customer: the messages the program has yet to read
  up,        \* the server's process lives
  over,      \* per customer: the server has closed its side
  reset,     \* per customer: a RST of the closed program has reached the server
  seen,      \* per customer: the message last shown
  joined     \* history, per customer: a read returned more than was shown

wires == <<up, toServer, toClient, over, reset>>
user  == <<prog, seen, joined>>
customer == <<wires, user>>

Message == {"hello", "list", "info", "question", "wait", "arrival"}

CInit ==
  /\ up = TRUE
  /\ prog = [c \in Customers |-> "new"]
  /\ toServer = [c \in Customers |-> << >>] /\ toClient = [c \in Customers |-> << >>]
  /\ over = [c \in Customers |-> FALSE] /\ reset = [c \in Customers |-> FALSE]
  /\ seen = [c \in Customers |-> None] /\ joined = [c \in Customers |-> FALSE]

Gone(c) == prog[c] = "gone"

(* connect, once the server has accepted; the program reads first. *)
Connected(c) == prog[c] = "new" /\ prog' = [prog EXCEPT ![c] = IF c \in Free THEN "free" ELSE "read"]

Rest(s, n) == SubSeq(s, n + 1, Len(s))

AfterFirst_neverTwice(m) == "type"

AfterFirst(m) == IF m = "wait" THEN "again" ELSE "type"

(* A read that returns the first n messages. *)
Show(c, n, next) ==
  /\ n \in 1 .. Len(toClient[c])
  /\ seen' = [seen EXCEPT ![c] = Head(toClient[c])]
  /\ joined' = [joined EXCEPT ![c] = @ \/ n > 1]
  /\ toClient' = [toClient EXCEPT ![c] = Rest(@, n)]
  /\ prog' = [prog EXCEPT ![c] = next]
  /\ UNCHANGED <<up, toServer, over, reset>>

ReadFirst(c) ==
  /\ prog[c] = "read"
  /\ \E n \in 1 .. Len(toClient[c]) : Show(c, n, AfterFirst(Head(toClient[c])))

ReadAgain(c) ==
  /\ prog[c] = "again" /\ \E n \in 1 .. Len(toClient[c]) : Show(c, n, "type")

Hung(c) == over[c] \/ ~up

EndOfStream(c) == Hung(c) /\ toClient[c] = << >>

Closed(c) ==
  /\ prog' = [prog EXCEPT ![c] = "gone"] /\ UNCHANGED <<wires, seen, joined>>

(* "Server closed the connection", or "Read failed". *)
ReadEnd(c) == prog[c] = "read" /\ EndOfStream(c) /\ Closed(c)

(* The second read does not look at its result: the user is asked again.     *)
ReadAgainEnd(c) ==
  /\ prog[c] = "again" /\ EndOfStream(c) /\ prog' = [prog EXCEPT ![c] = "type"]
  /\ UNCHANGED <<wires, seen, joined>>

AfterTyped_another == "type"

AfterTyped == "read"

(* fgets and send; what is sent to a closed connection is lost. *)
Type(c) ==
  /\ prog[c] = "type" /\ prog' = [prog EXCEPT ![c] = AfterTyped]
  /\ \E m \in Commands :
       toServer' = IF Hung(c) THEN toServer ELSE [toServer EXCEPT ![c] = Append(@, m)]
  /\ UNCHANGED <<up, toClient, over, reset, seen, joined>>

(* "exit" at the prompt, or the program is killed anywhere: unread messages  *)
(* make the kernel answer with a RST at once.                                *)
Leave(c) ==
  /\ prog[c] \notin {"new", "gone"}
  /\ prog' = [prog EXCEPT ![c] = "gone"]
  /\ toClient' = [toClient EXCEPT ![c] = << >>]
  /\ reset' = [reset EXCEPT ![c] = @ \/ toClient[c] # << >>]
  /\ UNCHANGED <<up, toServer, over, seen, joined>>

(* A free customer types ahead. *)
TypeAhead(c) ==
  /\ prog[c] = "free" /\ ~Hung(c) /\ Len(toServer[c]) < MaxTyped
  /\ \E m \in Commands : toServer' = [toServer EXCEPT ![c] = Append(@, m)]
  /\ UNCHANGED <<up, toClient, over, reset, user>>

Listen(c) ==
  /\ prog[c] = "free" /\ toClient[c] # << >> /\ toClient' = [toClient EXCEPT ![c] = << >>]
  /\ UNCHANGED <<up, toServer, over, reset, user>>

Program(c) == ReadFirst(c) \/ ReadAgain(c) \/ ReadEnd(c) \/ ReadAgainEnd(c) \/ Listen(c)

User(c) == Type(c) \/ TypeAhead(c) \/ Leave(c)

-----------------------------------------------------------------------------
(* The server's half of the connection, in the kernel. *)

(* A message to a program that is gone may be answered by a RST.  What free  *)
(* customers are sent does not matter, only that it is unread.               *)
Send(c, m) ==
  IF Gone(c)
  THEN /\ \E r \in BOOLEAN : reset' = [reset EXCEPT ![c] = r]
       /\ UNCHANGED toClient
  ELSE /\ toClient' = [toClient EXCEPT ![c] = IF c \in Free THEN <<m>> ELSE Append(@, m)]
       /\ UNCHANGED reset

(* After a RST there is nobody to send to: SIGPIPE ends the server. *)
Broken(c) == Gone(c) /\ reset[c]

(* read returns 0 or an error: the program is gone and has left nothing.     *)
HungUp(c) == Gone(c) /\ toServer[c] = << >>

=============================================================================
