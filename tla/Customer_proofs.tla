-------------------------- MODULE Customer_proofs --------------------------
(***************************************************************************)
(* Proofs about client.c with hw3's server, Conversation, and with hw2's,  *)
(* HelloServer, for any customers, commands and messages on the way.       *)
(*                                                                         *)
(* The invariants say, customer by customer, how far his program and the   *)
(* thread that serves him are in their dialogue: ConversationInv what each *)
(* pair of places leaves in the two directions of the connection, HelloInv *)
(* that who waits for hw2's server with client.c has typed nothing.        *)
(***************************************************************************)
EXTENDS Conversation, HelloServer, TLAPS

CustomerTypeOK ==
  /\ prog \in [Customers -> {"new", "free", "read", "again", "type", "gone"}]
  /\ toServer \in [Customers -> Seq(Commands)] /\ toClient \in [Customers -> Seq(Message)]
  /\ over \in [Customers -> BOOLEAN] /\ reset \in [Customers -> BOOLEAN] /\ up \in BOOLEAN
  /\ seen \in [Customers -> Message \cup {None}] /\ joined \in [Customers -> BOOLEAN]

(* What is left after a read is a sequence of the same elements, and nothing *)
(* if there was one.                                                         *)
LEMMA RestType ==
  ASSUME NEW S, NEW s \in Seq(S), NEW n \in 1 .. Len(s)
  PROVE  /\ Rest(s, n) \in Seq(S)
         /\ Len(Rest(s, n)) = Len(s) - n
         /\ Len(s) <= 1 => Rest(s, n) = << >>
  BY DEF Rest

(* The first of a sequence. *)
LEMMA FirstType ==
  ASSUME NEW S, NEW s \in Seq(S), s # << >>
  PROVE  Head(s) \in S
  OBVIOUS

(* Where something can be read there is something. *)
LEMMA SomeToRead ==
  ASSUME NEW S, NEW s \in Seq(S), NEW n \in 1 .. Len(s)
  PROVE  s # << >>
  OBVIOUS

(* A message behind others, or alone. *)
LEMMA OneMore ==
  ASSUME NEW S, NEW s \in Seq(S), NEW m \in S
  PROVE  /\ Append(s, m) \in Seq(S) /\ <<m>> \in Seq(S)
         /\ Len(Append(s, m)) = Len(s) + 1 /\ Len(<<m>>) = 1
         /\ s = << >> => Append(s, m) = <<m>>
         /\ Append(s, m) # << >>
         /\ <<m>> # << >> /\ Head(<<m>>) = m
         /\ Len(<< >>) = 0 /\ << >> \in Seq(S)
<1>1. Append(s, m) \in Seq(S) /\ Len(Append(s, m)) = Len(s) + 1
  OBVIOUS
<1>2. <<m>> \in Seq(S) /\ Len(<<m>>) = 1 /\ Head(<<m>>) = m
  OBVIOUS
<1>3. s = << >> => Append(s, m) = <<m>>
  OBVIOUS
<1>4. Len(<< >>) = 0 /\ << >> \in Seq(S)
  OBVIOUS
<1>5. Append(s, m) # << >>
  <2>1. Len(s) + 1 # 0 OBVIOUS
  <2> QED BY <1>1, <1>4, <2>1, Zenon
<1> QED BY <1>1, <1>2, <1>3, <1>4, <1>5

(* A read that shows the first of n messages. *)
LEMMA ShowType ==
  ASSUME CustomerTypeOK, NEW c \in Customers, NEW n, NEW next, Show(c, n, next),
         next \in {"type", "again"}
  PROVE  CustomerTypeOK'
<1>1. n \in 1 .. Len(toClient[c]) /\ toClient[c] \in Seq(Message)
  BY DEF Show, CustomerTypeOK
<1>2. Head(toClient[c]) \in Message /\ Rest(toClient[c], n) \in Seq(Message)
  BY <1>1, RestType, FirstType, SomeToRead
<1>3. toClient' \in [Customers -> Seq(Message)]
  BY <1>2 DEF Show, CustomerTypeOK
<1>4. seen' \in [Customers -> Message \cup {None}]
  BY <1>2 DEF Show, CustomerTypeOK
<1>5. joined' \in [Customers -> BOOLEAN]
  BY <1>1 DEF Show, CustomerTypeOK
<1>6. prog' \in [Customers -> {"new", "free", "read", "again", "type", "gone"}]
  BY DEF Show, CustomerTypeOK
<1> QED BY <1>3, <1>4, <1>5, <1>6 DEF Show, CustomerTypeOK

LEMMA ProgramType ==
  ASSUME CustomerTypeOK, NEW c \in Customers, Program(c)
  PROVE  CustomerTypeOK'
<1>1. CASE ReadFirst(c) BY <1>1, ShowType DEF ReadFirst, AfterFirst
<1>2. CASE ReadAgain(c) BY <1>2, ShowType DEF ReadAgain
<1>3. CASE ReadEnd(c) BY <1>3 DEF ReadEnd, Closed, wires, CustomerTypeOK
<1>4. CASE ReadAgainEnd(c) BY <1>4 DEF ReadAgainEnd, wires, CustomerTypeOK
<1>5. CASE Listen(c) BY <1>5, OneMore DEF Listen, user, CustomerTypeOK
<1> QED BY <1>1, <1>2, <1>3, <1>4, <1>5 DEF Program

LEMMA UserType ==
  ASSUME CustomerTypeOK, NEW c \in Customers, User(c)
  PROVE  CustomerTypeOK'
<1>1. CASE Type(c)
  <2>1. PICK m \in Commands :
          toServer' = IF Hung(c) THEN toServer ELSE [toServer EXCEPT ![c] = Append(@, m)]
    BY <1>1 DEF Type
  <2>2. toServer' \in [Customers -> Seq(Commands)]
    BY <2>1, OneMore DEF CustomerTypeOK
  <2> QED BY <1>1, <2>2 DEF Type, AfterTyped, CustomerTypeOK
<1>2. CASE TypeAhead(c)
  <2>1. PICK m \in Commands : toServer' = [toServer EXCEPT ![c] = Append(@, m)]
    BY <1>2 DEF TypeAhead
  <2>2. toServer' \in [Customers -> Seq(Commands)]
    BY <2>1, OneMore DEF CustomerTypeOK
  <2> QED BY <1>2, <2>2 DEF TypeAhead, user, CustomerTypeOK
<1>3. CASE Leave(c)
  <2>1. toClient' \in [Customers -> Seq(Message)]
    BY <1>3, OneMore DEF Leave, CustomerTypeOK
  <2>2. reset' \in [Customers -> BOOLEAN] BY <1>3 DEF Leave, CustomerTypeOK
  <2> QED BY <1>3, <2>1, <2>2 DEF Leave, CustomerTypeOK
<1> QED BY <1>1, <1>2, <1>3 DEF User

LEMMA SendType ==
  ASSUME CustomerTypeOK, NEW c \in Customers, NEW m \in Message, Send(c, m)
  PROVE  toClient' \in [Customers -> Seq(Message)] /\ reset' \in [Customers -> BOOLEAN]
<1>1. CASE Gone(c)
  <2>1. PICK r \in BOOLEAN : reset' = [reset EXCEPT ![c] = r] BY <1>1 DEF Send
  <2> QED BY <1>1, <2>1 DEF Send, CustomerTypeOK
<1>2. CASE ~Gone(c)
  <2>1. toClient[c] \in Seq(Message) BY DEF CustomerTypeOK
  <2>2. Append(toClient[c], m) \in Seq(Message) /\ <<m>> \in Seq(Message)
    BY <2>1, OneMore
  <2>3. toClient' \in [Customers -> Seq(Message)]
    BY <1>2, <2>2 DEF Send, CustomerTypeOK
  <2> QED BY <1>2, <2>3 DEF Send, CustomerTypeOK
<1> QED BY <1>1, <1>2

-----------------------------------------------------------------------------
(* What the program of c does with its connection, in one step. *)

Same(d) ==
  /\ prog'[d] = prog[d] /\ toServer'[d] = toServer[d] /\ toClient'[d] = toClient[d]
  /\ over'[d] = over[d] /\ reset'[d] = reset[d] /\ seen'[d] = seen[d]

Shows(c) ==
  /\ prog[c] \in {"read", "again"} /\ toClient[c] # << >>
  /\ prog'[c] = IF prog[c] = "read" THEN AfterFirst(Head(toClient[c])) ELSE "type"
  /\ Len(toClient'[c]) < Len(toClient[c])
  /\ Len(toClient[c]) <= 1 => toClient'[c] = << >>
  /\ seen'[c] = Head(toClient[c])
  /\ toServer'[c] = toServer[c] /\ reset'[c] = reset[c]

Ends(c) ==
  /\ Hung(c) /\ toClient[c] = << >>
  /\ \/ prog[c] = "read" /\ prog'[c] = "gone"
     \/ prog[c] = "again" /\ prog'[c] = "type"
  /\ toServer'[c] = toServer[c] /\ toClient'[c] = toClient[c]
  /\ reset'[c] = reset[c] /\ seen'[c] = seen[c]

Types(c) ==
  /\ prog[c] = "type" /\ prog'[c] = "read"
  /\ \/ Hung(c) /\ toServer'[c] = toServer[c]
     \/ ~Hung(c) /\ Len(toServer'[c]) = Len(toServer[c]) + 1 /\ toServer'[c] # << >>
  /\ toClient'[c] = toClient[c] /\ reset'[c] = reset[c] /\ seen'[c] = seen[c]

Leaves(c) ==
  /\ prog[c] \notin {"new", "gone"} /\ prog'[c] = "gone" /\ toClient'[c] = << >>
  /\ reset'[c] = (reset[c] \/ toClient[c] # << >>)
  /\ toServer'[c] = toServer[c] /\ seen'[c] = seen[c]

(* The programs of the others, and the server, are not concerned. *)
LEMMA UserFrame ==
  ASSUME CustomerTypeOK, NEW c \in Customers, Program(c) \/ User(c)
  PROVE  up' = up /\ over' = over /\ \A d \in Customers \ {c} : Same(d)
<1> USE DEF Same, CustomerTypeOK
<1>1. ASSUME NEW n, NEW next, Show(c, n, next)
      PROVE  up' = up /\ over' = over /\ \A d \in Customers \ {c} : Same(d)
  BY <1>1 DEF Show
<1>2. CASE ReadFirst(c) BY <1>1, <1>2 DEF ReadFirst
<1>3. CASE ReadAgain(c) BY <1>1, <1>3 DEF ReadAgain
<1>4. CASE ReadEnd(c) \/ ReadAgainEnd(c)
  BY <1>4 DEF ReadEnd, ReadAgainEnd, Closed, wires
<1>5. CASE Listen(c) BY <1>5 DEF Listen, user
<1>6. CASE Type(c) BY <1>6 DEF Type
<1>7. CASE TypeAhead(c) BY <1>7 DEF TypeAhead, user
<1>8. CASE Leave(c) BY <1>8 DEF Leave
<1> QED BY <1>2, <1>3, <1>4, <1>5, <1>6, <1>7, <1>8 DEF Program, User

LEMMA ShowsFirst ==
  ASSUME CustomerTypeOK, NEW c \in Customers, NEW n, NEW next, Show(c, n, next),
         prog[c] \in {"read", "again"},
         next = IF prog[c] = "read" THEN AfterFirst(Head(toClient[c])) ELSE "type"
  PROVE  Shows(c)
<1>1. n \in 1 .. Len(toClient[c]) /\ toClient[c] \in Seq(Message)
  BY DEF Show, CustomerTypeOK
<1>2. toClient'[c] = Rest(toClient[c], n) BY DEF Show, CustomerTypeOK
<1>3. /\ Len(toClient'[c]) = Len(toClient[c]) - n
      /\ Len(toClient[c]) <= 1 => toClient'[c] = << >>
  BY <1>1, <1>2, RestType
<1>4. toClient[c] # << >> BY <1>1, SomeToRead
<1>5. Len(toClient'[c]) < Len(toClient[c])
  <2> DEFINE k == Len(toClient[c])
  <2>1. k \in Nat BY <1>1
  <2>2. n \in 1 .. k /\ Len(toClient'[c]) = k - n BY <1>1, <1>3
  <2> HIDE DEF k
  <2>3. k - n < k BY <2>1, <2>2
  <2> QED BY <2>2, <2>3 DEF k
<1> QED BY <1>3, <1>4, <1>5 DEF Show, Shows, CustomerTypeOK

(* A program that works in lock-step does one of four things. *)
LEMMA LockStepMove ==
  ASSUME CustomerTypeOK, NEW c \in Customers, prog[c] # "free", Program(c) \/ User(c)
  PROVE  Shows(c) \/ Ends(c) \/ Types(c) \/ Leaves(c)
<1>1. CASE ReadFirst(c) BY <1>1, ShowsFirst DEF ReadFirst
<1>2. CASE ReadAgain(c) BY <1>2, ShowsFirst DEF ReadAgain
<1>3. CASE ReadEnd(c) BY <1>3 DEF ReadEnd, EndOfStream, Closed, wires, Ends, CustomerTypeOK
<1>4. CASE ReadAgainEnd(c)
  BY <1>4 DEF ReadAgainEnd, EndOfStream, wires, Ends, CustomerTypeOK
<1>5. CASE Type(c)
  <2>1. PICK m \in Commands :
          toServer' = IF Hung(c) THEN toServer ELSE [toServer EXCEPT ![c] = Append(@, m)]
    BY <1>5 DEF Type
  <2>2. /\ Len(Append(toServer[c], m)) = Len(toServer[c]) + 1
        /\ Append(toServer[c], m) # << >>
    <3>1. toServer[c] \in Seq(Commands) BY DEF CustomerTypeOK
    <3> QED BY <3>1, OneMore
  <2>3. \/ Hung(c) /\ toServer'[c] = toServer[c]
        \/ ~Hung(c) /\ toServer'[c] = Append(toServer[c], m)
    BY <2>1 DEF CustomerTypeOK
  <2> QED BY <1>5, <2>2, <2>3 DEF Type, AfterTyped, Types, CustomerTypeOK
<1>6. CASE Leave(c)
  <2>1. reset'[c] = (reset[c] \/ toClient[c] # << >>)
    BY <1>6 DEF Leave, CustomerTypeOK
  <2> QED BY <1>6, <2>1 DEF Leave, Leaves, CustomerTypeOK
<1> QED BY <1>1, <1>2, <1>3, <1>4, <1>5, <1>6 DEF Program, User, Listen, TypeAhead

-----------------------------------------------------------------------------
(* Conversation: types. *)

Threads == {"none", "recv", "question", "reply", "announce", "ride", "arrive", "closed"}

ThreadTypeOK ==
  /\ greets \in BOOLEAN /\ thread \in [Customers -> Threads]
  /\ ordered \in [Customers -> {"no", "nothing", "listed"}]
  /\ silent \in [Customers -> BOOLEAN]

(* A step of the server for c, or of c, leaves the other customers alone,    *)
(* unless it ends the server.                                                *)
Alone(c) ==
  /\ up' = up \/ ~up'
  /\ greets' = greets
  /\ \A d \in Customers \ {c} : Same(d) /\ thread'[d] = thread[d] /\ silent'[d] = silent[d]

LEMMA SendsType ==
  ASSUME CustomerTypeOK, ThreadTypeOK, NEW c \in Customers, NEW m \in Message,
         NEW a, NEW b \in Threads, Sends(c, m, a, b)
  PROVE  /\ thread' \in [Customers -> Threads] /\ up' \in BOOLEAN
         /\ toClient' \in [Customers -> Seq(Message)] /\ reset' \in [Customers -> BOOLEAN]
<1>1. CASE Broken(c) BY <1>1 DEF Sends, CustomerTypeOK, ThreadTypeOK
<1>2. CASE ~Broken(c)
  <2>1. Send(c, m) /\ thread' = [thread EXCEPT ![c] = b] /\ up' = up
    BY <1>2 DEF Sends, Goto
  <2> QED BY <2>1, SendType DEF CustomerTypeOK, ThreadTypeOK
<1> QED BY <1>1, <1>2

LEMMA QuietlyType ==
  ASSUME CustomerTypeOK, ThreadTypeOK, NEW c \in Customers,
         NEW a, NEW b \in Threads, Quietly(c, a, b)
  PROVE  /\ thread' \in [Customers -> Threads] /\ up' \in BOOLEAN
         /\ toClient' \in [Customers -> Seq(Message)] /\ reset' \in [Customers -> BOOLEAN]
  BY DEF Quietly, Goto, CustomerTypeOK, ThreadTypeOK

LEMMA ReadsType ==
  ASSUME CustomerTypeOK, NEW c \in Customers, NEW words, Reads(c, words)
  PROVE  /\ toServer' \in [Customers -> Seq(Commands)]
         /\ toServer[c] # << >>
         /\ Len(toServer[c]) <= 1 => toServer'[c] = << >>
<1>1. PICK n \in 1 .. Len(toServer[c]) : toServer' = [toServer EXCEPT ![c] = Rest(@, n)]
  BY DEF Reads
<1>2. toServer[c] \in Seq(Commands) BY DEF CustomerTypeOK
<1>3. /\ Rest(toServer[c], n) \in Seq(Commands)
      /\ Len(toServer[c]) <= 1 => Rest(toServer[c], n) = << >>
  BY <1>1, <1>2, RestType
<1>4. toServer'[c] = Rest(toServer[c], n) BY <1>1 DEF CustomerTypeOK
<1> QED BY <1>1, <1>3, <1>4 DEF Reads, CustomerTypeOK

LEMMA ConnectedType ==
  ASSUME CustomerTypeOK, NEW c \in Customers, Connected(c)
  PROVE  prog' \in [Customers -> {"new", "free", "read", "again", "type", "gone"}]
  BY DEF Connected, CustomerTypeOK

LEMMA MessagesAre ==
  /\ "hello" \in Message /\ "list" \in Message /\ "info" \in Message
  /\ "question" \in Message /\ "wait" \in Message /\ "arrival" \in Message
  BY DEF Message

LEMMA ThreadsAre ==
  /\ "recv" \in Threads /\ "question" \in Threads /\ "reply" \in Threads
  /\ "announce" \in Threads /\ "ride" \in Threads /\ "arrive" \in Threads
  /\ "closed" \in Threads
  BY DEF Threads

LEMMA HandleType ==
  ASSUME CustomerTypeOK, ThreadTypeOK, NEW c \in Customers, Handle(c)
  PROVE  CustomerTypeOK' /\ ThreadTypeOK'
<1> DEFINE Sent == /\ thread' \in [Customers -> Threads] /\ up' \in BOOLEAN
                   /\ toClient' \in [Customers -> Seq(Message)]
                   /\ reset' \in [Customers -> BOOLEAN]
           Got  == toServer' \in [Customers -> Seq(Commands)]
<1> USE MessagesAre, ThreadsAre
<1>1. CASE Order(c)
  <2>1. Sent BY <1>1, SendsType DEF Order
  <2>2. Got BY <1>1, ReadsType DEF Order
  <2> QED
    BY <1>1, <2>1, <2>2 DEF Order, Reads, user, Answered, CustomerTypeOK, ThreadTypeOK
<1>2. CASE OrderNothing(c)
  <2>1. Sent BY <1>2, SendsType, QuietlyType DEF OrderNothing
  <2>2. Got BY <1>2, ReadsType DEF OrderNothing
  <2>3. ordered' \in [Customers -> {"no", "nothing", "listed"}]
    BY <1>2 DEF OrderNothing, ThreadTypeOK
  <2>4. silent' \in [Customers -> BOOLEAN]
    BY <1>2 DEF OrderNothing, Answered, ThreadTypeOK
  <2> QED
    BY <1>2, <2>1, <2>2, <2>3, <2>4 DEF OrderNothing, Reads, user, CustomerTypeOK, ThreadTypeOK
<1>3. CASE Inform(c)
  <2>1. Sent BY <1>3, SendsType DEF Inform, Unconfirmed
  <2>2. Got BY <1>3, ReadsType DEF Inform
  <2> QED
    BY <1>3, <2>1, <2>2 DEF Inform, Reads, user, Answered, CustomerTypeOK, ThreadTypeOK
<1>4. CASE Confirm(c)
  <2>1. Sent BY <1>4, QuietlyType DEF Confirm
  <2>2. Got BY <1>4, ReadsType DEF Confirm
  <2> QED
    BY <1>4, <2>1, <2>2 DEF Confirm, Reads, user, Answered, CustomerTypeOK, ThreadTypeOK
<1>5. CASE Cancel(c) \/ HangUp(c) \/ Refuse(c)
  <2>1. Sent BY <1>5, QuietlyType DEF Cancel, HangUp, Refuse
  <2> QED
    BY <1>5, <2>1 DEF Cancel, HangUp, Refuse, Close, user, session, CustomerTypeOK, ThreadTypeOK
<1>6. CASE Ask(c) \/ Announce(c)
  <2>1. Sent BY <1>6, SendsType DEF Ask, Announce
  <2> QED BY <1>6, <2>1 DEF Ask, Announce, user, session, CustomerTypeOK, ThreadTypeOK
<1>7. CASE Wait(c)
  <2>1. Sent BY <1>7, QuietlyType DEF Wait
  <2>2. Got BY <1>7, ReadsType DEF Wait, CustomerTypeOK
  <2> QED BY <1>7, <2>1, <2>2 DEF Wait, Reads, user, session, CustomerTypeOK, ThreadTypeOK
<1>8. CASE Ride(c)
  <2>1. Sent BY <1>8, QuietlyType DEF Ride
  <2> QED BY <1>8, <2>1 DEF Ride, user, session, CustomerTypeOK, ThreadTypeOK
<1>9. CASE Arrive(c)
  <2>1. Sent BY <1>9, SendsType DEF Arrive
  <2> QED BY <1>9, <2>1 DEF Arrive, Close, user, session, CustomerTypeOK, ThreadTypeOK
<1> QED BY <1>1, <1>2, <1>3, <1>4, <1>5, <1>6, <1>7, <1>8, <1>9 DEF Handle

Moves(c) == Accept(c) \/ TurnAway(c) \/ Handle(c) \/ Runs(c) \/ Typed(c)

LEMMA MovesType ==
  ASSUME CustomerTypeOK, ThreadTypeOK, NEW c \in Customers, Moves(c)
  PROVE  CustomerTypeOK' /\ ThreadTypeOK'
<1> USE MessagesAre, ThreadsAre
<1>1. CASE Accept(c)
  <2>1. /\ thread' \in [Customers -> Threads] /\ up' \in BOOLEAN
        /\ toClient' \in [Customers -> Seq(Message)]
        /\ reset' \in [Customers -> BOOLEAN]
    BY <1>1, SendsType, QuietlyType DEF Accept
  <2> QED BY <1>1, <2>1, ConnectedType DEF Accept, session, CustomerTypeOK, ThreadTypeOK
<1>2. CASE TurnAway(c)
  <2>1. /\ thread' \in [Customers -> Threads] /\ up' \in BOOLEAN
        /\ toClient' \in [Customers -> Seq(Message)]
        /\ reset' \in [Customers -> BOOLEAN]
    BY <1>2, QuietlyType DEF TurnAway
  <2> QED BY <1>2, <2>1, ConnectedType DEF TurnAway, Close, session, CustomerTypeOK, ThreadTypeOK
<1>3. CASE Handle(c) BY <1>3, HandleType
<1>4. CASE Runs(c) BY <1>4, ProgramType DEF Runs, session, ThreadTypeOK
<1>5. CASE Typed(c) BY <1>5, UserType DEF Typed, session, ThreadTypeOK
<1> QED BY <1>1, <1>2, <1>3, <1>4, <1>5 DEF Moves

-----------------------------------------------------------------------------
(* Conversation: what a step does for one customer, and not for the others. *)

(* A message to c: the server dies of it, or it is lost, or it arrives.      *)
Told(c, m, a, b) ==
  /\ up /\ thread[c] = a
  /\ \/ /\ Broken(c) /\ up' = FALSE /\ thread'[c] = a
        /\ toClient'[c] = toClient[c] /\ reset'[c] = reset[c]
     \/ /\ Gone(c) /\ ~reset[c] /\ up' /\ thread'[c] = b /\ toClient'[c] = toClient[c]
     \/ /\ ~Gone(c) /\ up' /\ thread'[c] = b /\ reset'[c] = reset[c]
        /\ c \notin Free => /\ Len(toClient'[c]) = Len(toClient[c]) + 1
                            /\ toClient[c] = << >> => toClient'[c] = <<m>>

LEMMA SendsTold ==
  ASSUME CustomerTypeOK, ThreadTypeOK, NEW c \in Customers, NEW m \in Message,
         NEW a, NEW b, Sends(c, m, a, b)
  PROVE  /\ Told(c, m, a, b)
         /\ \A d \in Customers \ {c} : /\ thread'[d] = thread[d]
                                       /\ toClient'[d] = toClient[d] /\ reset'[d] = reset[d]
<1> USE DEF CustomerTypeOK, ThreadTypeOK, Told
<1>1. CASE Broken(c) BY <1>1 DEF Sends
<1>2. CASE ~Broken(c)
  <2>1. /\ Send(c, m) /\ up /\ up' /\ thread[c] = a /\ thread' = [thread EXCEPT ![c] = b]
    BY <1>2 DEF Sends, Goto
  <2>2. CASE Gone(c)
    <3>1. PICK r \in BOOLEAN : reset' = [reset EXCEPT ![c] = r] BY <2>1, <2>2 DEF Send
    <3> QED BY <1>2, <2>1, <2>2, <3>1 DEF Send, Broken
  <2>3. CASE ~Gone(c)
    <3>1. toClient[c] \in Seq(Message) OBVIOUS
    <3>2. /\ Len(Append(toClient[c], m)) = Len(toClient[c]) + 1
          /\ toClient[c] = << >> => Append(toClient[c], m) = <<m>>
      BY <3>1, OneMore
    <3>3. c \notin Free => toClient'[c] = Append(toClient[c], m)
      BY <2>1, <2>3 DEF Send
    <3> QED BY <2>1, <2>3, <3>2, <3>3 DEF Send
  <2> QED BY <2>2, <2>3
<1> QED BY <1>1, <1>2

LEMMA QuietlyDone ==
  ASSUME CustomerTypeOK, ThreadTypeOK, NEW c \in Customers, NEW a, NEW b, Quietly(c, a, b)
  PROVE  /\ up /\ up' /\ thread[c] = a /\ thread'[c] = b
         /\ toClient' = toClient /\ reset' = reset
         /\ \A d \in Customers \ {c} : /\ thread'[d] = thread[d]
                                       /\ toClient'[d] = toClient[d] /\ reset'[d] = reset[d]
  BY DEF Quietly, Goto, ThreadTypeOK

LEMMA ReadsAlone ==
  ASSUME CustomerTypeOK, NEW c \in Customers, NEW words, Reads(c, words)
  PROVE  \A d \in Customers \ {c} : toServer'[d] = toServer[d]
  BY DEF Reads, CustomerTypeOK

LEMMA HandleAlone ==
  ASSUME CustomerTypeOK, ThreadTypeOK, NEW c \in Customers, Handle(c)
  PROVE  Alone(c)
<1> USE MessagesAre DEF Alone, Same, CustomerTypeOK, ThreadTypeOK
<1>1. CASE Order(c)
  <2>1. \A d \in Customers \ {c} : toServer'[d] = toServer[d] BY <1>1, ReadsAlone DEF Order
  <2>2. Told(c, "list", "recv", "recv") BY <1>1, SendsTold DEF Order
  <2>3. \A d \in Customers \ {c} : thread'[d] = thread[d] /\ toClient'[d] = toClient[d]
                                     /\ reset'[d] = reset[d]
    BY <1>1, SendsTold DEF Order
  <2> QED BY <1>1, <2>1, <2>2, <2>3 DEF Order, Told, Reads, Answered, user
<1>2. CASE OrderNothing(c)
  <2>1. \A d \in Customers \ {c} : toServer'[d] = toServer[d]
    BY <1>2, ReadsAlone DEF OrderNothing
  <2>2. CASE Sends(c, "list", "recv", "recv") /\ UNCHANGED ordered /\ Answered(c, TRUE)
    <3>1. Sends(c, "list", "recv", "recv") BY <2>2
    <3>2. up /\ \A d \in Customers \ {c} : /\ thread'[d] = thread[d]
                                           /\ toClient'[d] = toClient[d] /\ reset'[d] = reset[d]
      BY <3>1, SendsTold DEF Told
    <3> QED BY <1>2, <2>1, <2>2, <3>2 DEF OrderNothing, Reads, Answered, user
  <2>3. CASE /\ Quietly(c, "recv", "recv")
             /\ ordered' = [ordered EXCEPT ![c] = "nothing"] /\ Answered(c, FALSE)
    <3>1. Quietly(c, "recv", "recv") BY <2>3
    <3>2. up /\ \A d \in Customers \ {c} : /\ thread'[d] = thread[d]
                                           /\ toClient'[d] = toClient[d] /\ reset'[d] = reset[d]
      BY <3>1, QuietlyDone
    <3> QED BY <1>2, <2>1, <2>3, <3>2 DEF OrderNothing, Reads, Answered, user
  <2> QED BY <1>2, <2>2, <2>3 DEF OrderNothing
<1>3. CASE Inform(c)
  <2>1. \A d \in Customers \ {c} : toServer'[d] = toServer[d] BY <1>3, ReadsAlone DEF Inform
  <2>2. Sends(c, "info", "recv", "recv") BY <1>3 DEF Inform, Unconfirmed
  <2>3. Told(c, "info", "recv", "recv") BY <2>2, SendsTold
  <2>4. \A d \in Customers \ {c} : thread'[d] = thread[d] /\ toClient'[d] = toClient[d]
                                     /\ reset'[d] = reset[d]
    BY <2>2, SendsTold
  <2> QED BY <1>3, <2>1, <2>3, <2>4 DEF Inform, Told, Reads, Answered, user
<1>4. CASE Confirm(c)
  BY <1>4, QuietlyDone, ReadsAlone DEF Confirm, Reads, Answered, user
<1>5. CASE Cancel(c) \/ HangUp(c) \/ Refuse(c)
  BY <1>5, QuietlyDone DEF Cancel, HangUp, Refuse, Close, user, session
<1>6. CASE Ask(c) \/ Announce(c)
  <2>1. up /\ \A d \in Customers \ {c} : /\ thread'[d] = thread[d]
                                           /\ toClient'[d] = toClient[d] /\ reset'[d] = reset[d]
    <3>1. CASE Ask(c) BY <3>1, SendsTold DEF Ask, Told
    <3>2. CASE Announce(c) BY <3>2, SendsTold DEF Announce, Told
    <3> QED BY <1>6, <3>1, <3>2
  <2> QED BY <1>6, <2>1 DEF Ask, Announce, user, session
<1>7. CASE Wait(c)
  BY <1>7, QuietlyDone, ReadsAlone DEF Wait, Reads, user, session
<1>8. CASE Ride(c) BY <1>8, QuietlyDone DEF Ride, user, session
<1>9. CASE Arrive(c)
  <2>1. up /\ \A d \in Customers \ {c} : /\ thread'[d] = thread[d]
                                           /\ toClient'[d] = toClient[d] /\ reset'[d] = reset[d]
    BY <1>9, SendsTold DEF Arrive, Told
  <2> QED BY <1>9, <2>1 DEF Arrive, Close, user, session
<1> QED BY <1>1, <1>2, <1>3, <1>4, <1>5, <1>6, <1>7, <1>8, <1>9 DEF Handle

LEMMA MovesAlone ==
  ASSUME CustomerTypeOK, ThreadTypeOK, NEW c \in Customers, Moves(c)
  PROVE  Alone(c)
<1> USE MessagesAre DEF Alone, Same
<1>1. CASE Accept(c)
  <2>1. up /\ \A d \in Customers \ {c} : /\ thread'[d] = thread[d]
                                           /\ toClient'[d] = toClient[d] /\ reset'[d] = reset[d]
    <3>1. CASE Sends(c, "hello", "none", "recv")
      BY <3>1, SendsTold DEF Told
    <3>2. CASE Quietly(c, "none", "recv")
      BY <3>2, QuietlyDone
    <3> QED BY <1>1, <3>1, <3>2 DEF Accept
  <2> QED BY <1>1, <2>1 DEF Accept, Connected, session, CustomerTypeOK
<1>2. CASE TurnAway(c)
  BY <1>2, QuietlyDone DEF TurnAway, Connected, Close, session, CustomerTypeOK
<1>3. CASE Handle(c) BY <1>3, HandleAlone
<1>4. CASE Runs(c) \/ Typed(c) BY <1>4, UserFrame DEF Runs, Typed, session
<1> QED BY <1>1, <1>2, <1>3, <1>4 DEF Moves

-----------------------------------------------------------------------------
(* Conversation: the invariant. *)

(* Thread, connection and program of c agree on its beginning and its end.   *)
Linked(c) ==
  /\ thread[c] = "none" <=> prog[c] = "new"
  /\ thread[c] = "closed" => over[c]
  /\ over[c] => thread[c] = "closed" \/ (~up /\ Gone(c))
  /\ prog[c] = "new" =>
       toServer[c] = << >> /\ toClient[c] = << >> /\ ~reset[c] /\ seen[c] = None
  /\ c \in Free => prog[c] \in {"new", "free", "gone"}

(* With client.c little is on the way, and a reply answers the question.     *)
Bounded(c) ==
  /\ prog[c] # "free" /\ Len(toServer[c]) <= 1 /\ Len(toClient[c]) <= 2
  /\ ~over[c] => Len(toClient[c]) <= 1
  /\ ~Gone(c) => ~reset[c]
  /\ thread[c] = "reply" /\ toServer[c] # << >> => seen[c] = "question" /\ toClient[c] = << >>

Idle(c)     == toServer[c] = << >> /\ toClient[c] = << >>
Given(c, m) == toServer[c] = << >> /\ toClient[c] = <<m>>
Asked(c)    == toServer[c] # << >> /\ toClient[c] = << >>

(* Where thread and program are in their dialogue: the program has one       *)
(* message to read, or the thread has one command, or the user is to type,   *)
(* or each waits for the other.                                              *)
Talks(c) ==
  /\ thread[c] = "recv" =>
       \/ prog[c] = "type" /\ Idle(c)
       \/ prog[c] = "read" /\ Asked(c)
       \/ prog[c] = "read" /\ \E m \in Message \ {"wait"} : Given(c, m)
       \/ prog[c] = "read" /\ Idle(c) /\ (silent[c] \/ (~greets /\ seen[c] = None))
  /\ thread[c] \in {"question", "announce"} => prog[c] = "read" /\ Idle(c)
  /\ thread[c] = "reply" =>
       \/ prog[c] = "read" /\ Given(c, "question")
       \/ prog[c] = "type" /\ Idle(c) /\ seen[c] = "question"
       \/ prog[c] = "read" /\ Asked(c) /\ seen[c] = "question"
  /\ thread[c] \in {"ride", "arrive"} =>
       \/ prog[c] = "read" /\ Given(c, "wait")
       \/ prog[c] = "again" /\ Idle(c)

(* Who has left with a command on its way had read everything.               *)
LeftInOrder(c) ==
  /\ thread[c] = "recv" /\ toServer[c] # << >> => ~reset[c]
  /\ thread[c] = "question" => ~reset[c] /\ toServer[c] = << >>

InStep(c) == up => IF Gone(c) THEN LeftInOrder(c) ELSE Talks(c)

ConversationInv ==
  /\ CustomerTypeOK /\ ThreadTypeOK
  /\ \A c \in Customers : Linked(c)
  /\ \A c \in Customers \ Free : Bounded(c) /\ InStep(c)
  /\ DiesOfAbandonedRide

LEMMA OthersKept ==
  ASSUME CustomerTypeOK, NEW c \in Customers, Alone(c), NEW d \in Customers \ {c}
  PROVE  /\ Linked(d) => Linked(d)'
         /\ Bounded(d) => Bounded(d)'
         /\ InStep(d) => InStep(d)'
<1> USE DEF Alone, Same, CustomerTypeOK
<1>1. Linked(d) => Linked(d)' BY DEF Linked, Gone
<1>2. Bounded(d) => Bounded(d)' BY DEF Bounded, Gone
<1>3. InStep(d) => InStep(d)'
  BY DEF InStep, LeftInOrder, Talks, Gone, Idle, Given, Asked
<1> QED BY <1>1, <1>2, <1>3

(* The steps of the programs. *)
LEMMA UserLinked ==
  ASSUME CustomerTypeOK, ThreadTypeOK, NEW c \in Customers, Linked(c),
         c \notin Free => prog[c] # "free",
         Program(c) \/ User(c), UNCHANGED thread
  PROVE  Linked(c)'
<1>1. up' = up /\ over' = over BY UserFrame
<1>2. CASE c \in Free
  <2>1. prog[c] = "free" /\ prog'[c] \in {"free", "gone"}
    BY <1>2 DEF Linked, Program, User, ReadFirst, ReadAgain, ReadEnd, ReadAgainEnd, Listen, Type,
      TypeAhead, Leave, user, CustomerTypeOK
  <2> QED BY <1>1, <1>2, <2>1 DEF Linked, Gone
<1>3. CASE c \notin Free
  <2>1. Shows(c) \/ Ends(c) \/ Types(c) \/ Leaves(c) BY <1>3, LockStepMove
  <2>2. prog[c] \notin {"new", "gone"} /\ prog'[c] # "new"
    BY <2>1 DEF Shows, Ends, Types, Leaves, AfterFirst
  <2> QED BY <1>1, <1>3, <2>2 DEF Linked, Gone
<1> QED BY <1>2, <1>3

LEMMA UserInStep ==
  ASSUME CustomerTypeOK, ThreadTypeOK, NEW c \in Customers \ Free,
         Linked(c), Bounded(c), InStep(c), Program(c) \/ User(c),
         UNCHANGED <<thread, silent, greets>>
  PROVE  Bounded(c)' /\ InStep(c)'
<1> USE DEF Bounded, Gone, Idle, Given, Asked
<1>1. up' = up /\ over' = over BY UserFrame
<1>2. Shows(c) \/ Ends(c) \/ Types(c) \/ Leaves(c) BY LockStepMove
<1>3. toClient[c] \in Seq(Message) /\ toServer[c] \in Seq(Commands) BY DEF CustomerTypeOK
<1>4. Len(<< >>) = 0 /\ \A m \in Message : Head(<<m>>) = m /\ Len(<<m>>) = 1 /\ <<m>> # << >>
  OBVIOUS
<1>5. CASE Shows(c)
  <2>1. Len(toClient[c]) \in Nat /\ Len(toClient'[c]) \in Nat
    <3>1. CustomerTypeOK' BY ProgramType, UserType
    <3>2. toClient'[c] \in Seq(Message) BY <3>1 DEF CustomerTypeOK
    <3> QED BY <1>3, <3>2
  <2>2. Bounded(c)'
    <3>1. /\ Len(toClient'[c]) <= 2 /\ ~over[c] => Len(toClient'[c]) <= 1
      BY <1>5, <2>1 DEF Shows
    <3>2. prog'[c] \in {"type", "again"} /\ prog[c] \in {"read", "again"}
      BY <1>5 DEF Shows, AfterFirst
    <3> QED BY <1>1, <1>5, <3>1, <3>2 DEF Shows
  <2>3. ASSUME up PROVE InStep(c)'
    <3>1. prog[c] \in {"read", "again"} /\ prog'[c] \in {"type", "again"} /\ Talks(c)
      BY <1>5, <2>3 DEF Shows, AfterFirst, InStep
    <3>2. CASE thread[c] = "recv"
      <4>1. PICK m \in Message \ {"wait"} : prog[c] = "read" /\ Given(c, m)
        BY <1>5, <3>1, <3>2 DEF Talks, Shows
      <4>2. prog'[c] = "type" /\ toServer'[c] = << >> /\ toClient'[c] = << >>
        BY <1>4, <1>5, <4>1 DEF Shows, AfterFirst
      <4> QED BY <1>1, <3>2, <4>2 DEF InStep, Talks
    <3>3. CASE thread[c] = "reply"
      <4>1. prog[c] = "read" /\ Given(c, "question")
        BY <1>5, <3>1, <3>3 DEF Talks, Shows
      <4>2. /\ prog'[c] = "type" /\ toServer'[c] = << >> /\ toClient'[c] = << >>
            /\ seen'[c] = "question"
        BY <1>4, <1>5, <4>1, MessagesAre DEF Shows, AfterFirst
      <4> QED BY <1>1, <3>3, <4>2 DEF InStep, Talks
    <3>4. CASE thread[c] \in {"ride", "arrive"}
      <4>1. prog[c] = "read" /\ Given(c, "wait")
        BY <1>5, <3>1, <3>4 DEF Talks, Shows
      <4>2. prog'[c] = "again" /\ toServer'[c] = << >> /\ toClient'[c] = << >>
        BY <1>4, <1>5, <4>1, MessagesAre DEF Shows, AfterFirst
      <4> QED BY <1>1, <3>4, <4>2 DEF InStep, Talks
    <3>5. thread[c] \notin {"question", "announce"}
      BY <1>5, <3>1 DEF Talks, Shows
    <3> QED BY <1>1, <3>1, <3>2, <3>3, <3>4, <3>5 DEF InStep, Talks
  <2> QED BY <1>1, <2>2, <2>3 DEF InStep
<1>6. CASE Ends(c)
  <2>1. Bounded(c)' BY <1>1, <1>6 DEF Ends
  <2>2. up => over[c] /\ thread[c] = "closed" BY <1>6 DEF Ends, Hung, Linked
  <2>3. InStep(c)' BY <1>1, <2>2 DEF InStep, Talks, LeftInOrder
  <2> QED BY <2>1, <2>3
<1>7. CASE Types(c)
  <2>1. CASE Hung(c) /\ toServer'[c] = toServer[c]
    <3>1. Bounded(c)' BY <1>1, <1>7, <2>1 DEF Types
    <3>2. up => over[c] /\ thread[c] = "closed" BY <1>7, <2>1 DEF Types, Hung, Linked
    <3>3. InStep(c)' BY <1>1, <1>7, <3>2 DEF InStep, Talks, LeftInOrder, Types
    <3> QED BY <3>1, <3>3
  <2>2. CASE ~Hung(c)
    <3>1. up /\ ~over[c] /\ Talks(c) BY <1>7, <2>2 DEF Hung, InStep, Types
    <3>2. thread[c] \in {"recv", "reply"} /\ Idle(c)
      BY <3>1, <1>7 DEF Talks, Types, Linked, ThreadTypeOK, Threads
    <3>3. Len(toServer'[c]) = 1 BY <1>4, <1>7, <2>2, <3>2 DEF Types
    <3>4. thread[c] = "reply" => seen[c] = "question" BY <1>7, <3>1 DEF Types, Talks
    <3>5. Bounded(c)' BY <1>1, <1>7, <3>2, <3>3, <3>4 DEF Types
    <3>6. InStep(c)' BY <1>1, <1>7, <2>2, <3>1, <3>2 DEF InStep, Talks, Types
    <3> QED BY <3>5, <3>6
  <2> QED BY <1>7, <2>1, <2>2 DEF Types
<1>8. CASE Leaves(c)
  <2>1. Bounded(c)' BY <1>1, <1>4, <1>8 DEF Leaves
  <2>2. InStep(c)' BY <1>1, <1>8 DEF Leaves, InStep, LeftInOrder, Talks
  <2> QED BY <2>1, <2>2
<1> QED BY <1>2, <1>5, <1>6, <1>7, <1>8

(* The steps of the server's threads. *)
LEMMA HandleLinked ==
  ASSUME CustomerTypeOK, ThreadTypeOK, NEW c \in Customers, Linked(c), Handle(c)
  PROVE  Linked(c)'
<1> USE MessagesAre DEF Linked, Gone
<1>1. prog' = prog /\ up /\ prog[c] # "new" /\ thread[c] \notin {"none", "closed"}
  <2>1. thread[c] \in {"recv", "question", "reply", "announce", "ride", "arrive"} /\ up
    BY DEF Handle, Order, OrderNothing, Inform, Unconfirmed, Confirm, Cancel, HangUp, Ask, Refuse,
      Wait, Announce, Ride, Arrive, Sends, Quietly, Goto
  <2>2. prog' = prog
    BY DEF Handle, Order, OrderNothing, Inform, Confirm, Cancel, HangUp, Ask, Refuse,
      Wait, Announce, Ride, Arrive, Reads, user
  <2> QED BY <2>1, <2>2
<1>2. ~over[c] BY <1>1
<1>3. CASE Cancel(c) \/ HangUp(c) \/ Refuse(c)
  <2>1. thread'[c] = "closed" BY <1>3, QuietlyDone DEF Cancel, HangUp, Refuse
  <2>2. over'[c] BY <1>3 DEF Cancel, HangUp, Refuse, Close, CustomerTypeOK
  <2> QED BY <1>1, <2>1, <2>2
<1>4. CASE Arrive(c)
  <2>1. Told(c, "arrival", "arrive", "closed") /\ over'[c]
    BY <1>4, SendsTold DEF Arrive, Close, CustomerTypeOK
  <2> QED BY <1>1, <2>1 DEF Told, Broken
<1>5. CASE ~(Cancel(c) \/ HangUp(c) \/ Refuse(c) \/ Arrive(c))
  <2>1. over' = over
    BY <1>5 DEF Handle, Order, OrderNothing, Inform, Confirm, Ask, Wait, Announce, Ride, Reads
  <2>2. thread'[c] \in {"recv", "question", "reply", "announce", "ride", "arrive"}
    <3>1. CASE Order(c)
      <4>1. Told(c, "list", "recv", "recv") BY <3>1, SendsTold DEF Order
      <4> QED BY <4>1 DEF Told
    <3>2. CASE OrderNothing(c)
      <4>1. Told(c, "list", "recv", "recv") \/ Quietly(c, "recv", "recv")
        BY <3>2, SendsTold DEF OrderNothing
      <4> QED BY <4>1, QuietlyDone DEF Told
    <3>3. CASE Inform(c)
      <4>1. Told(c, "info", "recv", "recv") BY <3>3, SendsTold DEF Inform, Unconfirmed
      <4> QED BY <4>1 DEF Told
    <3>4. CASE Confirm(c) BY <3>4, QuietlyDone DEF Confirm
    <3>5. CASE Ask(c)
      <4>1. Told(c, "question", "question", "reply") BY <3>5, SendsTold DEF Ask
      <4> QED BY <4>1 DEF Told
    <3>6. CASE Wait(c) BY <3>6, QuietlyDone DEF Wait
    <3>7. CASE Announce(c)
      <4>1. Told(c, "wait", "announce", "ride") BY <3>7, SendsTold DEF Announce
      <4> QED BY <4>1 DEF Told
    <3>8. CASE Ride(c) BY <3>8, QuietlyDone DEF Ride
    <3> QED BY <1>5, <3>1, <3>2, <3>3, <3>4, <3>5, <3>6, <3>7, <3>8 DEF Handle
  <2> QED BY <1>1, <1>2, <2>1, <2>2
<1> QED BY <1>3, <1>4, <1>5

(* A command of c is read and answered by m, in lock-step. *)
LEMMA AnsweredInStep ==
  ASSUME CustomerTypeOK, ThreadTypeOK, NEW c \in Customers \ Free,
         Linked(c), Bounded(c), InStep(c), NEW m \in Message \ {"wait"}, NEW words,
         Reads(c, words), Sends(c, m, "recv", "recv")
  PROVE  Bounded(c)' /\ InStep(c)'
<1> USE DEF Bounded, Gone
<1>1. toServer'[c] = << >> /\ toServer[c] # << >> BY ReadsType
<1>2. Told(c, m, "recv", "recv") BY SendsTold
<1>3. prog' = prog /\ over' = over /\ seen' = seen BY DEF Reads, user
<1>4. Len(<< >>) = 0 /\ Len(<<m>>) = 1 OBVIOUS
<1>5. CASE Gone(c)
  <2>1. ~reset[c] BY <1>1, <1>2, <1>5 DEF Told, InStep, LeftInOrder
  <2>2. up' /\ thread'[c] = "recv" /\ toClient'[c] = toClient[c]
    BY <1>2, <1>5, <2>1 DEF Told, Broken
  <2>3. Bounded(c)' BY <1>1, <1>3, <1>4, <1>5, <2>2
  <2> QED BY <1>1, <1>3, <1>5, <2>2, <2>3 DEF InStep, LeftInOrder
<1>6. CASE ~Gone(c)
  <2>1. prog[c] = "read" /\ toClient[c] = << >>
    BY <1>1, <1>2, <1>6 DEF Told, InStep, Talks, Idle, Asked, Given
  <2>2. up' /\ thread'[c] = "recv" /\ toClient'[c] = <<m>> /\ reset'[c] = reset[c]
    BY <1>2, <1>6, <2>1 DEF Told, Broken
  <2>3. Bounded(c)' BY <1>1, <1>3, <1>4, <1>6, <2>2
  <2> QED BY <1>1, <1>3, <2>1, <2>2, <2>3 DEF InStep, Talks, Given
<1> QED BY <1>5, <1>6

LEMMA HandleInStep ==
  ASSUME CustomerTypeOK, ThreadTypeOK, NEW c \in Customers \ Free,
         Linked(c), Bounded(c), InStep(c), Handle(c)
  PROVE  Bounded(c)' /\ InStep(c)'
<1> USE MessagesAre DEF Gone
<1>1. Len(<< >>) = 0 /\ \A m \in Message : Len(<<m>>) = 1 OBVIOUS
<1>2. CASE Order(c) BY <1>2, AnsweredInStep DEF Order
<1>3. CASE OrderNothing(c)
  <2>1. CASE Sends(c, "list", "recv", "recv") /\ Answered(c, TRUE)
    BY <1>3, <2>1, AnsweredInStep DEF OrderNothing
  <2>2. CASE Quietly(c, "recv", "recv") /\ Answered(c, FALSE)
    <3>1. toServer'[c] = << >> /\ toServer[c] # << >> BY <1>3, ReadsType DEF OrderNothing, Bounded
    <3>2. /\ up /\ up' /\ thread[c] = "recv" /\ thread'[c] = "recv"
          /\ toClient' = toClient /\ reset' = reset
      BY <2>2, QuietlyDone
    <3>3. prog' = prog /\ over' = over /\ seen' = seen BY <1>3 DEF OrderNothing, Reads, user
    <3>4. silent'[c] BY <2>2 DEF Answered, ThreadTypeOK
    <3>5. Bounded(c)' BY <1>1, <3>1, <3>2, <3>3 DEF Bounded
    <3>6. CASE Gone(c) BY <3>1, <3>2, <3>3, <3>5, <3>6 DEF InStep, LeftInOrder
    <3>7. CASE ~Gone(c)
      BY <3>1, <3>2, <3>3, <3>4, <3>5, <3>7 DEF InStep, Talks, Idle, Asked, Given
    <3> QED BY <3>6, <3>7
  <2> QED BY <1>3, <2>1, <2>2 DEF OrderNothing
<1>4. CASE Inform(c) BY <1>4, AnsweredInStep DEF Inform, Unconfirmed
<1>5. CASE Confirm(c)
  <2>1. toServer'[c] = << >> /\ toServer[c] # << >> BY <1>5, ReadsType DEF Confirm, Bounded
  <2>2. /\ up /\ up' /\ thread[c] = "recv" /\ thread'[c] \in {"question", "announce"}
        /\ toClient' = toClient /\ reset' = reset
    BY <1>5, QuietlyDone DEF Confirm
  <2>3. prog' = prog /\ over' = over /\ seen' = seen BY <1>5 DEF Confirm, Reads, user
  <2>4. Bounded(c)' BY <1>1, <2>1, <2>2, <2>3 DEF Bounded
  <2>5. CASE Gone(c) BY <2>1, <2>2, <2>3, <2>4, <2>5 DEF InStep, LeftInOrder
  <2>6. CASE ~Gone(c)
    BY <2>1, <2>2, <2>3, <2>4, <2>6 DEF InStep, Talks, Idle, Asked, Given
  <2> QED BY <2>5, <2>6
<1>6. CASE Cancel(c) \/ HangUp(c) \/ Refuse(c)
  <2>1. up' /\ thread'[c] = "closed" /\ toClient' = toClient /\ reset' = reset
    BY <1>6, QuietlyDone DEF Cancel, HangUp, Refuse
  <2>2. prog' = prog /\ seen' = seen /\ toServer' = toServer /\ over'[c]
    BY <1>6 DEF Cancel, HangUp, Refuse, Close, user, CustomerTypeOK
  <2>3. Bounded(c)' BY <2>1, <2>2 DEF Bounded
  <2>4. InStep(c)' BY <2>1, <2>2 DEF InStep, LeftInOrder, Talks
  <2> QED BY <2>3, <2>4
<1>7. CASE Ask(c)
  <2>1. Told(c, "question", "question", "reply") BY <1>7, SendsTold DEF Ask
  <2>2. prog' = prog /\ seen' = seen /\ toServer' = toServer /\ over' = over
    BY <1>7 DEF Ask, user
  <2>3. CASE Gone(c)
    <3>1. ~reset[c] /\ toServer[c] = << >> BY <2>1, <2>3 DEF Told, InStep, LeftInOrder
    <3>2. up' /\ thread'[c] = "reply" /\ toClient'[c] = toClient[c]
      BY <2>1, <2>3, <3>1 DEF Told, Broken
    <3>3. Bounded(c)' BY <2>2, <2>3, <3>1, <3>2 DEF Bounded
    <3> QED BY <2>2, <2>3, <3>1, <3>2, <3>3 DEF InStep, LeftInOrder
  <2>4. CASE ~Gone(c)
    <3>1. prog[c] = "read" /\ Idle(c) BY <2>1, <2>4 DEF Told, InStep, Talks
    <3>2. up' /\ thread'[c] = "reply" /\ toClient'[c] = <<"question">> /\ reset'[c] = reset[c]
      BY <2>1, <2>4, <3>1 DEF Told, Broken, Idle
    <3>3. Bounded(c)' BY <1>1, <2>2, <2>4, <3>1, <3>2 DEF Bounded, Idle
    <3> QED BY <2>2, <2>4, <3>1, <3>2, <3>3 DEF InStep, Talks, Idle, Given
  <2> QED BY <2>3, <2>4
<1>8. CASE Wait(c)
  <2>1. /\ up /\ up' /\ thread[c] = "reply" /\ thread'[c] = "announce"
        /\ toClient' = toClient /\ reset' = reset
    BY <1>8, QuietlyDone DEF Wait
  <2>2. prog' = prog /\ over' = over /\ seen' = seen BY <1>8 DEF Wait, Reads, user
  <2>3. CASE Gone(c)
    <3>1. toServer'[c] = << >> \/ toServer' = toServer
      BY <1>8, ReadsType DEF Wait, Bounded
    <3>2. Bounded(c)' BY <1>1, <2>1, <2>2, <2>3, <3>1 DEF Bounded
    <3> QED BY <2>1, <2>2, <2>3, <3>2 DEF InStep, LeftInOrder
  <2>4. CASE ~Gone(c)
    <3>1. toServer'[c] = << >> /\ toServer[c] # << >>
      BY <1>8, <2>4, ReadsType DEF Wait, HungUp, Bounded
    <3>2. prog[c] = "read" /\ toClient[c] = << >>
      BY <2>1, <2>4, <3>1 DEF InStep, Talks, Idle, Asked, Given
    <3>3. Bounded(c)' BY <1>1, <2>1, <2>2, <2>4, <3>1 DEF Bounded
    <3> QED BY <2>1, <2>2, <3>1, <3>2, <3>3 DEF InStep, Talks, Idle
  <2> QED BY <2>3, <2>4
<1>9. CASE Announce(c)
  <2>1. Told(c, "wait", "announce", "ride") BY <1>9, SendsTold DEF Announce
  <2>2. prog' = prog /\ seen' = seen /\ toServer' = toServer /\ over' = over
    BY <1>9 DEF Announce, user
  <2>3. CASE Gone(c)
    <3>1. /\ up' => thread'[c] = "ride"
          /\ thread'[c] # "reply" /\ toClient'[c] = toClient[c]
      BY <2>1, <2>3 DEF Told
    <3>2. Bounded(c)' BY <2>2, <2>3, <3>1 DEF Bounded
    <3> QED BY <2>2, <2>3, <3>1, <3>2 DEF InStep, LeftInOrder
  <2>4. CASE ~Gone(c)
    <3>1. prog[c] = "read" /\ Idle(c) BY <2>1, <2>4 DEF Told, InStep, Talks
    <3>2. up' /\ thread'[c] = "ride" /\ toClient'[c] = <<"wait">> /\ reset'[c] = reset[c]
      BY <2>1, <2>4, <3>1 DEF Told, Broken, Idle
    <3>3. Bounded(c)' BY <1>1, <2>2, <2>4, <3>1, <3>2 DEF Bounded, Idle
    <3> QED BY <2>2, <2>4, <3>1, <3>2, <3>3 DEF InStep, Talks, Idle, Given
  <2> QED BY <2>3, <2>4
<1>10. CASE Ride(c)
  <2>1. /\ up /\ up' /\ thread[c] = "ride" /\ thread'[c] = "arrive"
        /\ toClient' = toClient /\ reset' = reset
    BY <1>10, QuietlyDone DEF Ride
  <2>2. prog' = prog /\ seen' = seen /\ toServer' = toServer /\ over' = over
    BY <1>10 DEF Ride, user
  <2>3. Bounded(c)' BY <2>1, <2>2 DEF Bounded
  <2>4. InStep(c)' BY <2>1, <2>2 DEF InStep, LeftInOrder, Talks, Idle, Given
  <2> QED BY <2>3, <2>4
<1>11. CASE Arrive(c)
  <2>1. Told(c, "arrival", "arrive", "closed") BY <1>11, SendsTold DEF Arrive
  <2>2. prog' = prog /\ seen' = seen /\ toServer' = toServer /\ over'[c]
    BY <1>11 DEF Arrive, Close, user, CustomerTypeOK
  <2>3. thread'[c] # "reply" /\ (up' => thread'[c] = "closed") BY <2>1 DEF Told
  <2>4. InStep(c)' BY <2>3 DEF InStep, LeftInOrder, Talks
  <2>5. ~over[c] BY <2>1 DEF Told, Linked
  <2>6. Len(toClient'[c]) <= 2
    <3>1. Len(toClient[c]) \in Nat BY DEF CustomerTypeOK
    <3> QED BY <2>1, <2>5, <3>1 DEF Told, Bounded
  <2>7. Bounded(c)' BY <2>1, <2>2, <2>3, <2>6 DEF Told, Bounded
  <2> QED BY <2>4, <2>7
<1> QED BY <1>2, <1>3, <1>4, <1>5, <1>6, <1>7, <1>8, <1>9, <1>10, <1>11 DEF Handle

LEMMA AcceptInv ==
  ASSUME CustomerTypeOK, ThreadTypeOK, NEW c \in Customers, Linked(c), Accept(c) \/ TurnAway(c)
  PROVE  Linked(c)' /\ (c \notin Free => Bounded(c)' /\ InStep(c)')
<1> USE MessagesAre DEF Gone
<1>1. /\ prog[c] = "new" /\ prog'[c] = IF c \in Free THEN "free" ELSE "read"
      /\ toServer' = toServer /\ seen' = seen /\ greets' = greets
  BY DEF Accept, TurnAway, Connected, CustomerTypeOK
<1>2. /\ toServer[c] = << >> /\ toClient[c] = << >> /\ ~reset[c] /\ seen[c] = None
      /\ thread[c] = "none"
  BY <1>1 DEF Linked
<1>3. Len(<< >>) = 0 /\ Len(<<"hello">>) = 1 OBVIOUS
<1>4. CASE Accept(c) /\ greets
  <2>1. Told(c, "hello", "none", "recv") /\ over' = over BY <1>4, SendsTold DEF Accept
  <2>2. up' /\ thread'[c] = "recv" /\ reset'[c] = reset[c] /\ ~over[c]
    BY <1>1, <1>2, <2>1 DEF Told, Broken, Linked
  <2>3. c \notin Free => toClient'[c] = <<"hello">> BY <1>1, <1>2, <2>1 DEF Told, Broken
  <2>4. Linked(c)' BY <1>1, <2>1, <2>2 DEF Linked
  <2>5. ASSUME c \notin Free PROVE Bounded(c)'
    <3>1. Len(toServer'[c]) = 0 /\ Len(toClient'[c]) = 1 BY <1>1, <1>2, <1>3, <2>3, <2>5
    <3> QED BY <1>1, <1>2, <2>2, <2>5, <3>1 DEF Bounded
  <2>6. c \notin Free => InStep(c)' BY <1>1, <1>2, <2>2, <2>3 DEF InStep, Talks, Given
  <2> QED BY <2>4, <2>5, <2>6
<1>5. CASE Accept(c) /\ ~greets
  <2>1. /\ up /\ up' /\ thread'[c] = "recv" /\ toClient' = toClient /\ reset' = reset
        /\ over' = over
    BY <1>5, QuietlyDone DEF Accept
  <2>2. ~over[c] BY <1>1, <1>2, <2>1 DEF Linked
  <2>3. Linked(c)' BY <1>1, <2>1, <2>2 DEF Linked
  <2>4. c \notin Free => Bounded(c)' BY <1>1, <1>2, <1>3, <2>1 DEF Bounded
  <2>5. c \notin Free => InStep(c)' BY <1>1, <1>2, <1>5, <2>1 DEF InStep, Talks, Idle
  <2> QED BY <2>3, <2>4, <2>5
<1>6. CASE TurnAway(c)
  <2>1. /\ up /\ up' /\ thread'[c] = "closed" /\ toClient' = toClient /\ reset' = reset
        /\ over'[c]
    BY <1>6, QuietlyDone DEF TurnAway, Close, CustomerTypeOK
  <2>2. Linked(c)' BY <1>1, <2>1 DEF Linked
  <2>3. c \notin Free => Bounded(c)' BY <1>1, <1>2, <1>3, <2>1 DEF Bounded
  <2>4. c \notin Free => InStep(c)' BY <1>1, <2>1 DEF InStep, Talks
  <2> QED BY <2>2, <2>3, <2>4
<1> QED BY <1>4, <1>5, <1>6

(* A program that is gone does nothing any more, nor does a server.          *)
LEMMA StaysGone ==
  ASSUME CustomerTypeOK, ThreadTypeOK, NEW c \in Customers, Moves(c)
  PROVE  /\ \A d \in Customers : Gone(d) => Gone(d)'
         /\ ~up => up' = up /\ UNCHANGED thread
<1> USE MessagesAre
<1>1. CASE Runs(c) \/ Typed(c)
  <2>1. prog[c] # "gone"
    BY <1>1 DEF Runs, Typed, Program, User, ReadFirst, ReadAgain, ReadEnd, ReadAgainEnd, Listen,
      Type, TypeAhead, Leave
  <2> QED BY <1>1, <2>1, UserFrame DEF Gone, Same, Runs, Typed
<1>2. CASE Handle(c)
  <2>1. up
    BY <1>2 DEF Handle, Order, OrderNothing, Inform, Unconfirmed, Confirm, Cancel, HangUp, Ask,
      Refuse, Wait, Announce, Ride, Arrive, Sends, Quietly, Goto
  <2>2. prog' = prog
    BY <1>2 DEF Handle, Order, OrderNothing, Inform, Confirm, Cancel, HangUp, Ask, Refuse,
      Wait, Announce, Ride, Arrive, Reads, user
  <2> QED BY <2>1, <2>2 DEF Gone
<1>3. CASE Accept(c) \/ TurnAway(c)
  <2>1. up BY <1>3 DEF Accept, TurnAway, Sends, Quietly, Goto
  <2> QED BY <1>3, <2>1 DEF Accept, TurnAway, Connected, Gone, CustomerTypeOK
<1> QED BY <1>1, <1>2, <1>3 DEF Moves

(* The step of which the server dies. *)
LEMMA DiesOfOne ==
  ASSUME CustomerTypeOK, ThreadTypeOK, NEW c \in Customers, Linked(c),
         c \notin Free => Bounded(c) /\ InStep(c), Moves(c), up, ~up'
  PROVE  Gone(c)' /\ (c \in Free \/ thread'[c] \in {"announce", "arrive"})
<1> USE MessagesAre
<1>1. CASE Runs(c) \/ Typed(c) BY <1>1, UserFrame DEF Runs, Typed
<1>2. CASE Accept(c) \/ TurnAway(c)
  <2>1. prog[c] = "new" BY <1>2 DEF Accept, TurnAway, Connected
  <2>2. CASE Accept(c) /\ greets
    <3>1. Told(c, "hello", "none", "recv") BY <2>2, SendsTold DEF Accept
    <3> QED BY <2>1, <3>1 DEF Told, Broken, Gone
  <2> QED BY <1>2, <2>2, QuietlyDone DEF Accept, TurnAway
<1>3. CASE Handle(c)
  <2>1. prog' = prog
    BY <1>3 DEF Handle, Order, OrderNothing, Inform, Confirm, Cancel, HangUp, Ask, Refuse,
      Wait, Announce, Ride, Arrive, Reads, user
  <2>2. CASE toServer[c] # << >> /\ \E m \in Message : Sends(c, m, "recv", "recv")
    <3>1. PICK m \in Message : Told(c, m, "recv", "recv") BY <2>2, SendsTold
    <3> QED BY <2>1, <2>2, <3>1 DEF Told, Broken, Gone, InStep, LeftInOrder
  <2>3. CASE Ask(c)
    <3>1. Told(c, "question", "question", "reply") BY <2>3, SendsTold DEF Ask
    <3> QED BY <2>1, <3>1 DEF Told, Broken, Gone, InStep, LeftInOrder
  <2>4. CASE Announce(c)
    <3>1. Told(c, "wait", "announce", "ride") BY <2>4, SendsTold DEF Announce
    <3> QED BY <2>1, <3>1 DEF Told, Broken, Gone
  <2>5. CASE Arrive(c)
    <3>1. Told(c, "arrival", "arrive", "closed") BY <2>5, SendsTold DEF Arrive
    <3> QED BY <2>1, <3>1 DEF Told, Broken, Gone
  <2>6. CASE \E a, b : Quietly(c, a, b) BY <2>6, QuietlyDone
  <2>7. CASE Order(c) BY <2>7, <2>2 DEF Order, Reads
  <2>8. CASE OrderNothing(c) BY <2>8, <2>2, <2>6 DEF OrderNothing, Reads
  <2>9. CASE Inform(c) BY <2>9, <2>2 DEF Inform, Unconfirmed, Reads
  <2> QED
    BY <1>3, <2>3, <2>4, <2>5, <2>6, <2>7, <2>8, <2>9
    DEF Handle, Confirm, Cancel, HangUp, Refuse, Wait, Ride
<1> QED BY <1>1, <1>2, <1>3 DEF Moves

LEMMA ConversationNextInv == ConversationInv /\ [Next]_talk => ConversationInv'
<1> SUFFICES ASSUME ConversationInv, [Next]_talk PROVE ConversationInv' OBVIOUS
<1> USE DEF ConversationInv
<1>1. ASSUME NEW c \in Customers, Moves(c) PROVE ConversationInv'
  <2>1. CustomerTypeOK' /\ ThreadTypeOK' BY <1>1, MovesType
  <2>2. Alone(c) BY <1>1, MovesAlone
  <2>3. Linked(c)' /\ (c \notin Free => Bounded(c)' /\ InStep(c)')
    <3>1. CASE Accept(c) \/ TurnAway(c) BY <3>1, AcceptInv
    <3>2. CASE Handle(c) BY <3>2, HandleLinked, HandleInStep
    <3>3. CASE Runs(c) \/ Typed(c)
      <4>1. /\ Program(c) \/ User(c)
            /\ UNCHANGED <<thread, silent, greets>> BY <3>3 DEF Runs, Typed, session
      <4>2. c \notin Free => prog[c] # "free" BY DEF Bounded
      <4> QED BY <4>1, <4>2, UserLinked, UserInStep
    <3> QED BY <1>1, <3>1, <3>2, <3>3 DEF Moves
  <2>4. \A d \in Customers : Linked(d)' BY <2>2, <2>3, OthersKept
  <2>5. \A d \in Customers \ Free : Bounded(d)' /\ InStep(d)' BY <2>2, <2>3, OthersKept
  <2>6. DiesOfAbandonedRide'
    <3>1. CASE ~up
      <4>1. PICK d \in Customers :
              Gone(d) /\ (d \in Free \/ thread[d] \in {"announce", "arrive"})
        BY <3>1 DEF DiesOfAbandonedRide
      <4> QED BY <1>1, <3>1, <4>1, StaysGone DEF DiesOfAbandonedRide
    <3>2. CASE up /\ ~up' BY <1>1, <3>2, DiesOfOne DEF DiesOfAbandonedRide
    <3> QED BY <3>1, <3>2 DEF DiesOfAbandonedRide
  <2> QED BY <2>1, <2>4, <2>5, <2>6
<1>2. CASE UNCHANGED talk
  <2>1. CustomerTypeOK' /\ ThreadTypeOK'
    BY <1>2 DEF talk, customer, wires, user, session, CustomerTypeOK, ThreadTypeOK
  <2>2. (\A c \in Customers : Linked(c))'
    BY <1>2 DEF talk, customer, wires, user, session, Linked, Gone
  <2>3. (\A c \in Customers \ Free : Bounded(c) /\ InStep(c))'
    BY <1>2 DEF talk, customer, wires, user, session, Bounded, InStep, LeftInOrder, Talks, Gone,
      Idle, Given, Asked
  <2>4. DiesOfAbandonedRide'
    BY <1>2 DEF talk, customer, wires, user, session, DiesOfAbandonedRide, Gone
  <2> QED BY <2>1, <2>2, <2>3, <2>4
<1> QED BY <1>1, <1>2 DEF Next, Moves

LEMMA ConversationInitInv == Init => ConversationInv
<1> SUFFICES ASSUME Init PROVE ConversationInv OBVIOUS
<1>1. << >> \in Seq(Commands) /\ << >> \in Seq(Message) /\ Len(<< >>) = 0 OBVIOUS
<1>2. CustomerTypeOK BY <1>1 DEF Init, CInit, CustomerTypeOK
<1>3. ThreadTypeOK BY DEF Init, ThreadTypeOK, Threads
<1>4. \A c \in Customers : Linked(c) BY DEF Init, CInit, Linked
<1>5. ASSUME NEW c \in Customers \ Free PROVE Bounded(c)
  <2>1. toServer[c] = << >> /\ toClient[c] = << >> /\ prog[c] = "new" /\ ~reset[c]
        /\ thread[c] = "none"
    BY DEF Init, CInit
  <2>2. Len(toServer[c]) = 0 /\ Len(toClient[c]) = 0 BY <1>1, <2>1
  <2> QED BY <2>1, <2>2 DEF Bounded
<1>6. \A c \in Customers \ Free : InStep(c) BY DEF Init, CInit, InStep, Talks, Gone
<1>7. DiesOfAbandonedRide BY DEF Init, CInit, DiesOfAbandonedRide
<1> QED BY <1>2, <1>3, <1>4, <1>5, <1>6, <1>7 DEF ConversationInv

LEMMA ConversationSpecInv == Spec => []ConversationInv
  BY ConversationInitInv, ConversationNextInv, PTL DEF Spec

(* Every variable stays in its range, and client.c bounds what is on its way.*)
THEOREM ConversationTypesCorrect == Spec => []TypeOK
<1>1. ConversationInv => TypeOK
  BY DEF ConversationInv, CustomerTypeOK, ThreadTypeOK, Threads, Bounded, TypeOK
<1> QED BY <1>1, ConversationSpecInv, PTL

(* Whoever uses client.c waits for a server that waits for him only after an *)
(* order that is not answered, or at the beginning.                          *)
THEOREM OnlySilenceHangs == Spec => []OnlySilenceDeadlocks
<1>1. ConversationInv => OnlySilenceDeadlocks
  <2> SUFFICES ASSUME ConversationInv, NEW c \in Customers, WaitForEachOther(c)
               PROVE  silent[c] \/ (~greets /\ seen[c] = None)
    BY DEF OnlySilenceDeadlocks
  <2>1. c \notin Free BY DEF ConversationInv, Linked, WaitForEachOther
  <2>2. up /\ ~Gone(c) /\ Talks(c)
    BY <2>1 DEF ConversationInv, InStep, WaitForEachOther, Gone
  <2> QED BY <2>2 DEF WaitForEachOther, Talks, Idle, Given, Asked
<1> QED BY <1>1, ConversationSpecInv, PTL

(* The server dies only of who left after "confirm", or of who types ahead.  *)
THEOREM OnlyAbandonedRideKills == Spec => []DiesOfAbandonedRide
<1>1. ConversationInv => DiesOfAbandonedRide BY DEF ConversationInv
<1> QED BY <1>1, ConversationSpecInv, PTL

(* The reply that the server takes is typed at the question, with client.c.  *)
THEOREM RepliesAnswerTheQuestion == Spec => []ReplyIsToTheQuestion
<1>1. ConversationInv => ReplyIsToTheQuestion
  BY DEF ConversationInv, Bounded, ReplyIsToTheQuestion
<1> QED BY <1>1, ConversationSpecInv, PTL

-----------------------------------------------------------------------------
(* HelloServer: the queue. *)

Queued(c) == \E i \in 1 .. Len(queue) : queue[i] = c

BeingServed(c) == at # "accept" /\ c = connfd

(* Who is queued or served is connected, and, with client.c, still waits for *)
(* the first message: he has typed nothing.                                  *)
Attended(c) ==
  /\ Queued(c) => ~BeingServed(c) /\ ~over[c]
  /\ BeingServed(c) => ~over[c]
  /\ prog[c] = "new" => ~Queued(c) /\ ~BeingServed(c) /\ Idle(c) /\ ~over[c]
  /\ c \notin Free => prog[c] # "free"
  /\ c \notin Free /\ (Queued(c) \/ (BeingServed(c) /\ at # "close")) =>
       prog[c] \in {"read", "gone"} /\ Idle(c)

HelloInv ==
  /\ CustomerTypeOK /\ up
  /\ at \in {"accept", "read", "send", "close"} /\ connfd \in Customers \cup {None}
  /\ at # "accept" => connfd \in Customers
  /\ queue \in Seq(Customers)
  /\ \A i, j \in 1 .. Len(queue) : queue[i] = queue[j] => i = j
  /\ \A c \in Customers : Attended(c)

LEMMA Appended ==
  ASSUME NEW S, NEW s \in Seq(S), NEW e \in S
  PROVE  /\ Append(s, e) \in Seq(S) /\ Len(Append(s, e)) = Len(s) + 1
         /\ \A i \in 1 .. Len(s) : Append(s, e)[i] = s[i]
         /\ Append(s, e)[Len(s) + 1] = e
  OBVIOUS

LEMMA FirstTaken ==
  ASSUME NEW S, NEW s \in Seq(S), s # << >>
  PROVE  /\ Tail(s) \in Seq(S) /\ Len(s) \in Nat \ {0} /\ Len(Tail(s)) = Len(s) - 1
         /\ \A i \in 1 .. Len(s) - 1 : Tail(s)[i] = s[i + 1]
         /\ Head(s) = s[1] /\ Head(s) \in S
  OBVIOUS

LEMMA ConnectInv ==
  ASSUME HelloInv, NEW c \in Customers, Connect(c)
  PROVE  HelloInv'
<1> USE DEF HelloInv
<1>1. /\ prog[c] = "new" /\ prog' = [prog EXCEPT ![c] = IF c \in Free THEN "free" ELSE "read"]
      /\ queue' = Append(queue, c)
      /\ UNCHANGED <<up, toServer, toClient, over, reset, seen, joined, at, connfd>>
  BY DEF Connect, Connected, wires
<1>2. CustomerTypeOK' BY <1>1 DEF CustomerTypeOK
<1>3. PICK n \in Nat : n = Len(queue) OBVIOUS
<1>4. /\ queue' \in Seq(Customers) /\ Len(queue') = n + 1
      /\ \A i \in 1 .. n : queue'[i] = queue[i]
      /\ queue'[n + 1] = c
  BY <1>1, <1>3, Appended
<1>5. ~Queued(c) /\ ~BeingServed(c) /\ Idle(c) /\ ~over[c] BY <1>1 DEF Attended
<1>6. \A i, j \in 1 .. Len(queue') : queue'[i] = queue'[j] => i = j
  BY <1>3, <1>4, <1>5 DEF Queued
<1>7. \A d \in Customers : Queued(d)' => Queued(d) \/ d = c
  BY <1>3, <1>4 DEF Queued
<1>8. ASSUME NEW d \in Customers PROVE Attended(d)'
  <2>1. BeingServed(d)' = BeingServed(d) /\ Idle(d)' = Idle(d) /\ over'[d] = over[d]
    BY <1>1 DEF BeingServed, Idle
  <2>2. CASE d = c
    BY <1>1, <1>5, <2>1, <2>2 DEF Attended, CustomerTypeOK
  <2>3. CASE d # c
    <3>1. prog'[d] = prog[d] BY <1>1, <2>3 DEF CustomerTypeOK
    <3>2. Queued(d)' => Queued(d) BY <1>7, <2>3
    <3> QED BY <1>1, <2>1, <3>1, <3>2 DEF Attended
  <2> QED BY <2>2, <2>3
<1> QED BY <1>1, <1>2, <1>4, <1>6, <1>8

LEMMA HelloAcceptInv ==
  ASSUME HelloInv, HelloAccept
  PROVE  HelloInv'
<1> USE DEF HelloInv
<1>1. /\ at = "accept" /\ at' = "read" /\ queue # << >>
      /\ connfd' = Head(queue) /\ queue' = Tail(queue)
      /\ UNCHANGED <<up, toServer, toClient, over, reset, prog, seen, joined>>
  BY DEF HelloAccept, At, customer, wires, user
<1>2. CustomerTypeOK' BY <1>1 DEF CustomerTypeOK
<1>3. PICK n \in Nat \ {0} : n = Len(queue) BY <1>1, FirstTaken
<1>4. /\ queue' \in Seq(Customers) /\ Len(queue') = n - 1
      /\ \A i \in 1 .. n - 1 : queue'[i] = queue[i + 1]
      /\ connfd' = queue[1] /\ connfd' \in Customers
  BY <1>1, <1>3, FirstTaken
<1>5. \A i, j \in 1 .. Len(queue') : queue'[i] = queue'[j] => i = j
  BY <1>3, <1>4
<1>6. Queued(connfd') BY <1>3, <1>4 DEF Queued
<1>7. \A d \in Customers : Queued(d)' => Queued(d) /\ d # connfd'
  BY <1>3, <1>4 DEF Queued
<1>8. ASSUME NEW d \in Customers PROVE Attended(d)'
  <2>1. BeingServed(d)' = (d = connfd') /\ ~BeingServed(d) /\ Idle(d)' = Idle(d)
    BY <1>1 DEF BeingServed, Idle
  <2> QED BY <1>1, <1>6, <1>7, <2>1 DEF Attended
<1> QED BY <1>1, <1>2, <1>4, <1>5, <1>8

LEMMA MainInv ==
  ASSUME HelloInv, Read \/ SendHello \/ CloseConnection
  PROVE  HelloInv'
<1> USE MessagesAre DEF HelloInv
<1>1. /\ at # "accept" /\ connfd \in Customers /\ connfd' = connfd
      /\ up' = up /\ queue' = queue
      /\ prog' = prog /\ seen' = seen /\ joined' = joined
  BY DEF Read, SendHello, CloseConnection, At, user
<1>2. CASE Read
  <2>1. /\ at = "read" /\ at' = "send" /\ toServer' = [toServer EXCEPT ![connfd] = << >>]
        /\ UNCHANGED <<toClient, over, reset>>
    BY <1>2 DEF Read, At
  <2>2. CustomerTypeOK'
    <3>1. << >> \in Seq(Commands) OBVIOUS
    <3> QED BY <1>1, <2>1, <3>1 DEF CustomerTypeOK
  <2>3. ASSUME NEW d \in Customers PROVE Attended(d)'
    <3>1. Idle(d) => Idle(d)' BY <1>1, <2>1 DEF Idle, CustomerTypeOK
    <3>2. BeingServed(d)' = BeingServed(d) /\ Queued(d)' = Queued(d)
      BY <1>1, <2>1 DEF BeingServed, Queued
    <3> QED BY <1>1, <2>1, <3>1, <3>2 DEF Attended
  <2> QED BY <1>1, <2>1, <2>2, <2>3
<1>3. CASE SendHello
  <2>1. at = "send" /\ at' = "close" /\ Send(connfd, "hello") /\ UNCHANGED <<toServer, over>>
    BY <1>3 DEF SendHello, At
  <2>2. CustomerTypeOK' BY <1>1, <2>1, SendType DEF CustomerTypeOK
  <2>3. ASSUME NEW d \in Customers PROVE Attended(d)'
    <3>1. d # connfd => Idle(d)' = Idle(d) BY <1>1, <2>1 DEF Send, Idle, CustomerTypeOK
    <3>2. BeingServed(d)' = BeingServed(d) /\ Queued(d)' = Queued(d)
      BY <1>1, <2>1 DEF BeingServed, Queued
    <3>3. CASE d = connfd
      <4>1. BeingServed(d) /\ ~Queued(d) /\ ~over[d] /\ prog[d] # "new"
        BY <1>1, <3>3 DEF BeingServed, Attended
      <4> QED BY <1>1, <2>1, <3>2, <4>1 DEF Attended
    <3>4. CASE d # connfd
      BY <1>1, <2>1, <3>1, <3>2, <3>4 DEF Attended, BeingServed
    <3> QED BY <3>3, <3>4
  <2> QED BY <1>1, <2>1, <2>2, <2>3
<1>4. CASE CloseConnection
  <2>1. /\ at = "close" /\ at' = "accept" /\ over' = [over EXCEPT ![connfd] = TRUE]
        /\ UNCHANGED <<toServer, toClient, reset>>
    BY <1>4 DEF CloseConnection, Served, At
  <2>2. CustomerTypeOK' BY <1>1, <2>1 DEF CustomerTypeOK
  <2>3. ASSUME NEW d \in Customers PROVE Attended(d)'
    <3>1. ~BeingServed(d)' /\ Queued(d)' = Queued(d) /\ Idle(d)' = Idle(d)
      BY <1>1, <2>1 DEF BeingServed, Queued, Idle
    <3>2. CASE d = connfd
      <4>1. BeingServed(d) /\ ~Queued(d) /\ prog[d] # "new"
        BY <1>1, <3>2 DEF BeingServed, Attended
      <4> QED BY <1>1, <3>1, <4>1 DEF Attended
    <3>3. CASE d # connfd
      <4>1. over'[d] = over[d] BY <2>1, <3>3 DEF CustomerTypeOK
      <4> QED BY <1>1, <3>1, <4>1 DEF Attended
    <3> QED BY <3>2, <3>3
  <2> QED BY <1>1, <2>1, <2>2, <2>3
<1> QED BY <1>2, <1>3, <1>4

(* While he waits the program of a customer with client.c can only leave.    *)
LEMMA ProgramsInv ==
  ASSUME HelloInv, NEW c \in Customers, Program(c) \/ User(c), UNCHANGED loop
  PROVE  HelloInv'
<1> USE DEF HelloInv
<1>1. CustomerTypeOK' BY ProgramType, UserType
<1>2. up' = up /\ over' = over /\ (\A d \in Customers \ {c} : Same(d)) BY UserFrame
<1>3. UNCHANGED <<at, connfd, queue>> BY DEF loop
<1>4. \A d \in Customers : Queued(d)' = Queued(d) /\ BeingServed(d)' = BeingServed(d)
  BY <1>3 DEF Queued, BeingServed
<1>5. prog[c] \notin {"new", "gone"}
  BY DEF Program, User, ReadFirst, ReadAgain, ReadEnd, ReadAgainEnd, Listen, Type, TypeAhead,
    Leave
<1>6. CASE c \in Free
  <2>1. prog'[c] # "new"
    BY <1>5 DEF Program, User, ReadFirst, ReadAgain, ReadEnd, ReadAgainEnd, Listen, Type, TypeAhead,
      Leave, Show, AfterFirst, AfterTyped, Closed, user, CustomerTypeOK
  <2>2. ASSUME NEW d \in Customers PROVE Attended(d)'
    BY <1>2, <1>3, <1>4, <1>6, <2>1 DEF Attended, Same, Idle
  <2> QED BY <1>1, <1>2, <1>3, <2>2
<1>7. CASE c \notin Free
  <2>1. Shows(c) \/ Ends(c) \/ Types(c) \/ Leaves(c) BY <1>7, LockStepMove DEF Attended
  <2>2. prog'[c] \notin {"new", "free"}
    BY <2>1 DEF Shows, Ends, Types, Leaves, AfterFirst
  <2>3. ASSUME Queued(c) \/ (BeingServed(c) /\ at # "close")
        PROVE  prog'[c] = "gone" /\ Idle(c)'
    <3>1. prog[c] = "read" /\ Idle(c) /\ ~over[c] BY <1>5, <1>7, <2>3 DEF Attended
    <3>2. Leaves(c) BY <2>1, <3>1 DEF Shows, Ends, Types, Idle, Hung
    <3> QED BY <3>1, <3>2 DEF Leaves, Idle
  <2>4. ASSUME NEW d \in Customers PROVE Attended(d)'
    <3>1. CASE d = c BY <1>2, <1>3, <1>4, <1>7, <2>2, <2>3, <3>1 DEF Attended
    <3>2. CASE d # c BY <1>2, <1>3, <1>4, <3>2 DEF Attended, Same, Idle
    <3> QED BY <3>1, <3>2
  <2> QED BY <1>1, <1>2, <1>3, <2>4
<1> QED BY <1>6, <1>7

LEMMA HelloNextInv == HelloInv /\ [HelloNext]_hello => HelloInv'
<1> SUFFICES ASSUME HelloInv, [HelloNext]_hello PROVE HelloInv' OBVIOUS
<1>1. CASE UNCHANGED hello
  BY <1>1 DEF hello, customer, wires, user, loop, HelloInv, CustomerTypeOK, Attended, Queued,
    BeingServed, Idle
<1> QED
  BY <1>1, ConnectInv, HelloAcceptInv, MainInv, ProgramsInv DEF HelloNext, Main

LEMMA HelloInitInv == HelloInit => HelloInv
<1> SUFFICES ASSUME HelloInit PROVE HelloInv OBVIOUS
<1>1. /\ << >> \in Seq(Commands) /\ << >> \in Seq(Message) /\ << >> \in Seq(Customers)
      /\ Len(<< >>) = 0
  OBVIOUS
<1>2. CustomerTypeOK BY <1>1 DEF HelloInit, CInit, CustomerTypeOK
<1>3. queue = << >> /\ Len(queue) = 0 /\ at = "accept" /\ connfd = None /\ up
  BY <1>1 DEF HelloInit, CInit
<1>4. ASSUME NEW c \in Customers PROVE Attended(c)
  <2>1. ~Queued(c) BY <1>3 DEF Queued
  <2>2. ~BeingServed(c) BY <1>3 DEF BeingServed
  <2>3. prog[c] = "new" /\ ~over[c] /\ Idle(c) BY DEF HelloInit, CInit, Idle
  <2> QED BY <2>1, <2>2, <2>3 DEF Attended
<1> QED BY <1>1, <1>2, <1>3, <1>4 DEF HelloInv

LEMMA HelloSpecInv == HelloSpec => []HelloInv
  BY HelloInitInv, HelloNextInv, PTL DEF HelloSpec

(* Every variable stays in its range; a queued customer has connected. *)
THEOREM HelloTypesCorrect == HelloSpec => []HelloTypeOK
<1>1. HelloInv => HelloTypeOK
  <2> SUFFICES ASSUME HelloInv PROVE HelloTypeOK OBVIOUS
  <2>1. queue \in Seq({c \in Customers : prog[c] # "new"})
    <3>1. \A i \in 1 .. Len(queue) : queue[i] \in Customers /\ prog[queue[i]] # "new"
      <4> SUFFICES ASSUME NEW i \in 1 .. Len(queue)
                   PROVE  queue[i] \in Customers /\ prog[queue[i]] # "new"
        OBVIOUS
      <4>1. queue[i] \in Customers BY DEF HelloInv
      <4>2. Attended(queue[i]) BY <4>1 DEF HelloInv
      <4> QED BY <4>1, <4>2 DEF Attended, Queued
    <3> QED BY <3>1 DEF HelloInv
  <2> QED BY <2>1 DEF HelloInv, CustomerTypeOK, HelloTypeOK
<1> QED BY <1>1, HelloSpecInv, PTL

(* A customer with client.c holds the server, once accepted, until he gives  *)
(* up: client and server wait for each other.                                *)
THEOREM LockStepHolds == HelloSpec => LockStepHoldsServer
<1>1. HelloInv /\ [HelloNext]_hello =>
        [at = "read" /\ connfd \notin Free /\ at' # "read" => Gone(connfd)]_hello
  <2> SUFFICES ASSUME HelloInv, HelloNext, at = "read", connfd \notin Free, at' # "read"
               PROVE  Gone(connfd)
    OBVIOUS
  <2>1. Read
    BY DEF HelloNext, Main, HelloAccept, SendHello, CloseConnection, At, Connect, loop
  <2>2. connfd \in Customers /\ BeingServed(connfd) BY DEF HelloInv, BeingServed
  <2>3. toServer[connfd] = << >> BY <2>2 DEF HelloInv, Attended, Idle
  <2> QED BY <2>1, <2>3 DEF Read, HasRead
<1> QED BY <1>1, HelloSpecInv, PTL DEF HelloSpec, LockStepHoldsServer

=============================================================================
