---------------------------- MODULE Labs_proofs ----------------------------
(***************************************************************************)
(* Proofs about the two labs whose programs are chains of processes: the   *)
(* train server of lab5, for any number of clients, and the name display   *)
(* of lab4, for a name of any length, patterns and a stream of any width.  *)
(*                                                                         *)
(* TrainServer: no ended child is forgotten, and connections are held by   *)
(* their own trains.  Its invariants are not inductive alone: what fork    *)
(* copies is right because main holds exactly the connection it has just   *)
(* accepted, and that one has no child yet.                                *)
(*                                                                         *)
(* NameDisplay: what the display shows is said from its end of the chain   *)
(* back to led, by what each buffer on the way holds of which letter.      *)
(***************************************************************************)
EXTENDS TrainServer, NameDisplay, TLAPS

-----------------------------------------------------------------------------
(* lab5: the train server. *)


(* A connection that main holds is accepted and, before the fork, has no     *)
(* child; who is not accepted has none either.                               *)
MainHolds ==
  /\ main = "fork" =>
       conn[connfd] = "accepted" /\ child[connfd] = "none" /\ connfd \in fds[Server]
  /\ \A c \in Clients : conn[c] # "accepted" => child[c] = "none"

(* A child holds its connection from the fork on. *)
ChildHolds == \A c \in Clients : child[c] = "forked" => c \in fds[c]

(* A server that has exited has nothing left to handle. *)
ExitedIsQuiet == main = "exited" => Ended = {} /\ ~pending /\ ~handler

IInv == TypeOK /\ MainHolds /\ ChildHolds /\ ExitedIsQuiet /\ NoZombieForgotten /\ HeldByItsTrain

(* The initial state: nobody holds or waits for anything. *)
LEMMA InitIsInv == Init => IInv
<1> SUFFICES ASSUME Init PROVE IInv
  OBVIOUS
<1> USE TrainAssumption DEF Init, Processes
<1>1. TypeOK
  BY DEF TypeOK
<1>2. MainHolds /\ ChildHolds /\ ExitedIsQuiet
  BY DEF MainHolds, ChildHolds, ExitedIsQuiet
<1>3. NoZombieForgotten
  BY DEF NoZombieForgotten, Ended
<1>4. HeldByItsTrain
  BY DEF HeldByItsTrain
<1> QED BY <1>1, <1>2, <1>3, <1>4 DEF IInv

(* What main does: accept, fork, its failure, close. *)
LEMMA MainKeepsInv ==
  ASSUME IInv, Main
  PROVE  IInv'
<1> USE TrainAssumption DEF Processes, MainGoto
<1>1. CASE \E c \in Clients : Accept(c)
  <2>1. TypeOK'
    BY <1>1 DEF Accept, IInv, TypeOK
  <2>2. MainHolds' /\ ChildHolds'
    BY <1>1 DEF Accept, IInv, TypeOK, MainHolds, ChildHolds, HeldByItsTrain
  <2>3. ExitedIsQuiet' /\ NoZombieForgotten'
    BY <1>1 DEF Accept, IInv, TypeOK, ExitedIsQuiet, NoZombieForgotten, Ended
  <2>4. HeldByItsTrain'
    BY <1>1 DEF Accept, IInv, TypeOK, HeldByItsTrain, MainHolds, ChildHolds
  <2> QED BY <2>1, <2>2, <2>3, <2>4 DEF IInv
<1>2. CASE Fork
  <2>1. connfd \in Clients /\ fds[Server] = {connfd} /\ child[connfd] = "none"
    BY <1>2 DEF Fork, IInv, TypeOK, MainHolds, HeldByItsTrain
  <2>2. fds' = [fds EXCEPT ![connfd] = {connfd}]
    BY <1>2, <2>1 DEF Fork
  <2>3. TypeOK'
    BY <1>2, <2>1, <2>2 DEF Fork, IInv, TypeOK
  <2>4. MainHolds' /\ ChildHolds'
    <3>1. MainHolds'
      BY <1>2, <2>1 DEF Fork, IInv, TypeOK, MainHolds, HeldByItsTrain
    <3>2. ChildHolds'
      <4> SUFFICES ASSUME NEW c \in Clients, child'[c] = "forked" PROVE c \in fds'[c]
        BY DEF ChildHolds
      <4>1. CASE c = connfd
        BY <2>1, <2>2, <4>1 DEF IInv, TypeOK
      <4>2. CASE c # connfd
        BY <1>2, <2>1, <2>2, <4>2 DEF Fork, IInv, TypeOK, ChildHolds
      <4> QED BY <4>1, <4>2
    <3> QED BY <3>1, <3>2
  <2>5. ExitedIsQuiet' /\ NoZombieForgotten'
    BY <1>2, <2>1, <2>2 DEF Fork, IInv, TypeOK, ExitedIsQuiet, NoZombieForgotten, Ended
  <2>6. HeldByItsTrain'
    <3>1. \A p \in Processes : \A c \in fds'[p] :
            \/ p = c /\ child'[c] \in {"forked", "train"}
            \/ p = Server /\ c = connfd' /\ main' \in {"fork", "parent"}
      <4> SUFFICES ASSUME NEW p \in Processes, NEW c \in fds'[p]
                   PROVE  \/ p = c /\ child'[c] \in {"forked", "train"}
                          \/ p = Server /\ c = connfd' /\ main' \in {"fork", "parent"}
        OBVIOUS
      <4>1. CASE p = connfd
        BY <1>2, <2>1, <2>2, <4>1 DEF Fork, IInv, TypeOK
      <4>2. CASE p # connfd
        <5>1. c \in fds[p]
          BY <1>2, <2>1, <2>2, <4>2 DEF IInv, TypeOK
        <5> QED BY <1>2, <2>1, <5>1 DEF Fork, IInv, TypeOK, HeldByItsTrain
      <4> QED BY <4>1, <4>2
    <3>2. \A c \in Clients : child'[c] = "train" => c \in fds'[c] /\ c \notin sockfd'
      BY <1>2, <2>1, <2>2 DEF Fork, IInv, TypeOK, HeldByItsTrain
    <3> QED BY <3>1, <3>2 DEF HeldByItsTrain
  <2> QED BY <2>3, <2>4, <2>5, <2>6 DEF IInv
<1>3. CASE ForkFails
  <2>1. TypeOK'
    BY <1>3 DEF ForkFails, IInv, TypeOK
  <2>2. MainHolds' /\ ChildHolds'
    BY <1>3 DEF ForkFails, IInv, TypeOK, MainHolds, ChildHolds, HeldByItsTrain
  <2>3. ExitedIsQuiet' /\ NoZombieForgotten'
    BY <1>3 DEF ForkFails, IInv, TypeOK, ExitedIsQuiet, NoZombieForgotten, Ended
  <2>4. HeldByItsTrain'
    BY <1>3 DEF ForkFails, IInv, TypeOK, HeldByItsTrain, MainHolds, ChildHolds
  <2> QED BY <2>1, <2>2, <2>3, <2>4 DEF IInv
<1>4. CASE CloseConnection
  <2>1. TypeOK'
    BY <1>4 DEF CloseConnection, ParentKeeps, IInv, TypeOK
  <2>2. MainHolds' /\ ChildHolds'
    BY <1>4 DEF CloseConnection, ParentKeeps, IInv, TypeOK, MainHolds, ChildHolds, HeldByItsTrain
  <2>3. ExitedIsQuiet' /\ NoZombieForgotten'
    BY <1>4 DEF CloseConnection, ParentKeeps, IInv, TypeOK, ExitedIsQuiet, NoZombieForgotten, Ended
  <2>4. HeldByItsTrain'
    BY <1>4 DEF CloseConnection, ParentKeeps, IInv, TypeOK, HeldByItsTrain, MainHolds, ChildHolds
  <2> QED BY <2>1, <2>2, <2>3, <2>4 DEF IInv
<1> QED BY <1>1, <1>2, <1>3, <1>4 DEF Main

(* What the handler of SIGCHLD does, at whatever statement it interrupts. *)
LEMMA HandlerKeepsInv ==
  ASSUME IInv, Handler
  PROVE  IInv'
<1> USE TrainAssumption DEF Processes, MainGoto
<1>1. CASE Deliver
  <2>1. TypeOK'
    BY <1>1 DEF Deliver, IInv, TypeOK
  <2>2. MainHolds' /\ ChildHolds'
    BY <1>1 DEF Deliver, IInv, TypeOK, MainHolds, ChildHolds, HeldByItsTrain
  <2>3. ExitedIsQuiet' /\ NoZombieForgotten'
    BY <1>1 DEF Deliver, IInv, TypeOK, ExitedIsQuiet, NoZombieForgotten, Ended
  <2>4. HeldByItsTrain'
    BY <1>1 DEF Deliver, IInv, TypeOK, HeldByItsTrain, MainHolds, ChildHolds
  <2> QED BY <2>1, <2>2, <2>3, <2>4 DEF IInv
<1>2. CASE \E c \in Clients : Reap(c)
  <2>1. TypeOK'
    BY <1>2 DEF Reap, LoopsOn, Ended, IInv, TypeOK
  <2>2. MainHolds' /\ ChildHolds'
    BY <1>2 DEF Reap, LoopsOn, Ended, IInv, TypeOK, MainHolds, ChildHolds, HeldByItsTrain
  <2>3. ExitedIsQuiet' /\ NoZombieForgotten'
    BY <1>2 DEF Reap, LoopsOn, Ended, IInv, TypeOK, ExitedIsQuiet, NoZombieForgotten, Ended
  <2>4. HeldByItsTrain'
    BY <1>2 DEF Reap, LoopsOn, Ended, IInv, TypeOK, HeldByItsTrain, MainHolds, ChildHolds
  <2> QED BY <2>1, <2>2, <2>3, <2>4 DEF IInv
<1>3. CASE Return
  <2>1. TypeOK'
    BY <1>3 DEF Return, IInv, TypeOK
  <2>2. MainHolds' /\ ChildHolds'
    BY <1>3 DEF Return, IInv, TypeOK, MainHolds, ChildHolds, HeldByItsTrain
  <2>3. ExitedIsQuiet' /\ NoZombieForgotten'
    BY <1>3 DEF Return, IInv, TypeOK, ExitedIsQuiet, NoZombieForgotten, Ended
  <2>4. HeldByItsTrain'
    BY <1>3 DEF Return, IInv, TypeOK, HeldByItsTrain, MainHolds, ChildHolds
  <2> QED BY <2>1, <2>2, <2>3, <2>4 DEF IInv
<1> QED BY <1>1, <1>2, <1>3 DEF Handler

(* What the children and the kernel do. *)
LEMMA ClientKeepsInv ==
  ASSUME NEW c \in Clients, IInv, Connect(c) \/ Reset(c) \/ Child(c)
  PROVE  IInv'
<1> USE TrainAssumption DEF Processes, MainGoto
<1>1. CASE Connect(c)
  <2>1. TypeOK'
    BY <1>1 DEF Connect, IInv, TypeOK
  <2>2. MainHolds' /\ ChildHolds'
    BY <1>1 DEF Connect, IInv, TypeOK, MainHolds, ChildHolds, HeldByItsTrain
  <2>3. ExitedIsQuiet' /\ NoZombieForgotten'
    BY <1>1 DEF Connect, IInv, TypeOK, ExitedIsQuiet, NoZombieForgotten, Ended
  <2>4. HeldByItsTrain'
    BY <1>1 DEF Connect, IInv, TypeOK, HeldByItsTrain, MainHolds, ChildHolds
  <2> QED BY <2>1, <2>2, <2>3, <2>4 DEF IInv
<1>2. CASE Reset(c)
  <2>1. TypeOK'
    BY <1>2 DEF Reset, IInv, TypeOK
  <2>2. MainHolds' /\ ChildHolds'
    BY <1>2 DEF Reset, IInv, TypeOK, MainHolds, ChildHolds, HeldByItsTrain
  <2>3. ExitedIsQuiet' /\ NoZombieForgotten'
    BY <1>2 DEF Reset, IInv, TypeOK, ExitedIsQuiet, NoZombieForgotten, Ended
  <2>4. HeldByItsTrain'
    BY <1>2 DEF Reset, IInv, TypeOK, HeldByItsTrain, MainHolds, ChildHolds
  <2> QED BY <2>1, <2>2, <2>3, <2>4 DEF IInv
<1>3. CASE Depart(c)
  <2>1. TypeOK'
    BY <1>3 DEF Depart, ListensOn, IInv, TypeOK
  <2>2. MainHolds' /\ ChildHolds'
    BY <1>3 DEF Depart, ListensOn, IInv, TypeOK, MainHolds, ChildHolds, HeldByItsTrain
  <2>3. ExitedIsQuiet' /\ NoZombieForgotten'
    BY <1>3 DEF Depart, ListensOn, IInv, TypeOK, ExitedIsQuiet, NoZombieForgotten, Ended
  <2>4. HeldByItsTrain'
    BY <1>3 DEF Depart, ListensOn, IInv, TypeOK, HeldByItsTrain, MainHolds, ChildHolds
  <2> QED BY <2>1, <2>2, <2>3, <2>4 DEF IInv
<1>4. CASE End(c)
  <2>1. TypeOK'
    BY <1>4 DEF End, IInv, TypeOK
  <2>2. MainHolds' /\ ChildHolds'
    BY <1>4 DEF End, IInv, TypeOK, MainHolds, ChildHolds, HeldByItsTrain
  <2>3. ExitedIsQuiet' /\ NoZombieForgotten'
    BY <1>4 DEF End, IInv, TypeOK, ExitedIsQuiet, NoZombieForgotten, Ended
  <2>4. HeldByItsTrain'
    BY <1>4 DEF End, IInv, TypeOK, HeldByItsTrain, MainHolds, ChildHolds
  <2> QED BY <2>1, <2>2, <2>3, <2>4 DEF IInv
<1> QED BY <1>1, <1>2, <1>3, <1>4 DEF Child

(* Every step keeps the strengthened invariant. *)
LEMMA NextKeepsInv == IInv /\ [Next]_vars => IInv'
<1>1. IInv /\ Next => IInv'
  BY MainKeepsInv, HandlerKeepsInv, ClientKeepsInv DEF Next
<1>2. IInv /\ UNCHANGED vars => IInv'
  BY DEF vars, IInv, TypeOK, MainHolds, ChildHolds, ExitedIsQuiet, NoZombieForgotten,
         HeldByItsTrain, Ended
<1> QED BY <1>1, <1>2

LEMMA InvIsInvariant == Spec => []IInv
BY InitIsInv, NextKeepsInv, PTL DEF Spec

(* Every variable of the server stays in its range, for any number of        *)
(* clients; main only forks for a client (lab5.c:78).                        *)
THEOREM TypeCorrect == Spec => []TypeOK
<1>1. IInv => TypeOK
  BY DEF IInv
<1> QED BY InvIsInvariant, <1>1, PTL

(* Although one pending SIGCHLD may stand for many children, each of them is *)
(* reaped by the loop of the handler (lab5.c:20), or it is yet to run.       *)
THEOREM NobodyIsForgotten == Spec => []NoZombieForgotten
<1>1. IInv => NoZombieForgotten
  BY DEF IInv
<1> QED BY InvIsInvariant, <1>1, PTL

(* The closes of parent and child (lab5.c:80, 87) leave each connection to   *)
(* its own train and the port to the parent.                                 *)
THEOREM ConnectionsAreHeldByTrains == Spec => []HeldByItsTrain
<1>1. IInv => HeldByItsTrain
  BY DEF IInv
<1> QED BY InvIsInvariant, <1>1, PTL

-----------------------------------------------------------------------------
(* lab4: the name display. *)


(* What the operators on sequences do, place by place. *)
LEMMA AppendOne ==
  ASSUME NEW S, NEW s \in Seq(S), NEW x \in S
  PROVE  /\ Append(s, x) \in Seq(S) /\ Len(Append(s, x)) = Len(s) + 1
         /\ Append(s, x)[Len(s) + 1] = x /\ \A i \in 1 .. Len(s) : Append(s, x)[i] = s[i]
OBVIOUS

LEMMA Join ==
  ASSUME NEW S, NEW s \in Seq(S), NEW t \in Seq(S)
  PROVE  /\ s \o t \in Seq(S) /\ Len(s \o t) = Len(s) + Len(t)
         /\ \A i \in 1 .. Len(s) : (s \o t)[i] = s[i]
         /\ \A i \in 1 .. Len(t) : (s \o t)[Len(s) + i] = t[i]
OBVIOUS

LEMMA DropFirst ==
  ASSUME NEW S, NEW s \in Seq(S), NEW n \in Nat, n <= Len(s)
  PROVE  LET e == SubSeq(s, n + 1, Len(s))
         IN /\ e \in Seq(S) /\ Len(e) = Len(s) - n
            /\ \A i \in 1 .. Len(s) - n : e[i] = s[n + i]
OBVIOUS

-----------------------------------------------------------------------------
(* What every step of the chain keeps, overlapped or not. *)

Byte == (0 .. Length) \X Places

(* Who has the device open, and how much of a pattern reader holds. *)
Opened ==
  /\ reader \in {"read", "send"} => loaded
  /\ written > 0 => writer = "open" /\ letter \in Letters
  /\ writer = "open" /\ letter \in Letters => loaded

Held ==
  /\ reader \in {"start", "exited"} => buf = << >>
  /\ reader = "read" => Len(buf) < Width
  /\ reader = "send" => Len(buf) = Width
  /\ \A j \in 1 .. Len(buf) : buf[j][2] = j
  /\ reader = "start" => stream = << >> /\ \A k \in Places : shown[k] = Off

(* led holds one letter, but for the bytes of the next already copied. *)
Led ==
  /\ \A k \in 1 .. written : led[k] = letter
  /\ \A k \in Places : led[k] <= letter
  /\ written = 0 => \E i \in 0 .. Length : \A k \in Places : led[k] = i
  /\ fed => \A k \in Places : led[k] # 0

Base == DisplayTypeOK /\ Opened /\ Held /\ Led

LEMMA BaseInit == DisplayInit => Base
<1> SUFFICES ASSUME DisplayInit PROVE Base
  OBVIOUS
<1> USE DisplayAssumption DEF DisplayInit, Letters, Places, Off
<1>1. DisplayTypeOK
  <2>1. led \in [1 .. Width -> 0 .. Length]
    OBVIOUS
  <2>2. shown \in [1 .. Width -> Byte \cup {<<0, 0>>}]
    OBVIOUS
  <2>3. buf \in Seq(Byte) /\ Len(buf) = 0 /\ stream \in Seq(Byte) /\ Len(stream) = 0
    OBVIOUS
  <2>4. written \in 0 .. Width - 1 /\ letter \in 1 .. Length + 1 /\ 0 <= Width /\ 0 <= Buffer
    OBVIOUS
  <2> QED BY <2>1, <2>2, <2>3, <2>4 DEF DisplayTypeOK, Byte
<1>2. Opened /\ Held
  BY DEF Opened, Held
<1>3. Led
  BY DEF Led
<1> QED BY <1>1, <1>2, <1>3 DEF Base

(* Loading, removing and opening the driver. *)
LEMMA BaseDriver ==
  ASSUME Base, Insmod \/ Rmmod \/ OpenWriter \/ LoseLetter
  PROVE  Base'
<1> USE DisplayAssumption DEF Base, Letters, Places, driver, letters, history
<1>1. CASE Insmod
  <2> USE <1>1 DEF Insmod
  <2>1. led' = [k \in 1 .. Width |-> 0] /\ ~loaded /\ loaded' /\ fed' = FALSE
    BY <1>1
  <2>2. DisplayTypeOK'
    <3>1. led' \in [1 .. Width -> 0 .. Length]
      BY <2>1
    <3> QED BY <2>1, <3>1 DEF DisplayTypeOK
  <2>3. Opened' /\ Held' /\ written = 0
    BY <2>1 DEF Opened, Held, DisplayTypeOK
  <2>4. Led'
    <3>1. \A k \in 1 .. Width : led'[k] = 0
      BY <2>1
    <3>2. letter \in Nat /\ letter' = letter /\ written' = 0
      BY <2>3 DEF DisplayTypeOK
    <3> QED BY <2>1, <3>1, <3>2 DEF Led
  <2> QED BY <2>2, <2>3, <2>4
<1>2. CASE Rmmod
  <2> USE <1>2 DEF Rmmod, InUse
  <2>1. DisplayTypeOK'
    BY DEF DisplayTypeOK
  <2>2. Opened' /\ Held' /\ Led'
    BY DEF Opened, Held, Led
  <2> QED BY <2>1, <2>2
<1>3. CASE OpenWriter
  <2> USE <1>3 DEF OpenWriter
  <2>1. DisplayTypeOK'
    BY DEF DisplayTypeOK
  <2>2. Opened' /\ Held' /\ Led'
    BY DEF Opened, Held, Led, DisplayTypeOK
  <2> QED BY <2>1, <2>2
<1>4. CASE LoseLetter
  <2> USE <1>4 DEF LoseLetter
  <2>1. DisplayTypeOK' /\ written = 0
    BY DEF DisplayTypeOK, Opened
  <2>2. Opened' /\ Held'
    BY <2>1 DEF Opened, Held
  <2>3. Led'
    BY <2>1 DEF Led, DisplayTypeOK
  <2> QED BY <2>1, <2>2, <2>3
<1> QED BY <1>1, <1>2, <1>3, <1>4

(* A byte of the next letter. *)
LEMMA BaseWriteByte ==
  ASSUME Base, WriteByte
  PROVE  Base'
<1> USE DisplayAssumption DEF Base, Letters, Places, PatternEnd
<1>1. /\ writer = "open" /\ letter \in 1 .. Length /\ written \in 0 .. Width - 1
      /\ led' = [led EXCEPT ![written + 1] = letter]
      /\ IF written + 1 = Width
         THEN letter' = letter + 1 /\ written' = 0 /\ fed' = TRUE
         ELSE written' = written + 1 /\ UNCHANGED <<letter, fed>>
      /\ overlapped' = (overlapped \/ Copying)
      /\ UNCHANGED <<loaded, writer, reader, buf, stream, display, shown, early, split>>
  BY DEF WriteByte, DisplayTypeOK
<1>2. led \in [1 .. Width -> 0 .. Length]
  BY DEF DisplayTypeOK
<1>3. /\ led'[written + 1] = letter
      /\ \A k \in Places : k # written + 1 => led'[k] = led[k]
  BY <1>1, <1>2
<1>4. DisplayTypeOK'
  <2>1. led' \in [1 .. Width -> 0 .. Length] /\ letter' \in 1 .. Length + 1
        /\ written' \in 0 .. Width - 1 /\ fed' \in BOOLEAN
    <3>1. led' \in [1 .. Width -> 0 .. Length]
      BY <1>1, <1>2
    <3>2. CASE written + 1 = Width
      BY <1>1, <3>1, <3>2
    <3>3. CASE written + 1 # Width
      BY <1>1, <3>1, <3>3 DEF DisplayTypeOK
    <3> QED BY <3>2, <3>3
  <2>2. overlapped' \in BOOLEAN
    BY <1>1, Zenon DEF DisplayTypeOK, Copying
  <2> QED BY <1>1, <2>1, <2>2 DEF DisplayTypeOK
<1>5. Opened' /\ Held'
  BY <1>1 DEF Opened, Held
<1>6. Led'
  <2>1. \A k \in Places : led'[k] <= letter
    BY <1>1, <1>3 DEF Led
  <2>2. \A k \in 1 .. written + 1 : led'[k] = letter
    BY <1>1, <1>3 DEF Led
  <2>3. fed => \A k \in Places : led'[k] # 0
    BY <1>1, <1>3 DEF Led
  <2>4. CASE written + 1 = Width
    <3>1. \A k \in Places : led'[k] = letter
      BY <2>2, <2>4
    <3> QED BY <1>1, <2>4, <3>1 DEF Led
  <2>5. CASE written + 1 # Width
    BY <1>1, <2>1, <2>2, <2>3, <2>5 DEF Led
  <2> QED BY <2>4, <2>5
<1> QED BY <1>4, <1>5, <1>6

(* What reader does. *)
LEMMA BaseReader ==
  ASSUME Base, Start \/ ReadByte \/ Send \/ Interrupt
  PROVE  Base'
<1> USE DisplayAssumption DEF Base, Letters, Places, driver, letters, history
<1>1. CASE Start
  BY <1>1 DEF Start, DisplayTypeOK, Opened, Held, Led
<1>2. CASE ReadByte
  <2> DEFINE n == Len(buf) + 1
             x == <<led[n], n>>
  <2>1. /\ reader = "read" /\ buf' = Append(buf, x) /\ n \in Places /\ buf \in Seq(Byte)
        /\ reader' = IF n = Width THEN "send" ELSE "read"
        /\ UNCHANGED <<driver, letters, stream, display, shown, split>>
    BY <1>2 DEF ReadByte, ReadPlace, DisplayTypeOK, Held, Byte
  <2>2. x \in Byte
    BY <2>1 DEF DisplayTypeOK, Byte
  <2>3. /\ buf' \in Seq(Byte) /\ Len(buf') = n /\ buf'[n] = x
        /\ \A i \in 1 .. Len(buf) : buf'[i] = buf[i]
    BY <2>1, <2>2, AppendOne
  <2>4. overlapped' \in BOOLEAN /\ early' \in BOOLEAN
    BY <1>2, Zenon DEF ReadByte, DisplayTypeOK, Writing
  <2>5. DisplayTypeOK'
    BY <2>1, <2>3, <2>4, SMTT(30) DEF DisplayTypeOK, Byte
  <2>6. Opened' /\ Led'
    BY <2>1 DEF Opened, Led
  <2>7. \A j \in 1 .. n : buf'[j][2] = j
    BY <2>1, <2>3 DEF Held
  <2>8. Held'
    BY <2>1, <2>3, <2>7 DEF Held
  <2> QED BY <2>5, <2>6, <2>8
<1>3. CASE Send
  <2>1. /\ reader = "send" /\ Len(stream) + Width <= Buffer /\ stream' = stream \o buf
        /\ buf' = << >> /\ reader' = "read" /\ Len(buf) = Width
        /\ UNCHANGED <<driver, letters, display, shown, history>>
    BY <1>3 DEF Send, Sent, Held
  <2>2. stream' \in Seq(Byte) /\ Len(stream') = Len(stream) + Width
    <3>1. stream \in Seq(Byte) /\ buf \in Seq(Byte)
      BY DEF DisplayTypeOK, Byte
    <3> QED BY <2>1, <3>1, Join
  <2>3. DisplayTypeOK'
    <3>1. Len(stream') <= Buffer /\ Len(stream) \in Nat
      BY <2>1, <2>2 DEF DisplayTypeOK
    <3>2. buf' \in Seq(Byte) /\ Len(buf') <= Width
      BY <2>1
    <3> QED BY <2>1, <2>2, <3>1, <3>2 DEF DisplayTypeOK, Byte
  <2>4. Opened' /\ Held' /\ Led'
    BY <2>1 DEF Opened, Held, Led
  <2> QED BY <2>3, <2>4
<1>4. CASE Interrupt
  <2> USE <1>4 DEF Interrupt
  <2>1. buf' \in Seq(Byte) /\ Len(buf') <= Width
    OBVIOUS
  <2>2. DisplayTypeOK'
    BY <2>1 DEF DisplayTypeOK, Byte
  <2> QED BY <2>2 DEF Opened, Held, Led
<1> QED BY <1>1, <1>2, <1>3, <1>4

(* The display takes n bytes. *)
LEMMA BaseUpdate ==
  ASSUME Base, NEW n \in 1 .. RecvSize, Update(n)
  PROVE  Base'
<1> USE DisplayAssumption DEF Base, Places, RecvSize, Zipped
<1>1. /\ n \in Nat /\ n <= Len(stream) /\ n <= Width /\ stream \in Seq(Byte)
      /\ stream' = SubSeq(stream, n + 1, Len(stream))
      /\ UNCHANGED <<driver, letters, reader, buf, overlapped, early>>
  BY DEF Update, DisplayTypeOK, Byte
<1>2. stream' \in Seq(Byte) /\ Len(stream') = Len(stream) - n
  BY <1>1, DropFirst
<1>3. \A k \in 1 .. n : stream[k] \in Byte
  BY <1>1
<1>4. shown' \in [1 .. Width -> Byte \cup {Off}]
  BY <1>1, <1>3 DEF Update, DisplayTypeOK, Byte
<1>5. DisplayTypeOK'
  <2>1. display' \in {"polls", "stopped"} /\ split' \in BOOLEAN
    BY DEF Update, DisplayTypeOK
  <2>2. Len(stream') <= Buffer
    BY <1>1, <1>2 DEF DisplayTypeOK
  <2> QED BY <1>1, <1>2, <1>4, <2>1, <2>2 DEF DisplayTypeOK, Byte, driver, letters
<1>6. Opened' /\ Led'
  BY <1>1 DEF Opened, Led, driver, letters
<1>7. Held'
  <2>1. reader # "start"
    BY <1>1 DEF Held
  <2> QED BY <1>1, <2>1 DEF Held
<1> QED BY <1>5, <1>6, <1>7

LEMMA BaseStep ==
  ASSUME Base, [DisplayNext]_chain
  PROVE  Base'
<1>1. CASE UNCHANGED chain
  BY <1>1 DEF chain, driver, letters, history, Base, DisplayTypeOK, Opened, Held, Led
<1>2. CASE DisplayNext
  BY <1>2, BaseDriver, BaseWriteByte, BaseReader, BaseUpdate DEF DisplayNext, Write, Read, Show
<1> QED BY <1>1, <1>2

LEMMA BaseIsInvariant == DisplaySpec => []Base
BY BaseInit, BaseStep, PTL DEF DisplaySpec

(* Every variable of the chain stays in its range, the two buffers fit. *)
THEOREM ChainTypesCorrect == DisplaySpec => []DisplayTypeOK
BY BaseIsInvariant, PTL DEF Base

-----------------------------------------------------------------------------
(* Only a read that began before the first letter takes a byte that is no    *)
(* bit: all that came later was read from a led that holds letters only.     *)
NoBlanks ==
  ~early =>
    /\ \A j \in 1 .. Len(buf) : IsBit(buf[j])
    /\ \A j \in 1 .. Len(stream) : IsBit(stream[j])
    /\ buf # << >> => fed
    /\ display = "polls"

LEMMA NoBlanksStep ==
  ASSUME Base, NoBlanks, [DisplayNext]_chain
  PROVE  NoBlanks'
<1> USE DisplayAssumption DEF Places, Letters, driver, letters, history
<1> SUFFICES ASSUME ~early'
             PROVE  /\ \A j \in 1 .. Len(buf') : IsBit(buf'[j])
                    /\ \A j \in 1 .. Len(stream') : IsBit(stream'[j])
                    /\ buf' # << >> => fed'
                    /\ display' = "polls"
  BY DEF NoBlanks, IsBit
<1>0. ~early
  BY DEF DisplayNext, Insmod, Rmmod, Write, OpenWriter, LoseLetter, WriteByte, Read, Start,
         ReadByte, Send, Interrupt, Show, Update, chain
<1>a. /\ \A j \in 1 .. Len(buf) : IsBit(buf[j])
      /\ \A j \in 1 .. Len(stream) : IsBit(stream[j])
      /\ buf # << >> => fed
      /\ display = "polls"
  BY <1>0 DEF NoBlanks
<1>1. CASE Insmod
  <2>1. buf = << >>
    BY <1>1 DEF Insmod, Base, Opened, Held, DisplayTypeOK
  <2> QED BY <1>1, <1>a, <2>1 DEF Insmod
<1>2. CASE Rmmod \/ OpenWriter \/ LoseLetter \/ Start \/ UNCHANGED chain
  BY <1>2, <1>a DEF Rmmod, OpenWriter, LoseLetter, Start, chain
<1>3. CASE WriteByte
  BY <1>3, <1>a DEF WriteByte
<1>4. CASE ReadByte
  <2> DEFINE n == Len(buf) + 1
             x == <<led[n], n>>
  <2>1. /\ buf' = Append(buf, x) /\ n \in Places /\ buf \in Seq(Byte) /\ x \in Byte
        /\ UNCHANGED <<driver, stream, display>>
    BY <1>4 DEF ReadByte, ReadPlace, Base, DisplayTypeOK, Held, Byte
  <2>2. fed
    BY <1>4, <1>a DEF ReadByte
  <2>3. led[n] # 0
    BY <2>1, <2>2 DEF Base, Led
  <2>4. /\ Len(buf') = n /\ buf'[n] = x /\ \A i \in 1 .. Len(buf) : buf'[i] = buf[i]
    BY <2>1, AppendOne
  <2>5. IsBit(x)
    BY <2>3 DEF IsBit
  <2>6. Len(buf) \in Nat
    BY <2>1
  <2> HIDE DEF x
  <2>7. \A j \in 1 .. n : IsBit(buf'[j])
    BY <1>a, <2>4, <2>5, <2>6
  <2> QED BY <1>a, <2>1, <2>2, <2>4, <2>7
<1>5. CASE Send
  <2>1. /\ stream' = stream \o buf /\ buf' = << >> /\ UNCHANGED display
        /\ stream \in Seq(Byte) /\ buf \in Seq(Byte)
    BY <1>5 DEF Send, Sent, Base, DisplayTypeOK, Byte
  <2>2. /\ Len(stream') = Len(stream) + Len(buf)
        /\ \A i \in 1 .. Len(stream) : stream'[i] = stream[i]
        /\ \A i \in 1 .. Len(buf) : stream'[Len(stream) + i] = buf[i]
    BY <2>1, Join
  <2>3. ASSUME NEW j \in 1 .. Len(stream') PROVE IsBit(stream'[j])
    <3>1. CASE j \in 1 .. Len(stream)
      BY <1>a, <2>2, <3>1
    <3>2. CASE j \notin 1 .. Len(stream)
      <4>1. j - Len(stream) \in 1 .. Len(buf) /\ j = Len(stream) + (j - Len(stream))
        BY <2>1, <2>2, <3>2
      <4> QED BY <1>a, <2>2, <4>1
    <3> QED BY <3>1, <3>2
  <2> QED BY <1>a, <2>1, <2>3
<1>6. CASE Interrupt
  BY <1>6, <1>a DEF Interrupt
<1>7. ASSUME NEW n \in 1 .. RecvSize, Update(n)
      PROVE  /\ \A j \in 1 .. Len(stream') : IsBit(stream'[j])
             /\ display' = "polls" /\ UNCHANGED <<buf, fed>>
  <2>1. /\ n \in Nat /\ n <= Len(stream) /\ stream \in Seq(Byte)
        /\ stream' = SubSeq(stream, n + 1, Len(stream))
    BY <1>7 DEF Update, RecvSize, Base, DisplayTypeOK, Byte
  <2>2. Len(stream') = Len(stream) - n /\ \A i \in 1 .. Len(stream) - n : stream'[i] = stream[n + i]
    BY <2>1, DropFirst
  <2>3. \A i \in 1 .. Len(stream) - n : n + i \in 1 .. Len(stream)
    BY <2>1
  <2>4. \A j \in 1 .. Len(stream') : IsBit(stream'[j])
    BY <1>a, <2>2, <2>3
  <2>5. \A k \in 1 .. n : IsBit(stream[k])
    BY <1>a, <2>1
  <2> QED BY <1>7, <1>a, <2>4, <2>5 DEF Update
<1> QED BY <1>1, <1>2, <1>3, <1>4, <1>5, <1>6, <1>7, <1>a DEF DisplayNext, Write, Read, Show

(* seg.py's update only ends with an exception, for ever, if reader began to *)
(* read before writer had written a letter; no overlap of the two copies and *)
(* no split pattern does it.                                                 *)
THEOREM OnlyEarlyReadStops == DisplaySpec => []StoppedByEarlyRead
<1>1. DisplayInit => NoBlanks
  BY DEF DisplayInit, NoBlanks
<1>2. NoBlanks => StoppedByEarlyRead
  BY DEF NoBlanks, StoppedByEarlyRead
<1> QED BY BaseIsInvariant, NoBlanksStep, <1>1, <1>2, PTL DEF DisplaySpec

-----------------------------------------------------------------------------
(* As long as the display takes whole patterns, the stream is made of them:  *)
(* it begins and ends with one, and the places repeat.                       *)
Aligned ==
  LET n == Len(stream)
  IN /\ n > 0 => /\ n >= Width
                 /\ \A k \in Places : stream[k][2] = k /\ stream[n - Width + k][2] = k
     /\ \A i \in 1 .. n - Width : stream[i + Width][2] = stream[i][2]

(* Along the chain, from the display back to led, letters do not decrease:   *)
(* what is behind at a place is not older.                                   *)
Monotone ==
  /\ \A i \in 1 .. Len(stream) : shown[stream[i][2]][1] <= stream[i][1]
  /\ \A i, j \in 1 .. Len(stream) :
       i < j /\ stream[i][2] = stream[j][2] => stream[i][1] <= stream[j][1]
  /\ \A i \in 1 .. Len(stream), k \in 1 .. Len(buf) :
       stream[i][2] = k => stream[i][1] <= buf[k][1]
  /\ \A k \in 1 .. Len(buf) : shown[k][1] <= buf[k][1] /\ buf[k][1] <= led[k]
  /\ reader \in {"read", "send"} =>
       /\ \A k \in Places : shown[k][1] <= led[k]
       /\ \A i \in 1 .. Len(stream) : stream[i][1] <= led[stream[i][2]]

InOrder == ~split => Aligned /\ Monotone

(* What is used of the types of the bytes under way. *)
LEMMA BytesUnderWay ==
  ASSUME Base
  PROVE  /\ Len(stream) \in Nat /\ Len(buf) \in Nat /\ Len(buf) <= Width
         /\ \A i \in 1 .. Len(stream) : stream[i][1] \in 0 .. Length /\ stream[i][2] \in Places
         /\ \A k \in 1 .. Len(buf) : buf[k][1] \in 0 .. Length /\ buf[k][2] = k /\ k \in Places
         /\ \A k \in Places : shown[k][1] \in 0 .. Length /\ led[k] \in 0 .. Length
<1> USE DisplayAssumption DEF Base, DisplayTypeOK, Places
<1>1. stream \in Seq(Byte) /\ buf \in Seq(Byte) /\ Len(buf) <= Width
  BY DEF Byte
<1>2. \A i \in 1 .. Len(stream) : stream[i] \in Byte
  BY <1>1
<1>3. \A k \in 1 .. Len(buf) : buf[k] \in Byte
  BY <1>1
<1>4. \A k \in Places : shown[k] \in Byte \cup {Off}
  BY DEF Byte
<1>5. Len(stream) \in Nat /\ Len(buf) \in Nat
  BY <1>1
<1>6. \A k \in 1 .. Len(buf) : k \in 1 .. Width
  BY <1>1, <1>5
<1>7. \A i \in 1 .. Len(stream) : stream[i][1] \in 0 .. Length /\ stream[i][2] \in 1 .. Width
  BY <1>2 DEF Byte
<1>8. \A k \in 1 .. Len(buf) : buf[k][1] \in 0 .. Length /\ buf[k][2] = k /\ k \in 1 .. Width
  BY <1>3, <1>6 DEF Byte, Held
<1>9. \A k \in 1 .. Width : shown[k][1] \in 0 .. Length /\ led[k] \in 0 .. Length
  BY <1>4 DEF Byte, Off
<1> QED BY <1>1, <1>5, <1>7, <1>8, <1>9

(* The steps that change neither the stream nor what the display shows. *)
LEMMA OrderUpstream ==
  ASSUME Base, Base', InOrder,
         Insmod \/ Rmmod \/ OpenWriter \/ LoseLetter \/ WriteByte \/ Start \/ ReadByte
         \/ Interrupt \/ UNCHANGED chain
  PROVE  InOrder'
<1> USE DisplayAssumption DEF Letters, driver, letters, history
<1>1. UNCHANGED <<stream, shown, split>>
  BY DEF Insmod, Rmmod, OpenWriter, LoseLetter, WriteByte, Start, ReadByte, Interrupt, chain
<1> SUFFICES ASSUME ~split PROVE Aligned' /\ Monotone'
  BY <1>1 DEF InOrder
<1>2. Aligned' /\ Monotone
  BY <1>1 DEF InOrder, Aligned
<1>3. Monotone'
  <2>1. CASE Insmod
    <3>1. reader \notin {"read", "send"} /\ buf = << >>
      BY <2>1 DEF Insmod, Base, Opened, Held, DisplayTypeOK
    <3> QED BY <1>1, <1>2, <2>1, <3>1 DEF Insmod, Monotone
  <2>2. CASE Rmmod \/ OpenWriter \/ LoseLetter \/ UNCHANGED chain
    BY <1>1, <1>2, <2>2 DEF Rmmod, OpenWriter, LoseLetter, chain, Monotone
  <2>3. CASE WriteByte
    <3>1. /\ UNCHANGED <<reader, buf>> /\ led' = [led EXCEPT ![written + 1] = letter]
          /\ written + 1 \in Places /\ letter \in Int /\ led \in [Places -> 0 .. Length]
      BY <2>3 DEF WriteByte, Base, DisplayTypeOK, Places
    <3>2. \A k \in Places : led[k] <= led'[k] /\ led'[k] \in Int
      BY <3>1 DEF Base, Led
    <3>3. \A k \in 1 .. Len(buf) : buf[k][1] <= led'[k]
      <4>1. \A k \in 1 .. Len(buf) : buf[k][1] \in Int /\ k \in Places /\ led[k] \in Int
        BY BytesUnderWay
      <4>2. \A k \in 1 .. Len(buf) : buf[k][1] <= led[k]
        BY <1>2 DEF Monotone
      <4> QED BY <3>2, <4>1, <4>2
    <3>4. reader \in {"read", "send"} =>
            /\ \A k \in Places : shown[k][1] <= led'[k]
            /\ \A i \in 1 .. Len(stream) : stream[i][1] <= led'[stream[i][2]]
      <4>1. /\ \A k \in Places : shown[k][1] \in Int /\ led[k] \in Int
            /\ \A i \in 1 .. Len(stream) : stream[i][1] \in Int /\ stream[i][2] \in Places
        BY BytesUnderWay
      <4>2. reader \in {"read", "send"} =>
              /\ \A k \in Places : shown[k][1] <= led[k]
              /\ \A i \in 1 .. Len(stream) : stream[i][1] <= led[stream[i][2]]
        BY <1>2 DEF Monotone
      <4>3. \A k \in Places, l \in Int : l <= led[k] => l <= led'[k]
        BY <3>2, <4>1
      <4> QED BY <4>1, <4>2, <4>3, Zenon
    <3> QED BY <1>1, <1>2, <3>1, <3>3, <3>4 DEF Monotone
  <2>4. CASE Start
    <3>1. stream = << >> /\ buf = << >> /\ UNCHANGED <<buf, led>>
          /\ \A k \in Places : shown[k] = Off
      BY <2>4 DEF Start, Base, Held
    <3>2. \A k \in Places : shown[k][1] <= led[k]
      BY <3>1, BytesUnderWay DEF Off
    <3> QED BY <1>1, <3>1, <3>2 DEF Monotone
  <2>5. CASE ReadByte
    <3> DEFINE n == Len(buf) + 1
               x == <<led[n], n>>
    <3>1. /\ buf' = Append(buf, x) /\ n \in Places /\ buf \in Seq(Byte) /\ x \in Byte
          /\ reader = "read" /\ UNCHANGED led
      BY <2>5 DEF ReadByte, ReadPlace, Base, DisplayTypeOK, Held, Byte, Places
    <3>2. Len(buf') = n /\ buf'[n] = x /\ \A i \in 1 .. Len(buf) : buf'[i] = buf[i]
      BY <3>1, AppendOne
    <3>3. Len(buf) \in Nat
      BY <3>1
    <3>4. buf'[n][1] = led[n]
      BY <3>2
    <3> HIDE DEF n, x
    <3>5. \A k \in 1 .. n : k \in 1 .. Len(buf) \/ k = n
      BY <3>3 DEF n
    <3>6. \A k \in 1 .. n : shown[k][1] <= buf'[k][1] /\ buf'[k][1] <= led[k]
      <4>1. \A k \in 1 .. Len(buf) : shown[k][1] <= buf[k][1] /\ buf[k][1] <= led[k]
        BY <1>2 DEF Monotone
      <4>2. shown[n][1] <= led[n] /\ led[n] <= led[n]
        BY <1>2, <3>1, BytesUnderWay DEF Monotone
      <4> QED BY <3>2, <3>4, <3>5, <4>1, <4>2
    <3>7. \A i \in 1 .. Len(stream), k \in 1 .. n :
            stream[i][2] = k => stream[i][1] <= buf'[k][1]
      BY <1>2, <3>1, <3>2, <3>4, <3>5 DEF Monotone
    <3> QED BY <1>1, <1>2, <3>1, <3>2, <3>6, <3>7 DEF Monotone
  <2>6. CASE Interrupt
    BY <1>1, <1>2, <2>6 DEF Interrupt, Monotone
  <2> QED BY <2>1, <2>2, <2>3, <2>4, <2>5, <2>6
<1> QED BY <1>2, <1>3

(* What a write to the socket does to the stream, place by place. *)
LEMMA SendStream ==
  ASSUME Base, Send
  PROVE  /\ Len(stream') = Len(stream) + Width /\ Len(buf) = Width /\ reader = "send"
         /\ \A i \in 1 .. Len(stream) : stream'[i] = stream[i]
         /\ \A k \in Places : stream'[Len(stream) + k] = buf[k]
         /\ \A i \in 1 .. Len(stream') :
              i \in 1 .. Len(stream) \/ \E k \in Places : i = Len(stream) + k
         /\ buf' = << >> /\ UNCHANGED <<led, shown, split, overlapped>>
<1> USE DisplayAssumption DEF Places
<1>1. /\ stream' = stream \o buf /\ stream \in Seq(Byte) /\ buf \in Seq(Byte)
      /\ Len(buf) = Width /\ reader = "send"
      /\ buf' = << >> /\ UNCHANGED <<led, shown, split, overlapped>>
  BY DEF Send, Sent, Base, DisplayTypeOK, Held, Byte, driver, history
<1>2. /\ Len(stream') = Len(stream) + Len(buf)
      /\ \A i \in 1 .. Len(stream) : stream'[i] = stream[i]
      /\ \A i \in 1 .. Len(buf) : stream'[Len(stream) + i] = buf[i]
  <2>1. /\ Len(stream \o buf) = Len(stream) + Len(buf)
        /\ \A i \in 1 .. Len(stream) : (stream \o buf)[i] = stream[i]
        /\ \A i \in 1 .. Len(buf) : (stream \o buf)[Len(stream) + i] = buf[i]
    <3>1. stream \in Seq(Byte) /\ buf \in Seq(Byte)
      BY <1>1
    <3> QED BY <3>1, Join, SMTT(20)
  <2> QED BY <1>1, <2>1, Zenon
<1>a. /\ Len(stream') = Len(stream) + Width
      /\ \A k \in Places : stream'[Len(stream) + k] = buf[k]
  BY <1>1, <1>2
<1>3. ASSUME NEW i \in 1 .. Len(stream')
      PROVE  i \in 1 .. Len(stream) \/ \E k \in Places : i = Len(stream) + k
  <2>1. CASE i \notin 1 .. Len(stream)
    <3>1. i - Len(stream) \in 1 .. Width /\ i = Len(stream) + (i - Len(stream))
      BY <1>1, <1>2, <2>1
    <3> QED BY <3>1
  <2> QED BY <2>1
<1> QED BY <1>1, <1>2, <1>a, <1>3

LEMMA OrderSend ==
  ASSUME Base, InOrder, Send
  PROVE  InOrder'
<1> USE DisplayAssumption DEF Places
<1> DEFINE n == Len(stream)
<1> SUFFICES ASSUME ~split PROVE Aligned' /\ Monotone'
  BY SendStream DEF InOrder
<1>1. Aligned /\ Monotone
  BY DEF InOrder
<1>2. n \in Nat /\ \A i \in 1 .. n : stream[i][2] \in 1 .. Width
  BY BytesUnderWay
<1>3. \A k \in Places : buf[k][2] = k
  BY SendStream, BytesUnderWay
<1>4. Aligned'
  <2>1. /\ n > 0 => n >= Width /\ \A k \in Places : stream[k][2] = k /\ stream[n - Width + k][2] = k
        /\ \A i \in 1 .. n - Width : stream[i + Width][2] = stream[i][2]
    BY <1>1 DEF Aligned
  <2>2. /\ Len(stream') = n + Width
        /\ \A i \in 1 .. n : stream'[i] = stream[i]
        /\ \A k \in Places : stream'[n + k] = buf[k]
    BY SendStream
  <2> HIDE DEF n
  <2>3. \A k \in Places : stream'[k][2] = k
    <3>1. CASE n = 0
      BY <1>3, <2>2, <3>1
    <3>2. CASE n > 0
      BY <1>2, <2>1, <2>2, <3>2
    <3> QED BY <1>2, <3>1, <3>2
  <2>4. \A k \in Places : stream'[n + Width - Width + k][2] = k
    BY <1>2, <1>3, <2>2, SMTT(30)
  <2>5. ASSUME NEW i \in 1 .. n PROVE stream'[i + Width][2] = stream'[i][2]
    <3>1. CASE i <= n - Width
      <4>1. i \in 1 .. n - Width /\ i + Width \in 1 .. n
        BY <1>2, <3>1
      <4> QED BY <2>1, <2>2, <4>1
    <3>2. CASE ~(i <= n - Width)
      <4>1. n > 0 /\ i - (n - Width) \in Places
        BY <1>2, <2>1, <3>2
      <4> DEFINE k == i - (n - Width)
      <4>2. i = n - Width + k /\ i + Width = n + k
        BY <1>2
      <4>3. stream[i][2] = k /\ stream'[n + k] = buf[k] /\ buf[k][2] = k
        BY <1>3, <2>1, <2>2, <4>1, <4>2
      <4> QED BY <2>2, <4>2, <4>3
    <3> QED BY <3>1, <3>2
  <2>6. n + Width - Width = n
    BY <1>2
  <2> QED BY <1>2, <2>2, <2>3, <2>4, <2>5, <2>6 DEF Aligned
<1>5. Monotone'
  <2>1. /\ \A i \in 1 .. n : shown[stream[i][2]][1] <= stream[i][1]
        /\ \A i, j \in 1 .. n : i < j /\ stream[i][2] = stream[j][2] => stream[i][1] <= stream[j][1]
        /\ \A i \in 1 .. n, k \in 1 .. Width : stream[i][2] = k => stream[i][1] <= buf[k][1]
        /\ \A k \in 1 .. Width : shown[k][1] <= buf[k][1] /\ buf[k][1] <= led[k]
        /\ \A k \in Places : shown[k][1] <= led[k]
        /\ \A i \in 1 .. n : stream[i][1] <= led[stream[i][2]]
    BY <1>1, SendStream DEF Monotone
  <2>2. /\ Len(stream') = n + Width /\ buf' = << >> /\ UNCHANGED <<led, shown>>
        /\ \A i \in 1 .. n : stream'[i] = stream[i]
        /\ \A k \in Places : stream'[n + k] = buf[k]
        /\ \A i \in 1 .. Len(stream') : i \in 1 .. n \/ \E k \in Places : i = n + k
    BY SendStream
  <2> HIDE DEF n
  <2>3. ASSUME NEW i \in 1 .. Len(stream')
        PROVE  shown[stream'[i][2]][1] <= stream'[i][1] /\ stream'[i][1] <= led[stream'[i][2]]
    <3>1. CASE i \in 1 .. n
      BY <2>1, <2>2, <3>1
    <3>2. ASSUME NEW k \in Places, i = n + k
          PROVE  shown[stream'[i][2]][1] <= stream'[i][1] /\ stream'[i][1] <= led[stream'[i][2]]
      BY <1>3, <2>1, <2>2, <3>2
    <3> QED BY <2>2, <3>1, <3>2
  <2>4. ASSUME NEW i \in 1 .. Len(stream'), NEW j \in 1 .. Len(stream'),
               i < j, stream'[i][2] = stream'[j][2]
        PROVE  stream'[i][1] <= stream'[j][1]
    <3>1. CASE j \in 1 .. n
      <4>1. i \in 1 .. n
        BY <1>2, <2>4, <3>1
      <4> QED BY <2>1, <2>2, <2>4, <3>1, <4>1
    <3>2. ASSUME NEW k \in Places, j = n + k, i \in 1 .. n
          PROVE  stream'[i][1] <= stream'[j][1]
      BY <1>3, <2>1, <2>2, <2>4, <3>2
    <3>3. ASSUME NEW k \in Places, j = n + k, NEW l \in Places, i = n + l
          PROVE  FALSE
      <4>1. l = k
        BY <1>3, <2>2, <2>4, <3>3
      <4> QED BY <1>2, <2>4, <3>3, <4>1
    <3> QED BY <2>2, <3>1, <3>2, <3>3
  <2> QED BY <2>1, <2>2, <2>3, <2>4 DEF Monotone
<1> QED BY <1>4, <1>5

(* What a whole pattern taken by the display leaves. *)
LEMMA UpdateStream ==
  ASSUME Base, NEW n \in 1 .. RecvSize, Update(n)
  PROVE  /\ n \in Nat /\ n <= Len(stream) /\ n <= Width /\ Len(stream') = Len(stream) - n
         /\ \A i \in 1 .. Len(stream) - n : stream'[i] = stream[n + i]
         /\ UNCHANGED <<led, reader, buf, overlapped, written>>
         /\ ~split' => n = Width /\ ~split
<1>1. /\ n \in Nat /\ n <= Len(stream) /\ n <= Width /\ stream \in Seq(Byte)
      /\ stream' = SubSeq(stream, n + 1, Len(stream))
      /\ UNCHANGED <<led, reader, buf, overlapped, written>>
  BY DisplayAssumption DEF Update, Base, DisplayTypeOK, Byte, RecvSize, driver, letters
<1>2. Len(stream') = Len(stream) - n /\ \A i \in 1 .. Len(stream) - n : stream'[i] = stream[n + i]
  BY <1>1, DropFirst
<1>3. ~split' => ~split /\ ~(n < Width)
  BY Zenon DEF Update, RecvSize
<1>4. ~split' => n = Width
  BY <1>1, <1>3, DisplayAssumption
<1> QED BY <1>1, <1>2, <1>3, <1>4

(* Each segment is given the byte of its place, which is not older.          *)
LEMMA ShownInPlace ==
  ASSUME Base, InOrder, NEW n \in 1 .. RecvSize, Update(n), ~split'
  PROVE  /\ \A k \in Places : stream[k][2] = k /\ k \in 1 .. Len(stream)
         /\ \/ UNCHANGED shown
            \/ \A k \in Places : shown'[k] = stream[k] /\ IsBit(stream[k])
         /\ \A k \in Places : shown[k][1] <= stream[k][1]
<1> USE DisplayAssumption DEF Places
<1>1. n = Width /\ n <= Len(stream) /\ Aligned /\ Monotone
  BY UpdateStream DEF InOrder
<1>2. \A k \in Places : stream[k][2] = k /\ k \in 1 .. Len(stream)
  BY <1>1, BytesUnderWay DEF Aligned
<1>3. UNCHANGED shown \/ \A k \in Places : shown'[k] = stream[k] /\ IsBit(stream[k])
  BY <1>1 DEF Update, Zipped
<1>4. \A k \in Places : shown[k][1] <= stream[k][1]
  BY <1>1, <1>2 DEF Monotone
<1> QED BY <1>2, <1>3, <1>4

LEMMA OrderUpdate ==
  ASSUME Base, InOrder, NEW n \in 1 .. RecvSize, Update(n)
  PROVE  InOrder'
<1> USE DisplayAssumption DEF Places
<1> SUFFICES ASSUME ~split' PROVE Aligned' /\ Monotone'
  BY DEF InOrder
<1> DEFINE m == Len(stream)
<1>1. /\ m \in Nat /\ Width <= m /\ Len(stream') = m - Width /\ n = Width
      /\ \A i \in 1 .. m - Width : stream'[i] = stream[Width + i]
      /\ UNCHANGED <<led, reader, buf>> /\ Aligned /\ Monotone
  BY UpdateStream, BytesUnderWay DEF InOrder
<1>2. /\ m > 0 => m >= Width /\ \A k \in Places : stream[k][2] = k /\ stream[m - Width + k][2] = k
      /\ \A i \in 1 .. m - Width : stream[i + Width][2] = stream[i][2]
  BY <1>1 DEF Aligned
<1>3. \A i \in 1 .. m : stream[i][1] \in 0 .. Length /\ stream[i][2] \in 1 .. Width
  BY BytesUnderWay
<1>4. Aligned'
  <2> HIDE DEF m
  <2>1. m = Width \/ m >= Width + Width
    <3>1. ASSUME m > Width, m < Width + Width PROVE FALSE
      <4> DEFINE j == m - Width + 1
      <4>1. j \in 1 .. Width /\ 1 \in 1 .. Width /\ j # 1 /\ m > 0
        BY <1>1, <3>1
      <4>2. stream[j][2] = j /\ stream[j][2] = 1
        BY <1>2, <4>1
      <4> QED BY <4>1, <4>2
    <3> QED BY <1>1, <3>1
  <2>2. ASSUME NEW i \in 1 .. m - Width PROVE stream'[i][2] = stream[i][2]
    <3>1. i + Width = Width + i
      BY <1>1
    <3> QED BY <1>1, <1>2, <3>1, SMTT(30)
  <2>3. ASSUME m >= Width + Width, NEW k \in Places
        PROVE  stream'[k][2] = k /\ stream'[m - Width - Width + k][2] = k
    <3>1. k \in 1 .. m - Width /\ m - Width - Width + k \in 1 .. m - Width
          /\ Width + (m - Width - Width + k) = m - Width + k /\ m > 0
      BY <1>1, <2>3
    <3> QED BY <1>1, <1>2, <2>2, <3>1
  <2>4. ASSUME NEW i \in 1 .. m - Width - Width PROVE stream'[i + Width][2] = stream'[i][2]
    <3>1. i \in 1 .. m - Width /\ i + Width \in 1 .. m - Width
      BY <1>1
    <3> QED BY <1>2, <2>2, <3>1
  <2> QED BY <1>1, <2>1, <2>3, <2>4 DEF Aligned
<1>5. Monotone'
  <2>1. /\ \A i, j \in 1 .. m : i < j /\ stream[i][2] = stream[j][2] => stream[i][1] <= stream[j][1]
        /\ \A i \in 1 .. m, k \in 1 .. Len(buf) : stream[i][2] = k => stream[i][1] <= buf[k][1]
        /\ \A i \in 1 .. m : shown[stream[i][2]][1] <= stream[i][1]
        /\ \A k \in 1 .. Len(buf) : shown[k][1] <= buf[k][1] /\ buf[k][1] <= led[k] /\ k \in Places
        /\ reader \in {"read", "send"} =>
             /\ \A k \in Places : shown[k][1] <= led[k]
             /\ \A i \in 1 .. m : stream[i][1] <= led[stream[i][2]]
    BY <1>1, BytesUnderWay DEF Monotone
  <2>2. /\ \A k \in Places : stream[k][2] = k /\ k \in 1 .. m
        /\ UNCHANGED shown \/ \A k \in Places : shown'[k] = stream[k]
    BY ShownInPlace
  <2>3. \A i \in 1 .. m - Width : Width + i \in 1 .. m
    BY <1>1
  <2> HIDE DEF m
  <2>4. ASSUME NEW i \in 1 .. m - Width PROVE shown'[stream'[i][2]][1] <= stream'[i][1]
    <3> DEFINE p == stream[Width + i][2]
    <3>1. p \in Places /\ stream'[i] = stream[Width + i] /\ p < Width + i
      BY <1>1, <1>3, <2>3
    <3>2. stream[p][2] = p /\ p \in 1 .. m
      BY <2>2, <3>1
    <3>3. stream[p][1] <= stream[Width + i][1]
      BY <2>1, <2>3, <3>1, <3>2
    <3> QED BY <2>1, <2>2, <2>3, <3>1, <3>3
  <2>5. ASSUME NEW i \in 1 .. m - Width, NEW j \in 1 .. m - Width, i < j,
               stream'[i][2] = stream'[j][2]
        PROVE  stream'[i][1] <= stream'[j][1]
    <3>1. Width + i < Width + j
      BY <2>5
    <3> QED BY <1>1, <2>1, <2>3, <2>5, <3>1
  <2>6. \A i \in 1 .. m - Width, k \in 1 .. Len(buf) :
          stream'[i][2] = k => stream'[i][1] <= buf[k][1]
    BY <1>1, <2>1, <2>3, SMTT(30)
  <2>7. \A k \in 1 .. Len(buf) : shown'[k][1] <= buf[k][1]
    BY <2>1, <2>2
  <2>8. reader \in {"read", "send"} =>
          /\ \A k \in Places : shown'[k][1] <= led[k]
          /\ \A i \in 1 .. m - Width : stream'[i][1] <= led[stream'[i][2]]
    BY <1>1, <2>1, <2>2, <2>3
  <2> QED BY <1>1, <2>1, <2>4, <2>5, <2>6, <2>7, <2>8 DEF Monotone
<1> QED BY <1>4, <1>5

LEMMA OrderIsInvariant == DisplaySpec => []InOrder
<1>1. DisplayInit => InOrder
  BY DisplayAssumption DEF DisplayInit, InOrder, Aligned, Monotone, Places
<1>2. Base /\ Base' /\ InOrder /\ [DisplayNext]_chain => InOrder'
  <2> SUFFICES ASSUME Base, Base', InOrder, [DisplayNext]_chain PROVE InOrder'
    OBVIOUS
  <2>1. CASE DisplayNext
    BY <2>1, OrderUpstream, OrderSend, OrderUpdate DEF DisplayNext, Write, Read, Show
  <2>2. CASE UNCHANGED chain
    BY <2>2, OrderUpstream
  <2> QED BY <2>1, <2>2
<1> QED BY BaseIsInvariant, <1>1, <1>2, PTL DEF DisplaySpec

(* Unless a pattern was split, no segment of the display goes back to an     *)
(* earlier letter, even where writes and reads of led overlap.               *)
THEOREM SegmentsGoForward == DisplaySpec => NeverGoesBack
<1>1. Base /\ Base' /\ InOrder /\ [DisplayNext]_chain =>
        [~split' => \A k \in Places : shown'[k][1] >= shown[k][1]]_chain
  <2> SUFFICES ASSUME Base, Base', InOrder, DisplayNext, ~split', NEW k \in Places
               PROVE  shown'[k][1] >= shown[k][1]
    OBVIOUS
  <2>1. shown[k][1] \in Int
    BY BytesUnderWay
  <2>2. CASE UNCHANGED shown
    BY <2>1, <2>2
  <2>3. ASSUME NEW n \in 1 .. RecvSize, Update(n) PROVE shown'[k][1] >= shown[k][1]
    <3>1. /\ UNCHANGED shown \/ shown'[k] = stream[k]
          /\ shown[k][1] <= stream[k][1] /\ stream[k][1] \in Int
      BY <2>3, ShownInPlace, BytesUnderWay
    <3> QED BY <2>1, <3>1
  <2> QED BY <2>2, <2>3 DEF DisplayNext, Insmod, Rmmod, Write, OpenWriter, LoseLetter,
             WriteByte, Read, Start, ReadByte, Send, Interrupt, Show
<1> QED BY BaseIsInvariant, OrderIsInvariant, <1>1, PTL DEF DisplaySpec, NeverGoesBack

-----------------------------------------------------------------------------
(* Where no write overlapped a read, reader holds one letter, which is the   *)
(* one in led while it reads; and each byte under way is of the letter of    *)
(* the first byte of its pattern.                                            *)
OneLetter ==
  /\ \A k \in 1 .. Len(buf) : buf[k][1] = buf[1][1]
  /\ Copying => written = 0 /\ \A k \in Places : led[k] = buf[1][1]
  /\ \A i \in 1 .. Len(stream) :
       stream[i][2] <= i /\ stream[i][1] = stream[i - stream[i][2] + 1][1]

Shows(i) == \A k \in Places : shown[k] = IF i = 0 THEN Off ELSE <<i, k>>

WholeInv == ~overlapped /\ ~split => OneLetter /\ \E i \in 0 .. Length : Shows(i)

LEMMA WholeUpstream ==
  ASSUME Base, WholeInv,
         Insmod \/ Rmmod \/ OpenWriter \/ LoseLetter \/ WriteByte \/ Start \/ ReadByte
         \/ Interrupt \/ UNCHANGED chain
  PROVE  WholeInv'
<1> USE DisplayAssumption DEF Letters, driver, letters, history
<1>1. UNCHANGED <<stream, shown, split>>
  BY DEF Insmod, Rmmod, OpenWriter, LoseLetter, WriteByte, Start, ReadByte, Interrupt, chain
<1>2. ~overlapped' => ~overlapped
  BY DEF Insmod, Rmmod, OpenWriter, LoseLetter, WriteByte, Start, ReadByte, Interrupt, chain
<1> SUFFICES ASSUME ~overlapped', ~split PROVE OneLetter' /\ \E i \in 0 .. Length : Shows(i)'
  BY <1>1 DEF WholeInv
<1>3. OneLetter /\ \E i \in 0 .. Length : Shows(i)'
  BY <1>1, <1>2 DEF WholeInv, Shows
<1>4. OneLetter'
  <2>1. CASE Insmod
    <3>1. reader # "read" /\ UNCHANGED <<reader, buf>>
      BY <2>1 DEF Insmod, Base, Opened
    <3> QED BY <1>1, <1>3, <3>1 DEF OneLetter, Copying
  <2>2. CASE Rmmod \/ OpenWriter \/ LoseLetter \/ UNCHANGED chain
    BY <1>1, <1>3, <2>2 DEF Rmmod, OpenWriter, LoseLetter, chain, OneLetter, Copying
  <2>3. CASE WriteByte
    <3>1. ~Copying /\ UNCHANGED <<reader, buf>>
      BY <2>3 DEF WriteByte
    <3> QED BY <1>1, <1>3, <3>1 DEF OneLetter, Copying
  <2>4. CASE Start
    <3>1. buf = << >> /\ UNCHANGED buf
      BY <2>4 DEF Start, Base, Held
    <3> QED BY <1>1, <1>3, <3>1 DEF OneLetter, Copying
  <2>5. CASE ReadByte
    <3> DEFINE n == Len(buf) + 1
               x == <<led[n], n>>
    <3>1. /\ buf' = Append(buf, x) /\ n \in Places /\ buf \in Seq(Byte) /\ x \in Byte
          /\ reader = "read" /\ UNCHANGED <<led, written>>
      BY <2>5, SMTT(30) DEF ReadByte, ReadPlace, Base, DisplayTypeOK, Held, Byte, Places
    <3>a. written = 0
      <4>1. ~Writing
        BY <2>5, Zenon DEF ReadByte
      <4> QED BY <4>1 DEF Writing, Base, DisplayTypeOK
    <3>2. Len(buf') = n /\ buf'[n] = x /\ \A i \in 1 .. Len(buf) : buf'[i] = buf[i]
      BY <3>1, AppendOne
    <3>3. Len(buf) \in Nat /\ buf'[n][1] = led[n]
      BY <3>1, <3>2
    <3>4. \A k \in 1 .. n : buf'[k][1] = buf'[1][1] /\ led[k] = buf'[1][1]
      <4>1. \E i \in 0 .. Length : \A k \in Places : led[k] = i
        BY <3>a DEF Base, Led
      <4>2. CASE buf = << >>
        BY <3>1, <3>2, <3>3, <4>1, <4>2 DEF Places
      <4>3. CASE buf # << >>
        <5>1. Copying
          BY <3>1, <4>3 DEF Copying
        <5>2. \A k \in Places : led[k] = buf[1][1]
          BY <1>3, <5>1 DEF OneLetter
        <5>3. 1 \in 1 .. Len(buf)
          BY <3>1, <4>3
        <5>4. \A k \in 1 .. Len(buf) : buf'[k][1] = buf[1][1]
          BY <1>3, <3>2 DEF OneLetter
        <5> HIDE DEF x
        <5> QED BY <3>1, <3>2, <3>3, <5>2, <5>3, <5>4 DEF Places
      <4> QED BY <4>2, <4>3
    <3>5. \A k \in Places : led[k] = buf'[1][1]
      <4>1. 1 \in 1 .. n /\ 1 \in Places
        BY <3>3 DEF Places
      <4>2. \A k \in Places : led[k] = led[1]
        BY <3>a, <4>1 DEF Base, Led
      <4> QED BY <3>4, <4>1, <4>2
    <3>6. stream' = stream
      BY <1>1
    <3> HIDE DEF n, x
    <3> QED BY <1>3, <3>1, <3>2, <3>a, <3>4, <3>5, <3>6 DEF OneLetter, Copying
  <2>6. CASE Interrupt
    <3>1. buf' = << >>
      BY <2>6 DEF Interrupt
    <3> QED BY <1>1, <1>3, <3>1 DEF OneLetter, Copying
  <2> QED BY <2>1, <2>2, <2>3, <2>4, <2>5, <2>6
<1> QED BY <1>3, <1>4

LEMMA WholeSend ==
  ASSUME Base, WholeInv, Send
  PROVE  WholeInv'
<1> USE DisplayAssumption DEF Places
<1> DEFINE n == Len(stream)
<1>1. /\ Len(stream') = n + Width /\ Len(buf) = Width /\ buf' = << >>
      /\ UNCHANGED <<shown, split, overlapped>>
      /\ \A i \in 1 .. n : stream'[i] = stream[i]
      /\ \A k \in Places : stream'[n + k] = buf[k]
      /\ \A i \in 1 .. Len(stream') : i \in 1 .. n \/ \E k \in Places : i = n + k
  BY SendStream
<1> SUFFICES ASSUME ~overlapped, ~split PROVE OneLetter' /\ \E i \in 0 .. Length : Shows(i)'
  BY <1>1 DEF WholeInv
<1>2. OneLetter /\ \E i \in 0 .. Length : Shows(i)'
  BY <1>1 DEF WholeInv, Shows
<1>3. n \in Nat /\ \A i \in 1 .. n : stream[i][2] \in 1 .. Width
  BY BytesUnderWay
<1>4. \A k \in Places : buf[k][2] = k /\ buf[k][1] = buf[1][1]
  BY <1>1, <1>2, BytesUnderWay DEF OneLetter
<1>5. \A i \in 1 .. n : stream[i][2] <= i /\ stream[i][1] = stream[i - stream[i][2] + 1][1]
  BY <1>2 DEF OneLetter
<1> HIDE DEF n
<1>6. ASSUME NEW i \in 1 .. Len(stream')
      PROVE  stream'[i][2] <= i /\ stream'[i][1] = stream'[i - stream'[i][2] + 1][1]
  <2>1. CASE i \in 1 .. n
    <3>1. i - stream[i][2] + 1 \in 1 .. n
      BY <1>3, <1>5, <2>1
    <3> QED BY <1>1, <1>5, <2>1, <3>1
  <2>2. ASSUME NEW k \in Places, i = n + k
        PROVE  stream'[i][2] <= i /\ stream'[i][1] = stream'[i - stream'[i][2] + 1][1]
    <3>1. stream'[i][2] = k /\ stream'[i][1] = buf[1][1]
      BY <1>1, <1>4, <2>2
    <3>2. i - k + 1 = n + 1 /\ k <= i
      BY <1>3, <2>2
    <3>3. stream'[n + 1] = buf[1]
      BY <1>1
    <3> QED BY <3>1, <3>2, <3>3
  <2> QED BY <1>1, <2>1, <2>2
<1>7. OneLetter'
  BY <1>1, <1>6 DEF OneLetter, Copying
<1> QED BY <1>2, <1>7

LEMMA WholeUpdate ==
  ASSUME Base, InOrder, InOrder', WholeInv, NEW n \in 1 .. RecvSize, Update(n)
  PROVE  WholeInv'
<1> USE DisplayAssumption DEF Places
<1> DEFINE m == Len(stream)
<1> SUFFICES ASSUME ~overlapped', ~split' PROVE OneLetter' /\ \E i \in 0 .. Length : Shows(i)'
  BY DEF WholeInv
<1>1. /\ m \in Nat /\ Width <= m /\ Len(stream') = m - Width /\ n = Width /\ ~split
      /\ \A i \in 1 .. m - Width : stream'[i] = stream[Width + i]
      /\ UNCHANGED <<led, reader, buf, written, overlapped>>
  BY UpdateStream, BytesUnderWay
<1>2. OneLetter /\ \E i \in 0 .. Length : Shows(i)
  BY <1>1 DEF WholeInv
<1>3. \A i \in 1 .. m : stream[i][2] \in 1 .. Width /\ stream[i][1] \in 0 .. Length
  BY BytesUnderWay
<1>4. \A i \in 1 .. m : stream[i][2] <= i /\ stream[i][1] = stream[i - stream[i][2] + 1][1]
  BY <1>2 DEF OneLetter
<1>5. m - Width > 0 => m - Width >= Width /\ \A k \in Places : stream'[k][2] = k
  BY <1>1 DEF InOrder, Aligned
<1>6. /\ \A k \in Places : stream[k][2] = k /\ k \in 1 .. m
      /\ UNCHANGED shown \/ \A k \in Places : shown'[k] = stream[k] /\ IsBit(stream[k])
  BY ShownInPlace
<1>a. \A k \in Places : stream[k] \in Byte
  <2>1. stream \in Seq(Byte)
    BY DEF Base, DisplayTypeOK, Byte
  <2> QED BY <1>6, <2>1
<1> HIDE DEF m
<1>7. ASSUME NEW i \in 1 .. m - Width
      PROVE  stream'[i][2] <= i /\ stream'[i][1] = stream'[i - stream'[i][2] + 1][1]
  <2> DEFINE p == stream[Width + i][2]
  <2>1. Width + i \in 1 .. m /\ stream'[i] = stream[Width + i]
    BY <1>1
  <2>2. p \in 1 .. Width /\ stream[Width + i][1] = stream[Width + i - p + 1][1]
    BY <1>3, <1>4, <2>1
  <2>3. p <= i
    <3>1. CASE i \in Places
      BY <1>1, <1>5, <2>1, <3>1
    <3>2. CASE i \notin Places
      BY <2>2, <3>2
    <3> QED BY <3>1, <3>2
  <2>4. i - p + 1 \in 1 .. m - Width /\ Width + (i - p + 1) = Width + i - p + 1
    BY <1>1, <2>2, <2>3, SMTT(30)
  <2>5. stream'[i - p + 1] = stream[Width + i - p + 1]
    BY <1>1, <2>4
  <2> QED BY <2>1, <2>2, <2>3, <2>5
<1>8. OneLetter'
  BY <1>1, <1>2, <1>7 DEF OneLetter, Copying
<1>9. \E i \in 0 .. Length : Shows(i)'
  <2>1. CASE UNCHANGED shown
    BY <1>2, <2>1 DEF Shows
  <2>2. CASE \A k \in Places : shown'[k] = stream[k] /\ IsBit(stream[k])
    <3>1. PICK l \in 0 .. Length : l = stream[1][1] /\ l # 0
      <4>1. 1 \in Places
        OBVIOUS
      <4> QED BY <1>3, <1>6, <2>2, <4>1 DEF IsBit
    <3>2. ASSUME NEW k \in Places PROVE stream[k] = <<l, k>>
      <4>1. k - k + 1 = 1 /\ k \in 1 .. m /\ stream[k][2] = k
        BY <1>6
      <4>2. stream[k][1] = l
        BY <1>4, <3>1, <4>1
      <4> QED BY <1>a, <4>1, <4>2 DEF Byte
    <3>3. Shows(l)'
      BY <2>2, <3>1, <3>2 DEF Shows
    <3> QED BY <3>1, <3>3
  <2> QED BY <1>6, <2>1, <2>2
<1> QED BY <1>8, <1>9

(* A display that no overlap and no split disturbed shows all of one letter  *)
(* of the name, each byte on the segment of its place.                       *)
THEOREM DisplayIsWhole == DisplaySpec => []ShownIsWhole
<1>1. DisplayInit => WholeInv
  BY DisplayAssumption DEF DisplayInit, WholeInv, OneLetter, Shows, Copying
<1>2. Base /\ InOrder /\ InOrder' /\ WholeInv /\ [DisplayNext]_chain => WholeInv'
  <2> SUFFICES ASSUME Base, InOrder, InOrder', WholeInv, [DisplayNext]_chain PROVE WholeInv'
    OBVIOUS
  <2>1. CASE DisplayNext
    BY <2>1, WholeUpstream, WholeSend, WholeUpdate DEF DisplayNext, Write, Read, Show
  <2>2. CASE UNCHANGED chain
    BY <2>2, WholeUpstream
  <2> QED BY <2>1, <2>2
<1>3. WholeInv => ShownIsWhole
  BY DEF WholeInv, Shows, ShownIsWhole
<1> QED BY BaseIsInvariant, OrderIsInvariant, <1>1, <1>2, <1>3, PTL DEF DisplaySpec

=============================================================================
