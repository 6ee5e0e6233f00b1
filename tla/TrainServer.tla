----------------------------- MODULE TrainServer ----------------------------
(***************************************************************************)
(* lab5/lab5.c: a server that forks a child for each client.  The child    *)
(* makes the connection its standard output and becomes the train; the     *)
(* parent closes its copy and accepts the next client.  The handler of     *)
(* SIGCHLD, which may interrupt main anywhere, reaps the children that     *)
(* have ended; the signals of several of them are one pending signal.      *)
(*                                                                         *)
(* accept is restarted after the handler; its failures change nothing.     *)
(***************************************************************************)
CONSTANTS
  Clients,  \* who may connect; a child is named by the client it serves
  Server,   \* the server process, a holder of descriptors beside the children
  None      \* no connection in connfd

ASSUME TrainAssumption == Server \notin Clients /\ None \notin Clients

VARIABLES
  main,     \* what main does next
  connfd,   \* the client last accepted
  conn,     \* per client: its connection, as the kernel has it
  sockfd,   \* the processes that hold the listening socket
  fds,      \* per process: the connections it holds
  child,    \* per client: its child process
  pending,  \* SIGCHLD is pending
  handler   \* the handler is executing, with SIGCHLD blocked

vars == <<main, connfd, conn, sockfd, fds, child, pending, handler>>

Processes == Clients \cup {Server}

Init ==
  /\ main = "accept" /\ connfd = None
  /\ conn = [c \in Clients |-> "new"]
  /\ sockfd = {Server}
  /\ fds = [p \in Processes |-> {}]
  /\ child = [c \in Clients |-> "none"]
  /\ pending = FALSE /\ handler = FALSE

-----------------------------------------------------------------------------
(* The kernel's side of a connection: it waits for accept, and is refused    *)
(* when no process listens any more.                                         *)
Connect(c) ==
  /\ conn[c] = "new"
  /\ conn' = [conn EXCEPT ![c] = IF sockfd # {} THEN "waiting" ELSE "refused"]
  /\ UNCHANGED <<main, connfd, sockfd, fds, child, pending, handler>>

Reset(c) ==
  /\ conn[c] = "waiting" /\ sockfd = {}
  /\ conn' = [conn EXCEPT ![c] = "refused"]
  /\ UNCHANGED <<main, connfd, sockfd, fds, child, pending, handler>>

-----------------------------------------------------------------------------
MainGoto(a, b) == ~handler /\ main = a /\ main' = b

Accept(c) ==
  /\ MainGoto("accept", "fork") /\ conn[c] = "waiting"
  /\ connfd' = c /\ conn' = [conn EXCEPT ![c] = "accepted"]
  /\ fds' = [fds EXCEPT ![Server] = @ \cup {c}]
  /\ UNCHANGED <<sockfd, child, pending, handler>>

(* The child has a copy of every descriptor of its parent. *)
Fork ==
  /\ MainGoto("fork", "parent")
  /\ child' = [child EXCEPT ![connfd] = "forked"]
  /\ fds' = [fds EXCEPT ![connfd] = fds[Server]] /\ sockfd' = sockfd \cup {connfd}
  /\ UNCHANGED <<connfd, conn, pending, handler>>

(* handle_error ends the server; init takes over its children. *)
ForkFails ==
  /\ MainGoto("fork", "exited")
  /\ fds' = [fds EXCEPT ![Server] = {}] /\ sockfd' = sockfd \ {Server}
  /\ child' = [c \in Clients |-> IF child[c] = "zombie" THEN "reaped" ELSE child[c]]
  /\ pending' = FALSE
  /\ UNCHANGED <<connfd, conn, handler>>

ParentKeeps_all == fds[Server]

ParentKeeps == fds[Server] \ {connfd}

CloseConnection ==
  /\ MainGoto("parent", "accept") /\ fds' = [fds EXCEPT ![Server] = ParentKeeps]
  /\ UNCHANGED <<connfd, conn, sockfd, child, pending, handler>>

-----------------------------------------------------------------------------
ListensOn_stillChild(c) == sockfd

ListensOn(c) == sockfd \ {c}

(* close(sockfd), dup2, close(connfd) and execlp. *)
Depart(c) ==
  /\ child[c] = "forked" /\ child' = [child EXCEPT ![c] = "train"]
  /\ sockfd' = ListensOn(c)
  /\ UNCHANGED <<main, connfd, conn, fds, pending, handler>>

(* The train has passed, its client hung up on it, or execlp failed.         *)
End(c) ==
  /\ child[c] = "train"
  /\ child' = [child EXCEPT ![c] = IF main = "exited" THEN "reaped" ELSE "zombie"]
  /\ pending' = (main # "exited")
  /\ fds' = [fds EXCEPT ![c] = {}] /\ sockfd' = sockfd \ {c}
  /\ UNCHANGED <<main, connfd, conn, handler>>

-----------------------------------------------------------------------------
Deliver ==
  /\ pending /\ ~handler /\ main # "exited"
  /\ handler' = TRUE /\ pending' = FALSE
  /\ UNCHANGED <<main, connfd, conn, sockfd, fds, child>>

Ended == {c \in Clients : child[c] = "zombie"}

LoopsOn_once == FALSE

LoopsOn == TRUE

(* while (waitpid(-1, NULL, WNOHANG) > 0) *)
Reap(c) ==
  /\ handler /\ c \in Ended
  /\ child' = [child EXCEPT ![c] = "reaped"] /\ handler' = LoopsOn
  /\ UNCHANGED <<main, connfd, conn, sockfd, fds, pending>>

Return ==
  /\ handler /\ Ended = {} /\ handler' = FALSE
  /\ UNCHANGED <<main, connfd, conn, sockfd, fds, child, pending>>

-----------------------------------------------------------------------------
Main    == (\E c \in Clients : Accept(c)) \/ Fork \/ ForkFails \/ CloseConnection
Handler == Deliver \/ (\E c \in Clients : Reap(c)) \/ Return
Child(c) == Depart(c) \/ End(c)

Next ==
  \/ Main \/ Handler
  \/ \E c \in Clients : Connect(c) \/ Reset(c) \/ Child(c)

Spec == Init /\ [][Next]_vars

(* The kernel runs every process that can run, and every train passes. *)
FairSpec ==
  /\ Spec /\ WF_vars(Main) /\ WF_vars(Handler)
  /\ \A c \in Clients : WF_vars(Child(c)) /\ WF_vars(Reset(c))

-----------------------------------------------------------------------------
(* Every variable stays in its range; main only forks for a client. *)
TypeOK ==
  /\ main \in {"accept", "fork", "parent", "exited"}
  /\ connfd \in Clients \cup {None} /\ (main \in {"fork", "parent"} => connfd \in Clients)
  /\ conn \in [Clients -> {"new", "waiting", "accepted", "refused"}]
  /\ sockfd \subseteq Processes
  /\ fds \in [Processes -> SUBSET Clients]
  /\ child \in [Clients -> {"none", "forked", "train", "zombie", "reaped"}]
  /\ pending \in BOOLEAN /\ handler \in BOOLEAN

(* However the signals of several children coalesce and wherever the handler *)
(* interrupts main, no ended child is forgotten: it is reaped, or SIGCHLD is *)
(* pending, or the handler has not asked for the last time.                  *)
NoZombieForgotten == Ended # {} => pending \/ handler

(* A client's connection is held by its own train, and by the parent until   *)
(* it has closed its copy, by nobody else: the client sees the end of the    *)
(* stream when its train is over, however other clients and children come    *)
(* and go in between, and no train keeps the server's port.                  *)
HeldByItsTrain ==
  /\ \A p \in Processes : \A c \in fds[p] :
       \/ p = c /\ child[c] \in {"forked", "train"}
       \/ p = Server /\ c = connfd /\ main \in {"fork", "parent"}
  /\ \A c \in Clients : child[c] = "train" => c \in fds[c] /\ c \notin sockfd

(* Nobody holds the connection any more, and no process is left of its train.*)
Over(c) ==
  \/ conn[c] = "refused"
  \/ /\ conn[c] = "accepted" /\ (\A p \in Processes : c \notin fds[p])
     /\ child[c] = "reaped" \/ (child[c] = "none" /\ main = "exited")

(* Who waits to be accepted sees the end of its connection, with its train   *)
(* reaped; or a fork has failed, and nobody waits for a dead server.         *)
EveryClientEnds == \A c \in Clients : conn[c] = "waiting" ~> Over(c)

=============================================================================
