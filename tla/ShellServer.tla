---------------------------- MODULE ShellServer ----------------------------
(***************************************************************************)
(* sem2/LR7: the remote shell's server process and its children.  main     *)
(* accepts a connection, forks a child for it and closes its own copy of   *)
(* the socket; SIGCHLD interrupts main anywhere and its handler reaps      *)
(* children until none is left.  Signals that arrive while one is pending  *)
(* are merged.  The shell that popen forks for a command gets copies of    *)
(* the child's sockets, for nothing is closed on exec; a command that the  *)
(* session does not wait for keeps them.  What a child says to its client  *)
(* is module ShellSession.                                                 *)
(***************************************************************************)
EXTENDS Integers, Sequences, FiniteSets

CONSTANTS
    Clients,            \* each connects once; its child bears its name
    ForkMayFail

ASSUME ServerAssumption ==
    ForkMayFail \in BOOLEAN /\ "server" \notin Clients /\ "listener" \notin Clients

\* (A name with an underscore before a capital is a mutant: a plausible bug in
\* the code that the definition after it models.)

VARIABLES
    backlog,            \* connections the kernel has made, in order
    server, client_fd,  \* where main is, and the client it is serving
    child,              \* state of each client's process
    holders,            \* the processes that hold each connection open
    listeners,          \* those that hold the listening socket
    inherited,          \* the sockets the commands of each session hold
    sigchld,            \* is SIGCHLD pending?
    inHandler           \* is main interrupted by sigchld_handler?

sockets == <<holders, listeners, inherited>>
signals == <<sigchld, inHandler>>
vars == <<backlog, server, client_fd, child, sockets, signals>>

Nobody == "server"

Init ==
    /\ backlog = << >> /\ server = "accept" /\ client_fd = Nobody
    /\ child = [c \in Clients |-> "none"]
    /\ holders = [c \in Clients |-> {}] /\ listeners = {"server"}
    /\ inherited = [c \in Clients |-> {}]
    /\ sigchld = FALSE /\ inHandler = FALSE

\* The kernel completes the handshake without the server.
Connect(c) ==
    /\ child[c] = "none"
    /\ child' = [child EXCEPT ![c] = "queued"]
    /\ backlog' = Append(backlog, c)
    /\ UNCHANGED <<server, client_fd, sockets, signals>>

-----------------------------------------------------------------------------
(* main *)

\* A failed accept is tried again.
Accept ==
    /\ server = "accept" /\ backlog # << >>
    /\ server' = "fork" /\ client_fd' = Head(backlog)
    /\ backlog' = Tail(backlog)
    /\ holders' = [holders EXCEPT ![Head(backlog)] = {"server"}]
    /\ UNCHANGED <<child, listeners, inherited, signals>>

\* The child has copies of all sockets main holds.
Fork ==
    /\ server = "fork"
    /\ \/ /\ child' = [child EXCEPT ![client_fd] = "forked"]
          /\ holders' = [c \in Clients |-> IF "server" \in holders[c]
                                             THEN holders[c] \cup {client_fd} ELSE holders[c]]
          /\ listeners' = listeners \cup {client_fd}
          /\ UNCHANGED inherited
       \/ /\ ForkMayFail
          /\ child' = [child EXCEPT ![client_fd] = "refused"]
          /\ UNCHANGED sockets
    /\ server' = "close"
    /\ UNCHANGED <<backlog, client_fd, signals>>

CloseClient_Forgotten ==
    /\ server = "close"
    /\ server' = "accept" /\ client_fd' = Nobody
    /\ UNCHANGED <<backlog, child, sockets, signals>>

\* After a fork and after a failed one.
CloseClient ==
    /\ server = "close"
    /\ holders' = [holders EXCEPT ![client_fd] = @ \ {"server"}]
    /\ server' = "accept" /\ client_fd' = Nobody
    /\ UNCHANGED <<backlog, child, listeners, inherited, signals>>

main == ~inHandler /\ (Accept \/ Fork \/ CloseClient)

-----------------------------------------------------------------------------
(* sigchld_handler *)

EnterHandler ==
    /\ sigchld /\ ~inHandler
    /\ sigchld' = FALSE /\ inHandler' = TRUE
    /\ UNCHANGED <<backlog, server, client_fd, child, sockets>>

\* waitpid with WNOHANG returns a child.
Reap_OncePerSignal ==
    /\ inHandler
    /\ \E c \in Clients : /\ child[c] = "zombie"
                          /\ child' = [child EXCEPT ![c] = "reaped"]
    /\ inHandler' = FALSE
    /\ UNCHANGED <<backlog, server, client_fd, sockets, sigchld>>

Reap ==
    /\ inHandler
    /\ \E c \in Clients : /\ child[c] = "zombie"
                          /\ child' = [child EXCEPT ![c] = "reaped"]
    /\ UNCHANGED <<backlog, server, client_fd, sockets, signals>>

LeaveHandler_WaitsForAll ==
    /\ inHandler /\ \A c \in Clients : child[c] \notin {"forked", "handling", "zombie"}
    /\ inHandler' = FALSE
    /\ UNCHANGED <<backlog, server, client_fd, child, sockets, sigchld>>

\* waitpid with WNOHANG finds no child that has ended.
LeaveHandler ==
    /\ inHandler /\ \A c \in Clients : child[c] # "zombie"
    /\ inHandler' = FALSE
    /\ UNCHANGED <<backlog, server, client_fd, child, sockets, sigchld>>

sigchld_handler == EnterHandler \/ Reap \/ LeaveHandler

-----------------------------------------------------------------------------
(* A child. *)

CloseListener_Forgotten(c) ==
    /\ child[c] = "forked"
    /\ child' = [child EXCEPT ![c] = "handling"]
    /\ UNCHANGED <<backlog, server, client_fd, sockets, signals>>

CloseListener(c) ==
    /\ child[c] = "forked"
    /\ child' = [child EXCEPT ![c] = "handling"]
    /\ listeners' = listeners \ {c}
    /\ UNCHANGED <<backlog, server, client_fd, holders, inherited, signals>>

\* What a process holds, and so what it passes on.
Held(p) == {c \in Clients : p \in holders[c]}
               \cup (IF p \in listeners THEN {"listener"} ELSE {})

Popen(c) ==
    /\ child[c] = "handling"
    /\ inherited' = [inherited EXCEPT ![c] = @ \cup Held(c)]
    /\ UNCHANGED <<backlog, server, client_fd, child, holders, listeners, signals>>

\* The commands of a session end: before it, or long after.
CommandsEnd(c) ==
    /\ inherited[c] # {}
    /\ inherited' = [inherited EXCEPT ![c] = {}]
    /\ UNCHANGED <<backlog, server, client_fd, child, holders, listeners, signals>>

\* handle_client ends with the session, or is killed writing to a client that
\* has gone; its commands need not have ended.
Exit(c) ==
    /\ child[c] = "handling"
    /\ child' = [child EXCEPT ![c] = "zombie"]
    /\ holders' = [d \in Clients |-> holders[d] \ {c}]
    /\ listeners' = listeners \ {c}
    /\ sigchld' = TRUE
    /\ UNCHANGED <<backlog, server, client_fd, inherited, inHandler>>

-----------------------------------------------------------------------------
Next == main \/ sigchld_handler
        \/ \E c \in Clients : \/ Connect(c) \/ CloseListener(c)
                               \/ Popen(c) \/ CommandsEnd(c) \/ Exit(c)

Spec == Init /\ [][Next]_vars

\* Every process runs; a session may last forever, and so may a command, so
\* Exit and CommandsEnd have no fairness.
\* main is interrupted again and again only while children end, so weak
\* fairness is enough for it.
FairSpec == /\ Spec
            /\ WF_vars(main) /\ WF_vars(sigchld_handler)
            /\ \A c \in Clients : WF_vars(CloseListener(c))

-----------------------------------------------------------------------------
(* Properties. *)

TypeOK ==
    /\ backlog \in Seq(Clients) /\ server \in {"accept", "fork", "close"}
    /\ client_fd \in Clients \cup {Nobody}
    /\ child \in [Clients -> {"none", "queued", "refused", "forked", "handling", "zombie", "reaped"}]
    /\ holders \in [Clients -> SUBSET (Clients \cup {"server"})]
    /\ listeners \subseteq Clients \cup {"server"}
    /\ inherited \in [Clients -> SUBSET (Clients \cup {"listener"})]
    /\ sigchld \in BOOLEAN /\ inHandler \in BOOLEAN

\* Of the server's processes main holds a connection while it serves that client,
\* and the client's child while it runs: neither a failed fork nor an ended child
\* leaves one behind.  Besides them only commands of the same session can hold
\* it, and they may do so after the session: no command holds the connection of
\* another client.
OwnConnectionOnly ==
    \A c \in Clients :
        /\ holders[c] = (IF client_fd = c THEN {"server"} ELSE {})
                        \cup (IF child[c] \in {"forked", "handling"} THEN {c} ELSE {})
        /\ inherited[c] \cap Clients \subseteq {c}

\* Nobody but main and a child that is about to close it holds the listening
\* socket, in particular no command, whenever it ends: the port is free again
\* as soon as main ends.
ListenerPrivate ==
    /\ \A c \in listeners \ {"server"} : child[c] = "forked"
    /\ \A c \in Clients : "listener" \notin inherited[c]

\* A zombie has a signal or a running handler that will find it, though
\* signals are merged.
NoLostChild == (\E c \in Clients : child[c] = "zombie") => sigchld \/ inHandler

\* Every client is served in the end, or refused because fork failed, however
\* often signals interrupt main.
ClientsServed == \A c \in Clients : child[c] = "queued" ~> child[c] \notin {"none", "queued"}
=============================================================================
