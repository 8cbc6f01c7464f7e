---------------------------- MODULE ShellProofs ----------------------------
(***************************************************************************)
(* The remote shell.  First its server, for any number of clients and with *)
(* forks that may fail: descriptors do not leak and no ended child is      *)
(* forgotten.  The argument is that main serves one connection at a time   *)
(* and that the connections waiting in the backlog are distinct and have   *)
(* no process.  Then a session, for any number of commands and lines: what *)
(* is on the screen, on its way and still to be sent is always the output  *)
(* of the last command, in order, behind leftovers of earlier commands.    *)
(***************************************************************************)
EXTENDS ShellServer, ShellSession, TLAPS

\* The connections waiting in the backlog, and the one main serves.
BacklogInv ==
    /\ \A n \in 1 .. Len(backlog) : child[backlog[n]] = "queued" /\ backlog[n] # client_fd
    /\ \A m, n \in 1 .. Len(backlog) : backlog[m] = backlog[n] => m = n

ServingInv ==
    /\ server = "accept" <=> client_fd = Nobody
    /\ server = "fork" => child[client_fd] = "queued"
    /\ server = "close" => child[client_fd] \notin {"none", "queued"}

IInv == TypeOK /\ BacklogInv /\ ServingInv /\ OwnConnectionOnly /\ ListenerPrivate /\ NoLostChild

-----------------------------------------------------------------------------
LEMMA InitIInv == Init => IInv
<1> SUFFICES ASSUME Init PROVE IInv
    OBVIOUS
<1> USE ServerAssumption DEF Init, Nobody
<1>1. TypeOK
  <2>1. backlog \in Seq(Clients) OBVIOUS
  <2>2. /\ holders \in [Clients -> SUBSET (Clients \cup {"server"})]
        /\ inherited \in [Clients -> SUBSET (Clients \cup {"listener"})]
    OBVIOUS
  <2>3. child \in [Clients -> {"none", "queued", "refused", "forked", "handling", "zombie", "reaped"}]
    OBVIOUS
  <2> QED BY <2>1, <2>2, <2>3 DEF TypeOK
<1>2. BacklogInv
  <2>1. 1 .. Len(backlog) = {} OBVIOUS
  <2> QED BY <2>1 DEF BacklogInv
<1>3. ServingInv BY DEF ServingInv
<1>4. OwnConnectionOnly BY DEF OwnConnectionOnly
<1>5. ListenerPrivate BY DEF ListenerPrivate
<1>6. NoLostChild BY DEF NoLostChild
<1> QED BY <1>1, <1>2, <1>3, <1>4, <1>5, <1>6 DEF IInv

\* What the head and the tail of a backlog are.
LEMMA BacklogTail ==
    ASSUME NEW S, NEW s \in Seq(S), s # << >>
    PROVE  /\ Len(s) \in Nat /\ Len(s) >= 1 /\ Head(s) = s[1] /\ Head(s) \in S
           /\ Tail(s) \in Seq(S) /\ Len(Tail(s)) = Len(s) - 1
           /\ \A n \in 1 .. Len(Tail(s)) : Tail(s)[n] = s[n + 1]
OBVIOUS

LEMMA ConnectStep == ASSUME IInv, NEW c \in Clients, Connect(c) PROVE IInv'
<1> USE ServerAssumption DEF IInv, TypeOK, Connect, sockets, signals, Nobody
<1>1. /\ backlog' \in Seq(Clients) /\ Len(backlog) \in Nat
      /\ Len(backlog') = Len(backlog) + 1
      /\ \A n \in 1 .. Len(backlog) : backlog'[n] = backlog[n] /\ backlog[n] \in Clients
      /\ backlog'[Len(backlog) + 1] = c
  OBVIOUS
<1>2. \A d \in Clients : child'[d] = IF d = c THEN "queued" ELSE child[d]
  OBVIOUS
<1>3. TypeOK' BY <1>1
<1>4. client_fd # c BY DEF ServingInv
<1>5. BacklogInv'
  <2>1. \A n \in 1 .. Len(backlog) : backlog[n] # c BY DEF BacklogInv
  <2>2. \A n \in 1 .. Len(backlog') : n = Len(backlog) + 1 \/ n \in 1 .. Len(backlog) BY <1>1
  <2> QED BY <1>1, <1>2, <1>4, <2>1, <2>2 DEF BacklogInv
<1>6. ServingInv' BY <1>2 DEF ServingInv
<1>7. OwnConnectionOnly' BY <1>2 DEF OwnConnectionOnly
<1>8. ListenerPrivate' BY <1>2 DEF ListenerPrivate
<1>9. NoLostChild' BY <1>2 DEF NoLostChild
<1> QED BY <1>3, <1>5, <1>6, <1>7, <1>8, <1>9

LEMMA AcceptStep == ASSUME IInv, Accept PROVE IInv'
<1> USE ServerAssumption DEF IInv, TypeOK, Accept, sockets, signals, Nobody
<1>1. /\ Len(backlog) \in Nat /\ Len(backlog) >= 1
      /\ client_fd' = backlog[1] /\ backlog[1] \in Clients
      /\ backlog' \in Seq(Clients) /\ Len(backlog') = Len(backlog) - 1
      /\ \A n \in 1 .. Len(backlog') : backlog'[n] = backlog[n + 1]
  BY BacklogTail
<1>2. child[backlog[1]] = "queued" BY <1>1 DEF BacklogInv
<1>3. \A d \in Clients : holders'[d] = IF d = backlog[1] THEN {"server"} ELSE holders[d]
  BY <1>1
<1>4. TypeOK' BY <1>1, <1>3
<1>5. BacklogInv'
  <2>1. \A n \in 1 .. Len(backlog') : n + 1 \in 1 .. Len(backlog) /\ n + 1 # 1 BY <1>1
  <2>2. 1 \in 1 .. Len(backlog) BY <1>1
  <2>3. \A n \in 1 .. Len(backlog') : child'[backlog'[n]] = "queued" /\ backlog'[n] # client_fd'
    BY <1>1, <2>1, <2>2 DEF BacklogInv
  <2>4. \A m, n \in 1 .. Len(backlog') : backlog'[m] = backlog'[n] => m + 1 = n + 1
    BY <1>1, <2>1 DEF BacklogInv
  <2>5. \A m, n \in 1 .. Len(backlog') : m + 1 = n + 1 => m = n BY <1>1
  <2> QED BY <2>3, <2>4, <2>5 DEF BacklogInv
<1>6. ServingInv' BY <1>1, <1>2 DEF ServingInv
<1>7. OwnConnectionOnly'
  <2>1. client_fd = Nobody BY DEF ServingInv
  <2> QED BY <1>1, <1>2, <1>3, <2>1 DEF OwnConnectionOnly
<1>8. ListenerPrivate' BY DEF ListenerPrivate
<1>9. NoLostChild' BY DEF NoLostChild
<1> QED BY <1>4, <1>5, <1>6, <1>7, <1>8, <1>9

LEMMA ForkStep == ASSUME IInv, Fork PROVE IInv'
<1> USE ServerAssumption DEF IInv, TypeOK, Fork, sockets, signals, Nobody
<1>0. client_fd \in Clients /\ child[client_fd] = "queued" BY DEF ServingInv
<1>1. PICK v \in {"forked", "refused"} : child' = [child EXCEPT ![client_fd] = v]
  OBVIOUS
<1>2. \A c \in Clients : child'[c] = IF c = client_fd THEN v ELSE child[c] BY <1>0, <1>1
<1>3. TypeOK'
  <2>1. holders' \in [Clients -> SUBSET (Clients \cup {"server"})]
    <3>1. CASE holders' = holders BY <3>1
    <3>2. CASE holders' = [c \in Clients |-> IF "server" \in holders[c]
                                               THEN holders[c] \cup {client_fd} ELSE holders[c]]
      BY <1>0, <3>2
    <3> QED BY <3>1, <3>2
  <2>2. child' \in [Clients -> {"none", "queued", "refused", "forked", "handling", "zombie", "reaped"}]
    BY <1>0, <1>1
  <2>3. listeners' \subseteq Clients \cup {"server"} /\ inherited' = inherited BY <1>0
  <2> QED BY <1>0, <2>1, <2>2, <2>3
<1>4. BacklogInv'
  <2>1. \A n \in 1 .. Len(backlog) : backlog[n] \in Clients OBVIOUS
  <2> QED BY <1>2, <2>1 DEF BacklogInv
<1>5. ServingInv' BY <1>0, <1>2 DEF ServingInv
<1>6. OwnConnectionOnly'
  <2>0. \A c \in Clients : "server" \in holders[c] <=> c = client_fd
    BY <1>0 DEF OwnConnectionOnly
  <2>1. CASE v = "forked"
    <3>1. \A c \in Clients : holders'[c] = IF "server" \in holders[c]
                                             THEN holders[c] \cup {client_fd} ELSE holders[c]
      BY <2>1, <1>2, <1>0
    <3>2. holders[client_fd] = {"server"} BY <1>0 DEF OwnConnectionOnly
    <3>3. holders'[client_fd] = {"server", client_fd} BY <1>0, <3>1, <3>2
    <3>4. \A c \in Clients \ {client_fd} : holders'[c] = holders[c] BY <3>1, <2>0
    <3> QED BY <2>1, <1>0, <1>2, <3>3, <3>4 DEF OwnConnectionOnly
  <2>2. CASE v = "refused"
    <3>1. holders' = holders BY <2>2, <1>2, <1>0
    <3> QED BY <2>2, <1>0, <1>2, <3>1 DEF OwnConnectionOnly
  <2> QED BY <2>1, <2>2
<1>7. ListenerPrivate' BY <1>0, <1>2 DEF ListenerPrivate
<1>8. NoLostChild' BY <1>0, <1>2 DEF NoLostChild
<1> QED BY <1>3, <1>4, <1>5, <1>6, <1>7, <1>8

LEMMA CloseClientStep == ASSUME IInv, CloseClient PROVE IInv'
<1> USE ServerAssumption DEF IInv, TypeOK, CloseClient, sockets, signals, Nobody
<1>0. client_fd \in Clients BY DEF ServingInv
<1>1. \A c \in Clients : holders'[c] = IF c = client_fd THEN holders[c] \ {"server"} ELSE holders[c]
  BY <1>0
<1>2. TypeOK' BY <1>1
<1>3. BacklogInv'
  <2>1. \A n \in 1 .. Len(backlog) : backlog[n] \in Clients OBVIOUS
  <2> QED BY <2>1 DEF BacklogInv
<1>4. ServingInv' BY DEF ServingInv
<1>5. OwnConnectionOnly' BY <1>0, <1>1 DEF OwnConnectionOnly
<1>6. ListenerPrivate' BY DEF ListenerPrivate
<1>7. NoLostChild' BY DEF NoLostChild
<1> QED BY <1>2, <1>3, <1>4, <1>5, <1>6, <1>7

\* Entering the handler consumes the signal; leaving it is possible only when
\* no zombie is left; what it does in between concerns zombies alone.
LEMMA HandlerStep == ASSUME IInv, sigchld_handler PROVE IInv'
<1> USE ServerAssumption DEF IInv, TypeOK, sockets, signals, Nobody
<1>1. CASE EnterHandler \/ LeaveHandler
  <2>1. UNCHANGED <<backlog, server, client_fd, child, sockets>>
    BY <1>1 DEF EnterHandler, LeaveHandler
  <2>2. TypeOK' BY <1>1, <2>1 DEF EnterHandler, LeaveHandler
  <2>3. BacklogInv' BY <2>1 DEF BacklogInv
  <2>4. ServingInv' BY <2>1 DEF ServingInv
  <2>5. OwnConnectionOnly' BY <2>1 DEF OwnConnectionOnly
  <2>6. ListenerPrivate' BY <2>1 DEF ListenerPrivate
  <2>7. NoLostChild' BY <1>1, <2>1 DEF NoLostChild, EnterHandler, LeaveHandler
  <2> QED BY <2>2, <2>3, <2>4, <2>5, <2>6, <2>7
<1>2. CASE Reap
  <2> USE <1>2 DEF Reap
  <2>1. PICK c \in Clients : child[c] = "zombie" /\ child' = [child EXCEPT ![c] = "reaped"]
    OBVIOUS
  <2>2. \A d \in Clients : child'[d] = IF d = c THEN "reaped" ELSE child[d] BY <2>1
  <2>3. TypeOK' BY <2>1
  <2>4. BacklogInv'
    <3>1. \A n \in 1 .. Len(backlog) : backlog[n] \in Clients OBVIOUS
    <3> QED BY <2>1, <2>2, <3>1 DEF BacklogInv
  <2>5. ServingInv' BY <2>1, <2>2 DEF ServingInv
  <2>6. OwnConnectionOnly' BY <2>1, <2>2 DEF OwnConnectionOnly
  <2>7. ListenerPrivate' BY <2>1, <2>2 DEF ListenerPrivate
  <2>8. NoLostChild' BY DEF NoLostChild
  <2> QED BY <2>3, <2>4, <2>5, <2>6, <2>7, <2>8
<1> QED BY <1>1, <1>2 DEF sigchld_handler

LEMMA CloseListenerStep == ASSUME IInv, NEW c \in Clients, CloseListener(c) PROVE IInv'
<1> USE ServerAssumption DEF IInv, TypeOK, CloseListener, sockets, signals, Nobody
<1>1. \A d \in Clients : child'[d] = IF d = c THEN "handling" ELSE child[d] OBVIOUS
<1>2. TypeOK' OBVIOUS
<1>3. BacklogInv'
  <2>1. \A n \in 1 .. Len(backlog) : backlog[n] \in Clients OBVIOUS
  <2> QED BY <1>1, <2>1 DEF BacklogInv
<1>4. ServingInv' BY <1>1 DEF ServingInv
<1>5. OwnConnectionOnly' BY <1>1 DEF OwnConnectionOnly
<1>6. ListenerPrivate' BY <1>1 DEF ListenerPrivate
<1>7. NoLostChild' BY <1>1 DEF NoLostChild
<1> QED BY <1>2, <1>3, <1>4, <1>5, <1>6, <1>7

LEMMA ExitStep == ASSUME IInv, NEW c \in Clients, Exit(c) PROVE IInv'
<1> USE ServerAssumption DEF IInv, TypeOK, Exit, sockets, signals, Nobody
<1>1. \A d \in Clients : child'[d] = IF d = c THEN "zombie" ELSE child[d] OBVIOUS
<1>2. TypeOK' OBVIOUS
<1>3. BacklogInv'
  <2>1. \A n \in 1 .. Len(backlog) : backlog[n] \in Clients OBVIOUS
  <2> QED BY <1>1, <2>1 DEF BacklogInv
<1>4. ServingInv' BY <1>1 DEF ServingInv
<1>5. OwnConnectionOnly'
  <2>1. \A d \in Clients : holders'[d] = holders[d] \ {c} OBVIOUS
  <2> QED BY <1>1, <2>1 DEF OwnConnectionOnly
<1>6. ListenerPrivate' BY <1>1 DEF ListenerPrivate
<1>7. NoLostChild' BY DEF NoLostChild
<1> QED BY <1>2, <1>3, <1>4, <1>5, <1>6, <1>7

\* A command gets the sockets of its child, which are those of its own session.
LEMMA PopenStep == ASSUME IInv, NEW c \in Clients, Popen(c) \/ CommandsEnd(c) PROVE IInv'
<1> USE ServerAssumption DEF IInv, TypeOK, signals, Nobody
<1>1. UNCHANGED <<backlog, server, client_fd, child, holders, listeners, signals>>
  BY DEF Popen, CommandsEnd
<1>2. PICK S \in SUBSET {c} : inherited' = [inherited EXCEPT ![c] = S]
  <2>1. CASE CommandsEnd(c) BY <2>1 DEF CommandsEnd
  <2>2. CASE Popen(c)
    <3>1. child[c] = "handling" /\ inherited' = [inherited EXCEPT ![c] = inherited[c] \cup Held(c)]
      BY <2>2 DEF Popen
    <3>2. {d \in Clients : c \in holders[d]} \subseteq {c} BY DEF OwnConnectionOnly
    <3>3. c \notin listeners BY <3>1 DEF ListenerPrivate
    <3>4. Held(c) \subseteq {c} BY <3>2, <3>3 DEF Held
    <3>5. inherited[c] \subseteq {c} BY DEF OwnConnectionOnly, ListenerPrivate
    <3> QED BY <3>1, <3>4, <3>5
  <2> QED BY <2>1, <2>2
<1>3. \A d \in Clients : inherited'[d] = IF d = c THEN S ELSE inherited[d] BY <1>2
<1>4. TypeOK' BY <1>1, <1>2
<1>5. BacklogInv' BY <1>1 DEF BacklogInv
<1>6. ServingInv' BY <1>1 DEF ServingInv
<1>7. OwnConnectionOnly' BY <1>1, <1>3 DEF OwnConnectionOnly
<1>8. ListenerPrivate' BY <1>1, <1>3 DEF ListenerPrivate
<1>9. NoLostChild' BY <1>1 DEF NoLostChild
<1> QED BY <1>4, <1>5, <1>6, <1>7, <1>8, <1>9

LEMMA StutterStep == IInv /\ UNCHANGED vars => IInv'
BY DEF IInv, TypeOK, BacklogInv, ServingInv, OwnConnectionOnly, ListenerPrivate, NoLostChild,
       vars, sockets, signals

-----------------------------------------------------------------------------
\* The inductive invariant holds in every reachable state of the server.
THEOREM Inductive == Spec => []IInv
<1>1. IInv /\ [Next]_vars => IInv'
  BY ConnectStep, AcceptStep, ForkStep, CloseClientStep, HandlerStep, CloseListenerStep,
     PopenStep, ExitStep, StutterStep DEF Next, main
<1> QED BY InitIInv, <1>1, PTL DEF Spec

\* Type correctness of the server model.
THEOREM TypeCorrect == Spec => []TypeOK
<1>1. IInv => TypeOK BY DEF IInv
<1> QED BY Inductive, <1>1, PTL

\* A connection is open in main while it serves that client, in the child of that
\* client while it runs, and in commands of its own session, and nowhere else.
THEOREM DescriptorsCorrect == Spec => []OwnConnectionOnly
<1>1. IInv => OwnConnectionOnly BY DEF IInv
<1> QED BY Inductive, <1>1, PTL

\* Only main and a child that has just been forked hold the listening socket, and
\* no command ever does.
THEOREM ListenerCorrect == Spec => []ListenerPrivate
<1>1. IInv => ListenerPrivate BY DEF IInv
<1> QED BY Inductive, <1>1, PTL

\* Although signals are merged, a zombie is never forgotten.
THEOREM ReapingCorrect == Spec => []NoLostChild
<1>1. IInv => NoLostChild BY DEF IInv
<1> QED BY Inductive, <1>1, PTL

-----------------------------------------------------------------------------
(***************************************************************************)
(* A session.                                                              *)
(***************************************************************************)

Replies == {"prints", "silent"}     \* kinds of commands with a complete reply

\* Lines of output that handle_client has sent for the client's last command.
Produced == IF Executed THEN lines - left ELSE 0

\* The stream to the client when n lines of the last command are shown: b
\* messages for earlier commands, the d other lines that were sent, in order,
\* then perhaps the end of the reply and the text that follows it.
Arriving(n, b, d, e) ==
    /\ Shows(n)
    /\ Produced = n + d
    /\ Len(toClient) = b + d + e
    /\ n > 0 => b = 0
    /\ \A i \in 1 .. b : toClient[i].part < 0
    /\ \A i \in 1 .. d : toClient[b + i] = [cmd |-> sent, part |-> n + i]
    /\ e >= 1 => /\ toClient[b + d + 1].part = End
                 /\ Executed /\ left = 0 /\ handler # "copy"
    /\ e = 2 => /\ toClient[b + d + 2].part = NoOutput
                /\ lines = 0 /\ handler # "noOutput"
    /\ client = "prompt" => d = 0 /\ e = 0
    /\ client = "waiting" /\ Executed /\ lines > 0 /\ handler # "copy" => e >= 1

StreamInv == \E n, b, d \in Nat, e \in 0 .. 2 : Arriving(n, b, d, e)

\* At most one command is on its way, and only after the reply before it has
\* been sent as far as the client waits for it.
CommandInv ==
    /\ current.cmd <= sent
    /\ toServer # << >> =>
          /\ Len(toServer) = 1 /\ toServer[1].cmd = sent /\ current.cmd < sent
          /\ handler # "copy" /\ client # "prompt"
          /\ handler = "closed" => client # "waiting"
    /\ client = "prompt" /\ handler # "closed" =>
          /\ toServer = << >> /\ current.cmd = sent
          /\ sent > 0 => Executed
    /\ client = "prompt" => handler # "copy"
    /\ client = "waiting" /\ handler # "closed" /\ toServer = << >> => current.cmd = sent
    /\ handler = "copy" => Executed
    /\ handler = "noOutput" => lines = 0 /\ current.kind \in Replies
    /\ Executed /\ handler \notin {"copy", "closed"} => left = 0
    /\ Executed /\ current.kind = "prints" => lines > 0
    /\ client = "waiting" => sent > 0
    /\ handler # "closed" /\ current.kind \in {"exit", "exitCR"} => current.cmd = 0

SessionInv == SessionTypeOK /\ StreamInv /\ CommandInv

-----------------------------------------------------------------------------
(* Sequences. *)

LEMMA Prefix ==
    ASSUME NEW S, NEW s \in Seq(S), NEW n \in 0 .. Len(s)
    PROVE  /\ SubSeq(s, 1, n) \in Seq(S) /\ Len(SubSeq(s, 1, n)) = n
           /\ \A i \in 1 .. n : SubSeq(s, 1, n)[i] = s[i]
OBVIOUS

LEMMA Suffix ==
    ASSUME NEW S, NEW s \in Seq(S), NEW n \in 0 .. Len(s)
    PROVE  /\ SubSeq(s, n + 1, Len(s)) \in Seq(S) /\ Len(SubSeq(s, n + 1, Len(s))) = Len(s) - n
           /\ \A i \in 1 .. Len(s) - n : SubSeq(s, n + 1, Len(s))[i] = s[n + i]
OBVIOUS

LEMMA Concatenation ==
    ASSUME NEW S, NEW s \in Seq(S), NEW t \in Seq(S)
    PROVE  /\ s \o t \in Seq(S) /\ Len(s) \in Nat /\ Len(t) \in Nat
           /\ Len(s \o t) = Len(s) + Len(t)
           /\ \A i \in 1 .. Len(s) : (s \o t)[i] = s[i]
           /\ \A i \in 1 .. Len(t) : (s \o t)[Len(s) + i] = t[i]
OBVIOUS

LEMMA BehindPrefix ==
    ASSUME NEW S, NEW s \in Seq(S), NEW t \in Seq(S), NEW n \in 0 .. Len(t)
    PROVE  /\ Len(s \o SubSeq(t, 1, n)) = Len(s) + n
           /\ \A i \in 1 .. Len(s) : (s \o SubSeq(t, 1, n))[i] = s[i]
           /\ \A i \in 1 .. n : (s \o SubSeq(t, 1, n))[Len(s) + i] = t[i]
<1>1. /\ SubSeq(t, 1, n) \in Seq(S) /\ Len(SubSeq(t, 1, n)) = n
      /\ \A i \in 1 .. n : SubSeq(t, 1, n)[i] = t[i]
  BY Prefix
<1> PICK q \in Seq(S) : q = SubSeq(t, 1, n) BY <1>1, Zenon
<1>2. Len(s \o q) = Len(s) + Len(q) BY Concatenation
<1>3. \A i \in 1 .. Len(s) : (s \o q)[i] = s[i] BY Concatenation
<1>4. \A i \in 1 .. Len(q) : (s \o q)[Len(s) + i] = q[i] BY Concatenation
<1> QED BY <1>1, <1>2, <1>3, <1>4

LEMMA Appended ==
    ASSUME NEW S, NEW s \in Seq(S), NEW x \in S
    PROVE  /\ Append(s, x) \in Seq(S) /\ Len(s) \in Nat
           /\ Len(Append(s, x)) = Len(s) + 1
           /\ \A i \in 1 .. Len(s) : Append(s, x)[i] = s[i]
           /\ Append(s, x)[Len(s) + 1] = x
OBVIOUS

-----------------------------------------------------------------------------
(* The screen. *)

\* It shows one number of lines only.
LEMMA ShowsOnce ==
    ASSUME SessionTypeOK, NEW m \in Nat, NEW n \in Nat, Shows(m), Shows(n)
    PROVE  m = n
<1>1. ASSUME NEW k \in Nat, NEW l \in Nat, Shows(k), Shows(l), k < l PROVE FALSE
  <2>1. PICK L \in Nat : L = Len(shown) BY DEF SessionTypeOK
  <2>2. l <= L BY <1>1, <2>1 DEF Shows
  <2>3. L - l + 1 \in 1 .. L - k /\ 1 \in 1 .. l BY <1>1, <2>2
  <2>4. shown[L - l + 1].part < 0 BY <1>1, <2>1, <2>3 DEF Shows
  <2>5. shown[L - l + 1] = [cmd |-> sent, part |-> 1] BY <1>1, <2>1, <2>3 DEF Shows
  <2> QED BY <2>4, <2>5
<1>2. ~ (m < n) BY <1>1
<1>3. ~ (n < m) BY <1>1
<1> QED BY <1>2, <1>3

LEMMA SeenLines == \A n \in Nat : SessionTypeOK /\ Shows(n) => Seen = n
<1> SUFFICES ASSUME NEW n \in Nat, SessionTypeOK, Shows(n) PROVE Seen = n
    OBVIOUS
<1>1. n \in 0 .. Len(shown) BY DEF Shows
<1>2. \A k \in 0 .. Len(shown) : Shows(k) => k = n BY ShowsOnce DEF SessionTypeOK
<1> QED BY <1>1, <1>2 DEF Seen

LEMMA SeenLinesNext == (\A n \in Nat : SessionTypeOK /\ Shows(n) => Seen = n)'
BY SeenLines, PTL

LEMMA ProducedRange ==
    ASSUME SessionTypeOK
    PROVE  /\ Produced \in 0 .. lines /\ lines \in 0 .. MaxLines
           /\ Executed => Produced = lines - left
           /\ ~ Executed => Produced = 0
BY SessionAssumption DEF SessionTypeOK, Produced

\* What is printed of the pieces that are on their way appears behind what was
\* there.
LEMMA ShowsMore ==
    ASSUME SessionTypeOK, NEW n \in Nat, NEW b \in Nat, NEW d \in Nat, NEW e \in 0 .. 2,
           Arriving(n, b, d, e), NEW p \in 0 .. b + d,
           sent' = sent, shown' = shown \o SubSeq(toClient, 1, p)
    PROVE  IF p <= b THEN Shows(n)' ELSE Shows(n + (p - b))'
<1> DEFINE q == SubSeq(toClient, 1, p)
<1>1. PICK L \in Nat, M \in Nat : L = Len(shown) /\ M = Len(toClient) BY DEF SessionTypeOK
<1>2. p \in 0 .. M BY <1>1 DEF Arriving
<1>a. toClient \in Seq(Pieces) /\ shown \in Seq(Pieces) BY DEF SessionTypeOK
<1>3. Len(q) = p /\ \A i \in 1 .. p : q[i] = toClient[i]
  BY Prefix, <1>1, <1>2, <1>a
<1>4. /\ Len(shown') = L + p
      /\ \A i \in 1 .. L : shown'[i] = shown[i]
      /\ \A i \in 1 .. p : shown'[L + i] = toClient[i]
  BY BehindPrefix, <1>1, <1>2, <1>a
<1>5. /\ n <= L
      /\ n > 0 => b = 0
      /\ \A i \in 1 .. L - n : shown[i].part < 0
      /\ \A i \in 1 .. n : shown[L - n + i] = [cmd |-> sent, part |-> i]
      /\ \A i \in 1 .. b : toClient[i].part < 0
      /\ \A i \in 1 .. d : toClient[b + i] = [cmd |-> sent, part |-> n + i]
  <2>1. Shows(n) BY DEF Arriving
  <2>2. /\ n <= L
        /\ \A i \in 1 .. L - n : shown[i].part < 0
        /\ \A i \in 1 .. n : shown[L - n + i] = [cmd |-> sent, part |-> i]
    BY <1>1, <2>1 DEF Shows
  <2>3. /\ n > 0 => b = 0
        /\ \A i \in 1 .. b : toClient[i].part < 0
        /\ \A i \in 1 .. d : toClient[b + i] = [cmd |-> sent, part |-> n + i]
    BY DEF Arriving
  <2> QED BY <2>2, <2>3
<1> HIDE DEF q
<1>6. CASE p = 0 BY <1>4, <1>5, <1>6 DEF Shows
<1>7. CASE p > 0 /\ p <= b
  <2>1. n = 0 BY <1>5, <1>7
  <2>2. \A i \in 1 .. L : shown'[i].part < 0 BY <1>4, <1>5, <2>1
  <2>3. ASSUME NEW i \in 1 .. L + p, i \notin 1 .. L PROVE shown'[i].part < 0
    <3>1. PICK j \in 1 .. p : j \in 1 .. b /\ i = L + j
      <4>1. i - L \in 1 .. p /\ i - L \in 1 .. b /\ i = L + (i - L) BY <1>7, <2>3
      <4> QED BY <4>1
    <3>2. shown'[L + j] = toClient[j] BY <1>4
    <3>3. toClient[j].part < 0 BY <1>5, <3>1
    <3> QED BY <3>1, <3>2, <3>3
  <2>4. \A i \in 1 .. L + p : shown'[i].part < 0 BY <2>2, <2>3
  <2> QED BY <1>4, <1>7, <2>1, <2>4 DEF Shows
<1>8. CASE p > b
  <2>0. PICK m \in Nat : m = n + (p - b) BY <1>8
  <2>1. m \in 0 .. L + p /\ L + p - m = (L - n) + b
    <3>1. \A x, y, z, w \in Nat : w <= x /\ z > y =>
            w + (z - y) \in 0 .. x + z /\ x + z - (w + (z - y)) = (x - w) + y
      OBVIOUS
    <3>2. p \in Nat OBVIOUS
    <3> QED BY <3>1, <3>2, <2>0, <1>5, <1>8
  <2>2. \A i \in 1 .. L - n : shown'[i].part < 0
    <3>1. \A i \in 1 .. L - n : i \in 1 .. L OBVIOUS
    <3> QED BY <3>1, <1>4, <1>5
  <2>3. ASSUME NEW i \in 1 .. (L - n) + b PROVE shown'[i].part < 0
    <3>1. CASE i \in 1 .. L - n BY <2>2, <3>1
    <3>2. CASE i \notin 1 .. L - n
      <4>1. b > 0 /\ n = 0 BY <3>2, <1>5
      <4>2. i - L \in 1 .. b /\ i - L \in 1 .. p /\ i = L + (i - L) BY <3>2, <4>1, <1>8
      <4>3. PICK j \in 1 .. p : j \in 1 .. b /\ i = L + j BY <4>2
      <4>4. shown'[L + j] = toClient[j] BY <1>4
      <4>5. toClient[j].part < 0 BY <1>5, <4>3
      <4> QED BY <4>3, <4>4, <4>5
    <3> QED BY <3>1, <3>2
  <2>4. ASSUME NEW i \in 1 .. m PROVE shown'[(L - n) + b + i] = [cmd |-> sent, part |-> i]
    <3>1. CASE i <= n
      <4>1. b = 0 /\ i \in 1 .. n /\ (L - n) + b + i = L - n + i /\ L - n + i \in 1 .. L BY <3>1, <1>5
      <4> QED BY <4>1, <1>4, <1>5
    <3>2. CASE ~ (i <= n)
      <4>1. /\ i - n \in 1 .. d /\ b + (i - n) \in 1 .. p
            /\ (L - n) + b + i = L + (b + (i - n)) /\ n + (i - n) = i
        BY <3>2, <2>0
      <4>2. toClient[b + (i - n)] = [cmd |-> sent, part |-> i] BY <4>1, <1>5
      <4>3. shown'[L + (b + (i - n))] = toClient[b + (i - n)] BY <4>1, <1>4
      <4> QED BY <4>1, <4>2, <4>3
    <3> QED BY <3>1, <3>2
  <2>5. Shows(m)'
    <3>a. PICK N \in Nat : N = Len(shown') /\ N = L + p BY <1>4
    <3>b. N - m = (L - n) + b /\ m \in 0 .. N
      <4>1. N = L + p BY <3>a
      <4> QED BY <4>1, <2>1
    <3>0. Len(shown') - m = (L - n) + b /\ m \in 0 .. Len(shown') BY <3>a, <3>b
    <3>1. \A i \in 1 .. Len(shown') - m : shown'[i].part < 0 BY <3>0, <2>3
    <3>2. \A i \in 1 .. m : shown'[Len(shown') - m + i] = [cmd |-> sent', part |-> i]
      BY <3>0, <2>4
    <3> QED BY <3>0, <3>1, <3>2 DEF Shows
  <2> QED BY <1>8, <2>0, <2>5
<1> QED BY <1>6, <1>7, <1>8

-----------------------------------------------------------------------------
(* The client. *)

LEMMA PrintedWhole ==
    ASSUME NEW chunk \in Seq(Pieces), \A i \in 1 .. Len(chunk) : chunk[i].part # End
    PROVE  Printed(chunk) = chunk
BY DEF Printed

LEMMA PrintedToEnd ==
    ASSUME NEW chunk \in Seq(Pieces), NEW k \in Nat, k + 1 \in 1 .. Len(chunk),
           chunk[k + 1].part = End, \A i \in 1 .. k : chunk[i].part # End
    PROVE  Printed(chunk) = SubSeq(chunk, 1, k)
<1> DEFINE ends == {i \in 1 .. Len(chunk) : chunk[i].part = End}
<1>1. k + 1 \in ends OBVIOUS
<1>2. \A i \in ends : k + 1 <= i
  <2>1. \A i \in 1 .. Len(chunk) : i \in 1 .. k \/ k + 1 <= i OBVIOUS
  <2> QED BY <2>1
<1>3. ends \subseteq Int OBVIOUS
<1>4. Printed(chunk) = SubSeq(chunk, 1, (CHOOSE i \in ends : \A j \in ends : i <= j) - 1)
  BY <1>1 DEF Printed
<1> HIDE DEF ends
<1>5. (CHOOSE i \in ends : \A j \in ends : i <= j) = k + 1
  <2>1. \A i \in ends : (\A j \in ends : i <= j) => i = k + 1 BY <1>1, <1>2, <1>3
  <2> QED BY <1>1, <1>2, <2>1
<1>6. (k + 1) - 1 = k OBVIOUS
<1> QED BY <1>4, <1>5, <1>6

LEMMA PrefixOfPrefix ==
    ASSUME NEW S, NEW s \in Seq(S), NEW n \in 0 .. Len(s), NEW m \in 0 .. n
    PROVE  SubSeq(SubSeq(s, 1, n), 1, m) = SubSeq(s, 1, m)
OBVIOUS

\* Whatever part of the stream recv returns, the screen shows the next lines of
\* the same output, and the prompt comes back only when all of it is shown.
LEMMA ReplyReceived ==
    ASSUME SessionInv, ReceiveReply
    PROVE  /\ shown' \in Seq(Pieces)
           /\ \E n, m, b, d \in Nat, e \in 0 .. 2 :
              /\ Shows(n) /\ n <= m /\ m <= Produced /\ Arriving(m, b, d, e)'
              /\ \/ client' = "waiting"
                 \/ client' = "prompt" /\ m = Produced /\ Executed /\ left = 0 /\ handler # "copy"
<1> SessionTypeOK BY DEF SessionInv
<1>0. /\ sent' = sent /\ handler' = handler /\ current' = current /\ lines' = lines /\ left' = left
      /\ Produced' = Produced /\ (Executed' <=> Executed)
  BY DEF ReceiveReply, handlerVars, Produced, Executed
<1>1. PICK n, b, d \in Nat, e \in 0 .. 2 : Arriving(n, b, d, e)
  BY DEF SessionInv, StreamInv
<1>2. /\ Shows(n) /\ Produced = n + d
      /\ n > 0 => b = 0
      /\ \A i \in 1 .. b : toClient[i].part < 0
      /\ \A i \in 1 .. d : toClient[b + i] = [cmd |-> sent, part |-> n + i]
  BY <1>1 DEF Arriving
<1>3. /\ e >= 1 => toClient[b + d + 1].part = End
      /\ e >= 1 => Executed /\ left = 0 /\ handler # "copy"
      /\ e = 2 => toClient[b + d + 2].part = NoOutput
      /\ e = 2 => lines = 0 /\ handler # "noOutput"
      /\ Executed /\ lines > 0 /\ handler # "copy" => e >= 1
  BY <1>1 DEF Arriving, ReceiveReply
<1>4. toClient \in Seq(Pieces) /\ Len(toClient) = b + d + e
  BY <1>1 DEF Arriving, SessionTypeOK
<1>5. PICK r \in 1 .. Len(toClient) :
         LET chunk == SubSeq(toClient, 1, r) IN
         /\ shown' = shown \o Printed(chunk)
         /\ client' = IF EndFound(chunk) THEN "prompt" ELSE "waiting"
         /\ toClient' = SubSeq(toClient, r + 1, Len(toClient))
  BY DEF ReceiveReply
<1> DEFINE chunk == SubSeq(toClient, 1, r)
<1>6. /\ shown' = shown \o Printed(chunk)
      /\ client' = IF EndFound(chunk) THEN "prompt" ELSE "waiting"
      /\ toClient' = SubSeq(toClient, r + 1, Len(toClient))
  BY <1>5
<1>7. r \in Nat /\ r >= 1 /\ r <= b + d + e BY <1>4
<1>8. chunk \in Seq(Pieces) /\ Len(chunk) = r /\ \A i \in 1 .. r : chunk[i] = toClient[i]
  BY <1>4, <1>7, Prefix
<1>9. Len(toClient') = b + d + e - r /\ \A i \in 1 .. b + d + e - r : toClient'[i] = toClient[r + i]
  <2>1. r \in 0 .. Len(toClient) /\ toClient \in Seq(Pieces) BY <1>4, <1>7
  <2>2. /\ Len(SubSeq(toClient, r + 1, Len(toClient))) = Len(toClient) - r
        /\ \A i \in 1 .. Len(toClient) - r :
              SubSeq(toClient, r + 1, Len(toClient))[i] = toClient[r + i]
    BY <2>1, Suffix
  <2>3. /\ Len(toClient') = Len(toClient) - r
        /\ \A i \in 1 .. Len(toClient) - r : toClient'[i] = toClient[r + i]
    BY <1>6, <2>2
  <2>4. Len(toClient) = b + d + e BY <1>4
  <2> QED BY <2>3, <2>4
<1>10. \A i \in 1 .. b + d : toClient[i].part # End
  <2> TAKE i \in 1 .. b + d
  <2>1. CASE i <= b BY <2>1, <1>2 DEF End
  <2>2. CASE ~ (i <= b)
    <3>1. PICK j \in 1 .. d : i = b + j
      <4>1. i - b \in 1 .. d /\ i = b + (i - b) BY <2>2
      <4> QED BY <4>1
    <3>2. toClient[i] = [cmd |-> sent, part |-> n + j] BY <3>1, <1>2
    <3> QED BY <3>2 DEF End
  <2> QED BY <2>1, <2>2
<1>11. Produced = n + d /\ Produced' = n + d BY <1>0, <1>2
<1> HIDE DEF chunk
<1>20. ASSUME NEW p \in 0 .. Len(toClient), shown' = shown \o SubSeq(toClient, 1, p)
       PROVE  shown' \in Seq(Pieces)
  <2>1. SubSeq(toClient, 1, p) \in Seq(Pieces) BY <1>4, Prefix
  <2> QED BY <1>20, <2>1, Concatenation DEF SessionTypeOK
\* Neither all messages for earlier commands ...
<1>12. CASE r <= b
  <2>1. Printed(chunk) = chunk BY <1>8, <1>10, <1>12, PrintedWhole
  <2>2. ~ EndFound(chunk) BY <1>7, <1>8, <1>10, <1>12 DEF EndFound
  <2>3. n = 0 BY <1>2, <1>7, <1>12
  <2>4. PICK c \in Nat : b = r + c
    <3>1. b - r \in Nat /\ b = r + (b - r) BY <1>7, <1>12
    <3> QED BY <3>1
  <2>5. Shows(n)'
    <3>1. r \in 0 .. b + d BY <1>7, <1>12
    <3> QED BY <1>0, <1>1, <1>6, <1>12, <2>1, <3>1, ShowsMore DEF chunk
  <2>6. Len(toClient') = c + d + e BY <1>9, <2>4
  <2>7. \A i \in 1 .. c : toClient'[i].part < 0
    <3>1. \A i \in 1 .. c : i \in 1 .. b + d + e - r /\ r + i \in 1 .. b BY <1>7, <2>4
    <3> QED BY <3>1, <1>2, <1>9
  <2>8. \A i \in 1 .. d + e : toClient'[c + i] = toClient[b + i]
    <3>1. \A i \in 1 .. d + e : c + i \in 1 .. b + d + e - r /\ r + (c + i) = b + i BY <1>7, <2>4
    <3> QED BY <3>1, <1>9
  <2>9. Arriving(n, c, d, e)'
    <3>1. \A i \in 1 .. d : i \in 1 .. d + e OBVIOUS
    <3>2. \A i \in 1 .. d : toClient'[c + i] = [cmd |-> sent', part |-> n + i]
      BY <1>0, <1>2, <2>8, <3>1
    <3>3. e >= 1 => toClient'[c + d + 1].part = End
      <4>1. e >= 1 => d + 1 \in 1 .. d + e /\ c + (d + 1) = c + d + 1 /\ b + (d + 1) = b + d + 1
        OBVIOUS
      <4> QED BY <4>1, <1>3, <2>8
    <3>4. e = 2 => toClient'[c + d + 2].part = NoOutput
      <4>1. e = 2 => d + 2 \in 1 .. d + e /\ c + (d + 2) = c + d + 2 /\ b + (d + 2) = b + d + 2
        OBVIOUS
      <4> QED BY <4>1, <1>3, <2>8
    <3>5. client' # "prompt" BY <1>6, <2>2
    <3> QED BY <1>0, <1>3, <1>11, <2>3, <2>5, <2>6, <2>7, <3>2, <3>3, <3>4, <3>5 DEF Arriving
  <2>10. n <= n /\ n <= Produced /\ client' = "waiting" BY <1>6, <1>11, <2>2
  <2>11. shown' \in Seq(Pieces)
    <3>1. shown' = shown \o SubSeq(toClient, 1, r) BY <1>6, <2>1 DEF chunk
    <3>2. r \in 0 .. Len(toClient) OBVIOUS
    <3> QED BY <1>20, <3>1, <3>2
  <2> QED BY <1>2, <2>9, <2>10, <2>11
\* ... nor lines before the end of the reply end the loop ...
<1>13. CASE r > b /\ r <= b + d
  <2>1. Printed(chunk) = chunk BY <1>8, <1>10, <1>13, PrintedWhole
  <2>2. ~ EndFound(chunk) BY <1>7, <1>8, <1>10, <1>13 DEF EndFound
  <2>3. PICK k, c \in Nat : k > 0 /\ r = b + k /\ d = k + c
    <3>1. r - b \in Nat /\ r - b > 0 /\ d - (r - b) \in Nat /\ r = b + (r - b) /\ d = (r - b) + (d - (r - b))
      BY <1>7, <1>13
    <3> QED BY <3>1
  <2>4. Shows(n + k)'
    <3>1. r \in 0 .. b + d /\ ~ (r <= b) /\ r - b = k BY <1>7, <1>13, <2>3
    <3>2. Shows(n + (r - b))' BY <1>0, <1>1, <1>6, <2>1, <3>1, ShowsMore DEF chunk
    <3> QED BY <3>1, <3>2
  <2>5. Len(toClient') = 0 + c + e BY <1>9, <2>3
  <2>6. \A i \in 1 .. c + e : toClient'[0 + i] = toClient[b + (k + i)]
    <3>1. \A i \in 1 .. c + e : 0 + i \in 1 .. b + d + e - r /\ r + (0 + i) = b + (k + i) BY <1>7, <2>3
    <3> QED BY <3>1, <1>9
  <2>7. Arriving(n + k, 0, c, e)'
    <3>1. \A i \in 1 .. c : i \in 1 .. c + e /\ k + i \in 1 .. d /\ n + (k + i) = (n + k) + i BY <2>3
    <3>2. \A i \in 1 .. c : toClient'[0 + i] = [cmd |-> sent', part |-> (n + k) + i]
      BY <1>0, <1>2, <2>6, <3>1
    <3>3. e >= 1 => toClient'[0 + c + 1].part = End
      <4>1. e >= 1 => c + 1 \in 1 .. c + e /\ 0 + (c + 1) = 0 + c + 1 /\ b + (k + (c + 1)) = b + d + 1
        BY <2>3
      <4> QED BY <4>1, <1>3, <2>6
    <3>4. e = 2 => toClient'[0 + c + 2].part = NoOutput
      <4>1. e = 2 => c + 2 \in 1 .. c + e /\ 0 + (c + 2) = 0 + c + 2 /\ b + (k + (c + 2)) = b + d + 2
        BY <2>3
      <4> QED BY <4>1, <1>3, <2>6
    <3>5. client' # "prompt" BY <1>6, <2>2
    <3>6. Produced' = (n + k) + c BY <1>11, <2>3
    <3>7. \A i \in 1 .. 0 : toClient'[i].part < 0 OBVIOUS
    <3> QED BY <1>0, <1>3, <2>4, <2>5, <3>2, <3>3, <3>4, <3>5, <3>6, <3>7 DEF Arriving
  <2>8. n <= n + k /\ n + k <= Produced /\ n + k \in Nat BY <1>11, <2>3
  <2>9. client' = "waiting" BY <1>6, <2>2
  <2>10. shown' \in Seq(Pieces)
    <3>1. shown' = shown \o SubSeq(toClient, 1, r) BY <1>6, <2>1 DEF chunk
    <3>2. r \in 0 .. Len(toClient) OBVIOUS
    <3> QED BY <1>20, <3>1, <3>2
  <2> QED BY <1>2, <2>7, <2>8, <2>9, <2>10
\* ... and the end of the reply does if it is the last piece received ...
<1>14. \A p \in 0 .. r : Printed(chunk) = SubSeq(chunk, 1, p) => Printed(chunk) = SubSeq(toClient, 1, p)
  BY <1>4, <1>7, PrefixOfPrefix DEF chunk
<1>15. ASSUME r > b + d PROVE shown' = shown \o SubSeq(toClient, 1, b + d) /\ e >= 1
  <2>1. e >= 1 /\ (b + d) + 1 \in 1 .. r /\ b + d \in 0 .. r BY <1>7, <1>15
  <2>2. chunk[(b + d) + 1].part = End BY <1>3, <1>8, <2>1
  <2>3. \A i \in 1 .. b + d : chunk[i].part # End
    <3>1. \A i \in 1 .. b + d : i \in 1 .. r BY <1>7, <1>15
    <3> QED BY <3>1, <1>8, <1>10
  <2>4. Printed(chunk) = SubSeq(chunk, 1, b + d)
    <3>1. b + d \in Nat /\ (b + d) + 1 \in 1 .. Len(chunk) BY <1>8, <2>1
    <3>2. chunk \in Seq(Pieces) BY <1>8
    <3> QED BY <2>2, <2>3, <3>1, <3>2, PrintedToEnd
  <2> QED BY <1>6, <1>14, <2>1, <2>4
<1>16. ASSUME r > b + d PROVE Shows(n + d)'
  <2>1. b + d \in 0 .. b + d OBVIOUS
  <2>2. IF b + d <= b THEN Shows(n)' ELSE Shows(n + ((b + d) - b))'
    BY <1>0, <1>1, <1>15, <1>16, <2>1, ShowsMore
  <2>3. (b + d <= b => n = n + d) /\ (b + d) - b = d OBVIOUS
  <2> QED BY <2>2, <2>3
<1>17. CASE r = b + d + 1
  <2>0. r > b + d BY <1>17
  <2>1. e >= 1 BY <1>15, <2>0
  <2>2. EndFound(chunk) BY <1>3, <1>7, <1>8, <1>17, <2>1 DEF EndFound
  <2>3. PICK c \in 0 .. 1 : e = c + 1
    <3>1. e - 1 \in 0 .. 1 /\ e = (e - 1) + 1 BY <2>1
    <3> QED BY <3>1
  <2>4. Len(toClient') = c + 0 + 0 BY <1>9, <1>17, <2>3
  <2>5. c = 1 => toClient'[1].part = NoOutput
    <3>1. c = 1 => e = 2 /\ 1 \in 1 .. b + d + e - r /\ r + 1 = b + d + 2 BY <1>17, <2>3
    <3> QED BY <3>1, <1>3, <1>9
  <2>6. n + d > 0 => c = 0
    <3>1. c = 1 => lines = 0 BY <1>3, <2>3
    <3>2. lines = 0 => Produced = 0 BY ProducedRange
    <3> QED BY <3>1, <3>2, <1>11
  <2>7. Arriving(n + d, c, 0, 0)'
    <3>1. \A i \in 1 .. c : toClient'[i].part < 0 BY <2>5 DEF NoOutput
    <3>2. \A i \in 1 .. 0 : toClient'[c + i] = [cmd |-> sent', part |-> (n + d) + i] OBVIOUS
    <3>3. Produced' = (n + d) + 0 BY <1>11
    <3>4. Shows(n + d)' BY <1>16, <2>0
    <3>5. client' = "prompt" BY <1>6, <2>2
    <3> QED BY <2>4, <2>6, <3>1, <3>2, <3>3, <3>4, <3>5 DEF Arriving
  <2>8. n <= n + d /\ n + d <= Produced /\ n + d = Produced /\ n + d \in Nat /\ c \in Nat BY <1>11
  <2>9. client' = "prompt" /\ Executed /\ left = 0 /\ handler # "copy" BY <1>3, <1>6, <2>1, <2>2
  <2>10. shown' \in Seq(Pieces)
    <3>1. b + d \in 0 .. Len(toClient) BY <1>4
    <3> QED BY <1>15, <1>20, <2>0, <3>1
  <2> QED BY <1>2, <2>7, <2>8, <2>9, <2>10
\* ... but not if the text of a command without output has come with it.
<1>18. CASE r = b + d + 2
  <2>0. r > b + d BY <1>18
  <2>1. e = 2 BY <1>7, <1>18
  <2>2. ~ EndFound(chunk) BY <1>3, <1>7, <1>8, <1>18, <2>1 DEF EndFound, End, NoOutput
  <2>3. Len(toClient') = 0 + 0 + 0 BY <1>9, <1>18, <2>1
  <2>4. Arriving(n + d, 0, 0, 0)'
    <3>1. \A i \in 1 .. 0 : toClient'[i].part < 0 OBVIOUS
    <3>2. \A i \in 1 .. 0 : toClient'[0 + i] = [cmd |-> sent', part |-> (n + d) + i] OBVIOUS
    <3>3. Produced' = (n + d) + 0 BY <1>11
    <3>4. Shows(n + d)' BY <1>16, <2>0
    <3>5. ~ (lines' > 0) /\ client' # "prompt" BY <1>0, <1>3, <1>6, <2>1, <2>2
    <3> QED BY <2>3, <3>1, <3>2, <3>3, <3>4, <3>5 DEF Arriving
  <2>5. n <= n + d /\ n + d <= Produced /\ n + d \in Nat BY <1>11
  <2>6. client' = "waiting" BY <1>6, <2>2
  <2>7. Shows(n) BY <1>2
  <2>8. n \in Nat /\ 0 \in Nat /\ 0 \in 0 .. 2 OBVIOUS
  <2>9. shown' \in Seq(Pieces)
    <3>1. b + d \in 0 .. Len(toClient) BY <1>4
    <3> QED BY <1>15, <1>20, <2>0, <3>1
  <2> QED BY <2>4, <2>5, <2>6, <2>7, <2>8, <2>9, Zenon
<1>19. r <= b \/ (r > b /\ r <= b + d) \/ r = b + d + 1 \/ r = b + d + 2 BY <1>7
<1> QED BY <1>12, <1>13, <1>17, <1>18, <1>19

-----------------------------------------------------------------------------
(* Every step of a session keeps its invariant. *)

LEMMA InitSession == SessionInit => SessionInv
<1> SUFFICES ASSUME SessionInit PROVE SessionInv
    OBVIOUS
<1> USE SessionAssumption DEF SessionInit
<1>1. SessionTypeOK
  <2>1. shown \in Seq(Pieces) /\ toClient \in Seq(Pieces) /\ toServer \in Seq(Commands) OBVIOUS
  <2>2. current \in [cmd : 0 .. MaxCommands, kind : Kinds \cup {"exit"}] OBVIOUS
  <2>3. sent \in 0 .. MaxCommands /\ lines \in 0 .. MaxLines /\ left \in 0 .. lines OBVIOUS
  <2> QED BY <2>1, <2>2, <2>3 DEF SessionTypeOK
<1>2. ~ Executed BY DEF Executed
<1>3. Arriving(0, 0, 0, 0)
  <2>1. Len(shown) = 0 /\ Len(toClient) = 0 OBVIOUS
  <2>2. Shows(0) BY <2>1 DEF Shows
  <2> QED BY <1>2, <2>1, <2>2 DEF Arriving, Produced
<1>4. CommandInv BY <1>2 DEF CommandInv
<1> QED BY <1>1, <1>3, <1>4 DEF SessionInv, StreamInv

LEMMA SendCommandStep == ASSUME SessionInv, NEW k \in Kinds, SendCommand(k) PROVE SessionInv'
<1> SessionTypeOK /\ CommandInv BY DEF SessionInv
<1>1. /\ client = "prompt" /\ sent < MaxCommands /\ sent' = sent + 1 /\ shown' = << >>
      /\ client' \in {"waiting", "closing", "killed"} /\ reset' \in BOOLEAN
      /\ toClient' = toClient /\ handler' = handler /\ current' = current
      /\ lines' = lines /\ left' = left /\ background' = background
  BY DEF SendCommand, handlerVars, SessionTypeOK
<1>2. toServer' = IF handler # "closed" THEN Append(toServer, [cmd |-> sent + 1, kind |-> k])
                                       ELSE toServer
  BY DEF SendCommand
<1>3. handler # "closed" => toServer = << >> BY <1>1 DEF CommandInv
<1>4. toServer = << >> BY <1>1 DEF CommandInv
<1>5. handler # "closed" => Len(toServer') = 1 /\ toServer'[1].cmd = sent + 1
  BY <1>2, <1>4
<1>6. ~ Executed' BY <1>1 DEF Executed, CommandInv, SessionTypeOK
<1>7. SessionTypeOK'
  <2>1. sent + 1 \in 0 .. MaxCommands BY <1>1, SessionAssumption DEF SessionTypeOK
  <2>2. [cmd |-> sent + 1, kind |-> k] \in Commands BY <2>1 DEF Commands
  <2>3. toServer' \in Seq(Commands) BY <1>2, <2>2, Appended DEF SessionTypeOK
  <2>4. shown' \in Seq(Pieces) BY <1>1
  <2> QED BY <1>1, <2>1, <2>3, <2>4 DEF SessionTypeOK
<1>8. StreamInv'
  <2>1. PICK n, b, d \in Nat, e \in 0 .. 2 : Arriving(n, b, d, e)
    BY DEF SessionInv, StreamInv
  <2>2. d = 0 /\ e = 0 /\ Len(toClient) = b + d + e /\ \A i \in 1 .. b : toClient[i].part < 0
    BY <1>1, <2>1 DEF Arriving
  <2>3. Len(toClient') = b + 0 + 0 BY <1>1, <2>2
  <2>4. Shows(0)'
    <3>1. Len(shown') = 0 BY <1>1
    <3> QED BY <3>1 DEF Shows
  <2>5. Produced' = 0 + 0 BY <1>6 DEF Produced
  <2>6. Arriving(0, b, 0, 0)' BY <1>1, <1>6, <2>2, <2>3, <2>4, <2>5 DEF Arriving
  <2>7. 0 \in Nat /\ 0 \in 0 .. 2 OBVIOUS
  <2> QED BY <2>6, <2>7, Zenon DEF StreamInv
<1>9. CommandInv'
  <2>1. current.cmd <= sent /\ sent \in Nat /\ current.cmd \in Nat BY SessionAssumption DEF CommandInv, SessionTypeOK
  <2>2. current'.cmd <= sent' /\ current'.cmd < sent' BY <1>1, <2>1
  <2>3. handler # "copy" BY <1>1 DEF CommandInv
  <2>4. handler = "noOutput" => lines = 0 /\ current.kind \in Replies BY DEF CommandInv
  <2>5. toServer' # << >> => handler # "closed" BY <1>2, <1>4
  <2>6. handler # "closed" => toServer' # << >> BY <1>5
  <2>7. sent' > 0 BY <1>1, <2>1
  <2>8. handler # "closed" /\ current.kind \in {"exit", "exitCR"} => current.cmd = 0
    BY DEF CommandInv
  <2> QED BY <1>1, <1>5, <1>6, <2>2, <2>3, <2>4, <2>5, <2>6, <2>7, <2>8 DEF CommandInv
<1> QED BY <1>7, <1>8, <1>9 DEF SessionInv

\* A client that ends, for whatever reason.
LEMMA LeaveStep ==
    ASSUME SessionInv, client' \in {"closing", "exited", "killed"},
           UNCHANGED <<sent, shown, reset, toServer, toClient, handlerVars>>
    PROVE  SessionInv'
<1> USE DEF handlerVars
<1>1. SessionTypeOK' BY DEF SessionInv, SessionTypeOK
<1>2. Produced' = Produced /\ (Executed' <=> Executed) BY DEF Produced, Executed
<1>3. StreamInv'
  <2>1. PICK n, b, d \in Nat, e \in 0 .. 2 : Arriving(n, b, d, e)
    BY DEF SessionInv, StreamInv
  <2>2. Shows(n)' BY <2>1 DEF Arriving, Shows
  <2>3. Arriving(n, b, d, e)' BY <1>2, <2>1, <2>2 DEF Arriving
  <2> QED BY <2>3 DEF StreamInv
<1>4. CommandInv' BY <1>2 DEF SessionInv, CommandInv
<1> QED BY <1>1, <1>3, <1>4 DEF SessionInv

LEMMA ReceiveReplyStep == ASSUME SessionInv, ReceiveReply PROVE SessionInv'
<1> SessionTypeOK /\ CommandInv BY DEF SessionInv
<1>1. PICK n, m, b, d \in Nat, e \in 0 .. 2 :
         /\ Shows(n) /\ n <= m /\ m <= Produced /\ Arriving(m, b, d, e)'
         /\ \/ client' = "waiting"
            \/ client' = "prompt" /\ m = Produced /\ Executed /\ left = 0 /\ handler # "copy"
  BY ReplyReceived
<1>2. /\ sent' = sent /\ reset' = reset /\ toServer' = toServer /\ handler' = handler
      /\ current' = current /\ lines' = lines /\ left' = left /\ client = "waiting"
      /\ background' = background
  BY DEF ReceiveReply, handlerVars
<1>3. Executed' <=> Executed BY <1>2 DEF Executed
<1>4. SessionTypeOK'
  <2>1. PICK r \in 1 .. Len(toClient) : toClient' = SubSeq(toClient, r + 1, Len(toClient))
    BY DEF ReceiveReply
  <2>2. r \in 0 .. Len(toClient) /\ toClient \in Seq(Pieces) BY DEF SessionTypeOK
  <2>3. toClient' \in Seq(Pieces) BY <2>1, <2>2, Suffix
  <2>4. shown' \in Seq(Pieces) BY ReplyReceived
  <2> QED BY <1>1, <1>2, <2>3, <2>4 DEF SessionTypeOK
<1>5. StreamInv' BY <1>1 DEF StreamInv
<1>6. CommandInv'
  <2>1. Executed => current.cmd = sent BY DEF Executed
  <2>2. Executed => toServer = << >> BY <2>1 DEF CommandInv, SessionTypeOK
  <2> QED BY <1>1, <1>2, <1>3, <2>1, <2>2 DEF CommandInv
<1> QED BY <1>4, <1>5, <1>6 DEF SessionInv

LEMMA ReceiveNothingStep == ASSUME SessionInv, ReceiveNothing PROVE SessionInv'
<1> SessionTypeOK /\ CommandInv BY DEF SessionInv
<1> USE DEF ReceiveNothing, handlerVars
<1>1. SessionTypeOK' BY DEF SessionTypeOK
<1>2. Produced' = Produced /\ (Executed' <=> Executed) BY DEF Produced, Executed
<1>3. StreamInv'
  <2>1. PICK n, b, d \in Nat, e \in 0 .. 2 : Arriving(n, b, d, e)
    BY DEF SessionInv, StreamInv
  <2>2. Shows(n)' BY <2>1 DEF Arriving, Shows
  <2>3. b + d + e = 0 BY <2>1 DEF Arriving
  <2>4. d = 0 /\ e = 0 BY <2>3
  <2>5. Arriving(n, b, d, e)' BY <1>2, <2>1, <2>2, <2>4 DEF Arriving
  <2> QED BY <2>5 DEF StreamInv
<1>4. CommandInv' BY <1>2 DEF CommandInv
<1> QED BY <1>1, <1>3, <1>4 DEF SessionInv

\* What the kinds of commands do.
LEMMA CommandReceived ==
    ASSUME SessionTypeOK, ReceiveCommand, current'.kind \in Kinds
    PROVE  /\ background' \in BOOLEAN
           /\ current'.kind = "prints" => lines' > 0
           /\ current'.kind \in {"exit", "exitCR"} => handler' = "closed"
           /\ \/ /\ current'.kind \notin Replies /\ handler' \in {"recv", "closed"}
                 /\ lines' = lines /\ left' = left
                 /\ \/ toClient' = toClient
                    \/ toClient' = Append(toClient, [cmd |-> current'.cmd, part |-> PopenError])
              \/ /\ current'.kind \in Replies /\ handler' = "copy"
                 /\ lines' \in 0 .. MaxLines /\ left' = lines'
                 /\ toClient' = toClient
<1>0. background \in BOOLEAN /\ handler = "recv" BY DEF SessionTypeOK, ReceiveCommand
<1>1. CASE current'.kind \in {"blank", "exit", "exitCR", "popenFails"}
  BY <1>0, <1>1 DEF ReceiveCommand, Replies
<1>2. CASE current'.kind = "silent"
  <2>1. StartCommand(0) /\ toClient' = toClient BY <1>2 DEF ReceiveCommand
  <2>2. background' \in BOOLEAN BY <1>0, <2>1, Zenon DEF StartCommand
  <2>3. handler' = "copy" /\ lines' = 0 /\ left' = 0 BY <2>1 DEF StartCommand
  <2> QED BY <1>2, <2>1, <2>2, <2>3, SessionAssumption DEF Replies
<1>3. CASE current'.kind = "prints"
  <2>1. PICK n \in 1 .. MaxLines : StartCommand(n) BY <1>3 DEF ReceiveCommand
  <2>2. toClient' = toClient BY <1>3 DEF ReceiveCommand
  <2>3. background' \in BOOLEAN BY <1>0, <2>1, Zenon DEF StartCommand
  <2>4. handler' = "copy" /\ lines' = n /\ left' = n BY <2>1 DEF StartCommand
  <2> QED BY <1>3, <2>2, <2>3, <2>4, SessionAssumption DEF Replies
<1> QED BY <1>1, <1>2, <1>3, SessionAssumption

LEMMA ReceiveCommandStep == ASSUME SessionInv, ReceiveCommand PROVE SessionInv'
<1> SessionTypeOK /\ CommandInv BY DEF SessionInv
<1> USE SessionAssumption DEF ReceiveCommand, clientVars, StartCommand
<1>1. /\ client' = client /\ sent' = sent /\ shown' = shown /\ reset' = reset
      /\ handler = "recv" /\ toServer # << >> /\ toServer' = Tail(toServer)
      /\ current' = Head(toServer)
  OBVIOUS
<1>2. /\ Len(toServer) = 1 /\ toServer[1].cmd = sent /\ current.cmd < sent /\ client # "prompt"
  BY <1>1 DEF CommandInv
<1>3. /\ toServer' = << >> /\ current' = toServer[1] /\ current' \in Commands
      /\ current'.cmd = sent /\ current'.kind \in Kinds
  <2>1. toServer \in Seq(Commands) BY DEF SessionTypeOK
  <2>2. Head(toServer) = toServer[1] /\ toServer[1] \in Commands /\ Len(Tail(toServer)) = 0
        /\ Tail(toServer) \in Seq(Commands)
    BY <1>1, <1>2, <2>1, BacklogTail
  <2>3. Tail(toServer) = << >> BY <2>2
  <2>4. toServer[1].kind \in Kinds BY <2>2 DEF Commands
  <2> QED BY <1>1, <1>2, <2>2, <2>3, <2>4
<1>4. ~ Executed BY <1>2 DEF Executed, SessionTypeOK
<1>5. Executed' <=> current'.kind \in Replies BY <1>1, <1>3 DEF Executed, Replies
<1>6. PICK n, b, d \in Nat, e \in 0 .. 2 : Arriving(n, b, d, e)
  BY DEF SessionInv, StreamInv
<1>7. n = 0 /\ d = 0 /\ e = 0 /\ Len(toClient) = b /\ Shows(0) /\ \A i \in 1 .. b : toClient[i].part < 0
  <2>1. /\ Shows(n) /\ Produced = n + d /\ Len(toClient) = b + d + e
        /\ \A i \in 1 .. b : toClient[i].part < 0
        /\ e >= 1 => Executed
    BY <1>6 DEF Arriving
  <2>2. n = 0 /\ d = 0 /\ e = 0 BY <1>4, <2>1 DEF Produced
  <2> QED BY <2>1, <2>2
<1>8. Shows(0)' BY <1>1, <1>7 DEF Shows
<1>9. \/ /\ current'.kind \notin Replies /\ handler' \in {"recv", "closed"} /\ lines' = lines /\ left' = left
         /\ \/ toClient' = toClient
            \/ toClient' = Append(toClient, [cmd |-> sent, part |-> PopenError])
      \/ /\ current'.kind \in Replies /\ handler' = "copy" /\ lines' \in 0 .. MaxLines /\ left' = lines'
         /\ toClient' = toClient
  BY <1>3, CommandReceived
<1>10. Produced' = 0 BY <1>5, <1>9 DEF Produced, SessionTypeOK
<1>11. PICK c \in Nat : /\ toClient' \in Seq(Pieces) /\ Len(toClient') = c
                        /\ \A i \in 1 .. c : toClient'[i].part < 0
  <2>1. CASE toClient' = toClient BY <2>1, <1>7 DEF SessionTypeOK
  <2>2. CASE toClient' = Append(toClient, [cmd |-> sent, part |-> PopenError])
    <3>1. [cmd |-> sent, part |-> PopenError] \in Pieces
      BY DEF Pieces, PopenError, SessionTypeOK
    <3>2. /\ toClient' \in Seq(Pieces) /\ Len(toClient') = b + 1
          /\ \A i \in 1 .. b : toClient'[i] = toClient[i]
          /\ toClient'[b + 1].part = PopenError
      BY <1>7, <2>2, <3>1, Appended DEF SessionTypeOK
    <3>3. \A i \in 1 .. b + 1 : i \in 1 .. b \/ i = b + 1 OBVIOUS
    <3>4. \A i \in 1 .. b + 1 : toClient'[i].part < 0 BY <1>7, <3>2, <3>3 DEF PopenError
    <3> QED BY <3>2, <3>4
  <2> QED BY <1>9, <2>1, <2>2
<1>12. SessionTypeOK'
  <2>1. lines' \in 0 .. MaxLines /\ left' \in 0 .. lines'
    <3>1. lines \in 0 .. MaxLines /\ left \in 0 .. lines BY DEF SessionTypeOK
    <3>2. \A x \in 0 .. MaxLines : x \in 0 .. x OBVIOUS
    <3>3. \/ lines' = lines /\ left' = left
          \/ lines' \in 0 .. MaxLines /\ left' = lines'
      BY <1>9
    <3> QED BY <3>1, <3>2, <3>3, Zenon
  <2>2. toServer' \in Seq(Commands)
    <3>1. << >> \in Seq(Commands) OBVIOUS
    <3> QED BY <1>3, <3>1, Zenon
  <2>3. current' \in [cmd : 0 .. MaxCommands, kind : Kinds \cup {"exit"}] BY <1>3 DEF Commands
  <2>4. handler' \in {"recv", "copy", "noOutput", "closed"} BY <1>9
  <2>5. background' \in BOOLEAN BY <1>3, CommandReceived
  <2> QED BY <1>1, <1>11, <2>1, <2>2, <2>3, <2>4, <2>5 DEF SessionTypeOK
<1>13. StreamInv'
  <2>1. Len(toClient') = c + 0 + 0 /\ Produced' = 0 + 0 BY <1>10, <1>11
  <2>2. client' # "prompt" BY <1>1, <1>2
  <2>5. Executed' => handler' = "copy" BY <1>5, <1>9
  <2>3. Arriving(0, c, 0, 0)' BY <1>8, <1>11, <2>1, <2>2, <2>5 DEF Arriving
  <2>4. 0 \in Nat /\ 0 \in 0 .. 2 OBVIOUS
  <2> QED BY <2>3, <2>4, Zenon DEF StreamInv
<1>14. CommandInv'
  <2>1. current'.cmd <= sent' BY <1>1, <1>3 DEF SessionTypeOK
  <2>2. client' # "prompt" BY <1>1, <1>2
  <2>3. Executed' => handler' = "copy" BY <1>5, <1>9
  <2>4. handler' = "copy" => Executed' BY <1>5, <1>9
  <2>5. handler' # "noOutput" BY <1>9
  <2>6. /\ current'.kind = "prints" => lines' > 0
        /\ current'.kind \in {"exit", "exitCR"} => handler' = "closed"
    BY <1>3, CommandReceived
  <2> QED BY <1>1, <1>3, <2>1, <2>2, <2>3, <2>4, <2>5, <2>6 DEF CommandInv
<1> QED BY <1>12, <1>13, <1>14 DEF SessionInv

LEMMA SendLineStep == ASSUME SessionInv, SendLine PROVE SessionInv'
<1> SessionTypeOK /\ CommandInv BY DEF SessionInv
<1>1. /\ client' = client /\ sent' = sent /\ shown' = shown /\ reset' = reset
      /\ toServer' = toServer /\ handler' = handler /\ current' = current /\ lines' = lines
      /\ handler = "copy" /\ left > 0 /\ left' = left - 1
      /\ toClient' = Append(toClient, [cmd |-> current.cmd, part |-> lines - left + 1])
      /\ background' = background
  BY DEF SendLine, Send, Piece, clientVars
<1>2. Executed /\ Executed' /\ client # "prompt" /\ current.cmd = sent
  BY <1>1 DEF CommandInv, Executed
<1>3. lines \in Nat /\ left \in Nat /\ left <= lines /\ lines <= MaxLines /\ sent \in 0 .. MaxCommands
  BY SessionAssumption DEF SessionTypeOK
<1>4. PICK n, b, d \in Nat, e \in 0 .. 2 : Arriving(n, b, d, e)
  BY DEF SessionInv, StreamInv
<1>5. /\ lines - left = n + d /\ e = 0 /\ Len(toClient) = b + d
      /\ n > 0 => b = 0
      /\ \A i \in 1 .. b : toClient[i].part < 0
      /\ \A i \in 1 .. d : toClient[b + i] = [cmd |-> sent, part |-> n + i]
  <2>1. Produced = n + d /\ Len(toClient) = b + d + e /\ ~ (e >= 1)
    BY <1>1, <1>4 DEF Arriving
  <2>2. e = 0 BY <2>1
  <2>3. Produced = lines - left BY <1>2 DEF Produced
  <2>4. /\ n > 0 => b = 0
        /\ \A i \in 1 .. b : toClient[i].part < 0
        /\ \A i \in 1 .. d : toClient[b + i] = [cmd |-> sent, part |-> n + i]
    BY <1>4 DEF Arriving
  <2>5. lines - left = n + d /\ Len(toClient) = b + d BY <2>1, <2>2, <2>3
  <2> QED BY <2>2, <2>4, <2>5, Zenon
<1>6. Shows(n)' BY <1>1, <1>4 DEF Arriving, Shows
<1>7. [cmd |-> current.cmd, part |-> lines - left + 1] \in Pieces
  <2>1. lines - left + 1 \in -2 .. MaxLines
    <3>1. MaxLines \in Nat /\ left > 0 BY <1>1, SessionAssumption
    <3> QED BY <1>3, <3>1
  <2> QED BY <1>2, <1>3, <2>1 DEF Pieces, PopenError
<1>8. /\ toClient' \in Seq(Pieces) /\ Len(toClient') = b + d + 1
      /\ \A i \in 1 .. b + d : toClient'[i] = toClient[i]
      /\ toClient'[b + d + 1] = [cmd |-> sent, part |-> n + d + 1]
  <2>1. toClient \in Seq(Pieces) BY DEF SessionTypeOK
  <2>2. PICK x \in Pieces : x = [cmd |-> current.cmd, part |-> lines - left + 1] BY <1>7
  <2>3. toClient' = Append(toClient, x) BY <1>1, <2>2
  <2>4. /\ toClient' \in Seq(Pieces) /\ Len(toClient') = Len(toClient) + 1
        /\ \A i \in 1 .. Len(toClient) : toClient'[i] = toClient[i]
        /\ toClient'[Len(toClient) + 1] = x
    BY <2>1, <2>3, Appended
  <2>5. Len(toClient) = b + d /\ lines - left + 1 = n + d + 1 BY <1>5
  <2> QED BY <1>2, <2>2, <2>4, <2>5
<1>9. lines' - left' = n + (d + 1) /\ left' \in 0 .. lines' BY <1>1, <1>3, <1>5
<1>10. SessionTypeOK' BY <1>1, <1>8, <1>9 DEF SessionTypeOK
<1>11. StreamInv'
  <2>1. Produced' = n + (d + 1) BY <1>2, <1>9 DEF Produced
  <2>2. Len(toClient') = b + (d + 1) + 0 BY <1>8
  <2>3. \A i \in 1 .. b : toClient'[i].part < 0
    <3>1. \A i \in 1 .. b : i \in 1 .. b + d OBVIOUS
    <3> QED BY <1>5, <1>8, <3>1
  <2>4. \A i \in 1 .. d : toClient'[b + i] = [cmd |-> sent', part |-> n + i]
    <3>1. \A i \in 1 .. d : b + i \in 1 .. b + d OBVIOUS
    <3> QED BY <1>1, <1>5, <1>8, <3>1
  <2>5. toClient'[b + (d + 1)] = [cmd |-> sent', part |-> n + (d + 1)]
    <3>1. b + (d + 1) = b + d + 1 /\ n + (d + 1) = n + d + 1 OBVIOUS
    <3> QED BY <1>1, <1>8, <3>1
  <2>6. \A i \in 1 .. d + 1 : toClient'[b + i] = [cmd |-> sent', part |-> n + i]
    <3>1. \A i \in 1 .. d + 1 : i \in 1 .. d \/ i = d + 1 OBVIOUS
    <3> QED BY <2>4, <2>5, <3>1
  <2>7. Arriving(n, b, d + 1, 0)'
    <3>1. ~ (0 >= 1) /\ 0 # 2 /\ client' # "prompt" /\ (n > 0 => b = 0) BY <1>1, <1>2, <1>5
    <3>2. handler' = "copy" BY <1>1
    <3> QED BY <1>6, <2>1, <2>2, <2>3, <2>6, <3>1, <3>2, Zenon DEF Arriving
  <2>8. d + 1 \in Nat /\ 0 \in 0 .. 2 OBVIOUS
  <2> QED BY <2>7, <2>8, Zenon DEF StreamInv
<1>12. CommandInv' BY <1>1, <1>2 DEF CommandInv
<1> QED BY <1>10, <1>11, <1>12 DEF SessionInv

LEMMA SendEndStep == ASSUME SessionInv, SendEnd PROVE SessionInv'
<1> SessionTypeOK /\ CommandInv BY DEF SessionInv
<1>1. /\ client' = client /\ sent' = sent /\ shown' = shown /\ reset' = reset
      /\ toServer' = toServer /\ current' = current /\ lines' = lines /\ left' = left
      /\ handler = "copy" /\ left = 0
      /\ handler' = (IF lines = 0 THEN "noOutput" ELSE "recv")
      /\ toClient' = Append(toClient, [cmd |-> current.cmd, part |-> End])
      /\ background' = background
  BY DEF SendEnd, Send, Piece, clientVars
<1>2. Executed /\ Executed' /\ client # "prompt" /\ Produced' = Produced
  BY <1>1 DEF CommandInv, Executed, Produced
<1>3. PICK n, b, d \in Nat, e \in 0 .. 2 : Arriving(n, b, d, e)
  BY DEF SessionInv, StreamInv
<1>4. /\ Shows(n) /\ Produced = n + d /\ e = 0
      /\ n > 0 => b = 0
      /\ \A i \in 1 .. b : toClient[i].part < 0
      /\ \A i \in 1 .. d : toClient[b + i] = [cmd |-> sent, part |-> n + i]
  <2>1. ~ (e >= 1) BY <1>1, <1>3 DEF Arriving
  <2>2. e = 0 BY <2>1
  <2> QED BY <1>3, <2>2 DEF Arriving
<1>5. Len(toClient) = b + d
  <2>1. Len(toClient) = b + d + e BY <1>3 DEF Arriving
  <2> QED BY <1>4, <2>1
<1>6. PICK x \in Pieces : x.part = End /\ toClient' = Append(toClient, x)
  <2>1. [cmd |-> current.cmd, part |-> End] \in Pieces
    BY SessionAssumption DEF SessionTypeOK, Pieces, PopenError, End
  <2> QED BY <1>1, <2>1
<1>7. /\ toClient' \in Seq(Pieces) /\ Len(toClient') = b + d + 1
      /\ \A i \in 1 .. b + d : toClient'[i] = toClient[i]
      /\ toClient'[b + d + 1].part = End
  <2>1. toClient \in Seq(Pieces) BY DEF SessionTypeOK
  <2> QED BY <1>5, <1>6, <2>1, Appended
<1>8. handler' \in {"recv", "noOutput"} BY <1>1
<1>9. SessionTypeOK' BY <1>1, <1>7, <1>8 DEF SessionTypeOK
<1>10. StreamInv'
  <2>1. \A i \in 1 .. b : toClient'[i].part < 0
    <3>1. \A i \in 1 .. b : i \in 1 .. b + d OBVIOUS
    <3> QED BY <1>4, <1>7, <3>1
  <2>2. \A i \in 1 .. d : toClient'[b + i] = [cmd |-> sent', part |-> n + i]
    <3>1. \A i \in 1 .. d : b + i \in 1 .. b + d OBVIOUS
    <3> QED BY <1>1, <1>4, <1>7, <3>1
  <2>3. Shows(n)' BY <1>1, <1>4 DEF Shows
  <2>4. 1 # 2 /\ 1 >= 1 /\ left' = 0 /\ handler' # "copy" /\ client' # "prompt" /\ Produced' = n + d
    BY <1>1, <1>2, <1>4, <1>8
  <2>5. Arriving(n, b, d, 1)' BY <1>2, <1>4, <1>7, <2>1, <2>2, <2>3, <2>4, Zenon DEF Arriving
  <2>6. 1 \in 0 .. 2 OBVIOUS
  <2> QED BY <2>5, <2>6, Zenon DEF StreamInv
<1>11. CommandInv'
  <2>1. toServer' = << >>
    <3>1. toServer # << >> => handler # "copy" BY DEF CommandInv
    <3> QED BY <1>1, <3>1
  <2>2. current'.cmd = sent' /\ current'.kind \in Replies BY <1>2 DEF Executed, Replies
  <2>3. current'.cmd <= sent' BY <1>1 DEF CommandInv
  <2>4. handler' = "noOutput" => lines' = 0 BY <1>1
  <2> QED BY <1>1, <1>2, <1>8, <2>1, <2>2, <2>3, <2>4 DEF CommandInv
<1> QED BY <1>9, <1>10, <1>11 DEF SessionInv

LEMMA SendNoOutputStep == ASSUME SessionInv, SendNoOutput PROVE SessionInv'
<1> SessionTypeOK /\ CommandInv BY DEF SessionInv
<1>1. /\ client' = client /\ sent' = sent /\ shown' = shown /\ reset' = reset
      /\ toServer' = toServer /\ current' = current /\ lines' = lines /\ left' = left
      /\ handler = "noOutput" /\ handler' = "recv"
      /\ toClient' = Append(toClient, [cmd |-> current.cmd, part |-> NoOutput])
      /\ background' = background
  BY DEF SendNoOutput, Send, Piece, clientVars
<1>2. lines = 0 /\ current.kind \in Replies /\ left = 0
  BY <1>1 DEF CommandInv, SessionTypeOK
<1>3. (Executed' <=> Executed) /\ Produced = 0 /\ Produced' = 0
  BY <1>1, <1>2 DEF Executed, Produced
<1>4. PICK n, b, d \in Nat, e \in 0 .. 2 : Arriving(n, b, d, e)
  BY DEF SessionInv, StreamInv
<1>5. /\ Shows(n) /\ Produced = n + d /\ Len(toClient) = b + d + e
      /\ \A i \in 1 .. b : toClient[i].part < 0
      /\ e >= 1 => toClient[b + d + 1].part = End
      /\ e >= 1 => Executed
      /\ client = "prompt" => e = 0
      /\ ~ (e = 2)
  BY <1>1, <1>4 DEF Arriving
<1>6. n = 0 /\ d = 0 /\ e \in 0 .. 1 BY <1>3, <1>5
<1>7. PICK x \in Pieces : x.part = NoOutput /\ toClient' = Append(toClient, x)
  <2>1. [cmd |-> current.cmd, part |-> NoOutput] \in Pieces
    BY SessionAssumption DEF SessionTypeOK, Pieces, PopenError, NoOutput
  <2> QED BY <1>1, <2>1
<1>8. Len(toClient) = b + e BY <1>5, <1>6
<1>9. /\ toClient' \in Seq(Pieces) /\ Len(toClient') = b + e + 1
      /\ \A i \in 1 .. b + e : toClient'[i] = toClient[i]
      /\ toClient'[b + e + 1].part = NoOutput
  <2>1. toClient \in Seq(Pieces) BY DEF SessionTypeOK
  <2> QED BY <1>7, <1>8, <2>1, Appended
<1>10. SessionTypeOK' BY <1>1, <1>9 DEF SessionTypeOK
<1>11. Shows(0)' BY <1>1, <1>5, <1>6 DEF Shows
<1>12. \A i \in 1 .. b : toClient'[i].part < 0
  <2>1. \A i \in 1 .. b : i \in 1 .. b + e OBVIOUS
  <2> QED BY <1>5, <1>9, <2>1
<1>13. Produced' = 0 + 0 BY <1>3
<1>14. \A c \in Nat : \A i \in 1 .. 0 : toClient'[c + i] = [cmd |-> sent', part |-> 0 + i] OBVIOUS
<1>15. StreamInv'
\* The end of the reply has been received, and the text is left for the next one ...
  <2>1. CASE e = 0
    <3>1. Len(toClient') = (b + 1) + 0 + 0 /\ toClient'[b + 1].part = NoOutput BY <1>9, <2>1
    <3>2. \A i \in 1 .. b + 1 : toClient'[i].part < 0
      <4>1. \A i \in 1 .. b + 1 : i \in 1 .. b \/ i = b + 1 OBVIOUS
      <4> QED BY <1>12, <3>1, <4>1 DEF NoOutput
    <3>3. ~ (0 > 0) /\ ~ (0 >= 1) /\ 0 # 2 OBVIOUS
    <3>6. ~ (lines' > 0) BY <1>1, <1>2
    <3>4. Arriving(0, b + 1, 0, 0)' BY <1>11, <1>13, <1>14, <3>1, <3>2, <3>3, <3>6 DEF Arriving
    <3>5. b + 1 \in Nat /\ 0 \in Nat /\ 0 \in 0 .. 2 OBVIOUS
    <3> QED BY <3>4, <3>5, Zenon DEF StreamInv
\* ... or it has not.
  <2>2. CASE e = 1
    <3>1. Executed' /\ client' # "prompt" BY <1>1, <1>3, <1>5, <2>2
    <3>2. Len(toClient') = b + 0 + 2 /\ toClient'[b + 0 + 2].part = NoOutput BY <1>9, <2>2
    <3>3. toClient'[b + 0 + 1].part = End
      <4>1. b + 0 + 1 = b + 1 /\ b + d + 1 = b + 1 /\ b + 1 \in 1 .. b + e BY <1>6, <2>2
      <4> QED BY <1>5, <1>9, <2>2, <4>1
    <3>4. left' = 0 /\ lines' = 0 /\ handler' = "recv" BY <1>1, <1>2
    <3>5. ~ (0 > 0) OBVIOUS
    <3>6. Arriving(0, b, 0, 2)'
      BY <1>11, <1>12, <1>13, <1>14, <3>1, <3>2, <3>3, <3>4, <3>5 DEF Arriving
    <3>7. 0 \in Nat /\ 2 \in 0 .. 2 OBVIOUS
    <3> QED BY <3>6, <3>7, Zenon DEF StreamInv
  <2>3. e = 0 \/ e = 1 BY <1>6
  <2> QED BY <2>1, <2>2, <2>3
<1>16. CommandInv' BY <1>1, <1>2, <1>3 DEF CommandInv
<1> QED BY <1>10, <1>15, <1>16 DEF SessionInv

LEMMA HandlerEndsStep == ASSUME SessionInv, HangUp \/ Killed PROVE SessionInv'
<1> SessionTypeOK /\ CommandInv BY DEF SessionInv
<1>1. /\ client' = client /\ sent' = sent /\ shown' = shown /\ reset' = reset
      /\ toServer' = toServer /\ toClient' = toClient
      /\ current' = current /\ lines' = lines /\ left' = left
      /\ handler' = "closed" /\ client \in {"exited", "killed"} /\ background' = background
  BY DEF HangUp, Killed, clientVars
<1>2. SessionTypeOK' BY <1>1 DEF SessionTypeOK
<1>3. Produced' = Produced /\ (Executed' <=> Executed) BY <1>1 DEF Produced, Executed
<1>4. StreamInv'
  <2>1. PICK n, b, d \in Nat, e \in 0 .. 2 : Arriving(n, b, d, e)
    BY DEF SessionInv, StreamInv
  <2>2. Shows(n)' BY <1>1, <2>1 DEF Arriving, Shows
  <2>3. Arriving(n, b, d, e)' BY <1>1, <1>3, <2>1, <2>2 DEF Arriving
  <2> QED BY <2>3 DEF StreamInv
<1>5. CommandInv' BY <1>1, <1>3 DEF CommandInv
<1> QED BY <1>2, <1>4, <1>5 DEF SessionInv

-----------------------------------------------------------------------------
(* Every step of a session is one of the remote command or none. *)

LEMMA SameScreen ==
    ASSUME SessionInv, SessionInv', shown' = shown, sent' = sent
    PROVE  Seen' = Seen
<1>1. PICK n \in Nat : Shows(n) BY DEF SessionInv, StreamInv, Arriving
<1>2. Shows(n)' BY <1>1 DEF Shows
<1>3. SessionTypeOK /\ SessionTypeOK' BY DEF SessionInv
<1> QED BY <1>1, <1>2, <1>3, SeenLines, SeenLinesNext

LEMMA SendCommandRefines ==
    ASSUME SessionInv, SessionInv', NEW k \in Kinds, SendCommand(k)
    PROVE  Remote!Ask \/ Remote!Leave
<1>1. /\ client = "prompt" /\ sent < MaxCommands /\ sent' = sent + 1 /\ shown' = << >>
      /\ client' \in {"waiting", "closing", "killed"}
      /\ handler' = handler /\ current' = current /\ lines' = lines
  BY DEF SendCommand, handlerVars
<1>2. Result' = -1
  <2>1. current.cmd <= sent /\ sent \in Nat /\ current.cmd \in Nat
    BY SessionAssumption DEF SessionInv, CommandInv, SessionTypeOK
  <2> QED BY <1>1, <2>1 DEF Result, Executed
<1>3. Seen' = 0
  <2>1. Len(shown') = 0 BY <1>1
  <2>2. Shows(0)' BY <2>1 DEF Shows
  <2> QED BY <2>2, SeenLinesNext DEF SessionInv
<1>4. Phase = "prompt" /\ Phase' = IF client' = "waiting" THEN "waiting" ELSE "left"
  BY <1>1 DEF Phase
<1> QED BY <1>1, <1>2, <1>3, <1>4 DEF Remote!Ask, Remote!Leave, Remote!NotYet

LEMMA LeaveRefines ==
    ASSUME SessionInv, SessionInv', client \in {"prompt", "waiting", "closing"},
           client' \in {"closing", "exited", "killed"},
           UNCHANGED <<sent, shown, reset, toServer, toClient, handlerVars>>
    PROVE  Remote!Leave \/ UNCHANGED Remote!vars
<1>1. Seen' = Seen BY SameScreen
<1>2. Result' = Result BY DEF Result, Executed, handlerVars
<1>3. Phase' = "left" /\ (Phase = "left" <=> client = "closing") BY DEF Phase
<1> QED BY <1>1, <1>2, <1>3 DEF Remote!Leave, Remote!vars, handlerVars

LEMMA ReceiveReplyRefines ==
    ASSUME SessionInv, SessionInv', ReceiveReply
    PROVE  Remote!Show \/ UNCHANGED Remote!vars
<1> SessionTypeOK /\ SessionTypeOK' BY DEF SessionInv
<1>1. PICK n, m, b, d \in Nat, e \in 0 .. 2 :
         /\ Shows(n) /\ n <= m /\ m <= Produced /\ Arriving(m, b, d, e)'
         /\ \/ client' = "waiting"
            \/ client' = "prompt" /\ m = Produced /\ Executed /\ left = 0 /\ handler # "copy"
  BY ReplyReceived
<1>2. /\ sent' = sent /\ handler' = handler /\ current' = current /\ lines' = lines
      /\ client = "waiting"
  BY DEF ReceiveReply, handlerVars
<1>3. Result' = Result BY <1>2 DEF Result, Executed
<1>4. Phase = "waiting" /\ Phase' = client' BY <1>1, <1>2 DEF Phase
<1>5. Seen = n /\ Seen' = m
  <2>1. Shows(m)' BY <1>1 DEF Arriving
  <2> QED BY <1>1, <2>1, SeenLines, SeenLinesNext
<1>6. CASE Executed
  <2>1. Result = lines /\ Produced \in 0 .. lines /\ lines \in Nat /\ (left = 0 => Produced = lines)
    BY <1>6, SessionAssumption, ProducedRange DEF Result, SessionTypeOK
  <2>2. m \in n .. lines BY <1>1, <2>1
  <2>3. client' = "prompt" => m = lines BY <1>1, <2>1
  <2>4. Result # -1 BY <2>1
  <2> QED BY <1>1, <1>2, <1>3, <1>4, <1>5, <2>1, <2>2, <2>3, <2>4 DEF Remote!Show, Remote!NotYet
<1>7. CASE ~ Executed
  <2>1. Produced = 0 BY <1>7, ProducedRange
  <2>2. m = n /\ client' = "waiting" BY <1>1, <1>7, <2>1
  <2> QED BY <1>2, <1>3, <1>4, <1>5, <2>2 DEF Remote!vars
<1> QED BY <1>6, <1>7

LEMMA ReceiveNothingRefines ==
    ASSUME SessionInv, SessionInv', ReceiveNothing
    PROVE  Remote!GiveUp
<1> USE DEF ReceiveNothing, handlerVars
<1>1. Seen' = Seen BY SameScreen
<1>2. Result' = Result BY DEF Result, Executed
<1>3. Phase = "waiting" /\ Phase' = "prompt" BY DEF Phase
<1> QED BY <1>1, <1>2, <1>3 DEF Remote!GiveUp

LEMMA ReceiveCommandRefines ==
    ASSUME SessionInv, SessionInv', ReceiveCommand
    PROVE  Remote!Execute \/ Remote!Break \/ UNCHANGED Remote!vars
<1> USE DEF ReceiveCommand, clientVars, StartCommand
<1> SessionTypeOK /\ CommandInv BY DEF SessionInv
<1>1. /\ client' = client /\ sent' = sent /\ shown' = shown
      /\ handler = "recv" /\ toServer # << >> /\ current' = Head(toServer)
  OBVIOUS
<1>2. Len(toServer) = 1 /\ toServer[1].cmd = sent /\ current.cmd < sent /\ client # "prompt"
  BY <1>1 DEF CommandInv
<1>3. current'.cmd = sent /\ current'.kind \in Kinds
  <2>1. toServer \in Seq(Commands) BY DEF SessionTypeOK
  <2>2. Head(toServer) = toServer[1] /\ Head(toServer) \in Commands BY <1>1, <2>1, BacklogTail
  <2> QED BY <1>1, <1>2, <2>2 DEF Commands
<1>4. Seen' = Seen BY <1>1, SameScreen
<1>5. Phase' = Phase /\ Phase # "prompt" BY <1>1, <1>2 DEF Phase
<1>6. Result = -1 BY <1>2 DEF Result, Executed, SessionTypeOK
<1>7. sent > 0 BY <1>2, SessionAssumption DEF SessionTypeOK
<1>8. \/ current'.kind \in Replies /\ handler' = "copy" /\ lines' \in 0 .. MaxLines
      \/ current'.kind \notin Replies /\ handler' \in {"recv", "closed"}
  BY <1>3, CommandReceived
<1>9. Result' = IF current'.kind \in Replies THEN lines' ELSE -1
  BY <1>1, <1>3 DEF Result, Executed, Replies
<1> QED BY <1>1, <1>4, <1>5, <1>6, <1>7, <1>8, <1>9
        DEF Remote!Execute, Remote!Break, Remote!vars, Remote!NotYet

\* Sending is invisible to the user; when the handler ends, the connection breaks.
LEMMA HandlerRefines ==
    ASSUME SessionInv, SessionInv', SendLine \/ SendEnd \/ SendNoOutput \/ HangUp \/ Killed
    PROVE  Remote!Break \/ UNCHANGED Remote!vars
<1>1. /\ client' = client /\ sent' = sent /\ shown' = shown /\ current' = current /\ lines' = lines
      /\ handler # "closed"
  BY DEF SendLine, SendEnd, SendNoOutput, HangUp, Killed, clientVars
<1>2. Seen' = Seen BY <1>1, SameScreen
<1>3. Result' = Result /\ Phase' = Phase BY <1>1 DEF Result, Executed, Phase
<1> QED BY <1>1, <1>2, <1>3 DEF Remote!Break, Remote!vars

-----------------------------------------------------------------------------
LEMMA SessionStep == SessionInv /\ [SessionNext]_sessionVars => SessionInv'
<1> SUFFICES ASSUME SessionInv, [SessionNext]_sessionVars PROVE SessionInv'
    OBVIOUS
<1>1. CASE Client
  <2>1. EndOfInput \/ CloseSocket \/ Interrupt => SessionInv'
    BY LeaveStep DEF EndOfInput, CloseSocket, Interrupt
  <2> QED BY <1>1, <2>1, SendCommandStep, ReceiveReplyStep, ReceiveNothingStep DEF Client
<1>2. CASE handle_client
  BY <1>2, ReceiveCommandStep, SendLineStep, SendEndStep, SendNoOutputStep, HandlerEndsStep
     DEF handle_client
<1>3. CASE BackgroundEnds \/ UNCHANGED sessionVars
  <2> USE <1>3 DEF BackgroundEnds, sessionVars, clientVars, handlerVars
  <2>1. SessionTypeOK' BY DEF SessionInv, SessionTypeOK
  <2>2. Produced' = Produced /\ (Executed' <=> Executed) BY DEF Produced, Executed
  <2>3. StreamInv'
    <3>1. PICK n, b, d \in Nat, e \in 0 .. 2 : Arriving(n, b, d, e)
      BY DEF SessionInv, StreamInv
    <3>2. Shows(n)' BY <3>1 DEF Arriving, Shows
    <3>3. Arriving(n, b, d, e)' BY <2>2, <3>1, <3>2 DEF Arriving
    <3> QED BY <3>3 DEF StreamInv
  <2>4. CommandInv' BY <2>2 DEF SessionInv, CommandInv
  <2> QED BY <2>1, <2>3, <2>4 DEF SessionInv
<1> QED BY <1>1, <1>2, <1>3 DEF SessionNext, Ended

\* The inductive invariant holds in every reachable state of a session.
THEOREM SessionInductive == SessionSpec => []SessionInv
BY InitSession, SessionStep, PTL DEF SessionSpec

\* Type correctness of the session model.
THEOREM SessionTypeCorrect == SessionSpec => []SessionTypeOK
<1>1. SessionInv => SessionTypeOK BY DEF SessionInv
<1> QED BY SessionInductive, <1>1, PTL

\* However the pieces of the replies are received, at a prompt the client has
\* shown the whole output of its last command and no other output.
THEOREM ReplyCorrect == SessionSpec => []ReplyComplete
<1>1. SessionInv => ReplyComplete
  <2> SUFFICES ASSUME SessionInv, client = "prompt", sent > 0, handler # "closed" PROVE Shows(lines)
    BY DEF ReplyComplete
  <2>1. Executed /\ left = 0 BY DEF SessionInv, CommandInv
  <2>2. PICK n, b, d \in Nat, e \in 0 .. 2 : Arriving(n, b, d, e) BY DEF SessionInv, StreamInv
  <2>3. Shows(n) /\ n = Produced BY <2>2 DEF Arriving
  <2>4. Produced = lines BY <2>1, SessionAssumption DEF Produced, SessionInv, SessionTypeOK
  <2> QED BY <2>3, <2>4
<1> QED BY SessionInductive, <1>1, PTL

\* While the session lasts, client and server wait for each other only after a
\* command without a complete reply, never after one that prints something.
THEOREM HangsExplained == SessionSpec => []OnlyUnansweredHangs
<1>1. SessionInv => OnlyUnansweredHangs
  <2> SUFFICES ASSUME SessionInv, client = "waiting", toClient = << >>, handler = "recv", toServer = << >>
               PROVE  current.cmd = sent /\ current.kind \in {"silent", "popenFails", "blank"}
    BY DEF OnlyUnansweredHangs
  <2> SessionTypeOK /\ CommandInv BY DEF SessionInv
  <2>1. current.cmd = sent /\ sent > 0 BY DEF CommandInv
  <2>2. current.kind \notin {"exit", "exitCR"} BY <2>1, SessionAssumption DEF CommandInv, SessionTypeOK
  <2>3. current.kind # "prints"
    <3>1. SUFFICES ASSUME current.kind = "prints" PROVE FALSE
      OBVIOUS
    <3>2. Executed /\ lines > 0 BY <2>1, <3>1 DEF Executed, CommandInv
    <3>3. PICK n, b, d \in Nat, e \in 0 .. 2 : Arriving(n, b, d, e) BY DEF SessionInv, StreamInv
    <3>4. e >= 1 BY <3>2, <3>3 DEF Arriving
    <3>5. b + d + e = 0 BY <3>3 DEF Arriving
    <3> QED BY <3>4, <3>5
  <2> QED BY <2>1, <2>2, <2>3, SessionAssumption DEF SessionTypeOK
<1> QED BY SessionInductive, <1>1, PTL

\* A session, whatever its commands and however its streams are cut into
\* pieces, behaves as a remote command.
THEOREM RemoteImplemented == SessionSpec => ImplementsRemote
<1>1. SessionInit => Remote!Init
  <2> SUFFICES ASSUME SessionInit PROVE Remote!Init
    OBVIOUS
  <2>1. SessionInv BY InitSession
  <2>2. Len(shown) = 0 BY DEF SessionInit
  <2>3. Shows(0) BY <2>2 DEF Shows
  <2>4. Seen = 0 BY <2>1, <2>3, SeenLines DEF SessionInv
  <2>5. Result = -1 /\ Phase = "prompt" BY DEF SessionInit, Result, Executed, Phase
  <2> QED BY <2>4, <2>5 DEF SessionInit, Remote!Init, Remote!NotYet
<1>2. SessionInv /\ SessionInv' /\ [SessionNext]_sessionVars => [Remote!Next]_(Remote!vars)
  <2> SUFFICES ASSUME SessionInv, SessionInv', [SessionNext]_sessionVars
               PROVE  Remote!Next \/ UNCHANGED Remote!vars
    OBVIOUS
  <2> USE DEF Remote!Next
  <2>1. CASE Client
    <3>1. EndOfInput \/ CloseSocket \/ Interrupt => Remote!Leave \/ UNCHANGED Remote!vars
      BY LeaveRefines DEF EndOfInput, CloseSocket, Interrupt
    <3> QED BY <2>1, <3>1, SendCommandRefines, ReceiveReplyRefines, ReceiveNothingRefines DEF Client
  <2>2. CASE handle_client
    BY <2>2, ReceiveCommandRefines, HandlerRefines DEF handle_client
  <2>3. CASE BackgroundEnds \/ UNCHANGED sessionVars
    <3> USE <2>3 DEF BackgroundEnds, sessionVars, clientVars, handlerVars
    <3>1. Seen' = Seen BY SameScreen
    <3>2. Result' = Result /\ Phase' = Phase BY DEF Result, Executed, Phase
    <3> QED BY <3>1, <3>2 DEF Remote!vars
  <2> QED BY <2>1, <2>2, <2>3 DEF SessionNext, Ended
<1> QED BY SessionInductive, <1>1, <1>2, PTL DEF SessionSpec, ImplementsRemote, Remote!Spec
=============================================================================
