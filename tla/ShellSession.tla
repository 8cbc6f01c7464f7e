---------------------------- MODULE ShellSession ----------------------------
(***************************************************************************)
(* sem2/LR7: one session of the remote shell, the client's main loop and   *)
(* the server process that runs handle_client, joined by the two byte      *)
(* streams of a TCP connection.  A stream is a sequence of the pieces that *)
(* send puts in it; recv takes any non-empty prefix of what has arrived,   *)
(* so several pieces may be received at once.  The server takes what one   *)
(* recv returns as a command: one of at most 1023 bytes, the size of its   *)
(* buffer, arrives in one piece, and longer ones are left out, as are zero *)
(* bytes in what a command prints.  A command may leave a process behind   *)
(* that has inherited the connection (ShellServer, Popen).                 *)
(***************************************************************************)
EXTENDS Integers, Sequences

CONSTANTS
    Kinds,              \* the kinds of commands the user enters
    MaxCommands,        \* bound: commands per session
    MaxLines            \* bound: lines a command prints

ASSUME SessionAssumption ==
    /\ Kinds \subseteq {"prints",           \* prints some lines
                        "silent",           \* prints nothing
                        "popenFails",       \* popen returns NULL
                        "blank",            \* only a carriage return
                        "exit",
                        "exitCR"}           \* exit and a carriage return
    /\ MaxCommands \in Nat /\ MaxLines \in Nat \ {0}

\* (A name with an underscore before a capital is a mutant: a plausible bug in
\* the code that the definition after it models.)

VARIABLES
    client,             \* "prompt", "waiting", "closing", "exited" or "killed"
    sent,               \* commands the client has read from the user
    shown,              \* what it has printed since the last of them
    reset,              \* has it sent to a connection the server had closed?
    toServer, toClient, \* the two streams
    handler,            \* "recv", "copy", "noOutput" or "closed"
    current,            \* the command handle_client works on
    lines, left,        \* lines of its output, and those still to be sent
    background          \* does a process that a command left hold the connection?

clientVars == <<client, sent, shown, reset>>
handlerVars == <<handler, current, lines, left, background>>
sessionVars == <<clientVars, toServer, toClient, handlerVars>>

\* Pieces of a reply: 1, 2, ... are lines of output.
End == 0                \* the byte 0x00
NoOutput == -1          \* "(no output)\n"
PopenError == -2        \* "Failed to run command\n"
Piece(n) == [cmd |-> current.cmd, part |-> n]

SessionInit ==
    /\ client = "prompt" /\ sent = 0 /\ shown = << >> /\ reset = FALSE
    /\ toServer = << >> /\ toClient = << >>
    /\ handler = "recv" /\ current = [cmd |-> 0, kind |-> "exit"]
    /\ lines = 0 /\ left = 0 /\ background = FALSE

-----------------------------------------------------------------------------
(* client.c *)

\* An empty line is read again without a step of the protocol.
SendCommand(k) ==
    /\ client = "prompt" /\ sent < MaxCommands
    /\ sent' = sent + 1 /\ shown' = << >>
    /\ IF handler # "closed"
         THEN /\ toServer' = Append(toServer, [cmd |-> sent + 1, kind |-> k])
              /\ client' = IF k = "exit" THEN "closing" ELSE "waiting"
              /\ UNCHANGED reset
         ELSE \* the first send is answered by a reset, the next one by SIGPIPE
              /\ client' = IF reset THEN "killed" ELSE IF k = "exit" THEN "closing" ELSE "waiting"
              /\ reset' = TRUE
              /\ UNCHANGED toServer
    /\ UNCHANGED <<toClient, handlerVars>>

EndOfInput ==
    /\ client = "prompt"
    /\ client' = "closing"
    /\ UNCHANGED <<sent, shown, reset, toServer, toClient, handlerVars>>

\* printf("%s") stops at the first zero byte of what was received.
Printed(chunk) ==
    LET ends == {i \in 1 .. Len(chunk) : chunk[i].part = End}
    IN  IF ends = {} THEN chunk
        ELSE SubSeq(chunk, 1, (CHOOSE i \in ends : \A j \in ends : i <= j) - 1)

EndFound_AfterFirstRecv(chunk) == TRUE

\* Only the last byte of what was received is compared with 0x00.
EndFound(chunk) == chunk[Len(chunk)].part = End

ReceiveReply ==
    /\ client = "waiting"
    /\ \E n \in 1 .. Len(toClient) :
          LET chunk == SubSeq(toClient, 1, n) IN
          /\ shown' = shown \o Printed(chunk)
          /\ client' = IF EndFound(chunk) THEN "prompt" ELSE "waiting"
          /\ toClient' = SubSeq(toClient, n + 1, Len(toClient))
    /\ UNCHANGED <<sent, reset, toServer, handlerVars>>

\* recv returns 0 or an error, once nobody holds the other end: the inner loop
\* ends, the outer one goes on.
ReceiveNothing ==
    /\ client = "waiting" /\ toClient = << >> /\ handler = "closed" /\ ~background
    /\ client' = "prompt"
    /\ UNCHANGED <<sent, shown, reset, toServer, toClient, handlerVars>>

CloseSocket ==
    /\ client = "closing" /\ client' = "exited"
    /\ UNCHANGED <<sent, shown, reset, toServer, toClient, handlerVars>>

\* The user ends the client from the keyboard, perhaps because it hangs.
Interrupt ==
    /\ client \in {"prompt", "waiting"}
    /\ client' = "killed"
    /\ UNCHANGED <<sent, shown, reset, toServer, toClient, handlerVars>>

Client == \/ \E k \in Kinds : SendCommand(k)
          \/ EndOfInput \/ ReceiveReply \/ ReceiveNothing \/ CloseSocket \/ Interrupt

-----------------------------------------------------------------------------
(* handle_client *)

\* The shell that popen starts may leave a process in the background.
StartCommand(n) ==
    /\ handler' = "copy" /\ lines' = n /\ left' = n
    /\ background' \in {background, TRUE}

Send(n) == toClient' = Append(toClient, Piece(n))

ReceiveCommand ==
    /\ handler = "recv" /\ toServer # << >>
    /\ toServer' = Tail(toServer)
    /\ LET c == Head(toServer) IN
       /\ current' = c
       /\ \/ /\ c.kind = "blank"                     \* read again, no reply
             /\ UNCHANGED <<handler, lines, left, background, toClient>>
          \/ /\ c.kind \in {"exit", "exitCR"}
             /\ handler' = "closed"
             /\ UNCHANGED <<lines, left, background, toClient>>
          \/ /\ c.kind = "popenFails"                \* a message without End
             /\ toClient' = Append(toClient, [cmd |-> c.cmd, part |-> PopenError])
             /\ UNCHANGED <<handler, lines, left, background>>
          \/ /\ c.kind = "silent"
             /\ StartCommand(0)
             /\ UNCHANGED toClient
          \/ /\ c.kind = "prints"
             /\ \E n \in 1 .. MaxLines : StartCommand(n)
             /\ UNCHANGED toClient
    /\ UNCHANGED clientVars

SendLine_EndAfterEach ==
    /\ handler = "copy" /\ left > 0
    /\ toClient' = toClient \o <<Piece(lines - left + 1), Piece(End)>>
    /\ left' = left - 1
    /\ UNCHANGED <<clientVars, toServer, handler, current, lines, background>>

SendLine ==
    /\ handler = "copy" /\ left > 0
    /\ Send(lines - left + 1)
    /\ left' = left - 1
    /\ UNCHANGED <<clientVars, toServer, handler, current, lines, background>>

SendEnd_OnlyWithoutOutput ==
    /\ handler = "copy" /\ left = 0
    /\ IF lines = 0 THEN Send(End) ELSE UNCHANGED toClient
    /\ handler' = IF lines = 0 THEN "noOutput" ELSE "recv"
    /\ UNCHANGED <<clientVars, toServer, current, lines, left, background>>

SendEnd ==
    /\ handler = "copy" /\ left = 0
    /\ Send(End)
    /\ handler' = IF lines = 0 THEN "noOutput" ELSE "recv"
    /\ UNCHANGED <<clientVars, toServer, current, lines, left, background>>

SendNoOutput ==
    /\ handler = "noOutput"
    /\ Send(NoOutput)
    /\ handler' = "recv"
    /\ UNCHANGED <<clientVars, toServer, current, lines, left, background>>

\* recv returns 0 or an error once the client is gone.  If the client has not
\* read all that was sent to it, the connection is reset and a command that the
\* server has not read yet may be lost with it.
HangUp ==
    /\ handler = "recv" /\ client \in {"exited", "killed"}
    /\ toServer = << >> \/ toClient # << >>
    /\ handler' = "closed"
    /\ UNCHANGED <<clientVars, toServer, toClient, current, lines, left, background>>

\* A send to a client that is gone.
Killed ==
    /\ handler \in {"copy", "noOutput"} /\ client \in {"exited", "killed"}
    /\ handler' = "closed"
    /\ UNCHANGED <<clientVars, toServer, toClient, current, lines, left, background>>

handle_client == \/ ReceiveCommand \/ SendLine \/ SendEnd \/ SendNoOutput
                 \/ HangUp \/ Killed

-----------------------------------------------------------------------------
\* The last process that a command left behind ends.
BackgroundEnds ==
    /\ background /\ background' = FALSE
    /\ UNCHANGED <<clientVars, toServer, toClient, handler, current, lines, left>>

Ended == client \in {"exited", "killed"} /\ handler = "closed" /\ UNCHANGED sessionVars

SessionNext == Client \/ handle_client \/ BackgroundEnds \/ Ended

SessionSpec == SessionInit /\ [][SessionNext]_sessionVars

\* TCP delivers what was sent, both processes run, and the commands end; what
\* they leave in the background need not.
SessionFairSpec ==
    /\ SessionSpec
    /\ WF_sessionVars(ReceiveReply \/ ReceiveNothing \/ CloseSocket) /\ WF_sessionVars(handle_client)

-----------------------------------------------------------------------------
(* Properties. *)

Pieces == [cmd : 0 .. MaxCommands, part : PopenError .. MaxLines]
Commands == [cmd : 0 .. MaxCommands, kind : Kinds]

SessionTypeOK ==
    /\ client \in {"prompt", "waiting", "closing", "exited", "killed"}
    /\ sent \in 0 .. MaxCommands /\ reset \in BOOLEAN
    /\ shown \in Seq(Pieces) /\ toClient \in Seq(Pieces) /\ toServer \in Seq(Commands)
    /\ handler \in {"recv", "copy", "noOutput", "closed"}
    /\ current \in [cmd : 0 .. MaxCommands, kind : Kinds \cup {"exit"}]
    /\ lines \in 0 .. MaxLines /\ left \in 0 .. lines
    /\ background \in BOOLEAN

\* The screen holds the first n lines of the output of the last command and no
\* other line; before them there may be messages for earlier commands.
Shows(n) ==
    /\ n \in 0 .. Len(shown)
    /\ \A i \in 1 .. Len(shown) - n : shown[i].part < 0
    /\ \A i \in 1 .. n : shown[Len(shown) - n + i] = [cmd |-> sent, part |-> i]

\* At the prompt, after a command that was not answered by a broken
\* connection, the client has shown all its output and no other, whatever the
\* commands before it have left in the stream.
ReplyComplete == client = "prompt" /\ sent > 0 /\ handler # "closed" => Shows(lines)

\* A command is followed by another prompt: the client does not wait forever.
Responsive == client = "waiting" ~> client # "waiting"

\* That is so of commands that print something or end the session, even after
\* commands without output whose text is still in the stream.  Only a process
\* left in the background can keep the client waiting after the session's end.
LastKind == IF toServer = << >> THEN current.kind ELSE toServer[Len(toServer)].kind
PrintsAnswered ==
    client = "waiting" /\ LastKind \notin {"silent", "popenFails", "blank"} ~>
        client # "waiting" \/ (handler = "closed" /\ background)

\* While a session lasts, client and server wait for each other only after a
\* command whose reply does not end with its end: one without output, one that
\* could not be started, or an empty one.
OnlyUnansweredHangs ==
    client = "waiting" /\ toClient = << >> /\ handler = "recv" /\ toServer = << >>
        => current.cmd = sent /\ current.kind \in {"silent", "popenFails", "blank"}

\* The session implements the abstract remote command.
Executed == current.cmd = sent /\ current.kind \in {"prints", "silent"}
Phase == IF client \in {"closing", "exited", "killed"} THEN "left" ELSE client
Result == IF Executed THEN lines ELSE -1
Seen == IF \E n \in 0 .. Len(shown) : Shows(n) THEN CHOOSE n \in 0 .. Len(shown) : Shows(n) ELSE -1

Remote == INSTANCE RemoteCommand
            WITH asked <- sent, phase <- Phase, result <- Result, seen <- Seen, broken <- handler = "closed"
ImplementsRemote == Remote!Spec
=============================================================================
