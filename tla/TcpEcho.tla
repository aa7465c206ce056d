------------------------------- MODULE TcpEcho -------------------------------
(***************************************************************************)
(* The TCP checks of Experiments A and B (src/src/snowlink/net/tcp_echo.py *)
(* and tcp_diagnostics.py): a server that echoes the message of one client *)
(* after the other, up to its number of clients, and clients that connect, *)
(* send, half-close and read the echo, each with timeouts of its own.  The *)
(* two servers and the two clients differ in what they report, not in what *)
(* they do.  Sizes are counted in blocks of a message.                     *)
(***************************************************************************)
EXTENDS Naturals, FiniteSets

CONSTANTS Clients, NoClient,
          Blocks,     \* of a message
          MaxClients  \* max_clients

ASSUME EchoAssumption ==
  /\ NoClient \notin Clients /\ Blocks \in Nat \ {0} /\ MaxClients \in Nat \ {0}

VARIABLES
  service,   \* the server: new, accepting, reading, echoing, success, failure, crashed
  serving,   \* the connection in its hands
  handled, logged,  \* clients handled; their logs
  socket,    \* of each client: none, backlog, open, closed, reset
  upload, half,     \* blocks the client has sent; its half-close
  echo,      \* blocks of the echo that were sent
  client,    \* new, sending, receiving, over
  download,  \* blocks of the echo the client has read
  verdict    \* of each client: none, success, failure

serverSide == <<service, serving, handled, logged, echo>>
clientSide == <<client, download, verdict, upload, half>>
echoVars == <<serverSide, socket, clientSide>>

EchoTypeOK ==
  /\ service \in {"new", "accepting", "reading", "echoing", "success", "failure", "crashed"}
  /\ serving \in Clients \cup {NoClient} /\ handled \in 0..MaxClients /\ logged \subseteq Clients
  /\ socket \in [Clients -> {"none", "backlog", "open", "closed", "reset"}]
  /\ upload \in [Clients -> 0..Blocks] /\ half \in [Clients -> BOOLEAN]
  /\ echo \in [Clients -> 0..Blocks] /\ download \in [Clients -> 0..Blocks]
  /\ client \in [Clients -> {"new", "sending", "receiving", "over"}]
  /\ verdict \in [Clients -> {"none", "success", "failure"}]

EchoInit ==
  /\ service = "new" /\ serving = NoClient /\ handled = 0 /\ logged = {}
  /\ socket = [c \in Clients |-> "none"] /\ upload = [c \in Clients |-> 0]
  /\ half = [c \in Clients |-> FALSE] /\ echo = [c \in Clients |-> 0]
  /\ client = [c \in Clients |-> "new"] /\ download = [c \in Clients |-> 0]
  /\ verdict = [c \in Clients |-> "none"]

\* The listening socket closes: whoever waits in its backlog is reset, and so is a
\* connection that is left behind.
Listening == service \in {"accepting", "reading", "echoing"}
ClosesServer(how) ==
  /\ service' = how /\ serving' = NoClient
  /\ socket' = [c \in Clients |-> IF socket[c] \in {"backlog", "open"} THEN "reset" ELSE socket[c]]

-----------------------------------------------------------------------------
(* run_echo_server and run_diagnostic_server.                              *)

\* An address that is forbidden or cannot be bound, or a socket that listens.
Listens ==
  /\ service = "new" /\ service' \in {"accepting", "failure"}
  /\ UNCHANGED <<serving, handled, logged, echo, socket, clientSide>>

\* The stop event, or the last client was handled.
Served ==
  /\ service = "accepting" /\ ClosesServer("success")
  /\ UNCHANGED <<handled, logged, echo, clientSide>>
AcceptFails ==
  /\ service = "accepting" /\ ClosesServer("failure")
  /\ UNCHANGED <<handled, logged, echo, clientSide>>
Accepts(c) ==
  /\ service = "accepting" /\ handled < MaxClients /\ socket[c] = "backlog"
  /\ service' = "reading" /\ serving' = c /\ socket' = [socket EXCEPT ![c] = "open"]
  /\ UNCHANGED <<handled, logged, echo, clientSide>>

\* _recv_limited() has read to the half-close, or the close.
ReadsAll ==
  /\ service = "reading" /\ half[serving] /\ service' = "echoing"
  /\ UNCHANGED <<serving, handled, logged, echo, socket, clientSide>>
\* The timeout, or too long a message: the server ends with it.
ReadEnds ==
  /\ service = "reading" /\ ~half[serving] /\ ClosesServer("failure")
  /\ UNCHANGED <<handled, logged, echo, clientSide>>
\* An OSError of recv() or sendall() is caught by neither: it ends the program.
ConnectionBreaks ==
  /\ service = "reading" \/ (service = "echoing" /\ echo[serving] < upload[serving])
  /\ ClosesServer("crashed")
  /\ UNCHANGED <<handled, logged, echo, clientSide>>

\* sendall() of what was read, a block at a time.
Echoes ==
  /\ service = "echoing" /\ echo[serving] < upload[serving]
  /\ echo' = [echo EXCEPT ![serving] = @ + 1]
  /\ UNCHANGED <<service, serving, handled, logged, socket, clientSide>>
\* The client is logged, counted, and its connection closed.
Logs ==
  /\ service = "echoing" /\ echo[serving] = upload[serving]
  /\ handled' = handled + 1 /\ logged' = logged \cup {serving}
  /\ socket' = [socket EXCEPT ![serving] = "closed"]
  /\ service' = "accepting" /\ serving' = NoClient
  /\ UNCHANGED <<echo, clientSide>>

-----------------------------------------------------------------------------
(* run_echo_client and run_diagnostic_client.                              *)

Idle == UNCHANGED serverSide
\* An invalid address, a source address that cannot be bound, nobody who listens.
CannotConnect(c) ==
  /\ client[c] = "new" /\ client' = [client EXCEPT ![c] = "over"]
  /\ verdict' = [verdict EXCEPT ![c] = "failure"]
  /\ UNCHANGED <<socket, upload, half, download>> /\ Idle
Connected(c) ==
  /\ client[c] = "new" /\ Listening /\ client' = [client EXCEPT ![c] = "sending"]
  /\ socket' = [socket EXCEPT ![c] = "backlog"]
  /\ UNCHANGED <<upload, half, download, verdict>> /\ Idle
Sends(c) ==
  /\ client[c] = "sending" /\ socket[c] # "reset"
  /\ IF upload[c] < Blocks
     THEN upload' = [upload EXCEPT ![c] = @ + 1] /\ UNCHANGED <<half, client>>
     ELSE half' = [half EXCEPT ![c] = TRUE] /\ client' = [client EXCEPT ![c] = "receiving"] /\ UNCHANGED upload
  /\ UNCHANGED <<socket, download, verdict>> /\ Idle
Receives(c) ==
  /\ client[c] = "receiving" /\ download[c] < echo[c] /\ socket[c] # "reset"
  /\ download' = [download EXCEPT ![c] = @ + 1]
  /\ UNCHANGED <<socket, upload, half, client, verdict>> /\ Idle

ReceivedAll(c) ==
  /\ client[c] = "receiving" /\ download[c] = Blocks
  /\ client' = [client EXCEPT ![c] = "over"] /\ verdict' = [verdict EXCEPT ![c] = "success"]
  /\ UNCHANGED <<socket, upload, half, download>> /\ Idle
\* A timeout, a reset, or the server's close before the whole echo.  The close of a client
\* that has not half-closed does it.
ClientFails(c) ==
  /\ client[c] \in {"sending", "receiving"} /\ download[c] < Blocks
  /\ client' = [client EXCEPT ![c] = "over"] /\ verdict' = [verdict EXCEPT ![c] = "failure"]
  /\ half' = [half EXCEPT ![c] = TRUE]
  /\ UNCHANGED <<socket, upload, download>> /\ Idle

EchoServer ==
  \/ Listens \/ AcceptFails \/ ReadsAll \/ ReadEnds \/ ConnectionBreaks \/ Echoes \/ Logs
  \/ \E c \in Clients : Accepts(c)
  \/ handled = MaxClients /\ Served
EchoClient(c) ==
  \/ CannotConnect(c) \/ Connected(c) \/ Sends(c) \/ Receives(c) \/ ReceivedAll(c) \/ ClientFails(c)
EchoNext == EchoServer \/ Served \/ \E c \in Clients : EchoClient(c)

-----------------------------------------------------------------------------
\* What the two sides report agrees, whichever of them times out, breaks or is stopped
\* first: a client that reports success is one the server has logged, or has yet to log,
\* and the server counts nobody twice and logs no message as whole that was cut short.
EchoAgrees ==
  /\ \A c \in Clients : verdict[c] = "success" =>
       c \in logged \/ (serving = c /\ service = "echoing")
  /\ Cardinality(logged) = handled
  /\ \A c \in logged : upload[c] = Blocks \/ verdict[c] = "failure"
=============================================================================
