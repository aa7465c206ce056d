------------------------------ MODULE Checklist ------------------------------
(***************************************************************************)
(* The connectivity checklist (src/src/snowlink/diagnostics/workflow.py)   *)
(* and the page that runs it (ui/pages/diagnostics.py): on a thread of its *)
(* own it opens the signaling port, closes it, starts a signaling server   *)
(* on it, shakes hands with it, closes it, and scores what it found, while *)
(* the user may start and stop a share on the same port.                   *)
(***************************************************************************)
EXTENDS Naturals

VARIABLES
  button,     \* _run_checklist_btn is enabled
  thread,     \* _checklist_thread: none, running, quit, deleted
  checking,   \* the worker: none, ip, bind, unbind, shake, hello, close, rest, over
  local,      \* the handshake is with this machine
  port,       \* who listens on it: the probe, the server of the handshake, a share
  steps,      \* the statuses of the steps so far
  overall,    \* of the report
  live        \* the snapshot of a session the page has: none, connecting, flowing, broken

checkVars == <<button, thread, checking, local, port, steps, overall, live>>

Statuses == {"pass", "warn", "fail"}
ChecklistTypeOK ==
  /\ button \in BOOLEAN /\ local \in BOOLEAN /\ thread \in {"none", "running", "quit", "deleted"}
  /\ checking \in {"none", "ip", "bind", "unbind", "shake", "hello", "close", "rest", "over"}
  /\ port \subseteq {"probe", "server", "share"}
  /\ steps \subseteq Statuses /\ overall \in Statuses \cup {"none"}
  /\ live \in {"none", "connecting", "flowing", "broken"}

ChecklistInit ==
  /\ button = TRUE /\ thread = "none" /\ checking = "none" /\ local \in BOOLEAN
  /\ port = {} /\ steps = {} /\ overall = "none"
  /\ live \in {"none", "connecting", "flowing", "broken"}

\* _run_checklist().  A second click finds a thread that runs, and warns; or one that
\* deleteLater has taken, whose isRunning() raises.
ClickRun ==
  /\ button /\ thread = "none" /\ thread' = "running" /\ button' = FALSE
  /\ checking' = "ip" /\ steps' = {} /\ overall' = "none"
  /\ UNCHANGED <<local, port, live>>

Checks(from, to, statuses) ==
  /\ checking = from /\ checking' = to
  /\ \E s \in statuses : steps' = steps \cup s
  /\ UNCHANGED <<button, thread, local, overall, live>>
One(statuses) == {{s} : s \in statuses}

CheckIp == Checks("ip", "bind", One({"pass", "fail"})) /\ UNCHANGED port
\* The socket of the probe has SO_REUSEADDR, with which Windows lets it bind and listen
\* on a port a share listens on; it may fail there, and elsewhere.  A fail skips the
\* handshake.
BindProbe ==
  \/ /\ Checks("bind", "unbind", One({"pass"})) /\ port' = port \cup {"probe"}
  \/ /\ Checks("bind", "rest", One({"fail"})) /\ UNCHANGED port
\* skip_handshake is the page's; the handshake may be with a remote machine.
BindEnds ==
  /\ Checks("unbind", "shake", {{}}) \/ Checks("unbind", "rest", {{}})
  /\ port' = port \ {"probe"}
RemoteProbe == ~local /\ Checks("shake", "rest", One({"pass", "fail"})) /\ UNCHANGED port

\* The server of the handshake, without that option: it takes the port if it is free.
LocalServer ==
  /\ local
  /\ \/ /\ port = {} /\ Checks("shake", "hello", {{}}) /\ port' = {"server"}
     \/ /\ port # {} /\ Checks("shake", "rest", One({"fail"})) /\ UNCHANGED port

\* hello, hello_ack, pairing_challenge, with a timeout for each: also when it raises, the
\* server is closed.
Handshake ==
  /\ Checks("hello", "close", One(Statuses))
  /\ UNCHANGED port
CloseServer == Checks("close", "rest", {{}}) /\ port' = port \ {"server"}

\* ICE and media, from the snapshot, and the firewall's rules.
LiveStatuses ==
  CASE live = "none" -> {} [] live = "connecting" -> {"warn"}
    [] live = "flowing" -> {"pass"} [] live = "broken" -> {"fail", "pass", "warn"}
Remaining ==
  /\ Checks("rest", "over", {LiveStatuses \cup {f} : f \in {"pass", "warn"}}) /\ UNCHANGED port

\* _score_overall(), finished.emit and, on the thread of the page, the text and the button.
Score(found) == IF "fail" \in found THEN "fail" ELSE IF "warn" \in found THEN "warn" ELSE "pass"
Reported ==
  /\ checking = "over" /\ checking' = "none" /\ overall' = Score(steps)
  /\ button' = TRUE /\ thread' = "quit"
  /\ UNCHANGED <<local, port, steps, live>>
ThreadDeleted ==
  /\ thread = "quit" /\ thread' = "deleted"
  /\ UNCHANGED <<button, checking, local, port, steps, overall, live>>

\* A share of the user takes the port if it is free, and gives it back.
ShareTakesPort ==
  /\ port = {} /\ port' = {"share"}
  /\ UNCHANGED <<button, thread, checking, local, steps, overall, live>>
ShareFreesPort ==
  /\ "share" \in port /\ port' = port \ {"share"}
  /\ UNCHANGED <<button, thread, checking, local, steps, overall, live>>

Worker ==
  \/ CheckIp \/ BindProbe \/ BindEnds \/ RemoteProbe \/ LocalServer \/ Handshake \/ CloseServer
  \/ Remaining \/ Reported \/ ThreadDeleted
ChecklistNext == ClickRun \/ Worker \/ ShareTakesPort \/ ShareFreesPort

-----------------------------------------------------------------------------
\* A checklist that has reported has given the port back on every path; and its server,
\* which refuses every viewer, never listens where a share does.  Its probe may, on
\* Windows, and then passes on a port that is taken (_check_bind and
\* _probe_signaling_handshake of diagnostics/workflow.py).
PortReturned ==
  /\ checking \in {"none", "rest", "over"} => port \subseteq {"share"}
  /\ "server" \in port => port = {"server"}
=============================================================================
