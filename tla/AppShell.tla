------------------------------- MODULE AppShell -------------------------------
(***************************************************************************)
(* The main window around its sessions (src/src/snowlink/ui/main_window.py *)
(* with windows.py, pages/home.py, session_history.py and shutdown.py):    *)
(* what the signals of a share's and a view's worker (workers.py) do to    *)
(* the session windows, Home's buttons and the history, while the user     *)
(* starts, stops and closes.  How a session runs, and what stop does to    *)
(* it, is in ShareSession and ViewSession; here it shows its phases and    *)
(* ends, well or not, whenever it likes.                                   *)
(*                                                                         *)
(* The signals of both workers wait in the queue of the GUI thread, each   *)
(* with the state object of its session, whose phase is read only when the *)
(* signal is handled: any of them here.                                    *)
(***************************************************************************)
EXTENDS Naturals, Sequences

CONSTANTS
  MaxSessions,  \* sessions of a behaviour, for TLC
  MaxQueue,     \* signals waiting, for TLC
  MaxHistory    \* MAX_HISTORY_ENTRIES

ASSUME ShellAssumption ==
  MaxSessions \in Nat /\ MaxQueue \in Nat /\ MaxHistory \in Nat \ {0}

Sessions == 1..MaxSessions
Roles == {"share", "view"}

VARIABLES
  shell,    \* the main window: up, gone
  earlier,  \* history: the sessions of the runs of the program before this one
  role,     \* of each session, or none
  life,     \* of its thread: none, on, over (_running is false), done (finished emitted)
  fate,     \* how it ended: none, ended, erred (an error, or a phase not failed), failed
  queue,    \* the signals that wait for the GUI thread
  windows,  \* the roles whose session window is on the screen
  active,   \* _active_share_history and _active_view_history
  history,  \* session_history.json, the newest first
  offers,   \* Home offers Start Sharing
  stray,    \* a view window was opened for an address or a code that was then refused
  mixed     \* the roles of which a session began before the last one's finished was handled

shellVars ==
  <<shell, earlier, role, life, fate, queue, windows, active, history, offers, stray, mixed>>

\* The phases, by what the handlers do with them: starting is also awaiting_approval and
\* waiting_for_video, showing is negotiating, connecting, pairing and reconnecting, recorded
\* is sharing and viewing, over is stopping, stopped and failed.
Phases(r) ==
  {"starting", "showing", "recorded", "over"} \cup (IF r = "share" THEN {"waiting"} ELSE {})
Sharing == {"starting", "waiting", "showing", "recorded"}

Entry == [of : Sessions, start : Sessions, outcome : {"connected", "ended", "failed"}]
NoEntry == [of |-> 0, start |-> 0, outcome |-> "none"]
Signal == [of : Sessions, kind : {"state", "frame", "failed", "finished"}]

ShellTypeOK ==
  /\ shell \in {"up", "gone"} /\ earlier \subseteq Sessions
  /\ role \in [Sessions -> Roles \cup {"none"}]
  /\ life \in [Sessions -> {"none", "on", "over", "done"}]
  /\ fate \in [Sessions -> {"none", "ended", "erred", "failed"}]
  /\ queue \in Seq(Signal) /\ windows \subseteq Roles
  /\ active \in [Roles -> Entry \cup {NoEntry}] /\ history \in Seq(Entry)
  /\ offers \in BOOLEAN /\ stray \in BOOLEAN /\ mixed \subseteq Roles

Running(r) == \E s \in Sessions : role[s] = r /\ life[s] = "on"
Queued(r) == \E i \in DOMAIN queue : role[queue[i].of] = r
\* Of the role, nothing runs and nothing is left to handle.
Quiet(r) == ~Queued(r) /\ \A s \in Sessions : role[s] = r => life[s] = "done"

ShellInit ==
  /\ shell = "up" /\ earlier = {} /\ role = [s \in Sessions |-> "none"]
  /\ life = [s \in Sessions |-> "none"] /\ fate = [s \in Sessions |-> "none"]
  /\ queue = <<>> /\ windows = {} /\ active = [r \in Roles |-> NoEntry]
  /\ history = <<>> /\ offers = TRUE /\ stray = FALSE /\ mixed = {}

-----------------------------------------------------------------------------
(* The user.                                                               *)

\* AsyncioSessionWorker.start(): refused only while _running.
Begins(r) ==
  /\ ~Running(r)
  /\ \E s \in Sessions :
       /\ life[s] = "none" /\ \A t \in Sessions : t < s => life[t] # "none"
       /\ role' = [role EXCEPT ![s] = r] /\ life' = [life EXCEPT ![s] = "on"]
  /\ mixed' = IF Quiet(r) THEN mixed ELSE mixed \cup {r}

\* _start_sharing_from_home(), by the button or 250 ms after the start of the program.
StartSharing ==
  /\ shell = "up" /\ Begins("share") /\ offers' = FALSE
  /\ UNCHANGED <<shell, earlier, fate, queue, windows, active, history, stray>>
\* No address is found, or the thread does not start.
SharingRefused ==
  /\ shell = "up" /\ ~Running("share") /\ offers' = TRUE
  /\ UNCHANGED <<shell, earlier, role, life, fate, queue, windows, active, history, stray,
                 mixed>>

\* ViewPage._connect(): the native backend has its window made before the address and
\* the code are looked at.
Connect ==
  /\ shell = "up" /\ Begins("view")
  /\ \/ windows' = windows \cup {"view"}
     \/ UNCHANGED windows
  /\ stray' = FALSE
  /\ UNCHANGED <<shell, earlier, fate, queue, active, history, offers>>
ConnectRefused ==
  /\ shell = "up" /\ ~Running("view") /\ windows' = windows \cup {"view"} /\ stray' = TRUE
  /\ UNCHANGED <<shell, earlier, role, life, fate, queue, active, history, offers, mixed>>

\* closeEvent() of a session window asks its session to stop.
CloseWindow(r) ==
  /\ shell = "up" /\ r \in windows /\ windows' = windows \ {r}
  /\ UNCHANGED <<shell, earlier, role, life, fate, queue, active, history, offers, stray,
                 mixed>>

ClearHistory ==
  /\ shell = "up" /\ history' = <<>>
  /\ UNCHANGED <<shell, earlier, role, life, fate, queue, windows, active, offers, stray,
                 mixed>>

\* closeEvent() and aboutToQuit - both windows go, the hooks run once, newest first, and
\* the process ends with its daemon threads - or it dies: only the file is left.
Quit ==
  /\ shell = "up" /\ shell' = "gone" /\ windows' = {} /\ queue' = <<>>
  /\ earlier' = {s \in Sessions : life[s] # "none"}
  /\ life' = [s \in Sessions |-> IF life[s] = "none" THEN "none" ELSE "done"]
  /\ fate' = [s \in Sessions |-> IF life[s] = "on" THEN "ended" ELSE fate[s]]
  /\ active' = [r \in Roles |-> NoEntry] /\ offers' = TRUE /\ stray' = FALSE
  /\ UNCHANGED <<role, history, mixed>>

\* The next run of the program reads the file, with what was left open in it.
Relaunch ==
  /\ shell = "gone" /\ shell' = "up"
  /\ UNCHANGED <<earlier, role, life, fate, queue, windows, active, history, offers>>
  /\ UNCHANGED <<stray, mixed>>

-----------------------------------------------------------------------------
(* The session's thread.                                                   *)

Emit(s, kinds) ==
  /\ shell = "up" /\ Len(queue) + Len(kinds) <= MaxQueue
  /\ queue' = queue \o [i \in DOMAIN kinds |-> [of |-> s, kind |-> kinds[i]]]
  /\ UNCHANGED <<shell, earlier, role, windows, active, history, offers, stray, mixed>>

\* At most one frame of the legacy view waits (on_frame), and here one state of a session.
Waits(s, kind) == \E i \in DOMAIN queue : queue[i] = [of |-> s, kind |-> kind]
ShowsPhase(s) ==
  /\ life[s] = "on" /\ ~Waits(s, "state")
  /\ Emit(s, <<"state">>) /\ UNCHANGED <<life, fate>>
ShowsFrame(s) ==
  /\ life[s] = "on" /\ role[s] = "view"
  /\ ~Waits(s, "frame")
  /\ Emit(s, <<"frame">>) /\ UNCHANGED <<life, fate>>

\* The coroutine returns its state or raises; a state that says failed is told as such.
SessionEnds(s) ==
  /\ life[s] = "on" /\ life' = [life EXCEPT ![s] = "over"]
  /\ \/ /\ fate' = [fate EXCEPT ![s] = "failed"] /\ Emit(s, <<"failed">>)
     \/ /\ \E f \in {"ended", "erred"} : fate' = [fate EXCEPT ![s] = f]
        /\ Emit(s, <<>>)
\* The last statement of _thread_main, after _running = False.
Finishes(s) ==
  /\ life[s] = "over" /\ life' = [life EXCEPT ![s] = "done"]
  /\ Emit(s, <<"finished">>) /\ UNCHANGED fate

-----------------------------------------------------------------------------
(* The GUI thread.                                                         *)

\* prepend_history(), at a second of its own or that of another entry; and the rewriting
\* of the newest entry, if it began when this one did.
Kept(h) == IF Len(h) > MaxHistory THEN SubSeq(h, 1, MaxHistory) ELSE h
Seconds(s) ==
  {s} \cup {active[q].start : q \in {p \in Roles : active[p] # NoEntry}}
  \cup {history[i].start : i \in DOMAIN history}
Record(r, s) ==
  IF active[r] # NoEntry THEN UNCHANGED <<active, history>>
  ELSE \E t \in Seconds(s) :
         LET e == [of |-> s, start |-> t, outcome |-> "connected"]
         IN active' = [active EXCEPT ![r] = e] /\ history' = Kept(<<e>> \o history)
Rewritten(r, end) ==
  IF active[r] # NoEntry /\ history # <<>> /\ history[1].start = active[r].start
  THEN [history EXCEPT ![1] = [active[r] EXCEPT !.outcome = end]] ELSE history
\* Mutation: the entry goes on being followed.
FinalizeKeeps(r, end) == history' = Rewritten(r, end) /\ UNCHANGED active
Finalize(r, end) ==
  active' = [active EXCEPT ![r] = NoEntry] /\ history' = Rewritten(r, end)

\* _on_share_state and _on_view_state: the window of a showing phase is made or shown
\* again, though the user has closed it.
StateHandled(r, s) ==
  \E phase \in Phases(r) :
    /\ IF phase = "recorded" THEN Record(r, s) ELSE UNCHANGED <<active, history>>
    /\ windows' = CASE phase \in {"showing", "recorded"} -> windows \cup {r}
                    [] phase \in {"waiting", "over"} -> windows \ {r}
                    [] OTHER -> windows
    /\ offers' = IF r = "share" THEN phase \notin Sharing ELSE offers
\* _on_view_frame.
FrameHandled ==
  /\ windows' = windows \cup {"view"} /\ UNCHANGED <<active, history, offers>>
\* Mutation: the window is left to the phases.
OverByPhase(r, end) ==
  Finalize(r, end) /\ offers' = (offers \/ r = "share") /\ UNCHANGED windows
\* The handlers of failed and finished.
Over(r, end) ==
  /\ Finalize(r, end) /\ windows' = windows \ {r}
  /\ offers' = (offers \/ r = "share")
\* finished carries None after failed, and the state otherwise; of a view it carries nothing.
Outcome(s) == IF role[s] = "share" /\ fate[s] = "erred" THEN "failed" ELSE "ended"

Handle ==
  /\ shell = "up" /\ queue # <<>> /\ queue' = Tail(queue)
  /\ LET s == Head(queue).of IN
     CASE Head(queue).kind = "state" -> StateHandled(role[s], s)
       [] Head(queue).kind = "frame" -> FrameHandled
       [] Head(queue).kind = "failed" -> Over(role[s], "failed")
       [] OTHER -> Over(role[s], Outcome(s))
  /\ UNCHANGED <<shell, earlier, role, life, fate, stray, mixed>>

User ==
  \/ StartSharing \/ SharingRefused \/ Connect \/ ConnectRefused
  \/ (\E r \in Roles : CloseWindow(r)) \/ ClearHistory \/ Quit \/ Relaunch
SessionThread(s) == ShowsPhase(s) \/ ShowsFrame(s) \/ SessionEnds(s) \/ Finishes(s)
ShellNext == User \/ (\E s \in Sessions : SessionThread(s)) \/ Handle
ShellSpec == ShellInit /\ [][ShellNext]_shellVars

-----------------------------------------------------------------------------
\* When nothing of a role runs and nothing of it waits, its window is not on the screen and
\* Home offers to start, in whatever order phases, failures and the ends of overlapping
\* sessions were handled; but for the window of a connection that was refused.
WindowsFollow ==
  shell = "up" => \A r \in Roles : Quiet(r) =>
    /\ r \in windows => r = "view" /\ stray
    /\ r = "share" => offers

\* The newest entry is open only while its session is followed - or its session was one of
\* an earlier run of the program, which nobody ends any more: closing or losing the program
\* leaves the entry open in the file, and the next run shows it so - and what an entry says
\* of the end of its session is how it ended, across any number of runs, unless two sessions
\* of the role overlapped (_finalize_history of main_window.py, session_history.py).
HistoryTrue ==
  shell = "up" =>
    /\ history # <<>> /\ history[1].outcome = "connected" =>
         history[1].of \in earlier \/ \E r \in Roles : active[r] = history[1]
    /\ \A i \in DOMAIN history :
         LET s == history[i].of IN
         history[i].outcome = "connected" \/ role[s] \in mixed
         \/ history[i].outcome = (IF fate[s] = "failed" THEN "failed" ELSE Outcome(s))

\* Claimed by main_window.py:278, which ends the newest entry only, and refuted by TLC: what
\* is no longer followed has been ended.
EntriesEnd ==
  shell = "up" => \A i \in DOMAIN history :
    history[i].outcome = "connected" => \E r \in Roles : active[r] = history[i]
=============================================================================
