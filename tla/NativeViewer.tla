---------------------------- MODULE NativeViewer ----------------------------
(***************************************************************************)
(* The viewer's half of the native engine (src/native/src/engine.cpp:      *)
(* start_receiver, receive_loop behind the decoder, stop_receiver) as      *)
(* run_native_screen_view of rtc/screen_session.py drives it: decoded      *)
(* frames reach RenderWorker, the sharer's pointer reaches the overlay of  *)
(* CursorChannel, and the changes of the native window, which Qt posts to  *)
(* the session's event loop (ui/windows.py, ui/pages/view.py), reach the   *)
(* renderer.  The queue in front of the decoder is in VideoTransport.      *)
(***************************************************************************)
EXTENDS CursorChannel, RenderWorker

CONSTANTS Sizes,     \* sizes of the native window
          MaxMoves,  \* bound: moves of the pointer
          MaxEvents  \* bound: moves, frames, window changes and failures

ASSUME ViewerAssumption == Sizes \subseteq Nat \ {0} /\ 1 \in Sizes /\ {MaxMoves, MaxEvents} \subseteq Nat

VARIABLES
  session,    \* new, running, joining, cursor, transport, renderer, gone
  posts,      \* surface changes posted to the session's loop; the value is isVisible()
  deaf,       \* the notify of stop_receiver() missed the receive thread
  resizing,   \* the loop is between receiver_set_visible and receiver_resize
  events

life == <<session, posts, deaf, resizing>>
vars == <<cursorVars, renderVars, life, events>>

Init ==
  /\ CursorInit /\ RenderInit
  /\ session = "new" /\ posts = << >> /\ deaf = FALSE /\ resizing = FALSE /\ events = 0

TypeOK ==
  /\ CursorTypeOK /\ RenderTypeOK /\ events \in 0..MaxEvents
  /\ session \in {"new", "running", "joining", "cursor", "transport", "renderer", "gone"}
  /\ posts \in Seq(BOOLEAN) /\ {deaf, resizing} \subseteq BOOLEAN

\* What the outside does matters while the session runs.
Event == session = "running" /\ events < MaxEvents /\ events' = events + 1
Attached == session \in {"running", "joining", "cursor"}

StartReceiver ==
  /\ session = "new" /\ session' = "running"
  /\ RenderOn /\ OverlayOn
  /\ UNCHANGED <<posts, deaf, resizing, events>>
\* The decoder, the renderer or the transport cannot be set up; the ones before it
\* are shut down again.
StartFails ==
  /\ session = "new" /\ session' = "gone"
  /\ UNCHANGED <<cursorVars, renderVars, posts, deaf, resizing, events>>

\* The receive thread has decoded a frame: update_source_size, then submit.
Decoded ==
  /\ Event /\ SourceSize /\ Submit
  /\ UNCHANGED life

\* The user resizes, hides, minimises or shows the window.
WindowChanges ==
  /\ Event
  /\ \E w \in [size : Sizes, shown : {window.shown}] \cup [size : {window.size}, shown : BOOLEAN] :
       /\ w # window /\ window' = w
       /\ posts' = Append(posts, w.shown)
  /\ UNCHANGED <<cursorVars, latestId, shownId, visible, resizePending, stopping, swapSize,
                 renderPc, drawnId, rect, picture, refused, missed, session, deaf,
                 resizing>>
SurfaceChanged ==
  /\ session = "running" /\ ~resizing /\ posts # << >>
  /\ posts' = Tail(posts) /\ resizing' = Head(posts) /\ SetVisible(Head(posts))
  /\ UNCHANGED <<cursorVars, session, deaf, events>>
SurfaceResized ==
  /\ resizing /\ resizing' = FALSE /\ Resize
  /\ UNCHANGED <<cursorVars, session, posts, deaf, events>>

(***************************************************************************)
(* stop_receiver, shutdown and destroy: one call after the other on the    *)
(* session's thread                                                        *)
(***************************************************************************)
Ends(from, to) == session = from /\ session' = to /\ UNCHANGED <<posts, resizing, events>>
Proceeds(from, to) == Ends(from, to) /\ UNCHANGED deaf

\* The flag is stored and notified without the mutex: a receive thread between its
\* predicate and its sleep (VideoTransport has both) does not hear it.
Stop == Ends("running", "joining") /\ ~resizing /\ deaf' \in BOOLEAN
        /\ UNCHANGED <<cursorVars, renderVars>>
\* The transport is still up: one more frame wakes it.
FrameWakes ==
  /\ session = "joining" /\ deaf /\ deaf' = FALSE
  /\ UNCHANGED <<cursorVars, renderVars, session, posts, resizing, events>>
ReceiverJoined == ~deaf /\ Proceeds("joining", "cursor") /\ OverlayStop /\ UNCHANGED renderVars
OverlayJoined == Proceeds("cursor", "transport") /\ overlayPc = "off"
                 /\ UNCHANGED <<cursorVars, renderVars>>
TransportDown == Proceeds("transport", "renderer") /\ RenderStop
                 /\ motion' = {} /\ shapeQueue' = << >> /\ opened' = FALSE
                 /\ UNCHANGED <<sending, drawing, astray, unshaped>>
Gone == Proceeds("renderer", "gone") /\ RenderReleased /\ UNCHANGED cursorVars

Teardown == ReceiverJoined \/ OverlayJoined \/ TransportDown \/ Gone

OfCursor(A) == A /\ UNCHANGED <<renderVars, life, events>>
OfRenderer(A) == A /\ UNCHANGED <<cursorVars, life, events>>

StateArrives == Attached /\ OfCursor(\E s \in motion : ReceiveState(s))
ShapeArrives == Attached /\ OfCursor(ReceiveShape)
ChannelsOpened == session = "running" /\ OfCursor(ChannelsOpen)
Happens ==
  /\ Event /\ UNCHANGED life
  /\ \/ pointer.at < MaxMoves /\ (\E s \in Shapes \cup {Hidden} : PointerMoves(s)) /\ UNCHANGED renderVars
     \/ (FitFails \/ PresentFails) /\ UNCHANGED cursorVars

Next ==
  \/ StartReceiver \/ StartFails \/ Decoded
  \/ WindowChanges \/ SurfaceChanged \/ SurfaceResized
  \/ Stop \/ FrameWakes \/ Teardown \/ Happens
  \/ OfCursor(OverlayWork) \/ OfCursor(SamplerWork) \/ OfRenderer(RenderWork)
  \/ ChannelsOpened \/ StateArrives \/ ShapeArrives

\* Every thread goes on, a join returns when its thread has heard of the end, and what
\* the network does not lose it delivers.  The user, the
\* pointer, the decoder and failures owe nothing.
Fairness ==
  /\ WF_vars(OfCursor(OverlayWork)) /\ WF_vars(OfCursor(SamplerWork))
  /\ WF_vars(OfRenderer(RenderWork)) /\ WF_vars(StateArrives) /\ WF_vars(ShapeArrives)
  /\ WF_vars(SurfaceChanged \/ SurfaceResized)
  /\ WF_vars(StartReceiver \/ StartFails) /\ WF_vars(Teardown)
Spec == Init /\ [][Next]_vars /\ Fairness

Running == session = "running"

\* While the session runs, the overlay of the viewer comes to show the pointer of the
\* sharer once it rests - with its shape, in whatever order the two channels deliver -
\* unless the newest state was refused, lost or overtaken on its unreliable channel, or
\* its shape was marked as sent before the channel was open.
PointerShown == []<>(~Running \/ ~opened \/ astray \/ unshaped \/ overlay = pointer)

\* While the window is on the screen and the renderer knows it, the newest decoded
\* frame is presented, whatever failed or was minimised before.
FrameShown == []<>(~Running \/ ~visible \/ ~window.shown \/ shownId = latestId)

\* The newest picture is shown in the size of the window, also when the desktop stands
\* still and no further frame comes, unless resize() fell into one of the two places
\* where it is missed (between the worker's predicate and its sleep, or between its
\* measuring of the window and its clearing of the flag), or the last attempt to draw
\* failed after the flag was cleared: the resized buffers then stay blank until the next
\* frame (renderer.cpp, render and run).
ResizeShown ==
  []<>(\/ ~Running \/ ~visible \/ ~window.shown \/ latestId = 0
       \/ picture = window.size \/ missed \/ refused)

\* stop_receiver() joins all its workers, whether or not the window is visible, unless
\* one of the two notifies that are sent without the mutex is lost: the one to the receive
\* thread, or that of the cursor's shutdown() (engine.cpp and cursor.cpp).
StopEnds == (session = "joining") ~> (session = "gone" \/ unheard \/ deaf)
=============================================================================
