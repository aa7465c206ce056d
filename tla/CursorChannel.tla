--------------------------- MODULE CursorChannel ---------------------------
(***************************************************************************)
(* The sharer's pointer on the viewer's screen                             *)
(* (src/native/src/cursor/cursor.cpp): the sampler of the sharer, the      *)
(* unordered and unreliable motion channel, the reliable shape channel,    *)
(* and the overlay worker of the viewer, which waits on a condition        *)
(* variable in the steps "check", "toSleep", "asleep".                     *)
(***************************************************************************)
EXTENDS Naturals, Sequences

CONSTANTS Shapes,    \* shapes of the pointer
          Hidden     \* the pointer is not shown

ASSUME CursorAssumption == Hidden \notin Shapes

VARIABLES
  pointer,    \* external: the pointer of the desktop
  sampler,    \* State::sender(): at the head of its loop, or past on_shape
  sentShape, previous,  \* sent_shape (Hidden: none); the state it passed on last
  opened,     \* both cursor channels are open
  motion, shapeQueue,   \* external: what is on the way in the two channels
  latest, known, dirty, \* latest, shapes, dirty of the viewer
  overlay,    \* what the overlay shows
  overlayPc,  \* State::receiver(): off, check, toSleep, asleep, draw
  cursorStop, \* stop of the viewer's State
  unheard,    \* history: the notify of shutdown() found the worker not yet asleep
  astray,     \* history: the newest state was refused, lost or overtaken
  unshaped    \* history: sent_shape was not sent

sending   == <<pointer, sampler, sentShape, previous>>
drawing   == <<latest, known, dirty, overlay, overlayPc, cursorStop, unheard>>
cursorVars == <<sending, opened, motion, shapeQueue, drawing, astray, unshaped>>

Pointers == [at : Nat, shape : Shapes \cup {Hidden}]
Nothing == [at |-> 0, shape |-> Hidden]

CursorTypeOK ==
  /\ {pointer, previous, latest, overlay} \subseteq Pointers
  /\ sampler \in {"look", "tell"} /\ sentShape \in Shapes \cup {Hidden}
  /\ motion \subseteq Pointers /\ shapeQueue \in Seq(Shapes) /\ known \subseteq Shapes
  /\ overlayPc \in {"off", "check", "toSleep", "asleep", "draw"}
  /\ {opened, dirty, cursorStop, unheard, astray, unshaped} \subseteq BOOLEAN

CursorInit ==
  /\ pointer = Nothing /\ previous = Nothing /\ latest = Nothing /\ overlay = Nothing
  /\ sampler = "look" /\ sentShape = Hidden /\ opened = FALSE
  /\ motion = {} /\ shapeQueue = << >> /\ known = {} /\ dirty = FALSE
  /\ overlayPc = "off" /\ cursorStop = FALSE
  /\ unheard = FALSE /\ astray = FALSE /\ unshaped = FALSE

(***************************************************************************)
(* The sharer                                                              *)
(***************************************************************************)
PointerMoves(shape) ==
  /\ pointer' = [at |-> pointer.at + 1, shape |-> shape]
  /\ UNCHANGED <<sampler, sentShape, previous, opened, motion, shapeQueue, drawing,
                 astray, unshaped>>

ChannelsOpen ==
  /\ ~opened /\ opened' = TRUE
  /\ UNCHANGED <<sending, motion, shapeQueue, drawing, astray, unshaped>>

\* A new shape is marked as sent and handed to send_cursor, which refuses it
\* while its channel is not open.
SampleShape ==
  /\ sampler = "look" /\ pointer # previous
  /\ sampler' = "tell"
  /\ IF pointer.shape \in Shapes \ {sentShape}
       THEN /\ sentShape' = pointer.shape /\ unshaped' = ~opened
            /\ shapeQueue' = IF opened THEN Append(shapeQueue, pointer.shape) ELSE shapeQueue
       ELSE UNCHANGED <<sentShape, unshaped, shapeQueue>>
  /\ UNCHANGED <<pointer, previous, opened, motion, drawing, astray>>

\* The state is passed on once, whether or not send_cursor takes it and the network
\* keeps it; the shape it names is the one marked as sent.
State == [pointer EXCEPT !.shape = IF @ = Hidden THEN Hidden ELSE sentShape]
SampleState ==
  /\ sampler = "tell"
  /\ sampler' = "look" /\ previous' = State
  /\ \E kept \in {opened, FALSE} :
       /\ motion' = IF kept THEN motion \cup {State} ELSE motion
       /\ astray' = ~kept
  /\ UNCHANGED <<pointer, sentShape, opened, shapeQueue, drawing, unshaped>>

(***************************************************************************)
(* The viewer                                                              *)
(***************************************************************************)
\* The worker holds the mutex from its predicate until it sleeps.
Unlocked == overlayPc # "toSleep"
Woken == IF overlayPc = "asleep" THEN "check" ELSE overlayPc

ReceiveState(s) ==
  /\ s \in motion /\ Unlocked
  /\ motion' = motion \ {s} /\ latest' = s
  /\ astray' = (astray \/ (s # previous /\ latest = previous))
  /\ dirty' = TRUE /\ overlayPc' = Woken
  /\ UNCHANGED <<sending, opened, shapeQueue, known, overlay, cursorStop, unheard, unshaped>>

ReceiveShapeQuietly ==
  /\ shapeQueue # << >> /\ Unlocked
  /\ known' = known \cup {Head(shapeQueue)} /\ shapeQueue' = Tail(shapeQueue)
  /\ UNCHANGED <<sending, opened, motion, latest, dirty, overlayPc, overlay, cursorStop,
                 unheard, astray, unshaped>>
ReceiveShape ==
  /\ shapeQueue # << >> /\ Unlocked
  /\ known' = known \cup {Head(shapeQueue)} /\ shapeQueue' = Tail(shapeQueue)
  /\ dirty' = TRUE /\ overlayPc' = Woken
  /\ UNCHANGED <<sending, opened, motion, latest, overlay, cursorStop, unheard, astray,
                 unshaped>>

\* update_source_size of every decoded frame.
SourceSize ==
  /\ Unlocked /\ dirty' = TRUE /\ overlayPc' = Woken
  /\ UNCHANGED <<sending, opened, motion, shapeQueue, latest, known, overlay, cursorStop,
                 unheard, astray, unshaped>>

OverlayStep(pc) == overlayPc = pc /\ UNCHANGED <<sending, opened, motion, shapeQueue, latest,
                                                 known, cursorStop, unheard, astray, unshaped>>
\* Leaving, the worker destroys its window.
OverlayEnds    == OverlayStep("check") /\ cursorStop /\ overlayPc' = "off"
                  /\ overlay' = Nothing /\ UNCHANGED dirty
OverlayTakes   == OverlayStep("check") /\ ~cursorStop /\ dirty /\ overlayPc' = "draw"
                  /\ dirty' = FALSE /\ UNCHANGED overlay
OverlayWaits   == OverlayStep("check") /\ ~cursorStop /\ ~dirty /\ overlayPc' = "toSleep"
                  /\ UNCHANGED <<dirty, overlay>>
OverlaySleeps  == OverlayStep("toSleep") /\ overlayPc' = "asleep" /\ UNCHANGED <<dirty, overlay>>
\* A state whose shape is not known leaves the overlay as it was.
OverlayDraws   == OverlayStep("draw") /\ overlayPc' = "check" /\ UNCHANGED dirty
                  /\ overlay' = IF latest.shape \in known \cup {Hidden} THEN latest ELSE overlay

OverlayOn == overlayPc = "off" /\ overlayPc' = "check" /\ cursorStop' = FALSE
             /\ UNCHANGED <<sending, opened, motion, shapeQueue, latest, known, dirty, overlay,
                            unheard, astray, unshaped>>
\* shutdown() stores its flag and notifies without the mutex.
OverlayStop ==
  /\ ~cursorStop /\ cursorStop' = TRUE
  /\ unheard' = (overlayPc = "toSleep") /\ overlayPc' = Woken
  /\ UNCHANGED <<sending, opened, motion, shapeQueue, latest, known, dirty, overlay, astray,
                 unshaped>>

OverlayWork == OverlayEnds \/ OverlayTakes \/ OverlayWaits \/ OverlaySleeps \/ OverlayDraws
SamplerWork == SampleShape \/ SampleState
=============================================================================
