---------------------------- MODULE ScreenCapture ----------------------------
(***************************************************************************)
(* Screen capture in Python (src/src/snowlink/media/screen_capture.py,     *)
(* frame_slot.py and video_track.py): the capture worker grabs the desktop *)
(* at the requested rate and publishes its copies in the slot for the      *)
(* latest frame.  In a share the RTP sender takes them through             *)
(* ScreenVideoTrack.recv(); in Experiment C, run_capture_session takes     *)
(* them itself.  Time is counted in intervals of the requested rate.       *)
(***************************************************************************)
EXTENDS Naturals

CONSTANTS MaxPictures,  \* bound: pictures the desktop goes through
          MaxTime       \* bound: intervals that pass

ASSUME CaptureAssumption == MaxPictures \in Nat \ {0} /\ MaxTime \in Nat

VARIABLES
  user,        \* track or preview: who takes the frames
  desktop,     \* the picture on the screen
  camera,      \* none, open, released
  worker,      \* none, loop, grab, publish, done: the capture thread
  grabbed,     \* the copy the worker is about to publish
  workerError, \* _worker_stats.unexpected_error
  captureOver, \* ScreenCaptureSession._stop
  item, slotClosed,  \* the slot: its frame (0: none), closed
  taker,       \* warm, rest, delay, fetch, ended: recv, or the loop of the preview
  shown,       \* _last_bgr: the picture sent or drawn last (0: the placeholder)
  nextIndex, skipped, generated,  \* of the track
  trackStopped,
  owner,       \* new, waiting, connecting, on, stopping, closing, releasing, over: the session
  report,      \* none, success, stopped, failure
  time         \* for a track: since its first recv()

schedule == <<nextIndex, skipped, generated>>
capturing == <<worker, grabbed, workerError, item, slotClosed>>
captureVars == <<user, desktop, camera, capturing, captureOver, taker, shown,
                 schedule, trackStopped, owner, report, time>>

Pictures == 0..MaxPictures
ScreenTypeOK ==
  /\ user \in {"track", "preview"} /\ camera \in {"none", "open", "released"}
  /\ worker \in {"none", "loop", "grab", "publish", "done"}
  /\ taker \in {"warm", "rest", "delay", "fetch", "ended"}
  /\ desktop \in Pictures /\ grabbed \in Pictures /\ item \in Pictures /\ shown \in Pictures
  /\ workerError \in BOOLEAN /\ captureOver \in BOOLEAN
  /\ slotClosed \in BOOLEAN /\ trackStopped \in BOOLEAN
  /\ nextIndex \in Nat /\ skipped \in Nat /\ generated \in Nat /\ time \in 0..MaxTime
  /\ owner \in {"new", "waiting", "connecting", "on", "stopping", "closing", "releasing", "over"}
  /\ report \in {"none", "success", "stopped", "failure"}

ScreenInit ==
  /\ user \in {"track", "preview"} /\ desktop = 1 /\ camera = "none"
  /\ worker = "none" /\ grabbed = 0 /\ workerError = FALSE
  /\ captureOver = FALSE /\ item = 0 /\ slotClosed = FALSE
  /\ taker = "warm" /\ shown = 0
  /\ nextIndex = 0 /\ skipped = 0 /\ generated = 0 /\ trackStopped = FALSE
  /\ owner = "new" /\ report = "none" /\ time = 0

-----------------------------------------------------------------------------
(* LatestFrameSlot: every call holds its lock.                             *)

SlotPublish(frame) == item' = IF slotClosed THEN item ELSE frame
SlotTake == item' = 0
SlotClose == slotClosed' = TRUE /\ item' = 0

-----------------------------------------------------------------------------
(* ScreenCaptureSession: start, the worker, and the two halves of shutdown.*)

AtStart == UNCHANGED <<user, desktop, grabbed, workerError, captureOver, item, slotClosed,
                       taker, shown, schedule, trackStopped, time>>
\* The camera and the thread, or a camera that no backend gives.  A share then waits for
\* its viewer.
CaptureStarts ==
  /\ owner = "new" /\ owner' = (IF user = "track" THEN "waiting" ELSE "on") /\ camera' = "open" /\ worker' = "loop"
  /\ UNCHANGED report /\ AtStart
CameraFails ==
  /\ owner = "new" /\ owner' = "over" /\ report' = "failure"
  /\ UNCHANGED <<camera, worker>> /\ AtStart

Elsewhere == UNCHANGED <<user, desktop, camera, captureOver, taker, shown,
                         schedule, trackStopped, owner, report, time>>

WorkerGoesOn ==
  /\ worker = "loop" /\ ~captureOver /\ worker' = "grab"
  /\ UNCHANGED <<grabbed, workerError, item, slotClosed>> /\ Elsewhere
\* The camera gives a picture, or None, which changes only a statistic, or fails.
Grab ==
  /\ worker = "grab" /\ worker' = "publish" /\ grabbed' = desktop
  /\ UNCHANGED <<workerError, item, slotClosed>> /\ Elsewhere
GrabNothing ==
  /\ worker = "grab" /\ worker' = "loop"
  /\ UNCHANGED <<grabbed, workerError, item, slotClosed>> /\ Elsewhere
GrabFails ==
  /\ worker = "grab" /\ worker' = "done" /\ workerError' = TRUE
  /\ UNCHANGED <<grabbed, item, slotClosed>> /\ Elsewhere

Publish ==
  /\ worker = "publish" /\ worker' = "loop"
  /\ SlotPublish(grabbed)
  /\ UNCHANGED <<grabbed, workerError, slotClosed>> /\ Elsewhere
WorkerLeaves ==
  /\ worker = "loop" /\ captureOver /\ worker' = "done"
  /\ UNCHANGED <<grabbed, workerError, item, slotClosed>> /\ Elsewhere
CaptureWorker == WorkerGoesOn \/ Grab \/ GrabNothing \/ GrabFails \/ Publish \/ WorkerLeaves

\* request_stop, then the camera is released.  The worker is joined only after that, for
\* five seconds at most: it may be grabbing from the camera that goes.
RequestStop ==
  /\ owner = "closing" /\ owner' = "releasing"
  /\ captureOver' = TRUE /\ SlotClose /\ camera' = "released"
  /\ UNCHANGED <<user, desktop, worker, grabbed, workerError, taker, shown,
                 schedule, trackStopped, report, time>>
JoinWorker ==
  /\ owner = "releasing" /\ owner' = "over"
  /\ UNCHANGED <<user, desktop, camera, capturing, captureOver, taker, shown,
                 schedule, trackStopped, report, time>>

DesktopChanges ==
  /\ desktop < MaxPictures /\ desktop' = desktop + 1
  /\ UNCHANGED <<user, camera, capturing, captureOver, taker, shown,
                 schedule, trackStopped, owner, report, time>>
TimePasses ==
  /\ taker \notin {"warm", "ended"} /\ time < MaxTime /\ time' = time + 1
  /\ UNCHANGED <<user, desktop, camera, capturing, captureOver, taker, shown,
                 schedule, trackStopped, owner, report>>

-----------------------------------------------------------------------------
(* ScreenVideoTrack.recv(), called again and again by the RTP sender, and  *)
(* the share session that owns the capture.                                *)

CaptureOn == UNCHANGED <<user, desktop, camera, worker, grabbed, workerError, captureOver,
                         slotClosed, owner, report, time>>
Gone == trackStopped \/ slotClosed
Due(from) == IF time > from THEN time - from ELSE 0  \* frames that are late

\* The sender begins when the connection is made, and calls recv() until it ends.
Sending == user = "track" /\ owner \in {"connecting", "on", "stopping"} /\ taker # "ended"

RecvEnds ==
  /\ Sending /\ Gone /\ taker' = "ended"
  /\ UNCHANGED <<item, shown, schedule, trackStopped>> /\ CaptureOn

\* Frames whose time is over are skipped, and the time of the next one is awaited.
RecvFrame ==
  /\ Sending /\ taker \in {"warm", "rest"} /\ ~Gone
  /\ skipped' = skipped + Due(nextIndex) /\ nextIndex' = nextIndex + Due(nextIndex)
  /\ taker' = IF nextIndex' > time THEN "delay" ELSE "fetch"
  /\ UNCHANGED <<item, shown, generated, trackStopped>> /\ CaptureOn
Delayed ==
  /\ taker = "delay" /\ ~Gone /\ time >= nextIndex /\ taker' = "fetch"
  /\ UNCHANGED <<item, shown, schedule, trackStopped>> /\ CaptureOn

\* Mutation: frames that became late during the wait for a picture are not counted.
StampUncounted ==
  /\ taker = "fetch" /\ user = "track" /\ ~Gone /\ taker' = "rest"
  /\ shown' = (IF item # 0 THEN item ELSE shown) /\ SlotTake
  /\ UNCHANGED skipped
  /\ nextIndex' = nextIndex + Due(nextIndex) + 1 /\ generated' = generated + 1
  /\ UNCHANGED trackStopped /\ CaptureOn

\* The slot has a frame, or 50 ms have passed: the last picture, or the placeholder, is
\* sent again.  Frames that became late meanwhile are skipped.
Stamp ==
  /\ taker = "fetch" /\ user = "track" /\ ~Gone /\ taker' = "rest"
  /\ shown' = (IF item # 0 THEN item ELSE shown) /\ SlotTake
  /\ skipped' = skipped + Due(nextIndex)
  /\ nextIndex' = nextIndex + Due(nextIndex) + 1 /\ generated' = generated + 1
  /\ UNCHANGED trackStopped /\ CaptureOn

Owns(from, to) == owner = from /\ owner' = to /\ UNCHANGED <<user, desktop, camera, capturing,
                                                 captureOver, shown, schedule, time>>
\* The loop that waits for the answer of a viewer looks at stop alone; the connection is
\* then made, or is not in time.
AnswerComes ==
  /\ user = "track" /\ Owns("waiting", "connecting") /\ UNCHANGED <<taker, trackStopped, report>>
Streams ==
  /\ user = "track" /\ Owns("connecting", "on") /\ UNCHANGED <<taker, trackStopped, report>>

\* stop is set, by the user or by a connection that is lost: either loop leaves, and the
\* share ends as stopped whatever the worker has met.
ShareStops ==
  /\ user = "track" /\ (Owns("waiting", "stopping") \/ Owns("on", "stopping"))
  /\ trackStopped' = TRUE /\ report' = "stopped" /\ UNCHANGED taker
\* Something else raises: the server, the connection, the sound or the adapter.
ShareFails ==
  /\ user = "track" /\ \E from \in {"waiting", "connecting", "on"} : Owns(from, "stopping")
  /\ trackStopped' = TRUE /\ report' = "failure" /\ UNCHANGED taker

\* Mutation: the streaming loop looks at the worker only with a picture to send.
ShareFindsWithPicture ==
  /\ user = "track" /\ workerError /\ item # 0 /\ Owns("on", "stopping")
  /\ trackStopped' = TRUE /\ report' = "failure" /\ UNCHANGED taker

\* Only the streaming loop looks at the worker's error.
ShareFindsError ==
  /\ user = "track" /\ workerError /\ Owns("on", "stopping")
  /\ trackStopped' = TRUE /\ report' = "failure" /\ UNCHANGED taker

\* pc.close() ends the sender's task, and with it the recv() it awaits.
ShareClosesPeer ==
  /\ user = "track" /\ Owns("stopping", "closing") /\ taker' = "ended"
  /\ UNCHANGED <<trackStopped, report>>

-----------------------------------------------------------------------------
(* run_capture_session: the warm-up, the preview loop and its end.         *)

Warm ==
  /\ user = "preview" /\ owner = "on" /\ taker = "warm" /\ item # 0 /\ taker' = "rest"
  /\ UNCHANGED <<item, shown, schedule, trackStopped>> /\ CaptureOn
\* Five seconds without a frame, or the window cannot be opened.
WarmFails ==
  /\ user = "preview" /\ taker = "warm" /\ Owns("on", "closing") /\ taker' = "ended"
  /\ report' = "failure" /\ UNCHANGED trackStopped

Preview ==
  /\ user = "preview" /\ owner = "on" /\ taker = "rest" /\ ~workerError /\ item # 0
  /\ shown' = item /\ SlotTake
  /\ UNCHANGED <<taker, schedule, trackStopped>> /\ CaptureOn

\* The time is over, the window is closed or a picture cannot be scaled; or the loop
\* finds the worker's error, which it looks at again when it has left.
PreviewEnds ==
  /\ user = "preview" /\ taker = "rest" /\ Owns("on", "closing") /\ taker' = "ended"
  /\ \/ report' = "failure"
     \/ report' = "success" /\ ~workerError
  /\ UNCHANGED trackStopped

Taker == RecvEnds \/ RecvFrame \/ Delayed \/ Stamp \/ Warm \/ Preview
Connection == Streams \/ (owner = "connecting" /\ ShareFails)
SessionOwner ==
  \/ CaptureStarts \/ CameraFails \/ RequestStop \/ JoinWorker \/ ShareClosesPeer \/ WarmFails
  \/ Connection \/ ShareFindsError \/ (workerError /\ PreviewEnds)
ScreenNext ==
  \/ CaptureWorker \/ Taker \/ SessionOwner \/ AnswerComes \/ ShareStops \/ ShareFails
  \/ PreviewEnds \/ DesktopChanges \/ TimePasses

-----------------------------------------------------------------------------
\* Every frame index of the track is sent or counted as skipped, also when recv() loses
\* several intervals at either of its two waits, and the track never runs ahead of the
\* clock: at most one frame for every interval that has begun.
Scheduled == generated + skipped = nextIndex /\ generated <= time + 1

\* A worker that fails ends its session, and as a failure: a share that streams, or has its
\* viewer's answer, does not go on showing the last picture of a monitor that is gone, and
\* a timed preview in which the worker failed is not a success.  Excepted by name is a share
\* whose stop comes before its loop has looked again, which ends as stopped.  Nothing is
\* said of a share still without a viewer: the loop in which it waits never looks.
FailureEnds ==
  (workerError /\ owner \in {"connecting", "on"})
     ~> (owner = "over" /\ report \in (IF user = "track" THEN {"failure", "stopped"} ELSE {"failure"}))
=============================================================================
