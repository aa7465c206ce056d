---------------------------- MODULE RenderWorker ----------------------------
(***************************************************************************)
(* The viewer's renderer (src/native/src/render/renderer.cpp): the newest  *)
(* decoded frame, the size of the window and its visibility reach a worker *)
(* that waits on a condition variable in the steps "check", "toSleep",     *)
(* "asleep", and draws in the steps "measure", "fit" and "present".        *)
(***************************************************************************)
EXTENDS Naturals

VARIABLES
  window,        \* external: [size, shown] of the native window
  latestId, shownId, visible, resizePending, stopping,
  swapSize,      \* size of the swap chain's buffers; 0: there is none
  renderPc,      \* State::run()
  drawnId, rect, \* id and output size of the frame being drawn
  picture,       \* size of the picture the buffers show; 0: they are blank
  refused,       \* history: the last attempt to draw ended after Fit
  missed         \* history: a resize() that was cleared with the size of before
                 \* it, or notified a worker that was about to sleep

windowShared == <<latestId, visible, stopping, window>>
renderVars == <<window, latestId, shownId, visible, resizePending, stopping, swapSize,
                renderPc, drawnId, rect, picture, refused, missed>>

RenderTypeOK ==
  /\ window \in [size : Nat \ {0}, shown : BOOLEAN]
  /\ {latestId, shownId, swapSize, drawnId, rect, picture} \subseteq Nat
  /\ {visible, resizePending, stopping, refused, missed} \subseteq BOOLEAN
  /\ renderPc \in {"off", "check", "toSleep", "asleep", "measure", "fit", "present", "backoff"}

RenderInit ==
  /\ window = [size |-> 1, shown |-> TRUE]
  /\ latestId = 0 /\ shownId = 0 /\ visible = TRUE /\ resizePending = TRUE
  /\ stopping = FALSE /\ swapSize = 0 /\ renderPc = "off" /\ drawnId = 0 /\ rect = 0
  /\ picture = 0 /\ refused = FALSE /\ missed = FALSE

Unheld == renderPc # "toSleep"
Notified == IF renderPc = "asleep" THEN "check" ELSE renderPc

(***************************************************************************)
(* The callers                                                             *)
(***************************************************************************)
SubmitQuietly ==
  /\ renderPc # "off" /\ Unheld /\ latestId' = latestId + 1
  /\ UNCHANGED <<window, shownId, visible, resizePending, stopping, swapSize, renderPc,
                 drawnId, rect, picture, refused, missed>>
Submit ==
  /\ renderPc # "off" /\ Unheld
  /\ latestId' = latestId + 1 /\ renderPc' = Notified
  /\ UNCHANGED <<window, shownId, visible, resizePending, stopping, swapSize, drawnId, rect,
                 picture, refused, missed>>

\* receiver_set_visible and, if visible, receiver_resize.
SetVisible(v) ==
  /\ Unheld
  /\ visible' = v /\ renderPc' = IF v THEN Notified ELSE renderPc
  /\ UNCHANGED <<window, latestId, shownId, resizePending, stopping, swapSize, drawnId,
                 rect,
                 picture, refused, missed>>
Resize ==
  /\ resizePending' = TRUE /\ renderPc' = Notified
  /\ missed' = (renderPc = "toSleep")
  /\ UNCHANGED <<window, latestId, shownId, visible, stopping, swapSize, drawnId, rect,
                 picture, refused>>

RenderOn ==
  /\ renderPc = "off" /\ stopping' = FALSE /\ visible' = TRUE /\ resizePending' = TRUE
  /\ renderPc' = "check"
  /\ UNCHANGED <<window, latestId, shownId, swapSize, drawnId, rect, picture, refused,
                 missed>>
RenderStop ==
  /\ Unheld /\ ~stopping /\ stopping' = TRUE /\ renderPc' = Notified
  /\ UNCHANGED <<window, latestId, shownId, visible, resizePending, swapSize, drawnId, rect,
                 picture, refused, missed>>
RenderReleased ==
  /\ renderPc = "off" /\ stopping
  /\ latestId' = 0 /\ shownId' = 0 /\ swapSize' = 0 /\ picture' = 0
  /\ UNCHANGED <<window, visible, resizePending, stopping, renderPc, drawnId, rect, refused,
                 missed>>

(***************************************************************************)
(* The worker                                                              *)
(***************************************************************************)
HasWork == visible /\ latestId # 0 /\ (latestId # shownId \/ resizePending)

RenderStep(pc) == renderPc = pc /\ UNCHANGED windowShared

RenderEndsShown ==
  /\ RenderStep("check") /\ visible /\ stopping /\ renderPc' = "off"
  /\ UNCHANGED <<shownId, resizePending, swapSize, drawnId, rect, picture, refused, missed>>
RenderEnds ==
  /\ RenderStep("check") /\ stopping /\ renderPc' = "off"
  /\ UNCHANGED <<shownId, resizePending, swapSize, drawnId, rect, picture, refused, missed>>
RenderTakes ==
  /\ RenderStep("check") /\ ~stopping /\ HasWork
  /\ renderPc' = "measure" /\ drawnId' = latestId
  /\ UNCHANGED <<shownId, resizePending, swapSize, rect, picture, refused, missed>>
RenderWaits ==
  /\ RenderStep("check") /\ ~stopping /\ ~HasWork /\ renderPc' = "toSleep"
  /\ UNCHANGED <<shownId, resizePending, swapSize, drawnId, rect, picture, refused, missed>>
RenderSleeps ==
  /\ RenderStep("toSleep") /\ renderPc' = "asleep"
  /\ UNCHANGED <<shownId, resizePending, swapSize, drawnId, rect, picture, refused, missed>>

\* The client rectangle is read first; a hidden or minimised window ends the attempt.
Measure ==
  /\ RenderStep("measure")
  /\ renderPc' = IF window.shown THEN "fit" ELSE "backoff"
  /\ rect' = window.size
  /\ UNCHANGED <<shownId, resizePending, swapSize, drawnId, picture, refused, missed>>

\* resize_pending is cleared only here, with a rectangle that may be older; buffers
\* that were resized are blank.
MustFit == resizePending \/ swapSize # rect
Fit ==
  /\ RenderStep("fit")
  /\ renderPc' = "present" /\ swapSize' = rect
  /\ resizePending' = FALSE
  /\ picture' = IF MustFit THEN 0 ELSE picture
  /\ missed' = (missed \/ (resizePending /\ rect # window.size))
  /\ UNCHANGED <<shownId, drawnId, rect, refused>>
\* ResizeBuffers fails: the resize stays pending and the swap chain is dropped.
FitForgets ==
  /\ RenderStep("fit") /\ MustFit
  /\ renderPc' = "backoff" /\ swapSize' = 0 /\ picture' = 0 /\ resizePending' = FALSE
  /\ UNCHANGED <<shownId, drawnId, rect, refused, missed>>
FitFails ==
  /\ RenderStep("fit") /\ MustFit
  /\ renderPc' = "backoff" /\ swapSize' = 0 /\ picture' = 0 /\ resizePending' = TRUE
  /\ UNCHANGED <<shownId, drawnId, rect, refused, missed>>

Present ==
  /\ RenderStep("present") /\ renderPc' = "check" /\ shownId' = drawnId
  /\ picture' = rect /\ refused' = FALSE
  /\ UNCHANGED <<resizePending, swapSize, drawnId, rect, missed>>
\* Drawing or Present() fails; nothing but a frame not shown yet asks for another try.
PresentFails ==
  /\ RenderStep("present") /\ renderPc' = "backoff" /\ refused' = TRUE
  /\ UNCHANGED <<shownId, resizePending, swapSize, drawnId, rect, picture, missed>>
\* The 16 ms before the next attempt.
Retry ==
  /\ RenderStep("backoff") /\ renderPc' = "check"
  /\ UNCHANGED <<shownId, resizePending, swapSize, drawnId, rect, picture, refused, missed>>

RenderWork == RenderEnds \/ RenderTakes \/ RenderWaits \/ RenderSleeps \/ Measure \/ Fit
              \/ Present \/ Retry
=============================================================================
