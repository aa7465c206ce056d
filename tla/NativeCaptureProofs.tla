-------------------------- MODULE NativeCaptureProofs --------------------------
(***************************************************************************)
(* Proofs about screen capture (NativeCapture), for every number of        *)
(* changes of the desktop and of resizes and lost duplications.            *)
(***************************************************************************)
EXTENDS NativeCapture, TLAPS

\* The variables the two invariants speak of.
Shape ==
  /\ backend \in {"none", "wgc", "dxgi"} /\ allocated \in BOOLEAN
  /\ pub \in {0, 1} /\ id \in Nat /\ mat \in Nat
  /\ key \in [{0, 1} -> {0, 1}]
  /\ cb \in {"idle", "tested", "thrown"} \cup Using

\* Nothing is there before a backend starts; only WGC has a callback; and what
\* the callback and the stream thread use is released after they have ended - a
\* callback counts, and close() waits for it, from the moment it has a frame or an
\* exception; a duplication is made anew only after one was lost.
Order ==
  /\ stage = "off" => backend = "none" /\ ~allocated /\ held = NoTexture
  /\ backend # "wgc" \/ stage = "broken" => cb = "idle"
  /\ cb \notin {"idle", "tested"} =>
       stage \notin {"waited", "freed"} \/ timedOut \/ late
  /\ resets \in Nat /\ (worker \in {"lost", "reset"} => resets > 0)
  /\ HeldWhileUsed

Inv == Shape /\ Order /\ KeysFollow

LEMMA NoTextureHeld ==
  ASSUME NEW h, h.texture \in {0, 1} PROVE h # NoTexture
BY DEF NoTexture, None

LEMMA InitInv == Init => Inv
<1> SUFFICES ASSUME Init PROVE Inv
  OBVIOUS
<1>1. ~allocated /\ allocated \in BOOLEAN BY DEF Init
<1> QED BY <1>1 DEF Init, Inv, Shape, Order, KeysFollow, HeldWhileUsed, Using

\* The desktop, the start of a backend and the end of the capture.
LEMMA ControlStep ==
  Inv /\ (ScreenChanges \/ StartWgc \/ StartDxgi \/ Resize \/ JoinStream
          \/ StopFlag \/ ClosePool \/ WaitCallbacks \/ FreeWgc \/ FreeDxgi) => Inv'
<1> USE DEF Inv, Shape, Order, KeysFollow, HeldWhileUsed, Other, Using, sizeVars, slotVars,
    streamVars, wgcVars, dxgiVars
<1>1. Inv /\ (ScreenChanges \/ Resize \/ JoinStream) => Inv'
  BY DEF ScreenChanges, Resize, JoinStream
<1>2. Inv /\ (StartWgc \/ StartDxgi) => Inv'
  BY DEF StartWgc, StartDxgi
<1>3. Inv /\ (StopFlag \/ ClosePool) => Inv'
  BY DEF StopFlag, ClosePool, Close
<1>5. Inv /\ WaitCallbacks => Inv'
  <2> SUFFICES ASSUME Inv, WaitCallbacks PROVE Inv'
    OBVIOUS
  <2>1. cb' \notin {"idle", "tested"} => timedOut'
    BY DEF WaitCallbacks, Close
  <2> HIDE DEF Using
  <2> QED BY <2>1 DEF WaitCallbacks, Close
<1>4. Inv /\ (FreeWgc \/ FreeDxgi) => Inv'
  <2> SUFFICES ASSUME Inv, FreeWgc \/ FreeDxgi PROVE Inv'
    OBVIOUS
  <2>1. ~allocated' /\ allocated' \in BOOLEAN
    BY DEF FreeWgc, FreeDxgi, Free
  <2> QED BY <2>1 DEF FreeWgc, FreeDxgi, Close, Free
<1> QED BY <1>1, <1>2, <1>3, <1>4, <1>5

\* The frame callback of Windows.Graphics.Capture; the keys are not its own.
LEMMA CallbackStep ==
  Inv /\ (Callback \/ CallbackThrows \/ CallbackBreaks) => Inv'
<1> USE DEF Inv, Shape, Order, KeysFollow, HeldWhileUsed, Other, Using, sizeVars, shared,
    slotVars, streamVars, dxgiVars
<1>1. Inv /\ FrameArrives => Inv' BY DEF FrameArrives
<1>2. Inv /\ (TakeFrame \/ TakeThrows) => Inv' BY DEF TakeFrame, TakeThrows
<1>3. Inv /\ AllocateSlots => Inv'
  <2> SUFFICES ASSUME Inv, AllocateSlots PROVE Inv'
    OBVIOUS
  <2>1. held # NoTexture \/ held' = held
    BY NoTextureHeld DEF AllocateSlots, Orphan
  <2> QED BY <2>1 DEF AllocateSlots
<1>4. Inv /\ CopyFrame => Inv' BY DEF CopyFrame, Publish, Locked
<1>5. Inv /\ (RecreatePool \/ CallbackThrows \/ CatchTests \/ CallbackEnds) => Inv'
  BY DEF RecreatePool, CallbackThrows, CatchTests, CallbackEnds
<1>6. Inv /\ CallbackBreaks => Inv' BY DEF CallbackBreaks
<1> QED BY <1>1, <1>2, <1>3, <1>4, <1>5, <1>6 DEF Callback

\* The worker of Desktop Duplication: the slot it fills is the one whose key
\* it has, and after a publication it has the other.
LEMMA WorkerStep ==
  Inv /\ (Duplicate \/ AccessLost \/ Recreate \/ RecreateFails) => Inv'
<1> USE DEF Inv, Shape, Order, KeysFollow, HeldWhileUsed, Other, Using, sizeVars, shared,
    slotVars, streamVars, wgcVars, Worker
<1>1. Inv /\ (Acquire \/ ResetDevices \/ WorkerEnds \/ AccessLost) => Inv'
  BY DEF Acquire, ResetDevices, WorkerEnds, AccessLost
<1>2. Inv /\ (Recreate \/ RecreateFails) => Inv'
  <2> SUFFICES ASSUME Inv, Recreate \/ RecreateFails PROVE Inv'
    OBVIOUS
  <2>1. ~allocated' /\ allocated' \in BOOLEAN
    BY DEF Recreate, RecreateFails, Drop
  <2> QED BY <2>1 DEF Recreate, RecreateFails, Drop
<1>3. Inv /\ CopyDesktop => Inv'
  <2> SUFFICES ASSUME Inv, CopyDesktop PROVE Inv'
    OBVIOUS
  <2>1. CASE ~allocated
    <3>1. allocated' \in BOOLEAN BY <2>1 DEF CopyDesktop
    <3>2. key' = [s \in {0, 1} |-> s] /\ pub' = 1 /\ id' = 1 /\ mat' = 0
          /\ UNCHANGED <<backend, stage, held, cb, timedOut, late, resets>>
      BY <2>1 DEF CopyDesktop
    <3>3. key' \in [{0, 1} -> {0, 1}] /\ key'[0] = 0 /\ key'[1] = 1 BY <3>2
    <3>4. KeysFollow' BY <3>2, <3>3
    <3>5. Shape' BY <3>1, <3>2, <3>3
    <3>6. Order' BY <2>1, <3>2 DEF CopyDesktop
    <3> QED BY <3>4, <3>5, <3>6
  <2>2. CASE allocated
    <3>1. PublishKeyed /\ UNCHANGED <<backend, stage, allocated, held, cb, timedOut, late, resets>>
      BY <2>2 DEF CopyDesktop, PublishKeyed, Publish
    <3>2. CASE id = mat
      <4>1. key[0] = 0 /\ key[1] = 0 BY <2>2, <3>2 DEF CopyDesktop
      <4> QED BY <3>1, <3>2, <4>1, <2>2 DEF PublishKeyed, Publish, CopyDesktop
    <3>3. CASE id # mat
      BY <3>1, <3>3, <2>2 DEF PublishKeyed, Publish, CopyDesktop
    <3> QED BY <3>2, <3>3
  <2> QED BY <2>1, <2>2
<1> QED BY <1>1, <1>2, <1>3 DEF Duplicate

\* The stream thread gives the slot it has copied back to the worker.
LEMMA StreamStep ==
  Inv /\ (Stream \/ ProcessFails \/ PollBreaks) => Inv'
<1> USE DEF Inv, Shape, Order, KeysFollow, HeldWhileUsed, Other, Using, sizeVars, shared,
    slotVars, streamVars, wgcVars, dxgiVars
<1>1. Inv /\ PollWgc => Inv' BY DEF PollWgc, Polls, Take
<1>2. Inv /\ PollDxgi => Inv'
  <2> SUFFICES ASSUME Inv, PollDxgi PROVE Inv'
    OBVIOUS
  <2>1. CASE mat = id BY <2>1 DEF PollDxgi, Polls, Take
  <2>2. CASE mat # id BY <2>2 DEF PollDxgi, Polls, Take, Materialize
  <2> QED BY <2>1, <2>2
<1>3. Inv /\ (Process \/ ProcessFails) => Inv' BY DEF Process, ProcessFails
<1>4. Inv /\ PollBreaks => Inv' BY DEF PollBreaks, Polls
<1> QED BY <1>1, <1>2, <1>3, <1>4 DEF Stream

LEMMA StepInv == Inv /\ [Next]_vars => Inv'
<1>1. Inv /\ UNCHANGED vars => Inv'
  BY DEF vars, shared, slotVars, streamVars, wgcVars, dxgiVars, Inv, Shape,
     Order, KeysFollow, HeldWhileUsed, Other, Using, sizeVars
<1> QED BY <1>1, ControlStep, CallbackStep, WorkerStep, StreamStep DEF Next

\* The keys of the two slots follow what is published and what was copied.
THEOREM SlotsAlternate == Spec => []KeysFollow
<1>1. Inv => KeysFollow BY DEF Inv
<1> QED BY <1>1, InitInv, StepInv, PTL DEF Spec

\* Neither the callback nor the stream thread uses what close() has released, and
\* nothing else is used after its release, but in the three cases the property
\* names.
THEOREM NothingFreedInUse == Spec => []HeldWhileUsed
<1>1. Inv => HeldWhileUsed BY DEF Inv, Order
<1> QED BY <1>1, InitInv, StepInv, PTL DEF Spec
=============================================================================
