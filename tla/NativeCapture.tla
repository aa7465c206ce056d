---------------------------- MODULE NativeCapture ----------------------------
(***************************************************************************)
(* The sharer's screen from the desktop to the encoder's input: the        *)
(* capture manager, its two backends - Windows.Graphics.Capture, whose     *)
(* frames come on a callback, and Desktop Duplication, with a worker, two  *)
(* devices and keyed mutexes between them (src/native/src/capture) - and   *)
(* the polling of the stream thread (stream_loop of engine.cpp), down to   *)
(* the GPU frame processor.                                                *)
(*                                                                         *)
(* A picture is the number of times the desktop has changed; a texture     *)
(* nothing was copied to shows picture 0.  Both backends keep two slots,   *)
(* and publish under their mutex: slots, pub and id change in one action.  *)
(***************************************************************************)
EXTENDS Integers

CONSTANTS MaxChanges,  \* bound: changes of the desktop
          MaxResets    \* bound: resizes, and duplications lost

ASSUME CaptureAssumption == MaxChanges \in Nat \ {0} /\ MaxResets \in Nat

VARIABLES
  request,   \* config.backend: "auto", "wgc" or "dxgi"
  backend,   \* the backend that runs: "none", "wgc" or "dxgi"
  stage,     \* how far stop_capture() has come
  screen,    \* external: the picture on the desktop
  resets,    \* bound
  allocated, \* the slots exist
  slots,     \* the picture in each slot
  pub, id,   \* published_slot, published_id
  last,      \* last_id of stream_loop
  held,      \* the texture the stream thread works on
  gen,       \* the device of the slots: one more for each duplication
  encoder,   \* the device the encoder was initialized with
  shown,     \* the last picture the encoder took
  missed,    \* history: the frame published last, or processed last, is lost
  cb,        \* the WGC frame callback
  size,      \* external: the size of the captured content
  content,   \* the size of the content of the frame the callback has taken
  width,     \* the size of the slots
  pool,      \* the size of the pool's surfaces
  blank,     \* history: the frame taken last did not reach a slot
  timedOut,  \* history: close() went on after two seconds
  late,      \* history: a callback entered when close() had waited
  worker,    \* the DXGI worker
  key,       \* the key each slot's mutex was released with
  mat, copy, \* materialized_id, and the picture in the consumer's own slot
  seen       \* the picture of the frame the backend took last

shared == <<request, backend, stage, screen, resets>>
slotVars == <<allocated, slots, pub, id, gen>>
streamVars == <<last, held, encoder, shown, missed>>
sizeVars == <<size, content, width, pool, blank>>
wgcVars == <<cb, sizeVars, timedOut, late>>
dxgiVars == <<worker, key, mat, copy, seen>>
vars == <<shared, slotVars, streamVars, wgcVars, dxgiVars>>

Pictures == 0..MaxChanges
Textures == {-1, 0, 1, 2}   \* none, slot 0, slot 1, a texture no slot holds
None == -1
Failed == -2
Own == 2
Other(s) == 1 - s

\* Where the callback uses the device, the context or the slots.
Using == {"resize", "refill", "copy", "recreate", "check", "reads"}

TypeOK ==
  /\ request \in {"auto", "wgc", "dxgi"} /\ backend \in {"none", "wgc", "dxgi"}
  /\ stage \in {"off", "on", "joined", "stopping", "closed", "waited",
               "freed", "broken"}
  /\ screen \in Pictures /\ resets \in 0..MaxResets
  /\ allocated \in BOOLEAN /\ slots \in [{0, 1} -> Pictures]
  /\ pub \in {0, 1} /\ id \in Nat
  /\ last \in Nat /\ shown \in Pictures /\ missed \in BOOLEAN
  /\ held \in [texture : Textures, picture : Pictures, gen : 0..MaxResets]
  /\ gen \in 0..MaxResets /\ encoder \in {None, Failed} \cup (0..MaxResets)
  /\ cb \in {"idle", "tested", "thrown"} \cup Using
  /\ {size, content, width, pool} \subseteq {0, 1}
  /\ {blank, timedOut, late} \subseteq BOOLEAN
  /\ worker \in {"off", "run", "frame", "lost", "reset", "ended"}
  /\ key \in [{0, 1} -> {0, 1}] /\ mat \in Nat
  /\ copy \in Pictures /\ seen \in -1..MaxChanges

NoTexture == [texture |-> None, picture |-> 0, gen |-> 0]

Init ==
  /\ request \in {"auto", "wgc", "dxgi"} /\ backend = "none" /\ stage = "off"
  /\ screen = 0 /\ resets = 0
  /\ allocated = FALSE /\ slots = [s \in {0, 1} |-> 0] /\ pub = 0 /\ id = 0
  /\ gen = 0 /\ encoder = None
  /\ last = 0 /\ held = NoTexture /\ shown = 0 /\ missed = FALSE
  /\ cb = "idle" /\ timedOut = FALSE /\ late = FALSE
  /\ size = 0 /\ content = 0 /\ width = 0 /\ pool = 0 /\ blank = FALSE
  /\ worker = "off" /\ key = [s \in {0, 1} |-> 0] /\ mat = 0 /\ copy = 0
  /\ seen = -1

-----------------------------------------------------------------------------
(* The desktop, and start() of the capture manager.                        *)

ScreenChanges ==
  /\ screen < MaxChanges /\ stage = "on"
  /\ screen' = screen + 1
  /\ UNCHANGED <<request, backend, stage, resets, slotVars, streamVars, wgcVars,
                 dxgiVars>>

StartWgc ==
  /\ stage = "off" /\ request \in {"auto", "wgc"}
  /\ backend' = "wgc" /\ stage' = "on"
  /\ UNCHANGED <<request, screen, resets, slotVars, streamVars, wgcVars, dxgiVars>>

\* Asked for, or Auto and WGC has failed to start.
StartDxgi ==
  /\ stage = "off" /\ request \in {"auto", "dxgi"}
  /\ backend' = "dxgi" /\ stage' = "on" /\ worker' = "run"
  /\ UNCHANGED <<request, screen, resets, slotVars, streamVars, wgcVars, key, mat,
                 copy, seen>>

-----------------------------------------------------------------------------
(* Windows.Graphics.Capture: on_frame.                                     *)

\* The content changes size, to another one or back: it is drawn anew.
Resize ==
  /\ backend = "wgc" /\ stage = "on"
  /\ resets < MaxResets /\ screen < MaxChanges
  /\ resets' = resets + 1 /\ screen' = screen + 1 /\ size' = 1 - size
  /\ UNCHANGED <<request, backend, stage, slotVars, streamVars, cb, content, width,
                 pool, blank, timedOut, late, dxgiVars>>

\* A change is reported once: if (stopping.load()) return;
FrameArrives ==
  /\ backend = "wgc" /\ cb = "idle" /\ stage \in {"on", "joined"}
  /\ seen # screen
  /\ cb' = "tested"
  /\ UNCHANGED <<shared, slotVars, streamVars, sizeVars, timedOut, late, dxgiVars>>

\* callback_enter(), and TryGetNextFrame(), which throws once the pool is closed.
TakeFrame ==
  /\ cb = "tested" /\ stage \in {"on", "joined", "stopping"}
  /\ cb' = IF size # width \/ ~allocated THEN "resize" ELSE "copy"
  /\ seen' = screen /\ content' = size /\ blank' = FALSE
  /\ UNCHANGED <<shared, slotVars, streamVars, size, width, pool, timedOut, late,
                 worker, key, mat, copy>>

TakeThrows ==
  /\ cb = "tested" /\ stage \in {"closed", "waited", "freed"}
  /\ cb' = "thrown" /\ late' = (stage # "closed")
  /\ UNCHANGED <<shared, slotVars, streamVars, sizeVars, timedOut, dxgiVars>>

\* New slots; a texture the stream thread holds stays as it was.
Orphan == held' = IF held.texture \in {0, 1}
                    THEN [held EXCEPT !.texture = Own,
                                    !.picture = slots[held.texture]]
                    ELSE held

\* From here on close() has the mutex the callback asks for.
Locked == stage \in {"waited", "freed"}

AllocateSlots ==
  /\ cb = "resize" /\ ~Locked
  /\ cb' = "refill" /\ width' = content
  /\ allocated' = TRUE /\ pub' = 0 /\ id' = 0
  /\ slots' = [s \in {0, 1} |-> 0]
  /\ Orphan
  /\ UNCHANGED <<shared, gen, last, encoder, shown, missed, size, content, pool,
                 blank, timedOut, late, dxgiVars>>

\* The slot that is not published is: picture p is in it now.
Publish(p) ==
  /\ slots' = [slots EXCEPT ![Other(pub)] = p]
  /\ pub' = Other(pub) /\ id' = id + 1
  /\ missed' = (id + 1 = last)
  /\ UNCHANGED <<allocated, gen>>

\* CopyResource() does nothing between textures of two sizes, and the frame of a
\* resize is still a surface of the old pool.
CopyFrame ==
  /\ cb \in {"refill", "copy"} /\ ~Locked
  /\ cb' = IF cb = "refill" THEN "recreate" ELSE "check"
  /\ blank' = (pool # width)
  /\ Publish(IF pool = width THEN seen ELSE slots[Other(pub)])
  /\ UNCHANGED <<shared, last, held, encoder, shown, size, content, width, pool,
                 timedOut, late, dxgiVars>>

RecreatePool ==
  /\ cb = "recreate" /\ stage # "freed"
  /\ cb' = "check" /\ pool' = content
  /\ UNCHANGED <<shared, slotVars, streamVars, size, content, width, blank, timedOut,
                 late, dxgiVars>>

\* The slots cannot be made, or the pool cannot be made anew.
CallbackThrows ==
  /\ cb \in {"resize", "recreate"} /\ stage # "freed"
  /\ cb' = "thrown" /\ blank' = (blank \/ cb = "resize")
  /\ UNCHANGED <<shared, slotVars, streamVars, size, content, width, pool, timedOut,
                 late, dxgiVars>>

\* catch (...): if (device && ... the device is asked, as after every frame.
CatchTests ==
  /\ cb = "thrown"
  /\ cb' = IF stage = "freed" THEN "idle" ELSE "reads"
  /\ UNCHANGED <<shared, slotVars, streamVars, sizeVars, timedOut, late, dxgiVars>>

CallbackEnds ==
  /\ cb \in {"check", "reads"} /\ stage # "freed"
  /\ cb' = "idle"
  /\ UNCHANGED <<shared, slotVars, streamVars, sizeVars, timedOut, late, dxgiVars>>

\* close() has reset the device and the context they go through.
CallbackBreaks ==
  /\ cb \in Using /\ stage = "freed"
  /\ stage' = "broken" /\ cb' = "idle"
  /\ UNCHANGED <<request, backend, screen, resets, slotVars, streamVars, sizeVars,
                 timedOut, late, dxgiVars>>

-----------------------------------------------------------------------------
(* Desktop Duplication: run() of the worker.                               *)

Worker(from, to) == backend = "dxgi" /\ worker = from /\ worker' = to

\* AcquireNextFrame reports a change; a change of the pointer alone does not
\* publish and is left out.
Acquire ==
  /\ Worker("run", "frame") /\ stage # "stopping"
  /\ seen # screen
  /\ seen' = screen
  /\ UNCHANGED <<shared, slotVars, streamVars, wgcVars, key, mat, copy>>

\* Mutation: what nobody copied is left with the consumer's key.
PublishStranding ==
  /\ IF key[Other(pub)] = 0
       THEN /\ Publish(seen)
            /\ key' = [key EXCEPT ![Other(pub)] = 1]
       ELSE UNCHANGED <<key, slotVars, missed>>
  /\ UNCHANGED mat

\* A publication nobody copied is taken back, then the other slot is filled.
PublishKeyed ==
  LET back == id # mat /\ allocated
      free == IF back THEN [key EXCEPT ![pub] = 0] ELSE key
  IN /\ IF free[Other(pub)] = 0
          THEN /\ Publish(seen)
               /\ key' = [free EXCEPT ![Other(pub)] = 1]
          ELSE key' = free /\ UNCHANGED <<slotVars, missed>>
     /\ mat' = IF back THEN id ELSE mat

\* ensure_slots() makes the slots when there are none (one action with the
\* copy: until it there is nothing to read); then the copy under the mutex.
CopyDesktop ==
  /\ Worker("frame", "run")
  /\ IF allocated
       THEN PublishKeyed
       ELSE /\ allocated' = TRUE
            /\ slots' = [s \in {0, 1} |-> seen * s] /\ pub' = 1 /\ id' = 1
            /\ missed' = (last = 1)
            /\ key' = [s \in {0, 1} |-> s] /\ mat' = 0
  /\ UNCHANGED <<shared, gen, last, held, encoder, shown, wgcVars, copy, seen>>

\* DXGI_ERROR_ACCESS_LOST: the desktop has switched.
AccessLost ==
  /\ Worker("run", "lost") /\ resets < MaxResets /\ screen < MaxChanges
  /\ stage = "on"
  /\ resets' = resets + 1 /\ screen' = screen + 1
  /\ UNCHANGED <<request, backend, stage, slotVars, streamVars, wgcVars, key, mat,
                 copy, seen>>

\* create_duplication(): the devices go first, without the mutex ...
ResetDevices ==
  /\ Worker("lost", "reset") /\ stage # "stopping"
  /\ UNCHANGED <<shared, slotVars, streamVars, wgcVars, key, mat, copy, seen>>

\* ... then the slots and the ids; it succeeds, or is tried again.
Drop(to) ==
  /\ Worker("reset", to)
  /\ seen' = IF to = "run" THEN -1 ELSE seen
  /\ gen' = IF to = "run" THEN gen + 1 ELSE gen
  /\ allocated' = FALSE /\ id' = 0 /\ mat' = 0
  /\ UNCHANGED <<shared, slots, pub, streamVars, wgcVars, key, copy>>

Recreate == Drop("run")
RecreateFails == Drop("lost")

WorkerEnds ==
  /\ stage = "stopping"
  /\ Worker("run", "ended") \/ Worker("lost", "ended")
  /\ UNCHANGED <<shared, slotVars, streamVars, wgcVars, key, mat, copy, seen>>

-----------------------------------------------------------------------------
(* The stream thread: get_latest_frame, then the frame processor.          *)

Take(texture, picture) ==
  /\ held' = [texture |-> texture, picture |-> picture, gen |-> gen]
  /\ last' = id
  /\ UNCHANGED <<encoder, shown, missed>>

Polls == stage = "on" /\ held = NoTexture /\ allocated /\ id # 0 /\ id # last

\* A new id, and its cadence has come; the slot itself is handed out.
PollWgc ==
  /\ Polls /\ backend = "wgc"
  /\ Take(pub, slots[pub])
  /\ UNCHANGED <<shared, slotVars, wgcVars, dxgiVars>>

\* Mutation: the slot that is not published is copied.
MaterializeOther ==
  /\ key' = [key EXCEPT ![pub] = 0]
  /\ mat' = id /\ copy' = slots[Other(pub)]

\* The published slot is copied to the consumer's device and given back.
Materialize ==
  /\ key' = [key EXCEPT ![pub] = 0]
  /\ mat' = id /\ copy' = slots[pub]

PollDxgi ==
  /\ Polls /\ backend = "dxgi"
  /\ IF mat = id THEN UNCHANGED <<key, mat, copy>>
     ELSE worker # "reset" /\ key[pub] = 1 /\ Materialize
  /\ Take(Own, copy')
  /\ UNCHANGED <<shared, slotVars, wgcVars, worker, seen>>

\* The copy is asked of the consumer's context, which create_duplication() has
\* reset without the mutex.
PollBreaks ==
  /\ Polls /\ backend = "dxgi" /\ worker = "reset" /\ mat # id /\ key[pub] = 1
  /\ stage' = "broken"
  /\ UNCHANGED <<request, backend, screen, resets, slotVars, streamVars, wgcVars,
                 dxgiVars>>

Picture == IF held.texture = Own THEN held.picture ELSE slots[held.texture]

\* process_frame() follows the device of the texture, encode() refuses another
\* device than the one it was initialized with; what the texture holds by now
\* is encoded.
Process ==
  /\ held # NoTexture
  /\ encoder' = IF encoder = None THEN held.gen ELSE encoder
  /\ shown' = IF encoder' = held.gen THEN Picture ELSE shown
  /\ held' = NoTexture
  /\ UNCHANGED <<shared, slotVars, last, missed, wgcVars, dxgiVars>>

\* One of them fails, or the encoder drops the frame: the id is consumed.  An
\* encoder that was not initialized is not tried again.
ProcessFails ==
  /\ held # NoTexture
  /\ encoder' \in IF encoder = None THEN {None, Failed} ELSE {encoder}
  /\ missed' = TRUE /\ held' = NoTexture
  /\ UNCHANGED <<shared, slotVars, last, shown, wgcVars, dxgiVars>>

-----------------------------------------------------------------------------
(* stop_capture(): the stream thread is joined, then the backend closed.   *)

\* Mutation: the stream thread is not waited for.
JoinAtOnce ==
  /\ stage = "on"
  /\ stage' = "joined"
  /\ UNCHANGED <<request, backend, screen, resets, slotVars, streamVars, wgcVars,
                 dxgiVars>>

JoinStream ==
  /\ stage = "on" /\ held = NoTexture
  /\ stage' = "joined"
  /\ UNCHANGED <<request, backend, screen, resets, slotVars, streamVars, wgcVars,
                 dxgiVars>>

Close(from, to) ==
  /\ stage = from /\ stage' = to
  /\ UNCHANGED <<request, backend, screen, resets, streamVars, cb, sizeVars, late,
                 worker, seen, copy>>

StopFlag == Close("joined", "stopping") /\ UNCHANGED <<slotVars, timedOut, key, mat>>

ClosePool ==
  /\ backend = "wgc" /\ Close("stopping", "closed")
  /\ UNCHANGED <<slotVars, timedOut, key, mat>>

\* callbacks_done, or two seconds; a callback counts from TakeFrame on.
WaitCallbacks ==
  /\ backend = "wgc" /\ Close("closed", "waited")
  /\ timedOut' = (cb \notin {"idle", "tested"})
  /\ UNCHANGED <<slotVars, key, mat>>

Free == allocated' = FALSE /\ id' = 0 /\ UNCHANGED <<slots, pub, gen, key, mat>>

FreeWgc ==
  /\ backend = "wgc" /\ Close("waited", "freed") /\ Free
  /\ UNCHANGED timedOut

FreeDxgi ==
  /\ backend = "dxgi" /\ worker = "ended" /\ Close("stopping", "freed") /\ Free
  /\ UNCHANGED timedOut

-----------------------------------------------------------------------------

Callback ==
  \/ FrameArrives \/ TakeFrame \/ TakeThrows \/ AllocateSlots \/ CopyFrame
  \/ RecreatePool \/ CatchTests \/ CallbackEnds
Duplicate == Acquire \/ CopyDesktop \/ ResetDevices \/ WorkerEnds
Stream == PollWgc \/ PollDxgi \/ Process

Next ==
  \/ ScreenChanges \/ StartWgc \/ StartDxgi \/ Resize
  \/ Callback \/ CallbackThrows \/ CallbackBreaks
  \/ Duplicate \/ AccessLost \/ Recreate \/ RecreateFails
  \/ Stream \/ ProcessFails \/ PollBreaks
  \/ JoinStream \/ StopFlag \/ ClosePool \/ WaitCallbacks \/ FreeWgc \/ FreeDxgi

\* The system reports every change, the threads run, and the duplication is
\* granted again when it is asked for often enough.
Fairness ==
  /\ WF_vars(Callback) /\ WF_vars(Duplicate) /\ SF_vars(Recreate)
  /\ WF_vars(PollWgc \/ PollDxgi) /\ WF_vars(Process)

Spec == Init /\ [][Next]_vars /\ Fairness

-----------------------------------------------------------------------------
(* Properties.                                                             *)

\* Of the two keyed slots, the one to be filled next is with the producer, and
\* the published one is with the consumer until it is copied: run() never finds
\* both slots taken, so a change is never refused a slot
\* (dxgi_capture_backend.cpp, run and get_latest_frame).
KeysFollow ==
  allocated /\ backend = "dxgi" =>
    /\ key[Other(pub)] = 0
    /\ (key[pub] = 1) <=> (id # mat)

\* What the callback and the stream thread use is released after they have
\* ended, and nothing breaks over a released object, three cases apart: close()
\* of WGC has given up after two seconds, a callback that had tested "stopping"
\* enters only after close() has waited, and create_duplication() resets the
\* consumer's context without the mutex under which the stream thread uses it -
\* so the last needs a duplication that was lost before
\* (wgc_capture_backend.cpp, on_frame and close; dxgi_capture_backend.cpp,
\* create_duplication and get_latest_frame).
HeldWhileUsed ==
  /\ cb \in Using => stage # "freed" \/ timedOut \/ late
  /\ held # NoTexture => stage = "on"
  /\ stage = "broken" => timedOut \/ late \/ (backend = "dxgi" /\ resets > 0)

\* The last picture of the desktop is encoded, unless its frame did not reach a
\* slot (it came with a resize, and the copy from the pool of the old size does
\* nothing, or the slots could not be made), its id is one the stream thread saw
\* last before a reallocation, its processing failed, or the encoder belongs to
\* another device (on_frame of wgc_capture_backend.cpp, stream_loop of
\* engine.cpp).
EventuallyShown ==
  screen = MaxChanges ~>
    shown = screen \/ blank \/ missed \/ encoder \notin {None, gen} \/ stage # "on"

\* What docs/native-engine-progress.md:162 says of access loss: the duplication
\* made anew handles it - with it the desktop is encoded again.  The encoder
\* keeps the first device and refuses every texture of the next one.
RecoveryShown ==
  screen = MaxChanges /\ backend = "dxgi" ~>
    shown = screen \/ missed \/ encoder = Failed \/ stage # "on"

\* What docs/native-engine-progress.md:145 says of the shutdown: it "waits for
\* callbacks, and releases resources".  It does not, in the first two of the three
\* cases HeldWhileUsed names.
ShutdownDrains == stage = "freed" => cb \notin Using

=============================================================================
