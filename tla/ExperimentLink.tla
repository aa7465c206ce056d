--------------------------- MODULE ExperimentLink ---------------------------
(***************************************************************************)
(* Experiments E and F (src/src/snowlink/rtc/session.py, session_audio.py  *)
(* and signaling.py): a sender with an HTTP server that answers the offer  *)
(* of one receiver, the receivers that post their offers to it, and the    *)
(* connection between the two.  Every process is one event loop; a step is *)
(* what runs between two awaits.  A receiver posts one offer, so offers,   *)
(* requests and the sender's peer connections are named by the receiver.   *)
(***************************************************************************)
EXTENDS Naturals

CONSTANTS Receivers, Nobody

ASSUME LinkAssumption == Nobody \notin Receivers

VARIABLES
  sender,    \* new, waiting, ice, streaming, stats, peer, server, gone
  pc,        \* run_sender's pc: the receiver it was made for
  open,      \* the sender's peer connections that were made and not closed
  mediaStarted, halted,  \* media_started, stop_event
  busy, lock, closed,    \* SignalingServer: _busy, the holder of _session_lock, _closed
  request,   \* of each receiver: none, locking, reading, handling, answered, refused, dropped
  link,      \* of each receiver's connection: down, up, failed, closed
  receiver,  \* new, offering, ice, frames, media, closing, gone
  result     \* none, success, failure

server == <<busy, lock, closed>>
linkVars == <<sender, pc, open, mediaStarted, halted, server, request, link, receiver, result>>

LinkTypeOK ==
  /\ sender \in {"new", "waiting", "ice", "streaming", "stats", "peer", "server", "gone"}
  /\ pc \in Receivers \cup {Nobody} /\ lock \in Receivers \cup {Nobody}
  /\ open \subseteq Receivers
  /\ {mediaStarted, halted, busy, closed} \subseteq BOOLEAN
  /\ request \in [Receivers ->
       {"none", "locking", "reading", "handling", "answered", "refused", "dropped"}]
  /\ link \in [Receivers -> {"down", "up", "failed", "closed"}]
  /\ receiver \in [Receivers -> {"new", "offering", "ice", "frames", "media", "closing", "gone"}]
  /\ result \in [Receivers -> {"none", "success", "failure"}]

LinkInit ==
  /\ sender = "new" /\ pc = Nobody /\ open = {} /\ mediaStarted = FALSE /\ halted = FALSE
  /\ busy = FALSE /\ lock = Nobody /\ closed = FALSE
  /\ request = [r \in Receivers |-> "none"]
  /\ link = [r \in Receivers |-> "down"]
  /\ receiver = [r \in Receivers |-> "new"] /\ result = [r \in Receivers |-> "none"]

-----------------------------------------------------------------------------
(* The sender, from run_sender to the end of its finally.                  *)

\* stop_event.set() and track.stop(), and the first await of the clean-up there is.
Unwind ==
  /\ halted' = TRUE
  /\ sender' = IF mediaStarted THEN "stats" ELSE IF pc # Nobody THEN "peer" ELSE "server"
  /\ closed' = (sender' = "server")
  /\ UNCHANGED <<busy, lock>>

SenderGoes(from, to) == sender = from /\ sender' = to /\ UNCHANGED <<halted, server>>

SenderListens ==
  /\ SenderGoes("new", "waiting") \/ SenderGoes("new", "gone")
  /\ UNCHANGED <<pc, open, mediaStarted, request, link, receiver, result>>

\* wait_for(media_started), for the whole duration.
ReceiverCame ==
  /\ mediaStarted /\ SenderGoes("waiting", "ice")
  /\ UNCHANGED <<pc, open, mediaStarted, request, link, receiver, result>>
NobodyCame ==
  /\ sender = "waiting" /\ ~mediaStarted /\ Unwind
  /\ UNCHANGED <<pc, open, mediaStarted, request, link, receiver, result>>

\* wait_ice_connected, and its timeout.
SenderConnects ==
  /\ SenderGoes("ice", "streaming") /\ link[pc] = "up"
  /\ UNCHANGED <<pc, open, mediaStarted, request, link, receiver, result>>
SenderGivesUp ==
  /\ sender = "ice" /\ link[pc] # "up" /\ Unwind
  /\ UNCHANGED <<pc, open, mediaStarted, request, link, receiver, result>>

\* The duration is over or the stop event is set.  The tests of connectionState in the
\* loop come after the event, which the callback sets with the state.
StreamingEnds ==
  /\ sender = "streaming" /\ Unwind
  /\ UNCHANGED <<pc, open, mediaStarted, request, link, receiver, result>>

StatsCancelled ==
  /\ sender = "stats" /\ sender' = "peer"
  /\ UNCHANGED <<pc, open, mediaStarted, halted, server, request, link, receiver, result>>

\* The other end learns of a close.
Closes(r) == link' = [link EXCEPT ![r] = IF @ = "up" THEN "closed" ELSE @]

PeerCloses ==
  /\ sender = "peer" /\ sender' = "server" /\ closed' = TRUE
  /\ open' = open \ {pc} /\ Closes(pc)
  /\ UNCHANGED <<pc, mediaStarted, halted, busy, lock, request, receiver, result>>

\* The runner's clean-up waits for the requests, and cancels them after a time.
Busies == {r \in Receivers : request[r] \in {"locking", "reading", "handling"}}
RequestCancelled(r) ==
  /\ sender = "server" /\ r \in Busies
  /\ request' = [request EXCEPT ![r] = "dropped"]
  /\ lock' = IF lock = r THEN Nobody ELSE lock
  /\ UNCHANGED <<sender, pc, open, mediaStarted, halted, busy, closed, link, receiver, result>>
\* The end of the process ends the peer connections it has left open.
ServerDown ==
  /\ sender = "server" /\ Busies = {} /\ sender' = "gone"
  /\ open' = {} /\ link' = [r \in Receivers |-> IF link[r] = "up" THEN "failed" ELSE link[r]]
  /\ UNCHANGED <<pc, mediaStarted, halted, server, request, receiver, result>>

SenderSteps ==
  \/ SenderListens \/ ReceiverCame \/ NobodyCame \/ SenderConnects \/ SenderGivesUp
  \/ StreamingEnds \/ StatsCancelled \/ PeerCloses \/ ServerDown

-----------------------------------------------------------------------------
(* SignalingServer._offer and run_sender's handle_offer.                   *)

Answers(r, from, to) == request[r] = from /\ request' = [request EXCEPT ![r] = to]

\* The request is accepted, unless the server is closing.
OfferArrives(r) ==
  /\ receiver[r] = "offering" /\ sender \notin {"new", "gone"}
  /\ Answers(r, "none", IF closed THEN "refused" ELSE "locking")
  /\ UNCHANGED <<sender, pc, open, mediaStarted, halted, server, link, receiver, result>>

\* Mutation: the busy flag is not looked at again under the lock.
TakeLockUnchecked(r) ==
  /\ lock = Nobody /\ Answers(r, "locking", "reading") /\ lock' = r
  /\ UNCHANGED <<sender, pc, open, mediaStarted, halted, busy, closed, link, receiver, result>>

\* The lock is taken, and held while the body is read.
TakeLock(r) ==
  /\ lock = Nobody
  /\ \/ ~busy /\ Answers(r, "locking", "reading") /\ lock' = r
     \/ busy /\ Answers(r, "locking", "refused") /\ UNCHANGED lock
  /\ UNCHANGED <<sender, pc, open, mediaStarted, halted, busy, closed, link, receiver, result>>

\* The receiver has hung up before its body was complete.
ReadFails(r) ==
  /\ receiver[r] # "offering" /\ Answers(r, "reading", "refused") /\ lock' = Nobody
  /\ UNCHANGED <<sender, pc, open, mediaStarted, halted, busy, closed, link, receiver, result>>

\* The server becomes busy before it lets the lock go, and handle_offer makes its peer connection.
OfferRead(r) ==
  /\ Answers(r, "reading", "handling") /\ lock' = Nobody
  /\ busy' = TRUE /\ pc' = r /\ open' = open \cup {r}
  /\ UNCHANGED <<sender, mediaStarted, halted, closed, link, receiver, result>>

\* The codec, the remote description or the gathering fails; pc stays as it is.
HandlingFails(r) ==
  /\ Answers(r, "handling", "refused") /\ busy' = FALSE
  /\ UNCHANGED <<sender, pc, open, mediaStarted, halted, lock, closed, link, receiver, result>>

HandlingDone(r) ==
  /\ Answers(r, "handling", "answered") /\ mediaStarted' = TRUE
  /\ UNCHANGED <<sender, pc, open, halted, server, link, receiver, result>>

Handler(r) == OfferArrives(r) \/ TakeLock(r) \/ ReadFails(r) \/ OfferRead(r) \/ HandlingFails(r) \/ HandlingDone(r)

-----------------------------------------------------------------------------
(* A receiver, from run_receiver to the end of its finally.                *)

Stays == UNCHANGED <<sender, pc, open, mediaStarted, server>>
ReceiverGoes(r, from, to) == receiver[r] = from /\ receiver' = [receiver EXCEPT ![r] = to]
Ends(r, outcome) == result' = [result EXCEPT ![r] = outcome]
Silent == UNCHANGED <<halted, request, link>> /\ Stays

\* The client, the peer connection and its offer, up to the POST - or one of them fails.
Offers(r) ==
  /\ \/ ReceiverGoes(r, "new", "offering") /\ UNCHANGED result
     \/ ReceiverGoes(r, "new", "closing") /\ Ends(r, "failure")
  /\ Silent
AnswerApplied(r) ==
  /\ request[r] = "answered" /\ ReceiverGoes(r, "offering", "ice") /\ UNCHANGED result /\ Silent
\* Refused, unreachable or too late: exchange_offer raises.
NotAnswered(r) == ReceiverGoes(r, "offering", "closing") /\ Ends(r, "failure") /\ Silent

\* ICE and DTLS come up between the two peer connections, and break.
Connects(r) ==
  /\ receiver[r] = "ice" /\ r \in open /\ link[r] = "down" /\ link' = [link EXCEPT ![r] = "up"]
  /\ UNCHANGED <<halted, request, receiver, result>> /\ Stays
\* _on_conn of both ends: it looks at the newest pc of the sender.
Breaks(r) ==
  /\ link[r] = "up" /\ link' = [link EXCEPT ![r] = "failed"]
  /\ halted' = (halted \/ pc = r)
  /\ UNCHANGED <<request, receiver, result>> /\ Stays

IceConnected(r) == link[r] = "up" /\ ReceiverGoes(r, "ice", "frames") /\ UNCHANGED result /\ Silent
FirstFrame(r) == link[r] = "up" /\ ReceiverGoes(r, "frames", "media") /\ UNCHANGED result /\ Silent
\* A timeout, or the peer is lost before the first frame.
NoMedia(r) ==
  /\ ReceiverGoes(r, "ice", "closing") \/ ReceiverGoes(r, "frames", "closing")
  /\ Ends(r, "failure") /\ Silent

\* The duration is over, the preview was closed, or the stop event is set: also by the
\* loss of the peer, whose own test in the loop comes after it.
MediaEnds(r) == ReceiverGoes(r, "media", "closing") /\ Ends(r, "success") /\ Silent
\* No frames for too long; the consumer or the playback worker fails.
MediaFails(r) == ReceiverGoes(r, "media", "closing") /\ Ends(r, "failure") /\ Silent

\* The clean-up closes the peer connection and the client.
ReceiverCloses(r) ==
  /\ ReceiverGoes(r, "closing", "gone") /\ Closes(r)
  /\ halted' = (halted \/ (link[r] = "up" /\ pc = r))
  /\ UNCHANGED <<request, result>> /\ Stays

Network(r) == Connects(r) \/ Breaks(r)
ReceiverSteps(r) ==
  \/ Offers(r) \/ AnswerApplied(r) \/ NotAnswered(r) \/ IceConnected(r) \/ FirstFrame(r)
  \/ NoMedia(r) \/ MediaEnds(r) \/ MediaFails(r) \/ ReceiverCloses(r)

LinkNext ==
  \/ SenderSteps
  \/ \E r \in Receivers : Handler(r) \/ RequestCancelled(r) \/ ReceiverSteps(r) \/ Network(r)

LinkSpec == LinkInit /\ [][LinkNext]_linkVars

-----------------------------------------------------------------------------
\* Whatever offers fail, come too late or race each other for the lock, the sender's pc -
\* which it waits for, streams to and closes - is the one connection it is answering or
\* has answered: it never serves two receivers, or waits on a failed one's connection.
OneReceiver == \A r \in Receivers : request[r] \in {"handling", "answered"} => pc = r
=============================================================================
