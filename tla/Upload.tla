------------------------------- MODULE Upload -------------------------------
(***************************************************************************)
(* A request body on its way from the client to the worker that wants it:  *)
(* the channel, Ending, Reader and take of src/proxy/src/body.rs, filled   *)
(* by either front end: from a QUIC stream by Upload, poll_requests and    *)
(* pump_uploads of src/proxy/src/main.rs, or by a task of its own in       *)
(* handle of src/proxy/src/tcp.rs.                                         *)
(*                                                                         *)
(* The bytes of the body are numbered from 1.  recv_body takes some of     *)
(* those quiche holds; what it takes is one chunk, [from, to], bytes       *)
(* from+1 to `to'.  The event loop tries to send it down the channel, and  *)
(* parks it in `overflow' when the channel is full.                        *)
(*                                                                         *)
(* The task of the TCP front end waits for a "frame" of the body or, with  *)
(* one in its hands, for room in the channel ("send").                     *)
(*                                                                         *)
(* The loop is in one of four phases: "asleep" in poll.poll; "poll", where *)
(* it takes the packets that woke it and the h3 events they make;          *)
(* "overflow", where pump_uploads sends what was parked; and "read", where *)
(* it reads the stream.  Packets that come later wait for the next pass.   *)
(* The worker is another thread, and may take a chunk off the channel at   *)
(* any time; that does not wake the loop.                                  *)
(***************************************************************************)
EXTENDS BodyQueue, SequencesExt

CONSTANTS
    MaxRead,       \* the size of pump_uploads' buffer
    ChannelDepth,  \* CHANNEL_DEPTH
    ParkCap,       \* stream_buffer_bytes(), what may be parked before reading stops
    MaxBuffered,   \* max_request_body(), for a body the interceptors want
    Fronts,        \* the front ends: h3, tcp
    IdleTimer      \* whether max_idle_timeout_ms is set; 0 is never

ASSUME UploadAssumption ==
    /\ MaxBuffered \in Nat
    /\ Fronts \subseteq {"h3", "tcp"}
    /\ IdleTimer \in BOOLEAN
    /\ {MaxRead, ChannelDepth, ParkCap} \subseteq Nat \ {0}

VARIABLES
    front,     \* which front end the request came by
    conn,      \* the connection is in the ClientMap
    sent,      \* bytes of the body that reached quiche, or hyper
    ending,    \* how the client's side of the stream ended: open, fin or reset
    read,      \* bytes recv_body took
    phase,     \* of the event loop, or of the task
    upload,    \* the entry of Client::uploads: live, aborting or gone
    finished,  \* Upload::finished
    overflow,  \* Upload::overflow, or the frame in the hands of the task
    parked,    \* Upload::parked
    channel,   \* chunks in the channel
    aborted,   \* Ending
    reader,    \* the worker: queued, buffering, streaming or done
    got,       \* the bytes it read, in the order it read them
    outcome    \* how the body ended for it

streamVars == <<front, conn, sent, ending>>
loopVars == <<read, phase, upload, finished, overflow, parked, aborted>>
workerVars == <<reader, got, outcome>>
vars == <<streamVars, loopVars, channel, workerVars>>

(* The worker holds the other end of the channel. *)
Receiving == reader # "done"

-----------------------------------------------------------------------------
(* The HEADERS of a request whose body follows were taken. *)
Init ==
    /\ front \in Fronts
    /\ conn = TRUE
    /\ sent = 0
    /\ ending = "open"
    /\ read = 0
    /\ phase = IF front = "h3" THEN "poll" ELSE "frame"
    /\ upload = "live"
    /\ finished = FALSE
    /\ overflow = <<>>
    /\ parked = 0
    /\ channel = <<>>
    /\ aborted = FALSE
    /\ reader = "queued"
    /\ got = <<>>
    /\ outcome = "none"

-----------------------------------------------------------------------------
(* What wakes the loop, and the packets it takes at the head of a pass. *)

ClientSends ==
    /\ phase \in {"asleep", "poll"} /\ conn /\ ending = "open"
    /\ sent' \in sent + 1 .. BodyBytes
    /\ phase' = "poll"
    /\ UNCHANGED <<front, conn, ending, read, upload, finished, overflow, parked, aborted, channel, workerVars>>

ClientEnds ==
    /\ phase \in {"asleep", "poll"} /\ conn /\ ending = "open"
    /\ ending' \in {"fin", "reset"}
    /\ phase' = "poll"
    /\ UNCHANGED <<front, conn, sent, read, upload, finished, overflow, parked, aborted, channel, workerVars>>

(* Any other packet, a timer of any connection, a result of any worker. *)
WakeUp ==
    /\ phase = "asleep" /\ conn
    /\ phase' = "poll"
    /\ UNCHANGED <<streamVars, read, upload, finished, overflow, parked, aborted, channel, workerVars>>

(* clients.retain drops the Client, and the Sender of each upload with it. *)
DropClient ==
    /\ conn
    /\ conn' = FALSE
    /\ upload' = "gone"
    /\ overflow' = <<>>
    /\ parked' = 0
    /\ phase' = "asleep"
    /\ UNCHANGED <<front, sent, ending, read, finished, channel, aborted, workerVars>>

ClientCloses == phase = "poll" /\ DropClient

(* Nothing came from the client for as long as the idle timer runs. *)
TimesOut == phase = "asleep" /\ IdleTimer /\ DropClient

-----------------------------------------------------------------------------
(* The event loop: the events of poll_requests. *)

(* The entry is removed from Client::uploads, and its Sender dropped.
   This pass has nothing more to do for it. *)
DropUpload ==
    /\ upload' = "gone"
    /\ overflow' = <<>>
    /\ parked' = 0
    /\ phase' = "asleep"

FinishedEvent ==
    /\ phase = "poll" /\ conn
    /\ upload = "live" /\ ending = "fin" /\ ~finished
    /\ finished' = TRUE
    /\ UNCHANGED <<streamVars, read, phase, upload, overflow, parked, channel, aborted, workerVars>>

(* A reset: the worker is told before the Sender goes, in two steps. *)
ResetEvent ==
    /\ phase = "poll" /\ conn
    /\ upload = "live" /\ ending = "reset"
    /\ aborted' = TRUE
    /\ upload' = "aborting"
    /\ UNCHANGED <<streamVars, read, phase, finished, overflow, parked, channel, workerVars>>

SenderDropped ==
    /\ phase = "poll" /\ upload = "aborting"
    /\ DropUpload
    /\ UNCHANGED <<streamVars, read, finished, channel, aborted, workerVars>>

-----------------------------------------------------------------------------
(* The event loop: pump_uploads. *)

(* poll_requests took every event there was.  quiche may raise Finished as
   soon as the fin is in, and has raised it once the stream is read; a reset
   it reports as an event or to the recv_body that meets it. *)
Polled == ending = "fin" /\ read = sent => finished

(* Mutant: the pass is left to a Data event, and a full channel raises none. *)
BeginPumpOnData ==
    /\ phase = "poll" /\ conn /\ upload = "live"
    /\ Polled
    /\ read < sent
    /\ phase' = "overflow"
    /\ UNCHANGED <<streamVars, read, upload, finished, overflow, parked, channel, aborted, workerVars>>

(* Every pass, and not only when there is something to read. *)
BeginPump ==
    /\ phase = "poll" /\ conn /\ upload = "live"
    /\ Polled
    /\ phase' = "overflow"
    /\ UNCHANGED <<streamVars, read, upload, finished, overflow, parked, channel, aborted, workerVars>>

(* Mutant: room that was given back is not counted. *)
MoveParkedUncounted ==
    /\ phase = "overflow" /\ overflow # <<>>
    /\ Receiving /\ Len(channel) < ChannelDepth
    /\ channel' = Append(channel, Head(overflow))
    /\ overflow' = Tail(overflow)
    /\ UNCHANGED <<streamVars, read, phase, upload, finished, parked, aborted, workerVars>>

(* The oldest parked chunk fits. *)
MoveParked ==
    /\ phase = "overflow" /\ overflow # <<>>
    /\ Receiving /\ Len(channel) < ChannelDepth
    /\ channel' = Append(channel, Head(overflow))
    /\ overflow' = Tail(overflow)
    /\ parked' = parked - Size(Head(overflow))
    /\ UNCHANGED <<streamVars, read, phase, upload, finished, aborted, workerVars>>

(* Mutant: the chunk that did not fit is forgotten. *)
ParkedStaysLost ==
    /\ phase = "overflow"
    /\ overflow = <<>> \/ (Receiving /\ Len(channel) = ChannelDepth)
    /\ overflow' = IF overflow = <<>> THEN <<>> ELSE Tail(overflow)
    /\ phase' = "read"
    /\ UNCHANGED <<streamVars, read, upload, finished, parked, channel, aborted, workerVars>>

(* None is left, or it does not fit and is put back. *)
ParkedStays ==
    /\ phase = "overflow"
    /\ overflow = <<>> \/ (Receiving /\ Len(channel) = ChannelDepth)
    /\ phase' = "read"
    /\ UNCHANGED <<streamVars, read, upload, finished, overflow, parked, channel, aborted, workerVars>>

(* The worker has dropped the other end. *)
ParkedUnwanted ==
    /\ phase = "overflow" /\ overflow # <<>> /\ ~Receiving
    /\ DropUpload
    /\ UNCHANGED <<streamVars, read, finished, channel, aborted, workerVars>>

HasRoom == parked < ParkCap

(* What recv_body can take off the stream, while there is room to park it.
   A stream that was reset has nothing to give. *)
NextChunk ==
    {c \in [from : {read}, to : read + 1 .. sent] :
        HasRoom /\ ending # "reset" /\ Size(c) <= MaxRead}

(* The chunk is sent down the channel, or parked because that is full, or
   nobody wants it any more. *)
ReadToChannel ==
    /\ phase = "read"
    /\ Receiving /\ Len(channel) < ChannelDepth
    /\ \E c \in NextChunk :
        /\ read' = c.to
        /\ channel' = Append(channel, c)
    /\ UNCHANGED <<streamVars, phase, upload, finished, overflow, parked, aborted, workerVars>>

ReadToOverflow ==
    /\ phase = "read"
    /\ Receiving /\ Len(channel) = ChannelDepth
    /\ \E c \in NextChunk :
        /\ read' = c.to
        /\ overflow' = Append(overflow, c)
        /\ parked' = parked + Size(c)
    /\ UNCHANGED <<streamVars, phase, upload, finished, channel, aborted, workerVars>>

ReadUnwanted ==
    /\ phase = "read"
    /\ ~Receiving
    /\ \E c \in NextChunk : read' = c.to
    /\ DropUpload
    /\ UNCHANGED <<streamVars, finished, channel, aborted, workerVars>>

(* The reset is met here rather than as an event. *)
ReadFails ==
    /\ phase = "read" /\ HasRoom /\ ending = "reset"
    /\ DropUpload
    /\ UNCHANGED <<streamVars, read, finished, channel, aborted, workerVars>>

(* Reading stops: nothing is left for now, or there is no room for it. *)
ReadStops ==
    /\ phase = "read"
    /\ ~HasRoom \/ (read = sent /\ ending # "reset")
    /\ ~(finished /\ HasRoom /\ overflow = <<>>)
    /\ phase' = "asleep"
    /\ UNCHANGED <<streamVars, read, upload, finished, overflow, parked, channel, aborted, workerVars>>

(* The client has finished and everything it sent is in the channel:
   dropping the Sender is what ends the body. *)
BodyEnds ==
    /\ phase = "read" /\ HasRoom /\ read = sent
    /\ finished /\ overflow = <<>>
    /\ DropUpload
    /\ UNCHANGED <<streamVars, read, finished, channel, aborted, workerVars>>

-----------------------------------------------------------------------------
(* The TCP front end. *)

(* hyper takes bytes off the connection when it likes; a client that dies in
   the middle is an error to whoever asks for the next frame. *)
TcpClient ==
    /\ phase \in {"frame", "send"} /\ ending = "open"
    /\ \/ sent' \in sent + 1 .. BodyBytes /\ UNCHANGED ending
       \/ ending' \in {"fin", "reset"} /\ UNCHANGED sent
    /\ UNCHANGED <<front, conn, loopVars, channel, workerVars>>

(* A frame with data in it. *)
Frame ==
    /\ phase = "frame" /\ upload = "live"
    /\ \E c \in [from : {read}, to : read + 1 .. sent] :
        /\ Size(c) <= MaxRead
        /\ read' = c.to
        /\ overflow' = <<c>>
    /\ phase' = "send"
    /\ UNCHANGED <<streamVars, upload, finished, parked, aborted, channel, workerVars>>

(* Mutant: an error ends the body like the last frame does. *)
FrameFailsQuietly ==
    /\ phase = "frame" /\ upload = "live" /\ ending = "reset"
    /\ upload' = "aborting"
    /\ UNCHANGED <<streamVars, read, phase, finished, overflow, parked, aborted, channel, workerVars>>

(* The client is gone: the worker is told before the sender is dropped. *)
FrameFails ==
    /\ phase = "frame" /\ upload = "live" /\ ending = "reset"
    /\ aborted' = TRUE
    /\ upload' = "aborting"
    /\ UNCHANGED <<streamVars, read, phase, finished, overflow, parked, channel, workerVars>>

(* The task waits for room, however long the worker takes. *)
SendFrame ==
    /\ phase = "send" /\ Receiving
    /\ Len(channel) < ChannelDepth
    /\ channel' = channel \o overflow
    /\ overflow' = <<>>
    /\ phase' = "frame"
    /\ UNCHANGED <<streamVars, read, upload, finished, parked, aborted, workerVars>>

(* The loop is left, and the sender goes with the task: there are no more
   frames, the last one failed, or nobody wants the one in its hands. *)
TaskEnds ==
    /\ \/ phase = "frame" /\ upload = "live" /\ ending = "fin" /\ read = sent
       \/ phase = "frame" /\ upload = "aborting"
       \/ phase = "send" /\ ~Receiving
    /\ upload' = "gone"
    /\ overflow' = <<>>
    /\ phase' = "over"
    /\ UNCHANGED <<streamVars, read, finished, parked, aborted, channel, workerVars>>

TaskSteps == Frame \/ FrameFails \/ SendFrame \/ TaskEnds

-----------------------------------------------------------------------------
(* The worker. *)

(* take: the interceptors want the body, or it goes past them.  A request
   answered before its body is wanted drops it. *)
TakeBody ==
    /\ reader = "queued"
    /\ \/ reader' \in {"buffering", "streaming"} /\ UNCHANGED <<channel, outcome>>
       \/ reader' = "done" /\ outcome' = "unwanted" /\ channel' = <<>>
    /\ UNCHANGED <<streamVars, loopVars, got>>

(* The worker is done with the body, and what was queued goes with it. *)
Finish(how) ==
    /\ reader' = "done"
    /\ outcome' = how
    /\ channel' = <<>>

(* Reader::read, or read_to_cap when the whole body must fit. *)
ReadChunk ==
    /\ reader \in {"buffering", "streaming"}
    /\ channel # <<>>
    /\ LET c == Head(channel) IN
        IF reader = "buffering" /\ Len(got) + Size(c) > MaxBuffered
        THEN Finish("too large") /\ UNCHANGED got
        ELSE /\ channel' = Tail(channel)
             /\ got' = got \o [i \in 1 .. Size(c) |-> c.from + i]
             /\ UNCHANGED <<reader, outcome>>
    /\ UNCHANGED <<streamVars, loopVars>>

(* The Sender is gone and the channel empty: the body ended, or stopped. *)
ReadEnd ==
    /\ reader \in {"buffering", "streaming"}
    /\ channel = <<>> /\ upload = "gone"
    /\ Finish(IF aborted THEN "interrupted" ELSE "complete")
    /\ UNCHANGED <<streamVars, loopVars, got>>

(* The fetch failed, or the origin answered without reading it all. *)
StopReading ==
    /\ reader = "streaming"
    /\ Finish("unwanted")
    /\ UNCHANGED <<streamVars, loopVars, got>>

-----------------------------------------------------------------------------
ClientSteps == ClientSends \/ ClientEnds \/ ClientCloses

LoopSteps ==
    \/ FinishedEvent \/ ResetEvent \/ SenderDropped
    \/ BeginPump \/ MoveParked \/ ParkedStays \/ ParkedUnwanted
    \/ ReadToChannel \/ ReadToOverflow \/ ReadUnwanted \/ ReadFails
    \/ ReadStops \/ BodyEnds

WorkerSteps == TakeBody \/ ReadChunk \/ ReadEnd

Next ==
    \/ ClientSteps \/ WakeUp \/ TimesOut \/ LoopSteps
    \/ TcpClient \/ TaskSteps
    \/ WorkerSteps \/ StopReading

Spec == Init /\ [][Next]_vars

(* The loop finishes a pass it began, the idle timer runs out if it is never
   reset, the task is polled when there is something for it, and the worker
   reads on.  Nothing is assumed of the client. *)
Fairness ==
    /\ WF_vars(LoopSteps) /\ WF_vars(TimesOut)
    /\ WF_vars(TaskSteps)
    /\ WF_vars(WorkerSteps)

FairSpec == Spec /\ Fairness

(* The client, or anyone else the loop serves, goes on sending packets. *)
BusySpec == FairSpec /\ WF_vars(WakeUp)

-----------------------------------------------------------------------------
Chunks == [from : 0 .. BodyBytes, to : 0 .. BodyBytes]

TypeOK ==
    /\ front \in Fronts
    /\ conn \in BOOLEAN
    /\ sent \in 0 .. BodyBytes
    /\ ending \in {"open", "fin", "reset"}
    /\ read \in 0 .. BodyBytes
    /\ phase \in {"asleep", "poll", "overflow", "read", "frame", "send", "over"}
    /\ upload \in {"live", "aborting", "gone"}
    /\ finished \in BOOLEAN
    /\ overflow \in Seq(Chunks)
    /\ parked \in Int
    /\ channel \in Seq(Chunks)
    /\ aborted \in BOOLEAN
    /\ reader \in {"queued", "buffering", "streaming", "done"}
    /\ got \in Seq(1 .. BodyBytes)
    /\ outcome \in {"none", "unwanted", "too large", "interrupted", "complete"}

(* Parking is bounded, "because parking without a bound is just buffering
   again", and the bound is kept on what is really parked.  The TCP task holds
   one frame, and does not count it. *)
ParkingIsBounded ==
    /\ parked = IF front = "h3" THEN BodyLen(overflow) ELSE 0
    /\ BodyLen(overflow) < ParkCap + MaxRead

(* While both ends live no byte taken off the stream is lost or doubled: each
   is parked, in the channel or with the worker.  And a body that read as
   complete after the client finished it is all there: the Sender is not
   dropped before what was parked has been sent. *)
NothingLost ==
    /\ upload = "live" /\ Receiving =>
        /\ Len(got) + BodyLen(channel) + BodyLen(overflow) = read
        /\ ToSet(got) \cap UNION {c.from + 1 .. c.to : c \in ToSet(channel \o overflow)} = {}
    /\ outcome = "complete" /\ ending = "fin" /\ conn => ToSet(got) = 1 .. sent

(* A reset that was seen as one never reads as the end of the body, however
   the worker's read falls between the flag and the Sender going; and the TCP
   front end sees every one, for "a client that dies mid-upload also drops this
   sender". *)
AbortIsSeen ==
    aborted \/ (front = "tcp" /\ ending # "fin") => outcome # "complete"

(* pump_uploads: "waiting for one would strand an upload half-sent".  Once
   the client's side has ended, or the connection has, so does the body for
   the worker, even one left parked behind a full channel with nothing more
   to read. *)
UploadEnds == ending # "open" \/ ~conn ~> reader = "done"

(* pump_uploads: "Whatever was parked goes first, or the body would arrive
   reordered."  The worker reads the bytes in the order they were sent. *)
BodyInOrder == got = [i \in 1 .. Len(got) |-> i]

(* Ending: "a stream the client reset does not become a shorter but perfectly
   well-formed request upstream", nor does one whose client vanished. *)
StoppedIsNotEnded == outcome = "complete" => ending = "fin"
=============================================================================
