----------------------------- MODULE DrainWindow -----------------------------
(***************************************************************************)
(* The rate at which a client takes a response off the TCP front end:      *)
(* Drain and the relay loop of src/proxy/src/tcp.rs, and from_drain of     *)
(* src/proxy/src/link.rs.                                                  *)
(*                                                                         *)
(* The thread that reads the origin hands chunks to the connection through *)
(* a bounded channel.  A window of measurement is open from a chunk that   *)
(* found others waiting until there is enough to divide by.                *)
(***************************************************************************)
EXTENDS Clock, Integers, Sequences

CONSTANTS
    SmallestChunk, LargestChunk,  \* bytes of a chunk, which vary
    Depth,        \* the capacity of the channel
    SampleEvery,  \* LINK_SAMPLE_EVERY, and no less than MIN_WINDOW
    MinBytes,     \* MIN_BYTES
    MaxChunks     \* bounds the chunks of a window, for TLC only

ASSUME DrainAssumption ==
    /\ {SmallestChunk, LargestChunk, Depth, SampleEvery} \subseteq Nat \ {0}
    /\ SmallestChunk <= LargestChunk
    /\ {MinBytes, MaxChunks} \subseteq Nat

VARIABLES
    queue,    \* the sizes of the chunks in the channel
    relay,    \* the thread: reading, sending a chunk, or done with sending it
    window,   \* Drain
    idle,     \* time the client had nothing to take, since the window opened
    consumed,    \* bytes it took, since what the window counts from
    rate         \* the last that was reported, with idle and consumed at that
                 \* time, and the chunks that waited when it opened and then

drainVars == <<queue, relay, window, idle, consumed, rate>>

NoWindow == [open |-> FALSE, started |-> 0, pushed |-> 0, chunks |-> 0, backlog |-> 0]

NoRate == [drained |-> 0, elapsed |-> 0, idle |-> 0, taken |-> 0, waited |-> 0]

DrainInit ==
    /\ queue = <<>>
    /\ relay = [pc |-> "reading"]
    /\ window = NoWindow
    /\ idle = 0
    /\ consumed = 0
    /\ rate = NoRate

-----------------------------------------------------------------------------
(* A chunk came from the origin: how much is still waiting, and the send. *)
ReadChunk ==
    /\ relay.pc = "reading"
    /\ window.chunks < MaxChunks
    /\ \E size \in SmallestChunk .. LargestChunk :
        relay' = [pc |-> "sending", size |-> size, backlog |-> Len(queue)]
    /\ consumed' = IF window.open THEN consumed ELSE 0
    /\ UNCHANGED <<queue, window, idle, rate>>

(* blocking_send: there is room. *)
SendChunk ==
    /\ relay.pc = "sending"
    /\ Len(queue) < Depth
    /\ queue' = Append(queue, relay.size)
    /\ relay' = [relay EXCEPT !.pc = "sent"]
    /\ UNCHANGED <<window, idle, consumed, rate>>

(* Mutant: a channel that was found empty leaves the window as it is. *)
PushedAnyway(size, backlog) ==
    [open |-> TRUE,
     started |-> IF window.open THEN window.started ELSE now,
     pushed |-> window.pushed + size,
     chunks |-> window.chunks + 1,
     backlog |-> IF window.open THEN window.backlog ELSE backlog]

(* Drain::push: the client had caught up, and nothing about the window is
   about its speed; or it had not, and the window opens or goes on. *)
Pushed(size, backlog) ==
    IF backlog = 0 THEN NoWindow
    ELSE [open |-> TRUE,
          started |-> IF window.open THEN window.started ELSE now,
          pushed |-> window.pushed + size,
          chunks |-> window.chunks + 1,
          backlog |-> IF window.open THEN window.backlog ELSE backlog]

(* Mutant: the queue is taken to be as long as it was. *)
DrainedAsPushed(w, backlog) == w.pushed

(* What was pushed, less what the queue grew by, which is counted in chunks
   and turned into bytes at the mean of the window, rounded down. *)
Drained(w, backlog) ==
    LET left == w.pushed - (backlog - w.backlog) * (w.pushed \div w.chunks) IN
    IF left < 0 THEN 0 ELSE left

(* Drain::rate and from_drain: long enough, and enough of it. *)
Reportable(w, backlog) ==
    /\ w.open
    /\ now - w.started >= SampleEvery
    /\ Drained(w, backlog) >= MinBytes

(* push and rate, and the window starts again when there was one. *)
Measure ==
    /\ relay.pc = "sent"
    /\ relay' = [pc |-> "reading"]
    /\ LET w == Pushed(relay.size, relay.backlog) IN
        IF Reportable(w, Len(queue))
        THEN /\ rate' = [drained |-> Drained(w, Len(queue)), elapsed |-> now - w.started,
                         idle |-> idle, taken |-> consumed,
                         waited |-> w.backlog + Len(queue)]
             /\ window' = NoWindow
             /\ idle' = 0 /\ consumed' = 0
        ELSE /\ window' = w
             /\ idle' = IF w.open THEN idle ELSE 0
             /\ consumed' = IF w.open THEN consumed ELSE 0
             /\ UNCHANGED rate
    /\ UNCHANGED queue

(* The connection takes the oldest. *)
ClientTakes ==
    /\ queue # <<>>
    /\ queue' = Tail(queue)
    /\ consumed' = consumed + Head(queue)
    /\ UNCHANGED <<relay, window, idle, rate>>

(* Time goes by while the thread waits, for the origin or for room. *)
DrainTick ==
    /\ Tick
    /\ relay.pc = "reading" \/ (relay.pc = "sending" /\ Len(queue) = Depth)
    /\ idle' = IF queue = <<>> /\ window.open THEN idle + 1 ELSE idle
    /\ UNCHANGED <<queue, relay, window, consumed, rate>>

DrainNext ==
    \/ ReadChunk \/ SendChunk \/ Measure \/ ClientTakes

-----------------------------------------------------------------------------
Apart(m, n) == IF m < n THEN n - m ELSE m - n

(* fetch_blocking: "that discard is what keeps this a measurement of the
   client and not of the origin".  In a window that is reported the client
   had something to take all the time; and what is reported as drained is what
   it took, but for what the chunks that waited at either end differ by from
   the mean they are converted at. *)
MeasuresTheClient ==
    /\ rate.idle = 0
    /\ Apart(rate.drained, rate.taken) <= rate.waited * (LargestChunk - SmallestChunk)
=============================================================================
