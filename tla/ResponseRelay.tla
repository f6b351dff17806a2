---------------------------- MODULE ResponseRelay ----------------------------
(***************************************************************************)
(* What the response path of the QUIC front end promises for one request:  *)
(* the client receives the bytes of the answer in order, each once, never  *)
(* more than a window behind the worker that produces them, and the stream *)
(* ends only with the last of them.  The response may also be abandoned at *)
(* any point: the client went, its stream failed, or it stopped reading.   *)
(* H3Response.tla is shown to implement this.                              *)
(***************************************************************************)
EXTENDS Naturals, Sequences

CONSTANTS
    Window,    \* how far the worker may be ahead of the client, in bytes
    BodyBytes  \* the longest body

VARIABLES
    made,       \* bytes the worker has handed over
    whole,      \* it will hand over no more: the answer is complete
    received,   \* the bytes the client has, numbered from 1
    finished    \* the client was told that it has all of them

relayVars == <<made, whole, received, finished>>

RelayInit ==
    /\ made = 0
    /\ whole = FALSE
    /\ received = <<>>
    /\ finished = FALSE

(* The worker hands over a piece; a buffered answer is whole with its piece. *)
Make ==
    /\ ~whole
    /\ made' \in made .. BodyBytes
    /\ made' - Len(received) <= Window
    /\ whole' \in BOOLEAN
    /\ UNCHANGED <<received, finished>>

(* Some of what was made arrives, the end with it when there is no more. *)
Deliver ==
    /\ ~finished
    /\ \E k \in 0 .. made - Len(received) :
          received' = received \o [i \in 1 .. k |-> Len(received) + i]
    /\ finished' \in {FALSE, whole /\ Len(received') = made}
    /\ UNCHANGED <<made, whole>>

RelayNext == Make \/ Deliver

RelaySpec == RelayInit /\ [][RelayNext]_relayVars
=============================================================================
