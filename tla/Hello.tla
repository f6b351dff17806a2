-------------------------------- MODULE Hello --------------------------------
(***************************************************************************)
(* Whether a TCP connection is decrypted: serve, peek_server_name and the  *)
(* servername callback of src/proxy/src/tcp.rs over have_hello and         *)
(* assemble of src/proxy/src/passthrough.rs.                               *)
(*                                                                         *)
(* What the client sends is TLS records, of which the socket holds a       *)
(* growing front.  `ends' is where each handshake record ends, header and  *)
(* all; their payloads are the ClientHello, whose own header declares how  *)
(* long the rest of it is.  `tail' bytes of another kind come after them.  *)
(***************************************************************************)
EXTENDS Integers, Sequences, FiniteSetsExt

CONSTANTS
    RecordHeader,   \* RECORD_HEADER
    MessageHeader,  \* HANDSHAKE_HEADER
    MaxRecord,      \* MAX_RECORD
    Streams         \* what a client may send: [ends, tail, declared]

PeekBytes == MaxRecord + RecordHeader

ASSUME HelloAssumption ==
    /\ RecordHeader \in Nat \ {0}
    /\ MessageHeader \in Nat \ {0}
    /\ MaxRecord \in Nat

VARIABLES
    stream,   \* what the client sends on this connection
    arrived,  \* how much of it is in the socket
    fin,      \* the client's side is closed
    late,     \* the deadline for the hello has passed
    listed,   \* what never_decrypt says of the name now
    any,      \* some host is listed
    always,   \* this one has been, since the connection was accepted
    never,    \* it has not been, since then
    phase     \* where the connection is

clientVars == <<stream, arrived, fin, late>>
nameVars == <<listed, any, always, never>>
helloVars == <<clientVars, nameVars, phase>>

-----------------------------------------------------------------------------
(* assemble(), of the first n bytes of a stream. *)

EndOf(s, k) == IF k = 0 THEN 0 ELSE s.ends[k]

PayloadOf(s, k) == EndOf(s, k) - EndOf(s, k - 1) - RecordHeader

Size(s) == EndOf(s, Len(s.ends)) + s.tail

(* No record ends before its header does. *)
ASSUME StreamAssumption ==
    \A s \in Streams :
        /\ s.ends \in Seq(Nat) /\ s.tail \in Nat /\ s.declared \in Nat
        /\ \A i, j \in 0 .. Len(s.ends) :
                i <= j => EndOf(s, i) - i * RecordHeader <= EndOf(s, j) - j * RecordHeader

(* The handshake records that are there whole. *)
Whole(s, n) == Max({k \in 0 .. Len(s.ends) : EndOf(s, k) <= n})

Consumed(s, n) == EndOf(s, Whole(s, n))

Payload(s, n) == Consumed(s, n) - Whole(s, n) * RecordHeader

(* The header of another can be read. *)
Begun(s, n) == Whole(s, n) < Len(s.ends) /\ Consumed(s, n) + RecordHeader <= n

(* A record is longer than a record may be. *)
Absurd(s, n) ==
    \E k \in 1 .. Whole(s, n) + (IF Begun(s, n) THEN 1 ELSE 0) : PayloadOf(s, k) > MaxRecord

(* have_hello(). *)

NotTls(s, n) == n > 0 /\ (s.ends = <<>> \/ Absurd(s, n))

Needed(s) == MessageHeader + s.declared

Complete(s, n) == n > 0 /\ ~NotTls(s, n) /\ Payload(s, n) >= Needed(s)

(* Mutant: the record that has begun is taken to carry none of it. *)
WantWithBegun(s, n) ==
    LET missing == Needed(s) - Payload(s, n) IN
    IF Payload(s, n) < MessageHeader
    THEN IF Begun(s, n) THEN EndOf(s, Whole(s, n) + 1) ELSE Consumed(s, n) + RecordHeader
    ELSE (IF Begun(s, n) THEN EndOf(s, Whole(s, n) + 1) ELSE Consumed(s, n))
            + RecordHeader + missing

(* How many bytes the socket must hold at least, for a hello that is neither
   complete nor refused. *)
Want(s, n) ==
    LET missing == Needed(s) - Payload(s, n) IN
    IF Payload(s, n) < MessageHeader
    THEN IF Begun(s, n) THEN EndOf(s, Whole(s, n) + 1) ELSE Consumed(s, n) + RecordHeader
    ELSE IF Begun(s, n)
         THEN Max({EndOf(s, Whole(s, n) + 1), Consumed(s, n) + missing})
         ELSE Consumed(s, n) + RecordHeader + missing

-----------------------------------------------------------------------------
HelloInit ==
    /\ stream \in Streams
    /\ arrived = 0
    /\ fin = FALSE
    /\ late = FALSE
    /\ listed \in BOOLEAN
    /\ any \in {b \in BOOLEAN : listed => b}
    /\ always = listed
    /\ never = ~listed
    /\ phase = "accepted"

(* The client, the clock, and the lists.  Once the connection is decided upon
   they are of no more interest. *)
Deciding == phase \in {"accepted", "peeking", "handshake"}

Arrive ==
    /\ Deciding
    /\ ~fin
    /\ \E n \in arrived + 1 .. Size(stream) : arrived' = n
    /\ UNCHANGED <<stream, fin, late, nameVars, phase>>

ClientCloses ==
    /\ Deciding
    /\ ~fin
    /\ fin' = TRUE
    /\ UNCHANGED <<stream, arrived, late, nameVars, phase>>

Deadline ==
    /\ phase = "peeking"
    /\ ~late
    /\ late' = TRUE
    /\ UNCHANGED <<stream, arrived, fin, nameVars, phase>>

(* A refresh, a host learned or forgotten. *)
ListsChange ==
    /\ Deciding
    /\ \E l, a \in BOOLEAN :
        /\ l => a
        /\ listed' = l
        /\ any' = a
        /\ always' = (always /\ l)
        /\ never' = (never /\ ~l)
    /\ UNCHANGED <<clientVars, phase>>

-----------------------------------------------------------------------------
Goes(to) == phase' = to /\ UNCHANGED <<clientVars, nameVars>>

(* serve(): the peek is skipped when nothing at all is listed. *)
Accept ==
    /\ phase = "accepted"
    /\ Goes(IF any THEN "peeking" ELSE "handshake")

(* peek_server_name(), woken again and again. *)

Read == Min({arrived, PeekBytes})

(* There is something to read, and it is not enough. *)
Wanting == Read > 0 /\ ~NotTls(stream, Read) /\ ~Complete(stream, Read)

(* Mutant: the deadline is left to timeout_at, which finds the peek ready. *)
PeekLateWhenEmpty == phase = "peeking" /\ late /\ arrived = 0 /\ Goes("handshake")

PeekLate == phase = "peeking" /\ late /\ Goes("handshake")

PeekClosed ==
    /\ phase = "peeking" /\ ~late
    /\ fin /\ arrived = 0
    /\ Goes("handshake")

PeekNotTls ==
    /\ phase = "peeking" /\ ~late
    /\ NotTls(stream, Read)
    /\ Goes("handshake")

(* Mutant: a hello that just fits is taken to be too large. *)
PeekTooLargeToFill ==
    /\ phase = "peeking" /\ ~late
    /\ Wanting
    /\ Want(stream, Read) >= PeekBytes
    /\ Goes("handshake")

PeekTooLarge ==
    /\ phase = "peeking" /\ ~late
    /\ Wanting
    /\ Want(stream, Read) > PeekBytes
    /\ Goes("handshake")

PeekComplete ==
    /\ phase = "peeking" /\ ~late
    /\ Complete(stream, Read)
    /\ Goes(IF listed THEN "splicing" ELSE "handshake")

(* splice(): carried to the origin, unless it cannot be reached or its name
   leads back here; the end of the relay is the end of the connection. *)
Spliced == phase = "splicing" /\ Goes("spliced")

SpliceEnds == phase \in {"splicing", "spliced"} /\ Goes("closed")

(* BoringSSL has the hello, however it was framed. *)
HelloRead ==
    /\ phase = "handshake"
    /\ Complete(stream, arrived)

(* Mutant: the callback takes the peek's word for it. *)
DecryptUnasked == HelloRead /\ Goes("decrypted")

Decrypt == HelloRead /\ ~listed /\ Goes("decrypted")

(* It is too late to splice. *)
Refuse == HelloRead /\ listed /\ Goes("refused")

(* HANDSHAKE_TIMEOUT, or the client gave up. *)
HandshakeFails == phase = "handshake" /\ Goes("closed")

Serve ==
    \/ Accept
    \/ PeekLate \/ PeekClosed \/ PeekNotTls \/ PeekTooLarge \/ PeekComplete
    \/ Spliced \/ SpliceEnds \/ Decrypt \/ Refuse \/ HandshakeFails

HelloNext == Arrive \/ ClientCloses \/ Deadline \/ ListsChange \/ Serve

HelloSpec == HelloInit /\ [][HelloNext]_helloVars

(* The task is polled, and its timers fire. *)
HelloFairSpec == HelloSpec /\ WF_helloVars(Serve) /\ WF_helloVars(Deadline)

-----------------------------------------------------------------------------
(* What a peek shows of a hello that is there whole. *)
Shown == Min({Size(stream), PeekBytes})

(* "The backstop for the whole passthrough promise".  A host that was listed all
   along is passed through, however its hello was framed and delivered, unless
   the hello was late or does not fit a peek; and then it is refused.  It is
   never decrypted, which tcp.rs:970 and passthrough.rs:42 give as what becomes
   of a hello that is too large.  One that never was listed is neither passed
   through nor refused. *)
ListsAreKeptTo ==
    /\ always =>
        /\ phase # "decrypted"
        /\ phase = "refused" => late \/ ~Complete(stream, Shown)
    /\ never => phase \notin {"splicing", "spliced", "refused"}

(* have_hello(): what it asks for "stays a bound and never a guess".  It is
   more than there is, and no more than any front of the stream that holds
   the whole hello, for "over-estimating makes it give up on a hello that was
   still arriving".  That is of a hello in any number of records, which
   assemble() joins: tcp.rs:220 says that the peek parses only the first. *)
WantIsABound ==
    Wanting =>
        /\ stream.tail = 0 => Want(stream, Read) > Read
        /\ \A n \in Read .. Size(stream) : Complete(stream, n) => Want(stream, Read) <= n

(* peek_server_name(): "a client that sent one byte and stalled was peeked at
   every two milliseconds for ever".  Every connection is decided upon. *)
Decided == <>(phase \in {"spliced", "decrypted", "refused", "closed"})
=============================================================================
