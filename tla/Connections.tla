---------------------------- MODULE Connections ----------------------------
(***************************************************************************)
(* How a QUIC connection comes into the ClientMap of src/proxy/src/main.rs *)
(* and leaves it: recv_packet, the tokens of address validation, the ids   *)
(* of connections, and the retain at the end of a pass.                    *)
(*                                                                         *)
(* A client addresses its first Initial to an id it chose.  It is answered *)
(* with a Retry that carries a token and the id the proxy derived from the *)
(* client's, and comes again with both.  The network loses, repeats and    *)
(* delays packets: what was sent may arrive at any later time, any number  *)
(* of times or never, also in the time of a later process.                 *)
(***************************************************************************)
EXTENDS Clock

CONSTANTS
    Addresses,   \* a client may come from another after a while
    Firsts,      \* the ids that clients choose
    TokenTtl,    \* TOKEN_TTL_SECONDS
    MaxRetries,  \* bounds the Retries sent
    MaxEpochs    \* bounds the processes

ASSUME ConnectionsAssumption ==
    /\ TokenTtl \in Nat
    /\ {MaxRetries, MaxEpochs} \subseteq Nat \ {0}

VARIABLES
    epoch,       \* which process it is: token_key() is of one process
    initials,    \* Initials that were sent: [from, dcid, token]
    retries,     \* Retries that were sent: [to, token, at]
    connections  \* the ClientMap: [key, odcid, peer, since]

connectionVars == <<epoch, initials, retries, connections>>

NoToken == [is |-> "none"]

(* derive_scid: the same id from the same id.  What is derived from two is not
   the same, and is none that a client would choose. *)
Chosen(d) == [by |-> d, derived |-> 0]

Derived(id) == [id EXCEPT !.derived = @ + 1]

ConnectionInit ==
    /\ epoch = 1
    /\ initials = {}
    /\ retries = {}
    /\ connections = {}

-----------------------------------------------------------------------------
(* The clients. *)

Begins(a, d) ==
    /\ initials' = initials \cup {[from |-> a, dcid |-> Chosen(d), token |-> NoToken]}
    /\ UNCHANGED <<epoch, retries, connections>>

(* The Retry reached its client, which answers from where it is by then: to the
   id in the Retry and, against the protocol, to the one it first chose.  Either
   may get lost. *)
ComesAgain(r, a) ==
    /\ initials' = initials \cup
            {[from |-> a, dcid |-> id, token |-> r.token] :
                id \in {Derived(r.token.odcid), r.token.odcid}}
    /\ UNCHANGED <<epoch, retries, connections>>

-----------------------------------------------------------------------------
(* mint_token, and the Retry that carries it. *)
Token(odcid, from) ==
    [is |-> "token", odcid |-> odcid, signed |-> from, until |-> now + TokenTtl, by |-> epoch]

(* Mutant: the tag covers everything but the address. *)
ValidFromAnywhere(token, from) ==
    /\ token.by = epoch
    /\ now <= token.until

(* validate_token: signed by this process, for this address, and not expired. *)
Valid(token, from) ==
    /\ token.by = epoch
    /\ token.signed = from
    /\ now <= token.until

(* find_key, with the id as it is and with the one derived from it: the packet
   is for a connection that there is, and may be a repeated first Initial. *)
HasConnection(dcid) == \E c \in connections : c.key \in {dcid, Derived(dcid)}

SendRetry(i) ==
    /\ ~HasConnection(i.dcid) /\ i.token = NoToken
    /\ Cardinality(retries) < MaxRetries
    /\ retries' = retries \cup {[to |-> i.from, token |-> Token(i.dcid, i.from), at |-> now]}
    /\ UNCHANGED <<epoch, initials, connections>>

(* quiche::accept is told that the address was verified. *)
AcceptConnection(i) ==
    /\ ~HasConnection(i.dcid) /\ i.token # NoToken
    /\ Valid(i.token, i.from)
    /\ connections' = connections \cup
            {[key |-> i.dcid, odcid |-> i.token.odcid, peer |-> i.from, since |-> now]}
    /\ UNCHANGED <<epoch, initials, retries>>

(* clients.retain: quiche says that it is closed. *)
ConnectionCloses(c) ==
    /\ connections' = connections \ {c}
    /\ UNCHANGED <<epoch, initials, retries>>

(* Nothing of this is on disk. *)
ConnectionsRestart ==
    /\ epoch < MaxEpochs
    /\ epoch' = epoch + 1
    /\ connections' = {}
    /\ UNCHANGED <<initials, retries>>

ConnectionNext ==
    \/ \E a \in Addresses, d \in Firsts : Begins(a, d)
    \/ \E r \in retries, a \in Addresses : ComesAgain(r, a)
    \/ \E i \in initials : SendRetry(i) \/ AcceptConnection(i)
    \/ \E c \in connections : ConnectionCloses(c)
    \/ ConnectionsRestart

-----------------------------------------------------------------------------
(* The connection has the id that was in the Retry. *)
AsGiven(c) == c.key = Derived(c.odcid)

(* "Recover the original connection id from a token, rejecting anything we did
   not sign, that arrived from another address, or that has expired", and
   "repeated Initials map to one connection".  Whatever is repeated, delayed or
   comes from elsewhere, a connection is with an address that this process
   had sent a Retry to shortly before, about the id its client first chose; and
   there is one connection for that, as long as its client answers to the id in
   the Retry.  recv_packet adopts the id in the packet and does not compare it
   with the one it gave, so one that answers to another has one more. *)
ConnectionsAreVouchedFor ==
    /\ \A c \in connections : \E r \in retries :
        /\ r.to = c.peer
        /\ r.token.odcid = c.odcid
        /\ r.token.by = epoch
        /\ r.at <= c.since /\ c.since <= r.at + TokenTtl
    /\ \A c, d \in connections : c.odcid = d.odcid /\ AsGiven(c) /\ AsGiven(d) => c = d
=============================================================================
