------------------------------ MODULE BodyQueue ------------------------------
(***************************************************************************)
(* Queues of the pieces of a body: Pending::chunks and body_len of         *)
(* src/proxy/src/main.rs, the channel of src/proxy/src/body.rs.            *)
(*                                                                         *)
(* The bytes of a body are numbered from 1, and a piece goes from the byte *)
(* after `from' to the byte `to'.                                          *)
(***************************************************************************)
EXTENDS Integers, Sequences, FiniteSets

CONSTANT BodyBytes   \* the longest body, which bounds what is produced or sent

ASSUME BodyAssumption == BodyBytes \in Nat

Size(c) == c.to - c.from

(* Each byte that is queued, as the place of its piece and its number: one
   that is queued twice is there twice. *)
BytesOf(pieces) ==
    {p \in (DOMAIN pieces) \X (1 .. BodyBytes) :
        pieces[p[1]].from < p[2] /\ p[2] <= pieces[p[1]].to}

BodyLen(pieces) == Cardinality(BytesOf(pieces))
=============================================================================
