------------------------------- MODULE Codings -------------------------------
(***************************************************************************)
(* Content codings: src/proxy/src/encoding.rs.                             *)
(*                                                                         *)
(* A response is [status, type, declared, under, what, ..]: the media      *)
(* type, the coding that content-encoding names, the one the body really   *)
(* is under, and what the body is.  `sound' is whether the origin's body   *)
(* decodes, and to no more than the limit; `long' whether it is worth      *)
(* compressing.                                                            *)
(***************************************************************************)
EXTENDS Naturals, Sequences

Identity == "identity"

(* In the order they are preferred. *)
Supported == <<"br", "gzip">>

Known(coding) == \E i \in DOMAIN Supported : Supported[i] = coding

(* negotiate(): what is asked of the origin, and its first name is what a body
   that came in the clear is put under. *)
Best(accepts) ==
    LET taken == {i \in DOMAIN Supported : Supported[i] \in accepts}
    IN  IF taken = {} THEN Identity
        ELSE Supported[CHOOSE i \in taken : \A j \in taken : i <= j]

Compressible(type) == type \in {"html", "text", "svg"}

(* decode(): a coding that is not implemented, and a body that does not
   decode, stay as they are, header and all. *)
Decodable(resp) == Known(resp.declared) /\ resp.sound

Decoded(resp) ==
    IF Decodable(resp) THEN [resp EXCEPT !.declared = Identity, !.under = Identity]
    ELSE resp

CodingTaken(resp) == IF Decodable(resp) THEN resp.declared ELSE Identity

Under(resp, coding) == [resp EXCEPT !.declared = coding, !.under = coding]

(* encode(): the coding that decode() took goes back on. *)
Encoded(resp, coding) == IF coding = Identity THEN resp ELSE Under(resp, coding)

(* Mutant: the test is the coding that was taken, and none was. *)
EnsureUnlessTaken(accepts, resp) ==
    IF /\ resp.long
       /\ resp.status \notin {204, 304}
       /\ Compressible(resp.type)
    THEN [resp EXCEPT !.declared = Best(accepts),
                      !.under = IF @ = Identity THEN Best(accepts) ELSE "twice"]
    ELSE resp

(* ensure_compressed(): only of a body that is under none. *)
Ensured(accepts, resp) ==
    IF /\ resp.declared = Identity
       /\ resp.long
       /\ resp.status \notin {204, 304}
       /\ Compressible(resp.type)
    THEN Under(resp, Best(accepts))
    ELSE resp

(* streaming_coding(): the same for one that is never held whole, short or
   long. *)
StreamingCoding(accepts, resp) ==
    IF resp.declared = Identity /\ Compressible(resp.type) THEN Best(accepts) ELSE Identity
=============================================================================
