---------------------------- MODULE MCH3Response ----------------------------
(***************************************************************************)
(* Instances of H3Response.tla, and the refinement of ResponseRelay.tla.   *)
(***************************************************************************)
EXTENDS H3Response

CONSTANT Watched   \* the stream whose response is compared with the relay

ASSUME WatchedAssumption == Watched \in Streams

Symmetry == Permutations(Workers)

(* The first request of a stream, as the promise made for it.  The worker is
   ahead of the client by the limit, or by one piece when that is larger. *)
Relay == INSTANCE ResponseRelay WITH
    Window <- Max(Sizes \cup {Limit}),
    made <- produced[<<Watched, 1>>],
    whole <- <<Watched, 1>> \in ended,
    received <- [i \in DOMAIN wire[Watched] |-> wire[Watched][i][2]],
    finished <- stage[Watched] = "fin"

(* The pipeline relays an answer as ResponseRelay promises. *)
ImplementsRelay == Relay!RelaySpec
=============================================================================
