---------------------------- MODULE MCOriginCache ----------------------------
(***************************************************************************)
(* Instances of OriginCache.tla.                                           *)
(***************************************************************************)
EXTENDS OriginCache, TLC

(* Public for a while, with a validator and without one; one person's. *)
MCPolicies ==
    {[public |-> TRUE, life |-> 1, tag |-> TRUE],
     [public |-> TRUE, life |-> 1, tag |-> FALSE],
     [public |-> FALSE, life |-> 0, tag |-> TRUE]}

Symmetry == Permutations(Workers)
=============================================================================
