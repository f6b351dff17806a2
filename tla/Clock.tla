-------------------------------- MODULE Clock --------------------------------
(***************************************************************************)
(* The clock that the registries of the process expire by, and what they   *)
(* do when they are full.                                                  *)
(***************************************************************************)
EXTENDS Naturals, FiniteSets

CONSTANT MaxTime   \* bounds the clock, for TLC only

ASSUME ClockAssumption == MaxTime \in Nat

VARIABLE now

Tick == now < MaxTime /\ now' = now + 1

(* What may be left of a full registry: n of its entries, none of which was
   used before one that goes.  Instants that are equal go in any order. *)
MostRecent(entries, n) ==
    {kept \in SUBSET entries :
        /\ Cardinality(kept) = n
        /\ \A k \in kept, gone \in entries \ kept : gone.used <= k.used}

(* Those left when the oldest go until at most n remain. *)
CutTo(entries, n) ==
    IF Cardinality(entries) <= n THEN {entries} ELSE MostRecent(entries, n)
=============================================================================
