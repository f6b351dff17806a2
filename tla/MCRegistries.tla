----------------------------- MODULE MCRegistries -----------------------------
(***************************************************************************)
(* An instance of Registries.tla.                                          *)
(***************************************************************************)
EXTENDS Registries

(* A ladder whose third floor is written above its second. *)
MCFloors == <<12, 6, 8, 3>>
=============================================================================
