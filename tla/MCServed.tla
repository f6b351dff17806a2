------------------------------- MODULE MCServed -------------------------------
(***************************************************************************)
(* An instance of Served.tla.                                              *)
(***************************************************************************)
EXTENDS Served
=============================================================================
