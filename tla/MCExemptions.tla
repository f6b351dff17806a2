---------------------------- MODULE MCExemptions ----------------------------
(***************************************************************************)
(* Instances of Exemptions.tla.                                            *)
(***************************************************************************)
EXTENDS Exemptions

(* A list, another, and a page that is none. *)
MCTexts == {{}, {"a"}, {"b"}}
=============================================================================
