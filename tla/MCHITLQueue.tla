----------------------------- MODULE MCHITLQueue -----------------------------
(***************************************************************************)
(* HITLQueue on small sets for TLC.                                        *)
(***************************************************************************)
EXTENDS HITLQueue

=============================================================================
