------------------------- MODULE MCCredentialBroker --------------------------
(***************************************************************************)
(* CredentialBroker on small sets for TLC.  Session ids and scope names    *)
(* are interchangeable, and so are token ids.                              *)
(***************************************************************************)
EXTENDS CredentialBroker, TLC

Symmetry == Permutations(Tokens) \cup Permutations(Sessions) \cup Permutations(Scopes)
=============================================================================
