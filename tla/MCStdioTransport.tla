--------------------------- MODULE MCStdioTransport ---------------------------
(***************************************************************************)
(* StdioTransport on small sets for TLC.                                   *)
(***************************************************************************)
EXTENDS StdioTransport

=============================================================================
