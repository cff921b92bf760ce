------------------------------ MODULE Sanitizer ------------------------------
(***************************************************************************)
(* What tether/sanitizer.py does to a text.  Texts are told apart by what a *)
(* pass of the sanitiser finds in them: nothing ("plain"); something, in a  *)
(* text that no pass has gone over ("instructions"); or something again, in *)
(* what a pass has left ("remains").                                       *)
(***************************************************************************)

Text == {"plain", "instructions", "remains"}

\* What servers and models bring: no pass has gone over it.
Arriving == {"plain", "instructions"}

\* sanitize_tool_output: what one pass may leave.  The patterns are applied once
\* each, in their order, so that what a later one redacts can leave a text that
\* an earlier one matches.
Sanitized(x) == IF x = "plain" THEN {"plain"} ELSE {"plain", "remains"}
=============================================================================
