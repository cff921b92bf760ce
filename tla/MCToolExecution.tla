--------------------------- MODULE MCToolExecution ---------------------------
(***************************************************************************)
(* ToolExecution with two pinned servers and one without a hash, which      *)
(* takes over a tool that all three list; a session that trusts its writes *)
(* and one that does not.                                                  *)
(***************************************************************************)
EXTENDS ToolExecution, TLC

MCBom == << [name |-> "crm", tools |-> {"lookup", "search"}, pinned |-> TRUE],
            [name |-> "web", tools |-> {"search"}, pinned |-> TRUE],
            [name |-> "dev", tools |-> {"search"}, pinned |-> FALSE] >>

MCPolicy == [s \in Sessions |-> IF s = "worker" THEN {"DELEGATED"} ELSE {"INTERNAL", "EXTERNAL"}]

Symmetry == Permutations(Verifiers)
=============================================================================
