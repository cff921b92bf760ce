---------------------------- MODULE PolicyCompiler ----------------------------
(***************************************************************************)
(* The rules of a user policy: YAML (policies/schema.py) that compiler.py   *)
(* renders as Rego, as the engine then reads it.  Compiled files land in    *)
(* one package, so a user policy is the set of the rules of all of them.    *)
(*                                                                         *)
(* A rule is a record:                                                     *)
(*   action, role   sets of names, {} when the rule names none             *)
(*   scope          a set of scopes                                        *)
(*   args           a set of tests of args.amount, [op, n]; a text is      *)
(*                  named by a number, as in an input whose amount is one  *)
(*   then           "allow", "deny" or "hitl"                              *)
(* A rule whose `when' is empty is rendered with an empty body, which no    *)
(* engine loads.  The tier of risk that a rule may name is read by nobody.  *)
(***************************************************************************)
EXTENDS MainPolicy

Ops == {"gt", "gte", "lt", "lte", "eq", "in", "not_in"}

PolicyRules == {r \in [action : SUBSET STRING, role : SUBSET STRING, scope : SUBSET STRING,
                       args : SUBSET [op : Ops, n : Int], then : {"allow", "deny", "hitl"}] :
                  r.action # {} \/ r.role # {} \/ r.scope # {} \/ r.args # {}}

\* `in' (and `contains') compares with texts only.
IsText(in, n) == in.amount.sort = "above" /\ in.amount.n = n

\* An absent argument makes a test undefined, and what negates one true.
Passes(in, test) ==
    CASE test.op = "gt"     -> AmountOver(in, test.n)
      [] test.op = "gte"    -> AmountOver(in, test.n) \/ AmountIn(in, test.n, test.n)
      [] test.op = "lt"     -> AmountUnder(in, test.n)
      [] test.op = "lte"    -> AmountUnder(in, test.n) \/ AmountIn(in, test.n, test.n)
      [] test.op = "eq"     -> AmountIn(in, test.n, test.n)
      [] test.op = "in"     -> IsText(in, test.n)
      [] test.op = "not_in" -> ~IsText(in, test.n)

\* The lines of the body, all of which must hold.
Applies(rule, in) ==
    /\ rule.action # {} => in.action \in rule.action
    /\ rule.role # {} => in.role \in rule.role
    /\ rule.scope \subseteq in.scopes
    /\ \A test \in rule.args : Passes(in, test)

\* As a bug: a rule that allows ends the evaluation.
BugSays(rules, in) ==
    LET thens == {rule.then : rule \in {r \in rules : Applies(r, in)}}
    IN IF "allow" \in thens THEN {"allow"} ELSE thens

\* What the package kitelogik.userpolicy says of an input.
Says(rules, in) == {rule.then : rule \in {r \in rules : Applies(r, in)}}
=============================================================================
