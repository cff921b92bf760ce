-------------------------- MODULE MCGovernedToolbox --------------------------
(***************************************************************************)
(* GovernedToolbox, and replays of its calls, on the inputs at the          *)
(* boundaries of the policies' rules.                                      *)
(***************************************************************************)
EXTENDS PolicyReplay

Number(n) == [sort |-> "number", n |-> n]
NoAmount == [sort |-> "absent", n |-> 0]
Amounts == {Number(n) : n \in {-1, 0, 50, 51, 100, 101, 1000, 1001}}
             \cup {[sort |-> "below", n |-> 0], [sort |-> "above", n |-> 0], NoAmount}

\* A PolicyInput has neither event_type nor data_classification.
ToolCall == [event |-> "absent", action |-> "query_memory", role |-> "manager", scopes |-> {},
             depth |-> 0, sandbox |-> FALSE, amount |-> NoAmount, path |-> "none",
             foreign |-> FALSE, spent |-> "unlimited", wants |-> {}, steps |-> 0,
             blockedStep |-> FALSE, data |-> "absent"]

Refunds == {[ToolCall EXCEPT !.action = "approve_refund", !.amount = a, !.depth = d,
                             !.scopes = s, !.role = r] :
              a \in Amounts, d \in 0..3, r \in {"manager", "support_agent"},
              s \in SUBSET {"approve_refund_under_100", "approve_refund_under_1000"}}

Others == {[ToolCall EXCEPT !.action = a, !.depth = d, !.scopes = s, !.sandbox = x,
                            !.path = p, !.foreign = f, !.spent = b] :
             a \in {"read_customer_record", "query_memory", "write_memory", "execute_code",
                    "delete_account"},
             d \in {0, 3}, s \in {{}, {"read_customer", "memory_write"}}, x \in BOOLEAN,
             p \in {"none", "plain", "sensitive"}, f \in BOOLEAN, b \in {"left", "exhausted"}}

\* An event names no data classification: no caller sets one.
Event == [ToolCall EXCEPT !.data = "null"]

Plans == {[Event EXCEPT !.event = "agent.plan", !.action = "agent.plan",
                        !.steps = n, !.blockedStep = b] :
            n \in {0, 1, MaxSteps, MaxSteps + 1}, b \in BOOLEAN}

Lifecycles == {[Event EXCEPT !.event = e, !.action = e, !.depth = d,
                             !.scopes = s, !.wants = w] :
                 e \in {"agent.spawn", "agent.delegate"}, d \in 0..3,
                 s \in SUBSET {"read_customer"}, w \in SUBSET {"read_customer"}}

MCInputs == Refunds \cup Others \cup {in \in Plans : in.blockedStep => in.steps > 0} \cup Lifecycles

Rule == [action |-> {}, role |-> {}, scope |-> {}, args |-> {}, then |-> "allow"]

\* One that allows whatever has no forbidden text, or no amount, in it.
Grant == [Rule EXCEPT !.action = {"approve_refund", "delete_account"},
                      !.args = {[op |-> "not_in", n |-> 0]}]

\* One that denies small and middling refunds to some.
Limit == [Rule EXCEPT !.role = {"support_agent"}, !.args = {[op |-> "gte", n |-> 50],
                                                            [op |-> "lt", n |-> 101]},
                      !.then = "deny"]

\* One that has a human look at the use of scopes.
Review == [Rule EXCEPT !.scope = {"read_customer", "memory_write"}, !.then = "hitl"]

MCUserPolicies == {{}, {Grant}, {Limit}, {Review}, {Grant, Limit}, {Review, Grant}}
=============================================================================
