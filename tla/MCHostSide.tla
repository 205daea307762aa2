----------------------------- MODULE MCHostSide -----------------------------
(* What a program keeps of its modules, one part of it in a behaviour:      *)
(* leases with the registry of the objects they export, a service slot, the *)
(* configuration of a module, its clients; and the rule it subscribes with, *)
(* put together clause by clause as the builder and `MatchRule::parse` do.  *)
EXTENDS RuntimeLease, ServiceSlot, Reconfigure, ClientBinding, MatchRule

CONSTANTS Clauses, MaxClauses

VARIABLES part, rule, clauses

otherVars == <<slotVars, configVars, clientVars>>

hostVars == <<part, rule, clauses, vars, otherVars>>

MCClauses ==
    {[key |-> "type", value |-> "signal"], [key |-> "sender", value |-> "s1"],
     [key |-> "interface", value |-> "i1"], [key |-> "interface", value |-> "i2"],
     [key |-> "member", value |-> "m1"],
     [key |-> "path", value |-> <<"a", "b">>], [key |-> "path", value |-> <<"ab">>],
     [key |-> "path_namespace", value |-> <<>>],
     [key |-> "path_namespace", value |-> <<"a">>]}

MCPathOf == [r \in Registrants |-> CHOOSE p \in Paths : TRUE]

\* The first state of the parts that do not run.
Dormant(p) ==
    /\ p # "lease" => owner = NONE
    /\ p # "config" => strategy = "member"

HostInit ==
    /\ part \in {"lease", "slot", "config", "client", "rule"}
    /\ Init /\ SlotInit /\ ConfigInit /\ ClientInit
    /\ rule = EmptyRule /\ clauses = 0
    /\ Dormant(part)

RuleNext ==
    /\ clauses < MaxClauses /\ clauses' = clauses + 1
    /\ \E c \in Clauses : rule' = Constrain(rule, c.key, c.value)

HostNext ==
    /\ UNCHANGED part
    /\ \/ part = "lease" /\ Next /\ UNCHANGED <<rule, clauses, otherVars>>
       \/ part = "slot" /\ SlotNext /\ UNCHANGED <<rule, clauses, vars, configVars, clientVars>>
       \/ part = "config" /\ ConfigNext /\ UNCHANGED <<rule, clauses, vars, slotVars, clientVars>>
       \/ part = "client" /\ ClientNext /\ UNCHANGED <<rule, clauses, vars, slotVars, configVars>>
       \/ part = "rule" /\ RuleNext /\ UNCHANGED <<vars, otherVars>>

\* The fairness of RuntimeLease, for the behaviours it runs in.
HostFairness ==
    /\ \A l \in Leases : WF_vars(part = "lease" /\ Task(l))
    /\ \A r \in Registrants : WF_vars(part = "lease" /\ Registry(r))

HostSpec == HostInit /\ [][HostNext]_hostVars /\ HostFairness

(* What the client writes is what the broker reads: `rule_to_wire` and     *)
(* `parse` are inverse on every rule a builder can make.                   *)
RoundTrip == ~ParseError(ToWire(rule)) /\ Parse(ToWire(rule)) = rule
=============================================================================
