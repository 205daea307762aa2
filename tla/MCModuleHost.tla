---------------------------- MODULE MCModuleHost ----------------------------
(* Bounded instances of ModuleHost: one module under two overlapping control *)
(* calls and the host's shutdown; two libraries that name the same module,   *)
(* loaded while two peers want to be its controller; two modules that want   *)
(* one bus name, of which the first is stopped.                              *)
EXTENDS ModuleHost

CONSTANTS f1, f2, c1, c2

Busy ==
    [files |-> {f1}, names |-> [x \in {f1} |-> [name |-> "n", bus |-> "w"]], managed |-> {f1},
     callers |-> {c1}, calls |-> 2, quits |-> TRUE, control |-> "permissive"]

SameName ==
    [files |-> {f1, f2}, names |-> [x \in {f1, f2} |-> [name |-> "n", bus |-> x]],
     managed |-> {f1}, callers |-> {c1, c2}, calls |-> 0, quits |-> FALSE,
     control |-> "unselected"]

SameBus ==
    [files |-> {f1, f2}, names |-> [x \in {f1, f2} |-> [name |-> x, bus |-> "w"]],
     managed |-> {f1}, callers |-> {c1}, calls |-> 1, quits |-> FALSE,
     control |-> "unselected"]

MCScenarios == {Busy, SameName, SameBus}
=============================================================================
