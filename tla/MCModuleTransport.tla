-------------------------- MODULE MCModuleTransport --------------------------
(* An instance of the module transport: what the broker sends. *)
EXTENDS ModuleTransport

CONSTANTS s1, s2

EarlyThenCall == <<"early", "call">>
=============================================================================
