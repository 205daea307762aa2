----------------------------- MODULE MCCallFlow -----------------------------
(* Instances of the call flow: who calls whom, and who is wedged. *)
EXTENDS CallFlow

CONSTANTS kernel, service, client, stuck

(* Two peers that call each other; a wedged one, its caller and a pair that
   has nothing to do with them. *)
Flows == {{<<client, service>>, <<service, client>>},
          {<<kernel, stuck>>, <<client, service>>}}

Stuck == {{<<kernel, stuck>>}}
=============================================================================
