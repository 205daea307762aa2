------------------------------ MODULE MCLoading ------------------------------
(* How modules get loaded, one part of it in a behaviour:                   *)
(*  - one module and two tasks that ask for it, in different ways and in    *)
(*    each order, for every source of it; the host may load it itself too;  *)
(*  - the modules of a directory, ordered and loaded;                       *)
(*  - the first artifact of a release that the host admits.                 *)
EXTENDS Resolution, DirectoryLoad, FirstAdmitted

CONSTANTS a1, a2

VARIABLE part

loadingVars == <<part, resolutionVars, directoryVars, admittedVars>>

Kinds(x, y) == (a1 :> x) @@ (a2 :> y)

MCScenes ==
    {[source |-> s, kind |-> Kinds("factory", k), direct |-> TRUE] :
        s \in {"local", "pinned"}, k \in {"bounded", "factory"}}
    \cup {[source |-> "local", kind |-> Kinds("single", "plain"), direct |-> TRUE],
          [source |-> "linked", kind |-> Kinds("plain", "bounded"), direct |-> FALSE]}

-----------------------------------------------------------------------------
(* Directories of up to three modules.                                     *)

Manifests(optional) ==
    [name : {"m1"}, bus : {"b1"}, provides : {{}, {"i"}, {"j"}},
     requires : SUBSET {"i", "j"}, optional : optional]

Distinct(ms) == [i \in DOMAIN ms |-> [ms[i] EXCEPT !.name = <<"m", i>>, !.bus = <<"b", i>>]]

\* Three modules, the middle one with an optional requirement, all distinct;
\* or two of them with the same name or bus name.
MCBatches ==
    {Distinct(<<x, y, z>>) : x, z \in Manifests({{}}), y \in Manifests({{"i"}})}
    \cup {[Distinct(<<x, y, z>>) EXCEPT ![n].name = <<"m", 1>>, ![n + 1].bus = <<"b", 1>>] :
            x \in Manifests({{}}), y \in Manifests({{"j"}}), z \in Manifests({{}}), n \in {1, 2}}
    \cup {<<>>}

NoDirectory ==
    /\ batch = <<>> /\ present = {} /\ phase = "over" /\ pending = {} /\ available = {}
    /\ order = <<>> /\ unresolved = <<>> /\ loaded = <<>>

NoRelease ==
    /\ bundle = <<>> /\ cache = <<>> /\ callbacks = FALSE /\ unprepared = 0
    /\ at = <<"cache", 1>> /\ attempts = <<>> /\ misplaced = TRUE /\ found = FALSE
    /\ outcome = "failed"

-----------------------------------------------------------------------------
LoadingInit ==
    \/ part = "resolution" /\ ResolutionInit /\ NoDirectory /\ NoRelease
    \/ /\ part \in {"directory", "release"}
       /\ ResolutionInit /\ plan = CHOOSE s \in Scenes : TRUE
       /\ IF part = "directory" THEN DirectoryInit /\ NoRelease
                                ELSE NoDirectory /\ AdmittedInit

LoadingNext ==
    \/ part = "resolution" /\ ResolutionNext /\ UNCHANGED <<part, directoryVars, admittedVars>>
    \/ part = "directory" /\ DirectoryNext /\ UNCHANGED <<part, resolutionVars, admittedVars>>
    \/ part = "release" /\ AdmittedNext /\ UNCHANGED <<part, resolutionVars, directoryVars>>

\* The fairness of Resolution, for the behaviours it runs in.
LoadingFairness ==
    /\ WF_resolutionVars(part = "resolution" /\ ResolverStep)
    /\ \A c \in Askers : WF_resolutionVars(part = "resolution" /\ CallerStep(c))

LoadingSpec == LoadingInit /\ [][LoadingNext]_loadingVars /\ LoadingFairness
=============================================================================
