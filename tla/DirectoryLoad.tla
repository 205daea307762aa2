---------------------------- MODULE DirectoryLoad ----------------------------
(***************************************************************************)
(* Loading the modules of a directory: the order in which their manifests  *)
(* allow it (resolve in module/resolve.rs) and the loads themselves        *)
(* (ModuleHost::load_dir_inner), any of which may fail.  Files that are    *)
(* skipped, already loaded or refused when inspected are not in the batch. *)
(***************************************************************************)
EXTENDS Naturals, Sequences, FiniteSets, Functions

CONSTANTS
    Interfaces,  \* interfaces that modules provide and require
    Batches      \* sequences of manifests, in the order of their files

\* name and bus may coincide with another manifest's.
IsManifest(m) ==
    /\ {"name", "bus", "provides", "requires", "optional"} = DOMAIN m
    /\ m.provides \subseteq Interfaces /\ m.requires \subseteq Interfaces
    /\ m.optional \subseteq Interfaces

ASSUME DirectoryAssumption ==
    \A b \in Batches : \A i \in DOMAIN b : IsManifest(b[i])

VARIABLES
    batch,      \* the manifests
    present,    \* interfaces of the modules that were loaded before
    phase,      \* "order", then "load", then "over"
    pending,    \* resolve: indices not placed yet; its list is in file order
    available,  \* resolve: interfaces the order provides so far
    order,      \* LoadOrder::order
    unresolved, \* LoadOrder::unresolved: index -> reason
    loaded      \* indices of the modules loaded

directoryVars == <<batch, present, phase, pending, available, order, unresolved, loaded>>

ProvidedBy(is) == UNION {batch[i].provides : i \in is}

Duplicates(b) ==
    {i \in DOMAIN b : \E j \in DOMAIN b \ {i} : b[i].name = b[j].name \/ b[i].bus = b[j].bus}

DirectoryInit ==
    /\ batch \in Batches
    /\ present \in SUBSET Interfaces
    /\ phase = "order"
    /\ pending = DOMAIN batch \ Duplicates(batch)
    /\ available = present
    /\ order = <<>>
    /\ unresolved = [i \in Duplicates(batch) |-> "duplicate"]
    /\ loaded = <<>>

-----------------------------------------------------------------------------
(* resolve: one pass of its loop.                                          *)

\* Interfaces that must be there: those not declared optional.
Needs(i) == batch[i].requires

Declared == ProvidedBy(pending)

IsReady(i) == Needs(i) \subseteq available

Blocked_Unmet(i) == ~(Needs(i) \subseteq available)

\* No pending module can provide what it lacks.
Blocked(i) == ~(Needs(i) \subseteq available \cup Declared)

\* The list of pending modules is searched from its front.
FirstOf(is) == {i \in is : \A k \in is : i <= k}

Ready == {i \in pending : IsReady(i)}

Stuck == {i \in pending : Blocked(i)}

Place ==
    /\ phase = "order"
    /\ \E i \in FirstOf(Ready) :
        /\ pending' = pending \ {i}
        /\ available' = available \cup batch[i].provides
        /\ order' = Append(order, i)
    /\ UNCHANGED <<batch, present, phase, unresolved, loaded>>

Reason(is, why) ==
    unresolved' = [i \in DOMAIN unresolved \cup is |-> IF i \in is THEN why ELSE unresolved[i]]

NoProvider ==
    /\ phase = "order" /\ Ready = {}
    /\ \E i \in FirstOf(Stuck) :
        /\ pending' = pending \ {i}
        /\ Reason({i}, "no provider")
    /\ UNCHANGED <<batch, present, phase, available, order, loaded>>

\* What is left depends on each other; nothing left ends the loop.
Cycle ==
    /\ phase = "order" /\ Ready = {} /\ Stuck = {}
    /\ Reason(pending, "cycle")
    /\ pending' = {}
    /\ phase' = "load"
    /\ UNCHANGED <<batch, present, available, order, loaded>>

-----------------------------------------------------------------------------
(* load_dir_inner: the loads, in that order.                               *)

Provided == present \cup ProvidedBy(Range(loaded))

\* ensure_dependencies asks what is loaded, not what was ordered: a module
\* whose provider failed to load is refused.
LoadNext ==
    /\ phase = "load" /\ order # <<>>
    /\ order' = Tail(order)
    /\ \/ Needs(Head(order)) \subseteq Provided /\ loaded' = Append(loaded, Head(order))
       \/ UNCHANGED loaded
    /\ UNCHANGED <<batch, present, phase, pending, available, unresolved>>

Loads ==
    /\ phase = "load" /\ order = <<>>
    /\ phase' = "over"
    /\ UNCHANGED <<batch, present, pending, available, order, unresolved, loaded>>

DirectoryNext == Place \/ NoProvider \/ Cycle \/ LoadNext \/ Loads

DirectorySpec == DirectoryInit /\ [][DirectoryNext]_directoryVars

-----------------------------------------------------------------------------
(* Properties.                                                             *)

Eligible == DOMAIN batch \ Duplicates(batch)

\* A set of modules that holds every one whose needs it meets, and one that
\* between them provide what they need.
Closed(S) ==
    \A i \in Eligible : batch[i].requires \subseteq present \cup ProvidedBy(S) => i \in S
Sustained(S) ==
    \A i \in S : batch[i].requires \subseteq present \cup ProvidedBy(S)

\* The least of the former and the greatest of the latter.
Loadable == {i \in Eligible : \A S \in SUBSET Eligible : Closed(S) => i \in S}

Supported == UNION {S \in SUBSET Eligible : Sustained(S)}

(* The order is complete and its reasons are true (resolve): it holds the  *)
(* modules that can be loaded at all, once; a module is said to be in a    *)
(* dependency cycle when it could be loaded if others like it were there,  *)
(* and to have no provider when nobody, waiting or not, gives what it or   *)
(* those it waits for lack.                                                *)
OrderIsComplete ==
    [][phase = "order" /\ phase' = "load" =>
         LET Because(why) == {i \in DOMAIN unresolved' : unresolved'[i] = why}
         IN /\ Range(order) = Loadable /\ Len(order) = Cardinality(Loadable)
            /\ Because("cycle") = Supported \ Loadable
            /\ Because("no provider") = Eligible \ Supported
            /\ Because("duplicate") = Duplicates(batch)]_directoryVars
=============================================================================
