---------------------------- MODULE FirstAdmitted ----------------------------
(***************************************************************************)
(* Loading the first artifact of a pinned release that the host admits     *)
(* (module/first_admitted.rs): an installer's bundle before the release    *)
(* cache, the newest artifact first, with the host's callbacks or without. *)
(***************************************************************************)
EXTENDS Naturals, Sequences, Functions

CONSTANTS
    MaxAssets,  \* artifacts of a release that can run on this host
    Places      \* what may be found at an artifact's place: see IsPlace

\* The path of an artifact's directory may be impossible to build; the bundle
\* may hold its archive or marker or nothing; a load is admitted, refused for
\* where the artifact sits or refused for what it is.
IsPlace(p) == p \in {"unbuildable", "absent", "admitted", "placement", "refused"}

ASSUME FirstAdmittedAssumption == MaxAssets \in Nat /\ \A p \in Places : IsPlace(p)

VARIABLES
    bundle,     \* asset -> its place in the bundle; <<>> without one
    cache,      \* asset -> its place in the release cache
    callbacks,  \* whether each load is given a callback binding
    unprepared, \* the attempt whose binding cannot be prepared, 0 if none
    at,         \* <<where, asset>> looked at next, or the end
    attempts,   \* what was loaded, in turn: attempt n had the n-th binding
    misplaced,  \* bundle_refused_for_placement_only
    found,      \* found_bundled
    outcome     \* "none", "failed" or, of the last attempt, "admitted" or
                \* "unretained": admitted, but the load fails all the same

admittedVars ==
    <<bundle, cache, callbacks, unprepared, at, attempts, misplaced, found, outcome>>

AdmittedInit ==
    /\ \E n \in 0 .. MaxAssets :
        /\ cache \in [1 .. n -> Places \ {"absent", "placement"}]
        /\ bundle \in [1 .. n -> Places] \cup {<<>>}
        /\ callbacks \in BOOLEAN
        /\ unprepared \in IF callbacks THEN 0 .. 2 ELSE {0}
    /\ at = <<"bundle", 1>>
    /\ attempts = <<>>
    /\ misplaced = TRUE
    /\ found = FALSE
    /\ outcome = "none"

Still == UNCHANGED <<bundle, cache, callbacks, unprepared>>

\* The host admitted the artifact.  With callbacks the binding is still to be
\* retained with the module (retain_host_callback_binding), which may be gone
\* again by now: then the whole load fails, and nothing else is tried.
Admitted == IF callbacks THEN {"admitted", "unretained"} ELSE {"admitted"}

\* Mutant: a binding that cannot be retained is like a load that was refused.
Attempt_GoesOn(place) ==
    IF callbacks /\ Len(attempts) + 1 = unprepared
    THEN outcome' = "failed" /\ UNCHANGED <<attempts, misplaced>>
    ELSE /\ attempts' = Append(attempts, at)
         /\ outcome' \in (IF place = "admitted" THEN {"admitted"} ELSE {outcome})
                           \cup (IF callbacks THEN {outcome} ELSE {})
         /\ misplaced' = IF at[1] = "bundle" /\ place = "refused" THEN FALSE ELSE misplaced

\* prepare(attempt), which may end the whole load, then the load itself.
Attempt(place) ==
    IF callbacks /\ Len(attempts) + 1 = unprepared
    THEN outcome' = "failed" /\ UNCHANGED <<attempts, misplaced>>
    ELSE /\ attempts' = Append(attempts, at)
         /\ IF place = "admitted" THEN outcome' \in Admitted ELSE UNCHANGED outcome
         /\ misplaced' = IF at[1] = "bundle" /\ place = "refused" THEN FALSE ELSE misplaced

\* The installer's bundle: an artifact that is not there is passed over.
TryBundle ==
    /\ outcome = "none" /\ at[1] = "bundle" /\ at[2] \in DOMAIN bundle
    /\ at' = <<"bundle", at[2] + 1>>
    /\ IF bundle[at[2]] \in {"unbuildable", "absent"}
       THEN UNCHANGED <<attempts, misplaced, found, outcome>>
       ELSE found' = TRUE /\ Attempt(bundle[at[2]])
    /\ Still

BundleEnds_AnyMisplaced ==
    /\ outcome = "none" /\ at[1] = "bundle" /\ at[2] \notin DOMAIN bundle
    /\ IF found /\ \A i \in DOMAIN attempts : bundle[attempts[i][2]] # "placement"
       THEN outcome' = "failed" /\ UNCHANGED at
       ELSE at' = <<"cache", 1>> /\ UNCHANGED outcome
    /\ UNCHANGED <<attempts, misplaced, found>>
    /\ Still

\* A bundle is authoritative, unless it was refused for its place only.
BundleEnds ==
    /\ outcome = "none" /\ at[1] = "bundle" /\ at[2] \notin DOMAIN bundle
    /\ IF found /\ ~misplaced
       THEN outcome' = "failed" /\ UNCHANGED at
       ELSE at' = <<"cache", 1>> /\ UNCHANGED outcome
    /\ UNCHANGED <<attempts, misplaced, found>>
    /\ Still

TryCache ==
    /\ outcome = "none" /\ at[1] = "cache" /\ at[2] \in DOMAIN cache
    /\ at' = <<"cache", at[2] + 1>>
    /\ IF cache[at[2]] = "unbuildable" THEN UNCHANGED <<attempts, misplaced, outcome>>
                                      ELSE Attempt(cache[at[2]])
    /\ UNCHANGED found
    /\ Still

CacheEnds ==
    /\ outcome = "none" /\ at[1] = "cache" /\ at[2] \notin DOMAIN cache
    /\ outcome' = "failed"
    /\ UNCHANGED <<at, attempts, misplaced, found>>
    /\ Still

AdmittedNext == TryBundle \/ BundleEnds \/ TryCache \/ CacheEnds

AdmittedSpec == AdmittedInit /\ [][AdmittedNext]_admittedVars

-----------------------------------------------------------------------------
(* Properties.                                                             *)

\* The places that hold something to load, and their order of preference.
Held(where, places) ==
    {<<where, i>> : i \in {j \in DOMAIN places : places[j] \notin {"unbuildable", "absent"}}}

Precedes(a, b) ==
    (a[1] = "bundle" /\ b[1] = "cache") \/ (a[1] = b[1] /\ a[2] < b[2])

PlaceOf(a) == IF a[1] = "bundle" THEN bundle[a[2]] ELSE cache[a[2]]

\* What a release offers: the bundle's artifacts, and the cache's if the bundle
\* has none or had each refused for its place only.
Usable == \A a \in Held("bundle", bundle) : PlaceOf(a) = "placement"

Offered == Held("bundle", bundle) \cup (IF Usable THEN Held("cache", cache) ELSE {})

Winners == {a \in Offered : PlaceOf(a) = "admitted"}

\* The first winner, and all that is preferred to it.
Due == {a \in Offered : \A w \in Winners : ~Precedes(w, a)}

(* The result is the one that the release's description gives: what is     *)
(* offered is tried in order, each once and with a binding of its own, up  *)
(* to the first that the host admits, and that is the result; there is     *)
(* none if no artifact is admitted, or if a binding was missing before, or *)
(* if the binding of the one admitted could not be retained, in which case *)
(* nothing is tried in its place (load_first_admitted and                  *)
(* load_first_admitted_with_host_callbacks_inner).                         *)
AdmittedAsDeclared ==
    outcome # "none" =>
        LET tried == Range(attempts) IN
        /\ \A m, n \in DOMAIN attempts : m < n => Precedes(attempts[m], attempts[n])
        /\ tried \subseteq Due /\ \A a \in tried, b \in Due : Precedes(b, a) => b \in tried
        /\ unprepared \notin 1 .. Len(attempts)
        /\ tried = Due \/ unprepared = Len(attempts) + 1
        /\ outcome \in Admitted <=> Winners # {} /\ tried = Due
=============================================================================
