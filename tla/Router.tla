------------------------------- MODULE Router -------------------------------
(***************************************************************************)
(* The routing table, router.rs `Router`: who is attached, what they are   *)
(* called, what they subscribed to, what the host vouched for, and which   *)
(* host callback capabilities authorise an otherwise refused delivery.     *)
(*                                                                         *)
(* The broker keeps the table in one std::sync::Mutex and no method of it  *)
(* awaits, so every operation is one atomic step.  What makes it hard is   *)
(* the callers: a reader task keeps using the (id, unique name) it was     *)
(* given at attach after the module host has detached that peer from       *)
(* under it.  Every operation is therefore offered to every id ever        *)
(* minted, attached or not, guarded by exactly the checks the code makes   *)
(* under the same lock.                                                    *)
(***************************************************************************)
EXTENDS Message, FiniteSets, Functions

CONSTANTS
    Rules,           \* match rules peers may register
    Manifests,       \* peer manifests (version.rs), opaque here
    MaxCallbacks     \* the capability limit, 128 in the code

ASSUME ManifestAssumption == None \notin Manifests

ASSUME LimitAssumption == MaxCallbacks \in Nat

VARIABLES
    peers,           \* id -> record, for the attached peers
    names,           \* bus name -> id of its owner
    nextId,          \* the last id minted
    caps,            \* destination -> capability object (CallbackState)
    callbacks        \* `host_callbacks`: destinations of registered capabilities

routerVars == <<peers, names, nextId, caps, callbacks>>

-----------------------------------------------------------------------------
(* State *)

PeerRecord ==
    [unique : Uniques,
     matches : SUBSET Rules,
     manifest : Manifests \cup {None},
     attestations : SUBSET WellKnown,    \* names the host attested it for
     admitted : WellKnown \cup {None}]   \* name of the admitted artifact

Capability ==
    [module : Uniques \cup {None}, active : BOOLEAN, revoked : BOOLEAN]

(* The table only ever grows by one key or shrinks by some. *)
Put(f, k, v) == [x \in DOMAIN f \cup {k} |-> IF x = k THEN v ELSE f[x]]

Without(f, S) == Restrict(f, DOMAIN f \ S)

RouterInit ==
    /\ peers = <<>>
    /\ names = <<>>
    /\ nextId = 0
    /\ caps = <<>>
    /\ callbacks = {}

-----------------------------------------------------------------------------
(* Queries *)

(* Mutant: an operation trusts the id it was given at attach. *)
EnsurePeerAttached_Trusting(id) == id \in Nat

(* `ensure_peer_attached` for the identity stamped at attach. *)
EnsurePeerAttached(id) ==
    /\ Unique(id) \in DOMAIN names
    /\ names[Unique(id)] = id
    /\ id \in DOMAIN peers
    /\ peers[id].unique = Unique(id)

(* `resolve`: name n leads to an outbox. *)
Resolves(n) == n \in DOMAIN names /\ names[n] \in DOMAIN peers

(* `owner_of`. *)
OwnerOf(n) == IF Resolves(n) THEN peers[names[n]].unique ELSE None

(* `attestation_of` is some: unique names answer for the admitted artifact,
   well-known names only for an attestation of that exact name. *)
AttestedFor(n) ==
    /\ Resolves(n)
    /\ IF IsUnique(n) THEN peers[names[n]].admitted # None
                      ELSE n \in peers[names[n]].attestations

(* `CallbackState::matches` of some registered capability, for a
   confidential call from unique name s to unique name d at a declared
   endpoint (endpoint lists and module_live are left to the host). *)
CallbackAuthorises(s, d) ==
    d \in callbacks /\ caps[d].active /\ caps[d].module = s

(* `matches_directed_signal`: the same capability, in the other direction. *)
DirectedAuthorised(s, d) ==
    s \in callbacks /\ caps[s].active /\ caps[s].module = d

(* Mutant: the captured owner is not compared. *)
ExpectedHolds_Ignored(d, expected) == expected # None => Resolves(d)

(* `resolve_call`: whether a call from s to d is admitted.  expected is the
   unique owner the caller captured, or None. *)
ExpectedHolds(d, expected) == expected # None => OwnerOf(d) = expected

(* Mutant: a call to a unique name is never checked for attestation. *)
ResolveCall_UniqueOpen(s, d, expected, confidential) ==
    /\ ExpectedHolds(d, expected)
    /\ IF confidential /\ ~IsUnique(d) THEN AttestedFor(d) ELSE Resolves(d)

ResolveCall(s, d, expected, confidential) ==
    /\ ExpectedHolds(d, expected)
    /\ IF confidential
       THEN IF IsUnique(d) /\ CallbackAuthorises(s, d)
            THEN Resolves(d)
            ELSE AttestedFor(d)      \* `resolve_attested`
       ELSE Resolves(d)

(* Mutant: a signal with an addressee goes to every subscriber. *)
Subscribers_Everybody(id, h, destination) ==
    {p \in DOMAIN peers :
        /\ p # id
        /\ destination = None \/ Resolves(destination)
        /\ \E r \in peers[p].matches : Matches(r, h)}

(* `subscribers`: the peers a signal from id reaches.  h.destination is None
   or a unique name. *)
Subscribers(id, h, destination) ==
    {p \in DOMAIN peers :
        /\ p # id
        /\ destination = None \/ destination = peers[p].unique
        /\ \E r \in peers[p].matches : Matches(r, h)}

(* `broadcast_targets`: the peers a bus-generated signal reaches. *)
BroadcastTargets(h) ==
    {p \in DOMAIN peers : \E r \in peers[p].matches : Matches(r, h)}

(* `list_names`, `peer_records`: what ListNames and ListPeers answer. *)
ListNames == DOMAIN names

PeerRecords ==
    {[peer |-> peers[id].unique,
      names |-> {n \in DOMAIN names : names[n] = id /\ ~IsUnique(n)},
      manifest |-> peers[id].manifest] :
        id \in {i \in DOMAIN peers : peers[i].manifest # None}}

(* `manifest_of`. *)
ManifestOf(n) == IF Resolves(n) THEN peers[names[n]].manifest ELSE None

-----------------------------------------------------------------------------
(* Connection table *)

(* `attach`: ids start at 1 and are never reused. *)
Attach ==
    /\ nextId' = nextId + 1
    /\ peers' = Put(peers, nextId + 1,
                    [unique |-> Unique(nextId + 1), matches |-> {},
                     manifest |-> None, attestations |-> {}, admitted |-> None])
    /\ names' = Put(names, Unique(nextId + 1), nextId + 1)
    /\ UNCHANGED <<caps, callbacks>>

(* The registered capabilities naming peer u: `includes_peer`. *)
CallbacksOf(u) == {d \in callbacks : d = u \/ caps[d].module = u}

(* `revoke` of every capability in S: inactive for good. *)
Revoked(S) ==
    [d \in DOMAIN caps |->
        IF d \in S THEN [caps[d] EXCEPT !.active = FALSE, !.revoked = TRUE]
                   ELSE caps[d]]

NamesOwnedBy(id) == {n \in DOMAIN names : names[n] = id}

(* `detach`: drop the peer, revoke the capabilities that name it and free
   every name it owned. *)
Detach(id) ==
    /\ id \in DOMAIN peers
    /\ peers' = Without(peers, {id})
    /\ caps' = Revoked(CallbacksOf(peers[id].unique))
    /\ callbacks' = callbacks \ CallbacksOf(peers[id].unique)
    /\ names' = Without(names, NamesOwnedBy(id))
    /\ UNCHANGED nextId

(* `detach_unique`, for peers the module host manages. *)
DetachUnique(u) ==
    /\ u \in DOMAIN names
    /\ Detach(names[u])

-----------------------------------------------------------------------------
(* Names *)

(* `request_name` finds the name free: first writer wins. *)
NameFree(n) == ~IsUnique(n) /\ n # BUS /\ n \notin DOMAIN names

(* `request_name` by the present owner is an idempotent success. *)
NameHeld(id, n) == ~IsUnique(n) /\ n # BUS /\ n \in DOMAIN names /\ names[n] = id

Claim(id, n) ==
    /\ NameFree(n)
    /\ names' = Put(names, n, id)
    /\ UNCHANGED <<peers, nextId, caps, callbacks>>

(* Bus method RequestName, checked and applied under one lock. *)
RequestName(id, n) == EnsurePeerAttached(id) /\ Claim(id, n)

(* `request_name_for_unique`: the module host reserves a name for a peer it
   staged; the unique name leads to the id. *)
RequestNameForUnique(u, n) == u \in DOMAIN names /\ Claim(names[u], n)

(* `release_name`: only the owner, and never a unique name. *)
CanRelease(id, n) == ~IsUnique(n) /\ n \in DOMAIN names /\ names[n] = id

Release(id, n) ==
    /\ CanRelease(id, n)
    /\ names' = Without(names, {n})
    /\ UNCHANGED <<peers, nextId, caps, callbacks>>

ReleaseName(id, n) == EnsurePeerAttached(id) /\ Release(id, n)

(* `release_name_for_unique`: a runtime-owned host name. *)
ReleaseNameForUnique(u, n) ==
    u \in DOMAIN names /\ EnsurePeerAttached(names[u]) /\ Release(names[u], n)

-----------------------------------------------------------------------------
(* What a peer says, and what the host verified *)

UpdatePeer(id, record) ==
    /\ peers' = [peers EXCEPT ![id] = record]
    /\ UNCHANGED <<names, nextId, caps, callbacks>>

(* `set_manifest`, bus method Announce. *)
SetManifest(id, m) ==
    EnsurePeerAttached(id) /\ UpdatePeer(id, [peers[id] EXCEPT !.manifest = m])

(* `add_match`; a rule registered twice matches no more than once. *)
AddMatch(id, r) ==
    /\ EnsurePeerAttached(id)
    /\ UpdatePeer(id, [peers[id] EXCEPT !.matches = @ \cup {r}])

(* `remove_match`, which drops every copy of the rule. *)
RemoveMatch(id, r) ==
    /\ EnsurePeerAttached(id)
    /\ UpdatePeer(id, [peers[id] EXCEPT !.matches = @ \ {r}])

(* `set_attestation_for_unique`: admit artifact n on the exact connection u
   and attest it for the name n. *)
SetAttestation(u, n) ==
    /\ Resolves(u)
    /\ UpdatePeer(names[u], [peers[names[u]] EXCEPT
                               !.attestations = @ \cup {n}, !.admitted = n])

-----------------------------------------------------------------------------
(* Host callback capabilities *)

(* `prepare_host_callbacks`: a fresh, unbound capability for the host
   connection that was attached as d, which may be gone again by now. *)
PrepareCallback(d) ==
    /\ d \notin DOMAIN caps
    /\ caps' = Put(caps, d, [module |-> None, active |-> FALSE, revoked |-> FALSE])
    /\ UNCHANGED <<peers, names, nextId, callbacks>>

(* Mutant: nobody looks whether the capability was revoked meanwhile. *)
BindCallback_Late(d, u) ==
    /\ d \in DOMAIN caps
    /\ caps[d].module = None
    /\ caps' = [caps EXCEPT ![d] = [@ EXCEPT !.module = u, !.active = TRUE]]
    /\ UNCHANGED <<peers, names, nextId, callbacks>>

(* The load binds the capability to the module it attached and activates it
   under the capability's own lock, before the table knows of it. *)
BindCallback(d, u) ==
    /\ d \in DOMAIN caps
    /\ caps[d].module = None
    /\ ~caps[d].revoked
    /\ caps' = [caps EXCEPT ![d] = [@ EXCEPT !.module = u, !.active = TRUE]]
    /\ UNCHANGED <<peers, names, nextId, callbacks>>

(* `add_host_callbacks`. *)
CanAddCallbacks(d) ==
    /\ d \notin callbacks
    /\ Cardinality(callbacks) < MaxCallbacks
    /\ caps[d].module # None
    /\ AttestedFor(caps[d].module)
    /\ OwnerOf(d) # None

AddHostCallbacks(d) ==
    /\ d \in DOMAIN caps
    /\ CanAddCallbacks(d)
    /\ callbacks' = callbacks \cup {d}
    /\ UNCHANGED <<peers, names, nextId, caps>>

(* `revoke_host_callbacks`: registered or not, the capability is dead. *)
RevokeHostCallbacks(d) ==
    /\ d \in DOMAIN caps
    /\ caps' = Revoked({d})
    /\ callbacks' = callbacks \ {d}
    /\ UNCHANGED <<peers, names, nextId>>

(* `revoke_callbacks_for_peer`: a module stops. *)
RevokeCallbacksForPeer(u) ==
    /\ caps' = Revoked(CallbacksOf(u))
    /\ callbacks' = callbacks \ CallbacksOf(u)
    /\ UNCHANGED <<peers, names, nextId>>

-----------------------------------------------------------------------------
(* The table under any callers.  Minted is every identity ever handed out. *)

Minted == 1..nextId

(* Callers may ask for any name, the reserved and the unique ones too. *)
Askable == WellKnown \cup {BUS} \cup {Unique(id) : id \in Minted}

RouterNext ==
    \/ Attach
    \/ \E id \in Minted :
         \/ Detach(id)
         \/ DetachUnique(Unique(id))
         \/ \E n \in Askable :
              \/ RequestName(id, n)
              \/ RequestNameForUnique(Unique(id), n)
              \/ ReleaseName(id, n)
              \/ ReleaseNameForUnique(Unique(id), n)
         \/ \E m \in Manifests : SetManifest(id, m)
         \/ \E r \in Rules : AddMatch(id, r) \/ RemoveMatch(id, r)
         \/ \E n \in WellKnown : SetAttestation(Unique(id), n)
         \/ PrepareCallback(Unique(id))
         \/ \E m \in Minted : BindCallback(Unique(id), Unique(m))
         \/ AddHostCallbacks(Unique(id))
         \/ RevokeHostCallbacks(Unique(id))
         \/ RevokeCallbacksForPeer(Unique(id))

RouterSpec == RouterInit /\ [][RouterNext]_routerVars

-----------------------------------------------------------------------------
(* Properties *)

(* The shape of the table: records and functions over minted ids. *)
RouterTypeOK ==
    /\ nextId \in Nat
    /\ DOMAIN peers \subseteq Minted
    /\ peers \in [DOMAIN peers -> PeerRecord]
    /\ DOMAIN names \subseteq BusNames
    /\ names \in [DOMAIN names -> Minted]
    /\ DOMAIN caps \subseteq Uniques
    /\ caps \in [DOMAIN caps -> Capability]
    /\ callbacks \subseteq DOMAIN caps

(* No name outlives its owner: whatever order detaches, claims by stale
   reader tasks and host reservations come in, every name in the table
   belongs to an attached peer (`request_name` inserts before it looks the
   peer up, so only the attachment checks stand between a detached id and a
   name nobody can ever claim again). *)
NamesLive == \A n \in DOMAIN names : names[n] \in DOMAIN peers

(* Every attached peer is reachable by exactly the unique name minted for
   it, and no unique name leads to another connection. *)
UniqueOwned ==
    /\ \A id \in DOMAIN peers :
         /\ peers[id].unique = Unique(id)
         /\ Unique(id) \in DOMAIN names
    /\ \A n \in DOMAIN names : IsUnique(n) => n = Unique(names[n])

(* A registered capability joins two attached peers, the module's artifact
   still admitted: detaching either end revokes it, whether that happens
   before, between or after binding and registration. *)
CallbacksLive ==
    \A d \in callbacks :
        /\ d \in DOMAIN names
        /\ caps[d].module \in DOMAIN names
        /\ AttestedFor(caps[d].module)

(* A revoked capability stays dead: a revocation that lands between the
   binding of a capability and its registration leaves an entry that
   authorises nothing. *)
RevokedNeverAuthorises ==
    \A d \in callbacks : caps[d].revoked => ~caps[d].active

(* What the table leads to is there, at every moment, and not revoked. *)
TableLive ==
    /\ NamesLive /\ UniqueOwned
    /\ CallbacksLive /\ RevokedNeverAuthorises

(* First writer wins: a name passes from one peer to another only through
   a state in which nobody owns it. *)
FirstWriterWins ==
    [][\A n \in DOMAIN names \cap DOMAIN names' : names'[n] = names[n]]_routerVars

(* An id whose peer is gone never names a peer again, so a stale reply to
   a dead unique name cannot reach its replacement. *)
NoResurrection ==
    [][\A id \in Minted : id \notin DOMAIN peers => id \notin DOMAIN peers']_routerVars

(* Trust is never copied forward on a name handover: a step that changes who
   owns a name changes nobody's attestations, and a new peer has none. *)
TrustNotInherited ==
    [][names' # names =>
        \A id \in DOMAIN peers' :
            IF id \in DOMAIN peers
            THEN /\ peers'[id].attestations = peers[id].attestations
                 /\ peers'[id].admitted = peers[id].admitted
            ELSE /\ peers'[id].attestations = {}
                 /\ peers'[id].admitted = None]_routerVars
=============================================================================
