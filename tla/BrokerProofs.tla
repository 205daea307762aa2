---------------------------- MODULE BrokerProofs ----------------------------
(***************************************************************************)
(* The routing table first, for any number of connections, names, rules,   *)
(* manifests and capabilities: RouterInv.  Then the broker.                *)
(*                                                                         *)
(* The broker's tasks and the module host only ever change the routing     *)
(* table through its operations, so what is proved of the table holds of   *)
(* the broker, for any number of peers, messages and host threads.  On     *)
(* top of it three inductive invariants: every call is in its own reader's *)
(* hands or settled (SettleInv), every message is only where it is meant   *)
(* to go (AddressInv), and every change of ownership is announced or still *)
(* to be (AnnounceInv).                                                    *)
(***************************************************************************)
EXTENDS Broker, SequenceTheorems, TLAPS

(* What the invariants need beside themselves: a revoked capability is
   inactive whether or not it is registered, since it may be registered
   after its revocation. *)
RevokedDead == \A d \in DOMAIN caps : caps[d].revoked => ~caps[d].active

(* The inductive invariant. *)
RouterInv ==
    RouterTypeOK /\ NamesLive /\ UniqueOwned /\ CallbacksLive /\ RevokedDead

-----------------------------------------------------------------------------
(* Names *)

(* Minted names are distinct, well-formed and recognised as unique; no
   well-known name is. *)
LEMMA UniqueNames ==
    /\ \A i, j \in Nat : Unique(i) = Unique(j) => i = j
    /\ \A i \in Nat : Unique(i) \in Uniques /\ Unique(i) \in BusNames
    /\ \A u \in Uniques : IsUnique(u) /\ u \notin WellKnown \cup {BUS}
    /\ \A n \in WellKnown \cup {BUS} : ~IsUnique(n) /\ n \in BusNames
  BY NamesAssumption DEF Unique, Uniques, BusNames, IsUnique

(* None is neither a name nor the name of a capability's module. *)
LEMMA NoneIsNoName == None \notin BusNames /\ None \notin WellKnown
  BY NamesAssumption DEF BusNames

(* What may be asked for is a bus name. *)
LEMMA AskableNames ==
    ASSUME nextId \in Nat
    PROVE  Askable \subseteq BusNames
  BY UniqueNames DEF Askable, Minted, BusNames

-----------------------------------------------------------------------------
(* Initially the table is empty. *)
LEMMA InitInv == RouterInit => RouterInv
  <1> SUFFICES ASSUME RouterInit PROVE RouterInv
    OBVIOUS
  <1>1. /\ peers = <<>> /\ names = <<>> /\ caps = <<>>
        /\ nextId = 0 /\ callbacks = {}
    BY DEF RouterInit
  <1>2. DOMAIN peers = {} /\ DOMAIN names = {} /\ DOMAIN caps = {}
    BY <1>1
  <1>3. RouterTypeOK
    BY <1>1, <1>2 DEF RouterTypeOK, Minted
  <1> QED
    BY <1>1, <1>2, <1>3
    DEF RouterInv, NamesLive, UniqueOwned, CallbacksLive, RevokedDead

-----------------------------------------------------------------------------
(* attach keeps the invariant. *)
LEMMA AttachInv ==
    ASSUME RouterInv, Attach
    PROVE  RouterInv'
  <1> DEFINE id == nextId + 1
             rec == [unique |-> Unique(id), matches |-> {}, manifest |-> None,
                     attestations |-> {}, admitted |-> None]
  <1>1. id \in Nat /\ id \notin Minted /\ nextId \in Nat
    BY DEF RouterInv, RouterTypeOK, Minted
  <1>2. /\ nextId' = id /\ caps' = caps /\ callbacks' = callbacks
        /\ peers' = [x \in DOMAIN peers \cup {id} |-> IF x = id THEN rec ELSE peers[x]]
        /\ names' = [x \in DOMAIN names \cup {Unique(id)} |->
                        IF x = Unique(id) THEN id ELSE names[x]]
    BY DEF Attach, Put
  <1>3. Minted \subseteq Minted' /\ id \in Minted'
    BY <1>1, <1>2 DEF Minted
  <1>4. Unique(id) \notin DOMAIN names
    BY <1>1, UniqueNames DEF RouterInv, RouterTypeOK, UniqueOwned, Minted
  <1>5. rec \in PeerRecord
    BY <1>1, UniqueNames DEF PeerRecord
  <1>6. RouterTypeOK'
    BY <1>1, <1>2, <1>3, <1>5, UniqueNames DEF RouterInv, RouterTypeOK, Minted
  <1>7. NamesLive'
    BY <1>2 DEF RouterInv, NamesLive
  <1>8. UniqueOwned'
    BY <1>1, <1>2, <1>4, UniqueNames DEF RouterInv, UniqueOwned, RouterTypeOK, Minted
  <1>9. CallbacksLive'
    <2> SUFFICES ASSUME NEW d \in callbacks
                 PROVE  /\ d \in DOMAIN names'
                        /\ caps[d].module \in DOMAIN names'
                        /\ AttestedFor(caps[d].module)'
      BY <1>2 DEF CallbacksLive
    <2>1. d \in DOMAIN names /\ caps[d].module \in DOMAIN names
          /\ AttestedFor(caps[d].module)
      BY DEF RouterInv, CallbacksLive
    <2>2. names'[caps[d].module] = names[caps[d].module]
      BY <1>2, <1>4, <2>1
    <2>3. names[caps[d].module] \in DOMAIN peers /\ names[caps[d].module] # id
      BY <1>1, <2>1 DEF RouterInv, NamesLive, RouterTypeOK
    <2> QED
      BY <1>2, <2>1, <2>2, <2>3 DEF AttestedFor, Resolves
  <1> QED
    BY <1>2, <1>6, <1>7, <1>8, <1>9 DEF RouterInv, RevokedDead

(* detach keeps the invariant: the names of the peer go with it, and so does
   every capability one end of which it was. *)
LEMMA DetachInv ==
    ASSUME RouterInv, NEW id, Detach(id)
    PROVE  RouterInv'
  <1> DEFINE u == peers[id].unique
             gone == CallbacksOf(u)
  <1>1. /\ id \in DOMAIN peers /\ nextId' = nextId
        /\ peers' = [x \in DOMAIN peers \ {id} |-> peers[x]]
        /\ names' = [n \in DOMAIN names \ NamesOwnedBy(id) |-> names[n]]
        /\ caps' = Revoked(gone)
        /\ callbacks' = callbacks \ gone
    BY DEF Detach, Without, Restrict, NamesOwnedBy
  <1>2. DOMAIN caps' = DOMAIN caps /\ Minted' = Minted
    BY <1>1 DEF Revoked, Minted
  <1>3. \A d \in DOMAIN caps :
           /\ caps'[d] \in Capability
           /\ caps'[d].module = caps[d].module
           /\ caps'[d].revoked => ~caps'[d].active
    BY <1>1 DEF RouterInv, RouterTypeOK, RevokedDead, Revoked, Capability
  <1>4. RouterTypeOK'
    <2>1. peers' \in [DOMAIN peers' -> PeerRecord] /\ DOMAIN peers' \subseteq Minted'
      BY <1>1, <1>2 DEF RouterInv, RouterTypeOK
    <2>2. names' \in [DOMAIN names' -> Minted'] /\ DOMAIN names' \subseteq BusNames
      BY <1>1, <1>2 DEF RouterInv, RouterTypeOK
    <2>3. caps' \in [DOMAIN caps' -> Capability]
      BY <1>1, <1>2, <1>3 DEF Revoked
    <2> QED
      BY <1>1, <1>2, <2>1, <2>2, <2>3 DEF RouterInv, RouterTypeOK
  <1>5. NamesLive'
    BY <1>1 DEF RouterInv, NamesLive, NamesOwnedBy
  <1>6. id \in Nat /\ u = Unique(id)
    BY <1>1 DEF RouterInv, UniqueOwned, RouterTypeOK, Minted
  <1>7. UniqueOwned'
    <2>1. ASSUME NEW p \in DOMAIN peers'
          PROVE  peers'[p].unique = Unique(p) /\ Unique(p) \in DOMAIN names'
      <3>1. p \in DOMAIN peers /\ p # id /\ p \in Nat
        BY <1>1, <2>1 DEF RouterInv, RouterTypeOK, Minted
      <3>2. peers[p].unique = Unique(p) /\ Unique(p) \in DOMAIN names
        BY <3>1 DEF RouterInv, UniqueOwned
      <3>3. names[Unique(p)] = p
        BY <3>1, <3>2, UniqueNames DEF RouterInv, UniqueOwned, RouterTypeOK, Minted
      <3> QED
        BY <1>1, <3>1, <3>2, <3>3 DEF NamesOwnedBy
    <2>2. \A n \in DOMAIN names' : IsUnique(n) => n = Unique(names'[n])
      BY <1>1 DEF RouterInv, UniqueOwned
    <2> QED
      BY <2>1, <2>2 DEF UniqueOwned
  <1>8. CallbacksLive'
    <2> SUFFICES ASSUME NEW d \in callbacks \ gone
                 PROVE  /\ d \in DOMAIN names'
                        /\ caps[d].module \in DOMAIN names'
                        /\ AttestedFor(caps[d].module)'
      BY <1>1, <1>3 DEF CallbacksLive, RouterInv, RouterTypeOK
    <2> DEFINE m == caps[d].module
    <2>1. /\ d \in DOMAIN names /\ m \in DOMAIN names /\ AttestedFor(m)
          /\ d # u /\ m # u /\ d \in Uniques
      BY DEF RouterInv, CallbacksLive, RouterTypeOK, CallbacksOf
    <2>2. m \in Uniques
      BY <2>1, NoneIsNoName DEF RouterInv, RouterTypeOK, Capability
    <2>3. d = Unique(names[d]) /\ m = Unique(names[m])
      BY <2>1, <2>2, UniqueNames DEF RouterInv, UniqueOwned
    <2>4. names[d] # id /\ names[m] # id
      BY <1>6, <2>1, <2>3
    <2>5. d \in DOMAIN names' /\ m \in DOMAIN names' /\ names'[m] = names[m]
      BY <1>1, <2>1, <2>4 DEF NamesOwnedBy
    <2>6. names[m] \in DOMAIN peers' /\ peers'[names[m]] = peers[names[m]]
      BY <1>1, <2>1, <2>4 DEF RouterInv, NamesLive
    <2>7. caps'[d].module = m
      BY <1>3 DEF RouterInv, RouterTypeOK
    <2> QED
      BY <2>1, <2>5, <2>6, <2>7 DEF AttestedFor, Resolves
  <1> QED
    BY <1>2, <1>3, <1>4, <1>5, <1>7, <1>8 DEF RouterInv, RevokedDead

-----------------------------------------------------------------------------
(* A name claimed for an attached peer keeps the invariant; the name was
   free, so no unique name and no capability's end changes hands. *)
LEMMA ClaimInv ==
    ASSUME RouterInv, NEW id \in DOMAIN peers, NEW n \in BusNames, Claim(id, n)
    PROVE  RouterInv'
  <1>1. /\ peers' = peers /\ nextId' = nextId /\ caps' = caps /\ callbacks' = callbacks
        /\ names' = [x \in DOMAIN names \cup {n} |-> IF x = n THEN id ELSE names[x]]
        /\ ~IsUnique(n) /\ n \notin DOMAIN names
    BY DEF Claim, NameFree, Put
  <1>2. RouterTypeOK'
    BY <1>1 DEF RouterInv, RouterTypeOK, Minted
  <1>3. NamesLive'
    BY <1>1 DEF RouterInv, NamesLive
  <1>4. UniqueOwned'
    BY <1>1 DEF RouterInv, UniqueOwned
  <1>5. CallbacksLive'
    BY <1>1 DEF RouterInv, CallbacksLive, AttestedFor, Resolves
  <1> QED
    BY <1>1, <1>2, <1>3, <1>4, <1>5 DEF RouterInv, RevokedDead

(* A released name is never a unique one. *)
LEMMA ReleaseInv ==
    ASSUME RouterInv, NEW id, NEW n, Release(id, n)
    PROVE  RouterInv'
  <1>1. /\ peers' = peers /\ nextId' = nextId /\ caps' = caps /\ callbacks' = callbacks
        /\ names' = [x \in DOMAIN names \ {n} |-> names[x]]
        /\ ~IsUnique(n)
    BY DEF Release, CanRelease, Without, Restrict
  <1>2. RouterTypeOK'
    BY <1>1 DEF RouterInv, RouterTypeOK, Minted
  <1>3. NamesLive'
    BY <1>1 DEF RouterInv, NamesLive
  <1>4. UniqueOwned'
    <2>1. \A p \in DOMAIN peers : Unique(p) # n
      BY <1>1, UniqueNames DEF RouterInv, RouterTypeOK, Minted
    <2> QED
      BY <1>1, <2>1 DEF RouterInv, UniqueOwned
  <1>5. CallbacksLive'
    <2>1. ASSUME NEW d \in callbacks
          PROVE  d # n /\ caps[d].module # n
      BY <1>1, UniqueNames, NoneIsNoName
      DEF RouterInv, RouterTypeOK, CallbacksLive, Capability
    <2> QED
      BY <1>1, <2>1 DEF RouterInv, CallbacksLive, AttestedFor, Resolves
  <1> QED
    BY <1>1, <1>2, <1>3, <1>4, <1>5 DEF RouterInv, RevokedDead

(* A peer's record may change in everything but its unique name, and an
   admitted peer stays admitted. *)
LEMMA UpdatePeerInv ==
    ASSUME RouterInv, NEW id \in DOMAIN peers, NEW rec \in PeerRecord,
           rec.unique = peers[id].unique,
           peers[id].admitted # None => rec.admitted # None,
           UpdatePeer(id, rec)
    PROVE  RouterInv'
  <1>1. /\ names' = names /\ nextId' = nextId /\ caps' = caps /\ callbacks' = callbacks
        /\ peers' = [peers EXCEPT ![id] = rec]
    BY DEF UpdatePeer
  <1>2. DOMAIN peers' = DOMAIN peers
    BY <1>1
  <1>3. \A p \in DOMAIN peers :
           /\ peers'[p].unique = peers[p].unique
           /\ peers[p].admitted # None => peers'[p].admitted # None
    BY <1>1 DEF RouterInv, RouterTypeOK
  <1>4. RouterTypeOK'
    BY <1>1, <1>2 DEF RouterInv, RouterTypeOK, Minted
  <1>5. NamesLive'
    BY <1>1, <1>2 DEF RouterInv, NamesLive
  <1>6. UniqueOwned'
    BY <1>1, <1>2, <1>3 DEF RouterInv, UniqueOwned
  <1>7. CallbacksLive'
    <2>1. ASSUME NEW d \in callbacks
          PROVE  AttestedFor(caps[d].module)'
      <3> DEFINE m == caps[d].module
      <3>1. m \in DOMAIN names /\ AttestedFor(m)
        BY DEF RouterInv, CallbacksLive
      <3>2. IsUnique(m)
        BY <3>1, UniqueNames, NoneIsNoName DEF RouterInv, RouterTypeOK, Capability
      <3> QED
        BY <1>1, <1>2, <1>3, <3>1, <3>2 DEF AttestedFor, Resolves
    <2> QED
      BY <1>1, <2>1 DEF RouterInv, CallbacksLive
  <1> QED
    BY <1>1, <1>4, <1>5, <1>6, <1>7 DEF RouterInv, RevokedDead

-----------------------------------------------------------------------------
(* The life of a capability keeps the invariant. *)
LEMMA CallbackInv ==
    ASSUME RouterInv, NEW d \in Uniques,
           \/ PrepareCallback(d)
           \/ \E u \in Uniques : BindCallback(d, u)
           \/ AddHostCallbacks(d)
    PROVE  RouterInv'
  <1>1. CASE PrepareCallback(d)
    <2>1. /\ peers' = peers /\ names' = names /\ nextId' = nextId
          /\ callbacks' = callbacks /\ d \notin DOMAIN caps
          /\ caps' = [x \in DOMAIN caps \cup {d} |->
                        IF x = d THEN [module |-> None, active |-> FALSE, revoked |-> FALSE]
                                 ELSE caps[x]]
      BY <1>1 DEF PrepareCallback, Put
    <2>2. RouterTypeOK'
      BY <2>1 DEF RouterInv, RouterTypeOK, Minted, Capability
    <2>3. CallbacksLive'
      BY <2>1 DEF RouterInv, RouterTypeOK, CallbacksLive, AttestedFor, Resolves
    <2>4. RevokedDead'
      BY <2>1 DEF RouterInv, RevokedDead
    <2> QED
      BY <2>1, <2>2, <2>3, <2>4 DEF RouterInv, NamesLive, UniqueOwned
  <1>2. ASSUME NEW u \in Uniques, BindCallback(d, u)
        PROVE  RouterInv'
    <2>1. /\ peers' = peers /\ names' = names /\ nextId' = nextId
          /\ callbacks' = callbacks
          /\ d \in DOMAIN caps /\ caps[d].module = None /\ ~caps[d].revoked
          /\ caps' = [caps EXCEPT ![d] = [caps[d] EXCEPT !.module = u, !.active = TRUE]]
      BY <1>2 DEF BindCallback
    <2>2. RouterTypeOK'
      BY <2>1 DEF RouterInv, RouterTypeOK, Minted, Capability
    <2>3. d \notin callbacks
      BY <2>1, NoneIsNoName DEF RouterInv, RouterTypeOK, CallbacksLive
    <2>4. CallbacksLive'
      BY <2>1, <2>3 DEF RouterInv, RouterTypeOK, CallbacksLive, AttestedFor, Resolves
    <2>5. RevokedDead'
      BY <2>1 DEF RouterInv, RouterTypeOK, RevokedDead, Capability
    <2> QED
      BY <2>1, <2>2, <2>4, <2>5 DEF RouterInv, NamesLive, UniqueOwned
  <1>3. CASE AddHostCallbacks(d)
    <2>1. /\ peers' = peers /\ names' = names /\ nextId' = nextId /\ caps' = caps
          /\ callbacks' = callbacks \cup {d} /\ d \in DOMAIN caps
          /\ AttestedFor(caps[d].module) /\ OwnerOf(d) # None
      BY <1>3 DEF AddHostCallbacks, CanAddCallbacks
    <2>2. d \in DOMAIN names /\ caps[d].module \in DOMAIN names
      BY <2>1 DEF AttestedFor, OwnerOf, Resolves
    <2>3. CallbacksLive'
      BY <2>1, <2>2 DEF RouterInv, CallbacksLive, AttestedFor, Resolves
    <2>4. RouterTypeOK'
      BY <2>1 DEF RouterInv, RouterTypeOK, Minted
    <2> QED
      BY <2>1, <2>3, <2>4 DEF RouterInv, NamesLive, UniqueOwned, RevokedDead
  <1> QED
    BY <1>1, <1>2, <1>3

(* So does its revocation. *)
LEMMA RevokeInv ==
    ASSUME RouterInv, NEW S, caps' = Revoked(S), callbacks' = callbacks \ S,
           UNCHANGED <<peers, names, nextId>>
    PROVE  RouterInv'
  <1>1. /\ DOMAIN caps' = DOMAIN caps
        /\ \A d \in DOMAIN caps :
             /\ caps'[d] \in Capability
             /\ caps'[d].module = caps[d].module
             /\ caps'[d].revoked => ~caps'[d].active
    BY DEF RouterInv, RouterTypeOK, RevokedDead, Revoked, Capability
  <1>2. caps' \in [DOMAIN caps' -> Capability]
    BY <1>1 DEF Revoked
  <1>3. RouterTypeOK'
    BY <1>1, <1>2 DEF RouterInv, RouterTypeOK, Minted
  <1>4. CallbacksLive'
    BY <1>1 DEF RouterInv, RouterTypeOK, CallbacksLive, AttestedFor, Resolves
  <1> QED
    BY <1>1, <1>3, <1>4 DEF RouterInv, NamesLive, UniqueOwned, RevokedDead

-----------------------------------------------------------------------------
(* Every operation keeps the invariant, whichever identity it is called
   with, attached or not. *)
LEMMA NextInv ==
    ASSUME RouterInv, [RouterNext]_routerVars
    PROVE  RouterInv'
  <1>0. /\ nextId \in Nat /\ Askable \subseteq BusNames
        /\ \A i \in Minted : i \in Nat /\ Unique(i) \in Uniques
    BY UniqueNames, AskableNames DEF RouterInv, RouterTypeOK, Minted
  <1>1. CASE Attach
    BY <1>1, AttachInv
  <1>2. ASSUME NEW id \in Minted, Detach(id) PROVE RouterInv'
    BY <1>2, DetachInv
  <1>3. ASSUME NEW id \in Minted, DetachUnique(Unique(id)) PROVE RouterInv'
    BY <1>3, DetachInv DEF DetachUnique
  <1>4. ASSUME NEW id \in Minted, NEW n \in Askable, RequestName(id, n)
        PROVE  RouterInv'
    BY <1>0, <1>4, ClaimInv DEF RequestName, EnsurePeerAttached
  <1>5. ASSUME NEW id \in Minted, NEW n \in Askable,
               RequestNameForUnique(Unique(id), n)
        PROVE  RouterInv'
    BY <1>0, <1>5, ClaimInv DEF RequestNameForUnique, RouterInv, NamesLive
  <1>6. ASSUME NEW id \in Minted, NEW n \in Askable, ReleaseName(id, n)
        PROVE  RouterInv'
    BY <1>6, ReleaseInv DEF ReleaseName
  <1>7. ASSUME NEW id \in Minted, NEW n \in Askable,
               ReleaseNameForUnique(Unique(id), n)
        PROVE  RouterInv'
    BY <1>7, ReleaseInv DEF ReleaseNameForUnique
  <1>8. ASSUME NEW id \in Minted, NEW m \in Manifests, SetManifest(id, m)
        PROVE  RouterInv'
    <2>1. id \in DOMAIN peers /\ peers[id] \in PeerRecord
      BY <1>8 DEF SetManifest, EnsurePeerAttached, RouterInv, RouterTypeOK
    <2>2. [peers[id] EXCEPT !.manifest = m] \in PeerRecord
      BY <2>1 DEF PeerRecord
    <2> QED
      BY <1>8, <2>1, <2>2, UpdatePeerInv DEF SetManifest, PeerRecord
  <1>9. ASSUME NEW id \in Minted, NEW r \in Rules, AddMatch(id, r)
        PROVE  RouterInv'
    <2>1. id \in DOMAIN peers /\ peers[id] \in PeerRecord
      BY <1>9 DEF AddMatch, EnsurePeerAttached, RouterInv, RouterTypeOK
    <2>2. [peers[id] EXCEPT !.matches = @ \cup {r}] \in PeerRecord
      BY <2>1 DEF PeerRecord
    <2> QED
      BY <1>9, <2>1, <2>2, UpdatePeerInv DEF AddMatch, PeerRecord
  <1>10. ASSUME NEW id \in Minted, NEW r \in Rules, RemoveMatch(id, r)
         PROVE  RouterInv'
    <2>1. id \in DOMAIN peers /\ peers[id] \in PeerRecord
      BY <1>10 DEF RemoveMatch, EnsurePeerAttached, RouterInv, RouterTypeOK
    <2>2. [peers[id] EXCEPT !.matches = @ \ {r}] \in PeerRecord
      BY <2>1 DEF PeerRecord
    <2> QED
      BY <1>10, <2>1, <2>2, UpdatePeerInv DEF RemoveMatch, PeerRecord
  <1>11. ASSUME NEW id \in Minted, NEW n \in WellKnown, SetAttestation(Unique(id), n)
         PROVE  RouterInv'
    <2> DEFINE p == names[Unique(id)]
               rec == [peers[p] EXCEPT !.attestations = @ \cup {n}, !.admitted = n]
    <2>1. p \in DOMAIN peers /\ peers[p] \in PeerRecord /\ UpdatePeer(p, rec)
      BY <1>11 DEF SetAttestation, Resolves, RouterInv, RouterTypeOK
    <2>2. rec \in PeerRecord /\ rec.unique = peers[p].unique /\ rec.admitted = n
      BY <2>1 DEF PeerRecord
    <2> QED
      BY <2>1, <2>2, UpdatePeerInv, NoneIsNoName
  <1>12. ASSUME NEW id \in Minted, PrepareCallback(Unique(id)) PROVE RouterInv'
    BY <1>0, <1>12, CallbackInv
  <1>13. ASSUME NEW id \in Minted, NEW m \in Minted, BindCallback(Unique(id), Unique(m))
         PROVE  RouterInv'
    BY <1>0, <1>13, CallbackInv
  <1>14. ASSUME NEW id \in Minted, AddHostCallbacks(Unique(id)) PROVE RouterInv'
    BY <1>0, <1>14, CallbackInv
  <1>15. ASSUME NEW id \in Minted, RevokeHostCallbacks(Unique(id)) PROVE RouterInv'
    BY <1>15, RevokeInv DEF RevokeHostCallbacks
  <1>16. ASSUME NEW id \in Minted, RevokeCallbacksForPeer(Unique(id)) PROVE RouterInv'
    BY <1>16, RevokeInv DEF RevokeCallbacksForPeer
  <1>17. CASE UNCHANGED routerVars
    BY <1>17 DEF routerVars, RouterInv, RouterTypeOK, NamesLive, UniqueOwned,
                 CallbacksLive, RevokedDead, Minted, AttestedFor, Resolves
  <1> QED
    BY <1>1, <1>2, <1>3, <1>4, <1>5, <1>6, <1>7, <1>8, <1>9, <1>10, <1>11, <1>12,
       <1>13, <1>14, <1>15, <1>16, <1>17 DEF RouterNext

(* The inductive invariant holds throughout. *)
THEOREM Invariance == RouterSpec => []RouterInv
  <1>1. RouterInit => RouterInv
    BY InitInv
  <1>2. RouterInv /\ [RouterNext]_routerVars => RouterInv'
    BY NextInv
  <1> QED
    BY <1>1, <1>2, PTL DEF RouterSpec

(* The table keeps its shape: ids are minted before they are used. *)
THEOREM TypeCorrect == RouterSpec => []RouterTypeOK
  BY Invariance, PTL DEF RouterInv

(* No name outlives its owner, under any interleaving of stale readers and
   the host (`request_name`, `detach`). *)
THEOREM NoOrphanNames == RouterSpec => []NamesLive
  BY Invariance, PTL DEF RouterInv

(* Unique names lead to the connection they were minted for, and only to it. *)
THEOREM UniqueNamesHold == RouterSpec => []UniqueOwned
  BY Invariance, PTL DEF RouterInv

(* A registered capability joins two attached peers, the module admitted. *)
THEOREM CapabilitiesLive == RouterSpec => []CallbacksLive
  BY Invariance, PTL DEF RouterInv

(* A revoked capability authorises nothing, even one registered after its
   revocation. *)
THEOREM RevocationSticks == RouterSpec => []RevokedNeverAuthorises
  <1>1. RouterInv => RevokedNeverAuthorises
    BY DEF RouterInv, RouterTypeOK, RevokedDead, RevokedNeverAuthorises
  <1> QED
    BY <1>1, Invariance, PTL

-----------------------------------------------------------------------------
(* Steps *)

(* Which names a step takes and gives: an owned name keeps its owner until
   it is free. *)
LEMMA OwnerStep ==
    ASSUME RouterInv, [RouterNext]_routerVars
    PROVE  \A n \in DOMAIN names \cap DOMAIN names' : names'[n] = names[n]
  <1>1. CASE Attach
    <2>1. Unique(nextId + 1) \notin DOMAIN names
      BY UniqueNames DEF RouterInv, RouterTypeOK, UniqueOwned, Minted
    <2> QED
      BY <1>1, <2>1 DEF Attach, Put
  <1>2. ASSUME NEW id, Detach(id)
        PROVE  \A n \in DOMAIN names \cap DOMAIN names' : names'[n] = names[n]
    BY <1>2 DEF Detach, Without, Restrict
  <1>3. ASSUME NEW id, NEW n, Claim(id, n)
        PROVE  \A x \in DOMAIN names \cap DOMAIN names' : names'[x] = names[x]
    BY <1>3 DEF Claim, NameFree, Put
  <1>4. ASSUME NEW id, NEW n, Release(id, n)
        PROVE  \A x \in DOMAIN names \cap DOMAIN names' : names'[x] = names[x]
    BY <1>4 DEF Release, Without, Restrict
  <1>5. CASE names' = names
    BY <1>5
  <1> QED
    BY <1>1, <1>2, <1>3, <1>4, <1>5
    DEF RouterNext, routerVars, DetachUnique, RequestName, RequestNameForUnique,
        ReleaseName, ReleaseNameForUnique, SetManifest, AddMatch, RemoveMatch,
        SetAttestation, UpdatePeer, PrepareCallback, BindCallback, AddHostCallbacks,
        RevokeHostCallbacks, RevokeCallbacksForPeer

(* First writer wins (`request_name`): no name is ever taken over. *)
THEOREM FirstWriter == RouterSpec => FirstWriterWins
  <1>1. RouterInv /\ [RouterNext]_routerVars =>
          [\A n \in DOMAIN names \cap DOMAIN names' : names'[n] = names[n]]_routerVars
    BY OwnerStep
  <1> QED
    BY <1>1, Invariance, PTL DEF RouterSpec, FirstWriterWins

(* Which peers a step adds: only the one with the next id. *)
LEMMA PeerStep ==
    ASSUME RouterInv, [RouterNext]_routerVars
    PROVE  \/ peers' = [x \in DOMAIN peers \cup {nextId + 1} |->
                          IF x = nextId + 1
                          THEN [unique |-> Unique(nextId + 1), matches |-> {},
                                manifest |-> None, attestations |-> {},
                                admitted |-> None]
                          ELSE peers[x]]
           \/ \E id : peers' = [x \in DOMAIN peers \ {id} |-> peers[x]]
           \/ names' = names /\ \E id, rec : peers' = [peers EXCEPT ![id] = rec]
           \/ peers' = peers
  <1>1. CASE Attach
    BY <1>1 DEF Attach, Put
  <1>2. ASSUME NEW id, Detach(id)
        PROVE  peers' = [x \in DOMAIN peers \ {id} |-> peers[x]]
    BY <1>2 DEF Detach, Without, Restrict
  <1>3. ASSUME NEW id, NEW rec, UpdatePeer(id, rec)
        PROVE  names' = names /\ peers' = [peers EXCEPT ![id] = rec]
    BY <1>3 DEF UpdatePeer
  <1>4. CASE peers' = peers
    BY <1>4
  <1>5. ASSUME NEW id \in Minted, DetachUnique(Unique(id))
        PROVE  \E i : peers' = [x \in DOMAIN peers \ {i} |-> peers[x]]
    BY <1>2, <1>5 DEF DetachUnique
  <1>6. ASSUME NEW id \in Minted,
               \/ \E m \in Manifests : SetManifest(id, m)
               \/ \E r \in Rules : AddMatch(id, r) \/ RemoveMatch(id, r)
               \/ \E n \in WellKnown : SetAttestation(Unique(id), n)
        PROVE  names' = names /\ \E i, rec : peers' = [peers EXCEPT ![i] = rec]
    BY <1>3, <1>6 DEF SetManifest, AddMatch, RemoveMatch, SetAttestation
  <1> QED
    BY <1>1, <1>2, <1>4, <1>5, <1>6
    DEF RouterNext, routerVars, RequestName, RequestNameForUnique, Claim, Release,
        ReleaseName, ReleaseNameForUnique, PrepareCallback, BindCallback,
        AddHostCallbacks, RevokeHostCallbacks, RevokeCallbacksForPeer

(* Ids are never reused (`attach`): a dead identity stays dead. *)
THEOREM IdsNotReused == RouterSpec => NoResurrection
  <1>1. ASSUME RouterInv, [RouterNext]_routerVars
        PROVE  \A id \in Minted : id \notin DOMAIN peers => id \notin DOMAIN peers'
    <2>1. nextId + 1 \notin Minted
      BY <1>1 DEF RouterInv, RouterTypeOK, Minted
    <2> QED
      BY <1>1, <2>1, PeerStep
  <1>2. RouterInv /\ [RouterNext]_routerVars =>
          [\A id \in Minted : id \notin DOMAIN peers => id \notin DOMAIN peers']_routerVars
    BY <1>1
  <1> QED
    BY <1>2, Invariance, PTL DEF RouterSpec, NoResurrection

(* Trust is not inherited (`attach`, `request_name`, `detach`): whoever ends
   up with a name has the attestations it had. *)
THEOREM TrustStays == RouterSpec => TrustNotInherited
  <1> DEFINE Kept ==
        names' # names =>
          \A id \in DOMAIN peers' :
            IF id \in DOMAIN peers
            THEN /\ peers'[id].attestations = peers[id].attestations
                 /\ peers'[id].admitted = peers[id].admitted
            ELSE /\ peers'[id].attestations = {}
                 /\ peers'[id].admitted = None
  <1>1. ASSUME RouterInv, [RouterNext]_routerVars
        PROVE  Kept
    <2>1. nextId + 1 \notin DOMAIN peers
      BY <1>1 DEF RouterInv, RouterTypeOK, Minted
    <2> DEFINE fresh == [unique |-> Unique(nextId + 1), matches |-> {},
                         manifest |-> None, attestations |-> {}, admitted |-> None]
    <2>2. fresh.attestations = {} /\ fresh.admitted = None
      OBVIOUS
    <2>3. CASE peers' = [x \in DOMAIN peers \cup {nextId + 1} |->
                           IF x = nextId + 1 THEN fresh ELSE peers[x]]
      <3> HIDE DEF fresh
      <3> QED
        BY <2>1, <2>2, <2>3
    <2>4. CASE \E id : peers' = [x \in DOMAIN peers \ {id} |-> peers[x]]
      BY <2>4
    <2>5. CASE names' = names \/ peers' = peers
      BY <2>5
    <2> QED
      BY <1>1, <2>3, <2>4, <2>5, PeerStep
  <1>2. RouterInv /\ [RouterNext]_routerVars => [Kept]_routerVars
    BY <1>1
  <1> QED
    BY <1>2, Invariance, PTL DEF RouterSpec, TrustNotInherited

-----------------------------------------------------------------------------
(* The broker, over the table *)

(* The inductive invariant: a task is a host thread or the reader of an id
   that was minted, and a module has such an id and a well-known name. *)
ModulesMinted ==
    \A id \in DOMAIN modules : id \in Minted /\ modules[id] \in WellKnown

TasksMinted ==
    /\ nextId \in Nat
    /\ DOMAIN task \subseteq Minted \cup HostTasks
    /\ ModulesMinted

(* What names can be claimed or released can be asked for. *)
LEMMA OnlyAskable ==
    /\ \A n : NameFree(n) => n \in Askable
    /\ \A id, n : CanRelease(id, n) => n \in Askable
  BY DEF NameFree, CanRelease, IsUnique, Askable

(* A bus method changes the table by one of its operations. *)
LEMMA BusMethodStep ==
    ASSUME NEW id \in Minted, NEW h, BusMethod(id, h),
           h.member = "Announce" => h.body \in Manifests,
           h.member \in {"AddMatch", "RemoveMatch"} => h.body \in Rules
    PROVE  /\ RouterNext \/ UNCHANGED routerVars
           /\ DOMAIN task' = DOMAIN task
  <1>1. CASE BusRequestName(id, h)
    <2>1. CASE RequestName(id, h.body)
      <3>1. h.body \in Askable
        BY <2>1, OnlyAskable DEF RequestName, Claim
      <3> QED
        BY <1>1, <2>1, <3>1 DEF BusRequestName, Decide, Become, RouterNext
    <2> QED
      BY <1>1, <2>1 DEF BusRequestName, Decide, Become
  <1>2. CASE BusReleaseName(id, h)
    <2>1. CASE ReleaseName(id, h.body)
      <3>1. h.body \in Askable
        BY <2>1, OnlyAskable DEF ReleaseName, Release
      <3> QED
        BY <1>2, <2>1, <3>1 DEF BusReleaseName, Decide, Become, RouterNext
    <2> QED
      BY <1>2, <2>1 DEF BusReleaseName, Decide, Become
  <1>3. CASE BusUpdatePeer(id, h)
    BY <1>3 DEF BusUpdatePeer, Decide, Become, RouterNext
  <1>4. CASE BusQuery(id, h)
    BY <1>4 DEF BusQuery, Decide, Become
  <1> QED
    BY <1>1, <1>2, <1>3, <1>4 DEF BusMethod

(* Stamping a message leaves its member and its body alone. *)
LEMMA Stamped ==
    ASSUME NEW m \in Inputs, NEW s, NEW u
    PROVE  LET h == [m EXCEPT !.serial = s, !.sender = u]
           IN  h.member = m.member /\ h.body = m.body
  <1>1. "member" \in DOMAIN BlankHeader /\ "body" \in DOMAIN BlankHeader
    BY DEF BlankHeader
  <1>2. m = [f \in DOMAIN BlankHeader |-> m[f]]
    BY InputsAssumption
  <1>3. "member" \in DOMAIN m /\ "body" \in DOMAIN m
    BY <1>1, <1>2
  <1> QED
    BY <1>3

(* So a reader that takes up a message does no more to the table. *)
LEMMA RecvStep ==
    ASSUME NEW id \in Minted, NEW m \in Inputs, Recv(id, m)
    PROVE  /\ RouterNext \/ UNCHANGED routerVars
           /\ DOMAIN task' = DOMAIN task /\ modules' = modules
  <1> DEFINE h == [m EXCEPT !.serial = sent + 1, !.sender = Unique(id)]
  <1>1. h.member = m.member /\ h.body = m.body
    BY Stamped
  <1>2. /\ h.member = "Announce" => h.body \in Manifests
        /\ h.member \in {"AddMatch", "RemoveMatch"} => h.body \in Rules
    BY <1>1, InputsAssumption
  <1>3. modules' = modules
    BY DEF Recv, hostVars
  <1> HIDE DEF h
  <1>4. CASE Fail(id, h) /\ UNCHANGED routerVars
    BY <1>3, <1>4 DEF Fail, Become
  <1>5. CASE RouteSignal(id, h) \/ RouteDirected(id, h) \/ RouteToPeer(id, h)
    BY <1>3, <1>5 DEF RouteSignal, RouteDirected, RouteToPeer, Fail, Become
  <1>6. CASE BusMethod(id, h)
    BY <1>2, <1>3, <1>6, BusMethodStep
  <1> QED
    BY <1>4, <1>5, <1>6 DEF Recv, h

(* The steps that leave the table and the host's records alone. *)
LEMMA QuietStep ==
    ASSUME NEW t, \/ Gate(t) \/ Send(t) \/ LookUpCaller(t) \/ SendReply(t) \/ Refuse(t)
                  \/ Announce(t) \/ TrySend(t) \/ WriterStep(t)
    PROVE  /\ UNCHANGED routerVars
           /\ DOMAIN task' = DOMAIN task /\ modules' = modules
  BY DEF Gate, Send, LookUpCaller, SendReply, Refuse, Announce, TrySend, WriterStep,
         WriterSend, WriterRefuse, WriterFail, WriterEnd, Fail, Become, hostVars

(* What the module host does is an operation of the table, or none. *)
LEMMA HostTableStep ==
    ASSUME NEW id \in Minted, NEW h \in HostTasks, TasksMinted,
           \/ StartModule(id) \/ HostAttest(id) \/ HostSettle(id) \/ HostCallback(id)
           \/ \E n \in ModuleNames : HostReserve(id, n)
           \/ HostDetach(h, id)
           \/ \E n \in RuntimeNames : HostClaim(h, id, n) \/ HostRelease(h, id, n)
    PROVE  /\ RouterNext \/ UNCHANGED routerVars
           /\ DOMAIN task' = DOMAIN task /\ ModulesMinted'
           /\ nextId' = nextId
  <1> USE DEF TasksMinted, ModulesMinted, Minted, hostVars
  <1>1. CASE StartModule(id) \/ HostSettle(id)
    BY <1>1 DEF StartModule, HostSettle, Become, routerVars
  <1>2. CASE HostAttest(id)
    BY <1>2 DEF HostAttest, brokerVars, RouterNext, SetAttestation, UpdatePeer
  <1>3. CASE HostCallback(id)
    BY <1>3 DEF HostCallback, RouterNext, brokerVars, PrepareCallback, BindCallback,
                AddHostCallbacks, RevokeHostCallbacks, RevokeCallbacksForPeer
  <1>4. CASE \E n \in ModuleNames : HostReserve(id, n)
    BY <1>4, BoundsAssumption
    DEF HostReserve, RouterNext, Askable, Put, RequestNameForUnique, Claim
  <1>5. CASE HostDetach(h, id)
    BY <1>5 DEF HostDetach, RouterNext, DetachUnique, Detach
  <1>6. CASE \E n \in RuntimeNames : HostClaim(h, id, n) \/ HostRelease(h, id, n)
    BY <1>6, BoundsAssumption
    DEF HostClaim, HostRelease, RouterNext, Askable, Become, RequestNameForUnique,
        ReleaseNameForUnique, Claim, Release
  <1> QED
    BY <1>1, <1>2, <1>3, <1>4, <1>5, <1>6

-----------------------------------------------------------------------------
(* Every step of the broker is a step of the table or leaves it alone, and
   keeps tasks and modules within the identities that were minted. *)
LEMMA BrokerStep ==
    ASSUME TasksMinted, [BrokerNext]_vars
    PROVE  TasksMinted' /\ [RouterNext]_routerVars
  <1>0. \A id \in Readers : id \in Minted
    BY DEF TasksMinted, Readers
  <1>1. ASSUME DOMAIN task' = DOMAIN task, ModulesMinted', nextId' = nextId
        PROVE  TasksMinted'
    BY <1>1 DEF TasksMinted, Minted
  <1>2. ASSUME modules' = modules, Minted \subseteq Minted' PROVE ModulesMinted'
    BY <1>2 DEF TasksMinted, ModulesMinted
  <1>3. ASSUME NEW pc, NEW w, AttachAs(pc, w)
        PROVE  TasksMinted' /\ [RouterNext]_routerVars
    <2>1. nextId' = nextId + 1 /\ nextId \in Nat /\ RouterNext
      BY <1>3 DEF AttachAs, Attach, TasksMinted, RouterNext
    <2>2. Minted \subseteq Minted' /\ nextId + 1 \in Minted'
      BY <2>1 DEF Minted
    <2>3. DOMAIN task' = DOMAIN task \cup {nextId + 1} /\ modules' = modules
      BY <1>3 DEF AttachAs, Put, hostVars
    <2> QED
      BY <1>2, <2>1, <2>2, <2>3 DEF TasksMinted
  <1>4. ASSUME RouterNext \/ UNCHANGED routerVars, ~Attach PROVE nextId' = nextId
    BY <1>4
    DEF RouterNext, routerVars, Detach, DetachUnique, RequestName, RequestNameForUnique,
        Claim, ReleaseName, ReleaseNameForUnique, Release, SetManifest, AddMatch,
        RemoveMatch, SetAttestation, UpdatePeer, PrepareCallback, BindCallback,
        AddHostCallbacks, RevokeHostCallbacks, RevokeCallbacksForPeer
  <1>5. ASSUME NEW id \in Readers, NEW m \in Inputs, Recv(id, m)
        PROVE  TasksMinted' /\ [RouterNext]_routerVars
    <2>1. /\ RouterNext \/ UNCHANGED routerVars
          /\ DOMAIN task' = DOMAIN task /\ modules' = modules
      BY <1>0, <1>5, RecvStep
    <2>2. nextId' = nextId \/ nextId' = nextId + 1
      BY <1>4, <2>1 DEF Attach
    <2>3. Minted \subseteq Minted' /\ nextId' \in Nat
      BY <2>2 DEF Minted, TasksMinted
    <2> QED
      BY <1>2, <2>1, <2>3 DEF TasksMinted
  <1>6. ASSUME NEW t, \/ ReaderStep(t) \/ WriterStep(t) \/ Announce(t) \/ TrySend(t)
        PROVE  TasksMinted' /\ [RouterNext]_routerVars
    <2>1. UNCHANGED routerVars /\ DOMAIN task' = DOMAIN task /\ modules' = modules
      BY <1>6, QuietStep DEF ReaderStep
    <2>2. nextId' = nextId /\ Minted \subseteq Minted'
      BY <2>1 DEF routerVars, Minted
    <2> QED
      BY <1>1, <1>2, <2>1, <2>2
  <1>7. ASSUME NEW id \in Readers, Disconnect(id)
        PROVE  TasksMinted' /\ [RouterNext]_routerVars
    <2>1. /\ nextId' = nextId
          /\ RouterNext \/ UNCHANGED routerVars
          /\ DOMAIN task' = DOMAIN task /\ modules' = modules
      BY <1>0, <1>7 DEF Disconnect, Detach, RouterNext, routerVars, Become, hostVars
    <2>2. Minted \subseteq Minted'
      BY <2>1 DEF Minted
    <2> QED
      BY <1>1, <1>2, <2>1, <2>2
  <1>8. ASSUME HostStep PROVE TasksMinted' /\ [RouterNext]_routerVars
    <2>1. CASE AttachModuleStaged
      BY <1>3, <2>1 DEF AttachModuleStaged
    <2>2. ASSUME NEW h \in HostTasks, NEW c \in reserved, AnnounceReserved(h, c)
          PROVE  TasksMinted' /\ [RouterNext]_routerVars
      <3>1. UNCHANGED routerVars /\ DOMAIN task' = DOMAIN task /\ modules' = modules
        BY <2>2 DEF AnnounceReserved, Become
      <3>2. nextId' = nextId /\ Minted \subseteq Minted'
        BY <3>1 DEF routerVars, Minted
      <3> QED
        BY <1>1, <1>2, <3>1, <3>2
    <2>3. ASSUME NEW id \in Readers, NEW h \in HostTasks,
                 \/ StartModule(id) \/ HostAttest(id) \/ HostSettle(id)
                 \/ HostCallback(id)
                 \/ \E n \in ModuleNames : HostReserve(id, n)
                 \/ HostDetach(h, id)
                 \/ \E n \in RuntimeNames : HostClaim(h, id, n) \/ HostRelease(h, id, n)
          PROVE  TasksMinted' /\ [RouterNext]_routerVars
      BY <1>0, <1>1, <2>3, HostTableStep
    <2>4. PICK h \in HostTasks : TRUE
      BY <1>8 DEF HostStep
    <2> QED
      BY <1>8, <2>1, <2>2, <2>3, <2>4 DEF HostStep
  <1>9. CASE UNCHANGED vars
    BY <1>9 DEF vars, routerVars, brokerVars, hostVars, TasksMinted, ModulesMinted, Minted
  <1> QED
    BY <1>3, <1>5, <1>6, <1>7, <1>8, <1>9 DEF BrokerNext, AttachPeer

(* The broker implements the routing table: reader tasks, writer tasks and
   the module host, in any interleaving, change the table only by the
   operations of router.rs. *)
THEOREM Refinement == BrokerSpec => RouterSpec
  <1>1. BrokerInit => RouterInit /\ TasksMinted
    BY DEF BrokerInit, TasksMinted, ModulesMinted, RouterInit, Minted
  <1>2. TasksMinted /\ [BrokerNext]_vars => TasksMinted' /\ [RouterNext]_routerVars
    BY BrokerStep
  <1> QED
    BY <1>1, <1>2, PTL DEF BrokerSpec, RouterSpec

(* So under a running broker no name outlives its owner, unique names lead
   to their connection, and registered capabilities join live peers. *)
THEOREM BrokerTable ==
    BrokerSpec => []TableLive
  BY Refinement, NoOrphanNames, UniqueNamesHold, CapabilitiesLive, RevocationSticks, PTL DEF TableLive

-----------------------------------------------------------------------------

(* Every call is settled once. *)

Cells == [caller : Nat, answers : Nat]

Busy == {"gate", "send", "refuse", "bus", "reply"}

(* The serial of what a busy reader has in hand. *)
SerialOf(x) == IF x.pc \in {"bus", "reply"} THEN x.msg.reply_serial ELSE x.msg.serial

Has(x, s) == x.pc \in Busy /\ SerialOf(x) = s

(* Where a reader can be; after an announcement it goes back to its link. *)
Placed(x) ==
    /\ DOMAIN x = {"pc", "msg", "to", "fan", "todo", "then"}
    /\ x.pc \in Busy \cup {"staged", "recv", "announce", "fan", "done"}
    /\ x.pc \in {"announce", "fan"} => x.then \in {"recv", "done"}
    /\ x.pc = "bus" => "serial" \in DOMAIN x.msg

(* What a reader has in hand it read itself, or nobody waits for it; only
   calls are waited for; and a staged peer's channel is open. *)
ReaderFits(id) ==
    LET x == task[id]  s == SerialOf(x) IN
    /\ Placed(x)
    /\ x.pc \in Busy => s \in DOMAIN fate /\ fate[s].caller \in {0, id}
    /\ x.pc \in {"gate", "send"} /\ fate[s].caller # 0 => x.msg.type = "method_call"
    /\ x.pc = "staged" => writer[id] = "staged"

(* A call is in its own reader's hands, or settled. *)
CallFits(s) ==
    LET c == fate[s].caller IN
    c # 0 => /\ c \in Readers
             /\ IF Has(task[c], s) THEN fate[s].answers = 0
                ELSE fate[s].answers = 1 \/ (fate[s].answers = 0 /\ ~Open(c))

SettleInv ==
    /\ fate \in Seq(Cells) /\ Len(fate) = sent
    /\ Readers \subseteq DOMAIN writer
    /\ \A id \in Readers : ReaderFits(id)
    /\ \A s \in DOMAIN fate : CallFits(s)

(* A broker that has read nothing has settled everything. *)
LEMMA SettleInit == BrokerInit => SettleInv
  <1> SUFFICES ASSUME BrokerInit PROVE SettleInv
    OBVIOUS
  <1>1. fate = <<>> /\ sent = 0 /\ DOMAIN task = HostTasks
    BY DEF BrokerInit
  <1>2. fate \in Seq(Cells) /\ Len(fate) = 0 /\ DOMAIN fate = {}
    BY <1>1
  <1>3. Readers = {}
    BY <1>1 DEF Readers
  <1>4. QED
    BY <1>1, <1>2, <1>3 DEF SettleInv

(* What the next place of a task looks like. *)
LEMMA TaskFields ==
    ASSUME NEW todo, NEW m, NEW fan, NEW then, then \notin {"announce", "fan"}
    PROVE  /\ Idle(then).pc = then
           /\ \A x \in {Idle(then), Announcing(todo, then), Fanning(m, fan, todo, then)} :
                DOMAIN x = {"pc", "msg", "to", "fan", "todo", "then"}
           /\ Announcing(todo, then).pc \in {then, "announce"}
           /\ Announcing(todo, then).pc = "announce" => Announcing(todo, then).then = then
           /\ Fanning(m, fan, todo, then).pc \in {then, "announce", "fan"}
           /\ Fanning(m, fan, todo, then).pc \in {"announce", "fan"} =>
                Fanning(m, fan, todo, then).then = then
           /\ Fanning(m, fan, todo, then).pc = "fan" =>
                /\ Fanning(m, fan, todo, then).msg = m
                /\ Fanning(m, fan, todo, then).fan = fan
  <1>1. DOMAIN Idle(then) = {"pc", "msg", "to", "fan", "todo", "then"} /\ Idle(then).pc = then
    BY DEF Idle
  <1>2. /\ DOMAIN Announcing(todo, then) = {"pc", "msg", "to", "fan", "todo", "then"}
        /\ Announcing(todo, then).pc \in {then, "announce"}
        /\ Announcing(todo, then).pc = "announce" => Announcing(todo, then).then = then
    BY DEF Idle, Announcing
  <1>3. CASE fan = {}
    BY <1>1, <1>2, <1>3 DEF Fanning
  <1>4. CASE fan # {}
    <2>1. /\ DOMAIN Fanning(m, fan, todo, then) = {"pc", "msg", "to", "fan", "todo", "then"}
          /\ Fanning(m, fan, todo, then).pc = "fan" /\ Fanning(m, fan, todo, then).msg = m
          /\ Fanning(m, fan, todo, then).fan = fan /\ Fanning(m, fan, todo, then).then = then
      BY <1>4 DEF Idle, Fanning
    <2>2. QED
      BY <1>1, <1>2, <2>1
  <1>5. QED
    BY <1>3, <1>4

(* What a reader may do while no answer is given: go on with what it has in
   hand, or drop what nobody waits for or whose caller is closed. *)
GoesOn(p, x, y) ==
    /\ Placed(y)
    /\ \/ x.pc \notin Busy /\ y.pc \notin Busy
       \/ /\ x.pc \in Busy /\ y.pc \in Busy /\ SerialOf(y) = SerialOf(x)
          /\ y.pc \in {"gate", "send"} => x.pc \in {"gate", "send"} /\ y.msg = x.msg
       \/ x.pc \in Busy /\ y.pc \notin Busy /\ (fate[SerialOf(x)].caller = 0 \/ ~Open(p))

(* As long as no answer is given and readers go on, nothing is lost: a
   reader that drops a call in hand does so because its caller's writer is
   gone. *)
LEMMA ReadersGoOn ==
    ASSUME SettleInv, UNCHANGED <<fate, sent>>, DOMAIN task' = DOMAIN task,
           Readers \subseteq DOMAIN writer',
           \A p \in Readers : writer'[p] # "closed" => Open(p),
           \A p \in Readers : task'[p].pc = "staged" => writer'[p] = "staged",
           \A p \in Readers : task'[p] = task[p] \/ GoesOn(p, task[p], task'[p])
    PROVE  SettleInv'
  <1>1. Readers' = Readers /\ fate' = fate
    BY DEF Readers
  <1>2. ASSUME NEW p \in Readers PROVE ReaderFits(p)'
    BY <1>1 DEF SettleInv, ReaderFits, GoesOn, Placed
  <1>3. ASSUME NEW s \in DOMAIN fate PROVE CallFits(s)'
    <2> DEFINE c == fate[s].caller
    <2> SUFFICES ASSUME c # 0
                 PROVE  /\ c \in Readers
                        /\ IF Has(task'[c], s) THEN fate[s].answers = 0
                           ELSE fate[s].answers = 1 \/ (fate[s].answers = 0 /\ writer'[c] = "closed")
      BY <1>1 DEF CallFits, Open, Has, SerialOf
    <2>1. /\ c \in Readers
          /\ IF Has(task[c], s) THEN fate[s].answers = 0
             ELSE fate[s].answers = 1 \/ (fate[s].answers = 0 /\ ~Open(c))
      BY DEF SettleInv, CallFits
    <2>2. writer'[c] # "closed" => Open(c)
      BY <2>1
    <2>3. CASE task'[c] = task[c]
      BY <2>1, <2>2, <2>3
    <2>4. CASE GoesOn(c, task[c], task'[c])
      <3>1. Has(task'[c], s) => Has(task[c], s)
        BY <2>4 DEF GoesOn, Has
      <3>2. Has(task[c], s) /\ ~Has(task'[c], s) => ~Open(c)
        BY <2>4 DEF GoesOn, Has
      <3>3. QED
        BY <2>1, <2>2, <3>1, <3>2
    <2>5. QED
      BY <2>1, <2>3, <2>4
  <1>4. QED
    BY <1>1, <1>2, <1>3 DEF SettleInv

(* One task goes on. *)
LEMMA OneGoesOn ==
    ASSUME SettleInv, UNCHANGED <<fate, sent, writer>>, NEW t \in DOMAIN task, NEW y,
           Become(t, y), y.pc # "staged", t \in Readers => GoesOn(t, task[t], y)
    PROVE  SettleInv'
  <1>1. DOMAIN task' = DOMAIN task /\ task'[t] = y /\ \A o \in DOMAIN task \ {t} : task'[o] = task[o]
    BY DEF Become
  <1>2. \A p \in Readers : writer'[p] # "closed" => Open(p)
    BY DEF Open
  <1>3. \A p \in Readers : task'[p].pc = "staged" => writer'[p] = "staged"
    BY <1>1 DEF Readers, SettleInv, ReaderFits
  <1>4. \A p \in Readers : task'[p] = task[p] \/ GoesOn(p, task[p], task'[p])
    BY <1>1 DEF Readers
  <1>5. Readers \subseteq DOMAIN writer'
    BY DEF SettleInv
  <1>6. QED
    BY <1>1, <1>2, <1>3, <1>4, <1>5, ReadersGoOn

(* The answer of what a reader has in hand. *)
LEMMA OneAnswers ==
    ASSUME SettleInv, UNCHANGED <<sent, writer>>, NEW t \in Readers, NEW y, Become(t, y),
           task[t].pc \in Busy, Placed(y), y.pc \notin Busy \cup {"staged"},
           NEW s, s = SerialOf(task[t]), Answered(s)
    PROVE  SettleInv'
  <1>1. /\ DOMAIN task' = DOMAIN task /\ task'[t] = y
        /\ \A o \in DOMAIN task \ {t} : task'[o] = task[o]
    BY DEF Become, Readers
  <1>2. Readers' = Readers
    BY <1>1 DEF Readers
  <1>3. /\ s \in DOMAIN fate /\ fate[s].caller \in {0, t} /\ Has(task[t], s)
        /\ fate \in Seq(Cells)
    BY DEF SettleInv, ReaderFits, Has
  <1> DEFINE n == fate[s].answers + 1
             v == [fate[s] EXCEPT !.answers = n]
  <1>4. fate[s] \in Cells
    BY <1>3
  <1>5. n \in Nat
    BY <1>4 DEF Cells
  <1>6. fate' = [fate EXCEPT ![s] = v]
    BY DEF Answered
  <1>7. v \in Cells /\ v.caller = fate[s].caller /\ v.answers = fate[s].answers + 1
    BY <1>4, <1>5 DEF Cells
  <1> HIDE DEF n, v
  <1>8. s \in 1..Len(fate)
    BY <1>3
  <1>9. fate' \in Seq(Cells) /\ Len(fate') = Len(fate)
    BY <1>3, <1>6, <1>7, <1>8, ExceptSeq
  <1>10. /\ DOMAIN fate' = DOMAIN fate /\ fate'[s] = v
         /\ \A i \in DOMAIN fate \ {s} : fate'[i] = fate[i]
    BY <1>3, <1>6
  <1>11. \A i \in DOMAIN fate : fate'[i].caller = fate[i].caller
    BY <1>7, <1>10
  <1>12. ASSUME NEW p \in Readers PROVE ReaderFits(p)'
    <2>1. CASE p = t
      BY <1>1, <2>1 DEF ReaderFits, Placed, Busy
    <2>2. CASE p # t
      <3>1. task'[p] = task[p] /\ ReaderFits(p)
        BY <1>1, <2>2 DEF Readers, SettleInv
      <3>2. task[p].pc \in Busy => fate'[SerialOf(task[p])].caller = fate[SerialOf(task[p])].caller
        BY <1>11, <3>1 DEF ReaderFits
      <3>3. QED
        BY <1>10, <3>1, <3>2 DEF ReaderFits, Busy, SerialOf
    <2>3. QED
      BY <2>1, <2>2
  <1>13. ASSUME NEW i \in DOMAIN fate, NEW c, c = fate[i].caller, c # 0
         PROVE  /\ c \in Readers
                /\ IF Has(task'[c], i) THEN fate'[i].answers = 0
                   ELSE fate'[i].answers = 1 \/ (fate'[i].answers = 0 /\ ~Open(c))
    <2>1. /\ c \in Readers
          /\ IF Has(task[c], i) THEN fate[i].answers = 0
             ELSE fate[i].answers = 1 \/ (fate[i].answers = 0 /\ ~Open(c))
      BY <1>13 DEF SettleInv, CallFits
    <2>2. ~Has(task'[t], i)
      BY <1>1 DEF Has
    <2>3. CASE i = s
      <3>1. c = t /\ fate[i].answers = 0
        BY <1>3, <1>13, <2>1, <2>3
      <3>2. fate'[i].answers = 1
        BY <1>7, <1>10, <2>3, <3>1
      <3>3. QED
        BY <2>1, <2>2, <3>1, <3>2
    <2>4. CASE i # s /\ c = t
      <3>1. ~Has(task[t], i)
        BY <1>3, <2>4 DEF Has
      <3>2. QED
        BY <1>10, <2>1, <2>2, <2>4, <3>1
    <2>5. CASE i # s /\ c # t
      <3>1. task'[c] = task[c] /\ fate'[i] = fate[i]
        BY <1>1, <1>10, <2>1, <2>5 DEF Readers
      <3>2. QED
        BY <2>1, <3>1
    <2>6. QED
      BY <2>3, <2>4, <2>5
  <1>14. ASSUME NEW i \in DOMAIN fate PROVE CallFits(i)'
    BY <1>2, <1>11, <1>13 DEF CallFits, Open, Has, SerialOf
  <1>15. QED
    BY <1>2, <1>9, <1>10, <1>12, <1>14 DEF SettleInv

(* A message is read: a call is in its reader's hands from now on. *)
LEMMA OneReads ==
    ASSUME SettleInv, UNCHANGED writer, NEW t \in Readers, t \in Nat, NEW y, Become(t, y),
           task[t].pc = "recv", Placed(y), y.pc # "staged", NEW call \in BOOLEAN,
           sent \in Nat, sent' = sent + 1,
           fate' = Append(fate, [caller |-> IF call THEN t ELSE 0, answers |-> 0]),
           \/ y.pc \in Busy /\ SerialOf(y) = sent + 1
           \/ y.pc \notin Busy /\ ~call,
           y.pc \in {"gate", "send"} /\ call => y.msg.type = "method_call"
    PROVE  SettleInv'
  <1>1. /\ DOMAIN task' = DOMAIN task /\ task'[t] = y
        /\ \A o \in DOMAIN task \ {t} : task'[o] = task[o]
    BY DEF Become, Readers
  <1>2. Readers' = Readers
    BY <1>1 DEF Readers
  <1> DEFINE v == [caller |-> IF call THEN t ELSE 0, answers |-> 0]
  <1>0. PICK n \in Nat : n = sent + 1
    OBVIOUS
  <1>3. v \in Cells /\ v.caller = (IF call THEN t ELSE 0) /\ v.answers = 0
    BY DEF Cells
  <1>4. fate \in Seq(Cells) /\ Len(fate) = sent /\ fate' = Append(fate, v)
    BY DEF SettleInv
  <1> HIDE DEF v
  <1>5. /\ fate' \in Seq(Cells) /\ Len(fate') = sent + 1
        /\ \A i \in 1..sent : fate'[i] = fate[i]
        /\ fate'[n] = v
    BY <1>0, <1>3, <1>4, AppendProperties
  <1>6. DOMAIN fate = 1..sent /\ DOMAIN fate' = 1..n /\ n \in 1..n /\ n \notin 1..sent
    BY <1>0, <1>4, <1>5
  <1>7. \A i \in 1..n : i \in 1..sent \/ i = n
    BY <1>0
  <1>8. 1..sent \subseteq 1..n
    BY <1>0
  <1>9. (SerialOf(y) = n /\ y.pc \in Busy) \/ (y.pc \notin Busy /\ ~call)
    BY <1>0
  <1>10. ASSUME NEW p \in Readers PROVE ReaderFits(p)'
    <2>1. CASE p = t
      <3>1. y.pc \in Busy => SerialOf(y) \in DOMAIN fate' /\ fate'[SerialOf(y)].caller \in {0, t}
        BY <1>3, <1>5, <1>6, <1>9
      <3>2. y.pc \in {"gate", "send"} /\ fate'[SerialOf(y)].caller # 0 => y.msg.type = "method_call"
        BY <1>3, <1>5, <1>9 DEF Busy
      <3>3. QED
        BY <1>1, <2>1, <3>1, <3>2 DEF ReaderFits, Placed, SerialOf
    <2>2. CASE p # t
      <3>1. task'[p] = task[p] /\ ReaderFits(p)
        BY <1>1, <2>2 DEF Readers, SettleInv
      <3>2. task[p].pc \in Busy =>
               SerialOf(task[p]) \in 1..sent /\ fate'[SerialOf(task[p])] = fate[SerialOf(task[p])]
        BY <1>5, <1>6, <3>1 DEF ReaderFits
      <3>3. QED
        BY <1>6, <1>8, <3>1, <3>2 DEF ReaderFits, Busy, SerialOf
    <2>3. QED
      BY <2>1, <2>2
  <1>11. ASSUME NEW i \in 1..sent, NEW c, c = fate[i].caller, c # 0
         PROVE  /\ c \in Readers
                /\ IF Has(task'[c], i) THEN fate[i].answers = 0
                   ELSE fate[i].answers = 1 \/ (fate[i].answers = 0 /\ ~Open(c))
    <2>1. /\ c \in Readers
          /\ IF Has(task[c], i) THEN fate[i].answers = 0
             ELSE fate[i].answers = 1 \/ (fate[i].answers = 0 /\ ~Open(c))
      BY <1>6, <1>11 DEF SettleInv, CallFits
    <2>2. CASE c = t
      <3>1. ~Has(task[t], i)
        BY DEF Has, Busy
      <3>2. ~Has(task'[t], i)
        BY <1>1, <1>6, <1>9 DEF Has
      <3>3. QED
        BY <2>1, <2>2, <3>1, <3>2
    <2>3. CASE c # t
      BY <1>1, <2>1, <2>3 DEF Readers
    <2>4. QED
      BY <2>2, <2>3
  <1>12. ASSUME NEW i \in 1..sent PROVE CallFits(i)'
    BY <1>2, <1>5, <1>11 DEF CallFits, Open, Has, SerialOf
  <1>13. CallFits(n)'
    <2>0. task'[t] = y /\ t \in Readers' /\ fate'[n] = v
      BY <1>1, <1>2, <1>5
    <2>1. v.caller # 0 => v.caller = t /\ Has(y, n)
      BY <1>3, <1>9 DEF Has
    <2>2. QED
      BY <1>3, <2>0, <2>1 DEF CallFits, Has, SerialOf
  <1>14. QED
    BY <1>2, <1>5, <1>6, <1>7, <1>10, <1>12, <1>13 DEF SettleInv

(* A call that cannot be routed is about to be refused. *)
LEMMA FailGoesOn ==
    ASSUME SettleInv, NEW id \in Readers, task[id].pc \in {"gate", "send"},
           Fail(id, task[id].msg), UNCHANGED <<fate, sent, writer>>
    PROVE  SettleInv'
  <1> DEFINE x == task[id]
  <1>1. ReaderFits(id) /\ id \in DOMAIN task
    BY DEF SettleInv, Readers
  <1>2. CASE x.msg.type = "method_call"
    <2> DEFINE y == [Idle("recv") EXCEPT !.pc = "refuse", !.msg = x.msg]
    <2>1. /\ y.pc = "refuse" /\ y.msg = x.msg
          /\ DOMAIN y = {"pc", "msg", "to", "fan", "todo", "then"}
      BY DEF Idle
    <2>2. Become(id, y)
      BY <1>2 DEF Fail
    <2> HIDE DEF y
    <2>3. GoesOn(id, x, y)
      BY <2>1 DEF GoesOn, Placed, Busy, SerialOf
    <2>4. QED
      BY <1>1, <2>1, <2>2, <2>3, OneGoesOn
  <1>3. CASE x.msg.type # "method_call"
    <2>1. /\ Become(id, Idle("recv")) /\ Idle("recv").pc = "recv"
          /\ DOMAIN Idle("recv") = {"pc", "msg", "to", "fan", "todo", "then"}
      BY <1>3 DEF Fail, Idle
    <2>2. GoesOn(id, x, Idle("recv"))
      BY <1>1, <1>3, <2>1 DEF GoesOn, Placed, Busy, ReaderFits
    <2>3. QED
      BY <1>1, <2>1, <2>2, OneGoesOn
  <1>4. QED
    BY <1>2, <1>3

(* The host's word (`unavailable_for`) lets the call on or has it refused. *)
LEMMA GateSettles ==
    ASSUME SettleInv, NEW id \in Readers, Gate(id)
    PROVE  SettleInv'
  <1>1. /\ task[id].pc = "gate" /\ UNCHANGED <<fate, sent, writer>> /\ id \in DOMAIN task
    BY DEF Gate, histVars, Readers
  <1>2. CASE Fail(id, task[id].msg)
    BY <1>1, <1>2, FailGoesOn
  <1>3. CASE Become(id, [task[id] EXCEPT !.pc = "send"])
    <2> DEFINE y == [task[id] EXCEPT !.pc = "send"]
    <2>1. /\ y.pc = "send" /\ y.msg = task[id].msg
          /\ DOMAIN y = {"pc", "msg", "to", "fan", "todo", "then"}
      <3>1. DOMAIN task[id] = {"pc", "msg", "to", "fan", "todo", "then"}
        BY <1>1 DEF SettleInv, ReaderFits, Placed
      <3>2. QED
        BY <3>1
    <2> HIDE DEF y
    <2>2. GoesOn(id, task[id], y)
      BY <1>1, <2>1 DEF GoesOn, Placed, Busy, SerialOf
    <2>3. Become(id, y)
      BY <1>3 DEF y
    <2>4. QED
      BY <1>1, <2>1, <2>2, <2>3, OneGoesOn
  <1>4. QED
    BY <1>2, <1>3 DEF Gate

(* The message is queued, or its destination's writer is gone. *)
LEMMA SendSettles ==
    ASSUME SettleInv, NEW id \in Readers, Send(id)
    PROVE  SettleInv'
  <1>1. /\ task[id].pc = "send" /\ UNCHANGED <<sent, writer>>
        /\ \/ Become(id, Idle("recv")) /\ Answered(task[id].msg.serial)
           \/ Fail(id, task[id].msg) /\ UNCHANGED fate
    BY DEF Send
  <1>2. CASE Become(id, Idle("recv")) /\ Answered(task[id].msg.serial)
    <2>1. Placed(Idle("recv")) /\ Idle("recv").pc \notin Busy \cup {"staged"}
      BY DEF Placed, Idle, Busy
    <2>2. task[id].pc \in Busy /\ task[id].msg.serial = SerialOf(task[id])
      BY <1>1 DEF Busy, SerialOf
    <2>3. QED
      BY <1>1, <1>2, <2>1, <2>2, OneAnswers
  <1>3. CASE Fail(id, task[id].msg) /\ UNCHANGED fate
    BY <1>1, <1>3, FailGoesOn
  <1>4. QED
    BY <1>1, <1>2, <1>3

(* The bus method's caller is still there, or refused. *)
LEMMA LookUpSettles ==
    ASSUME SettleInv, NEW id \in Readers, LookUpCaller(id)
    PROVE  SettleInv'
  <1> DEFINE x == task[id]
  <1>1. x.pc = "bus" /\ UNCHANGED <<fate, sent, writer>> /\ id \in DOMAIN task /\ ReaderFits(id)
    BY DEF LookUpCaller, histVars, Readers, SettleInv
  <1>2. DOMAIN x = {"pc", "msg", "to", "fan", "todo", "then"} /\ "serial" \in DOMAIN x.msg
    BY <1>1 DEF ReaderFits, Placed
  <1>3. CASE Become(id, [x EXCEPT !.pc = "reply"])
    <2> DEFINE y == [x EXCEPT !.pc = "reply"]
    <2>1. /\ y.pc = "reply" /\ y.msg = x.msg
          /\ DOMAIN y = {"pc", "msg", "to", "fan", "todo", "then"}
      BY <1>2
    <2>2. Become(id, y)
      BY <1>3
    <2> HIDE DEF y
    <2>3. GoesOn(id, x, y)
      BY <1>1, <2>1 DEF GoesOn, Placed, Busy, SerialOf
    <2>4. QED
      BY <1>1, <2>1, <2>2, <2>3, OneGoesOn
  <1>4. CASE Become(id, Idle("recv")) /\ fate[x.msg.reply_serial].caller = 0
    <2>1. Placed(Idle("recv")) /\ Idle("recv").pc \notin Busy \cup {"staged"}
      BY DEF Placed, Idle, Busy
    <2>2. GoesOn(id, x, Idle("recv"))
      BY <1>1, <1>4, <2>1 DEF GoesOn, Busy, SerialOf
    <2>3. QED
      BY <1>1, <1>4, <2>1, <2>2, OneGoesOn
  <1>5. CASE Become(id, [Idle("recv") EXCEPT !.pc = "refuse", !.msg =
                           [x.msg EXCEPT !.serial = x.msg.reply_serial]])
    <2> DEFINE q == [x.msg EXCEPT !.serial = x.msg.reply_serial]
               y == [Idle("recv") EXCEPT !.pc = "refuse", !.msg = q]
    <2>1. q.serial = x.msg.reply_serial
      BY <1>2
    <2>2. Become(id, y)
      BY <1>5
    <2> HIDE DEF q
    <2>3. /\ y.pc = "refuse" /\ y.msg = q
          /\ DOMAIN y = {"pc", "msg", "to", "fan", "todo", "then"}
      BY DEF Idle
    <2> HIDE DEF y
    <2>4. GoesOn(id, x, y)
      BY <1>1, <2>1, <2>3 DEF GoesOn, Placed, Busy, SerialOf
    <2>5. QED
      BY <1>1, <2>2, <2>3, <2>4, OneGoesOn
  <1>6. QED
    BY <1>3, <1>4, <1>5 DEF LookUpCaller

(* The reply is queued, or dropped with its closed caller. *)
LEMMA ReplySettles ==
    ASSUME SettleInv, NEW id \in Readers, SendReply(id)
    PROVE  SettleInv'
  <1> DEFINE x == task[id]
             y == Announcing(x.todo, "recv")
  <1>1. /\ x.pc = "reply" /\ UNCHANGED <<sent, writer>> /\ Become(id, y) /\ id \in DOMAIN task
        /\ Answered(x.msg.reply_serial) \/ (~Open(id) /\ UNCHANGED fate)
    BY DEF SendReply, Readers
  <1>2. /\ y.pc \in {"recv", "announce"} /\ (y.pc = "announce" => y.then = "recv")
        /\ DOMAIN y = {"pc", "msg", "to", "fan", "todo", "then"}
    BY TaskFields
  <1> HIDE DEF y
  <1>3. Placed(y) /\ y.pc \notin Busy \cup {"staged"}
    BY <1>2 DEF Placed, Busy
  <1>4. x.pc \in Busy /\ SerialOf(x) = x.msg.reply_serial
    BY <1>1 DEF Busy, SerialOf
  <1>5. CASE Answered(x.msg.reply_serial)
    BY <1>1, <1>3, <1>4, <1>5, OneAnswers
  <1>6. CASE ~Open(id) /\ UNCHANGED fate
    <2>1. GoesOn(id, x, y)
      BY <1>3, <1>4, <1>6 DEF GoesOn
    <2>2. QED
      BY <1>1, <1>3, <1>6, <2>1, OneGoesOn
  <1>7. QED
    BY <1>1, <1>5, <1>6

(* The error reply goes straight on the transport. *)
LEMMA RefuseSettles ==
    ASSUME SettleInv, NEW id \in Readers, Refuse(id)
    PROVE  SettleInv'
  <1>1. /\ task[id].pc = "refuse" /\ UNCHANGED <<sent, writer>>
        /\ Become(id, Idle("recv")) /\ Answered(task[id].msg.serial)
    BY DEF Refuse
  <1>2. Placed(Idle("recv")) /\ Idle("recv").pc \notin Busy \cup {"staged"}
    BY DEF Placed, Idle, Busy
  <1>3. task[id].pc \in Busy /\ task[id].msg.serial = SerialOf(task[id])
    BY <1>1 DEF Busy, SerialOf
  <1>4. QED
    BY <1>1, <1>2, <1>3, OneAnswers

(* Readers that end or announce, and host threads, have no call in hand. *)
LEMMA AnnouncingSettles ==
    ASSUME SettleInv, NEW t \in DOMAIN task,
           Announce(t) \/ TrySend(t) \/ (t \in Readers /\ Disconnect(t))
    PROVE  SettleInv'
  <1>1. CASE Announce(t) \/ TrySend(t)
    <2>1. PICK m, fan, todo : Become(t, Fanning(m, fan, todo, task[t].then))
      BY <1>1 DEF Announce, TrySend
    <2> DEFINE y == Fanning(m, fan, todo, task[t].then)
    <2>2. /\ UNCHANGED <<fate, sent, writer>> /\ task[t].pc \in {"announce", "fan"}
      BY <1>1 DEF Announce, TrySend, histVars
    <2>3. CASE t \in Readers
      <3>1. task[t].then \in {"recv", "done"}
        BY <2>2, <2>3 DEF SettleInv, ReaderFits, Placed
      <3>2. /\ y.pc \in {"recv", "done", "announce", "fan"}
            /\ y.pc \in {"announce", "fan"} => y.then \in {"recv", "done"}
            /\ DOMAIN y = {"pc", "msg", "to", "fan", "todo", "then"}
        BY <3>1, TaskFields
      <3> HIDE DEF y
      <3>3. GoesOn(t, task[t], y) /\ y.pc # "staged"
        BY <2>2, <3>2 DEF GoesOn, Placed, Busy
      <3>4. Become(t, y)
        BY <2>1 DEF y
      <3>5. QED
        BY <2>2, <3>3, <3>4, OneGoesOn
    <2>4. CASE t \notin Readers
      <3>1. /\ DOMAIN task' = DOMAIN task /\ \A o \in Readers : task'[o] = task[o]
        BY <2>1, <2>4 DEF Become, Readers
      <3>2. QED
        BY <2>2, <3>1, ReadersGoOn DEF SettleInv, ReaderFits, Open
    <2>5. QED
      BY <2>3, <2>4
  <1>2. CASE t \in Readers /\ Disconnect(t)
    <2>1. task[t].pc = "recv" /\ UNCHANGED <<fate, sent, writer>>
      BY <1>2 DEF Disconnect
    <2>2. PICK todo : Become(t, Announcing(todo, "done")) \/ Become(t, Idle("done"))
      BY <1>2 DEF Disconnect
    <2>3. PICK y \in {Announcing(todo, "done"), Idle("done")} : Become(t, y)
      BY <2>2
    <2>4. /\ y.pc \in {"done", "announce"} /\ (y.pc = "announce" => y.then = "done")
          /\ DOMAIN y = {"pc", "msg", "to", "fan", "todo", "then"}
      BY TaskFields DEF Idle
    <2>5. GoesOn(t, task[t], y) /\ y.pc # "staged"
      BY <2>1, <2>4 DEF GoesOn, Placed, Busy
    <2>6. QED
      BY <2>1, <2>3, <2>5, OneGoesOn
  <1>3. QED
    BY <1>1, <1>2

(* What a bus method leaves its reader with: a reply to the call. *)
LEMMA BusReplies ==
    ASSUME NEW id \in Readers, NEW h, BusMethod(id, h)
    PROVE  \E body, changes :
             \/ Decide(id, h, MethodReturn(h, body), changes)
             \/ Decide(id, h, ErrorReply(h, "error"), changes)
  <1>1. CASE BusRequestName(id, h)
    BY <1>1 DEF BusRequestName
  <1>2. CASE BusReleaseName(id, h)
    BY <1>2 DEF BusReleaseName
  <1>3. CASE BusUpdatePeer(id, h)
    BY <1>3 DEF BusUpdatePeer
  <1>4. CASE BusQuery(id, h)
    BY <1>4 DEF BusQuery
  <1>5. QED
    BY <1>1, <1>2, <1>3, <1>4 DEF BusMethod

(* The reply to a call names it. *)
LEMMA ReplyFields ==
    ASSUME NEW h, NEW body, NEW r \in {MethodReturn(h, body), ErrorReply(h, body)}
    PROVE  /\ r.reply_serial = h.serial /\ "serial" \in DOMAIN r
           /\ r.destination = h.sender
           /\ r.type \notin {"method_call", "directed_signal"}
  <1>1. CASE r = MethodReturn(h, body)
    BY <1>1 DEF MethodReturn, BlankHeader
  <1>2. CASE r = ErrorReply(h, body)
    BY <1>2 DEF ErrorReply, BlankHeader
  <1>3. QED
    BY <1>1, <1>2

(* A message that is read is a header. *)
LEMMA InputFields == \A m \in Inputs : DOMAIN m = DOMAIN BlankHeader
  <1>1. \A m \in Inputs : m = [f \in DOMAIN BlankHeader |-> m[f]]
    BY InputsAssumption
  <1>2. QED
    BY <1>1

(* Where a reader goes with a message. *)
LEMMA RecvPlaces ==
    ASSUME NEW id \in Readers, NEW m \in Inputs, Recv(id, m),
           NEW h, h = [m EXCEPT !.serial = sent + 1, !.sender = Unique(id)]
    PROVE  \E y : /\ Become(id, y) /\ Placed(y) /\ y.pc # "staged"
                  /\ \/ y.pc \in Busy /\ SerialOf(y) = sent + 1
                     \/ y.pc \notin Busy /\ h.type # "method_call"
                  /\ y.pc \in {"gate", "send"} => y.msg = h
  <1>0. "serial" \in DOMAIN m
    BY InputFields DEF BlankHeader
  <1>1. h.serial = sent + 1
    BY <1>0
  <1>2. CASE Fail(id, h)
    <2>1. CASE h.type = "method_call"
      <3> DEFINE y == [Idle("recv") EXCEPT !.pc = "refuse", !.msg = h]
      <3>1. /\ y.pc = "refuse" /\ y.msg = h
            /\ DOMAIN y = {"pc", "msg", "to", "fan", "todo", "then"}
        BY DEF Idle
      <3>2. Become(id, y)
        BY <1>2, <2>1 DEF Fail
      <3> HIDE DEF y
      <3>3. QED
        BY <1>1, <3>1, <3>2 DEF Placed, Busy, SerialOf
    <2>2. CASE h.type # "method_call"
      <3>1. Become(id, Idle("recv"))
        BY <1>2, <2>2 DEF Fail
      <3>2. Placed(Idle("recv")) /\ Idle("recv").pc = "recv"
        BY DEF Placed, Idle, Busy
      <3>3. QED
        BY <2>2, <3>1, <3>2 DEF Busy
    <2>3. QED
      BY <2>1, <2>2
  <1>3. ASSUME NEW fan, Become(id, Fanning(h, fan, {}, "recv")), h.type # "method_call"
        PROVE  \E y : /\ Become(id, y) /\ Placed(y) /\ y.pc # "staged"
                      /\ y.pc \notin Busy
    <2> DEFINE y == Fanning(h, fan, {}, "recv")
    <2>1. /\ y.pc \in {"recv", "announce", "fan"}
          /\ y.pc \in {"announce", "fan"} => y.then = "recv"
          /\ DOMAIN y = {"pc", "msg", "to", "fan", "todo", "then"}
      BY TaskFields
    <2>2. Become(id, y)
      BY <1>3
    <2> HIDE DEF y
    <2>3. Placed(y) /\ y.pc \notin Busy \cup {"staged"}
      BY <2>1 DEF Placed, Busy
    <2>4. QED
      BY <2>2, <2>3
  <1>4. CASE h.type = "signal" /\ RouteSignal(id, h)
    <2>1. h.type # "method_call"
      BY <1>4
    <2>2. Fail(id, h) \/ \E fan : Become(id, Fanning(h, fan, {}, "recv"))
      BY <1>4 DEF RouteSignal
    <2>3. QED
      BY <1>2, <1>3, <2>1, <2>2 DEF Busy
  <1>5. CASE h.type = "directed_signal" /\ RouteDirected(id, h)
    <2>1. h.type # "method_call"
      BY <1>5
    <2>2. Fail(id, h) \/ \E fan : Become(id, Fanning(h, fan, {}, "recv"))
      BY <1>5 DEF RouteDirected
    <2>3. QED
      BY <1>2, <1>3, <2>1, <2>2 DEF Busy
  <1>6. CASE RouteToPeer(id, h)
    <2>1. CASE Fail(id, h)
      BY <1>2, <2>1
    <2>2. CASE ~Fail(id, h)
      <3>1. PICK pc : pc = IF h.type = "method_call" THEN "gate" ELSE "send"
        OBVIOUS
      <3>2. PICK to :
              Become(id, [Idle("recv") EXCEPT !.pc = pc, !.msg = h, !.to = to])
        BY <1>6, <2>2, <3>1 DEF RouteToPeer
      <3> DEFINE y == [Idle("recv") EXCEPT !.pc = pc, !.msg = h, !.to = to]
      <3>3. /\ y.pc = pc /\ y.msg = h
            /\ DOMAIN y = {"pc", "msg", "to", "fan", "todo", "then"}
        BY DEF Idle
      <3>4. Become(id, y)
        BY <3>2
      <3> HIDE DEF y
      <3>5. QED
        BY <1>1, <3>1, <3>3, <3>4 DEF Placed, Busy, SerialOf
    <2>3. QED
      BY <2>1, <2>2
  <1>7. CASE BusMethod(id, h)
    <2>0. PICK body, changes : \/ Decide(id, h, MethodReturn(h, body), changes)
                              \/ Decide(id, h, ErrorReply(h, "error"), changes)
      BY <1>7, BusReplies
    <2>a. \E r : Decide(id, h, r, changes) /\ r.reply_serial = h.serial /\ "serial" \in DOMAIN r
      <3>1. CASE Decide(id, h, MethodReturn(h, body), changes)
        BY <3>1, ReplyFields
      <3>2. CASE Decide(id, h, ErrorReply(h, "error"), changes)
        BY <3>2, ReplyFields
      <3>3. QED
        BY <2>0, <3>1, <3>2
    <2>1. PICK r : Decide(id, h, r, changes) /\ r.reply_serial = h.serial /\ "serial" \in DOMAIN r
      BY <2>a
    <2>2. r.reply_serial = h.serial /\ "serial" \in DOMAIN r
      BY <2>1
    <2> DEFINE y == [Idle("recv") EXCEPT !.pc = "bus", !.msg = r, !.todo = changes]
    <2>3. /\ y.pc = "bus" /\ y.msg = r
          /\ DOMAIN y = {"pc", "msg", "to", "fan", "todo", "then"}
      BY DEF Idle
    <2>4. Become(id, y)
      BY <2>1 DEF Decide
    <2> HIDE DEF y
    <2>5. QED
      BY <1>1, <2>2, <2>3, <2>4 DEF Placed, Busy, SerialOf
  <1>8. QED
    BY <1>2, <1>4, <1>5, <1>6, <1>7 DEF Recv

(* `reader_task` reads a message: a call is in hand until it is settled. *)
LEMMA RecvSettles ==
    ASSUME SettleInv, TasksMinted, NEW id \in Readers, NEW m \in Inputs, Recv(id, m)
    PROVE  SettleInv'
  <1>1. PICK h : h = [m EXCEPT !.serial = sent + 1, !.sender = Unique(id)]
    OBVIOUS
  <1>2. PICK y : /\ Become(id, y) /\ Placed(y) /\ y.pc # "staged"
                 /\ \/ y.pc \in Busy /\ SerialOf(y) = sent + 1
                    \/ y.pc \notin Busy /\ h.type # "method_call"
                 /\ y.pc \in {"gate", "send"} => y.msg = h
    BY <1>1, RecvPlaces
  <1>3. PICK call \in BOOLEAN : call = (h.type = "method_call")
    OBVIOUS
  <1>4. /\ task[id].pc = "recv" /\ sent' = sent + 1 /\ UNCHANGED writer
        /\ fate' = Append(fate, [caller |-> IF call THEN id ELSE 0, answers |-> 0])
    BY <1>1, <1>3 DEF Recv
  <1>5. id \in Nat /\ sent \in Nat
    BY DEF TasksMinted, Minted, Readers, SettleInv
  <1>6. \/ y.pc \in Busy /\ SerialOf(y) = sent + 1
        \/ y.pc \notin Busy /\ ~call
    BY <1>2, <1>3
  <1>7. y.pc \in {"gate", "send"} /\ call => y.msg.type = "method_call"
    BY <1>2, <1>3
  <1>8. QED
    BY <1>2, <1>4, <1>5, <1>6, <1>7, OneReads

(* What the writers and the module host do to a reader with nothing in
   hand: it starts, or it ends before it started. *)
LEMMA WriterSettles ==
    ASSUME SettleInv, NEW id \in Readers, WriterStep(id)
    PROVE  SettleInv'
  <1>1. UNCHANGED <<fate, sent, task>>
    BY DEF WriterStep, WriterSend, WriterRefuse, WriterFail, WriterEnd, histVars
  <1>2. \/ UNCHANGED writer
        \/ writer[id] = "running" /\ writer' = [writer EXCEPT ![id] = "closed"]
    BY DEF WriterStep, WriterSend, WriterRefuse, WriterFail, WriterEnd
  <1>3. id \in DOMAIN writer /\ Readers \subseteq DOMAIN writer
    BY DEF SettleInv
  <1>4. Readers \subseteq DOMAIN writer' /\ \A p \in Readers : writer'[p] # "closed" => Open(p)
    BY <1>2, <1>3 DEF Open
  <1>5. \A p \in Readers : task'[p].pc = "staged" => writer'[p] = "staged"
    BY <1>1, <1>2, <1>3 DEF SettleInv, ReaderFits
  <1>6. QED
    BY <1>1, <1>4, <1>5, ReadersGoOn

(* A new peer has nothing in hand, and no call names it yet. *)
LEMMA AttachSettles ==
    ASSUME SettleInv, TasksMinted,
           AttachAs("recv", "running") \/ AttachAs("staged", "staged")
    PROVE  SettleInv'
  <1> DEFINE p == nextId + 1
  <1>1. PICK pc, w : /\ AttachAs(pc, w)
                     /\ \/ pc = "recv" /\ w = "running"
                        \/ pc = "staged" /\ w = "staged"
    OBVIOUS
  <1>2. PICK n \in Nat : n = nextId + 1
    BY DEF TasksMinted
  <1>3. n \notin DOMAIN task /\ n \notin HostTasks
    BY <1>2, BoundsAssumption DEF BoundsAssumption, TasksMinted, Minted
  <1>4. /\ UNCHANGED <<fate, sent>> /\ task' = Put(task, n, Idle(pc)) /\ writer' = Put(writer, n, w)
    BY <1>1, <1>2 DEF AttachAs, histVars
  <1>5. /\ DOMAIN task' = DOMAIN task \cup {n} /\ task'[n] = Idle(pc)
        /\ \A t \in DOMAIN task : task'[t] = task[t]
    BY <1>3, <1>4 DEF Put
  <1>6. /\ DOMAIN writer' = DOMAIN writer \cup {n} /\ writer'[n] = w
        /\ \A t \in DOMAIN writer \ {n} : writer'[t] = writer[t]
    BY <1>4 DEF Put
  <1>7. Readers' = Readers \cup {n} /\ n \notin Readers
    BY <1>3, <1>5 DEF Readers
  <1>8. \A q \in Readers : task'[q] = task[q] /\ writer'[q] = writer[q]
    BY <1>5, <1>6, <1>7 DEF Readers, SettleInv
  <1>9. ASSUME NEW q \in Readers' PROVE ReaderFits(q)'
    <2>1. CASE q = n
      BY <1>1, <1>5, <1>6, <2>1 DEF ReaderFits, Placed, Busy, Idle
    <2>2. CASE q # n
      <3>1. q \in Readers /\ ReaderFits(q)
        BY <1>7, <2>2 DEF SettleInv
      <3>2. QED
        BY <1>4, <1>8, <3>1 DEF ReaderFits, SerialOf
    <2>3. QED
      BY <2>1, <2>2
  <1>10. ASSUME NEW s \in DOMAIN fate PROVE CallFits(s)'
    BY <1>4, <1>7, <1>8 DEF SettleInv, CallFits, Open, Has, SerialOf
  <1>11. QED
    BY <1>4, <1>6, <1>7, <1>9, <1>10 DEF SettleInv

(* Steps of the host that touch no task, writer or call. *)
LEMMA QuietSettles ==
    ASSUME SettleInv, UNCHANGED <<fate, sent, task, writer>>
    PROVE  SettleInv'
  <1>1. \A p \in Readers : task'[p].pc = "staged" => writer'[p] = "staged"
    BY DEF SettleInv, ReaderFits
  <1>2. \A p \in Readers : writer'[p] # "closed" => Open(p)
    BY DEF Open
  <1>3. QED
    BY <1>1, <1>2, ReadersGoOn DEF SettleInv

(* The host starts, detaches and announces: a staged peer it detaches had
   read nothing, so no call is lost with its reader. *)
LEMMA HostSettles ==
    ASSUME SettleInv, TasksMinted, HostStep
    PROVE  SettleInv'
  <1>1. ASSUME NEW id \in Readers, StartModule(id) PROVE SettleInv'
    <2>1. /\ task[id].pc = "staged" /\ UNCHANGED <<fate, sent>> /\ Become(id, Idle("recv"))
          /\ writer' = [writer EXCEPT ![id] = "running"]
      BY <1>1 DEF StartModule, histVars
    <2>2. /\ DOMAIN task' = DOMAIN task /\ task'[id] = Idle("recv")
          /\ \A o \in DOMAIN task \ {id} : task'[o] = task[o]
      BY <2>1 DEF Become, Readers
    <2>3. Placed(Idle("recv")) /\ Idle("recv").pc = "recv"
      BY DEF Placed, Idle, Busy
    <2>4. /\ Readers \subseteq DOMAIN writer' /\ writer[id] = "staged"
          /\ \A p \in Readers \ {id} : writer'[p] = writer[p]
      BY <2>1 DEF SettleInv, ReaderFits
    <2>5. \A p \in Readers : writer'[p] # "closed" => Open(p)
      BY <2>4 DEF Open
    <2>6. \A p \in Readers : task'[p].pc = "staged" => writer'[p] = "staged"
      BY <2>2, <2>3, <2>4 DEF Readers, SettleInv, ReaderFits
    <2>7. \A p \in Readers : task'[p] = task[p] \/ GoesOn(p, task[p], task'[p])
      BY <2>1, <2>2, <2>3 DEF Readers, GoesOn, Busy
    <2>8. QED
      BY <2>1, <2>2, <2>4, <2>5, <2>6, <2>7, ReadersGoOn
  <1>2. ASSUME NEW id \in Readers, NEW h \in HostTasks, HostDetach(h, id) PROVE SettleInv'
    <2>0. h \notin Readers
      BY DEF Readers
    <2>1. /\ UNCHANGED <<fate, sent>> /\ DOMAIN task' = DOMAIN task
          /\ writer' = [writer EXCEPT ![id] = IF @ = "staged" THEN "closed" ELSE @]
      BY <1>2 DEF HostDetach, linkVars
    <2>2. /\ task'[id] = IF task[id].pc = "staged" THEN Idle("done") ELSE task[id]
          /\ \A o \in Readers \ {id} : task'[o] = task[o]
      BY <1>2, <2>0 DEF HostDetach, Readers
    <2>3. Placed(Idle("done")) /\ Idle("done").pc = "done"
      BY DEF Placed, Idle, Busy
    <2>4. /\ Readers \subseteq DOMAIN writer /\ DOMAIN writer' = DOMAIN writer
          /\ writer'[id] = IF writer[id] = "staged" THEN "closed" ELSE writer[id]
          /\ \A p \in Readers \ {id} : writer'[p] = writer[p]
      BY <2>1 DEF SettleInv
    <2>5. \A p \in Readers : writer'[p] # "closed" => Open(p)
      BY <2>4 DEF Open
    <2>6. \A p \in Readers : task'[p].pc = "staged" => writer'[p] = "staged"
      BY <2>2, <2>3, <2>4 DEF SettleInv, ReaderFits
    <2>7. \A p \in Readers : task'[p] = task[p] \/ GoesOn(p, task[p], task'[p])
      BY <2>2, <2>3 DEF GoesOn, Busy
    <2>8. QED
      BY <2>1, <2>4, <2>5, <2>6, <2>7, ReadersGoOn
  <1>3. ASSUME NEW h \in HostTasks, NEW y, Become(h, y), UNCHANGED <<fate, sent, writer>>
        PROVE  SettleInv'
    <2>1. DOMAIN task' = DOMAIN task /\ \A o \in Readers : task'[o] = task[o]
      BY <1>3 DEF Become, Readers
    <2>2. \A p \in Readers : task'[p].pc = "staged" => writer'[p] = "staged"
      BY <1>3, <2>1 DEF SettleInv, ReaderFits
    <2>3. \A p \in Readers : writer'[p] # "closed" => Open(p)
      BY <1>3 DEF Open
    <2>4. QED
      BY <1>3, <2>1, <2>2, <2>3, ReadersGoOn DEF SettleInv
  <1>4. ASSUME NEW h \in HostTasks, NEW id, NEW n, HostClaim(h, id, n) \/ HostRelease(h, id, n)
        PROVE  SettleInv'
    <2>1. PICK y : Become(h, y)
      BY <1>4 DEF HostClaim, HostRelease
    <2>2. UNCHANGED <<fate, sent, writer>>
      BY <1>4 DEF HostClaim, HostRelease, linkVars
    <2>3. QED
      BY <1>3, <2>1, <2>2
  <1>5. ASSUME NEW h \in HostTasks, NEW c, AnnounceReserved(h, c) PROVE SettleInv'
    BY <1>3, <1>5 DEF AnnounceReserved, linkVars
  <1>6. ASSUME NEW id, NEW n, \/ HostAttest(id) \/ HostSettle(id) \/ HostCallback(id)
                            \/ HostReserve(id, n)
        PROVE  SettleInv'
    <2>1. UNCHANGED <<fate, sent, task, writer>>
      BY <1>6 DEF HostAttest, HostSettle, HostCallback, HostReserve, linkVars, brokerVars, histVars
    <2>2. QED
      BY <2>1, QuietSettles
  <1>7. QED
    BY <1>1, <1>2, <1>4, <1>5, <1>6, AttachSettles DEF HostStep, AttachModuleStaged

-----------------------------------------------------------------------------
(* Every step settles what it takes up. *)
LEMMA SettleNext ==
    ASSUME SettleInv, TasksMinted, [BrokerNext]_vars
    PROVE  SettleInv'
  <1>1. CASE HostStep
    BY <1>1, HostSettles
  <1>2. CASE AttachPeer
    BY <1>2, AttachSettles DEF AttachPeer
  <1>3. CASE UNCHANGED vars
    BY <1>3, QuietSettles DEF vars, brokerVars, histVars
  <1>4. ASSUME NEW id \in Readers, NEW m \in Inputs, Recv(id, m) PROVE SettleInv'
    BY <1>4, RecvSettles
  <1>5. ASSUME NEW id \in Readers, ReaderStep(id) PROVE SettleInv'
    BY <1>5, GateSettles, SendSettles, LookUpSettles, ReplySettles, RefuseSettles DEF ReaderStep
  <1>6. ASSUME NEW id \in Readers, WriterStep(id) PROVE SettleInv'
    BY <1>6, WriterSettles
  <1>7. ASSUME NEW id \in Readers, Disconnect(id) PROVE SettleInv'
    <2>1. id \in DOMAIN task
      BY DEF Readers
    <2>2. QED
      BY <1>7, <2>1, AnnouncingSettles
  <1>8. ASSUME NEW t \in DOMAIN task, Announce(t) \/ TrySend(t) PROVE SettleInv'
    BY <1>8, AnnouncingSettles
  <1>9. QED
    BY <1>1, <1>2, <1>3, <1>4, <1>5, <1>6, <1>7, <1>8 DEF BrokerNext

(* A call is in hand of no reader but its caller's own, so the invariant
   says of each call which of the three it is. *)
LEMMA SettledOnce == ASSUME SettleInv PROVE EveryCallSettledOnce
  <1> SUFFICES ASSUME NEW s \in DOMAIN fate, fate[s].caller # 0
               PROVE  \/ InHand(s) /\ fate[s].answers = 0
                      \/ ~InHand(s) /\ fate[s].answers = 1
                      \/ ~InHand(s) /\ fate[s].answers = 0 /\ ~Open(fate[s].caller)
    BY DEF EveryCallSettledOnce
  <1> DEFINE c == fate[s].caller
  <1>1. /\ c \in Readers
        /\ IF Has(task[c], s) THEN fate[s].answers = 0
           ELSE fate[s].answers = 1 \/ (fate[s].answers = 0 /\ ~Open(c))
    BY DEF SettleInv, CallFits
  <1>2. \A id : Has(task[id], s) <=> 
           \/ task[id].pc \in {"gate", "send", "refuse"} /\ task[id].msg.serial = s
           \/ task[id].pc \in {"bus", "reply"} /\ task[id].msg.reply_serial = s
    BY DEF Has, Busy, SerialOf
  <1>3. \A id \in Readers : Has(task[id], s) => id = c
    BY DEF SettleInv, ReaderFits, Has
  <1>4. InHand(s) <=> Has(task[c], s)
    BY <1>1, <1>2, <1>3 DEF InHand
  <1>5. QED
    BY <1>1, <1>4



-----------------------------------------------------------------------------
(* A message on its way to peer p is meant for p: p was minted, is whom the
   message names, and is entitled to it, P being the peers, C the
   capabilities and n the last id of the table. *)
Meant(m, p, P, C, n) ==
    /\ p \in 1..n
    /\ m.type = "method_call" /\ m.expected_responder # None => m.expected_responder = Unique(p)
    /\ m.destination # None /\ IsUnique(m.destination) => m.destination = Unique(p)
    /\ p \in DOMAIN P /\ m.type = "method_call" /\ m.confidential =>
         /\ m.sender # None
         /\ IF IsUnique(m.destination)
            THEN \/ P[p].admitted # None
                 \/ Unique(p) \in DOMAIN C /\ C[Unique(p)].module = m.sender
            ELSE m.destination \in P[p].attestations
    /\ m.type = "directed_signal" => m.sender \in DOMAIN C /\ C[m.sender].module = Unique(p)

Fits(m, p) == Meant(m, p, peers, caps, nextId)

Stays == \A m, p : Meant(m, p, peers, caps, nextId) => Meant(m, p, peers', caps', nextId')

Line(q, p) ==
    /\ q \in Seq({q[i] : i \in DOMAIN q})
    /\ \A i \in DOMAIN q : Fits(q[i], p)

(* Selected for a peer, on its way back to the caller, or fanned out. *)
Directed(x, t) ==
    /\ x.pc \in {"gate", "send"} => Fits(x.msg, x.to)
    /\ x.pc \in {"bus", "reply"} => Fits(x.msg, t)
    /\ x.pc = "fan" => \A p \in x.fan : Fits(x.msg, p)
    /\ x.pc \in {"announce", "fan"} => x.then \in {"recv", "done", "idle"}

AddressInv ==
    /\ Readers \subseteq DOMAIN queue \cap DOMAIN got
    /\ \A p \in Readers : Line(got[p], p) /\ Line(queue[p], p)
    /\ \A t \in DOMAIN task : Directed(task[t], t)

(* Lines of messages. *)
LEMMA LineEmpty == \A p : Line(<<>>, p)
  <1>1. DOMAIN <<>> = {} /\ <<>> \in Seq({})
    OBVIOUS
  <1>2. QED
    BY <1>1 DEF Line

(* A sequence is a line when each of its messages fits. *)
LEMMA LineOver ==
    ASSUME NEW S, NEW q \in Seq(S), NEW p, \A i \in DOMAIN q : Fits(q[i], p)
    PROVE  Line(q, p)
  <1> DEFINE R == {q[i] : i \in DOMAIN q}
  <1>1. PICK n \in Nat : q \in [1..n -> S] /\ Len(q) = n
    BY SeqDef
  <1>2. q \in [1..n -> R]
    BY <1>1
  <1>3. q \in Seq(R)
    BY <1>2, SeqDef
  <1>4. QED
    BY <1>3 DEF Line

(* A line stays one when a message that fits joins it. *)
LEMMA LineAppend ==
    ASSUME NEW q, NEW p, NEW m, Line(q, p), Fits(m, p)
    PROVE  Line(Append(q, m), p)
  <1> DEFINE S == {q[i] : i \in DOMAIN q} \cup {m}
  <1>1. q \in Seq({q[i] : i \in DOMAIN q}) /\ \A i \in DOMAIN q : Fits(q[i], p)
    BY DEF Line
  <1>2. q \in Seq(S) /\ m \in S
    BY <1>1
  <1> HIDE DEF S
  <1>3. /\ Append(q, m) \in Seq(S) /\ Len(q) \in Nat
        /\ DOMAIN q = 1..Len(q)
        /\ \A i \in 1..Len(q) : Append(q, m)[i] = q[i]
        /\ Append(q, m)[Len(q) + 1] = m
        /\ DOMAIN Append(q, m) = 1..(Len(q) + 1)
    BY <1>2, AppendProperties
  <1>4. \A i \in 1..(Len(q) + 1) : i \in 1..Len(q) \/ i = Len(q) + 1
    BY <1>3
  <1>5. \A i \in DOMAIN Append(q, m) : Fits(Append(q, m)[i], p)
    BY <1>1, <1>3, <1>4
  <1>6. QED
    BY <1>3, <1>5, LineOver

(* The writer takes the head of a line: what is left is a line. *)
LEMMA LineTail ==
    ASSUME NEW q, NEW p, Line(q, p), q # <<>>
    PROVE  Line(Tail(q), p) /\ Fits(Head(q), p)
  <1> DEFINE S == {q[i] : i \in DOMAIN q}
  <1>1. q \in Seq(S) /\ \A i \in DOMAIN q : Fits(q[i], p)
    BY DEF Line
  <1> HIDE DEF S
  <1>2. /\ Tail(q) \in Seq(S) /\ Len(q) \in Nat /\ Len(q) > 0 /\ Head(q) = q[1]
        /\ DOMAIN q = 1..Len(q) /\ DOMAIN Tail(q) = 1..(Len(q) - 1)
        /\ \A i \in 1..(Len(q) - 1) : Tail(q)[i] = q[i + 1]
    BY <1>1, HeadTailProperties
  <1>3. \A i \in 1..(Len(q) - 1) : i + 1 \in 1..Len(q)
    BY <1>2
  <1>4. \A i \in DOMAIN Tail(q) : Fits(Tail(q)[i], p)
    BY <1>1, <1>2, <1>3
  <1>5. Line(Tail(q), p)
    BY <1>2, <1>4, LineOver
  <1>6. 1 \in DOMAIN q
    BY <1>2
  <1>7. QED
    BY <1>1, <1>2, <1>5, <1>6

-----------------------------------------------------------------------------
(* What goes on in tasks, queues and on transports keeps the invariant as
   long as every message fits where it goes and entitlements stay. *)
LEMMA AddressGoesOn ==
    ASSUME AddressInv, Stays, DOMAIN task' = DOMAIN task,
           Readers \subseteq DOMAIN queue', Readers \subseteq DOMAIN got',
           \A p \in Readers : Line(got'[p], p) /\ Line(queue'[p], p),
           \A t \in DOMAIN task : task'[t] = task[t] \/ Directed(task'[t], t)
    PROVE  AddressInv'
  <1>1. Readers' = Readers
    BY DEF Readers
  <1>2. \A t \in DOMAIN task : Directed(task'[t], t)
    BY DEF AddressInv
  <1>3. QED
    BY <1>1, <1>2 DEF AddressInv, Line, Fits, Directed, Stays

(* One task goes on, and one message at most joins a queue. *)
LEMMA OneAddresses ==
    ASSUME AddressInv, Stays, UNCHANGED got, NEW t \in DOMAIN task, NEW y,
           Become(t, y), Directed(y, t),
           NEW p, NEW m, UNCHANGED queue \/ (Enqueue(p, m) /\ Fits(m, p))
    PROVE  AddressInv'
  <1>1. /\ DOMAIN task' = DOMAIN task
        /\ \A o \in DOMAIN task : task'[o] = task[o] \/ Directed(task'[o], o)
    BY DEF Become
  <1>2. /\ Readers \subseteq DOMAIN queue' /\ Readers \subseteq DOMAIN got'
        /\ \A q \in Readers :
             \/ queue'[q] = queue[q]
             \/ q = p /\ queue'[q] = Append(queue[p], m) /\ Fits(m, p)
    BY DEF AddressInv, Enqueue
  <1>3. \A q \in Readers : Line(queue'[q], q)
    BY <1>2, LineAppend DEF AddressInv
  <1>4. \A q \in Readers : Line(got'[q], q)
    BY DEF AddressInv
  <1>5. QED
    BY <1>1, <1>2, <1>3, <1>4, AddressGoesOn

(* One task goes on and no message moves. *)
LEMMA TaskAddresses ==
    ASSUME AddressInv, Stays, UNCHANGED <<queue, got>>, NEW t \in DOMAIN task, NEW y,
           Become(t, y), Directed(y, t)
    PROVE  AddressInv'
  <1>1. UNCHANGED queue /\ UNCHANGED got
    OBVIOUS
  <1>2. QED
    BY <1>1, OneAddresses

(* A task that holds nothing. *)
LEMMA EmptyHanded ==
    ASSUME NEW t, NEW pc \in {"recv", "done", "idle", "staged"}, NEW todo
    PROVE  Directed(Idle(pc), t) /\ (pc # "staged" => Directed(Announcing(todo, pc), t))
  <1>1. Idle(pc).pc = pc
    BY DEF Idle
  <1>2. Directed(Idle(pc), t)
    BY <1>1 DEF Directed
  <1>3. /\ Announcing(todo, pc).pc \in {pc, "announce"}
        /\ Announcing(todo, pc).pc = "announce" => Announcing(todo, pc).then = pc
    BY DEF Announcing, Idle
  <1>4. QED
    BY <1>2, <1>3 DEF Directed

(* A fan-out of a message that fits each of its targets. *)
LEMMA FanDirected ==
    ASSUME NEW t, NEW then \in {"recv", "done", "idle"}, NEW todo, NEW fan, NEW m,
           \A p \in fan : Fits(m, p)
    PROVE  Directed(Fanning(m, fan, todo, then), t)
  <1> DEFINE y == Fanning(m, fan, todo, then)
  <1>1. /\ y.pc \in {then, "announce", "fan"}
        /\ y.pc \in {"announce", "fan"} => y.then = then
        /\ y.pc = "fan" => y.msg = m /\ y.fan = fan
    BY TaskFields
  <1> HIDE DEF y
  <1>2. Directed(y, t)
    BY <1>1 DEF Directed
  <1>3. QED
    BY <1>2 DEF y

(* A refused message goes to nobody. *)
LEMMA FailDirected ==
    ASSUME NEW id, NEW h, Fail(id, h)
    PROVE  \E y : Become(id, y) /\ Directed(y, id)
  <1>1. CASE h.type = "method_call"
    <2> DEFINE y == [Idle("recv") EXCEPT !.pc = "refuse", !.msg = h]
    <2>1. y.pc = "refuse"
      BY DEF Idle
    <2>2. Become(id, y)
      BY <1>1 DEF Fail
    <2> HIDE DEF y
    <2>3. QED
      BY <2>1, <2>2 DEF Directed
  <1>2. CASE h.type # "method_call"
    BY <1>2, EmptyHanded DEF Fail
  <1>3. QED
    BY <1>1, <1>2

-----------------------------------------------------------------------------
(* The table's word on where a message goes. *)
LEMMA SelectedFits ==
    ASSUME RouterInv, NEW h, h.type # "directed_signal",
           NEW id \in Minted, h.sender = Unique(id),
           ResolveCall(Unique(id), h.destination, h.expected_responder,
                       h.confidential /\ h.type = "method_call")
    PROVE  Fits(h, names[h.destination])
  <1> DEFINE d == h.destination
             p == names[d]
  <1>1. Resolves(d) /\ ExpectedHolds(d, h.expected_responder)
    BY DEF ResolveCall, AttestedFor
  <1>2. OwnerOf(d) = Unique(p) /\ (IsUnique(d) => d = Unique(p))
    BY <1>1 DEF RouterInv, UniqueOwned, Resolves, OwnerOf
  <1>3. p \in DOMAIN peers /\ p \in 1..nextId
    BY <1>1 DEF Resolves, RouterInv, RouterTypeOK, Minted
  <1>4. h.sender # None
    <2>1. id \in Nat
      BY DEF Minted, RouterInv, RouterTypeOK
    <2>2. Unique(id) \in BusNames
      BY <2>1, UniqueNames
    <2>3. QED
      BY <2>2, NoneIsNoName
  <1>5. ASSUME h.type = "method_call", h.confidential
        PROVE  IF IsUnique(d)
               THEN \/ peers[p].admitted # None
                    \/ Unique(p) \in DOMAIN caps /\ caps[Unique(p)].module = h.sender
               ELSE d \in peers[p].attestations
    <2>1. \/ IsUnique(d) /\ CallbackAuthorises(Unique(id), d)
          \/ AttestedFor(d)
      BY <1>5 DEF ResolveCall
    <2>2. CASE IsUnique(d) /\ CallbackAuthorises(Unique(id), d)
      BY <1>2, <2>2 DEF CallbackAuthorises, RouterInv, RouterTypeOK
    <2>3. CASE AttestedFor(d)
      BY <2>3 DEF AttestedFor
    <2>4. QED
      BY <2>1, <2>2, <2>3
  <1>6. QED
    BY <1>1, <1>2, <1>3, <1>4, <1>5 DEF Fits, Meant, ExpectedHolds

(* `subscribers` picks the addressee only, when the signal has one. *)
LEMMA SubscribedFits ==
    ASSUME RouterInv, NEW h, h.type = "signal", NEW id,
           NEW p \in Subscribers(id, h, h.destination)
    PROVE  Fits(h, p)
  BY DEF RouterInv, RouterTypeOK, UniqueOwned, Minted, Subscribers, Fits, Meant

(* `matches_directed_signal`: the module bound to the sender's capability. *)
LEMMA BoundFits ==
    ASSUME RouterInv, NEW h, h.type = "directed_signal", NEW id, h.sender = Unique(id),
           Resolves(h.destination), DirectedAuthorised(Unique(id), h.destination)
    PROVE  Fits(h, names[h.destination])
  <1> DEFINE p == names[h.destination]
  <1>1. h.sender \in DOMAIN caps /\ caps[h.sender].module = h.destination
    BY DEF DirectedAuthorised, RouterInv, RouterTypeOK
  <1>2. h.destination \in DOMAIN names /\ p \in DOMAIN peers /\ p \in 1..nextId
    BY DEF Resolves, RouterInv, RouterTypeOK, Minted
  <1>3. h.destination = Unique(p)
    <2>1. h.sender \in callbacks
      BY DEF DirectedAuthorised
    <2>2. caps[h.sender].module \in Uniques \cup {None} /\ h.destination \in BusNames
      BY <1>1, <1>2 DEF RouterInv, RouterTypeOK, Capability
    <2>3. IsUnique(h.destination)
      BY <1>1, <2>2, NoneIsNoName, UniqueNames
    <2>4. QED
      BY <1>2, <2>3 DEF RouterInv, UniqueOwned
  <1>4. QED
    BY <1>1, <1>2, <1>3 DEF Fits, Meant

(* Replies and the bus's own signals need no more than an address. *)
LEMMA ReplyFits ==
    ASSUME NEW r, r.type \notin {"method_call", "directed_signal"}, NEW id \in Minted,
           r.destination \in {None, Unique(id)}
    PROVE  Fits(r, id)
  BY DEF Fits, Meant, Minted

(* `route` selects under the router's lock only peers that the message is
   meant for, calls and replies, signals and answers of the bus alike. *)
LEMMA RecvAddresses ==
    ASSUME AddressInv, Stays, RouterInv, TasksMinted,
           NEW id \in Readers, NEW m \in Inputs, Recv(id, m)
    PROVE  AddressInv'
  <1> DEFINE h == [m EXCEPT !.serial = sent + 1, !.sender = Unique(id)]
  <1>1. h.sender = Unique(id)
    BY InputFields DEF BlankHeader
  <1>2. UNCHANGED <<queue, got>> /\ id \in DOMAIN task /\ id \in Minted
    BY DEF Recv, Readers, TasksMinted
  <1> HIDE DEF h
  <1>3. ASSUME NEW y, Become(id, y), Directed(y, id) PROVE AddressInv'
    BY <1>2, <1>3, TaskAddresses
  <1>4. CASE Fail(id, h)
    BY <1>3, <1>4, FailDirected
  <1>5. CASE h.type = "signal" /\ RouteSignal(id, h)
    <2>1. CASE ~Fail(id, h)
      <3>1. Become(id, Fanning(h, Subscribers(id, h, h.destination), {}, "recv"))
        BY <1>5, <2>1 DEF RouteSignal
      <3>2. \A p \in Subscribers(id, h, h.destination) : Fits(h, p)
        BY <1>5, SubscribedFits
      <3>3. QED
        BY <1>3, <3>1, <3>2, FanDirected
    <2>2. QED
      BY <1>4, <2>1
  <1>6. CASE h.type = "directed_signal" /\ RouteDirected(id, h)
    <2>1. CASE ~Fail(id, h)
      <3>1. /\ Become(id, Fanning(h, {names[h.destination]}, {}, "recv"))
            /\ Resolves(h.destination) /\ DirectedAuthorised(Unique(id), h.destination)
        BY <1>6, <2>1 DEF RouteDirected
      <3>2. Fits(h, names[h.destination])
        BY <1>1, <1>6, <3>1, BoundFits
      <3>3. QED
        BY <1>3, <3>1, <3>2, FanDirected
    <2>2. QED
      BY <1>4, <2>1
  <1>7. CASE h.type \notin {"signal", "directed_signal"} /\ RouteToPeer(id, h)
    <2>1. CASE ~Fail(id, h)
      <3>1. PICK pc : pc \in {"gate", "send"} /\ pc = IF h.type = "method_call" THEN "gate" ELSE "send"
        OBVIOUS
      <3>2. /\ Become(id, [Idle("recv") EXCEPT !.pc = pc, !.msg = h, !.to = names[h.destination]])
            /\ ResolveCall(Unique(id), h.destination, h.expected_responder,
                           h.confidential /\ h.type = "method_call")
        BY <1>7, <2>1, <3>1 DEF RouteToPeer
      <3>3. Fits(h, names[h.destination])
        BY <1>1, <1>2, <1>7, <3>2, SelectedFits
      <3> DEFINE y == [Idle("recv") EXCEPT !.pc = pc, !.msg = h, !.to = names[h.destination]]
      <3>4. y.pc = pc /\ y.msg = h /\ y.to = names[h.destination]
        BY DEF Idle
      <3>5. Become(id, y)
        BY <3>2
      <3> HIDE DEF y
      <3>6. Directed(y, id)
        BY <3>1, <3>3, <3>4 DEF Directed
      <3>7. QED
        BY <1>3, <3>5, <3>6
    <2>2. QED
      BY <1>4, <2>1
  <1>8. CASE BusMethod(id, h)
    <2>1. PICK body, changes : \/ Decide(id, h, MethodReturn(h, body), changes)
                              \/ Decide(id, h, ErrorReply(h, "error"), changes)
      BY <1>8, BusReplies
    <2>2. \E r : /\ Decide(id, h, r, changes)
                 /\ r.destination = Unique(id)
                 /\ r.type \notin {"method_call", "directed_signal"}
      <3>1. CASE Decide(id, h, MethodReturn(h, body), changes)
        BY <1>1, <3>1, ReplyFields
      <3>2. CASE Decide(id, h, ErrorReply(h, "error"), changes)
        BY <1>1, <3>2, ReplyFields
      <3>3. QED
        BY <2>1, <3>1, <3>2
    <2>3. PICK r : /\ Decide(id, h, r, changes)
                   /\ r.destination = Unique(id)
                   /\ r.type \notin {"method_call", "directed_signal"}
      BY <2>2
    <2> DEFINE y == [Idle("recv") EXCEPT !.pc = "bus", !.msg = r, !.todo = changes]
    <2>4. y.pc = "bus" /\ y.msg = r
      BY DEF Idle
    <2>5. Become(id, y)
      BY <2>3 DEF Decide
    <2> HIDE DEF y
    <2>6. Directed(y, id)
      BY <1>2, <2>3, <2>4, ReplyFits DEF Directed
    <2>7. QED
      BY <1>3, <2>5, <2>6
  <1>9. QED
    BY <1>4, <1>5, <1>6, <1>7, <1>8 DEF Recv, h

(* Past the gate, past the queue, back to the link. *)
LEMMA ReaderAddresses ==
    ASSUME AddressInv, Stays, SettleInv, TasksMinted, NEW id \in Readers, ReaderStep(id)
    PROVE  AddressInv'
  <1> DEFINE x == task[id]
  <1>1. /\ id \in DOMAIN task /\ Directed(x, id)
        /\ DOMAIN x = {"pc", "msg", "to", "fan", "todo", "then"}
    BY DEF Readers, AddressInv, SettleInv, ReaderFits, Placed
  <1>2. ASSUME NEW y, Become(id, y), Directed(y, id), UNCHANGED queue, UNCHANGED got
        PROVE  AddressInv'
    BY <1>1, <1>2, TaskAddresses
  <1>3. CASE Gate(id)
    <2>1. UNCHANGED queue /\ UNCHANGED got /\ x.pc = "gate"
      BY <1>3 DEF Gate
    <2>2. CASE Fail(id, x.msg)
      BY <1>2, <2>1, <2>2, FailDirected
    <2>3. CASE Become(id, [x EXCEPT !.pc = "send"])
      <3> DEFINE y == [x EXCEPT !.pc = "send"]
      <3>1. y.pc = "send" /\ y.msg = x.msg /\ y.to = x.to
        BY <1>1
      <3>2. Become(id, y)
        BY <2>3
      <3> HIDE DEF y
      <3>3. Directed(y, id)
        BY <1>1, <2>1, <3>1 DEF Directed
      <3>4. QED
        BY <1>2, <2>1, <3>2, <3>3
    <2>4. QED
      BY <1>3, <2>2, <2>3 DEF Gate
  <1>4. CASE Send(id)
    <2>1. UNCHANGED got /\ x.pc = "send"
      BY <1>4 DEF Send
    <2>2. CASE Become(id, Idle("recv")) /\ Enqueue(x.to, x.msg)
      <3>1. Fits(x.msg, x.to)
        BY <1>1, <2>1 DEF Directed
      <3>2. Directed(Idle("recv"), id)
        BY EmptyHanded
      <3>3. QED
        BY <1>1, <2>1, <2>2, <3>1, <3>2, OneAddresses
    <2>3. CASE Fail(id, x.msg) /\ UNCHANGED queue
      BY <1>2, <2>1, <2>3, FailDirected
    <2>4. QED
      BY <1>4, <2>2, <2>3 DEF Send
  <1>5. CASE LookUpCaller(id)
    <2>1. UNCHANGED queue /\ UNCHANGED got /\ x.pc = "bus"
      BY <1>5 DEF LookUpCaller
    <2>2. CASE Become(id, [x EXCEPT !.pc = "reply"])
      <3> DEFINE y == [x EXCEPT !.pc = "reply"]
      <3>1. y.pc = "reply" /\ y.msg = x.msg
        BY <1>1
      <3>2. Become(id, y)
        BY <2>2
      <3> HIDE DEF y
      <3>3. Directed(y, id)
        BY <1>1, <2>1, <3>1 DEF Directed
      <3>4. QED
        BY <1>2, <2>1, <3>2, <3>3
    <2>3. CASE Become(id, Idle("recv"))
      BY <1>2, <2>1, <2>3, EmptyHanded
    <2>4. CASE \E m : Become(id, [Idle("recv") EXCEPT !.pc = "refuse", !.msg = m])
      <3>1. PICK m : Become(id, [Idle("recv") EXCEPT !.pc = "refuse", !.msg = m])
        BY <2>4
      <3> DEFINE y == [Idle("recv") EXCEPT !.pc = "refuse", !.msg = m]
      <3>2. y.pc = "refuse"
        BY DEF Idle
      <3>3. Become(id, y)
        BY <3>1
      <3> HIDE DEF y
      <3>4. Directed(y, id)
        BY <3>2 DEF Directed
      <3>5. QED
        BY <1>2, <2>1, <3>3, <3>4
    <2>5. QED
      BY <1>5, <2>2, <2>3, <2>4 DEF LookUpCaller
  <1>6. CASE SendReply(id)
    <2>1. /\ UNCHANGED got /\ x.pc = "reply" /\ Become(id, Announcing(x.todo, "recv"))
          /\ Enqueue(id, x.msg) \/ UNCHANGED queue
      BY <1>6 DEF SendReply
    <2>2. Fits(x.msg, id)
      BY <1>1, <2>1 DEF Directed
    <2>3. Directed(Announcing(x.todo, "recv"), id)
      BY EmptyHanded
    <2>4. UNCHANGED queue \/ (Enqueue(id, x.msg) /\ Fits(x.msg, id))
      BY <2>1, <2>2
    <2>5. QED
      BY <1>1, <2>1, <2>3, <2>4, OneAddresses
  <1>7. CASE Refuse(id)
    <2> DEFINE r == [ErrorReply(x.msg, "error") EXCEPT !.sender = BUS, !.destination = None]
    <2>1. Fits(r, id)
      <3>1. r.type = "error" /\ r.destination = None
        BY DEF ErrorReply, BlankHeader
      <3>2. id \in Minted
        BY DEF Readers, TasksMinted
      <3> HIDE DEF r
      <3>3. QED
        BY <3>1, <3>2, ReplyFits
    <2>2. /\ UNCHANGED queue /\ Become(id, Idle("recv"))
          /\ got' = [got EXCEPT ![id] = Append(got[id], r)]
      BY <1>7 DEF Refuse
    <2> HIDE DEF r
    <2>3. /\ Readers \subseteq DOMAIN got' /\ Readers \subseteq DOMAIN queue'
          /\ \A p \in Readers : got'[p] = got[p] \/ (p = id /\ got'[p] = Append(got[id], r))
      BY <2>2 DEF AddressInv
    <2>4. \A p \in Readers : Line(got'[p], p) /\ Line(queue'[p], p)
      BY <2>1, <2>2, <2>3, LineAppend DEF AddressInv
    <2>5. /\ DOMAIN task' = DOMAIN task
          /\ \A t \in DOMAIN task : task'[t] = task[t] \/ Directed(task'[t], t)
      BY <2>2, EmptyHanded DEF Become
    <2>6. QED
      BY <2>3, <2>4, <2>5, AddressGoesOn
  <1>8. QED
    BY <1>3, <1>4, <1>5, <1>6, <1>7 DEF ReaderStep

(* Announcements are addressed to nobody, and a fan-out to its targets. *)
LEMMA FanAddresses ==
    ASSUME AddressInv, Stays, RouterInv, NEW t \in DOMAIN task, Announce(t) \/ TrySend(t)
    PROVE  AddressInv'
  <1> DEFINE x == task[t]
  <1>1. Directed(x, t)
    BY DEF AddressInv
  <1>2. CASE Announce(t)
    <2>1. PICK c \in x.todo :
            Become(t, Fanning(NameOwnerChanged(c), BroadcastTargets(NameOwnerChanged(c)),
                              x.todo \ {c}, x.then))
      BY <1>2 DEF Announce
    <2>2. x.then \in {"recv", "done", "idle"} /\ UNCHANGED queue /\ UNCHANGED got
      BY <1>1, <1>2 DEF Announce, Directed
    <2>3. \A p \in BroadcastTargets(NameOwnerChanged(c)) : Fits(NameOwnerChanged(c), p)
      <3>1. NameOwnerChanged(c).type = "signal" /\ NameOwnerChanged(c).destination = None
        BY DEF NameOwnerChanged, Signal, BlankHeader
      <3>2. BroadcastTargets(NameOwnerChanged(c)) \subseteq Minted
        BY DEF BroadcastTargets, RouterInv, RouterTypeOK
      <3>3. QED
        BY <3>1, <3>2, ReplyFits
    <2>4. Directed(Fanning(NameOwnerChanged(c), BroadcastTargets(NameOwnerChanged(c)),
                           x.todo \ {c}, x.then), t)
      BY <2>2, <2>3, FanDirected
    <2>5. QED
      BY <2>1, <2>2, <2>4, TaskAddresses
  <1>3. CASE TrySend(t)
    <2>1. PICK p \in x.fan :
            /\ UNCHANGED queue \/ Enqueue(p, x.msg)
            /\ Become(t, Fanning(x.msg, x.fan \ {p}, x.todo, x.then))
      BY <1>3 DEF TrySend
    <2>2. /\ x.then \in {"recv", "done", "idle"} /\ UNCHANGED got
          /\ \A q \in x.fan : Fits(x.msg, q)
      BY <1>1, <1>3 DEF TrySend, Directed
    <2>3. Directed(Fanning(x.msg, x.fan \ {p}, x.todo, x.then), t)
      BY <2>2, FanDirected
    <2>4. UNCHANGED queue \/ (Enqueue(p, x.msg) /\ Fits(x.msg, p))
      BY <2>1, <2>2
    <2>5. QED
      BY <2>1, <2>2, <2>3, <2>4, OneAddresses
  <1>4. QED
    BY <1>2, <1>3

(* Nothing changes hands. *)
LEMMA WriterAddresses ==
    ASSUME AddressInv, Stays, NEW id \in Readers, WriterStep(id)
    PROVE  AddressInv'
  <1>1. UNCHANGED task
    BY DEF WriterStep, WriterSend, WriterRefuse, WriterFail, WriterEnd
  <1>2. /\ id \in DOMAIN queue /\ id \in DOMAIN got /\ Line(queue[id], id) /\ Line(got[id], id)
    BY DEF AddressInv
  <1>3. /\ \/ UNCHANGED queue
           \/ queue[id] # <<>> /\ queue' = [queue EXCEPT ![id] = Tail(queue[id])]
           \/ queue' = [queue EXCEPT ![id] = <<>>]
        /\ \/ UNCHANGED got
           \/ queue[id] # <<>> /\ got' = [got EXCEPT ![id] = Append(got[id], Head(queue[id]))]
    BY DEF WriterStep, WriterSend, WriterRefuse, WriterFail, WriterEnd, Drain
  <1>4. queue[id] # <<>> => Line(Tail(queue[id]), id) /\ Line(Append(got[id], Head(queue[id])), id)
    BY <1>2, LineTail, LineAppend
  <1>5. Line(queue'[id], id) /\ Line(got'[id], id)
    BY <1>2, <1>3, <1>4, LineEmpty
  <1>6. /\ Readers \subseteq DOMAIN queue' /\ Readers \subseteq DOMAIN got'
        /\ \A p \in Readers \ {id} : queue'[p] = queue[p] /\ got'[p] = got[p]
    BY <1>3 DEF AddressInv
  <1>7. \A p \in Readers : Line(got'[p], p) /\ Line(queue'[p], p)
    BY <1>5, <1>6 DEF AddressInv
  <1>8. QED
    BY <1>1, <1>6, <1>7, AddressGoesOn

(* A new peer's queue is empty. *)
LEMMA AttachAddresses ==
    ASSUME AddressInv, Stays, TasksMinted,
           AttachAs("recv", "running") \/ AttachAs("staged", "staged")
    PROVE  AddressInv'
  <1>1. PICK pc \in {"recv", "staged"} : \E w : AttachAs(pc, w)
    OBVIOUS
  <1>2. PICK n : n = nextId + 1
    OBVIOUS
  <1>3. /\ task' = Put(task, n, Idle(pc)) /\ queue' = Put(queue, n, <<>>) /\ got' = Put(got, n, <<>>)
    BY <1>1, <1>2 DEF AttachAs
  <1>4. /\ DOMAIN task' = DOMAIN task \cup {n} /\ task'[n] = Idle(pc)
        /\ \A t \in DOMAIN task \ {n} : task'[t] = task[t]
    BY <1>3 DEF Put
  <1>5. /\ DOMAIN queue' = DOMAIN queue \cup {n} /\ queue'[n] = <<>>
        /\ \A t \in DOMAIN queue \ {n} : queue'[t] = queue[t]
    BY <1>3 DEF Put
  <1>6. /\ DOMAIN got' = DOMAIN got \cup {n} /\ got'[n] = <<>>
        /\ \A t \in DOMAIN got \ {n} : got'[t] = got[t]
    BY <1>3 DEF Put
  <1>7. Readers' \subseteq Readers \cup {n}
    BY <1>4 DEF Readers
  <1>8. \A p \in Readers' : Line(got'[p], p) /\ Line(queue'[p], p)
    BY <1>5, <1>6, <1>7, LineEmpty DEF AddressInv
  <1>9. \A t \in DOMAIN task' : Directed(task'[t], t)
    BY <1>4, EmptyHanded DEF AddressInv
  <1>10. Readers' \subseteq DOMAIN queue' /\ Readers' \subseteq DOMAIN got'
    BY <1>5, <1>6, <1>7 DEF AddressInv
  <1>11. QED
    BY <1>8, <1>9, <1>10 DEF AddressInv, Line, Fits, Directed, Stays

(* The host hands no message to anybody but through a fan-out. *)
LEMMA HostAddresses ==
    ASSUME AddressInv, Stays, TasksMinted, HostStep
    PROVE  AddressInv'
  <1>1. ASSUME NEW t \in DOMAIN task, NEW y, Become(t, y), Directed(y, t), UNCHANGED queue, UNCHANGED got
        PROVE  AddressInv'
    BY <1>1, TaskAddresses
  <1>2. ASSUME NEW id \in Readers, StartModule(id) PROVE AddressInv'
    <2>1. id \in DOMAIN task /\ Become(id, Idle("recv")) /\ UNCHANGED queue /\ UNCHANGED got
      BY <1>2 DEF StartModule, Readers
    <2>2. Directed(Idle("recv"), id)
      BY EmptyHanded
    <2>3. QED
      BY <1>1, <2>1, <2>2
  <1>3. ASSUME NEW h, NEW todo, Become(h, Announcing(todo, "idle")), UNCHANGED queue, UNCHANGED got
        PROVE  AddressInv'
    <2>1. Directed(Announcing(todo, "idle"), h)
      BY EmptyHanded
    <2>2. /\ DOMAIN task' = DOMAIN task
          /\ \A t \in DOMAIN task : task'[t] = task[t] \/ Directed(task'[t], t)
      BY <1>3, <2>1 DEF Become
    <2>3. QED
      BY <1>3, <2>2, AddressGoesOn DEF AddressInv
  <1>4. ASSUME NEW h, NEW id, HostDetach(h, id) PROVE AddressInv'
    <2>1. UNCHANGED queue /\ UNCHANGED got /\ DOMAIN task' = DOMAIN task
      BY <1>4 DEF HostDetach, linkVars
    <2>2. \A t : /\ Directed(Announcing(DetachChanges(id), "idle"), t)
                 /\ Directed(Idle("done"), t)
      BY EmptyHanded
    <2>3. \A t \in DOMAIN task : \/ task'[t] = task[t]
                                 \/ task'[t] = Announcing(DetachChanges(id), "idle")
                                 \/ task'[t] = Idle("done")
      BY <1>4 DEF HostDetach
    <2>4. \A t \in DOMAIN task : task'[t] = task[t] \/ Directed(task'[t], t)
      BY <2>2, <2>3
    <2>5. QED
      BY <2>1, <2>4, AddressGoesOn DEF AddressInv
  <1>5. ASSUME NEW h, NEW id, NEW n, HostClaim(h, id, n) \/ HostRelease(h, id, n)
        PROVE  AddressInv'
    BY <1>3, <1>5 DEF HostClaim, HostRelease, linkVars
  <1>6. ASSUME NEW h, NEW c, AnnounceReserved(h, c) PROVE AddressInv'
    BY <1>3, <1>6 DEF AnnounceReserved, linkVars
  <1>7. ASSUME NEW id, NEW n, \/ HostAttest(id) \/ HostSettle(id) \/ HostCallback(id)
                            \/ HostReserve(id, n)
        PROVE  AddressInv'
    <2>1. UNCHANGED <<task, queue, got>>
      BY <1>7 DEF HostAttest, HostSettle, HostCallback, HostReserve, linkVars, brokerVars
    <2>2. QED
      BY <2>1, AddressGoesOn DEF AddressInv
  <1>8. QED
    BY <1>2, <1>4, <1>5, <1>6, <1>7, AttachAddresses DEF HostStep, AttachModuleStaged

-----------------------------------------------------------------------------
(* So every step leaves messages only where they are meant to go. *)
LEMMA AddressNext ==
    ASSUME AddressInv, Stays, SettleInv, TasksMinted, RouterInv, [BrokerNext]_vars
    PROVE  AddressInv'
  <1>1. CASE HostStep
    BY <1>1, HostAddresses
  <1>2. CASE AttachPeer
    BY <1>2, AttachAddresses DEF AttachPeer
  <1>3. CASE UNCHANGED vars
    <2>1. UNCHANGED <<task, queue, got>>
      BY <1>3 DEF vars, brokerVars
    <2>2. QED
      BY <2>1, AddressGoesOn DEF AddressInv
  <1>4. ASSUME NEW id \in Readers, NEW m \in Inputs, Recv(id, m) PROVE AddressInv'
    BY <1>4, RecvAddresses
  <1>5. ASSUME NEW id \in Readers, ReaderStep(id) PROVE AddressInv'
    BY <1>5, ReaderAddresses
  <1>6. ASSUME NEW id \in Readers, WriterStep(id) PROVE AddressInv'
    BY <1>6, WriterAddresses
  <1>7. ASSUME NEW id \in Readers, Disconnect(id) PROVE AddressInv'
    <2>1. UNCHANGED <<queue, got>> /\ id \in DOMAIN task
      BY <1>7 DEF Disconnect, Readers
    <2>2. PICK y : Become(id, y) /\ Directed(y, id)
      BY <1>7, EmptyHanded DEF Disconnect
    <2>3. QED
      BY <2>1, <2>2, TaskAddresses
  <1>8. ASSUME NEW t \in DOMAIN task, Announce(t) \/ TrySend(t) PROVE AddressInv'
    BY <1>8, FanAddresses
  <1>9. QED
    BY <1>1, <1>2, <1>3, <1>4, <1>5, <1>6, <1>7, <1>8 DEF BrokerNext

(* What was granted stays granted: attestations and admissions only grow
   while a peer is attached, and a bound capability keeps its module. *)
LEMMA CapsStep ==
    ASSUME RouterInv, [RouterNext]_routerVars
    PROVE  \A d \in DOMAIN caps :
             /\ d \in DOMAIN caps'
             /\ caps[d].module # None => caps'[d].module = caps[d].module
  <1> DEFINE Kept == \A d \in DOMAIN caps :
                       /\ d \in DOMAIN caps'
                       /\ caps[d].module # None => caps'[d].module = caps[d].module
  <1>1. \A d \in DOMAIN caps : DOMAIN caps[d] = {"module", "active", "revoked"}
    BY DEF RouterInv, RouterTypeOK, Capability
  <1>2. CASE caps' = caps
    BY <1>2
  <1>3. ASSUME NEW S, caps' = Revoked(S) PROVE Kept
    <2>1. \A d \in DOMAIN caps : [caps[d] EXCEPT !.active = FALSE, !.revoked = TRUE].module = caps[d].module
      BY <1>1
    <2>2. QED
      BY <1>3, <2>1 DEF Revoked
  <1>4. ASSUME NEW d, PrepareCallback(d) PROVE Kept
    BY <1>4 DEF PrepareCallback, Put
  <1>5. ASSUME NEW d, NEW u, BindCallback(d, u) PROVE Kept
    BY <1>5 DEF BindCallback
  <1>6. ASSUME NEW id, Detach(id) PROVE Kept
    BY <1>3, <1>6 DEF Detach
  <1>7. QED
    BY <1>2, <1>3, <1>4, <1>5, <1>6
    DEF RouterNext, routerVars, Attach, DetachUnique, RequestName, RequestNameForUnique, Claim,
        Release, ReleaseName, ReleaseNameForUnique, SetManifest, AddMatch, RemoveMatch,
        SetAttestation, UpdatePeer, AddHostCallbacks, RevokeHostCallbacks, RevokeCallbacksForPeer

(* Attestations and admissions only grow while a peer is attached, and an
   id that was minted is never attached again. *)
LEMMA GrantStep ==
    ASSUME RouterInv, [RouterNext]_routerVars
    PROVE  \A p \in Minted \cap DOMAIN peers' :
             /\ p \in DOMAIN peers
             /\ peers[p].attestations \subseteq peers'[p].attestations
             /\ peers[p].admitted # None => peers'[p].admitted # None
  <1> DEFINE Kept == \A p \in Minted \cap DOMAIN peers' :
                       /\ p \in DOMAIN peers
                       /\ peers[p].attestations \subseteq peers'[p].attestations
                       /\ peers[p].admitted # None => peers'[p].admitted # None
  <1>1. \A p \in DOMAIN peers :
          DOMAIN peers[p] = {"unique", "matches", "manifest", "attestations", "admitted"}
    BY DEF RouterInv, RouterTypeOK, PeerRecord
  <1>2. CASE peers' = peers
    BY <1>2
  <1>3. CASE Attach
    <2>1. nextId + 1 \notin Minted
      BY DEF RouterInv, RouterTypeOK, Minted
    <2>2. QED
      BY <1>3, <2>1 DEF Attach, Put
  <1>4. ASSUME NEW id, Detach(id) PROVE Kept
    BY <1>4 DEF Detach, Without, Restrict
  <1>5. ASSUME NEW id, NEW rec, UpdatePeer(id, rec),
               id \in DOMAIN peers =>
                 /\ peers[id].attestations \subseteq rec.attestations
                 /\ peers[id].admitted # None => rec.admitted # None
        PROVE  Kept
    BY <1>5 DEF UpdatePeer
  <1>6. ASSUME NEW id, NEW m, SetManifest(id, m) PROVE Kept
    BY <1>1, <1>5, <1>6 DEF SetManifest
  <1>7. ASSUME NEW id, NEW r, AddMatch(id, r) \/ RemoveMatch(id, r) PROVE Kept
    BY <1>1, <1>5, <1>7 DEF AddMatch, RemoveMatch
  <1>8. ASSUME NEW u, NEW n \in WellKnown, SetAttestation(u, n) PROVE Kept
    BY <1>1, <1>5, <1>8, NoneIsNoName DEF SetAttestation
  <1>9. QED
    BY <1>2, <1>3, <1>4, <1>6, <1>7, <1>8
    DEF RouterNext, routerVars, DetachUnique, RequestName, RequestNameForUnique, Claim,
        Release, ReleaseName, ReleaseNameForUnique, PrepareCallback, BindCallback,
        AddHostCallbacks, RevokeHostCallbacks, RevokeCallbacksForPeer

(* Ids are only ever minted. *)
LEMMA MintedStep ==
    ASSUME RouterInv, [RouterNext]_routerVars
    PROVE  Minted \subseteq Minted'
  <1>1. nextId' = nextId \/ nextId' = nextId + 1
    BY DEF RouterNext, routerVars, Attach, Detach, DetachUnique, RequestName, RequestNameForUnique,
        Claim, Release, ReleaseName, ReleaseNameForUnique, SetManifest, AddMatch, RemoveMatch,
        SetAttestation, UpdatePeer, PrepareCallback, BindCallback, AddHostCallbacks,
        RevokeHostCallbacks, RevokeCallbacksForPeer
  <1>2. nextId \in Nat
    BY DEF RouterInv, RouterTypeOK
  <1>3. QED
    BY <1>1, <1>2 DEF Minted

(* So a message stays meant for a peer, whatever happens to the table
   between its selection, its queueing and its delivery. *)
LEMMA GrantsStay ==
    ASSUME RouterInv, [RouterNext]_routerVars
    PROVE  Stays
  <1> SUFFICES ASSUME NEW m, NEW p, Meant(m, p, peers, caps, nextId)
               PROVE  Meant(m, p, peers', caps', nextId')
    BY DEF Stays
  <1>1. p \in Minted /\ p \in Nat
    BY DEF Meant, Minted, RouterInv, RouterTypeOK
  <1>2. Minted \subseteq Minted'
    BY MintedStep
  <1>3. Unique(p) # None
    BY <1>1, UniqueNames, NoneIsNoName
  <1>4. \A d \in DOMAIN caps :
          /\ d \in DOMAIN caps'
          /\ caps[d].module # None => caps'[d].module = caps[d].module
    BY CapsStep
  <1>5. p \in DOMAIN peers' =>
          /\ p \in DOMAIN peers
          /\ peers[p].attestations \subseteq peers'[p].attestations
          /\ peers[p].admitted # None => peers'[p].admitted # None
    BY <1>1, GrantStep
  <1>6. p \in 1..nextId'
    BY <1>1, <1>2 DEF Minted
  <1>7. QED
    BY <1>3, <1>4, <1>5, <1>6 DEF Meant

(* Every attached peer has a reader. *)
PeersRead == DOMAIN peers \subseteq Readers

(* A reader's task outlives its peer's record. *)
LEMMA PeersStep ==
    ASSUME PeersRead, TasksMinted, [BrokerNext]_vars
    PROVE  PeersRead'
  <1>1. ASSUME DOMAIN peers' \subseteq DOMAIN peers, DOMAIN task' = DOMAIN task PROVE PeersRead'
    BY <1>1 DEF PeersRead, Readers
  <1>2. ASSUME NEW pc, NEW w, AttachAs(pc, w) PROVE PeersRead'
    <2>1. DOMAIN peers' = DOMAIN peers \cup {nextId + 1} /\ DOMAIN task' = DOMAIN task \cup {nextId + 1}
      BY <1>2 DEF AttachAs, Attach, Put
    <2>2. PICK n \in Nat : n = nextId + 1
      BY DEF TasksMinted
    <2>3. n \notin HostTasks
      BY BoundsAssumption DEF BoundsAssumption
    <2>4. QED
      BY <2>1, <2>2, <2>3 DEF PeersRead, Readers
  <1>3. ASSUME NEW id \in Readers, NEW m \in Inputs, Recv(id, m) PROVE PeersRead'
    <2>1. id \in Minted
      BY DEF TasksMinted, Readers
    <2>2. DOMAIN task' = DOMAIN task
      BY <1>3, <2>1, RecvStep
    <2>3. DOMAIN peers' \subseteq DOMAIN peers
      <3>1. ASSUME NEW h, BusMethod(id, h) PROVE DOMAIN peers' \subseteq DOMAIN peers
        BY <3>1 DEF BusMethod, BusRequestName, BusReleaseName, BusUpdatePeer, BusQuery, RequestName,
                    Claim, ReleaseName, Release, SetManifest, AddMatch, RemoveMatch, UpdatePeer, routerVars
      <3>2. ASSUME NEW h, RouteSignal(id, h) \/ RouteDirected(id, h) \/ RouteToPeer(id, h)
            PROVE  DOMAIN peers' \subseteq DOMAIN peers
        BY <3>2 DEF RouteSignal, RouteDirected, RouteToPeer, routerVars
      <3>3. QED
        BY <1>3, <3>1, <3>2 DEF Recv, routerVars
    <2>4. QED
      BY <1>1, <2>2, <2>3
  <1>4. ASSUME NEW t, ReaderStep(t) \/ WriterStep(t) \/ Announce(t) \/ TrySend(t) PROVE PeersRead'
    BY <1>1, <1>4, QuietStep DEF ReaderStep, routerVars
  <1>5. ASSUME NEW id \in Readers, Disconnect(id) PROVE PeersRead'
    BY <1>1, <1>5 DEF Disconnect, Detach, Without, Restrict, routerVars, Become
  <1>6. CASE HostStep
    <2>1. CASE AttachModuleStaged
      BY <1>2, <2>1 DEF AttachModuleStaged
    <2>2. ASSUME NEW h, NEW c, AnnounceReserved(h, c) PROVE PeersRead'
      BY <1>1, <2>2 DEF AnnounceReserved, routerVars, Become
    <2>3. ASSUME NEW id, NEW n, \/ StartModule(id) \/ HostAttest(id) \/ HostSettle(id)
                              \/ HostCallback(id) \/ HostReserve(id, n)
          PROVE  PeersRead'
      <3>1. DOMAIN task' = DOMAIN task
        BY <2>3 DEF StartModule, HostAttest, HostSettle, HostCallback, HostReserve, Become, brokerVars
      <3>2. DOMAIN peers' = DOMAIN peers
        BY <2>3 DEF StartModule, HostAttest, HostSettle, HostCallback, HostReserve, SetAttestation,
                    UpdatePeer, RequestNameForUnique, Claim, PrepareCallback, BindCallback,
                    AddHostCallbacks, RevokeHostCallbacks, RevokeCallbacksForPeer, routerVars
      <3>3. QED
        BY <1>1, <3>1, <3>2
    <2>4. ASSUME NEW h, NEW id, HostDetach(h, id) PROVE PeersRead'
      BY <1>1, <2>4 DEF HostDetach, DetachUnique, Detach, Without, Restrict
    <2>5. ASSUME NEW h, NEW id, NEW n, HostClaim(h, id, n) \/ HostRelease(h, id, n) PROVE PeersRead'
      BY <1>1, <2>5 DEF HostClaim, HostRelease, RequestNameForUnique, ReleaseNameForUnique, Claim,
                        Release, Become
    <2>6. QED
      BY <1>6, <2>1, <2>2, <2>3, <2>4, <2>5 DEF HostStep
  <1>7. CASE UNCHANGED vars
    BY <1>1, <1>7 DEF vars, routerVars, brokerVars
  <1>8. QED
    BY <1>2, <1>3, <1>4, <1>5, <1>6, <1>7 DEF BrokerNext, AttachPeer

(* Everything handed over or selected for a peer is meant for it. *)
LEMMA AddressedFits ==
    ASSUME AddressInv, NEW p \in Readers, NEW m \in Addressed(p)
    PROVE  Fits(m, p)
  <1>1. CASE \E i \in DOMAIN Handed(p) : m = Handed(p)[i]
    <2> DEFINE q == got[p]
               r == queue[p]
               S == {q[i] : i \in DOMAIN q} \cup {r[i] : i \in DOMAIN r}
    <2>1. /\ q \in Seq({q[i] : i \in DOMAIN q}) /\ \A i \in DOMAIN q : Fits(q[i], p)
          /\ r \in Seq({r[i] : i \in DOMAIN r}) /\ \A i \in DOMAIN r : Fits(r[i], p)
      BY DEF AddressInv, Line
    <2>2. q \in Seq(S) /\ r \in Seq(S) /\ \A e \in S : Fits(e, p)
      BY <2>1
    <2>3. Handed(p) = q \o r
      BY DEF Handed
    <2> HIDE DEF q, r, S
    <2>4. q \o r \in Seq(S)
      BY <2>2, ConcatProperties
    <2>5. \A i \in DOMAIN (q \o r) : (q \o r)[i] \in S
      BY <2>4
    <2>6. QED
      BY <1>1, <2>2, <2>3, <2>5
  <1>2. CASE \E t \in Readers : task[t].pc \in {"gate", "send"} /\ task[t].to = p /\ m = task[t].msg
    BY <1>2 DEF Readers, AddressInv, Directed
  <1>3. QED
    BY <1>1, <1>2 DEF Addressed

(* The invariant of the whole broker. *)
BrokerInv == TasksMinted /\ PeersRead /\ SettleInv /\ AddressInv

(* The invariants are inductive, the table's own included. *)
LEMMA BrokerInvariant == BrokerSpec => [](BrokerInv /\ RouterInv)
  <1>1. BrokerInit => BrokerInv
    <2>1. BrokerInit => TasksMinted /\ SettleInv
      BY SettleInit DEF BrokerInit, TasksMinted, ModulesMinted, RouterInit, Minted
    <2>2. ASSUME BrokerInit PROVE AddressInv /\ PeersRead
      <3>1. Readers = {} /\ peers = <<>> /\ \A t \in DOMAIN task : task[t] = Idle("idle")
        BY <2>2 DEF BrokerInit, RouterInit, Readers
      <3>2. DOMAIN peers = {}
        BY <3>1
      <3>3. QED
        BY <3>1, <3>2, EmptyHanded DEF AddressInv, PeersRead
    <2>3. QED
      BY <2>1, <2>2 DEF BrokerInv
  <1>2. ASSUME BrokerInv, RouterInv, [BrokerNext]_vars PROVE BrokerInv'
    <2>1. TasksMinted /\ PeersRead /\ SettleInv /\ AddressInv
      BY <1>2 DEF BrokerInv
    <2>2. TasksMinted' /\ [RouterNext]_routerVars
      BY <1>2, <2>1, BrokerStep
    <2>3. PeersRead' /\ SettleInv'
      BY <1>2, <2>1, PeersStep, SettleNext
    <2>4. Stays
      BY <1>2, <2>2, GrantsStay
    <2>5. AddressInv'
      BY <1>2, <2>1, <2>4, AddressNext
    <2>6. QED
      BY <2>2, <2>3, <2>5 DEF BrokerInv
  <1>3. BrokerInv /\ RouterInv /\ [BrokerNext]_vars => BrokerInv'
    BY <1>2
  <1>4. QED
    BY <1>1, <1>3, Refinement, Invariance, PTL DEF BrokerSpec

(* No call vanishes in the broker and none is answered twice (`route`,
   `handle_bus_call`, the reader loop's error reply): once its reader is
   done with it, it was queued at one peer or answered, exactly once,
   unless its caller's own writer was gone. *)
THEOREM CallsSettledOnce == BrokerSpec => []EveryCallSettledOnce
  <1>1. BrokerInv => EveryCallSettledOnce
    BY SettledOnce DEF BrokerInv
  <1>2. QED
    BY <1>1, BrokerInvariant, PTL

(* A message for a unique name reaches that connection only, and a call
   that captured its responder reaches that peer only
   (`resolve_call_from`), however names change hands between selection and
   delivery. *)
THEOREM CallsReachTheNamed == BrokerSpec => []ReachesTheNamedPeer
  <1>1. ASSUME BrokerInv PROVE ReachesTheNamedPeer
    <2>1. \A p \in Readers : \A m \in Addressed(p) : Fits(m, p)
      BY <1>1, AddressedFits DEF BrokerInv
    <2>2. QED
      BY <2>1 DEF ReachesTheNamedPeer, Fits, Meant
  <1>2. BrokerInv => ReachesTheNamedPeer
    BY <1>1
  <1>3. QED
    BY <1>2, BrokerInvariant, PTL

(* Confidential calls and directed signals are only ever handed to peers
   entitled to them (`resolve_attested`, `matches_directed_signal`), though
   the table is unlocked between selection and delivery. *)
THEOREM OnlyAsAuthorised == BrokerSpec => []DeliveredAsAuthorised
  <1>1. ASSUME BrokerInv PROVE DeliveredAsAuthorised
    <2>1. \A p \in Readers : \A m \in Addressed(p) : Fits(m, p)
      BY <1>1, AddressedFits DEF BrokerInv
    <2>2. DOMAIN peers \subseteq Readers
      BY <1>1 DEF BrokerInv, PeersRead
    <2>3. ConfidentialOnlyToTrusted
      BY <2>1, <2>2 DEF ConfidentialOnlyToTrusted, Fits, Meant
    <2>4. DirectedOnlyToBoundModule
      BY <2>1 DEF DirectedOnlyToBoundModule, Fits, Meant
    <2>5. QED
      BY <2>3, <2>4 DEF DeliveredAsAuthorised
  <1>2. BrokerInv => DeliveredAsAuthorised
    BY <1>1
  <1>3. QED
    BY <1>2, BrokerInvariant, PTL


-----------------------------------------------------------------------------
(* The changes a bus method made are its caller's, F being the calls read;
   a task that announces nothing has nothing left to announce. *)
Owed(x, t, F) ==
    /\ x.pc \in {"bus", "reply"} => \A c \in x.todo :
         c.by # 0 /\ c.by \in DOMAIN F /\ F[c.by].caller \in {0, t}
    /\ x.pc \notin {"bus", "reply", "announce", "fan"} => x.todo = {}

(* The caller whose call made the change is gone for good. *)
Lapsed(c) ==
    /\ c.by # 0 /\ c.by \in DOMAIN fate
    /\ fate[c.by].caller \notin DOMAIN peers
    /\ fate[c.by].caller \in Minted \cup {0}

AnnounceInv ==
    /\ HostTasks \subseteq DOMAIN task
    /\ \A t \in DOMAIN task : Owed(task[t], t, fate)
    /\ \A c \in committed : Accounted(c) \/ Lapsed(c)

(* The callers of the calls read so far, and the dead, stay what they are. *)
PastKept ==
    /\ \A s \in DOMAIN fate : s \in DOMAIN fate' /\ fate'[s].caller = fate[s].caller
    /\ Minted \subseteq Minted'
    /\ \A p \in Minted \cup {0} : p \notin DOMAIN peers => p \notin DOMAIN peers'

(* Nothing is forgotten as long as a change that leaves a task's list was
   announced, is reserved, is on another list or lapsed with its caller. *)
LEMMA AnnounceGoesOn ==
    ASSUME AnnounceInv, PastKept, DOMAIN task \subseteq DOMAIN task',
           \A t \in DOMAIN task' : \/ t \in DOMAIN task /\ task'[t] = task[t]
                                   \/ Owed(task'[t], t, fate'),
           \A c \in committed' : c \in committed \/ Accounted(c)',
           announced \subseteq announced',
           \A c \in reserved : c \in reserved' \/ Accounted(c)',
           \A t \in DOMAIN task : \A c \in task[t].todo : Accounted(c)' \/ Lapsed(c)
    PROVE  AnnounceInv'
  <1>1. ASSUME NEW c, Lapsed(c) PROVE Lapsed(c)'
    BY <1>1 DEF PastKept, Lapsed
  <1>2. ASSUME NEW x, NEW t, Owed(x, t, fate) PROVE Owed(x, t, fate')
    BY <1>2 DEF PastKept, Owed
  <1>3. ASSUME NEW t \in DOMAIN task' PROVE Owed(task'[t], t, fate')
    BY <1>2, <1>3 DEF AnnounceInv
  <1>4. ASSUME NEW c \in committed' PROVE Accounted(c)' \/ Lapsed(c)'
    <2>1. Accounted(c)' \/ Accounted(c) \/ Lapsed(c)
      BY <1>4 DEF AnnounceInv
    <2>2. c \in announced \/ c \in reserved' => Accounted(c)'
      BY DEF Accounted
    <2>3. Accounted(c) => Accounted(c)' \/ Lapsed(c)
      BY <2>2 DEF Accounted
    <2>4. QED
      BY <1>1, <2>1, <2>3
  <1>5. QED
    BY <1>3, <1>4 DEF AnnounceInv

(* What a task goes on to announce. *)
LEMMA IdleOwes ==
    \A then \in {"recv", "done", "idle", "staged"} : \A t, F :
        Idle(then).todo = {} /\ Owed(Idle(then), t, F)
  BY DEF Idle, Owed

(* A task about to announce owes what it announces. *)
LEMMA AnnouncingOwes ==
    ASSUME NEW then \in {"recv", "done", "idle"}, NEW todo, NEW t, NEW F
    PROVE  /\ Announcing(todo, then).todo = todo
           /\ Owed(Announcing(todo, then), t, F)
  <1>1. /\ Announcing(todo, then).todo = todo
        /\ todo # {} => Announcing(todo, then).pc = "announce"
        /\ todo = {} => Announcing(todo, then).pc = then
    BY DEF Announcing, Idle
  <1>2. QED
    BY <1>1 DEF Owed

(* A task that fans a message out still owes the rest. *)
LEMMA FanOwes ==
    ASSUME NEW then \in {"recv", "done", "idle"}, NEW todo, NEW m, NEW fan, NEW t, NEW F
    PROVE  /\ Fanning(m, fan, todo, then).todo = todo
           /\ Owed(Fanning(m, fan, todo, then), t, F)
  <1>1. CASE fan = {}
    BY <1>1, AnnouncingOwes DEF Fanning
  <1>2. CASE fan # {}
    <2>1. Fanning(m, fan, todo, then).pc = "fan" /\ Fanning(m, fan, todo, then).todo = todo
      BY <1>2 DEF Fanning, Idle
    <2>2. QED
      BY <2>1 DEF Owed
  <1>3. QED
    BY <1>1, <1>2

(* One task goes on with what it owes, or hands it over, or leaves it to
   nobody, its caller being gone. *)
LEMMA OneAnnounces ==
    ASSUME AnnounceInv, PastKept, NEW t \in DOMAIN task, NEW y, Become(t, y), Owed(y, t, fate'),
           announced \subseteq announced',
           \A c \in committed' : c \in committed \/ c \in y.todo,
           \A c \in reserved : c \in reserved' \/ c \in y.todo,
           \A c \in task[t].todo : c \in y.todo \/ c \in announced' \/ Lapsed(c)
    PROVE  AnnounceInv'
  <1>1. /\ DOMAIN task' = DOMAIN task /\ task'[t] = y
        /\ \A o \in DOMAIN task \ {t} : task'[o] = task[o]
    BY DEF Become
  <1>2. \A c : c \in y.todo \/ c \in announced' => Accounted(c)'
    BY <1>1 DEF Accounted
  <1>3. ASSUME NEW o \in DOMAIN task, NEW c \in task[o].todo PROVE Accounted(c)' \/ Lapsed(c)
    <2>1. CASE o = t
      BY <1>2, <2>1
    <2>2. CASE o # t
      BY <1>1, <2>2 DEF Accounted
    <2>3. QED
      BY <2>1, <2>2
  <1>4. \A o \in DOMAIN task' : \/ o \in DOMAIN task /\ task'[o] = task[o]
                                \/ Owed(task'[o], o, fate')
    BY <1>1
  <1>5. QED
    BY <1>1, <1>2, <1>3, <1>4, AnnounceGoesOn

(* A step answers calls and reads one; it forgets none. *)
LEMMA FateKept ==
    ASSUME SettleInv, [BrokerNext]_vars
    PROVE  \A s \in DOMAIN fate : s \in DOMAIN fate' /\ fate'[s].caller = fate[s].caller
  <1> DEFINE Kept == \A s \in DOMAIN fate : s \in DOMAIN fate' /\ fate'[s].caller = fate[s].caller
  <1>1. fate \in Seq(Cells) /\ \A s \in DOMAIN fate : DOMAIN fate[s] = {"caller", "answers"}
    <2>1. fate \in Seq(Cells) /\ \A s \in DOMAIN fate : fate[s] \in Cells
      BY DEF SettleInv
    <2>2. \A c \in Cells : DOMAIN c = {"caller", "answers"}
      BY DEF Cells
    <2>3. QED
      BY <2>1, <2>2
  <1>2. CASE UNCHANGED fate
    BY <1>2
  <1>3. ASSUME NEW s, Answered(s) PROVE Kept
    <2>1. /\ DOMAIN fate' = DOMAIN fate
          /\ \A i \in DOMAIN fate : \/ fate'[i] = fate[i]
                                  \/ fate'[i] = [fate[i] EXCEPT !.answers = fate[i].answers + 1]
      BY <1>3 DEF Answered
    <2>2. \A i \in DOMAIN fate : [fate[i] EXCEPT !.answers = fate[i].answers + 1].caller = fate[i].caller
      BY <1>1
    <2>3. QED
      BY <2>1, <2>2
  <1>4. ASSUME NEW id, NEW m, Recv(id, m) PROVE Kept
    <2>1. PICK e : fate' = Append(fate, e)
      BY <1>4 DEF Recv
    <2>2. DOMAIN fate = 1..Len(fate) /\ Len(fate) \in Nat
      BY <1>1
    <2>3. DOMAIN fate' = 1..(Len(fate) + 1) /\ \A i \in 1..Len(fate) : fate'[i] = fate[i]
      BY <1>1, <2>1, <2>2
    <2>4. QED
      BY <2>2, <2>3
  <1>5. ASSUME NEW id, ReaderStep(id) PROVE UNCHANGED fate \/ \E s : Answered(s)
    BY <1>5 DEF ReaderStep, Gate, Send, LookUpCaller, SendReply, Refuse, histVars
  <1>6. ASSUME NEW id, \/ WriterStep(id) \/ Disconnect(id)
                       \/ Announce(id) \/ TrySend(id) \/ AttachPeer
        PROVE  UNCHANGED fate
    BY <1>6 DEF WriterStep, WriterSend, WriterRefuse, WriterFail, WriterEnd, Disconnect, Announce,
       TrySend, AttachPeer, AttachAs, histVars
  <1>7. CASE HostStep
    <2>1. UNCHANGED fate
      BY <1>7 DEF HostStep, AttachModuleStaged, AttachAs, StartModule, HostAttest, HostSettle,
         HostCallback, HostReserve, HostDetach, HostClaim, HostRelease, AnnounceReserved, histVars,
         linkVars, brokerVars
    <2>2. QED
      BY <1>2, <2>1
  <1>8. CASE UNCHANGED vars
    BY <1>8 DEF vars, brokerVars, histVars
  <1>9. QED
    BY <1>2, <1>3, <1>4, <1>5, <1>6, <1>7, <1>8 DEF BrokerNext

(* What was read and who is gone stays so, step by step. *)
LEMMA PastStays ==
    ASSUME SettleInv, RouterInv, TasksMinted, [BrokerNext]_vars
    PROVE  PastKept
  <1>1. [RouterNext]_routerVars
    BY BrokerStep
  <1>2. RouterInv' /\ Minted \subseteq Minted'
    BY <1>1, NextInv, MintedStep
  <1>3. 0 \notin DOMAIN peers'
    BY <1>2 DEF RouterInv, RouterTypeOK, Minted
  <1>4. \A p \in Minted : p \notin DOMAIN peers => p \notin DOMAIN peers'
    BY <1>1, GrantStep
  <1>5. QED
    BY <1>2, <1>3, <1>4, FateKept DEF PastKept

(* What a bus method changes it owes to its caller. *)
LEMMA BusOwes ==
    ASSUME NEW id, NEW h, BusMethod(id, h)
    PROVE  \E result, changes :
             /\ Decide(id, h, result, changes)
             /\ \A c \in changes : c.by = h.serial
  <1>1. CASE BusRequestName(id, h)
    BY <1>1 DEF BusRequestName, Change
  <1>2. CASE BusReleaseName(id, h)
    BY <1>2 DEF BusReleaseName, Change
  <1>3. CASE BusUpdatePeer(id, h)
    BY <1>3 DEF BusUpdatePeer
  <1>4. CASE BusQuery(id, h)
    BY <1>4 DEF BusQuery
  <1>5. QED
    BY <1>1, <1>2, <1>3, <1>4 DEF BusMethod

(* `handle_bus_call` puts the changes it commits on its reader's list under
   the same lock; any other message commits none. *)
LEMMA RecvAnnounces ==
    ASSUME AnnounceInv, PastKept, SettleInv, TasksMinted,
           NEW id \in Readers, NEW m \in Inputs, Recv(id, m)
    PROVE  AnnounceInv'
  <1> DEFINE h == [m EXCEPT !.serial = sent + 1, !.sender = Unique(id)]
  <1>1. h.serial = sent + 1
    BY InputFields DEF BlankHeader
  <1>2. id \in DOMAIN task /\ task[id].pc = "recv" /\ UNCHANGED <<reserved, announced>>
    BY DEF Recv, Readers, hostVars
  <1>3. task[id].todo = {}
    BY <1>2 DEF AnnounceInv, Owed
  <1> HIDE DEF h
  <1>4. ASSUME NEW y, Become(id, y), Owed(y, id, fate'),
               \A c \in committed' : c \in committed \/ c \in y.todo
        PROVE  AnnounceInv'
    BY <1>2, <1>3, <1>4, OneAnnounces
  <1>5. ASSUME NEW y, Become(id, y), y.todo = {}, UNCHANGED committed PROVE AnnounceInv'
    BY <1>4, <1>5 DEF Owed
  <1>6. CASE Fail(id, h) /\ UNCHANGED committed
    <2>1. CASE h.type = "method_call"
      <3> DEFINE y == [Idle("recv") EXCEPT !.pc = "refuse", !.msg = h]
      <3>1. y.todo = {}
        BY DEF Idle
      <3>2. Become(id, y)
        BY <1>6, <2>1 DEF Fail
      <3> HIDE DEF y
      <3>3. QED
        BY <1>5, <1>6, <3>1, <3>2
    <2>2. CASE h.type # "method_call"
      <3>1. Become(id, Idle("recv")) /\ Idle("recv").todo = {}
        BY <1>6, <2>2 DEF Fail, Idle
      <3>2. QED
        BY <1>5, <1>6, <3>1
    <2>3. QED
      BY <2>1, <2>2
  <1>7. CASE RouteSignal(id, h) \/ RouteDirected(id, h)
    <2>1. UNCHANGED committed
      BY <1>7 DEF RouteSignal, RouteDirected
    <2>2. Fail(id, h) \/ \E fan : Become(id, Fanning(h, fan, {}, "recv"))
      BY <1>7 DEF RouteSignal, RouteDirected
    <2>3. ASSUME NEW fan, Become(id, Fanning(h, fan, {}, "recv")) PROVE AnnounceInv'
      <3>1. Fanning(h, fan, {}, "recv").todo = {}
        BY FanOwes
      <3>2. QED
        BY <1>5, <2>1, <2>3, <3>1
    <2>4. QED
      BY <1>6, <2>1, <2>2, <2>3
  <1>8. CASE RouteToPeer(id, h)
    <2>1. UNCHANGED committed
      BY <1>8 DEF RouteToPeer
    <2>2. Fail(id, h) \/ \E pc, to : Become(id, [Idle("recv") EXCEPT !.pc = pc, !.msg = h, !.to = to])
      BY <1>8 DEF RouteToPeer
    <2>3. ASSUME NEW pc, NEW to, Become(id, [Idle("recv") EXCEPT !.pc = pc, !.msg = h, !.to = to])
          PROVE  AnnounceInv'
      <3> DEFINE y == [Idle("recv") EXCEPT !.pc = pc, !.msg = h, !.to = to]
      <3>1. y.todo = {}
        BY DEF Idle
      <3>2. Become(id, y)
        BY <2>3
      <3> HIDE DEF y
      <3>3. QED
        BY <1>5, <2>1, <3>1, <3>2
    <2>4. QED
      BY <1>6, <2>1, <2>2, <2>3
  <1>9. CASE BusMethod(id, h)
    <2>1. PICK result, changes : /\ Decide(id, h, result, changes)
                                /\ \A c \in changes : c.by = h.serial
      BY <1>9, BusOwes
    <2> DEFINE y == [Idle("recv") EXCEPT !.pc = "bus", !.msg = result, !.todo = changes]
    <2>2. y.pc = "bus" /\ y.todo = changes
      BY DEF Idle
    <2>3. Become(id, y) /\ committed' = committed \cup changes
      BY <2>1 DEF Decide
    <2> HIDE DEF y
    <2>4. PICK n \in Nat : n = sent + 1 /\ n # 0
      BY DEF SettleInv
    <2>5. n \in DOMAIN fate' /\ fate'[n].caller \in {0, id}
      <3> DEFINE v == [caller |-> IF h.type = "method_call" THEN id ELSE 0, answers |-> 0]
      <3>1. fate' = Append(fate, v) /\ v.caller \in {0, id} /\ v \in Cells
        <4>1. fate' = Append(fate, v)
          BY DEF Recv, h
        <4>2. id \in Nat
          BY DEF TasksMinted, Minted, Readers
        <4>3. QED
          BY <4>1, <4>2 DEF Cells
      <3>2. fate \in Seq(Cells) /\ Len(fate) = sent
        BY DEF SettleInv
      <3> HIDE DEF v
      <3>3. Len(fate') = sent + 1 /\ fate'[sent + 1] = v /\ fate' \in Seq(Cells)
        BY <3>1, <3>2, AppendProperties
      <3>4. DOMAIN fate' = 1..n /\ n \in 1..n
        BY <2>4, <3>3
      <3>5. QED
        BY <2>4, <3>1, <3>3, <3>4
    <2>6. Owed(y, id, fate')
      BY <1>1, <2>1, <2>2, <2>4, <2>5 DEF Owed
    <2>7. QED
      BY <1>4, <2>2, <2>3, <2>6
  <1>10. QED
    BY <1>6, <1>7, <1>8, <1>9 DEF Recv, h

(* Between the call and its answer nothing is lost but with the caller. *)
LEMMA ReaderAnnounces ==
    ASSUME AnnounceInv, PastKept, SettleInv, RouterInv, TasksMinted,
           NEW id \in Readers, ReaderStep(id)
    PROVE  AnnounceInv'
  <1> DEFINE x == task[id]
  <1>1. /\ id \in DOMAIN task /\ Owed(x, id, fate) /\ id \in Minted
        /\ DOMAIN x = {"pc", "msg", "to", "fan", "todo", "then"}
    BY DEF Readers, AnnounceInv, SettleInv, ReaderFits, Placed, TasksMinted
  <1>2. UNCHANGED <<committed, announced, reserved>>
    BY DEF ReaderStep, Gate, Send, LookUpCaller, SendReply, Refuse, histVars, hostVars
  <1>3. ASSUME NEW y, Become(id, y), Owed(y, id, fate'),
               \A c \in x.todo : c \in y.todo \/ c \in announced' \/ Lapsed(c)
        PROVE  AnnounceInv'
    BY <1>1, <1>2, <1>3, OneAnnounces
  <1>4. ASSUME NEW y, Become(id, y), y.todo = {}, \A c \in x.todo : Lapsed(c) PROVE AnnounceInv'
    BY <1>3, <1>4 DEF Owed
  <1>5. ASSUME Fail(id, x.msg), x.todo = {} PROVE AnnounceInv'
    <2>1. \E y : Become(id, y) /\ y.todo = {}
      <3>1. CASE x.msg.type = "method_call"
        <4> DEFINE y == [Idle("recv") EXCEPT !.pc = "refuse", !.msg = x.msg]
        <4>1. y.todo = {}
          BY DEF Idle
        <4>2. Become(id, y)
          BY <1>5, <3>1 DEF Fail
        <4> HIDE DEF y
        <4>3. QED
          BY <4>1, <4>2
      <3>2. CASE x.msg.type # "method_call"
        BY <1>5, <3>2 DEF Fail, Idle
      <3>3. QED
        BY <3>1, <3>2
    <2>2. QED
      BY <1>4, <1>5, <2>1
  <1>6. Idle("recv").todo = {}
    BY DEF Idle
  <1>7. CASE Gate(id)
    <2>1. x.pc = "gate" /\ x.todo = {}
      BY <1>1, <1>7 DEF Gate, Owed
    <2>2. CASE Become(id, [x EXCEPT !.pc = "send"])
      <3> DEFINE y == [x EXCEPT !.pc = "send"]
      <3>1. y.todo = {}
        BY <1>1, <2>1
      <3>2. Become(id, y)
        BY <2>2
      <3> HIDE DEF y
      <3>3. QED
        BY <1>4, <2>1, <3>1, <3>2
    <2>3. QED
      BY <1>5, <1>7, <2>1, <2>2 DEF Gate
  <1>8. CASE Send(id) \/ Refuse(id)
    <2>1. x.todo = {}
      BY <1>1, <1>8 DEF Send, Refuse, Owed
    <2>2. Become(id, Idle("recv")) \/ Fail(id, x.msg)
      BY <1>8 DEF Send, Refuse
    <2>3. QED
      BY <1>4, <1>5, <1>6, <2>1, <2>2
  <1>9. CASE LookUpCaller(id)
    <2>1. x.pc = "bus" /\ UNCHANGED fate
      BY <1>9 DEF LookUpCaller, histVars
    <2>2. CASE Become(id, [x EXCEPT !.pc = "reply"])
      <3> DEFINE y == [x EXCEPT !.pc = "reply"]
      <3>1. y.pc = "reply" /\ y.todo = x.todo
        BY <1>1
      <3>2. Become(id, y)
        BY <2>2
      <3> HIDE DEF y
      <3>3. Owed(y, id, fate')
        BY <1>1, <2>1, <3>1 DEF Owed
      <3>4. QED
        BY <1>3, <3>1, <3>2, <3>3
    <2>3. CASE ~Resolves(Unique(id))
      <3>1. id \notin DOMAIN peers
        <4>1. ASSUME id \in DOMAIN peers PROVE FALSE
          <5>1. Unique(id) \in DOMAIN names /\ IsUnique(Unique(id))
            BY <1>1, <4>1, UniqueNames DEF RouterInv, RouterTypeOK, UniqueOwned, Minted
          <5>2. names[Unique(id)] \in DOMAIN peers
            BY <5>1 DEF RouterInv, NamesLive
          <5>3. QED
            BY <2>3, <5>1, <5>2 DEF Resolves
        <4>2. QED
          BY <4>1
      <3>2. 0 \notin DOMAIN peers
        BY DEF RouterInv, RouterTypeOK, Minted
      <3>3. \A c \in x.todo : Lapsed(c)
        BY <1>1, <2>1, <3>1, <3>2 DEF Owed, Lapsed
      <3>4. \E y : Become(id, y) /\ y.todo = {}
        <4>1. \/ Become(id, Idle("recv"))
              \/ \E q : Become(id, [Idle("recv") EXCEPT !.pc = "refuse", !.msg = q])
          BY <1>9, <2>3 DEF LookUpCaller
        <4>2. \A q : [Idle("recv") EXCEPT !.pc = "refuse", !.msg = q].todo = {}
          BY DEF Idle
        <4>3. QED
          BY <1>6, <4>1, <4>2
      <3>5. QED
        BY <1>4, <3>3, <3>4
    <2>4. QED
      BY <1>9, <2>2, <2>3 DEF LookUpCaller
  <1>10. CASE SendReply(id)
    <2>1. Become(id, Announcing(x.todo, "recv"))
      BY <1>10 DEF SendReply
    <2>2. Announcing(x.todo, "recv").todo = x.todo /\ Owed(Announcing(x.todo, "recv"), id, fate')
      BY AnnouncingOwes
    <2>3. QED
      BY <1>3, <2>1, <2>2
  <1>11. QED
    BY <1>7, <1>8, <1>9, <1>10 DEF ReaderStep

(* An announcement is made before the change is struck off. *)
LEMMA FanAnnounces ==
    ASSUME AnnounceInv, PastKept, AddressInv, NEW t \in DOMAIN task, Announce(t) \/ TrySend(t)
    PROVE  AnnounceInv'
  <1> DEFINE x == task[t]
  <1>1. /\ x.then \in {"recv", "done", "idle"}
        /\ UNCHANGED committed /\ UNCHANGED reserved
    BY DEF AddressInv, Directed, Announce, TrySend, histVars, hostVars
  <1>a. ASSUME NEW m, NEW fan, NEW todo
        PROVE  /\ Fanning(m, fan, todo, x.then).todo = todo
               /\ Owed(Fanning(m, fan, todo, x.then), t, fate')
    BY <1>1, FanOwes
  <1>2. CASE Announce(t)
    <2>1. PICK c \in x.todo :
            /\ Become(t, Fanning(NameOwnerChanged(c), BroadcastTargets(NameOwnerChanged(c)),
                                 x.todo \ {c}, x.then))
            /\ announced' = announced \cup {c}
      BY <1>2 DEF Announce
    <2> DEFINE y == Fanning(NameOwnerChanged(c), BroadcastTargets(NameOwnerChanged(c)),
                           x.todo \ {c}, x.then)
    <2>2. y.todo = x.todo \ {c} /\ Owed(y, t, fate')
      BY <1>a
    <2>3. Become(t, y)
      BY <2>1
    <2> HIDE DEF y
    <2>4. QED
      BY <1>1, <2>1, <2>2, <2>3, OneAnnounces
  <1>3. CASE TrySend(t)
    <2>1. UNCHANGED announced
      BY <1>3 DEF TrySend, histVars
    <2>2. PICK p \in x.fan : Become(t, Fanning(x.msg, x.fan \ {p}, x.todo, x.then))
      BY <1>3 DEF TrySend
    <2> DEFINE y == Fanning(x.msg, x.fan \ {p}, x.todo, x.then)
    <2>3. y.todo = x.todo /\ Owed(y, t, fate')
      BY <1>a
    <2>4. Become(t, y)
      BY <2>2
    <2> HIDE DEF y
    <2>5. QED
      BY <1>1, <2>1, <2>3, <2>4, OneAnnounces
  <1>4. QED
    BY <1>2, <1>3

(* What a detached peer owned is announced by whoever detached it. *)
LEMMA DisconnectAnnounces ==
    ASSUME AnnounceInv, PastKept, NEW id \in Readers, Disconnect(id)
    PROVE  AnnounceInv'
  <1>1. /\ id \in DOMAIN task /\ task[id].todo = {}
        /\ UNCHANGED reserved /\ UNCHANGED announced
    BY DEF Disconnect, Readers, AnnounceInv, Owed, hostVars
  <1>2. PICK y : /\ Become(id, y) /\ Owed(y, id, fate')
                 /\ committed' = committed \cup y.todo
    <2>1. CASE /\ committed' = committed \cup DetachChanges(id)
               /\ Become(id, Announcing(DetachChanges(id), "done"))
      BY <2>1, AnnouncingOwes
    <2>2. CASE UNCHANGED committed /\ Become(id, Idle("done"))
      BY <2>2, IdleOwes
    <2>3. QED
      BY <2>1, <2>2 DEF Disconnect
  <1>3. QED
    BY <1>1, <1>2, OneAnnounces

(* Steps that touch neither tasks nor changes. *)
LEMMA QuietAnnounces ==
    ASSUME AnnounceInv, PastKept, UNCHANGED <<task, committed, announced, reserved>>
    PROVE  AnnounceInv'
  <1>1. \A c : Accounted(c) => Accounted(c)'
    BY DEF Accounted
  <1>2. \A c \in reserved : c \in reserved'
    OBVIOUS
  <1>3. \A t \in DOMAIN task : \A c \in task[t].todo : Accounted(c)'
    BY DEF Accounted
  <1>4. QED
    BY <1>2, <1>3, AnnounceGoesOn

(* A new peer owes nothing. *)
LEMMA AttachAnnounces ==
    ASSUME AnnounceInv, PastKept, TasksMinted,
           AttachAs("recv", "running") \/ AttachAs("staged", "staged")
    PROVE  AnnounceInv'
  <1>1. PICK pc \in {"recv", "staged"} : \E w : AttachAs(pc, w)
    OBVIOUS
  <1>2. PICK n \in Nat : n = nextId + 1
    BY DEF TasksMinted
  <1>3. n \notin DOMAIN task
    BY <1>2, BoundsAssumption DEF BoundsAssumption, TasksMinted, Minted
  <1>4. /\ task' = Put(task, n, Idle(pc))
        /\ UNCHANGED committed /\ UNCHANGED announced /\ UNCHANGED reserved
    BY <1>1, <1>2 DEF AttachAs, hostVars, histVars
  <1>5. /\ DOMAIN task' = DOMAIN task \cup {n} /\ task'[n] = Idle(pc)
        /\ \A t \in DOMAIN task : task'[t] = task[t]
    BY <1>3, <1>4 DEF Put
  <1>6. Owed(Idle(pc), n, fate')
    BY IdleOwes
  <1>7. \A t \in DOMAIN task : \A c \in task[t].todo : Accounted(c)'
    BY <1>5 DEF Accounted
  <1>8. \A t \in DOMAIN task' : \/ t \in DOMAIN task /\ task'[t] = task[t]
                                \/ Owed(task'[t], t, fate')
    BY <1>5, <1>6
  <1>9. QED
    BY <1>4, <1>5, <1>7, <1>8, AnnounceGoesOn

(* The host announces what it detaches, claims and releases, and keeps the
   claim it reserves until the module is ready. *)
LEMMA HostAnnounces ==
    ASSUME AnnounceInv, PastKept, TasksMinted, HostStep
    PROVE  AnnounceInv'
  <1>1. \A t \in DOMAIN task : task[t].pc \in {"idle", "staged"} => task[t].todo = {}
    BY DEF AnnounceInv, Owed
  <1>2. HostTasks \subseteq DOMAIN task
    BY DEF AnnounceInv
  <1>3. ASSUME NEW id \in Readers, StartModule(id) PROVE AnnounceInv'
    <2>1. /\ id \in DOMAIN task /\ task[id].todo = {} /\ Become(id, Idle("recv"))
          /\ UNCHANGED committed /\ UNCHANGED announced /\ UNCHANGED reserved
      BY <1>1, <1>3 DEF StartModule, Readers, histVars, hostVars
    <2>2. Owed(Idle("recv"), id, fate')
      BY IdleOwes
    <2>3. QED
      BY <2>1, <2>2, OneAnnounces
  <1>4. ASSUME NEW h \in HostTasks, NEW S, task[h].pc = "idle", Become(h, Announcing(S, "idle")),
               committed' \subseteq committed \cup S, UNCHANGED announced, reserved \subseteq reserved' \cup S
        PROVE  AnnounceInv'
    <2>1. Announcing(S, "idle").todo = S /\ Owed(Announcing(S, "idle"), h, fate')
      BY AnnouncingOwes
    <2>2. h \in DOMAIN task /\ task[h].todo = {}
      BY <1>1, <1>2, <1>4
    <2>3. QED
      BY <1>4, <2>1, <2>2, OneAnnounces
  <1>5. ASSUME NEW h \in HostTasks, NEW id \in Readers, HostDetach(h, id) PROVE AnnounceInv'
    <2> DEFINE S == DetachChanges(id)
               y == Announcing(S, "idle")
    <2>1. /\ DOMAIN task' = DOMAIN task /\ task[h].pc = "idle" /\ h # id /\ id \in DOMAIN task
          /\ task'[h] = y
          /\ task'[id] = IF task[id].pc = "staged" THEN Idle("done") ELSE task[id]
          /\ \A o \in DOMAIN task \ {h, id} : task'[o] = task[o]
          /\ committed' = committed \cup S /\ UNCHANGED announced /\ UNCHANGED reserved
      BY <1>2, <1>5 DEF HostDetach, Readers, linkVars, hostVars
    <2>2. y.todo = S /\ Owed(y, h, fate') /\ Owed(Idle("done"), id, fate')
      BY IdleOwes, AnnouncingOwes
    <2> HIDE DEF y, S
    <2>3. \A t \in DOMAIN task' : \/ t \in DOMAIN task /\ task'[t] = task[t]
                                  \/ Owed(task'[t], t, fate')
      BY <2>1, <2>2
    <2>4. h \in DOMAIN task
      BY <1>2
    <2>5. \A c \in committed' : c \in committed \/ Accounted(c)'
      BY <2>1, <2>2, <2>4 DEF Accounted
    <2>6. \A t \in DOMAIN task : \A c \in task[t].todo : Accounted(c)'
      BY <1>1, <2>1, <2>4 DEF Accounted
    <2>7. QED
      BY <2>1, <2>3, <2>5, <2>6, AnnounceGoesOn
  <1>6. ASSUME NEW h \in HostTasks, NEW id, NEW n, HostClaim(h, id, n) \/ HostRelease(h, id, n)
        PROVE  AnnounceInv'
    <2>1. PICK c : /\ Become(h, Announcing({c}, "idle")) /\ committed' = committed \cup {c}
                   /\ task[h].pc = "idle" /\ UNCHANGED announced /\ UNCHANGED reserved
      BY <1>6 DEF HostClaim, HostRelease, linkVars, hostVars
    <2>2. QED
      BY <1>4, <2>1
  <1>7. ASSUME NEW h \in HostTasks, NEW c, AnnounceReserved(h, c) PROVE AnnounceInv'
    BY <1>4, <1>7 DEF AnnounceReserved, linkVars
  <1>8. ASSUME NEW id, NEW n, HostReserve(id, n) PROVE AnnounceInv'
    <2>1. PICK c : /\ reserved' = reserved \cup {c} /\ committed' = committed \cup {c}
                   /\ UNCHANGED announced /\ UNCHANGED task
      BY <1>8 DEF HostReserve, linkVars
    <2>2. /\ \A e \in committed' : e \in committed \/ Accounted(e)'
          /\ \A e \in reserved : e \in reserved'
          /\ \A t \in DOMAIN task : \A e \in task[t].todo : Accounted(e)'
      BY <2>1 DEF Accounted
    <2>3. QED
      BY <2>1, <2>2, AnnounceGoesOn
  <1>9. ASSUME NEW id, HostAttest(id) \/ HostSettle(id) \/ HostCallback(id) PROVE AnnounceInv'
    <2>1. UNCHANGED <<task, committed, announced, reserved>>
      BY <1>9 DEF HostAttest, HostSettle, HostCallback, linkVars, hostVars, histVars, brokerVars
    <2>2. QED
      BY <2>1, QuietAnnounces
  <1>10. QED
    BY <1>3, <1>5, <1>6, <1>7, <1>8, <1>9, AttachAnnounces DEF HostStep, AttachModuleStaged

(* So every step accounts for the changes committed before it. *)
LEMMA AnnounceNext ==
    ASSUME AnnounceInv, AddressInv, SettleInv, RouterInv, TasksMinted, [BrokerNext]_vars
    PROVE  AnnounceInv'
  <1>0. PastKept
    BY PastStays
  <1>1. CASE HostStep
    BY <1>0, <1>1, HostAnnounces
  <1>2. CASE AttachPeer
    BY <1>0, <1>2, AttachAnnounces DEF AttachPeer
  <1>3. CASE UNCHANGED vars
    <2>1. UNCHANGED <<task, committed, announced, reserved>>
      BY <1>3 DEF vars, brokerVars, hostVars, histVars
    <2>2. QED
      BY <1>0, <2>1, QuietAnnounces
  <1>4. ASSUME NEW id \in Readers, NEW m \in Inputs, Recv(id, m) PROVE AnnounceInv'
    BY <1>0, <1>4, RecvAnnounces
  <1>5. ASSUME NEW id \in Readers, ReaderStep(id) PROVE AnnounceInv'
    BY <1>0, <1>5, ReaderAnnounces
  <1>6. ASSUME NEW id \in Readers, WriterStep(id) PROVE AnnounceInv'
    <2>1. UNCHANGED <<task, committed, announced, reserved>>
      BY <1>6 DEF WriterStep, WriterSend, WriterRefuse, WriterFail, WriterEnd, hostVars, histVars
    <2>2. QED
      BY <1>0, <2>1, QuietAnnounces
  <1>7. ASSUME NEW id \in Readers, Disconnect(id) PROVE AnnounceInv'
    BY <1>0, <1>7, DisconnectAnnounces
  <1>8. ASSUME NEW t \in DOMAIN task, Announce(t) \/ TrySend(t) PROVE AnnounceInv'
    BY <1>0, <1>8, FanAnnounces
  <1>9. QED
    BY <1>1, <1>2, <1>3, <1>4, <1>5, <1>6, <1>7, <1>8 DEF BrokerNext

(* Who owns what: `owner_of` finds the peer whose entry the name is. *)
LEMMA Owners ==
    ASSUME RouterInv, RouterInv'
    PROVE  \A n : /\ OwnerOf(n) = IF n \in DOMAIN names THEN Unique(names[n]) ELSE None
                  /\ OwnerOf(n)' = IF n \in DOMAIN names' THEN Unique(names'[n]) ELSE None
  <1>1. ASSUME NEW n
        PROVE  OwnerOf(n) = IF n \in DOMAIN names THEN Unique(names[n]) ELSE None
    BY DEF OwnerOf, Resolves, RouterInv, NamesLive, UniqueOwned
  <1>2. ASSUME NEW n
        PROVE  OwnerOf(n)' = IF n \in DOMAIN names' THEN Unique(names'[n]) ELSE None
    BY DEF OwnerOf, Resolves, RouterInv, NamesLive, UniqueOwned
  <1>3. QED
    BY <1>1, <1>2

(* A step that moves no name and tells of none. *)
LEMMA QuietTells ==
    ASSUME RouterInv, RouterInv', UNCHANGED <<names, committed>>
    PROVE  ChangesTrue
  <1>1. \A n : OwnerOf(n)' = OwnerOf(n)
    BY Owners
  <1>2. QED
    BY <1>1 DEF ChangesTrue

(* A new peer brings a name nobody ever had or asked for. *)
LEMMA AttachTells ==
    ASSUME RouterInv, RouterInv', Attach, UNCHANGED committed
    PROVE  ChangesTrue
  <1>1. Unique(nextId + 1) \notin DOMAIN names \cup WellKnown
    BY UniqueNames DEF RouterInv, RouterTypeOK, UniqueOwned, Minted
  <1>2. \A n \in DOMAIN names \cup WellKnown : OwnerOf(n)' = OwnerOf(n)
    BY <1>1, Owners DEF Attach, Put
  <1>3. QED
    BY <1>2 DEF ChangesTrue

(* A claim, by a peer or for it, goes from nobody to the claimant. *)
LEMMA ClaimTells ==
    ASSUME RouterInv, RouterInv', NEW id \in Nat, NEW n, NEW by, Claim(id, n),
           committed' = committed \cup {Change(n, None, Unique(id), by)}
    PROVE  ChangesTrue
  <1>0. PICK c : c = Change(n, None, Unique(id), by)
    OBVIOUS
  <1>1. /\ OwnerOf(n) = None /\ OwnerOf(n)' = Unique(id)
        /\ \A x : x # n => OwnerOf(x)' = OwnerOf(x)
    BY Owners DEF Claim, NameFree, Put
  <1>2. Unique(id) # None
    BY UniqueNames, NamesAssumption
  <1>3. c.name = n /\ c.old = None /\ c.new = Unique(id) /\ c.by = by
    BY <1>0 DEF Change
  <1>4. TrueChange(c)
    BY <1>0, <1>1, <1>3 DEF TrueChange
  <1>5. c \in committed' /\ \A e \in committed' \ committed : e = c
    BY <1>0
  <1>6. c.old # c.new
    BY <1>2, <1>3
  <1>7. \A x : OwnerOf(x)' # OwnerOf(x) => c.name = x
    BY <1>1, <1>3
  <1>8. QED
    BY <1>4, <1>5, <1>6, <1>7 DEF ChangesTrue

(* A release goes from the owner to nobody. *)
LEMMA ReleaseTells ==
    ASSUME RouterInv, RouterInv', NEW id \in Nat, NEW n, NEW by, Release(id, n),
           committed' = committed \cup {Change(n, Unique(id), None, by)}
    PROVE  ChangesTrue
  <1>0. PICK c : c = Change(n, Unique(id), None, by)
    OBVIOUS
  <1>1. /\ OwnerOf(n) = Unique(id) /\ OwnerOf(n)' = None
        /\ \A x : x # n => OwnerOf(x)' = OwnerOf(x)
    BY Owners DEF Release, CanRelease, Without, Restrict
  <1>2. Unique(id) # None
    BY UniqueNames, NamesAssumption
  <1>3. c.name = n /\ c.old = Unique(id) /\ c.new = None /\ c.by = by
    BY <1>0 DEF Change
  <1>4. TrueChange(c)
    BY <1>0, <1>1, <1>3 DEF TrueChange
  <1>5. c \in committed' /\ \A e \in committed' \ committed : e = c
    BY <1>0
  <1>6. c.old # c.new
    BY <1>2, <1>3
  <1>7. \A x : OwnerOf(x)' # OwnerOf(x) => c.name = x
    BY <1>1, <1>3
  <1>8. QED
    BY <1>4, <1>5, <1>6, <1>7 DEF ChangesTrue

(* A detach tells of every name the peer owned, and of no other. *)
LEMMA DetachTells ==
    ASSUME RouterInv, RouterInv', NEW id, Detach(id),
           committed' = committed \cup DetachChanges(id)
    PROVE  ChangesTrue
  <1>1. peers[id].unique = Unique(id) /\ id \in Nat
    BY DEF Detach, RouterInv, RouterTypeOK, UniqueOwned, Minted
  <1>2. Unique(id) # None
    BY <1>1, UniqueNames, NamesAssumption
  <1>3. /\ \A n \in NamesOwnedBy(id) : OwnerOf(n) = Unique(id) /\ OwnerOf(n)' = None
        /\ \A n : n \notin NamesOwnedBy(id) => OwnerOf(n)' = OwnerOf(n)
    BY Owners DEF Detach, NamesOwnedBy, Without, Restrict
  <1>4. ASSUME NEW n \in NamesOwnedBy(id), NEW c, c = Change(n, Unique(id), None, 0)
        PROVE  TrueChange(c) /\ c.name = n /\ c.old # c.new
    <2>1. c.name = n /\ c.old = Unique(id) /\ c.new = None /\ c.by = 0
      BY <1>4 DEF Change
    <2>2. TrueChange(c)
      BY <1>3, <1>4, <2>1 DEF TrueChange
    <2>3. QED
      BY <1>2, <2>1, <2>2
  <1>5. DetachChanges(id) = {Change(n, Unique(id), None, 0) : n \in NamesOwnedBy(id)}
    BY <1>1 DEF DetachChanges
  <1>6. \A c \in committed' \ committed : TrueChange(c) /\ c.old # c.new
    <2>1. ASSUME NEW c \in committed' \ committed PROVE TrueChange(c) /\ c.old # c.new
      <3>1. PICK n \in NamesOwnedBy(id) : c = Change(n, Unique(id), None, 0)
        BY <1>5
      <3>2. QED
        BY <1>4, <3>1
    <2>2. QED
      BY <2>1
  <1>7. ASSUME NEW n, OwnerOf(n)' # OwnerOf(n)
        PROVE  \E c \in committed' : c.name = n /\ TrueChange(c)
    <2>1. n \in NamesOwnedBy(id)
      BY <1>3, <1>7
    <2>2. Change(n, Unique(id), None, 0) \in committed'
      BY <1>5, <2>1
    <2>3. QED
      BY <1>4, <2>1, <2>2
  <1>8. QED
    BY <1>6, <1>7 DEF ChangesTrue

(* The host and the readers name a peer by its unique name, which leads to it. *)
LEMMA UniqueLeads ==
    ASSUME RouterInv, NEW id \in Nat, Unique(id) \in DOMAIN names
    PROVE  names[Unique(id)] = id
  <1>1. IsUnique(Unique(id)) /\ names[Unique(id)] \in Nat
    BY UniqueNames DEF RouterInv, RouterTypeOK, Minted
  <1>2. Unique(id) = Unique(names[Unique(id)])
    BY <1>1 DEF RouterInv, UniqueOwned
  <1>3. QED
    BY <1>1, <1>2, UniqueNames

(* A reader that takes a message up. *)
LEMMA RecvTells ==
    ASSUME RouterInv, RouterInv', TasksMinted, NEW id \in Readers, NEW m \in Inputs, Recv(id, m)
    PROVE  ChangesTrue
  <1> DEFINE h == [m EXCEPT !.serial = sent + 1, !.sender = Unique(id)]
  <1>1. id \in Nat
    BY DEF TasksMinted, Readers, Minted
  <1>2. \/ UNCHANGED <<routerVars, committed>>
        \/ RouteSignal(id, h) \/ RouteDirected(id, h) \/ RouteToPeer(id, h)
        \/ BusMethod(id, h)
    BY DEF Recv
  <1> HIDE DEF h
  <1>3. CASE BusRequestName(id, h)
    <2>1. CASE UNCHANGED <<names, committed>>
      BY <2>1, QuietTells
    <2>2. CASE /\ Claim(id, h.body)
               /\ committed' = committed \cup {Change(h.body, None, Unique(id), h.serial)}
      BY <1>1, <2>2, ClaimTells
    <2>3. QED
      BY <1>3, <2>1, <2>2 DEF BusRequestName, RequestName, Decide, routerVars
  <1>4. CASE BusReleaseName(id, h)
    <2>1. CASE UNCHANGED <<names, committed>>
      BY <2>1, QuietTells
    <2>2. CASE /\ Release(id, h.body)
               /\ committed' = committed \cup {Change(h.body, Unique(id), None, h.serial)}
      BY <1>1, <2>2, ReleaseTells
    <2>3. QED
      BY <1>4, <2>1, <2>2 DEF BusReleaseName, ReleaseName, Decide, routerVars
  <1>5. CASE BusUpdatePeer(id, h) \/ BusQuery(id, h)
    <2>1. UNCHANGED <<names, committed>>
      BY <1>5 DEF BusUpdatePeer, BusQuery, Decide, SetManifest, AddMatch, RemoveMatch, UpdatePeer,
         routerVars
    <2>2. QED
      BY <2>1, QuietTells
  <1>6. CASE UNCHANGED <<names, committed>>
    BY <1>6, QuietTells
  <1>7. QED
    BY <1>2, <1>3, <1>4, <1>5, <1>6 DEF BusMethod, RouteSignal, RouteDirected, RouteToPeer, routerVars

(* The module host. *)
LEMMA HostTells ==
    ASSUME RouterInv, RouterInv', TasksMinted, HostStep
    PROVE  ChangesTrue
  <1>1. \A id \in Readers : id \in Nat
    BY DEF TasksMinted, Readers, Minted
  <1>2. CASE AttachModuleStaged
    BY <1>2, AttachTells DEF AttachModuleStaged, AttachAs, histVars
  <1>3. ASSUME NEW id, NEW h, NEW c,
               \/ StartModule(id) \/ HostAttest(id) \/ HostSettle(id) \/ HostCallback(id)
               \/ AnnounceReserved(h, c)
        PROVE  ChangesTrue
    <2>1. UNCHANGED <<names, committed>>
      BY <1>3 DEF StartModule, HostAttest, HostSettle, HostCallback, AnnounceReserved, histVars,
         brokerVars, routerVars, SetAttestation, UpdatePeer, PrepareCallback, BindCallback,
         AddHostCallbacks, RevokeHostCallbacks, RevokeCallbacksForPeer
    <2>2. QED
      BY <2>1, QuietTells
  <1>4. ASSUME NEW id \in Readers, NEW n, HostReserve(id, n) PROVE ChangesTrue
    <2>1. Claim(id, n)
      BY <1>1, <1>4, UniqueLeads DEF HostReserve, RequestNameForUnique
    <2>2. QED
      BY <1>1, <1>4, <2>1, ClaimTells DEF HostReserve
  <1>5. ASSUME NEW h, NEW id \in Readers, HostDetach(h, id) PROVE ChangesTrue
    <2>1. Detach(id)
      BY <1>1, <1>5, UniqueLeads DEF HostDetach, DetachUnique
    <2>2. QED
      BY <1>5, <2>1, DetachTells DEF HostDetach
  <1>6. ASSUME NEW h, NEW id \in Readers, NEW n, HostClaim(h, id, n) PROVE ChangesTrue
    <2>1. Claim(id, n)
      BY <1>1, <1>6, UniqueLeads DEF HostClaim, RequestNameForUnique
    <2>2. QED
      BY <1>1, <1>6, <2>1, ClaimTells DEF HostClaim
  <1>7. ASSUME NEW h, NEW id \in Readers, NEW n, HostRelease(h, id, n) PROVE ChangesTrue
    <2>1. Release(id, n)
      BY <1>1, <1>7, UniqueLeads DEF HostRelease, ReleaseNameForUnique
    <2>2. QED
      BY <1>1, <1>7, <2>1, ReleaseTells DEF HostRelease
  <1>8. QED
    BY <1>2, <1>3, <1>4, <1>5, <1>6, <1>7 DEF HostStep

(* So no step says anything of ownership but what it does to the table. *)
LEMMA TellsTrue ==
    ASSUME RouterInv, RouterInv', TasksMinted, [BrokerNext]_vars
    PROVE  ChangesTrue
  <1>1. CASE AttachPeer
    BY <1>1, AttachTells DEF AttachPeer, AttachAs, histVars
  <1>2. ASSUME NEW t, ReaderStep(t) \/ WriterStep(t) \/ Announce(t) \/ TrySend(t)
        PROVE  ChangesTrue
    <2>1. UNCHANGED <<names, committed>>
      BY <1>2 DEF ReaderStep, Gate, Send, LookUpCaller, SendReply, Refuse, WriterStep, WriterSend,
         WriterRefuse, WriterFail, WriterEnd, Announce, TrySend, histVars, routerVars
    <2>2. QED
      BY <2>1, QuietTells
  <1>3. ASSUME NEW id, Disconnect(id) PROVE ChangesTrue
    <2>1. CASE UNCHANGED <<routerVars, committed>>
      BY <2>1, QuietTells DEF routerVars
    <2>2. CASE Detach(id) /\ committed' = committed \cup DetachChanges(id)
      BY <2>2, DetachTells
    <2>3. QED
      BY <1>3, <2>1, <2>2 DEF Disconnect
  <1>4. CASE UNCHANGED vars
    BY <1>4, QuietTells DEF vars, routerVars, brokerVars, histVars
  <1>5. QED
    BY <1>1, <1>2, <1>3, <1>4, RecvTells, HostTells DEF BrokerNext

(* Every change of ownership is announced (`announce_name_change`), or a
   task still has to, or the host holds it back, or it died with a caller
   detached before it was answered: detaches by the host, by readers and
   between the change and its announcement included.  And what is announced
   is what the table did: no detach is told of twice, and none by halves. *)
THEOREM EveryChangeAnnounced == BrokerSpec => ChangesAnnounced
  <1>1. BrokerInit => AnnounceInv
    <2>1. ASSUME BrokerInit PROVE AnnounceInv
      <3>1. DOMAIN task = HostTasks /\ committed = {} /\ \A t \in DOMAIN task : task[t] = Idle("idle")
        BY <2>1 DEF BrokerInit
      <3>2. \A t : Owed(Idle("idle"), t, fate)
        BY IdleOwes
      <3>3. QED
        BY <3>1, <3>2 DEF AnnounceInv
    <2>2. QED
      BY <2>1
  <1>2. ASSUME AnnounceInv, BrokerInv, RouterInv, [BrokerNext]_vars PROVE AnnounceInv'
    BY <1>2, AnnounceNext DEF BrokerInv
  <1>3. AnnounceInv /\ (BrokerInv /\ RouterInv) /\ [BrokerNext]_vars => AnnounceInv'
    BY <1>2
  <1>4. AnnounceInv => ChangesAccounted
    BY DEF AnnounceInv, Lapsed, ChangesAccounted
  <1>5. BrokerInv /\ RouterInv /\ RouterInv' /\ [BrokerNext]_vars => [ChangesTrue]_vars
    BY TellsTrue DEF BrokerInv
  <1>6. QED
    BY <1>1, <1>3, <1>4, <1>5, BrokerInvariant, PTL DEF BrokerSpec, ChangesAnnounced
=============================================================================
