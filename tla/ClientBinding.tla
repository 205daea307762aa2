---------------------------- MODULE ClientBinding ----------------------------
(***************************************************************************)
(* Clients of a module (module/client.rs): calls by the module's bus name, *)
(* clients pinned to the peer that owned it when they were bound, and      *)
(* clients bound to a peer whose attestation the release vouches for,      *)
(* while peers come, go and hand the name on.                              *)
(***************************************************************************)
EXTENDS Naturals

CONSTANTS
    Clients,  \* handles of client code
    Peers,    \* connections of modules: a unique name is never used again
    Released, \* the peers whose attestation matches an asset of the release
    MaxBinds, \* bindings and pinnings of one handle
    MaxSends  \* calls of one handle

\* Neither is a peer.
Nobody == "nobody"
ByName == "by name"

ASSUME ClientAssumption ==
    /\ Released \subseteq Peers
    /\ Nobody \notin Peers /\ ByName \notin Peers
    /\ MaxBinds \in Nat /\ MaxSends \in Nat

VARIABLES
    fresh,    \* peers that have not connected yet
    online,   \* peers that are connected
    ownedBy,  \* who owns the module's bus name
    handle,   \* client -> its handle
    outgoing, \* client -> the destination of the call it has sent, or Nobody
    reached   \* client -> the peers that handled calls of this handle

clientVars == <<fresh, online, ownedBy, handle, outgoing, reached>>

\* mode: what was asked for; to: where its proxy sends; candidate: the owner
\* that was looked up.
Unbound == [pc |-> "idle", mode |-> "name", to |-> Nobody, candidate |-> Nobody,
            binds |-> 0, sends |-> 0]

ClientInit ==
    /\ fresh = Peers
    /\ online = {}
    /\ ownedBy = Nobody
    /\ handle = [c \in Clients |-> Unbound]
    /\ outgoing = [c \in Clients |-> Nobody]
    /\ reached = [c \in Clients |-> {}]

-----------------------------------------------------------------------------
(* The bus.                                                                *)

Joins(p) ==
    /\ p \in fresh
    /\ fresh' = fresh \ {p}
    /\ online' = online \cup {p}
    /\ UNCHANGED <<ownedBy, handle, outgoing, reached>>

\* A peer takes the name that is free, or gives it up and stays.
Owns(p) ==
    /\ p \in online
    /\ \/ ownedBy = Nobody /\ ownedBy' = p
       \/ ownedBy = p /\ ownedBy' = Nobody
    /\ UNCHANGED <<fresh, online, handle, outgoing, reached>>

Leaves(p) ==
    /\ p \in online
    /\ online' = online \ {p}
    /\ ownedBy' = IF ownedBy = p THEN Nobody ELSE ownedBy
    /\ UNCHANGED <<fresh, handle, outgoing, reached>>

-----------------------------------------------------------------------------
(* Binding.                                                                *)

\* call and object_client; bind; bind_attested.
Binds(c) ==
    /\ handle[c].pc \in {"idle", "bound"} /\ handle[c].binds < MaxBinds
    /\ \E m \in {"name", "pinned", "attested"} :
        handle' = [handle EXCEPT ![c] = [pc |-> "loading", mode |-> m, to |-> Nobody,
                                         candidate |-> Nobody, binds |-> @.binds + 1, sends |-> 0]]
    /\ outgoing' = [outgoing EXCEPT ![c] = Nobody]
    /\ reached' = [reached EXCEPT ![c] = {}]
    /\ UNCHANGED <<fresh, online, ownedBy>>

BindFails(c) == handle' = [handle EXCEPT ![c].pc = "idle"]

Sends_To(c, to) == handle' = [handle EXCEPT ![c].pc = "bound", ![c].to = to]

\* The registry, the gate, ensure_loaded or prepare_attested, and the proxy.
Prepares(c) ==
    /\ handle[c].pc = "loading"
    /\ \/ BindFails(c)
       \/ handle[c].mode = "name" /\ Sends_To(c, ByName)
       \/ handle[c].mode # "name" /\ handle' = [handle EXCEPT ![c].pc = "owner"]
    /\ UNCHANGED <<fresh, online, ownedBy, outgoing, reached>>

\* ModuleObjectClient::pin_owner, a handle of its own.
PinsOwner(c) ==
    /\ handle[c].pc = "bound" /\ handle[c].to = ByName /\ handle[c].binds < MaxBinds
    /\ handle' = [handle EXCEPT ![c].pc = "owner", ![c].mode = "pinned", ![c].binds = @ + 1]
    /\ outgoing' = [outgoing EXCEPT ![c] = Nobody]
    /\ reached' = [reached EXCEPT ![c] = {}]
    /\ UNCHANGED <<fresh, online, ownedBy>>

\* name_owner_with_timeout: the answer is the owner when the broker looks.
FindsOwner(c) ==
    /\ handle[c].pc = "owner"
    /\ \/ BindFails(c)
       \/ /\ ownedBy # Nobody
          /\ handle' = [handle EXCEPT
                ![c].candidate = ownedBy,
                ![c].pc = IF handle[c].mode = "attested" THEN "attesting" ELSE "bound",
                ![c].to = IF handle[c].mode = "attested" THEN Nobody ELSE ownedBy]
    /\ UNCHANGED <<fresh, online, ownedBy, outgoing, reached>>

Attests_TheName(c) ==
    /\ handle[c].pc = "attesting"
    /\ \/ BindFails(c)
       \/ ownedBy \in Released /\ Sends_To(c, handle[c].candidate)
    /\ UNCHANGED <<fresh, online, ownedBy, outgoing, reached>>

\* attestation_with_timeout, of the unique name that was found.
Attests(c) ==
    /\ handle[c].pc = "attesting"
    /\ \/ BindFails(c)
       \/ handle[c].candidate \in online \cap Released /\ Sends_To(c, handle[c].candidate)
    /\ UNCHANGED <<fresh, online, ownedBy, outgoing, reached>>

-----------------------------------------------------------------------------
(* Calls, by the handle or by an object client derived from it.            *)

Invokes(c) ==
    /\ handle[c].pc = "bound" /\ outgoing[c] = Nobody /\ handle[c].sends < MaxSends
    /\ outgoing' = [outgoing EXCEPT ![c] = handle[c].to]
    /\ handle' = [handle EXCEPT ![c].sends = @ + 1]
    /\ UNCHANGED <<fresh, online, ownedBy, reached>>

\* The broker routes the call when it gets to it, or refuses it.
Routed(c) ==
    LET to == IF outgoing[c] = ByName THEN ownedBy ELSE outgoing[c] IN
    /\ outgoing[c] # Nobody
    /\ outgoing' = [outgoing EXCEPT ![c] = Nobody]
    /\ reached' = IF to \in online THEN [reached EXCEPT ![c] = @ \cup {to}] ELSE reached
    /\ UNCHANGED <<fresh, online, ownedBy, handle>>

ClientNext ==
    \/ \E p \in Peers : Joins(p) \/ Owns(p) \/ Leaves(p)
    \/ \E c \in Clients :
        Binds(c) \/ Prepares(c) \/ PinsOwner(c) \/ FindsOwner(c) \/ Attests(c)
            \/ Invokes(c) \/ Routed(c)

ClientSpec == ClientInit /\ [][ClientNext]_clientVars

-----------------------------------------------------------------------------
(* Properties.                                                             *)

(* A bound handle speaks to one peer only, whoever the name belongs to by  *)
(* then, and an attested one only to a peer that the release vouches for:  *)
(* the peer that was attested is the peer that is called (bind,            *)
(* bind_attested, pin_owner).                                              *)
BoundToOnePeer ==
    \A c \in Clients :
        /\ handle[c].mode # "name" => \A p, q \in reached[c] : p = q
        /\ handle[c].mode = "attested" => reached[c] \subseteq Released
=============================================================================
