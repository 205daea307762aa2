------------------------------- MODULE Broker -------------------------------
(***************************************************************************)
(* The broker, broker.rs: one reader task and one writer task per peer     *)
(* around the shared routing table, and the module host acting on the same *)
(* table from its own threads.                                             *)
(*                                                                         *)
(* A step is what one task does between two awaits, or between two takings *)
(* of the router lock.  So a table operation is one step (Router), but a   *)
(* reader that has selected its targets may be overtaken by anything       *)
(* before it hands them the message, and a name change is announced later  *)
(* than it is made.                                                        *)
(*                                                                         *)
(* Peers are abstract: any input of the set Inputs may arrive while the    *)
(* reader waits, the link may close or break at any time, and got[id] is   *)
(* what the broker has put on the peer's transport.                        *)
(***************************************************************************)
EXTENDS Router

CONSTANTS
    Inputs,          \* messages peers send (serial and sender blank)
    QueueCap,        \* PEER_QUEUE_CAPACITY
    MaxMsgs,         \* messages read by all readers together
    MaxPeers,        \* connections ever attached
    HostTasks,       \* threads of the embedding module host
    HostConns,       \* ids of the connections the host opens for itself
    ModuleNames,     \* bus names in the manifests of loadable modules
    RuntimeNames,    \* names the runtime claims for its own connections
    MaxChanges       \* name changes before the runtime stops claiming

ASSUME BoundsAssumption ==
    /\ QueueCap \in Nat \ {0} /\ MaxMsgs \in Nat /\ MaxPeers \in Nat
    /\ MaxChanges \in Nat
    /\ HostTasks \cap Nat = {}
    /\ HostConns \subseteq Nat
    /\ ModuleNames \subseteq WellKnown /\ RuntimeNames \subseteq WellKnown

(* Inputs are headers, and what peers announce and subscribe to is what the
   instance lists. *)
ASSUME InputsAssumption ==
    \A m \in Inputs :
        /\ m = [f \in DOMAIN BlankHeader |-> m[f]]
        /\ m.member = "Announce" => m.body \in Manifests
        /\ m.member \in {"AddMatch", "RemoveMatch"} => m.body \in Rules

VARIABLES
    task,            \* reader id or host thread -> what it is doing
    queue,           \* id -> messages waiting for the writer task
    writer,          \* id -> "staged", "running" or "closed"
    got,             \* id -> messages put on the peer's transport, in order
    sent,            \* messages read so far
    unavailable,     \* names whose module the host has settled as down
    modules,         \* id -> bus name, for the module peers the host loaded
    reserved,        \* module name claims to announce once the module is ready
    committed,       \* history: name changes the table has made
    announced,       \* history: name changes that were broadcast
    fate,            \* history: serial -> caller and answers of each call read
    audience         \* history: <<id, signal>>, who was to hear it when it was sent

hostVars == <<unavailable, modules, reserved>>

histVars == <<committed, announced, fate, audience>>

brokerVars ==
    <<task, queue, writer, got, sent, hostVars, histVars>>

vars == <<routerVars, brokerVars>>

-----------------------------------------------------------------------------
(* Tasks.  pc is where the task waits:                                     *)
(*   staged    a module peer admitted to the table but not started         *)
(*   recv      in transport.recv                                           *)
(*   gate      target selected, about to consult the module host           *)
(*   send      in target.send(message).await                               *)
(*   bus       bus method done, about to look the caller's outbox up       *)
(*   reply     in outbox.send(reply).await                                 *)
(*   announce  changes in todo not announced yet                           *)
(*   fan       try_send to the peers in fan                                *)
(*   refuse    in transport.send(error).await, past the queue              *)
(*   idle, done  a host thread between operations; a finished reader       *)

Idle(pc) ==
    [pc |-> pc, msg |-> None, to |-> 0, fan |-> {}, todo |-> {}, then |-> pc]

(* A task about to announce the changes in todo, then go on to `then`. *)
Announcing(todo, then) ==
    IF todo = {} THEN Idle(then)
    ELSE [Idle(then) EXCEPT !.pc = "announce", !.todo = todo]

(* A task about to try_send m to every peer of fan. *)
Fanning(m, fan, todo, then) ==
    IF fan = {} THEN Announcing(todo, then)
    ELSE [Idle(then) EXCEPT !.pc = "fan", !.msg = m, !.fan = fan, !.todo = todo]

Become(t, r) == task' = [task EXCEPT ![t] = r]

Readers == DOMAIN task \ HostTasks

(* mpsc: a closed channel refuses, a full one makes send wait and try_send
   drop.  A staged peer's inbox is held, so its channel is open. *)
Open(p) == writer[p] # "closed"

HasRoom(p) == Len(queue[p]) < QueueCap

Enqueue(p, m) == queue' = [queue EXCEPT ![p] = Append(@, m)]

(* One more answer to the call with this serial has been produced. *)
Answered(serial) == fate' = [fate EXCEPT ![serial].answers = @ + 1]

(* The change name: old -> new as the table commits it.  by is the serial of
   the bus call that made it, 0 for the host's doing and for a detach; stamp
   keeps two changes of one name apart. *)
Change(n, old, new, by) ==
    [name |-> n, old |-> old, new |-> new, by |-> by,
     stamp |-> Cardinality(committed)]

(* `detach` returns one change per name, in the order of a hash map. *)
DetachChanges(id) ==
    {Change(n, peers[id].unique, None, 0) : n \in NamesOwnedBy(id)}

NameOwnerChanged(c) ==
    [Signal(<<>>, BUS, "NameOwnerChanged", c) EXCEPT !.sender = BUS]

(* Who is to hear signal m: whoever has subscribed to it by now, but not its
   sender, and nobody but the addressee if it has one. *)
Sounded(m) ==
    audience \cup
      {<<p, m>> : p \in {q \in DOMAIN peers :
                          /\ m.sender # Unique(q)
                          /\ m.destination \in {None, Unique(q)}
                          /\ \E r \in peers[q].matches : Matches(r, m)}}

BrokerInit ==
    /\ RouterInit
    /\ task = [h \in HostTasks |-> Idle("idle")]
    /\ queue = <<>> /\ writer = <<>> /\ got = <<>>
    /\ sent = 0
    /\ unavailable = {} /\ modules = <<>> /\ reserved = {}
    /\ committed = {} /\ announced = {} /\ fate = <<>> /\ audience = {}

-----------------------------------------------------------------------------
(* Attachment *)

AttachAs(pc, w) ==
    /\ nextId < MaxPeers
    /\ Attach
    /\ task' = Put(task, nextId + 1, Idle(pc))
    /\ queue' = Put(queue, nextId + 1, <<>>)
    /\ writer' = Put(writer, nextId + 1, w)
    /\ got' = Put(got, nextId + 1, <<>>)
    /\ UNCHANGED <<sent, hostVars, histVars>>

(* `Broker::attach`: the reader and the writer task start at once. *)
AttachPeer == AttachAs("recv", "running")

(* `attach_module_staged`: in the table, but not dispatching yet. *)
AttachModuleStaged == AttachAs("staged", "staged")

(* `StagedModulePeer::start`, once the host has published the module. *)
StartModule(id) ==
    /\ task[id].pc = "staged"
    /\ id \in DOMAIN modules
    /\ Become(id, Idle("recv"))
    /\ writer' = [writer EXCEPT ![id] = "running"]
    /\ UNCHANGED <<routerVars, queue, got, sent, hostVars,
                   histVars>>

-----------------------------------------------------------------------------
(* Reader task *)

(* A routing error: a call gets an error reply straight on the transport,
   anything else is dropped. *)
Fail(id, h) ==
    Become(id, IF h.type = "method_call"
               THEN [Idle("recv") EXCEPT !.pc = "refuse", !.msg = h]
               ELSE Idle("recv"))

(* What the bus method of a validated call to the bus decides under the
   router lock, together with the table's own step. *)
Decide(id, h, result, changes) ==
    /\ Become(id, [Idle("recv") EXCEPT
                     !.pc = "bus", !.msg = result, !.todo = changes])
    /\ committed' = committed \cup changes

(* The body of a success that carries no answer: true, or null. *)
Done == None

(* RequestName: a free name is claimed, a name already held is an
   idempotent success without a change, any other is an error. *)
BusRequestName(id, h) ==
    LET n == h.body
        change == Change(n, None, Unique(id), h.serial)
    IN  \/ RequestName(id, n) /\ Decide(id, h, MethodReturn(h, Done), {change})
        \/ /\ ~(EnsurePeerAttached(id) /\ NameFree(n))
           /\ UNCHANGED routerVars
           /\ Decide(id, h,
                     IF EnsurePeerAttached(id) /\ NameHeld(id, n)
                     THEN MethodReturn(h, Done) ELSE ErrorReply(h, "error"), {})

BusReleaseName(id, h) ==
    LET n == h.body
        change == Change(n, Unique(id), None, h.serial)
    IN  \/ ReleaseName(id, n) /\ Decide(id, h, MethodReturn(h, Done), {change})
        \/ /\ ~(EnsurePeerAttached(id) /\ CanRelease(id, n))
           /\ UNCHANGED routerVars
           /\ Decide(id, h, ErrorReply(h, "error"), {})

(* Announce, AddMatch and RemoveMatch store what the peer says of itself. *)
BusUpdatePeer(id, h) ==
    /\ \/ h.member = "Announce" /\ SetManifest(id, h.body)
       \/ h.member = "AddMatch" /\ AddMatch(id, h.body)
       \/ h.member = "RemoveMatch" /\ RemoveMatch(id, h.body)
    /\ Decide(id, h, MethodReturn(h, Done), {})

(* Queries, which leave the table alone. *)
QueryAnswer(h) ==
    CASE h.member = "ResolveCallTarget" -> OwnerOf(h.body)
      [] h.member = "GetNameOwner"      -> OwnerOf(h.body)
      [] h.member = "GetManifest"       -> ManifestOf(h.body)
      [] h.member = "GetAttestation"    -> AttestedFor(h.body)
      [] h.member = "ListNames"         -> ListNames
      [] h.member = "ListPeers"         -> PeerRecords
      [] OTHER                          -> None    \* Hello, GetId, Ping

Queries == {"ResolveCallTarget", "GetNameOwner", "GetManifest",
            "GetAttestation", "ListNames", "ListPeers", "Ping"}

(* ResolveCallTarget refuses a name without an owner; the others answer null. *)
BusQuery(id, h) ==
    /\ UNCHANGED routerVars
    /\ LET refused == /\ h.member = "ResolveCallTarget"
                      /\ OwnerOf(h.body) = None
       IN  Decide(id, h,
                  IF EnsurePeerAttached(id) /\ h.member \in Queries /\ ~refused
                  THEN MethodReturn(h, QueryAnswer(h))
                  ELSE ErrorReply(h, "error"), {})

PeerUpdates == {"Announce", "AddMatch", "RemoveMatch"}

BusMethod(id, h) ==
    \/ h.member = "RequestName" /\ BusRequestName(id, h)
    \/ h.member = "ReleaseName" /\ BusReleaseName(id, h)
    \/ h.member \in PeerUpdates /\ BusUpdatePeer(id, h)
    \/ /\ h.member \notin {"RequestName", "ReleaseName"}
       /\ h.member \in PeerUpdates => ~EnsurePeerAttached(id)
       /\ BusQuery(id, h)

(* Calls whose sensitive body the bus accepts. *)
ModuleConfiguration == {"LoadModule", "LoadGithubModule", "ReinitializeModule"}

(* `route` of a call or reply addressed at the bus, up to the dispatch. *)
BusRefuses(h) ==
    \/ h.confidential /\ h.type = "method_call"
    \/ h.sensitive /\ h.member \notin ModuleConfiguration
    \/ h.member = None

RouteSignal(id, h) ==
    /\ UNCHANGED <<routerVars, committed>>
    /\ IF EnsurePeerAttached(id)
       THEN Become(id, Fanning(h, Subscribers(id, h, h.destination), {}, "recv"))
       ELSE Fail(id, h)

RouteDirected(id, h) ==
    /\ UNCHANGED <<routerVars, committed>>
    /\ IF /\ EnsurePeerAttached(id)
          /\ DirectedAuthorised(Unique(id), h.destination)
          /\ Resolves(h.destination)
       THEN Become(id, Fanning(h, {names[h.destination]}, {}, "recv"))
       ELSE Fail(id, h)

(* Calls and replies to peers: destination and authority are settled under
   one lock (`resolve_call_from`), the outbox is used after it. *)
RouteToPeer(id, h) ==
    /\ UNCHANGED <<routerVars, committed>>
    /\ IF /\ h.destination # None
          /\ ~h.sensitive
          /\ EnsurePeerAttached(id)
          /\ ResolveCall(Unique(id), h.destination, h.expected_responder,
                         h.confidential /\ h.type = "method_call")
       THEN Become(id, [Idle("recv") EXCEPT
                          !.pc = IF h.type = "method_call" THEN "gate" ELSE "send",
                          !.msg = h, !.to = names[h.destination]])
       ELSE Fail(id, h)

(* `reader_task` reads a message and `route` takes it to its first await.
   The sender is stamped, whatever the peer wrote. *)
Recv(id, m) ==
    LET h == [m EXCEPT !.serial = sent + 1, !.sender = Unique(id)]
    IN  /\ task[id].pc = "recv"
        /\ sent < MaxMsgs
        /\ sent' = sent + 1
        /\ fate' = Append(fate, [caller |-> IF h.type = "method_call" THEN id ELSE 0,
                                 answers |-> 0])
        /\ audience' = IF h.type = "signal" THEN Sounded(h) ELSE audience
        /\ \/ ~Validate(h) /\ Fail(id, h) /\ UNCHANGED <<routerVars, committed>>
           \/ Validate(h) /\ h.type = "signal" /\ RouteSignal(id, h)
           \/ Validate(h) /\ h.type = "directed_signal" /\ RouteDirected(id, h)
           \/ /\ Validate(h) /\ h.type \notin {"signal", "directed_signal"}
              /\ \/ h.destination # BUS /\ RouteToPeer(id, h)
                 \/ /\ h.destination = BUS /\ BusRefuses(h)
                    /\ Fail(id, h) /\ UNCHANGED <<routerVars, committed>>
                 \/ h.destination = BUS /\ ~BusRefuses(h) /\ BusMethod(id, h)
        /\ UNCHANGED <<queue, writer, got, hostVars, announced>>

(* The host's word on the destination, after the table's lock is dropped. *)
Gate(id) ==
    /\ task[id].pc = "gate"
    /\ IF task[id].msg.destination \in unavailable
       THEN Fail(id, task[id].msg)
       ELSE Become(id, [task[id] EXCEPT !.pc = "send"])
    /\ UNCHANGED <<routerVars, queue, writer, got, sent, hostVars,
                   histVars>>

(* Mutant: the result of the send is dropped. *)
Send_Ignored(id) ==
    LET t == task[id]
    IN  /\ t.pc = "send"
        /\ Become(id, Idle("recv"))
        /\ \/ /\ Open(t.to) /\ HasRoom(t.to)
              /\ Enqueue(t.to, t.msg)
              /\ Answered(t.msg.serial)
           \/ ~Open(t.to) /\ UNCHANGED <<queue, fate>>
        /\ UNCHANGED <<routerVars, writer, got, sent, hostVars, committed, announced,
                       audience>>

(* Mutant: a closed queue looks like a full one. *)
Send_Waits(id) ==
    LET t == task[id]
    IN  /\ t.pc = "send"
        /\ Open(t.to) /\ HasRoom(t.to)
        /\ Enqueue(t.to, t.msg)
        /\ Become(id, Idle("recv"))
        /\ Answered(t.msg.serial)
        /\ UNCHANGED <<routerVars, writer, got, sent, hostVars, committed, announced,
                       audience>>

(* `target.send(message).await`: waits while the queue is full; a queue
   whose writer is gone is an error. *)
Send(id) ==
    LET t == task[id]
    IN  /\ t.pc = "send"
        /\ \/ /\ Open(t.to) /\ HasRoom(t.to)
              /\ Enqueue(t.to, t.msg)
              /\ Become(id, Idle("recv"))
              /\ Answered(t.msg.serial)
           \/ /\ ~Open(t.to)
              /\ Fail(id, t.msg)
              /\ UNCHANGED <<queue, fate>>
        /\ UNCHANGED <<routerVars, writer, got, sent, hostVars, committed, announced,
                       audience>>

(* `handle_bus_call` looks the caller up again; when the host has detached
   it meanwhile the call fails, and the changes it made go with it. *)
LookUpCaller(id) ==
    LET t == task[id]
    IN  /\ t.pc = "bus"
        /\ IF Resolves(Unique(id))
           THEN Become(id, [t EXCEPT !.pc = "reply"])
           ELSE Become(id, IF fate[t.msg.reply_serial].caller = 0 THEN Idle("recv")
                           ELSE [Idle("recv") EXCEPT !.pc = "refuse", !.msg =
                                   [t.msg EXCEPT !.serial = t.msg.reply_serial]])
        /\ UNCHANGED <<routerVars, queue, writer, got, sent, hostVars, histVars>>

(* Mutant: the reply is a try_send like any signal. *)
SendReply_TrySend(id) ==
    LET t == task[id]
    IN  /\ t.pc = "reply"
        /\ Become(id, Announcing(t.todo, "recv"))
        /\ \/ /\ Open(id) /\ HasRoom(id)
              /\ Enqueue(id, t.msg)
              /\ Answered(t.msg.reply_serial)
           \/ ~(Open(id) /\ HasRoom(id)) /\ UNCHANGED <<queue, fate>>
        /\ UNCHANGED <<routerVars, writer, got, sent, hostVars, committed, announced,
                       audience>>

(* `outbox.send(reply).await`, ignoring a closed channel; then announce. *)
SendReply(id) ==
    LET t == task[id]
    IN  /\ t.pc = "reply"
        /\ Become(id, Announcing(t.todo, "recv"))
        /\ \/ /\ Open(id) /\ HasRoom(id)
              /\ Enqueue(id, t.msg)
              /\ Answered(t.msg.reply_serial)
           \/ ~Open(id) /\ UNCHANGED <<queue, fate>>
        /\ UNCHANGED <<routerVars, writer, got, sent, hostVars, committed, announced,
                       audience>>

(* The error reply for a call that cannot be routed, made from the header
   the peer sent, before the sender was stamped. *)
Refuse(id) ==
    /\ task[id].pc = "refuse"
    /\ got' = [got EXCEPT ![id] =
                 Append(@, [ErrorReply(task[id].msg, "error") EXCEPT
                              !.sender = BUS, !.destination = None])]
    /\ Answered(task[id].msg.serial)
    /\ Become(id, Idle("recv"))
    /\ UNCHANGED <<routerVars, queue, writer, sent, hostVars, committed, announced,
                   audience>>

(* Mutant: the peer is dropped but its names stay in the table. *)
Disconnect_KeepsNames(id) ==
    /\ task[id].pc = "recv"
    /\ id \in DOMAIN peers
    /\ peers' = Without(peers, {id})
    /\ Become(id, Idle("done"))
    /\ UNCHANGED <<names, nextId, caps, callbacks, queue, writer, got, sent, hostVars,
                   histVars>>

(* Mutant: the reader reports its peer's end whether or not it was first. *)
Disconnect_Regardless(id) ==
    /\ task[id].pc = "recv"
    /\ LET gone == IF id \in DOMAIN peers THEN DetachChanges(id)
                   ELSE {Change(Unique(id), Unique(id), None, 0)}
       IN  /\ \/ Detach(id)
              \/ id \notin DOMAIN peers /\ UNCHANGED routerVars
           /\ committed' = committed \cup gone
           /\ Become(id, Announcing(gone, "done"))
    /\ UNCHANGED <<queue, writer, got, sent, hostVars, announced, fate, audience>>

(* End of stream or a read error: the peer is detached, unless the host got
   there first, and every name it owned is announced. *)
Disconnect(id) ==
    /\ task[id].pc = "recv"
    /\ \/ /\ Detach(id)
          /\ committed' = committed \cup DetachChanges(id)
          /\ Become(id, Announcing(DetachChanges(id), "done"))
       \/ /\ id \notin DOMAIN peers
          /\ UNCHANGED <<routerVars, committed>>
          /\ Become(id, Idle("done"))
    /\ UNCHANGED <<queue, writer, got, sent, hostVars, announced, fate, audience>>

-----------------------------------------------------------------------------
(* Announcements and signal fan-out, by readers and host threads alike *)

(* `broadcast_bus_signal` selects its targets under the lock, at the time of
   the announcement. *)
Announce(t) ==
    /\ task[t].pc = "announce"
    /\ \E c \in task[t].todo :
         /\ Become(t, Fanning(NameOwnerChanged(c),
                              BroadcastTargets(NameOwnerChanged(c)),
                              task[t].todo \ {c}, task[t].then))
         /\ announced' = announced \cup {c}
         /\ audience' = Sounded(NameOwnerChanged(c))
    /\ UNCHANGED <<routerVars, queue, writer, got, sent, hostVars, committed, fate>>

(* `try_send`: a full or closed queue loses the signal, in any order. *)
TrySend(t) ==
    /\ task[t].pc = "fan"
    /\ \E p \in task[t].fan :
         /\ IF Open(p) /\ HasRoom(p) THEN Enqueue(p, task[t].msg) ELSE UNCHANGED queue
         /\ Become(t, Fanning(task[t].msg, task[t].fan \ {p}, task[t].todo,
                              task[t].then))
    /\ UNCHANGED <<routerVars, writer, got, sent, hostVars, histVars>>

-----------------------------------------------------------------------------
(* Writer task *)

Drain(id) == queue' = [queue EXCEPT ![id] = Tail(@)]

WriterSend(id) ==
    /\ writer[id] = "running" /\ queue[id] # <<>>
    /\ Drain(id)
    /\ got' = [got EXCEPT ![id] = Append(@, Head(queue[id]))]
    /\ UNCHANGED <<routerVars, task, writer, sent, hostVars, histVars>>

(* The transport refuses one message (Error::Protocol): drop it, carry on. *)
WriterRefuse(id) ==
    /\ writer[id] = "running" /\ queue[id] # <<>>
    /\ Drain(id)
    /\ UNCHANGED <<routerVars, task, writer, got, sent, hostVars,
                   histVars>>

(* Any other write error ends the writer; the peer stays in the table until
   its reader notices. *)
WriterFail(id) ==
    /\ writer[id] = "running" /\ queue[id] # <<>>
    /\ writer' = [writer EXCEPT ![id] = "closed"]
    /\ queue' = [queue EXCEPT ![id] = <<>>]
    /\ UNCHANGED <<routerVars, task, got, sent, hostVars, histVars>>

(* The tasks holding a clone of the peer's outbox. *)
Holds(t, p) ==
    \/ task[t].pc \in {"gate", "send"} /\ task[t].to = p
    \/ task[t].pc = "reply" /\ t = p
    \/ p \in task[t].fan

(* The last sender is dropped: the writer drains and ends. *)
WriterEnd(id) ==
    /\ writer[id] = "running" /\ queue[id] = <<>>
    /\ id \notin DOMAIN peers
    /\ \A t \in DOMAIN task : ~Holds(t, id)
    /\ writer' = [writer EXCEPT ![id] = "closed"]
    /\ UNCHANGED <<routerVars, task, queue, got, sent, hostVars,
                   histVars>>

-----------------------------------------------------------------------------
(* The module host *)

linkVars == <<queue, got, sent, announced, fate, audience>>

(* Peers the host may detach: staged and loaded modules, and the connections
   its callback bindings own. *)
Managed(id) ==
    task[id].pc = "staged" \/ id \in DOMAIN modules \/ Unique(id) \in DOMAIN caps

(* Mutant: the host leaves the announcing to the peer's reader task. *)
HostDetach_Silent(h, id) ==
    /\ task[h].pc = "idle"
    /\ id \in DOMAIN peers /\ Managed(id)
    /\ DetachUnique(Unique(id))
    /\ committed' = committed \cup DetachChanges(id)
    /\ task' = [task EXCEPT ![id] = IF @.pc = "staged" THEN Idle("done") ELSE @]
    /\ writer' = [writer EXCEPT ![id] = IF @ = "staged" THEN "closed" ELSE @]
    /\ UNCHANGED <<linkVars, hostVars>>

(* `detach_unique`, by the host; a staged peer's inbox is dropped with it. *)
HostDetach(h, id) ==
    /\ task[h].pc = "idle"
    /\ id \in DOMAIN peers /\ Managed(id)
    /\ DetachUnique(Unique(id))
    /\ committed' = committed \cup DetachChanges(id)
    /\ task' = [task EXCEPT
                  ![h] = Announcing(DetachChanges(id), "idle"),
                  ![id] = IF @.pc = "staged" THEN Idle("done") ELSE @]
    /\ writer' = [writer EXCEPT ![id] = IF @ = "staged" THEN "closed" ELSE @]
    /\ UNCHANGED <<linkVars, hostVars>>

(* `attach_transport` reserves the manifest's name for the staged peer and
   records the module; the claim is announced when the module is ready. *)
HostReserve(id, n) ==
    /\ task[id].pc = "staged" /\ id \notin DOMAIN modules
    /\ RequestNameForUnique(Unique(id), n)
    /\ modules' = Put(modules, id, n)
    /\ reserved' = reserved \cup {Change(n, None, Unique(id), 0)}
    /\ committed' = committed \cup {Change(n, None, Unique(id), 0)}
    /\ UNCHANGED <<linkVars, task, writer, unavailable>>

(* `attest_module`, before the peer starts. *)
HostAttest(id) ==
    /\ task[id].pc = "staged" /\ id \in DOMAIN modules
    /\ SetAttestation(Unique(id), modules[id])
    /\ UNCHANGED brokerVars

(* The task `attach_transport` spawns finds the module ready. *)
AnnounceReserved(h, c) ==
    /\ task[h].pc = "idle"
    /\ c \in reserved
    /\ \E id \in DOMAIN modules : Unique(id) = c.new /\ task[id].pc # "staged"
    /\ reserved' = reserved \ {c}
    /\ Become(h, Announcing({c}, "idle"))
    /\ UNCHANGED <<linkVars, routerVars, writer, unavailable, modules, committed>>

(* `claim_host_name` and `release_host_name`: names the runtime owns on its
   own connection. *)
HostClaim(h, id, n) ==
    /\ task[h].pc = "idle" /\ id \in HostConns /\ id \notin DOMAIN modules
    /\ Cardinality(committed) < MaxChanges
    /\ RequestNameForUnique(Unique(id), n)
    /\ committed' = committed \cup {Change(n, None, Unique(id), 0)}
    /\ Become(h, Announcing({Change(n, None, Unique(id), 0)}, "idle"))
    /\ UNCHANGED <<linkVars, hostVars, writer>>

HostRelease(h, id, n) ==
    /\ task[h].pc = "idle" /\ id \in HostConns /\ id \notin DOMAIN modules
    /\ ReleaseNameForUnique(Unique(id), n)
    /\ committed' = committed \cup {Change(n, Unique(id), None, 0)}
    /\ Become(h, Announcing({Change(n, Unique(id), None, 0)}, "idle"))
    /\ UNCHANGED <<linkVars, hostVars, writer>>

(* The host settles a module as stopped, disabled, failed or faulted; from
   then on `unavailable_for` refuses both of its names. *)
HostSettle(id) ==
    /\ id \in DOMAIN modules
    /\ unavailable' = unavailable \cup {Unique(id), modules[id]}
    /\ UNCHANGED <<linkVars, routerVars, task, writer, modules, reserved, committed>>

(* The life of a callback capability: prepared for a connection of the
   host's own, bound to a started module, registered, revoked with its
   binding or with its module. *)
HostCallback(id) ==
    /\ \/ /\ id \in HostConns
          /\ id \notin DOMAIN modules /\ task[id].pc # "staged"
          /\ \/ PrepareCallback(Unique(id))
             \/ \E m \in DOMAIN modules :
                  task[m].pc # "staged" /\ BindCallback(Unique(id), Unique(m))
             \/ AddHostCallbacks(Unique(id))
             \/ RevokeHostCallbacks(Unique(id))
       \/ id \in DOMAIN modules /\ RevokeCallbacksForPeer(Unique(id))
    /\ UNCHANGED brokerVars

HostStep ==
    /\ HostTasks # {}
    /\ \/ AttachModuleStaged
       \/ \E id \in Readers :
            \/ StartModule(id)
            \/ HostAttest(id)
            \/ HostSettle(id)
            \/ HostCallback(id)
            \/ \E n \in ModuleNames : HostReserve(id, n)
            \/ \E h \in HostTasks :
                 \/ HostDetach(h, id)
                 \/ \E n \in RuntimeNames : HostClaim(h, id, n) \/ HostRelease(h, id, n)
       \/ \E h \in HostTasks, c \in reserved : AnnounceReserved(h, c)

-----------------------------------------------------------------------------
ReaderStep(id) ==
    \/ Gate(id) \/ Send(id) \/ LookUpCaller(id) \/ SendReply(id) \/ Refuse(id)

WriterStep(id) ==
    WriterSend(id) \/ WriterRefuse(id) \/ WriterFail(id) \/ WriterEnd(id)

BrokerNext ==
    \/ AttachPeer
    \/ \E id \in Readers :
         \/ \E m \in Inputs : Recv(id, m)
         \/ ReaderStep(id)
         \/ Disconnect(id)
         \/ WriterStep(id)
    \/ \E t \in DOMAIN task : Announce(t) \/ TrySend(t)
    \/ HostStep

BrokerSpec == BrokerInit /\ [][BrokerNext]_vars

(* Fairness: tokio polls every ready task, so a reader past its recv and a
   task that announces keep going, and a writer with a message either writes
   it, has it refused or fails: peers that read, or hang up. *)
Fairness ==
    /\ \A id \in 1..MaxPeers : WF_vars(id \in Readers /\ ReaderStep(id))
    /\ \A id \in 1..MaxPeers : WF_vars(id \in Readers /\ WriterStep(id))
    /\ \A t \in 1..MaxPeers \cup HostTasks :
         WF_vars(t \in DOMAIN task /\ (Announce(t) \/ TrySend(t)))

FairBrokerSpec == BrokerSpec /\ Fairness

-----------------------------------------------------------------------------
(* Properties *)

(* Everything handed to a peer, or held by a reader on its way there. *)
Handed(p) == got[p] \o queue[p]

Addressed(p) ==
    {Handed(p)[i] : i \in DOMAIN Handed(p)}
    \cup {task[t].msg : t \in {r \in Readers :
                              task[r].pc \in {"gate", "send"} /\ task[r].to = p}}

(* The call with this serial is still in its reader's hands. *)
InHand(s) ==
    \E id \in Readers :
        \/ task[id].pc \in {"gate", "send", "refuse"} /\ task[id].msg.serial = s
        \/ task[id].pc \in {"bus", "reply"} /\ task[id].msg.reply_serial = s

(* No call vanishes in the broker and none is answered twice: once its
   reader is done with it, it was queued at exactly one peer or answered
   exactly once, whatever was detached, closed or refused in between (the
   reply to a caller whose own writer failed is the one that is dropped). *)
EveryCallSettledOnce ==
    \A s \in DOMAIN fate : fate[s].caller # 0 =>
        \/ InHand(s) /\ fate[s].answers = 0
        \/ ~InHand(s) /\ fate[s].answers = 1
        \/ ~InHand(s) /\ fate[s].answers = 0 /\ ~Open(fate[s].caller)

(* A message for a unique name reaches that connection only, and a call that
   captured an expected responder reaches that peer only, even when the
   well-known name changes hands between capture, selection and delivery. *)
ReachesTheNamedPeer ==
    \A p \in Readers : \A m \in Addressed(p) :
        /\ m.type = "method_call" /\ m.expected_responder # None =>
             m.expected_responder = Unique(p)
        /\ m.destination # None /\ IsUnique(m.destination) =>
             m.destination = Unique(p)

(* A confidential call is only ever handed to a peer the host vouched for
   under the very name it was addressed to, or to the host end of a
   capability bound to its sender. *)
ConfidentialOnlyToTrusted ==
    \A p \in DOMAIN peers : \A m \in Addressed(p) :
        m.type = "method_call" /\ m.confidential =>
            IF IsUnique(m.destination)
            THEN \/ peers[p].admitted # None
                 \/ Unique(p) \in DOMAIN caps /\ caps[Unique(p)].module = m.sender
            ELSE m.destination \in peers[p].attestations

(* A directed signal only ever runs from the host end of a capability to the
   module bound to it. *)
DirectedOnlyToBoundModule ==
    \A p \in Readers : \A m \in Addressed(p) :
        m.type = "directed_signal" =>
            m.sender \in DOMAIN caps /\ caps[m.sender].module = Unique(p)

(* Nothing is handed to a peer that was not entitled to it when it was
   selected and has not stayed so, though the table is unlocked in between:
   the two parts are the two kinds of message the host's word decides about. *)
DeliveredAsAuthorised == ConfidentialOnlyToTrusted /\ DirectedOnlyToBoundModule

(* A signal, a peer's or the bus's own, reaches only those that were
   subscribed to it when it was sent, never its sender, and only the
   addressee if it has one.  Who has unsubscribed hears nothing that was sent
   after that, though what was on its way still comes. *)
SignalsOnlyAsSubscribed ==
    \A p \in Readers : \A m \in Addressed(p) :
        m.type = "signal" => <<p, m>> \in audience

Announcements(p) ==
    {i \in DOMAIN Handed(p) : Handed(p)[i].member = "NameOwnerChanged"}

(* No subscriber hears of one name change twice. *)
HeardAtMostOnce ==
    \A p \in Readers : \A i, j \in Announcements(p) :
        Handed(p)[i].body = Handed(p)[j].body => i = j

(* Reply before announcing: nobody hears of a name change before the reply
   to the bus call that made it is in its caller's queue. *)
ReplyBeforeAnnouncement ==
    \A p \in Readers : \A i \in Announcements(p) :
        LET by == Handed(p)[i].body.by
        IN  by # 0 => fate[by].answers = 1 \/ ~Open(fate[by].caller)

(* What peers hear from others and from the bus: what they subscribed to,
   once, and of a name change only after whoever made it. *)
HeardAsSubscribed ==
    SignalsOnlyAsSubscribed /\ HeardAtMostOnce /\ ReplyBeforeAnnouncement

(* The change is announced, or some task still has to. *)
Accounted(c) ==
    \/ c \in announced
    \/ c \in reserved
    \/ \E t \in DOMAIN task : c \in task[t].todo

(* A bus call's change dies with a caller the host detaches before it was
   answered. *)
ChangesAccounted ==
    \A c \in committed :
        \/ Accounted(c)
        \/ c.by # 0 /\ fate[c.by].caller \notin DOMAIN peers

(* A change says who owned the name before the step that made it and who
   owns it after. *)
TrueChange(c) ==
    c = Change(c.name, OwnerOf(c.name), OwnerOf(c.name)', c.by)

(* What the step says of ownership is what it does to the table, no more and
   no less: when the host and the reader task both detach a peer, one of them
   finds its names and the other nothing to tell. *)
ChangesTrue ==
    /\ \A c \in committed' \ committed : TrueChange(c) /\ c.old # c.new
    /\ \A n \in DOMAIN names \cup WellKnown :
         OwnerOf(n)' # OwnerOf(n) => \E c \in committed' : c.name = n /\ TrueChange(c)

(* Every change of ownership is announced, as what it was and by whoever made
   it, except the one that dies with its caller. *)
ChangesAnnounced == []ChangesAccounted /\ [][ChangesTrue]_vars

(* Every call a reader takes up is settled in the end, as long as writers
   make progress or fail: none is without an answer for ever. *)
CallsSettle ==
    \A s \in 1..MaxMsgs :
        []<>(s \in DOMAIN fate /\ fate[s].caller # 0 =>
               fate[s].answers = 1 \/ ~Open(fate[s].caller))
=============================================================================
