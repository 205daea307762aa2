# TinyBus verification

TLA+ models of the TinyBus message bus, the TLC configurations that check them
on small instances, and TLAPS proofs about the routing table, the broker that
runs it, bulk streams, the module host, and what a program keeps of its modules.  Source paths below are relative to `crates/tinybus/src/` unless
they say otherwise; `PROJECT.json` maps every definition to the lines it models.

## 1. The system

TinyBus is an in-process and inter-process message bus in the manner of D-Bus.
Peers attach to a broker over a transport, get a unique name (`:1.n`), claim
well-known names, call each other's methods, and emit signals that the broker
fans out by match rule.  A module host loads native modules, runs each as a
peer, vouches for the artifact behind it, and gives it private callback
connections into the host.

| Component | State | Operations | Interacts with | Hard behaviour | Correct when |
|---|---|---|---|---|---|
| Match rules (`router.rs`, `connection.rs`) | none | build, to wire, parse, match | subscribe and fan-out | last key wins, path prefixes | what is parsed is what was built; a constraint only narrows |
| Message headers (`message/mod.rs`) | none | constructors, `validate` | everything | which kinds may carry which header | invalid combinations never route |
| Routing table (`router.rs`) | peers, names, next id, attestations, admitted artifacts, callback capabilities | attach, detach, request/release name, add/remove match, announce, attest, admit, prepare/bind/register/revoke a callback, resolve | called by reader tasks and host threads under one mutex | reader tasks keep using an id the host already detached | no orphaned name, no takeover, no reused id, no inherited trust, dead capabilities stay dead |
| Broker tasks (`broker.rs`) | a reader and a writer task per peer, a bounded queue per peer | recv, gate, forward, bus methods, reply, announce, fan-out, tear-down | router, transports, module host | queue used after the lock; writer dies while a reader waits; announcement against reply; two parties detach one peer | each call is queued once or answered once; announcements once and after the reply; nothing confidential to an unvouched peer |
| Connection (`connection.rs`) | serial counter, pending table, outbox, signal channel | call, resolve, enqueue, await, time out, cancel, write, dispatch, serve | broker through a transport | forged, late and duplicate replies; timeout against reply; dropped futures; end of the dispatch loop | a call is completed by its captured responder only; no entry leaks; every call comes back |
| Bulk streams (`stream/mod.rs`) | registry of streams, per-stream gate, sequence, totals, window | open, write, close, abort, reap, evict, take reader | connection's handlers, module host | pipelined writes, parked writes, close against write, eviction | chunks in order and whole, parked writes woken, caps kept |
| Module host (`module/host.rs`, `broker.rs`) | list of loaded records and their states, admission lock, busy flags, the selected controller | load, stop, reinitialise, enable and disable, shut down, select a controller | broker, module transport | stops whose caller gave up, faults and detaches in between, two libraries that want one name | operations exclude each other; what is listed is true and final; a started stop is announced |
| Host callbacks (`module/host_callbacks.rs`) | bindings and their tree | prepare, bind, register, child binding, revoke | router | revocation between activation and registration | revoked means revoked |
| Module transport (`module/transport.rs`) | initialisation gate and result, early queue, callback reservations, cleanup state, the physical worker | initialise, send, drain, deliver, answer, stop, reinitialise, fault | host, native code | results after their deadline, stop against callbacks, drain against push | shutdown runs once and alone; a reported stop is physical; a stop is no fault; what was queued is served |
| Leases and runtime (`module/lease.rs`, `runtime.rs`) | lease states and cleanup workers, callback guards, host objects and the name they share | activate, clone, drop, close, stop with retries; serve, export, remove | broker, module driver | a stop that never returns or returns late, a failed export, two objects at one path | the callback is kept until a stop is acknowledged; the name follows its use; close returns |
| Clients (`module/client.rs`) | destination of a proxy | call by name, bind, pin the owner, bind attested | broker | the name changes hands between two questions and the call | a bound client speaks to one peer, an attested one to a vouched one |
| Reconfiguration (`module/reconfigure.rs`) | believed configuration, uncertainty, transition lock | ensure, acquire, release, reconfigure by lifecycle or by member, retry | host, remote calls | a call nobody waits for any more takes effect later | who uses the module has it with the configuration asked for |
| Service slot (`module/service_slot.rs`) | installed service and key | with, close, try_close_with, shutdown hook | program | cancellation between closing the old and opening the new | no service lost, none closed twice, none beside another's closer |
| Resolution (`module/resolution.rs`, `resolve.rs`) | slot and watch channel per module, callback bindings | ensure_loaded in its forms, rungs of a resolution, settle | host, loader | waiters of a resolver that dies, a cached outcome that is no longer true | nobody stranded, no fault hidden, the binding held is the binding reported |
| Directories and releases (`resolve.rs`, `first_admitted.rs`) | batch, order | order by dependencies, load, pick the first admitted | host | failures half way, bundle before cache | the order is complete and no longer; what is admitted is what the rules of precedence say |
| Module cache, releases | cache directory, remembered hashes | publish, evict, fetch | network, file system | concurrent publication | what is loaded is what was verified |
| Native guest (`crates/tinybus-module/src/terminal.rs`, `lib.rs`) | admission slots, terminal reason and completion, owned resources | start, set up, signal, reconfigure, stop, dispose, finish | host transport, module code | end signals from any thread, panics, reconfiguration against the end | hooks run once and alone; an end is what it is reported as; every end is settled |
| Event bus, version, object tree, global bus, transports, proxies, macros, CLI | small | | | | |

`PROJECT.json` lists each of these under `components`, with its status, and
every hard case at its line under `hazards`.

## 2. Modules

```
Message <-- MatchRule <-- Router <-- Broker                   MCBroker
                ^                       ^
                |                  BrokerProofs
            Connection <- ConnectionProofs                    MCConnection
CallFlow                                                      MCCallFlow
Stream  ==>  BulkPipe      (Stream <- StreamProofs)           MCStream
ModuleTransport <- TransportProofs                            MCModuleTransport
NativeTerminal <- TerminalProofs                              MCNativeTerminal
ModuleHost <- ModuleHostProofs                                MCModuleHost
RuntimeLease, ServiceSlot, Reconfigure, ClientBinding         MCHostSide
    (with MatchRule; all four <- HostSideProofs)
Resolution, DirectoryLoad, FirstAdmitted                      MCLoading
    (all three <- LoadingProofs)
```

An arrow points to the module that is extended; `==>` is a refinement.  The
module side of the system is cut where the code has locks or tasks: NativeTerminal is
the module's side of the ABI, ModuleTransport the host's side of one
instance, ModuleHost the list of modules over what it sees of each
transport, Resolution those who want a module over what they see of the host's list,
and the four in MCHostSide are what a program keeps once it has the module.
Each keeps of the one below what the code above reads of it.

### The bus

**MatchRule** - `MatchRule` and its wire form.  A rule is a function from keys to
a value or `None`.  The wire string is modelled as a sequence of `key=value`
clauses, so that what the parser does with repeated, unknown and malformed
clauses is kept while spelling is not.

**Message** - the header, its constructors and `validate`.  Bodies are opaque.

**Router** - the table, with one action per method.  No method awaits and all run
under one mutex, so each is atomic.  Since a reader task keeps the `(id, unique)`
it got at attach, every operation is offered to every id ever minted, guarded
by exactly the checks made under the same lock.  The callback capability object
has a lock of its own; its preparation, binding and registration are separate
steps.

**Broker** - `Broker` composed with the table: one reader and one writer task per
peer, each step being what runs between two awaits.  Where the code clones a
queue's sender under the lock and uses it afterwards, so does the model
(`gate`, `send`, `fan`).  `Announce`/`TrySend` are the fan-out of
`NameOwnerChanged` by `try_send`.  `HostTasks` are threads of the module host,
which stage, reserve, attest, settle, start, detach, claim and release from
outside.  `fate`, `got`, `committed`, `announced` and `audience` (who was to hear a
signal when it was routed or broadcast) are history variables.

**Connection** - one client: `call_raw` with alias negotiation, the pending
table, bounded outbox, writer task with refused and failed frames, dispatch
loop, inbound handlers.  A handler whose caller asked for a streamed reply
calls Open, sends the handle as its reply, and then calls Write for each chunk and Close,
or leaves an Abort behind (`Serve` to `Finished`): it is a task that calls like any other
(`Tasks`), through the same table and outbox.  The rest of the bus is any reply at all:
the environment answers any serial with any sender, once or many times.

**CallFlow** - back pressure end to end: caller, outbox, the broker's reader, the
destination's queue, its dispatch loop, and the way back.  Routing is left
to Broker; writers are folded into the bounded queue in front of them.

**Stream** - the registry of bulk streams of one receiver: the set of registered
ids (`registry`) and the order in which they were last used (`older`), which
eviction goes by.  `calls` are the
handler tasks, one per Open, Write, Close or Abort, in the order they were sent;
they run in any order, which is what pipelining means here.  A write takes
the stream's gate (`WriteGate`), counts its chunk, and hands it over or waits
for the window; `Finished` is the outcome cell, set once.  `writers` is the
sender's `StreamWriter`, `got` what the `StreamReader` has returned.  A chunk is
its sequence number and who wrote it.  **BulkPipe** is what a stream promises:
what is read is a prefix of what was accepted, the verdict is given once, and a
clean end leaves nothing unread.  `PipeSpec` is `Stream => BulkPipe`: accepted
is `received`, ended is the outcome cell, read and end are the reader's.

### Modules

**ModuleTransport** - one native module as the broker sees it.  `sending` is the
broker's writer inside `Transport::send`, `drain` the task that delivers the
early queue, `worker` the physical thread, `stops` callers of `stop`, `reinit`
a reconfiguration.  Deadlines may pass at any moment; native code may return any
result, late results included.

**NativeTerminal** - the same instance from inside: the entry point, setup
task, reconfiguration, `deliver`, `shutdown` and the terminal worker, each a thread whose
place is `pc`.  Every thread may have to signal the end, so signalling is a
subroutine (`sig`).  The module's hooks, factory and futures may return, fail or
panic wherever the code tells these apart.

**ModuleHost** - the host's list: `rec` is a file's entry, `xp` what the host reads
of its transport, `ops` the control call or shutdown each actor is in, `heard`
the states announced, `control` the broker's module controller.  Loading is four
steps (`LoadCall`, `LoadCheck`, `LoadReserve`, `LoadPublish`) because the
admission lock is not held throughout.

**RuntimeLease** - a lease's activation, handles, closers and cleanup worker, and
the registry of host objects whose name they share.  The driver may never return.
**ServiceSlot** - one keyed service behind a tokio mutex, granted in the order of
asking; cancellation may drop a caller at any await.
**Reconfigure** - the coordinator of a module's configuration: `fingerprint` is
what it believes, `held` what the module has, `sent` and `running` what nobody
waits for any more.
**ClientBinding** - a handle's destination, and calls routed later.

**Resolution** - one slot of the resolution table: callers (`req`), the watch
channel (`chan`), the resolution and its rungs (`work`) and the host's entries
with the module's bus name (`list`), changed by others meanwhile.
**DirectoryLoad** - `resolve`'s fixed point over manifests, and the loads in its
order.  The list of pending modules is in file order throughout, and so a set.
**FirstAdmitted** - bundle, then cache, newest artifact first.

**BrokerProofs** (with the table's), **ConnectionProofs, StreamProofs, TransportProofs,
TerminalProofs, ModuleHostProofs, HostSideProofs, LoadingProofs** - the theorems, section 6.

### Simplifications a reader of the code should know of

- Router: `module_live` and the endpoint lists of a capability are decided by the host
  and not by the table; the table's own tests are all there.  Child callback
  bindings (`create_child_binding`) are capabilities without their parent: the
  revocation of descendants is not modelled.  Paths, names and interfaces are
  members of small sets; ids are numbers.
- Broker: `HostReserve` is reservation of a module's name together with the push of its
  record, which the host does under its own lock.  The bus's module control methods
  only exist as refusals (`BusRefuses`); what they do is ModuleHost.
- Connection: the encoder of a streamed reply is a choice, at each turn, between another
  chunk, the end and a failure; bytes are not counted.  An inbound call has a sender or a
  destination, as every call that a peer builds has.
- Stream: `set_limits` at run time, the search of a body for stream references and the
  decoding of streamed replies are left out; as in the code, Close does not
  compare with the declared length.  Lengths are counted in chunks.
- ModuleTransport: the callback gate can be paused exactly when the module has host
  callbacks; the sub-steps of the terminal job that nothing can observe are one.
- NativeTerminal: `HostClosed` is unreachable under this host.  Poisoned locks and the
  keeping of panic payloads are folded into the panic, and so is a configuration whose
  deserializer panics; the run has one instance, since instances share only the
  admission table.
- ModuleHost: ready and serving are one state; the order of announcements is not kept; a
  failed spawn is ModuleTransport's.
- RuntimeLease: one bus name, since entries of the registry are independent; the program
  may have claimed it itself before, but claims and releases nothing meanwhile.  The
  destructor of a callback returns.
- Resolution: a load that does not come through the resolver is one step
  (`DirectLoad`).  Once the module runtime is up it stays up.
- Reconfigure: the module is configured through this coordinator only, and the broker
  handles the lifecycle calls of one connection in order.
- ClientBinding: whether a confidential call is let through is Router's; timeouts are
  failures.  Clients derived from a handle keep its destination.

## 3. Runs

Each run takes between seconds and about four minutes on two workers.

| Run | Specification | What it shows |
|---|---|---|
| broker_names | Broker | `HeardAsSubscribed`: signals, the bus's too, only to who was subscribed when they were sent and to their addressee if they have one, announcements once and never before the reply to whoever made the change.  Rules are added and removed, names claimed and released |
| broker_calls | Broker, fair | `EveryCallSettledOnce`, `ReachesTheNamedPeer`, `CallsSettle`, and `RouterSpec`: the broker implements the table |
| broker_trust | Broker with the host's threads | `ChangesAnnounced` (each change of ownership is announced, and is what its step did to the table: the host and a reader that tear down one peer do not both announce it), `DeliveredAsAuthorised` (confidential calls and directed signals), `TableLive` (names, unique names and capabilities lead to peers that are there, and no revoked capability authorises) |
| connection | Connection, fair | `AnsweredAsCaptured`, `WaitersServed`, `CallsReturn`, with a publisher and a handler that streams its reply filling the same outbox |
| call_flow | CallFlow, fair | `EveryCallReplied` in two topologies: two peers calling each other through queues of one do not deadlock, and a peer that stops reading delays only those who talk to it |
| streams | Stream, fair | `ReadAsWritten`, `SlotsBounded`, `WritesAnswered`, and the refinement `PipeSpec` |
| module_transport | ModuleTransport, fair | `ShutdownOnceAlone`, `StoppedIsOver`, `OrdinaryStopStays`, `QueuedServed` |
| native_terminal | NativeTerminal, fair | `HooksAlone`, `EndIsTrue`, `TerminalCompletes` |
| module_host | ModuleHost, fair | `LifecycleExclusive`, `ListedStoppedIsOver`, `DecisionsStick`, `StopAnnounced` |
| host_side | MCHostSide | `RoundTrip` (rules), `BoundToOnePeer` (clients), `ServicesKept` (slot), `ConfigurationHeld` (reconfiguration), `NameFollowsUse`, `CallbackKept`, `CloseAnswered` (leases) |
| loading | MCLoading | `ReadyIsSettled`, `FaultReported`, `BindingHeld`, `NoneStranded` (resolution), `OrderIsComplete` (directories), `AdmittedAsDeclared` (releases) |
| wedge_caller | CallFlow, fair | expects a violation of `EveryCallReturns`, see section 4 |

host_side and loading put components that share no state side by side: a variable
`part` chooses one at the start and the others rest, so their states add up
instead of multiplying.  A conjunction such as `ReadAsWritten` joins properties
about one hazard that are defined, with their own comments, right above it.

### Bounds

- Broker: two peers, queues of one, one well-known name, one capability, three messages
  (one where host threads run).  A queue of one makes every queue
  fill and drain; two peers and one name are enough for a handover, for each being the
  other's subscriber and for a stale id next to a live one.  The names run has a signal for
  everybody and one for a single peer, and a rule for the bus's signals and one for the
  peers', of which the second is withdrawn again.
- Connection: one caller beside a publisher and an inbound handler, an outbox of one and four
  serials, of which caller and publisher take only the first two (`LastBegin`): answers
  to one call can come during the next, and a handler that starts early has serials for
  Open, its handle, a chunk and an error or a Close.  Where it has none left it stops, for
  example before a late Abort.
- CallFlow: three calls per pair are what it takes to fill outbox, reader
  and queue of one direction at once; four where the caller is to wedge.
- Stream: two streams, two peers of which one only guesses ids, five calls, a window and
  a cap of one: a parked write, a pipelined one behind it and a close or abort
  fit, and the second Open meets the cap.  Two streams reach the second bound of
  `SlotsBounded` but cannot pass it; that one rests on the theorem.
- ModuleTransport: an early call and a later one, one stop, one reconfiguration, both load
  modes.  NativeTerminal: two reconfigurations and one fault.
- ModuleHost: three scenarios - one module under two control calls and a shutdown, two
  libraries with one module name and two controllers, two modules with one bus name.
- host_side: one lease and two objects at one path, two attempts, two handles; a slot
  with three services, two users and two keys; two callers with two
  configurations and both strategies; three peers, two of them vouched for; rules of
  up to five clauses.
- loading: two askers in every mix of the forms that differ, from every source;
  directories of up to three modules over two interfaces; two artifacts.

`MaxMsgs`, `MaxSerial`, `MaxCalls`, `MaxUses`, `MaxLoads`, `MaxAsks`, `MaxTries`,
`MaxBinds`, `MaxSends`, `MaxReinits`, `MaxFaults` and the like occur in guards
only, so a behaviour at a bound stops rather than wraps.  For that reason, and because
most of these systems really come to rest once everything is stopped, deadlock is not
checked by TLC: that nobody gets stuck is stated as liveness.

### Fairness

Weak fairness of tasks that can run: tokio polls every ready task and fires
every timer, threads are scheduled.  In detail:

- Broker: readers past their `recv`, announcing tasks and writers.  A writer that has a
  message writes it, has it refused or fails, which assumes that a peer reads
  or hangs up; CallFlow drops this (a wedged peer does neither).
- Connection: callers, writer and handlers, with the calls they make; not the
  environment's replies.
- Stream: some ready handler task runs while there is one, and claimed readers read on.
- ModuleTransport, NativeTerminal, ModuleHost: threads and tasks; callbacks into the
  module return.  A delivery does not answer with back pressure for ever, the one
  use of strong fairness.  A setup future need never be ready, nor need anything be
  called.
- RuntimeLease: tasks and timers of the runtime, not the driver.  Resolution: the
  resolver and its callers.  DirectoryLoad, FirstAdmitted, ServiceSlot,
  Reconfigure and ClientBinding state safety only.

Attaching, disconnecting, cancelling, faults and the calls of peers are never fair.

### Mutants

Each property of a passing run has a mutant, an operator defined beside the one
it replaces with a plausible bug in it (a dropped guard, a missing reset, a wake-up
left out, a check under the wrong lock); TLC finds the property violated by it.

## 4. Where code and text differ

`wedge_caller`: the deadline of a call covers the wait for the reply and not
the wait for room in the outbox (connection.rs:1070).  A reader blocked on a wedged
peer's queue (broker.rs:539) stops draining its caller, whose next call then waits
without bound.  README.md:61 says every call has a deadline.

Others were met while modelling and have no run of their own:

- `MatchRule::sender` is documented as accepting a unique or well-known name
  (router.rs:43); signals carry the stamped unique name, so a rule by well-known
  name never matches (router.rs:107).
- The reader of a bus call looks its caller up again to answer (broker.rs:574); if the host
  detached it meanwhile, the committed name change is announced by nobody, against
  docs/protocol.md:214.  `ChangesAnnounced` states the exception.
- A call is said to expect exactly one reply (message/mod.rs:39).  If the encoder of a streamed
  reply fails after the handle was sent (connection.rs:1773-1775), the call gets a second
  one, an error (1716), which its caller no longer waits for.  `InboundAnswered` states
  this exception and excludes every other.
- A call that registers after the dispatch loop has ended, while the writer still
  accepts messages, is not woken and runs into its deadline.  It does return.
- A write parked on a stream that was closed as complete, and then evicted before its reader was
  claimed, may stay unanswered: eviction (stream/mod.rs:401-405) keeps the reading half that
  reaping drops for this very reason (360-366).  `WritesAnswered` speaks of aborted streams
  and of readers that are claimed or dropped.
- A queued early call whose delivery fails may go unanswered (transport.rs:1127-1146),
  as may one that is delivered after a later call, which is not held behind the queue.
  `QueuedServed` says that it is taken up.
- A stop that times out before it got the lock has closed the module's admission and then forgets
  its transition (host.rs:442-447): the module stays listed as ready and takes no calls.
- `unavailable_for` (host.rs:2390) takes the first record with the bus name: a live owner
  may be refused for an older stopped record.  Resolution's settle has the same order
  (host.rs:734-752): an older stopped entry makes resolutions of a live module fail.
- `invalidate` during a transition in flight is overwritten by its success
  (reconfigure.rs:125 against 191).
- An `open` that is cancelled midway in a service slot may leave a service that only the host
  knows; a second export at a path replaces the first silently (runtime.rs); a lease's close may
  return Unacknowledged after its timeout, while the stop goes on.
- The provided interfaces that a directory load checks include those of stopped modules.
- Shutdown may skip a module that is claimed between its busy test and its claim.

## 5. What is not modelled

- Archive extraction, ACLs, platform and byte formats, Unix framing, the C layout of the
  ABI: I/O and formats, without control that a checker could explore.
- The module cache, releases and remembered hashes: what is atomic there is so by `rename` and
  file locks of the operating system, of which the source holds only the calls.
- Event bus and global bus: one library channel, one `OnceCell`.  Object tree: a map
  under one lock, with no step between its operations.  Version: a comparison.
- Proxies, macros and command line: argument plumbing and generated code.
- In modelled components: revocation of child bindings, `set_limits`, rescanning of
  directories, configuration fingerprints of reloads, `unavailable_for`,
  `prepare_attested`'s hooks and `status_of`, the roll-back of a panicking
  `staged.start`, re-registration of shutdown hooks.

## 6. Proofs

Of the routing table `BrokerProofs` proves, for any number of peers, names, rules and
capabilities:

- `TypeCorrect`, `NoOrphanNames`, `UniqueNamesHold`, `CapabilitiesLive`,
  `RevocationSticks`: invariants of the table;
- `FirstWriter`, `IdsNotReused`, `TrustStays`: action properties.

The inductive invariant `RouterInv` is the conjunction of the type invariant,
`NamesLive`, `UniqueOwned`, `CallbacksLive` and `RevokedDead`: a revoked
capability is inactive whether or not it is registered, since it may be
registered after its revocation.  None is inductive alone: that a name's owner is attached needs
ids to be unminted before attach (types) and unique names to belong to their
ids; that a detach leaves no capability behind needs both ends to own their
unique names.  One lemma per action shows that it is kept (`AttachInv`,
`DetachInv`, `ClaimInv`, ...), `NextInv` puts them together.

Of the broker it proves `Refinement`, `BrokerSpec => RouterSpec`: every step of a
reader, a writer or a host thread is an operation of the table or leaves it
alone.  The mapping is the identity on the table's variables; the invariant it
needs (`TasksMinted`) is that tasks run under ids that were minted, and that
modules have such ids and well-known names; the lemma `Stamped` says that a
header keeps its shape when the reader stamps it.  `BrokerTable` carries
`TableLive`, revocation included, over to the broker, and since the table's theorems are
about `RouterSpec`, so does `Refinement` every other one.

It also proves four of the broker's own properties from `BrokerInvariant`, for any peers,
rules, queue lengths and messages:

- `CallsSettledOnce` (`EveryCallSettledOnce`), from `SettleInv`.  The property speaks of calls
  whose reader is done with them, so `CallFits` says of the others that a call is in its
  own reader's hands and has no answer yet (`Has`), or is settled; `Cells` and `Busy` say
  which serial a reader is busy with, and `Placed` where it stands with that call.
- `CallsReachTheNamed` (`ReachesTheNamedPeer`) and `OnlyAsAuthorised` (`DeliveredAsAuthorised`),
  both from `AddressInv`: whatever is queued for a peer, or in a task's hands on its way
  there, `Fits` that peer.  `Fits` covers fan-outs and replies too (`Directed`), as a
  queue holds all of them, and it stays true while the table changes under it
  (`GrantsStay`): attestations only grow while a peer is attached, ids are not
  reused, and a bound capability keeps its module.
- `EveryChangeAnnounced` (`ChangesAnnounced`), from `AnnounceInv`: between the commit of a change
  and its announcement, the change is in the list of the task whose own call or
  tear-down made it (`Owed`); it is dropped from that list only if the caller is gone for
  good (`Lapsed`, which holds for ever since ids are not reused), and the history of changes is
  never rewritten (`PastKept`).  That a change is told as what it was is a fact of steps
  (`TellsTrue`, from one lemma per operation that moves a name: `AttachTells`,
  `ClaimTells`, `ReleaseTells`, `DetachTells`, and `QuietTells` for the rest): a step adds to
  the changes exactly those that it makes in the table, hence one that detaches a peer
  already gone adds none.

`ConnectionProofs` proves `AnswersAreCaptured` (`AnsweredAsCaptured`) and `WaitersAreServed`
(`WaitersServed`), for any callers, messages, answers and capacities, from one invariant,
`LinkInv`.  The properties speak of calls that returned and of calls that wait; `CallerOk`
says of a caller at each of its awaits what it carries, whether its serial is listed, what
its pending entry would let in (`Right`: nothing but an answer of the peer it was captured for)
and what is in its slot.  A handler's calls are covered by the same predicate, and what it has
in hand by one of its own (`JobOk`): which call it waits for at each of its awaits, how many replies it
has sent by then, and that the peer of its stream is who accepted it.  An answer finds the one caller it is for because no two share a
serial (`SerialsApart`).  The outbox holds messages as callers sent them, numbered and perhaps pinned
by negotiation (`Outbound`), from which `OutboundCaptured` recovers the message the caller began
with.

`StreamProofs` proves three theorems for any peers, ids, calls, windows and caps.

- `ReadersAreTold`, `Spec => []ReadAsWritten`, from the invariant `StreamInv`.
  `ReadAsWritten` says nothing of the chunk that a handler holds between its sequence
  check and its send, nor of the total that a Close read before it gave its verdict.
  `CallFits` does, for a handler at each of its awaits, `GateHeld` ties the gate to the one
  write past it, `Counted` relates what was counted to what is in the window or
  read - but for the one being sent - and `Verdict` says which Close a complete outcome
  came from and that a clean end leaves nothing behind.
- `StreamsArePipes`, `Spec => PipeSpec`: initial states map to initial states and
  every step of a handler, the reaper, a sender or a reader is a step of BulkPipe or a stutter.
  Most of the work is that a chunk is accepted before the stream has ended: the holder of
  the gate found it unsealed, and nothing ends it in the same step.
- `SlotsStayBounded`, `Spec => []SlotsBounded`.  The second cap holds only because eviction
  makes room: `EvictionMakesRoom` counts that an Open leaves fewer ended streams of its peer than
  the cap, because those that stay have distinct numbers of ended ones before
  them in `older`, which orders the registry (`RegistryOrder`).

`TransportProofs` proves `ShutdownTheorem` (`ShutdownOnceAlone`), `StoppedTheorem`
(`StoppedIsOver`) and the action property `OrdinaryStopTheorem` (`OrdinaryStopStays`), for any
queue of calls, modes of initialisation and number of stoppers, from `TransportInv`.  `LockHeld`
says who holds the lifecycle lock, `WorkerAt` and `InitAt` what the physical job and the
initialiser have done where they stand - together, that none of a reconfiguration, an
initialiser and shutdown can be in the module beside another.  `ModuleHeld` says that whoever
is or was in the module, or reported it ready, has it; `Ending` that a fault, a cleanup and
physical completion each imply the close, and what completion itself means; `Unseen` that
nobody can stop or call an eager module before its initialiser returned.  `Blame` is for the
action property: it says in which states a job or a sender may still publish a fault.

`TerminalProofs` proves `HooksTheorem` (`HooksAlone`) and `EndTheorem` (`EndIsTrue`), for any
instances, admission slots, reconfigurations and faults, from `TerminalInv`.  It is one
predicate of one instance, `Ok`, and one that ties an instance to the admission table,
`SlotOk`.  Neither property is inductive, because the threads of an instance hand one record to each other
with the lock given up in between.  `EntryOk` says that nothing else of an
instance runs before its configuration was parsed; `RequestOk` that signal(), which any
thread may be in, lets one of them run the request hook, once, and after a reason was
committed; `WorkerOk` that past its loop the worker is alone: start-up is published, no
reconfiguration is active, the setup task is over and the request hook has returned; `EndOk` what
"released" and the completion stand for; `GoneOk` that an instance without a slot has no
thread left.  `SlotOk` makes slots private to an instance, so that a step of one
touches no other (`Lift`), and keeps an uncertain one anchored.

`ModuleHostProofs` proves `OneHolder` (`LifecycleExclusive`), `StoppedIsStopped`
(`ListedStoppedIsOver`) and the action property `DecisionsAreFinal` (`DecisionsStick`)
from one invariant, `HostInv`: a module is busy exactly while one operation holds it
(`Claimed`), operations and the shutdown's list are about loaded modules (`Targets`) and a
file being loaded is not in the list yet (`Pending`), so that publishing it takes no claim
away; what a transport shows of its end is so (`Sound`, in `Ended`) and no transport operation
takes back a fault or a stop (`Advances`, one lemma per operation); one peer at a time
is being made the controller (`Selecting`).

`HostSideProofs` is about what a program keeps of its modules, one part at a time.

Leases: it proves `NameFollows` (`NameFollowsUse`) and `CallbackStays` (`CallbackKept`).
`LeaseInv` has two halves.  `RegistryInv` is about the lock and the count: the
registration that claimed the name is the one that holds the lock (`LockHeld`), the count is
the cardinality of the objects that use the name (`Counted`), and the registry owns the name
exactly while it should (`NameHeld`, which speaks of the moments in between as well).
`WorkerInv` says that only a lease's own cleanup worker removes its callback and that it runs
once.

Clients: it proves `ClientsBound`, `ClientSpec => []BoundToOnePeer`, for any
handles and peers.  The invariant `ClientInv` says where a handle is between its
binding and its calls: until it is bound nothing it sent is on its way
(`QuietUntilBound`), and then everything it sent or that arrived is for the one peer its
proxy was made for (`BoundToItsPeer`).

Service slots: it proves `SlotKeepsServices`, `SlotSpec => []ServicesKept`, for any users,
keys and number of services.  `ServicesKept` says nothing of those who wait or are cancelled,
so `SlotInv` adds the lock's discipline (`LockKept`: whoever is past waiting holds it),
what its holder has in hand (`InHand`: the entry while it operates, nothing installed
while it opens or closes) and on whose behalf a closer runs (`CloserOwned`).  Steps that
enter with the lock granted and steps that give it up have one lemma each.

Configurations: it proves `ConfigurationKept`, `ConfigSpec => []ConfigurationHeld`, for any callers,
configurations and retries.  The danger is a call that nobody waits for any more, so
`ConfigInv` says where those can be: at most the last call on the wire is
waited for (`Wire`); a member call travels alone and behind the fence `uncertain`, a
lifecycle call never puts it up (`FenceUp`); a stored fingerprint, or a module not yet
loaded, means that nothing is on its way or at work (`Believed`); and whoever was given the
module holds the transition lock alone, with the module quiet (`Admitted`).

`LoadingProofs` is about getting a module.

Resolution: it proves `ReadyTheorem` (`ReadyIsSettled`), `BindingTheorem` (`BindingHeld`) and
`FaultTheorem` (`FaultReported`) for any callers, requests and attempts, from `ResolutionInv`.
`ListInv` says of the host's list that at most one entry is live, and the last, and that a
binding is retained on the first entry only and by whoever loaded it; hence a retained
binding on a live module means that nothing in the list is faulted.  `WorkInv` ties the slot to its
task: in flight while it runs, or was lost, and ready only with a module that settled.
`CallerOk` says what a caller has found out where it is: one that saw a fault before it
asked has not got past the claim with a callback.  The two action properties follow from what
a step that answers "ok" must come from (`OkComesFrom`).

Directories: `OrderTheorem` (`OrderIsComplete`), for any manifests.  The order so far is in every
set that is closed under "what it needs is there" (`Placed`), and whoever was refused for
want of a provider is in no set that sustains itself (`Refused`); when the loop ends the
order is such a closed set, and with the modules in a cycle a self-sustaining one
(`OrderedAll`), that is, the least and the greatest fixed point.

Releases: `AdmittedTheorem` (`AdmittedAsDeclared`), for any number of artifacts in any places.
`Looking` says that what was tried is what is offered before the place looked at, and
what the two flags then mean; since preference is a strict total order
(`PrecedesOrders`) the first admitted is the one that is due.  An artifact whose binding could not
be retained is admitted and ends the load in failure, without a result (`NoResult`).

Assumptions, all named and evaluated by TLC in the runs: `None` and `BUS` are
neither names nor manifests and well-known names are not unique names
(`NamesAssumption`, `ManifestAssumption`), bounds are naturals and host threads
are not peer ids (`LimitAssumption`, `BoundsAssumption`), what peers announce
and subscribe to is among the manifests and rules (`InputsAssumption`), released
peers are peers (`ClientAssumption`), and the values that stand for nobody are
nobody's name: `NONE` is no registrant (`LeaseAssumption`), `Unknown` neither a caller nor a
configuration (`ReconfigureAssumption`), and the states of ModuleHost's controller are not names
of callers (`HostAssumption`).  Of a connection, capacities are naturals (`CapacityAssumption`) and
what callers send are headers that have no serial yet, what a publisher hands to
`try_send` is no call, and no answer is the empty slot (`MessagesAssumption`).  The calls,
modes and options of a transport are of their kinds (`TransportAssumption`), as are scenes of a
resolution (`ResolutionAssumption`) and what is found at an artifact's place
(`FirstAdmittedAssumption`).  Native instances are numbered from 1 and no admission slot is
called "none" (`TerminalAssumption`), since 0 anchors nobody and "none" is no slot.

Only model-checked: liveness (the prover has no fairness or ENABLED), `RoundTrip`, which is
about what the writer and the parser of match rules compute from their clauses (induction
over data), the broker's `HeardAsSubscribed`, and the end-to-end CallFlow, whose properties
are liveness.  Of `HeardAsSubscribed`, who hears a signal is compared with `audience`, the
subscribers at the time it was sent, so that a rule may be removed while a signal that matched it
waits in a queue; that a change is heard once is not claimed for every input, as a peer may
send a signal of its own that is called `NameOwnerChanged`.

## 7. Plan

The system's concurrent parts are modelled; what is left to model is listed in section 5.
Every safety and action property of a run is a theorem but for `RoundTrip` and
`HeardAsSubscribed`, for the reasons given in section 6.  What would come next:

1. The parts of modelled components that section 5 leaves out, child bindings first: they add a
   parent to a capability and a revocation that reaches descendants.
2. A theorem for `HeardAsSubscribed`, from an invariant over queues and fan-outs like `AddressInv`
   that ties what a task holds to `audience`, with the bus's announcements told apart from
   signals that peers send under the same name.
