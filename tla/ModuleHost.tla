------------------------------ MODULE ModuleHost ------------------------------
(***************************************************************************)
(* The module host (module/host.rs) and the broker's side of module        *)
(* control (broker.rs): admitting and loading modules, the state each is   *)
(* listed in, StopModule, ReinitializeModule, EnableModule and shutdown    *)
(* with the guard that makes them exclusive, and what the broker tells the *)
(* host when a module's peer detaches.                                     *)
(*                                                                         *)
(* A module is identified by the file it is loaded from.  rec is its entry *)
(* in the loaded list, xp its transport: here only what the host reads of  *)
(* it and the order in which it changes (ModuleTransport is the detail).   *)
(***************************************************************************)
EXTENDS Naturals, Sequences, SequencesExt

CONSTANTS
    Files,      \* module libraries
    Callers,    \* peers that send module control calls
    Scenarios,  \* what a run starts from, see IsScenario
    MaxLoads    \* attempts to load one file

\* A scenario names the libraries that are loaded with the names in their
\* manifests, the modules among them that are then used and controlled, the
\* callers, how many control calls they make, whether the host shuts down,
\* and whether the broker restricts module control.
IsScenario(s) ==
    /\ s.files \subseteq Files /\ DOMAIN s.names = s.files
    /\ s.managed \subseteq s.files /\ s.callers \subseteq Callers
    /\ s.calls \in Nat /\ s.quits \in BOOLEAN
    /\ s.control \in {"permissive", "unselected"}

ASSUME HostAssumption ==
    /\ MaxLoads \in Nat
    /\ Callers \cap {"host", "permissive", "unselected", "attaching"} = {}
    /\ \A s \in Scenarios : IsScenario(s)

NONE == "none"

\* Besides the callers, the host itself, which may shut every module down.
Actors == Callers \cup {"host"}

VARIABLES
    scene,      \* the scenario
    loaded,     \* Vec<LoadedModule>: the files, in the order they were pushed
    rec,        \* file -> info, transition_from, lifecycle_busy
    rejected,   \* file -> NONE or the refused state it is listed in
    admission,  \* who holds the admission lock
    loads,      \* file -> where its load call is
    xp,         \* file -> its transport
    peers,      \* file -> its peer: absent, attached, gone from the router, detached
    control,    \* module_controller: "permissive", "unselected", "attaching", a caller
    ops,        \* actor -> its control call, or the host's shutdown
    calls,      \* control calls so far
    heard       \* file -> the states announced by ModuleStateChanged

vars == <<scene, loaded, rec, rejected, admission, loads, xp, peers, control, ops,
          calls, heard>>

hostVars == <<scene, loaded, rejected, admission, loads>>

Loaded == Range(loaded)

Terminal == {"stopped", "faulted", "failed"}

Final == {"Complete", "Uncertain", "NoCallbackRequired"}

FreshRecord(state) == [info |-> state, from |-> NONE, busy |-> FALSE]

\* drained: no host callback of the module is running any more.
FreshTransport(lazy, callbacks) ==
    [init |-> IF lazy THEN "Deferred" ELSE "Valid", started |-> ~lazy, lock |-> "free",
     cleanup |-> "Idle", job |-> "none", code |-> FALSE, closed |-> FALSE,
     faulted |-> FALSE, initFailed |-> FALSE, ready |-> FALSE, stopped |-> FALSE,
     inbound |-> TRUE, spawned |-> FALSE, drained |-> ~callbacks]

Init ==
    /\ scene \in Scenarios
    /\ loaded = <<>>
    /\ rec = [f \in Files |-> FreshRecord("resolved")]
    /\ rejected = [f \in Files |-> NONE]
    /\ admission = NONE
    /\ loads = [f \in Files |-> [pc |-> "idle", tries |-> 0, lazy |-> FALSE]]
    /\ xp = [f \in Files |-> FreshTransport(TRUE, FALSE)]
    /\ peers = [f \in Files |-> "absent"]
    /\ control = scene.control
    /\ ops = [c \in Actors |-> [pc |-> "idle", f |-> NONE, todo |-> <<>>]]
    /\ calls = 0
    /\ heard = [f \in Files |-> {}]

IsReady(x) == x.ready /\ ~x.faulted /\ ~x.stopped

Dead(x) == x.faulted \/ x.closed

\* LoadedModule::snapshot: what ListModules reports.
ListedAs(info, x) ==
    LET held == info \in {"stopped", "disabled"} IN
    CASE x.initFailed /\ ~held -> "failed"
      [] x.faulted /\ ~x.initFailed /\ ~held -> "faulted"
      [] IsReady(x) /\ ~x.initFailed /\ info \in {"resolved", "initializing"} -> "ready"
      [] x.started /\ ~IsReady(x) /\ ~x.faulted /\ ~x.initFailed /\ info = "resolved"
            -> "initializing"
      [] OTHER -> info

Snapshot(f) == ListedAs(rec[f].info, xp[f])

-----------------------------------------------------------------------------
(* The transport.                                                          *)

CommitTerminal(x, fault) == [x EXCEPT !.faulted = @ \/ fault, !.closed = TRUE]

Requested(x) == IF x.cleanup = "Idle" THEN [x EXCEPT !.cleanup = "Requested"] ELSE x

FinishStop(x) == [x EXCEPT !.stopped = TRUE, !.inbound = FALSE, !.job = "none"]

Canceled(x) ==
    FinishStop([x EXCEPT !.init = "CanceledBeforeEntry", !.cleanup = "NoCallbackRequired"])

\* request_terminal.
RequestTerminal(x, fault) ==
    LET r == Requested(CommitTerminal(x, fault)) IN
    IF r.cleanup # "Requested" \/ r.job # "none" THEN r
    ELSE IF r.init = "Deferred" THEN Canceled(r)
    ELSE [r EXCEPT !.job = "cleanup"]

Transport(f, x) ==
    /\ xp' = [xp EXCEPT ![f] = x]
    /\ UNCHANGED <<hostVars, rec, peers, control, ops, calls, heard>>

\* A first message, or ensure_ready, schedules a deferred initialiser.
Schedule(f) ==
    /\ f \in Loaded /\ f \in scene.managed
    /\ xp[f].init = "Deferred" /\ ~Dead(xp[f])
    /\ Transport(f, [xp[f] EXCEPT !.init = "Scheduled", !.started = TRUE, !.job = "init"])

\* The physical worker enters it, unless the transport died first.
Enter(f) ==
    /\ xp[f].init = "Scheduled" /\ xp[f].lock = "free"
    /\ Transport(f, IF Dead(xp[f]) THEN Canceled(xp[f])
                    ELSE [xp[f] EXCEPT !.init = "Entered", !.lock = "worker"])

\* It returns, and a cleanup requested meanwhile is the worker's next job.
Returned(f, ok) ==
    LET x == [xp[f] EXCEPT !.lock = "free"] IN
    /\ xp[f].init = "Entered"
    /\ Transport(f, IF ok
           THEN [x EXCEPT !.init = "Valid",
                          !.job = IF x.cleanup = "Requested" THEN "cleanup" ELSE "none"]
           ELSE [CommitTerminal(x, TRUE) EXCEPT !.init = "Rejected", !.cleanup = "Uncertain"])

\* Its caller learns of a failure, or runs out of time, and faults the module.
InitError(f) ==
    LET x == xp[f] IN
    /\ ~x.initFailed
    /\ x.init \in {"Scheduled", "Entered", "Rejected"}
    /\ Transport(f, [RequestTerminal([x EXCEPT !.initFailed = TRUE], TRUE)
                       EXCEPT !.inbound = FALSE])

\* The cleanup job runs shutdown with the lifecycle lock.
CleanupRuns(f) ==
    LET x == xp[f] IN
    /\ x.job = "cleanup" /\ x.cleanup = "Requested"
    /\ x.lock \in {"free", "worker"} /\ x.init = "Valid"
    /\ x.drained
    /\ Transport(f, [x EXCEPT !.cleanup = "Executing", !.closed = TRUE, !.lock = "worker"])

CleanupEnds(f, ok) ==
    /\ xp[f].cleanup = "Executing"
    /\ Transport(f, [FinishStop(xp[f]) EXCEPT !.lock = "free", !.code = TRUE,
                        !.cleanup = IF ok THEN "Complete" ELSE "Uncertain"])

\* host_ready and host_fault.
HostReady(f) ==
    /\ f \in scene.managed
    /\ xp[f].init \in {"Entered", "Valid"} /\ peers[f] # "absent"
    /\ ~xp[f].closed /\ ~xp[f].ready
    /\ Transport(f, [xp[f] EXCEPT !.ready = TRUE])

HostFault(f) ==
    /\ f \in scene.managed
    /\ xp[f].init \in {"Entered", "Valid"} /\ peers[f] # "absent"
    /\ ~xp[f].faulted
    /\ Transport(f, [RequestTerminal(xp[f], TRUE) EXCEPT !.inbound = FALSE])

CallbacksDrain(f) ==
    /\ f \in scene.managed
    /\ ~xp[f].drained
    /\ Transport(f, [xp[f] EXCEPT !.drained = TRUE])

-----------------------------------------------------------------------------
(* Loading: activate, register_lazy and attach_transport, under the        *)
(* admission lock.                                                         *)

LoadAt(f, pc) == loads' = [loads EXCEPT ![f].pc = pc]

\* record_manifest_rejection.
Refuse(f, state) ==
    /\ rejected' = [rejected EXCEPT ![f] = state]
    /\ LoadAt(f, "idle")
    /\ admission' = NONE
    /\ UNCHANGED <<loaded, rec>>

LoadCall(f) ==
    /\ f \in scene.files
    /\ loads[f].pc = "idle" /\ loads[f].tries < MaxLoads /\ f \notin Loaded
    /\ admission = NONE
    /\ admission' = f
    /\ \E lazy \in BOOLEAN :
        loads' = [loads EXCEPT ![f] = [pc |-> "check", tries |-> @.tries + 1, lazy |-> lazy]]
    /\ UNCHANGED <<scene, loaded, rec, rejected, xp, peers, control, ops, calls, heard>>

\* validate and provisional_info, the name's uniqueness, and the initialiser
\* of an eager module, which runs before the module is on the bus.
LoadCheck(f) ==
    /\ loads[f].pc = "check"
    /\ \/ Refuse(f, "rejected") /\ UNCHANGED xp
       \/ /\ \E g \in Loaded : scene.names[g].name = scene.names[f].name
          /\ Refuse(f, "unresolved") /\ UNCHANGED xp
       \/ /\ \A g \in Loaded : scene.names[g].name # scene.names[f].name
          /\ \/ ~loads[f].lazy /\ Refuse(f, "failed") /\ UNCHANGED xp
             \/ /\ LoadAt(f, "reserve")
                /\ \E callbacks \in BOOLEAN :
                    xp' = [xp EXCEPT ![f] = FreshTransport(loads[f].lazy, callbacks)]
                /\ UNCHANGED <<rejected, admission, loaded, rec>>
    /\ UNCHANGED <<scene, peers, control, ops, calls, heard>>

OwnerOf(bus) == {f \in scene.files : peers[f] = "attached" /\ scene.names[f].bus = bus}

\* attach_module_staged and reserve_module_name.
LoadReserve(f) ==
    /\ loads[f].pc = "reserve"
    /\ IF OwnerOf(scene.names[f].bus) # {}
       THEN /\ Refuse(f, "unresolved")
            /\ xp' = [xp EXCEPT ![f] = RequestTerminal(@, TRUE)]
            /\ UNCHANGED peers
       ELSE /\ LoadAt(f, "publish")
            /\ peers' = [peers EXCEPT ![f] = "attached"]
            /\ UNCHANGED <<rejected, admission, loaded, rec, xp>>
    /\ UNCHANGED <<scene, control, ops, calls, heard>>

\* The entry is published, the staged peer started and the transition of
\* LoadModule announced; the announcing task waits in "loaded".
LoadPublish(f) ==
    LET state == IF loads[f].lazy THEN "resolved" ELSE "initializing" IN
    /\ loads[f].pc = "publish"
    /\ loaded' = Append(loaded, f)
    /\ rec' = [rec EXCEPT ![f] = FreshRecord(state)]
    /\ heard' = [heard EXCEPT ![f] = @ \cup {state}]
    /\ LoadAt(f, "loaded")
    /\ admission' = NONE
    /\ UNCHANGED <<scene, rejected, xp, peers, control, ops, calls>>

\* The task spawned by attach_transport: initializing of a lazy module, then
\* ready, unless the module faults first.
Announce(f) ==
    /\ f \in scene.managed
    /\ \/ /\ loads[f].pc = "loaded" /\ loads[f].lazy
          /\ xp[f].started \/ Dead(xp[f])
          /\ IF xp[f].started /\ ~xp[f].faulted
             THEN heard' = [heard EXCEPT ![f] = @ \cup {"initializing"}] /\ LoadAt(f, "initializing")
             ELSE UNCHANGED heard /\ LoadAt(f, "over")
       \/ /\ loads[f].pc = "initializing" \/ (loads[f].pc = "loaded" /\ ~loads[f].lazy)
          /\ xp[f].ready \/ Dead(xp[f])
          /\ heard' = IF IsReady(xp[f]) THEN [heard EXCEPT ![f] = @ \cup {"ready"}] ELSE heard
          /\ LoadAt(f, "over")
    /\ UNCHANGED <<scene, loaded, rec, rejected, admission, xp, peers, control, ops, calls>>

-----------------------------------------------------------------------------
(* The module controller of a restricted broker (attach_module_controller) *)
(* and the dispatch of control calls.                                      *)

AttachController(c) ==
    /\ c \in scene.callers
    /\ ops[c].pc = "idle" /\ control = "unselected"
    /\ control' = "attaching"
    /\ ops' = [ops EXCEPT ![c].pc = "attaching"]
    /\ UNCHANGED <<hostVars, rec, xp, peers, calls, heard>>

SelectController(c) ==
    /\ ops[c].pc = "attaching"
    /\ control' = c
    /\ ops' = [ops EXCEPT ![c].pc = "idle"]
    /\ UNCHANGED <<hostVars, rec, xp, peers, calls, heard>>

Permitted(c) == control \in {"permissive", c}

-----------------------------------------------------------------------------
(* Lifecycle operations of the actors.  LifecycleBusyGuard is held from    *)
(* the claim to GuardDrop, in the states Held.                             *)

Goes(c, pc, f) == ops' = [ops EXCEPT ![c].pc = pc, ![c].f = f]

At(c, pc) == Goes(c, pc, ops[c].f)

Over(c) == Goes(c, IF c = "host" THEN "next" ELSE "idle", NONE)

\* A control call of an idle caller, about a loaded module.
Calls(c, f) ==
    /\ c \in scene.callers /\ ops[c].pc = "idle" /\ Permitted(c)
    /\ f \in Loaded /\ f \in scene.managed
    /\ calls < scene.calls /\ calls' = calls + 1

Waiting == {"drain", "lock", "wait", "reinit", "native"}

Held == Waiting \cup {"drop"}

StopRefused(f) == rec[f].busy \/ Snapshot(f) \in Terminal

\* stop_inner up to its first await: under the list lock the module is
\* claimed, its admission closed and the state it leaves remembered.
StopClaim(c, f) ==
    IF StopRefused(f) THEN Over(c) /\ UNCHANGED <<rec, xp>>
    ELSE /\ rec' = [rec EXCEPT ![f].busy = TRUE,
                               ![f].from = IF @ = NONE THEN Snapshot(f) ELSE @]
         /\ xp' = [xp EXCEPT ![f] = CommitTerminal(@, FALSE)]
         /\ Goes(c, "drain", f)

StopModule(c, f) ==
    /\ Calls(c, f)
    /\ StopClaim(c, f)
    /\ UNCHANGED <<hostVars, peers, control, heard>>

\* ModuleHost::shutdown: every module in turn, once it is not busy
\* (stop_after_lifecycle), or not at all when its deadline passes first.
Shutdown ==
    /\ scene.quits /\ ops["host"].pc = "idle"
    /\ ops' = [ops EXCEPT !["host"].pc = "next", !["host"].todo = loaded]
    /\ UNCHANGED <<hostVars, rec, xp, peers, control, calls, heard>>

ShutdownNext ==
    LET o == ops["host"] IN
    /\ o.pc = "next" /\ o.todo # <<>>
    /\ ops' = [ops EXCEPT !["host"] =
          [pc |-> IF Head(o.todo) \in scene.managed THEN "await" ELSE "next",
           f |-> Head(o.todo), todo |-> Tail(o.todo)]]
    /\ UNCHANGED <<hostVars, rec, xp, peers, control, calls, heard>>

ShutdownStops ==
    /\ ops["host"].pc = "await"
    /\ ~rec[ops["host"].f].busy
    /\ At("host", "claim")
    /\ UNCHANGED <<hostVars, rec, xp, peers, control, calls, heard>>

ShutdownClaims ==
    /\ ops["host"].pc = "claim"
    /\ StopClaim("host", ops["host"].f)
    /\ UNCHANGED <<hostVars, peers, control, calls, heard>>

ShutdownDeadline ==
    /\ ops["host"].pc = "await"
    /\ Over("host")
    /\ UNCHANGED <<hostVars, rec, xp, peers, control, calls, heard>>

\* The module's host callbacks have drained; transport.stop begins.
StopDrained(c) ==
    LET f == ops[c].f IN
    /\ ops[c].pc = "drain"
    /\ xp[f].drained
    /\ At(c, "lock")
    /\ UNCHANGED <<hostVars, rec, xp, peers, control, calls, heard>>

\* ModuleTransport::stop with the lifecycle lock: it requests the cleanup and
\* hands the lock to the job it submits.
StopLocked(c) ==
    LET f == ops[c].f
        r == Requested(CommitTerminal(xp[f], FALSE))
        mine == r.cleanup = "Requested" /\ r.job = "none"
        handoff == ~r.faulted /\ r.cleanup = "Requested" /\ (mine \/ r.init = "Scheduled")
    IN
    /\ ops[c].pc = "lock"
    /\ xp[f].lock = "free" /\ ~xp[f].stopped
    /\ xp' = [xp EXCEPT ![f] =
          IF mine /\ r.init = "Deferred" THEN [Canceled(r) EXCEPT !.spawned = handoff]
          ELSE [r EXCEPT !.job = IF mine THEN "cleanup" ELSE @,
                         !.lock = IF mine THEN "worker" ELSE @,
                         !.spawned = @ \/ handoff]]
    /\ At(c, "wait")
    /\ UNCHANGED <<hostVars, rec, peers, control, calls, heard>>

\* What a stop records when it succeeds ...
Stopped(f) == IF xp[f].initFailed THEN "failed" ELSE IF xp[f].faulted THEN "faulted" ELSE "stopped"

StopOk(c) ==
    LET f == ops[c].f IN
    /\ ops[c].pc = "wait"
    /\ xp[f].cleanup \in Final /\ (xp[f].cleanup = "Uncertain" => xp[f].code)
    /\ rec' = [rec EXCEPT ![f].info = Stopped(f)]
    /\ At(c, "drop")
    /\ UNCHANGED <<hostVars, xp, peers, control, calls, heard>>

Forgotten_Always(f) == [rec[f] EXCEPT !.from = NONE]

\* ... and the transition it gives up, unless the physical stop has begun.
Forgotten(f) == IF xp[f].spawned THEN rec[f] ELSE [rec[f] EXCEPT !.from = NONE]

\* stop_inner fails: the callbacks did not drain, the module had stopped, its
\* cleanup is uncertain, or the deadline passed.
StopFails(c) ==
    LET f == ops[c].f IN
    /\ ops[c].pc \in {"drain", "lock", "wait"}
    /\ ops[c].pc = "drain" => ~xp[f].drained
    /\ rec' = [rec EXCEPT ![f] = IF ops[c].pc = "drain" THEN [@ EXCEPT !.from = NONE]
                                 ELSE Forgotten(f)]
    /\ At(c, "drop")
    /\ UNCHANGED <<hostVars, xp, peers, control, calls, heard>>

\* reinitialize: a ready module, or one whose initialiser has not run.
ReinitRefused_Busy(f) ==
    /\ Snapshot(f) # "ready"
    /\ Snapshot(f) # "resolved" \/ Dead(xp[f]) \/ xp[f].init # "Deferred" \/ xp[f].cleanup # "Idle"

ReinitRefused(f) ==
    \/ rec[f].busy
    \/ /\ Snapshot(f) # "ready"
       /\ Snapshot(f) # "resolved" \/ Dead(xp[f]) \/ xp[f].init # "Deferred" \/ xp[f].cleanup # "Idle"

ReinitializeModule(c, f) ==
    /\ Calls(c, f)
    /\ IF ReinitRefused(f) THEN Over(c) /\ UNCHANGED rec
       ELSE Goes(c, "reinit", f) /\ rec' = [rec EXCEPT ![f].busy = TRUE]
    /\ UNCHANGED <<hostVars, xp, peers, control, heard>>

\* ModuleTransport::reinitialize: the native callback keeps the lock until it
\* returns, whether or not its caller still waits.
ReinitEnter(c) ==
    LET f == ops[c].f IN
    /\ ops[c].pc = "reinit"
    /\ xp[f].lock = "free" /\ IsReady(xp[f]) /\ ~Dead(xp[f])
    /\ xp' = [xp EXCEPT ![f].lock = "reinit"]
    /\ At(c, "native")
    /\ UNCHANGED <<hostVars, rec, peers, control, calls, heard>>

ReinitReturns(f) ==
    /\ xp[f].lock = "reinit"
    /\ xp' = [xp EXCEPT ![f].lock = "free"]
    /\ ops' = [c \in Actors |-> IF ops[c].pc = "native" /\ ops[c].f = f
                                THEN [ops[c] EXCEPT !.pc = "drop"] ELSE ops[c]]
    /\ UNCHANGED <<hostVars, rec, peers, control, calls, heard>>

\* The operation's future is dropped, reinitialize's deadline passes or its
\* module is gone, or the operation has settled: the guard releases the claim.
GuardDrop(c) ==
    LET f == ops[c].f IN
    /\ ops[c].pc \in Held
    /\ rec' = [rec EXCEPT ![f] = [(IF ops[c].pc \in {"reinit", "native"} THEN rec[f]
                                   ELSE Forgotten(f)) EXCEPT !.busy = FALSE]]
    /\ Over(c)
    /\ UNCHANGED <<hostVars, xp, peers, control, calls, heard>>

\* native_lifecycle_pending.
LifecyclePending(x) == x.lock = "reinit" \/ (x.closed /\ ~x.stopped) \/ x.job # "none"

EnableRefused_Pending(f) == rec[f].busy \/ LifecyclePending(xp[f])

EnableRefused(f) == rec[f].busy \/ LifecyclePending(xp[f]) \/ Snapshot(f) \in Terminal

EnableModule(c, f, enabled) ==
    LET info == IF ~enabled THEN "disabled" ELSE IF IsReady(xp[f]) THEN "ready" ELSE "resolved"
        new == ListedAs(info, xp[f])
    IN
    /\ Calls(c, f)
    /\ ~EnableRefused(f)
    /\ rec' = [rec EXCEPT ![f].info = info]
    /\ heard' = IF new = Snapshot(f) THEN heard ELSE [heard EXCEPT ![f] = @ \cup {new}]
    /\ UNCHANGED <<hostVars, xp, peers, control, ops>>

-----------------------------------------------------------------------------
(* The peer of a module that closed its way back: the broker's reader      *)
(* detaches it from the router, and then tells the host.                   *)

PeerGone(f) ==
    /\ f \in Loaded /\ peers[f] = "attached" /\ ~xp[f].inbound
    /\ peers' = [peers EXCEPT ![f] = "gone"]
    /\ UNCHANGED <<hostVars, rec, xp, control, ops, calls, heard>>

Listed(f, state) ==
    /\ rec' = [rec EXCEPT ![f].info = state, ![f].from = IF xp[f].faulted THEN @ ELSE NONE]
    /\ heard' = [heard EXCEPT ![f] = @ \cup {state}]

PeerDetached_AnyStop(f) ==
    /\ peers[f] = "gone"
    /\ peers' = [peers EXCEPT ![f] = "detached"]
    /\ IF rec[f].from # NONE THEN Listed(f, "stopped")
       ELSE IF xp[f].faulted /\ rec[f].info \notin {"stopped", "disabled"}
       THEN Listed(f, Stopped(f))
       ELSE UNCHANGED <<rec, heard>>
    /\ UNCHANGED <<hostVars, xp, control, ops, calls>>

\* peer_detached: a remembered stop, or a fault, is recorded and announced.
PeerDetached(f) ==
    /\ peers[f] = "gone"
    /\ peers' = [peers EXCEPT ![f] = "detached"]
    /\ IF ~xp[f].faulted /\ rec[f].from # NONE THEN Listed(f, "stopped")
       ELSE IF xp[f].faulted /\ rec[f].info \notin {"stopped", "disabled"}
       THEN Listed(f, Stopped(f))
       ELSE UNCHANGED <<rec, heard>>
    /\ UNCHANGED <<hostVars, xp, control, ops, calls>>

-----------------------------------------------------------------------------
Worker(f) ==
    \/ Enter(f) \/ CleanupRuns(f)
    \/ \E ok \in BOOLEAN : Returned(f, ok) \/ CleanupEnds(f, ok)

Broker(f) == PeerGone(f) \/ PeerDetached(f)

Operation(c) ==
    \/ StopDrained(c) \/ StopLocked(c) \/ StopOk(c) \/ StopFails(c)
    \/ ReinitEnter(c) \/ GuardDrop(c)

Next ==
    \/ \E f \in Files :
        LoadCall(f) \/ LoadCheck(f) \/ LoadReserve(f) \/ LoadPublish(f)
    \/ \E f \in Files :
        \/ Announce(f) \/ Schedule(f) \/ Worker(f) \/ InitError(f)
        \/ HostReady(f) \/ HostFault(f) \/ CallbacksDrain(f)
        \/ ReinitReturns(f) \/ Broker(f)
    \/ \E c \in Callers : AttachController(c) \/ SelectController(c)
    \/ \E c \in Callers, f \in Files :
        \/ StopModule(c, f) \/ ReinitializeModule(c, f)
        \/ \E enabled \in BOOLEAN : EnableModule(c, f, enabled)
    \/ \E c \in Actors : Operation(c)
    \/ Shutdown \/ ShutdownNext \/ ShutdownStops \/ ShutdownClaims \/ ShutdownDeadline

\* Fairness: tasks and the worker's thread are scheduled, native callbacks
\* return, and host callbacks drain.
Fairness ==
    /\ \A f \in Files : WF_vars(Worker(f)) /\ WF_vars(Broker(f)) /\ WF_vars(CallbacksDrain(f))
    /\ \A f \in Files : WF_vars(ReinitReturns(f))
    /\ \A c \in Actors : WF_vars(Operation(c))

Spec == Init /\ [][Next]_vars

FairSpec == Spec /\ Fairness

-----------------------------------------------------------------------------
(* Properties.                                                             *)

HolderOf(f) == {c \in Actors : ops[c].pc \in Held /\ ops[c].f = f}

(* A module's lifecycle_busy is set exactly while one stop or reinitialize is
   between its claim and the drop of its guard, however operations overlap,
   fail or are cancelled (LifecycleBusyGuard). *)
LifecycleExclusive ==
    \A f \in Files :
        /\ rec[f].busy <=> HolderOf(f) # {}
        /\ \A c, d \in HolderOf(f) : c = d

(* A module listed as stopped has stopped physically: its shutdown returned
   or its initialiser never ran, also when a fault or the detaching of its
   peer overtakes the stop (stop_inner, peer_detached). *)
ListedStoppedIsOver ==
    \A f \in Loaded : rec[f].info = "stopped" => xp[f].stopped

(* What was decided is not decided again, in whatever order stops, faults,
   detaches and reloads come in: a module once listed as over, be it stopped,
   faulted or failed, is never listed as anything but one of the three again
   (snapshot, enable, peer_detached);
   and a restricted broker takes module control calls from one peer for ever,
   also while the selection is being made (attach_module_controller). *)
DecisionsStick ==
    [][/\ \A f \in Loaded : Snapshot(f) \in Terminal => Snapshot(f)' \in Terminal
       /\ control \in Callers => control' = control]_vars

(* A stop that reached the physical worker is announced and listed in the
   end, even if its caller ran out of time and other stops were refused or
   timed out meanwhile, unless the module faults (stop_task_spawned). *)
StopAnnounced ==
    \A f \in Files : (f \in Loaded /\ xp[f].spawned) ~> (xp[f].faulted \/ "stopped" \in heard[f])

=============================================================================
