--------------------------- MODULE ModuleTransport ---------------------------
(***************************************************************************)
(* The broker-facing side of one native module (module/transport.rs): the  *)
(* initialisation gate, the deferred initialiser and its deadline, calls   *)
(* queued until the module is ready, the reservations that cover every     *)
(* callback into the module, reconfiguration, and the one physical worker  *)
(* that runs the initialiser and the shutdown callback.                    *)
(*                                                                         *)
(* t is the transport and its HostContext; the tasks and threads around it *)
(* are the broker's writer (sending), the drainer of queued calls, the     *)
(* physical worker, callers of stop, one reconfiguration, and the module.  *)
(* A deadline may pass at any moment; native code may return any result.   *)
(***************************************************************************)
EXTENDS Naturals, Sequences, FiniteSets

CONSTANTS
    Kinds,      \* the messages the broker sends, in order: call, early, signal
    Stoppers,   \* tasks that may call stop
    Modes,      \* subset of {"deferred", "eager"}: how the module is loaded
    Reinit      \* whether a reconfiguration is attempted

ASSUME TransportAssumption ==
    /\ Kinds \in Seq({"call", "early", "signal"})
    /\ Modes \subseteq {"deferred", "eager"}
    /\ Reinit \in BOOLEAN

Msgs == 1..Len(Kinds)

VARIABLES
    t,          \* ModuleTransport, HostContext and PhysicalState
    sending,    \* the broker's writer inside Transport::send
    drain,      \* the drain_pending task
    worker,     \* the physical worker thread
    stops,      \* stopper -> where its stop call is
    reinit      \* the reinitialize call and the native callback it started

vars == <<t, sending, drain, worker, stops, reinit>>

Final == {"Complete", "Uncertain", "NoCallbackRequired"}

NewTransport(mode, gate, hostWork) ==
    [mode |-> mode, gate |-> gate, hostWork |-> hostWork,
     faulted |-> FALSE, stopIntent |-> FALSE, halted |-> FALSE,
     closed |-> FALSE, stopped |-> FALSE, ready |-> FALSE, initFailed |-> FALSE,
     inbound |-> TRUE, module |-> FALSE, bound |-> TRUE,
     init |-> "Deferred", cleanup |-> "Idle", job |-> "none", result |-> "none",
     jobFaults |-> FALSE, loader |-> "none", lock |-> "free", active |-> {}, pending |-> <<>>, inflight |-> 0,
     shutdowns |-> 0, fate |-> [m \in Msgs |-> "unsent"]]

Init ==
    /\ \E mode \in Modes, paused \in BOOLEAN :
        /\ mode = "eager" => ~paused
        /\ t = NewTransport(mode, IF paused THEN "paused" ELSE "open", paused)
    /\ sending = [pc |-> "idle", msg |-> 0, initiating |-> FALSE]
    /\ drain = [pc |-> "off", msg |-> 0]
    /\ worker = "none"
    /\ stops = [s \in Stoppers |-> [pc |-> "idle", handoff |-> FALSE]]
    /\ reinit = [pc |-> IF Reinit THEN "idle" ELSE "over", native |-> FALSE]

Range(q) == {q[i] : i \in 1..Len(q)}

IsCall(m) == Kinds[m] # "signal"

\* is_ready.
IsReady == t.ready /\ ~t.faulted /\ ~t.stopped

Dead == t.faulted \/ t.closed

\* An eagerly loaded module joins the bus after its initialiser returned.
Visible == t.mode = "eager" => t.result = "ok"

-----------------------------------------------------------------------------
(* The terminal transitions.                                               *)

Fated(x, S, f) == [x EXCEPT !.fate = [m \in Msgs |-> IF m \in S THEN f ELSE @[m]]]

\* publish_terminal_flags: the flags only ever accumulate.
PublishFlags(x, fault) == [x EXCEPT !.faulted = @ \/ fault, !.stopIntent = TRUE]

\* close_admission: the gate, the queue and the callback reservations close
\* together, and what was queued is discarded.
CloseAdmission(x) ==
    [Fated(x, Range(x.pending), "discarded") EXCEPT !.closed = TRUE, !.pending = <<>>]

\* commit_terminal.
CommitTerminal(x, fault) == CloseAdmission(PublishFlags(x, fault))

\* finish_stop.
FinishStop(x) == [x EXCEPT !.stopped = TRUE, !.inbound = FALSE]

Requested(x) == IF x.cleanup = "Idle" THEN [x EXCEPT !.cleanup = "Requested"] ELSE x

NeedsJob(x) == x.job = "none" /\ x.cleanup = "Requested"

\* A module whose initialiser never ran needs no shutdown callback.
Canceled(x) ==
    FinishStop([x EXCEPT !.init = "CanceledBeforeEntry", !.job = "none",
                         !.cleanup = "NoCallbackRequired", !.result = "closed"])

\* request_terminal: an existing job will see the request when it is done.
RequestTerminal(x, fault) ==
    LET r == Requested(CommitTerminal(x, fault))
    IN  IF ~NeedsJob(r) THEN r
        ELSE IF r.init = "Deferred" THEN Canceled(r)
        ELSE [r EXCEPT !.job = "cleanup", !.jobFaults = fault]

\* The worker a step has submitted, if it created a job (submit_job).
Submitted(x) == IF t.job = "none" /\ x.job # "none" THEN "submitted" ELSE worker

Become(x) == t' = x /\ worker' = Submitted(x)

\* release_initialization, and terminate_waiters when admission failed.
ReleaseInitialization(allowed) ==
    /\ t.gate = "paused"
    /\ IF allowed THEN Become([t EXCEPT !.gate = "open"])
       ELSE Become(RequestTerminal([t EXCEPT !.gate = "refused"], ~t.stopIntent \/ t.faulted))
    /\ UNCHANGED <<sending, drain, stops, reinit>>

-----------------------------------------------------------------------------
(* Transport::send, up to the delivery.                                    *)

SendStart ==
    /\ Visible /\ sending.pc = "idle"
    /\ sending.msg < Len(Kinds)
    /\ LET m == sending.msg + 1 IN
        /\ sending' = [pc |-> IF t.closed THEN "idle" ELSE "gate", msg |-> m,
                       initiating |-> FALSE]
        /\ t' = IF t.closed THEN Fated(t, {m}, "refused") ELSE t
    /\ UNCHANGED <<drain, worker, stops, reinit>>

\* send when ensure_initialized failed: an ordinary closure is passed on;
\* anything else faults the module, and a call gets its error as a reply.
InitError(x, closure) ==
    LET m == sending.msg
        f == IF IsCall(m) /\ x.inbound THEN "replied" ELSE "refused"
        y == [PublishFlags(x, TRUE) EXCEPT !.initFailed = TRUE,
                                           !.inbound = @ /\ ~IsCall(m)]
    IN  IF x.closed /\ closure THEN Fated(x, {m}, "refused")
        ELSE RequestTerminal(Fated(y, {m}, f), TRUE)

\* ensure_initialized: the gate, and schedule_initializer for the first
\* message, which makes its waiter the initiating one.
SendGate ==
    LET first == t.init = "Deferred" /\ t.result = "none" IN
    /\ sending.pc = "gate"
    /\ \/ /\ Dead \/ t.gate = "refused"
          /\ Become(InitError(t, Dead))
          /\ sending' = [sending EXCEPT !.pc = "idle"]
       \/ /\ ~Dead /\ t.gate = "open"
          /\ Become(IF first THEN [t EXCEPT !.init = "Scheduled", !.job = "init",
                                                !.jobFaults = TRUE] ELSE t)
          /\ sending' = [sending EXCEPT !.pc = "init", !.initiating = first]
    /\ UNCHANGED <<drain, stops, reinit>>

\* ensure_initialized: the published result.
SendInitialized ==
    /\ sending.pc = "init"
    /\ t.result # "none"
    /\ IF t.result = "ok" /\ ~Dead
       THEN sending' = [sending EXCEPT !.pc = "route"] /\ UNCHANGED <<t, worker>>
       ELSE /\ Become(InitError(t, t.result # "failed"))
            /\ sending' = [sending EXCEPT !.pc = "idle"]
    /\ UNCHANGED <<drain, stops, reinit>>

\* abandon_initialization: the initiating waiter's deadline faults the module
\* unless a result or a terminal cause was published first.
Abandon(x) ==
    IF x.result # "none" \/ x.stopIntent THEN x
    ELSE RequestTerminal(Requested(PublishFlags(x, TRUE)), TRUE)

SendDeadline ==
    /\ sending.pc = "init"
    /\ t.result = "none"
    /\ Become(InitError(IF sending.initiating THEN Abandon(t) ELSE t, FALSE))
    /\ sending' = [sending EXCEPT !.pc = "idle"]
    /\ UNCHANGED <<drain, stops, reinit>>

\* authorized_pre_ready_peer: the controller's confidential call may enter
\* while the module initialises.
Authorised(m) ==
    /\ Kinds[m] = "early"
    /\ ~t.ready /\ ~Dead /\ ~t.initFailed /\ ~t.stopped /\ ~t.stopIntent /\ t.bound

\* send: a call waits in the queue until the module is ready, with one
\* drainer; everything else is delivered now.
SendRoute ==
    LET m == sending.msg
        counted == IF IsCall(m) THEN [t EXCEPT !.inflight = @ + 1] ELSE t
    IN
    /\ sending.pc = "route"
    /\ \/ /\ t.closed
          /\ t' = Fated(t, {m}, "refused")
          /\ sending' = [sending EXCEPT !.pc = "idle"]
          /\ UNCHANGED drain
       \/ /\ ~t.closed /\ IsCall(m) /\ ~IsReady /\ ~Authorised(m)
          /\ t' = [Fated(counted, {m}, "queued") EXCEPT !.pending = Append(@, m)]
          /\ sending' = [sending EXCEPT !.pc = "idle"]
          /\ drain' = IF drain.pc = "off" THEN [pc |-> "wait", msg |-> 0] ELSE drain
       \/ /\ ~t.closed /\ (IsCall(m) => IsReady \/ Authorised(m))
          /\ t' = counted
          /\ sending' = [sending EXCEPT !.pc = "check"]
          /\ UNCHANGED drain
    /\ UNCHANGED <<worker, stops, reinit>>

-----------------------------------------------------------------------------
(* deliver_now, run by the writer ("send") and by the drainer ("drain").   *)

At(w) == IF w = "send" THEN sending.pc ELSE drain.pc

Msg(w) == IF w = "send" THEN sending.msg ELSE drain.msg

Go(w, pc) ==
    /\ sending' = IF w = "send" THEN [sending EXCEPT !.pc = pc] ELSE sending
    /\ drain' = IF w = "drain" THEN [drain EXCEPT !.pc = pc] ELSE drain

FaultPending_AnyClosure(x, m, closure) ==
    LET lost == Range(x.pending) \cup {m}
    IN  [RequestTerminal(Fated([x EXCEPT !.pending = <<>>], lost, "replied"), TRUE)
            EXCEPT !.inbound = FALSE]

\* fault_pending: the queued calls and the one that failed are answered, if
\* the way back to the broker is still open, and the module is faulted.
FaultPending(x, m, closure) ==
    LET lost == Range(x.pending) \cup {m}
        calls == {c \in lost : IsCall(c)}
        y == [PublishFlags(x, TRUE) EXCEPT !.pending = <<>>]
        z == IF x.inbound
             THEN [Fated(y, calls, "replied") EXCEPT !.inflight = @ - Cardinality(calls)]
             ELSE Fated(y, lost, "unanswered")
    IN  IF x.closed /\ closure
        THEN Fated([x EXCEPT !.pending = <<>>], lost, "discarded")
        ELSE [RequestTerminal(z, TRUE) EXCEPT !.inbound = FALSE]

\* A delivery failed: the writer reports it, the drainer faults the module.
Failed(w, x, closure) ==
    LET m == Msg(w) IN
    IF w = "send"
    THEN Become(Fated([x EXCEPT !.inflight = IF IsCall(m) THEN @ - 1 ELSE @], {m}, "refused"))
         /\ Go(w, "idle")
    ELSE Become(FaultPending(x, m, closure)) /\ Go(w, "off")

\* Before each attempt: the transport is live and a reservation is taken; a
\* call that skipped the queue needs its controller's binding still.
DeliverEnter(w) ==
    /\ At(w) = "check"
    /\ IF Dead \/ ~t.module \/ (Kinds[Msg(w)] = "early" /\ ~t.ready /\ ~t.bound)
       THEN Failed(w, t, TRUE)
       ELSE /\ t' = [t EXCEPT !.active = @ \cup {w}]
            /\ Go(w, "native")
            /\ UNCHANGED worker
    /\ UNCHANGED <<stops, reinit>>

\* The deliver callback returns and the reservation is dropped.
DeliverReturn(w, code) ==
    LET x == [t EXCEPT !.active = @ \ {w}] IN
    /\ At(w) = "native"
    /\ \/ /\ code = "OK"
          /\ t' = Fated(x, {Msg(w)}, "delivered")
          /\ Go(w, IF w = "send" THEN "idle" ELSE "loop")
          /\ UNCHANGED worker
       \/ /\ code = "BACKPRESSURE" /\ ~t.closed
          /\ t' = x
          /\ Go(w, "parked")
          /\ UNCHANGED worker
       \/ /\ code = "CLOSED" \/ (code = "BACKPRESSURE" /\ t.closed)
          /\ Failed(w, x, TRUE)
       \/ /\ code = "BAD"
          /\ Failed(w, x, FALSE)
    /\ UNCHANGED <<stops, reinit>>

\* A delivery waiting for room is woken by the module or by closing.
DeliverWoken(w) ==
    /\ At(w) = "parked"
    /\ Go(w, "check")
    /\ UNCHANGED <<t, worker, stops, reinit>>

\* BACKPRESSURE_DEADLINE: the module stopped draining its queue.
DeliverDeadline(w) ==
    /\ At(w) = "parked"
    /\ IF t.closed THEN Failed(w, t, TRUE)
       ELSE Failed(w, [RequestTerminal(t, TRUE) EXCEPT !.inbound = FALSE], FALSE)
    /\ UNCHANGED <<stops, reinit>>

\* drain_pending: wait_ready, then the head of the queue; the drainer ends
\* only when the queue is empty under its lock, or the transport is dead.
DrainReady ==
    /\ drain.pc = "wait"
    /\ t.ready \/ Dead
    /\ drain' = [drain EXCEPT !.pc = "loop"]
    /\ UNCHANGED <<t, sending, worker, stops, reinit>>

DrainNext_OneShot ==
    /\ drain.pc = "loop"
    /\ IF Dead \/ t.pending = <<>> \/ drain.msg # 0
       THEN drain' = [pc |-> "off", msg |-> 0] /\ UNCHANGED t
       ELSE /\ drain' = [pc |-> "check", msg |-> Head(t.pending)]
            /\ t' = [t EXCEPT !.pending = Tail(@)]
    /\ UNCHANGED <<sending, worker, stops, reinit>>

DrainNext ==
    /\ drain.pc = "loop"
    /\ IF Dead \/ t.pending = <<>>
       THEN drain' = [pc |-> "off", msg |-> 0] /\ UNCHANGED t
       ELSE /\ drain' = [pc |-> "check", msg |-> Head(t.pending)]
            /\ t' = [t EXCEPT !.pending = Tail(@)]
    /\ UNCHANGED <<sending, worker, stops, reinit>>

-----------------------------------------------------------------------------
(* PhysicalJob::run and the eager initialiser.                             *)

\* The thread could not be spawned.
SpawnFails ==
    /\ worker = "submitted"
    /\ t' = [CommitTerminal(t, t.jobFaults) EXCEPT
               !.cleanup = "Uncertain", !.result = IF @ = "none" THEN "failed" ELSE @]
    /\ worker' = "none"
    /\ UNCHANGED <<sending, drain, stops, reinit>>

\* The worker takes the lifecycle lock and enters the initialiser, unless the
\* transport died first.
WorkerEnter ==
    /\ worker = "submitted" /\ t.job = "init"
    /\ t.lock = "free"
    /\ IF Dead THEN t' = Canceled(t) /\ worker' = "none"
       ELSE /\ t' = [t EXCEPT !.init = "Entered", !.lock = "worker"]
            /\ worker' = "initializing"
    /\ UNCHANGED <<sending, drain, stops, reinit>>

\* The initialiser returns a vtable, or fails or panics.
InitReturns(ok) ==
    /\ worker = "initializing"
    /\ t' = IF ok THEN [t EXCEPT !.module = TRUE] ELSE CommitTerminal(t, TRUE)
    /\ worker' = "returned"
    /\ UNCHANGED <<sending, drain, stops, reinit>>

FirstResult(r) == IF t.result = "none" THEN r ELSE t.result

\* The worker publishes what the initialiser returned and goes on to the
\* cleanup that was requested meanwhile.
InitPublished ==
    LET x == [t EXCEPT
          !.init = IF t.module THEN "PublishedValid" ELSE "PublishedRejected",
          !.result = FirstResult(IF t.module THEN "ok" ELSE "failed"),
          !.cleanup = IF t.module THEN @ ELSE "Uncertain",
          !.lock = "free"]
    IN
    /\ worker = "returned"
    /\ t' = IF x.cleanup = "Idle" THEN [x EXCEPT !.job = "none"] ELSE x
    /\ worker' = IF x.cleanup = "Requested" THEN "cleanup" ELSE "none"
    /\ UNCHANGED <<sending, drain, stops, reinit>>

\* eager_initialize_with: the loader's thread runs the initialiser itself,
\* before anyone else sees the transport.
EagerEnter ==
    /\ t.mode = "eager" /\ t.init = "Deferred"
    /\ t' = [t EXCEPT !.init = "Entered", !.lock = "eager", !.loader = "inside"]
    /\ UNCHANGED <<sending, drain, worker, stops, reinit>>

EagerReturns(ok) ==
    /\ t.loader = "inside"
    /\ t' = [t EXCEPT !.module = ok, !.loader = "returned"]
    /\ UNCHANGED <<sending, drain, worker, stops, reinit>>

\* A fault raised inside an eager initialiser has submitted the cleanup
\* worker already, which waits for this publication; a failed one keeps an
\* unsubmitted job as the owner of what may still run.
EagerPublished ==
    LET x == [t EXCEPT !.init = IF t.module THEN "ExternalValid" ELSE "PublishedRejected",
                       !.result = FirstResult(IF t.module THEN "ok" ELSE "failed"),
                       !.lock = "free", !.loader = "none"]
    IN
    /\ t.loader = "returned"
    /\ t' = IF t.module THEN x
            ELSE CommitTerminal([x EXCEPT !.cleanup = "Uncertain", !.job = "cleanup"], TRUE)
    /\ UNCHANGED <<sending, drain, worker, stops, reinit>>

\* A cleanup job waits for a running initialiser and for the host callbacks
\* of the module, giving the lifecycle lock back if it was handed one.
CleanupStart ==
    /\ worker = "submitted" /\ t.job = "cleanup"
    /\ t.init \in {"Scheduled", "Entered"} => t.result # "none"
    /\ worker' = "cleanup"
    /\ t' = IF t.lock = "worker" /\ t.hostWork THEN [t EXCEPT !.lock = "free"] ELSE t
    /\ UNCHANGED <<sending, drain, stops, reinit>>

\* The lifecycle lock, and what there is to clean up.
CleanupLock ==
    /\ worker = "cleanup"
    /\ ~t.hostWork
    /\ t.lock \in {"free", "worker"}
    /\ \/ /\ t.cleanup # "Requested"
          /\ t' = [t EXCEPT !.lock = "free"]
          /\ worker' = "none"
       \/ /\ t.cleanup = "Requested"
          /\ t.init \in {"Deferred", "CanceledBeforeEntry"}
          /\ t' = Canceled([t EXCEPT !.lock = "free"])
          /\ worker' = "none"
       \/ /\ t.cleanup = "Requested"
          /\ t.init \notin {"Deferred", "CanceledBeforeEntry"}
          /\ ~t.module
          /\ t' = [t EXCEPT !.lock = "free", !.cleanup = "Uncertain"]
          /\ worker' = "none"
       \/ /\ t.cleanup = "Requested"
          /\ t.init \notin {"Deferred", "CanceledBeforeEntry"}
          /\ t.module
          /\ t' = [CloseAdmission(t) EXCEPT !.lock = "worker", !.cleanup = "Executing"]
          /\ worker' = "executing"
    /\ UNCHANGED <<sending, drain, stops, reinit>>

ShutdownEnter_Undrained ==
    /\ worker = "executing"
    /\ t' = [t EXCEPT !.shutdowns = @ + 1]
    /\ worker' = "shutdown"
    /\ UNCHANGED <<sending, drain, stops, reinit>>

\* stop_sync: every callback reservation is drained before shutdown enters.
ShutdownEnter ==
    /\ worker = "executing"
    /\ t.active = {}
    /\ t' = [t EXCEPT !.shutdowns = @ + 1]
    /\ worker' = "shutdown"
    /\ UNCHANGED <<sending, drain, stops, reinit>>

\* shutdown returns: completion is published, then the lock released.
ShutdownReturns(ok) ==
    /\ worker = "shutdown"
    /\ t' = [FinishStop(t) EXCEPT !.halted = ok, !.lock = "free",
                                  !.cleanup = IF ok THEN "Complete" ELSE "Uncertain",
                                  !.job = IF ok THEN "none" ELSE @]
    /\ worker' = "none"
    /\ UNCHANGED <<sending, drain, stops, reinit>>

-----------------------------------------------------------------------------
(* stop and reinitialize.                                                  *)

StopAt(s, pc) == stops' = [stops EXCEPT ![s].pc = pc]

StopCall(s) ==
    /\ Visible /\ stops[s].pc = "idle"
    /\ StopAt(s, IF t.stopped THEN "notStarted" ELSE "lock")
    /\ UNCHANGED <<t, sending, drain, worker, reinit>>

StopLocked_FinishesEarly(s) ==
    LET r == FinishStop(Requested(CommitTerminal(t, FALSE)))
        mine == NeedsJob(r)
    IN
    /\ stops[s].pc = "lock"
    /\ t.lock = "free"
    /\ Become(IF mine THEN [r EXCEPT !.job = "cleanup", !.lock = "worker"] ELSE r)
    /\ stops' = [stops EXCEPT ![s].pc = "wait"]
    /\ UNCHANGED <<sending, drain, reinit>>

\* stop with the lifecycle lock: close admission, request the cleanup, and
\* hand the lock to the job it creates; an existing job keeps ownership.
StopLocked(s) ==
    LET r == Requested(CommitTerminal(t, FALSE))
        mine == NeedsJob(r)
    IN
    /\ stops[s].pc = "lock"
    /\ t.lock = "free"
    /\ IF t.stopped THEN StopAt(s, "notStarted") /\ UNCHANGED <<t, worker>>
       ELSE /\ Become(IF mine THEN [r EXCEPT !.job = "cleanup", !.jobFaults = FALSE,
                                          !.lock = "worker"] ELSE r)
            /\ stops' = [stops EXCEPT ![s] =
                 [pc |-> "wait",
                  handoff |-> ~r.faulted /\ r.cleanup = "Requested"
                                /\ (mine \/ r.init = "Scheduled")]]
    /\ UNCHANGED <<sending, drain, reinit>>

StopDone(s) ==
    /\ stops[s].pc = "wait"
    /\ t.cleanup \in Final
    /\ StopAt(s, "done")
    /\ UNCHANGED <<t, sending, drain, worker, reinit>>

\* The deadline, or a dropped stop future: the worker keeps its job.
StopDeadline(s) ==
    /\ stops[s].pc \in {"lock", "wait"}
    /\ StopAt(s, IF stops[s].handoff THEN "started" ELSE "notStarted")
    /\ UNCHANGED <<t, sending, drain, worker, reinit>>

ReinitAt(pc) == reinit' = [reinit EXCEPT !.pc = pc]

ReinitCall ==
    /\ Visible /\ reinit.pc = "idle"
    /\ ReinitAt(IF t.closed THEN "over" ELSE "lock")
    /\ UNCHANGED <<t, sending, drain, worker, stops>>

\* reinitialize with the lifecycle lock: a deferred configuration is simply
\* replaced; a module on its way to ready is awaited without the lock.
ReinitLocked ==
    /\ reinit.pc = "lock"
    /\ t.lock = "free"
    /\ \/ /\ Dead \/ (t.init = "Deferred" /\ t.cleanup = "Idle")
             \/ (~t.module /\ t.init \notin {"Scheduled", "Entered"})
          /\ ReinitAt("over") /\ UNCHANGED t
       \/ /\ ~Dead /\ ~t.module /\ t.init \in {"Scheduled", "Entered"}
          /\ ReinitAt("awaitInit") /\ UNCHANGED t
       \/ /\ ~Dead /\ t.module /\ ~IsReady
          /\ ReinitAt("awaitReady") /\ UNCHANGED t
       \/ /\ ~Dead /\ t.module /\ IsReady
          /\ t' = [t EXCEPT !.lock = "reinit"]
          /\ reinit' = [pc |-> "native", native |-> TRUE]
    /\ UNCHANGED <<sending, drain, worker, stops>>

ReinitAwait ==
    /\ \/ reinit.pc = "awaitInit" /\ t.result # "none"
          /\ ReinitAt(IF t.result = "ok" /\ ~Dead THEN "lock" ELSE "over")
       \/ reinit.pc = "awaitReady" /\ (t.ready \/ Dead)
          /\ ReinitAt(IF IsReady THEN "lock" ELSE "over")
    /\ UNCHANGED <<t, sending, drain, worker, stops>>

\* The native callback returns; it owned the lock whether or not its caller
\* still waits.
ReinitReturns ==
    /\ reinit.native
    /\ reinit' = [pc |-> "over", native |-> FALSE]
    /\ t' = [t EXCEPT !.lock = "free"]
    /\ UNCHANGED <<sending, drain, worker, stops>>

ReinitDeadline ==
    /\ reinit.pc \in {"lock", "awaitInit", "awaitReady", "native"}
    /\ ReinitAt("over")
    /\ UNCHANGED <<t, sending, drain, worker, stops>>

-----------------------------------------------------------------------------
(* The module, and the host around the transport.                          *)

Running == t.module \/ worker = "initializing" \/ t.loader = "inside"

\* host_ready: closing wins over a late ready.
HostReady ==
    /\ Running /\ ~t.ready
    /\ ~t.closed
    /\ t' = [t EXCEPT !.ready = TRUE]
    /\ UNCHANGED <<sending, drain, worker, stops, reinit>>

\* host_fault.
HostFault ==
    /\ Running /\ ~t.faulted
    /\ Become(RequestTerminal([PublishFlags(t, TRUE) EXCEPT !.inbound = FALSE], TRUE))
    /\ UNCHANGED <<sending, drain, stops, reinit>>

\* host_send of a reply and recv, which refunds its call.
Answer(m) ==
    /\ t.fate[m] = "delivered" /\ IsCall(m)
    /\ t' = IF t.inbound
            THEN [Fated(t, {m}, "answered") EXCEPT !.inflight = IF @ = 0 THEN 0 ELSE @ - 1]
            ELSE Fated(t, {m}, "lost")
    /\ UNCHANGED <<sending, drain, worker, stops, reinit>>

\* The controller's binding dies; the module's host callbacks drain.
Unbind ==
    /\ t.bound
    /\ t' = [t EXCEPT !.bound = FALSE]
    /\ UNCHANGED <<sending, drain, worker, stops, reinit>>

HostWorkEnds ==
    /\ t.hostWork
    /\ t' = [t EXCEPT !.hostWork = FALSE]
    /\ UNCHANGED <<sending, drain, worker, stops, reinit>>

Deliver(w) ==
    \/ DeliverEnter(w)
    \/ \E code \in {"OK", "BACKPRESSURE", "CLOSED", "BAD"} : DeliverReturn(w, code)
    \/ DeliverWoken(w)
    \/ DeliverDeadline(w)

Work ==
    \/ WorkerEnter
    \/ \E ok \in BOOLEAN : InitReturns(ok) \/ EagerReturns(ok) \/ ShutdownReturns(ok)
    \/ InitPublished \/ EagerPublished
    \/ CleanupStart \/ CleanupLock \/ ShutdownEnter

Next ==
    \/ \E allowed \in BOOLEAN : ReleaseInitialization(allowed)
    \/ SendStart \/ SendGate \/ SendInitialized \/ SendDeadline \/ SendRoute
    \/ \E w \in {"send", "drain"} : Deliver(w)
    \/ DrainReady \/ DrainNext
    \/ EagerEnter \/ SpawnFails \/ Work
    \/ \E s \in Stoppers : StopCall(s) \/ StopLocked(s) \/ StopDone(s) \/ StopDeadline(s)
    \/ ReinitCall \/ ReinitLocked \/ ReinitAwait \/ ReinitReturns \/ ReinitDeadline
    \/ HostReady \/ HostFault \/ Unbind \/ HostWorkEnds
    \/ \E m \in Msgs : Answer(m)

\* Fairness: threads and ready tasks are scheduled, callbacks into the module
\* return, not for ever with backpressure, and host callbacks drain.
Fairness ==
    /\ WF_vars(Work) /\ WF_vars(ReinitReturns) /\ WF_vars(HostWorkEnds)
    /\ WF_vars(DrainReady \/ DrainNext)
    /\ WF_vars(Deliver("send")) /\ WF_vars(Deliver("drain"))
    /\ SF_vars(\E code \in {"OK", "CLOSED", "BAD"} : DeliverReturn("drain", code))

Spec == Init /\ [][Next]_vars

FairSpec == Spec /\ Fairness

-----------------------------------------------------------------------------
(* Properties.                                                             *)

(* The opaque shutdown callback never runs beside a deliver callback, a
   reconfiguration or the initialiser, whichever of stop's deadline, a fault
   or a late return comes first (CallbackGate, the lifecycle lock). *)
ShutdownAlone ==
    worker = "shutdown" =>
        /\ t.active = {}
        /\ ~reinit.native
        /\ t.loader = "none"
        /\ t.closed

(* shutdown is called at most once and only on a module whose initialiser
   returned a vtable, although faults, stops and deadlines each request it
   (the single PhysicalJob and CleanupState). *)
ShutdownOnce ==
    /\ t.shutdowns <= 1
    /\ t.shutdowns = 1 => t.module

(* The shutdown callback has the module to itself, once. *)
ShutdownOnceAlone == ShutdownAlone /\ ShutdownOnce

(* Physical completion is published only once no native code of the module
   can still be running for the host: the initialiser never ran, or shutdown
   has returned (finish_stop). *)
StoppedIsOver ==
    t.stopped =>
        /\ t.active = {} /\ ~reinit.native
        /\ \/ t.init = "CanceledBeforeEntry"
           \/ t.shutdowns = 1 /\ worker # "shutdown"

(* Closing for an ordinary stop does not turn into a fault on its own: after
   it, only the module, a failed initialiser or worker, or the deadline of
   the first caller can still publish one (AdmissionTermination, and the
   closure tests of send, deliver_now and fault_pending). *)
OrdinaryStopStays ==
    [][t.closed /\ ~t.faulted /\ t'.faulted =>
            \/ HostFault \/ SpawnFails \/ InitReturns(FALSE) \/ SendDeadline
            \/ DeliverReturn("drain", "BAD")]_vars

(* A call queued before readiness is taken up once the module is ready,
   although the push races the drainer's last look at the queue
   (drain_pending clears drain_started under the queue lock). *)
QueuedServed ==
    (t.pending # <<>> /\ t.ready) ~> (t.pending = <<>>)

=============================================================================
