---------------------------- MODULE NativeTerminal ----------------------------
(***************************************************************************)
(* A native module built with terminal_setup_factory, seen from inside the *)
(* module (crates/tinybus-module, terminal.rs and the terminal part of     *)
(* lib.rs): admission to the slot table, the start-up entry point, the     *)
(* setup task, reconfiguration, the three exported ABI calls, and the one  *)
(* physical worker that disposes of everything and runs the module's       *)
(* finish hook.                                                            *)
(*                                                                         *)
(* Every thread may have to signal a terminal reason; signalling commits   *)
(* the reason, runs the module's request hook at most once and schedules   *)
(* the worker, so it is modelled as a subroutine (sig) each thread may be  *)
(* in.  Module code (factory, hooks, setup futures and their drops) may    *)
(* return anything the code distinguishes, panics included.                *)
(***************************************************************************)
EXTENDS Naturals, FiniteSets

CONSTANTS
    Instances,      \* incarnations of native modules, numbered from 1
    Slots,          \* entries of the admission table (INSTANCE_LIMIT)
    MaxReinits,     \* bound: reinitialize calls per instance
    MaxFaults       \* bound: panics, failed spawns and host faults per instance

ASSUME TerminalAssumption ==
    /\ Instances \subseteq Nat \ {0} /\ "none" \notin Slots
    /\ MaxReinits \in Nat /\ MaxFaults \in Nat

Threads == {"entry", "task", "worker", "stop", "reinit", "deliver", "module"}

VARIABLES
    slots,          \* Admission: slot -> reserved?, anchored instance
    st,             \* instance -> TerminalState, Control and StartupResources
    pc,             \* instance -> thread -> where it is
    sig,            \* instance -> thread -> where it is inside signal()
    host            \* instance -> native_terminal_state of the host

vars == <<slots, st, pc, sig, host>>

None == 0
Fresh ==
    [slot |-> "none", reason |-> "live", uncertain |-> FALSE,
     request |-> "Unregistered", finish |-> "Idle", published |-> FALSE,
     completion |-> "none", activeReinit |-> FALSE, op |-> "none",
     pending |-> FALSE, code |-> "CLOSED", retirementFailed |-> FALSE,
     vtable |-> FALSE, res |-> {}, initial |-> "none", aborted |-> FALSE,
     reinits |-> 0, faults |-> 0, requests |-> 0, finishes |-> 0,
     completed |-> "none", disposalFailed |-> FALSE, released |-> FALSE]

Init ==
    /\ slots = [k \in Slots |-> [reserved |-> FALSE, anchor |-> None]]
    /\ st = [i \in Instances |-> Fresh]
    /\ pc = [i \in Instances |-> [t \in Threads |-> "idle"]]
    /\ sig = [i \in Instances |-> [t \in Threads |-> "none"]]
    /\ host = [i \in Instances |-> "live"]

--------------------------------------------------------------------------
(* State changes under the control lock, as functions of an instance's     *)
(* record.                                                                 *)

Terminal(i) == st[i].reason # "live"
IsFault(r) == r \in {"Fault", "SetupFailed"}
HasFault(i) == IsFault(st[i].reason)

\* commit: the first reason stays, except that a fault replaces a stop.
Commit(s, r) ==
    IF s.reason = "live" \/ (~IsFault(s.reason) /\ IsFault(r))
    THEN [s EXCEPT !.reason = r] ELSE s

\* record_uncertain_locked, on the record; Anchored is its effect on the slot.
Doubt(s) ==
    [s EXCEPT !.uncertain = TRUE,
              !.completion = IF @ = "PhysicallyStopped" THEN "Uncertain" ELSE @]

Anchored(i) ==
    [slots EXCEPT ![st[i].slot].anchor = IF @ = None THEN i ELSE @]

\* host.fault() of a fault reason reaches the host before the commit.
Told(i, r) ==
    host' = IF IsFault(r) THEN [host EXCEPT ![i] = "fault"] ELSE host

At(i, t, p) == pc[i][t] = p /\ sig[i][t] = "none"
Goto(i, t, p) == pc' = [pc EXCEPT ![i][t] = p]
Set(i, s) == st' = [st EXCEPT ![i] = s]

\* Continue at p with the new record s; nothing is signalled.
Step(i, t, p, s) ==
    /\ Goto(i, t, p)
    /\ Set(i, s)
    /\ UNCHANGED <<slots, sig, host>>

\* With the request hook claimed and the worker scheduled, the rest of
\* signal() does nothing.
Signalled(s) ==
    IF s.request \in {"Running", "Done", "Panicked"} /\ s.finish # "Idle"
    THEN "none" ELSE "request"

\* signal(r), then continue at p.
Signal(i, t, p, s, r) ==
    /\ Goto(i, t, p)
    /\ Set(i, Commit(s, r))
    /\ Told(i, r)
    /\ sig' = [sig EXCEPT ![i][t] = Signalled(st[i])]
    /\ UNCHANGED slots

\* source_panic, then continue at p: a fault whose outcome stays uncertain.
SourcePanic(i, t, p, s) ==
    /\ Goto(i, t, p)
    /\ Set(i, Doubt(Commit(s, "Fault")))
    /\ Told(i, "Fault")
    /\ slots' = Anchored(i)
    /\ sig' = [sig EXCEPT ![i][t] = Signalled(st[i])]

\* Module code panics here, within the bound on faults.
Panics(i, t, p, s) ==
    /\ s.faults < MaxFaults
    /\ SourcePanic(i, t, p, [s EXCEPT !.faults = @ + 1])

\* is_live: terminal already, or the host's flags say so and are signalled.
Observed(i) == IF host[i] = "fault" THEN "Fault" ELSE "Stop"
LiveElse(i, t, yes, no) ==
    \/ Terminal(i) /\ Step(i, t, no, st[i])
    \/ ~Terminal(i) /\ host[i] = "live" /\ Step(i, t, yes, st[i])
    \/ ~Terminal(i) /\ host[i] # "live" /\ Signal(i, t, no, st[i], Observed(i))

\* observe_host: the host's flags are signalled even when already terminal.
ObserveHost(i, t, p) ==
    IF host[i] = "live" THEN Step(i, t, p, st[i])
                        ELSE Signal(i, t, p, st[i], Observed(i))

--------------------------------------------------------------------------
(* Inside signal().                                                        *)

\* run_request: the hook is claimed by one thread only.
RunRequest(i, t) ==
    /\ sig[i][t] = "request"
    /\ IF st[i].request = "Idle"
       THEN /\ Set(i, [st[i] EXCEPT !.request = "Running", !.requests = @ + 1])
            /\ sig' = [sig EXCEPT ![i][t] = "hook"]
       ELSE /\ sig' = [sig EXCEPT ![i][t] = "schedule"]
            /\ UNCHANGED st
    /\ UNCHANGED <<slots, pc, host>>

RequestReturns(i, t) ==
    /\ sig[i][t] = "hook"
    /\ sig' = [sig EXCEPT ![i][t] = "schedule"]
    /\ \/ /\ Set(i, [st[i] EXCEPT !.request = "Done"])
          /\ UNCHANGED <<slots, host>>
       \/ /\ st[i].faults < MaxFaults
          /\ Set(i, [Doubt(Commit(st[i], "Fault")) EXCEPT
                        !.request = "Panicked", !.faults = @ + 1])
          /\ Told(i, "Fault")
          /\ slots' = Anchored(i)
    /\ UNCHANGED pc

\* schedule: the worker is spawned once; a failed spawn is a fault nobody
\* will ever clean up after, and runs the request hook itself.
Schedule(i, t) ==
    /\ sig[i][t] = "schedule"
    /\ \/ /\ st[i].finish # "Idle"
          /\ sig' = [sig EXCEPT ![i][t] = "none"]
          /\ UNCHANGED <<slots, st, pc, host>>
       \/ /\ st[i].finish = "Idle"
          /\ sig' = [sig EXCEPT ![i][t] = "none"]
          /\ Set(i, [st[i] EXCEPT !.finish = "Submitted"])
          /\ Goto(i, "worker", "loop")
          /\ UNCHANGED <<slots, host>>
       \/ /\ st[i].finish = "Idle" /\ st[i].faults < MaxFaults
          /\ sig' = [sig EXCEPT ![i][t] = "request"]
          /\ Set(i, [Doubt(Commit(st[i], "Fault")) EXCEPT !.faults = @ + 1,
                        !.finish = "SpawnFailed", !.completion = "Uncertain"])
          /\ Told(i, "Fault")
          /\ slots' = Anchored(i)
          /\ UNCHANGED pc

--------------------------------------------------------------------------
(* start_terminal_factory_mode, on the host's thread.                      *)

\* The first slot that is free is reserved and anchors the instance.
Admit(i) ==
    /\ At(i, "entry", "idle")
    /\ \/ /\ host[i] = "live"
          /\ \E k \in Slots :
                /\ ~slots[k].reserved
                /\ slots' = [slots EXCEPT ![k] = [reserved |-> TRUE, anchor |-> i]]
                /\ Set(i, [st[i] EXCEPT !.slot = k])
          /\ Goto(i, "entry", "config")
       \/ /\ host[i] # "live" \/ \A k \in Slots : slots[k].reserved
          /\ Goto(i, "entry", "refused")
          /\ UNCHANGED <<slots, st>>
    /\ UNCHANGED <<sig, host>>

\* A configuration that does not parse fails before anything is owned; a
\* deserializer that panics is a fault like any other.
ParseConfig(i) ==
    /\ At(i, "entry", "config")
    /\ \/ Step(i, "entry", "factory", [st[i] EXCEPT !.res = {"config"}])
       \/ /\ Goto(i, "entry", "refused")
          /\ Set(i, Commit(st[i], "SetupFailed"))
          /\ slots' = [slots EXCEPT ![st[i].slot].anchor = None]
          /\ UNCHANGED <<sig, host>>
       \/ Panics(i, "entry", "fail", st[i])

RunFactory(i) ==
    /\ At(i, "entry", "factory")
    /\ \/ Step(i, "entry", "register", [st[i] EXCEPT !.res = @ \cup {"factory"}])
       \/ Signal(i, "entry", "fail", st[i], "SetupFailed")
       \/ Panics(i, "entry", "fail", st[i])

\* register: hooks that arrive after the end was signalled run at once.
Register(i) ==
    /\ At(i, "entry", "register")
    /\ Goto(i, "entry", "live")
    /\ Set(i, [st[i] EXCEPT !.request = "Idle"])
    /\ sig' = IF Terminal(i) THEN [sig EXCEPT ![i]["entry"] = "request"] ELSE sig
    /\ UNCHANGED <<slots, host>>

EntryLive(i) == At(i, "entry", "live") /\ LiveElse(i, "entry", "runtime", "fail")

\* The runtime, transport and reconfiguration callback, then the setup task
\* and the exported vtable.
BuildRuntime(i) ==
    /\ At(i, "entry", "runtime")
    /\ \/ Step(i, "entry", "spawn",
               [st[i] EXCEPT !.res = (@ \ {"config"}) \cup
                    {"setup", "runtime", "inbound", "transport", "callback"}])
       \/ Signal(i, "entry", "fail", st[i], "SetupFailed")
       \/ Panics(i, "entry", "fail", st[i])

SpawnSetup(i) ==
    /\ At(i, "entry", "spawn")
    /\ pc' = [pc EXCEPT ![i]["entry"] = "publish", ![i]["task"] = "handshake"]
    /\ Set(i, [st[i] EXCEPT !.initial = "running", !.vtable = TRUE])
    /\ UNCHANGED <<slots, sig, host>>

EntryFail(i) ==
    /\ At(i, "entry", "fail")
    /\ IF Terminal(i) THEN Step(i, "entry", "publish", st[i])
       ELSE Signal(i, "entry", "publish", st[i], "SetupFailed")

\* publish: the worker may proceed; a terminal reason is acted on now.
Publish(i) ==
    /\ At(i, "entry", "publish")
    /\ Goto(i, "entry", "done")
    /\ Set(i, [st[i] EXCEPT !.published = TRUE])
    /\ sig' = IF Terminal(i) THEN [sig EXCEPT ![i]["entry"] = "request"] ELSE sig
    /\ UNCHANGED <<slots, host>>

--------------------------------------------------------------------------
(* The initial setup task.                                                 *)

TaskEnds(s, how) == [s EXCEPT !.initial = how]

Handshake(i) ==
    /\ At(i, "task", "handshake")
    /\ \/ Step(i, "task", "live", [st[i] EXCEPT !.res = @ \cup {"connection"}])
       \/ Signal(i, "task", "done", TaskEnds(st[i], "err"), "SetupFailed")
       \/ /\ st[i].faults < MaxFaults
          /\ Step(i, "task", "done", TaskEnds([st[i] EXCEPT !.faults = @ + 1], "panic"))

TaskLive(i) == At(i, "task", "live") /\ LiveElse(i, "task", "construct", "return")

ConstructSetup(i) ==
    /\ At(i, "task", "construct")
    /\ \/ Step(i, "task", "poll",
               [st[i] EXCEPT !.res = (@ \ {"setup"}) \cup {"initialFuture"}])
       \/ Panics(i, "task", "done", TaskEnds([st[i] EXCEPT !.res = @ \ {"setup"}], "err"))

\* TerminalSetupPoll: the future goes back to its slot whatever it returned.
PollSetup(i) ==
    /\ At(i, "task", "poll")
    /\ \/ Step(i, "task", "ready", st[i])
       \/ Signal(i, "task", "done", TaskEnds(st[i], "err"), "SetupFailed")
       \/ Panics(i, "task", "done", TaskEnds(st[i], "err"))

TaskReady(i) == At(i, "task", "ready") /\ LiveElse(i, "task", "announce", "return")

\* host.ready(), and the end of the task.
Announce(i) ==
    /\ At(i, "task", "announce")
    /\ Step(i, "task", "done", TaskEnds(st[i], "ok"))

TaskReturn(i) ==
    At(i, "task", "return") /\ Step(i, "task", "done", TaskEnds(st[i], "ok"))

\* An aborted task stops where it next waits.
TaskCancelled(i) ==
    /\ st[i].aborted
    /\ At(i, "task", "handshake") \/ At(i, "task", "poll")
    /\ Step(i, "task", "done", TaskEnds(st[i], "cancelled"))

--------------------------------------------------------------------------
(* The ABI calls.                                                          *)

\* TerminalState::lookup: a token names an instance only while it is anchored.
Lookup(i) == st[i].slot # "none" /\ slots[st[i].slot].anchor = i
Exported(i) == st[i].vtable /\ pc[i]["entry"] = "done"

\* terminal_deliver, as far as it can change this state: its is_live check.
\* The frame itself goes to the inbound queue's try_send.
Deliver(i) ==
    /\ At(i, "deliver", "idle")
    /\ Exported(i) /\ Lookup(i)
    /\ ~Terminal(i) /\ host[i] # "live"
    /\ Signal(i, "deliver", "idle", st[i], Observed(i))

StopCall(i) ==
    /\ At(i, "stop", "idle")
    /\ Exported(i)
    /\ IF Lookup(i) THEN ObserveHost(i, "stop", "signal")
                    ELSE Step(i, "stop", "CLOSED", st[i])

StopSignal(i) == At(i, "stop", "signal") /\ Signal(i, "stop", "wait", st[i], "Stop")

\* wait: until a completion is recorded, or the deadline passes.
StopWoken(i) ==
    /\ At(i, "stop", "wait")
    /\ st[i].completion # "none"
    /\ ObserveHost(i, "stop", IF st[i].completion = "PhysicallyStopped"
                              THEN "check" ELSE "doubt")

StopDeadline(i) ==
    /\ At(i, "stop", "wait")
    /\ st[i].completion = "none"
    /\ ObserveHost(i, "stop", "doubt")

StopCheck(i) ==
    /\ At(i, "stop", "check")
    /\ Step(i, "stop", IF HasFault(i) THEN "doubt" ELSE "OK", st[i])

StopDoubt(i) ==
    /\ At(i, "stop", "doubt")
    /\ Goto(i, "stop", "PANICKED")
    /\ Set(i, Doubt(st[i]))
    /\ slots' = Anchored(i)
    /\ UNCHANGED <<sig, host>>

--------------------------------------------------------------------------
(* terminal_reinitialize and the reconfiguration callback.                 *)

ReinitCall(i) ==
    /\ At(i, "reinit", "idle")
    /\ Exported(i)
    /\ st[i].reinits < MaxReinits
    /\ IF Lookup(i)
       THEN LiveElse(i, "reinit", "begin", "idle")
       ELSE Step(i, "reinit", "idle", st[i])

BeginReinit(i) ==
    /\ At(i, "reinit", "begin")
    /\ IF Terminal(i) \/ st[i].activeReinit
       THEN Step(i, "reinit", "idle", st[i])
       ELSE Step(i, "reinit", "callback",
                 [st[i] EXCEPT !.activeReinit = TRUE, !.reinits = @ + 1])

ReinitLive(i) == At(i, "reinit", "callback") /\ LiveElse(i, "reinit", "previous", "end")

\* Hand an operation to the worker, spawning it if nobody has yet.
Submit(i, op, s, p) ==
    /\ Goto(i, "reinit", p)
    /\ Set(i, [s EXCEPT !.op = op, !.pending = TRUE])
    /\ sig' = [sig EXCEPT ![i]["reinit"] = "schedule"]
    /\ UNCHANGED <<slots, host>>

\* The previous reconfiguration's future is retired before the next one.
RetirePrevious(i) ==
    /\ At(i, "reinit", "previous")
    /\ \/ /\ "connection" \notin st[i].res
          /\ Step(i, "reinit", "end", st[i])
       \/ /\ "connection" \in st[i].res
          /\ IF "reinitFuture" \in st[i].res
             THEN Submit(i, "Retire", [st[i] EXCEPT !.res = @ \ {"reinitFuture"}], "retiring")
             ELSE Step(i, "reinit", "retired", st[i])

Settled(i) == ~st[i].pending \/ st[i].finish = "SpawnFailed"

RetireWoken(i) ==
    /\ At(i, "reinit", "retiring")
    /\ Settled(i)
    /\ Step(i, "reinit", IF st[i].retirementFailed \/ st[i].finish = "SpawnFailed"
                         THEN "end" ELSE "retired", st[i])

ReinitStillLive(i) == At(i, "reinit", "retired") /\ LiveElse(i, "reinit", "submit", "end")

ConstructReinit(i) ==
    At(i, "reinit", "submit") /\ Submit(i, "Construct", st[i], "constructing")

ConstructWoken(i) ==
    /\ At(i, "reinit", "constructing")
    /\ Settled(i)
    /\ Step(i, "reinit", IF st[i].finish # "SpawnFailed" /\ st[i].code = "OK"
                         THEN "poll" ELSE "end", [st[i] EXCEPT !.code = "CLOSED"])

\* The select of the setup future against the terminal notification.
PollReinit(i) ==
    /\ At(i, "reinit", "poll")
    /\ \/ LiveElse(i, "reinit", "end", "end")
       \/ Signal(i, "reinit", "end", st[i], "SetupFailed")
       \/ Panics(i, "reinit", "end", st[i])

ReinitNotified(i) ==
    /\ At(i, "reinit", "poll")
    /\ Terminal(i)
    /\ Step(i, "reinit", "end", st[i])

EndReinit(i) ==
    /\ At(i, "reinit", "end")
    /\ Step(i, "reinit", "idle", [st[i] EXCEPT !.activeReinit = FALSE])

--------------------------------------------------------------------------
(* The physical worker (run_finish).                                       *)

WorkerTakesOp(i) ==
    /\ At(i, "worker", "loop")
    /\ st[i].op # "none"
    /\ Step(i, "worker", st[i].op, [st[i] EXCEPT !.op = "none"])

OpOver_WakesOnSuccess(i, s, failed, code) ==
    [s EXCEPT !.retirementFailed = @ \/ failed, !.code = code,
              !.pending = code # "OK"]

\* The operation is over: its code is recorded and its caller woken.
OpOver(i, s, failed, code) ==
    [s EXCEPT !.retirementFailed = @ \/ failed, !.code = code, !.pending = FALSE]

WorkerRetires(i) ==
    /\ At(i, "worker", "Retire")
    /\ \/ Step(i, "worker", "loop", OpOver(i, st[i], FALSE, "OK"))
       \/ Panics(i, "worker", "retireFailed", st[i])

WorkerRetireFailed(i) ==
    /\ At(i, "worker", "retireFailed")
    /\ Step(i, "worker", "loop", OpOver(i, st[i], TRUE, "CLOSED"))

\* Parsing and building the new setup future; liveness is checked around it.
WorkerConstructs(i) ==
    At(i, "worker", "Construct") /\ LiveElse(i, "worker", "parse", "notBuilt")

WorkerParses(i) ==
    /\ At(i, "worker", "parse")
    /\ \/ Step(i, "worker", "parsed", [st[i] EXCEPT !.res = @ \cup {"config"}])
       \/ Step(i, "worker", "notBuilt", st[i])
       \/ Panics(i, "worker", "notBuilt", st[i])

WorkerStillLive(i) ==
    At(i, "worker", "parsed") /\ LiveElse(i, "worker", "build", "notBuilt")

WorkerBuilds(i) ==
    /\ At(i, "worker", "build")
    /\ LET s == [st[i] EXCEPT !.res = @ \ {"config"}] IN
       \/ Step(i, "worker", "loop",
               OpOver(i, [s EXCEPT !.res = @ \cup {"reinitFuture"}], FALSE, "OK"))
       \/ Panics(i, "worker", "notBuilt", s)

WorkerNotBuilt(i) ==
    /\ At(i, "worker", "notBuilt")
    /\ Step(i, "worker", "loop", OpOver(i, st[i], FALSE, "CLOSED"))

\* The worker leaves its loop when start-up is published, no reconfiguration
\* is running and the request hook has been run (or there is none).
MayFinish_DuringReinit(i) ==
    /\ st[i].published
    /\ st[i].request \notin {"Idle", "Running"}

MayFinish(i) ==
    /\ st[i].published
    /\ ~st[i].activeReinit
    /\ st[i].request \notin {"Idle", "Running"}

WorkerFinishes(i) ==
    /\ At(i, "worker", "loop")
    /\ st[i].op = "none"
    /\ MayFinish(i)
    /\ Step(i, "worker", "settle", [st[i] EXCEPT !.finish = "Running"])

\* settle_execution: the initial task is aborted and joined.
Settle(i) ==
    /\ At(i, "worker", "settle")
    /\ IF st[i].initial = "none"
       THEN Step(i, "worker", "dispose", st[i])
       ELSE Step(i, "worker", "join", [st[i] EXCEPT !.aborted = TRUE])

Joined(i) == At(i, "task", "done")

Join(i) ==
    /\ At(i, "worker", "join")
    /\ Joined(i)
    /\ LET s == [st[i] EXCEPT !.initial = "none", !.aborted = FALSE] IN
       CASE st[i].initial = "panic" -> SourcePanic(i, "worker", "dispose", s)
         [] st[i].initial = "err" -> Signal(i, "worker", "dispose", s, "SetupFailed")
         [] OTHER -> Step(i, "worker", "dispose", s)

\* dispose_setup: futures, callback and request hook are dropped; skipped
\* after a failed retirement, whose remains must not be touched again.
DisposeSetup(i) ==
    /\ At(i, "worker", "dispose")
    /\ LET gone == [st[i] EXCEPT !.res =
                        @ \ {"initialFuture", "callback", "reinitFuture"}] IN
       IF st[i].retirementFailed
       THEN Step(i, "worker", "finish", [st[i] EXCEPT !.disposalFailed = TRUE])
       ELSE \/ Step(i, "worker", "finish", gone)
            \/ Panics(i, "worker", "finish", [gone EXCEPT !.disposalFailed = TRUE])

\* The module's finish hook; without one the stop is physical at once.
Finish(i) ==
    /\ At(i, "worker", "finish")
    /\ LET ran(c) == [st[i] EXCEPT !.completed = c,
                        !.finishes = IF st[i].request = "Unregistered" THEN @ ELSE @ + 1] IN
       \/ Step(i, "worker", "release", ran("PhysicallyStopped"))
       \/ /\ st[i].request # "Unregistered"
          /\ \/ Step(i, "worker", "release", ran("Uncertain"))
             \/ Panics(i, "worker", "release", ran("Uncertain"))

\* release_resources; a connection the module kept keeps an SdkOwner alive.
Release(i) ==
    /\ At(i, "worker", "release")
    /\ IF st[i].completed = "PhysicallyStopped" /\ ~st[i].disposalFailed
       THEN \/ Step(i, "worker", "observe", [st[i] EXCEPT !.res = {}, !.released = TRUE])
            \/ /\ "connection" \in st[i].res
               /\ Step(i, "worker", "observe", [st[i] EXCEPT !.res = {"connection"}])
            \/ Panics(i, "worker", "observe", [st[i] EXCEPT !.res = {}])
       ELSE Step(i, "worker", "observe", st[i])

FinalObserve(i) == At(i, "worker", "observe") /\ ObserveHost(i, "worker", "check")

FinalCheck_IgnoresOwners(i) ==
    /\ At(i, "worker", "check")
    /\ Step(i, "worker", IF HasFault(i) /\ st[i].vtable THEN "doubtful" ELSE "clean", st[i])

FinalCheck(i) ==
    /\ At(i, "worker", "check")
    /\ Step(i, "worker",
            IF ~st[i].released \/ (HasFault(i) /\ st[i].vtable) THEN "doubtful" ELSE "clean",
            st[i])

\* Under the control lock: doubt that arrived meanwhile is honoured, and only
\* a physical stop gives the anchor up.
Completion(i) ==
    IF st[i].uncertain \/ pc[i]["worker"] = "doubtful"
    THEN "Uncertain" ELSE st[i].completed

Complete(i) ==
    /\ At(i, "worker", "doubtful") \/ At(i, "worker", "clean")
    /\ Goto(i, "worker", "done")
    /\ LET s == IF pc[i]["worker"] = "doubtful" THEN Doubt(st[i]) ELSE st[i] IN
       Set(i, [s EXCEPT !.finish = "Complete", !.completion = Completion(i),
                        !.completed = "none", !.disposalFailed = FALSE, !.released = FALSE])
    /\ slots' = IF Completion(i) = "PhysicallyStopped"
                THEN [slots EXCEPT ![st[i].slot].anchor = None]
                ELSE IF pc[i]["worker"] = "doubtful" THEN Anchored(i) ELSE slots
    /\ UNCHANGED <<sig, host>>

--------------------------------------------------------------------------
(* The module, the host and the slot table.                                *)

\* request_fault through the liveness view, or a panic caught in a handler.
ModuleFaults(i) ==
    /\ At(i, "module", "idle")
    /\ \/ /\ "factory" \in st[i].res \/ pc[i]["entry"] = "factory"
          /\ st[i].faults < MaxFaults
          /\ Signal(i, "module", "over", [st[i] EXCEPT !.faults = @ + 1], "Fault")
       \/ /\ "connection" \in st[i].res
          /\ Panics(i, "module", "over", st[i])

\* The host publishes a stop or a fault at any moment (external).
HostEnds(i) ==
    /\ host[i] # "fault"
    /\ pc[i]["entry"] # "refused"
    /\ st[i].faults < MaxFaults
    /\ \E f \in {"stop", "fault"} : host' = [host EXCEPT ![i] = f]
    /\ Set(i, [st[i] EXCEPT !.faults = @ + 1])
    /\ UNCHANGED <<slots, pc, sig>>

\* SlotLease::drop: the last reference to the state is gone.
Over == {"idle", "done", "over", "refused", "OK", "CLOSED", "PANICKED"}
Referenced(i) ==
    \/ slots[st[i].slot].anchor = i
    \/ st[i].res # {}
    \/ \E t \in Threads : sig[i][t] # "none" \/ pc[i][t] \notin Over

DropLease(i) ==
    /\ st[i].slot # "none"
    /\ ~Referenced(i)
    /\ slots' = [slots EXCEPT ![st[i].slot].reserved = FALSE]
    /\ Set(i, [st[i] EXCEPT !.slot = "none"])
    /\ UNCHANGED <<pc, sig, host>>

--------------------------------------------------------------------------
Signalling(i) ==
    \E t \in Threads : RunRequest(i, t) \/ RequestReturns(i, t) \/ Schedule(i, t)

Starting(i) ==
    \/ Admit(i) \/ ParseConfig(i) \/ RunFactory(i) \/ Register(i) \/ EntryLive(i)
    \/ BuildRuntime(i) \/ SpawnSetup(i) \/ EntryFail(i) \/ Publish(i)

SettingUp(i) ==
    \/ Handshake(i) \/ TaskLive(i) \/ ConstructSetup(i) \/ PollSetup(i)
    \/ TaskReady(i) \/ Announce(i) \/ TaskReturn(i) \/ TaskCancelled(i)

Calling(i) ==
    \/ Deliver(i) \/ StopCall(i) \/ StopSignal(i) \/ StopWoken(i)
    \/ StopDeadline(i) \/ StopCheck(i) \/ StopDoubt(i)

Reconfiguring(i) ==
    \/ ReinitCall(i) \/ BeginReinit(i) \/ ReinitLive(i) \/ RetirePrevious(i)
    \/ RetireWoken(i) \/ ReinitStillLive(i) \/ ConstructReinit(i)
    \/ ConstructWoken(i) \/ PollReinit(i) \/ ReinitNotified(i) \/ EndReinit(i)

Working(i) ==
    \/ WorkerTakesOp(i) \/ WorkerRetires(i) \/ WorkerRetireFailed(i)
    \/ WorkerConstructs(i) \/ WorkerParses(i) \/ WorkerStillLive(i)
    \/ WorkerBuilds(i) \/ WorkerNotBuilt(i) \/ WorkerFinishes(i) \/ Settle(i)
    \/ Join(i) \/ DisposeSetup(i) \/ Finish(i) \/ Release(i) \/ FinalObserve(i)
    \/ FinalCheck(i) \/ Complete(i)

Next ==
    \E i \in Instances :
        \/ Signalling(i) \/ Starting(i) \/ SettingUp(i) \/ Calling(i)
        \/ Reconfiguring(i) \/ Working(i)
        \/ ModuleFaults(i) \/ HostEnds(i) \/ DropLease(i)

Spec == Init /\ [][Next]_vars

\* Threads that are not waiting go on, and module code returns; nobody has to
\* call anything, and neither the host nor the module has to fail.  A setup
\* future need never be ready.
Fairness ==
    \A i \in Instances :
        /\ \A t \in Threads :
            WF_vars(RunRequest(i, t) \/ RequestReturns(i, t) \/ Schedule(i, t))
        /\ WF_vars(~(At(i, "entry", "idle")) /\ Starting(i))
        /\ WF_vars(TaskLive(i) \/ ConstructSetup(i) \/ TaskReady(i) \/ Announce(i)
                    \/ TaskReturn(i) \/ TaskCancelled(i))
        /\ WF_vars(BeginReinit(i) \/ ReinitLive(i) \/ RetirePrevious(i) \/ RetireWoken(i)
                    \/ ReinitStillLive(i) \/ ConstructReinit(i) \/ ConstructWoken(i)
                    \/ ReinitNotified(i) \/ EndReinit(i))
        /\ WF_vars(Working(i))

FairSpec == Spec /\ Fairness

--------------------------------------------------------------------------
(* Properties.                                                             *)

\* The module's finish hook runs alone: when the worker is past its loop, the
\* request hook is not running on any thread, no reconfiguration is between
\* begin_reinit and end_reinit, and from disposal on the setup task has been
\* joined and can no longer announce the module ready.
FinishAlone ==
    \A i \in Instances :
        st[i].finish = "Running" =>
            /\ \A t \in Threads : sig[i][t] # "hook"
            /\ ~st[i].activeReinit
            /\ pc[i]["worker"] \in {"dispose", "finish", "release", "observe"} =>
                    pc[i]["task"] \in {"idle", "done"}

\* The request hook and the finish hook each run at most once, and finish
\* never runs before the request it answers.
HooksOnce ==
    \A i \in Instances :
        st[i].requests <= 1 /\ st[i].finishes <= st[i].requests

\* A shutdown call that returned OK told the truth: the finish hook reported
\* a physical stop, everything was released, and no doubt was on record.
OkIsPhysical ==
    \A i \in Instances :
        pc[i]["stop"] = "OK" =>
            /\ st[i].completion = "PhysicallyStopped"
            /\ st[i].res = {}
            /\ ~st[i].uncertain

\* An instance whose end is uncertain is never forgotten: it stays anchored,
\* so its slot and its state outlive any native code that may still run, and
\* its completion is never read as a physical stop.
UncertainKept ==
    \A i \in Instances :
        st[i].uncertain => Lookup(i) /\ st[i].completion # "PhysicallyStopped"

\* The hooks of a module run once, and finish on its own.
HooksAlone == FinishAlone /\ HooksOnce

\* What is said about an instance's end is so, and stays so.
EndIsTrue == OkIsPhysical /\ UncertainKept

\* Once the end is signalled and start-up is over, the worker settles it:
\* whatever a reconfiguration or the setup task was waiting for.
TerminalCompletes ==
    \A i \in Instances :
        (Terminal(i) /\ st[i].published) ~> st[i].completion # "none"

===============================================================================
