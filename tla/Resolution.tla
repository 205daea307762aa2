------------------------------ MODULE Resolution ------------------------------
(***************************************************************************)
(* Getting one module loaded for everybody who asks (module/resolution.rs  *)
(* and resolve.rs): the slot that lets one caller resolve the module while *)
(* the others wait on a watch channel, the rungs of that resolution, the   *)
(* loading of a module with the caller's host callbacks                    *)
(* (host_callbacks.rs), and the host's list of modules, which changes at   *)
(* the same time.  Slots of different modules share nothing.               *)
(***************************************************************************)
EXTENDS Naturals, Sequences, SequencesExt

CONSTANTS
    Askers,    \* tasks that ask for the module
    Scenes,    \* see IsScene
    MaxAsks,   \* times each asks
    MaxTries   \* callback bindings a factory prepares

\* Where the registry says the module comes from, how each task asks and
\* whether the host itself loads a library with the module's bus name.
IsScene(s) ==
    /\ s.source \in {"local", "linked", "pinned"}
    /\ s.kind \in [Askers -> {"plain", "bounded", "single", "factory"}]
    /\ s.direct \in BOOLEAN

ASSUME ResolutionAssumption ==
    /\ MaxAsks \in Nat /\ MaxTries \in Nat
    /\ \A s \in Scenes : IsScene(s)

Nil == "nil"

\* A binding is the asker whose callbacks it holds and its number; this is none.
Unbound == <<Nil, 0>>

VARIABLES
    plan,   \* the scene
    bus,    \* the module runtime has started
    slot,   \* the slot in the ResolutionTable: free, flight, ready or failed
    chan,   \* its watch channel: Nil or the outcome, closed when the sender is gone
    work,   \* the resolution
    list,   \* the host's entries with this bus name, in the order they were pushed
    used,   \* callback bindings a load has consumed
    req     \* asker -> its ensure_loaded call

resolutionVars == <<plan, bus, slot, chan, work, list, used, req>>

\* cb: the asker whose callbacks are loaded; tries: bindings prepared for it;
\* selected: CallbackLoad::PerAttempt's selection.
NoWork == [pc |-> "none", cb |-> Nil, tries |-> 0, selected |-> Unbound, result |-> Nil]

\* stale: a faulted entry was listed when the call was made.
NoRequest == [pc |-> "idle", asks |-> 0, stale |-> FALSE, answer |-> Nil, got |-> Unbound]

ResolutionInit ==
    /\ plan \in Scenes
    /\ bus = FALSE
    /\ slot = "free"
    /\ chan = [value |-> Nil, closed |-> FALSE]
    /\ work = NoWork
    /\ list = <<>>
    /\ used = {}
    /\ req = [c \in Askers |-> NoRequest]

-----------------------------------------------------------------------------
(* The host's list.  An entry is the module loaded from one library; by is *)
(* the binding it was initialised with, held the one retained with it.     *)

Live(e) == e.st \in {"resolved", "initializing", "ready"}

LiveMatch == \E i \in DOMAIN list : Live(list[i])

Faulty == \E i \in DOMAIN list : list[i].st = "faulted"

Retains(b) == b # Unbound /\ \E i \in DOMAIN list : list[i].held = b /\ Live(list[i])

\* retained_host_callback_binding looks at the first entry only.
Retained == IF list = <<>> \/ ~Retains(Head(list).held) THEN Unbound ELSE Head(list).held

\* Names of modules are unique in the list, the bus name among live ones.
Admissible(lib) == ~LiveMatch /\ \A i \in DOMAIN list : list[i].lib # lib

Listed(lib, st, by) ==
    Append(list, [lib |-> lib, st |-> st, lazy |-> st = "resolved", by |-> by, held |-> Unbound])

\* What a listed module does meanwhile: it is first used, finishes its
\* setup, faults, or somebody stops it.
Becomes(st) ==
    CASE st = "resolved" -> {"initializing", "stopped"}
      [] st = "initializing" -> {"ready", "faulted", "stopped"}
      [] st = "ready" -> {"faulted", "stopped"}
      [] OTHER -> {}

ModuleRuns ==
    /\ \E i \in DOMAIN list : \E st \in Becomes(list[i].st) : list' = [list EXCEPT ![i].st = st]
    /\ UNCHANGED <<plan, bus, slot, chan, work, used, req>>

\* The host program loads a library itself.
DirectLoad ==
    /\ plan.direct
    /\ \E lib \in {"own", "other"}, st \in {"resolved", "initializing"} :
        /\ Admissible(lib)
        /\ list' = Listed(lib, st, Unbound)
    /\ UNCHANGED <<plan, bus, slot, chan, work, used, req>>

-----------------------------------------------------------------------------
(* The table.                                                              *)

\* mark_faulted: only a ready slot becomes failed.
MarkedFaulted == IF slot = "ready" THEN "failed" ELSE slot

\* A configuration change that failed marks the slot (Resolver::mark_faulted).
Reconfigured ==
    /\ slot = "ready"
    /\ slot' = MarkedFaulted
    /\ UNCHANGED <<plan, bus, chan, work, list, used, req>>

\* complete: the slot settles and the channel fires under one lock.
Complete(result) ==
    /\ slot' = result
    /\ chan' = [value |-> result, closed |-> TRUE]

-----------------------------------------------------------------------------
(* A caller: ensure_loaded_inner.                                          *)

Callbacks(c) == plan.kind[c] \in {"single", "factory"}

Own(c) == <<c, 0>>

Answer(c, answer, got) ==
    req' = [req EXCEPT ![c].pc = "idle", ![c].answer = answer, ![c].got = got]

Turn(c, pc) == req' = [req EXCEPT ![c].pc = pc]

\* self.runtime(): it may fail until the runtime has once started.
Starts(ok) == (bus => ok) /\ bus' = (bus \/ ok)

Ask(c) ==
    /\ req[c].pc = "idle" /\ req[c].asks < MaxAsks
    /\ req' = [req EXCEPT ![c] = [pc |-> IF Callbacks(c) THEN "prepare" ELSE "claim",
                                  asks |-> @.asks + 1, stale |-> Faulty,
                                  answer |-> Nil, got |-> Unbound]]
    /\ UNCHANGED <<plan, bus, slot, chan, work, list, used>>

\* Modules are disabled, or the gate of the host's policy is closed.
AskRefused(c) ==
    /\ req[c].pc = "idle" /\ req[c].asks < MaxAsks
    /\ \E no \in {"failed", "disabled"} :
        req' = [req EXCEPT ![c].asks = @ + 1, ![c].answer = no, ![c].got = Unbound,
                           ![c].stale = Faulty]
    /\ UNCHANGED <<plan, bus, slot, chan, work, list, used>>

Sourced(c) == plan.source = "local" \/ (plan.kind[c] = "factory" /\ plan.source = "pinned")

\* The checks of a caller with callbacks, before it claims.
Prepare(c) ==
    /\ req[c].pc = "prepare"
    /\ \E ok \in BOOLEAN :
        /\ Starts(ok)
        /\ IF ~ok \/ ~Sourced(c) THEN Answer(c, "failed", Unbound)
           ELSE IF list = <<>>
           THEN IF plan.kind[c] = "single" /\ Own(c) \in used
                THEN Answer(c, "failed", Unbound) ELSE Turn(c, "claim")
           ELSE IF plan.kind[c] = "single"
           THEN IF Retains(Own(c)) THEN Answer(c, "ok", Own(c)) ELSE Answer(c, "failed", Unbound)
           ELSE IF Retained # Unbound THEN Answer(c, "ok", Retained) ELSE Answer(c, "failed", Unbound)
    /\ UNCHANGED <<plan, slot, chan, work, list, used>>

Claimed(c) ==
    /\ slot' = "flight"
    /\ work' = [NoWork EXCEPT !.pc = "start", !.cb = IF Callbacks(c) THEN c ELSE Nil]
    /\ Turn(c, "wait")

\* ResolutionTable::claim and what follows it without an await.
Claim(c) ==
    /\ req[c].pc = "claim"
    /\ CASE slot = "free" -> Claimed(c)
         [] slot = "flight" ->
                /\ IF Callbacks(c) THEN Answer(c, "failed", Unbound) ELSE Turn(c, "wait")
                /\ UNCHANGED <<slot, work>>
         [] slot = "ready" ->
                /\ Turn(c, IF Callbacks(c) THEN "check" ELSE "serving")
                /\ UNCHANGED <<slot, work>>
         [] slot = "failed" -> Answer(c, "failed", Unbound) /\ UNCHANGED <<slot, work>>
    /\ UNCHANGED <<plan, bus, chan, list, used>>

\* Claim::Done(Ready): the caller's binding must be the one retained.
CheckRetained(c) ==
    LET b == IF plan.kind[c] = "single" THEN Own(c) ELSE Retained
    IN
    /\ req[c].pc = "check"
    /\ IF b = Unbound \/ ~Retains(b) THEN Answer(c, "failed", Unbound)
       ELSE req' = [req EXCEPT ![c].pc = "serving", ![c].got = b]
    /\ UNCHANGED <<plan, bus, slot, chan, work, list, used>>

Serving_Unchecked(c) ==
    /\ req[c].pc = "serving"
    /\ Answer(c, "ok", req[c].got)
    /\ UNCHANGED <<plan, bus, slot, chan, work, list, used>>

\* still_serving, for a cached Ready.
Serving(c) ==
    /\ req[c].pc = "serving"
    /\ IF Faulty THEN slot' = MarkedFaulted /\ Answer(c, "failed", Unbound)
                 ELSE Answer(c, "ok", req[c].got) /\ UNCHANGED slot
    /\ UNCHANGED <<plan, bus, chan, work, list, used>>

\* ResolutionTable::wait returns the outcome.
Woken(c) ==
    /\ req[c].pc = "wait" /\ chan.value # Nil
    /\ IF chan.value = "failed" THEN Answer(c, "failed", Unbound) /\ UNCHANGED slot
       ELSE IF Faulty THEN slot' = MarkedFaulted /\ Answer(c, "failed", Unbound)
       ELSE UNCHANGED slot /\ IF Callbacks(c) THEN Turn(c, "woken") ELSE Answer(c, "ok", Unbound)
    /\ UNCHANGED <<plan, bus, chan, work, list, used>>

WokenRetained_Trusting(c) ==
    /\ req[c].pc = "woken"
    /\ Answer(c, "ok", IF plan.kind[c] = "single" THEN Own(c) ELSE work.selected)
    /\ UNCHANGED <<plan, bus, slot, chan, work, list, used>>

\* The caller whose callbacks were loaded gets its binding back.
WokenRetained(c) ==
    LET b == IF plan.kind[c] = "single" THEN (IF Retains(Own(c)) THEN Own(c) ELSE Unbound)
             ELSE IF work.selected # Unbound THEN work.selected ELSE Retained
    IN
    /\ req[c].pc = "woken"
    /\ Answer(c, IF b = Unbound THEN "failed" ELSE "ok", b)
    /\ UNCHANGED <<plan, bus, slot, chan, work, list, used>>

Abandoned_Bounded(c) ==
    /\ req[c].pc = "wait" /\ chan.closed /\ chan.value = Nil
    /\ plan.kind[c] = "bounded"
    /\ Answer(c, "failed", Unbound)
    /\ UNCHANGED <<plan, bus, slot, chan, work, list, used>>

\* The sender was dropped without an outcome: the waiter settles the slot.
Abandoned(c) ==
    /\ req[c].pc = "wait" /\ chan.closed /\ chan.value = Nil
    /\ slot' = IF slot = "flight" THEN "failed" ELSE slot
    /\ Answer(c, "failed", Unbound)
    /\ UNCHANGED <<plan, bus, chan, work, list, used>>

\* The bound on the wait passes, or the caller stops waiting.
Expires(c) ==
    /\ req[c].pc = "wait" /\ plan.kind[c] = "bounded"
    /\ Answer(c, "loading", Unbound)
    /\ UNCHANGED <<plan, bus, slot, chan, work, list, used>>

GivesUp(c) ==
    /\ req[c].pc # "idle"
    /\ Answer(c, Nil, Unbound)
    /\ UNCHANGED <<plan, bus, slot, chan, work, list, used>>

-----------------------------------------------------------------------------
(* The resolution: start_resolution, ladder and load_rungs.                *)

Step(pc) == work' = [work EXCEPT !.pc = pc]

Result(result) == work' = [work EXCEPT !.pc = "finish", !.result = result]

\* An admission error is forgiven when the module is live all the same.
Recovered == IF LiveMatch THEN Step("settle") ELSE Result("failed")

\* A live match from elsewhere is no use to a caller with callbacks.
Found == IF work.cb # Nil THEN Result("failed") ELSE Step("settle")

\* The startup thread, its executor, or the runtime cannot start, or the
\* module is live already; otherwise the registry's source is tried.
Start ==
    /\ work.pc = "start"
    /\ \E ok \in BOOLEAN :
        /\ Starts(ok)
        /\ IF ~ok THEN Result("failed")
           ELSE IF LiveMatch THEN Found
           ELSE Step(CASE plan.source = "pinned" -> "search"
                       [] work.cb = Nil -> "load"
                       [] OTHER -> "bind")
    /\ UNCHANGED <<plan, slot, chan, list, used, req>>

\* The search path may hold the module, or a load of somebody else won.
Search ==
    /\ work.pc = "search"
    /\ \/ /\ Admissible("own")
          /\ \E st \in {"resolved", "initializing"} : list' = Listed("own", st, Unbound)
          /\ Found
       \/ UNCHANGED list /\ IF LiveMatch THEN Found ELSE Step("cache")
    /\ UNCHANGED <<plan, bus, slot, chan, used, req>>

\* Without a directory to install into the release cache cannot be tried.
Cache ==
    /\ work.pc = "cache"
    /\ \/ Recovered
       \/ Step(IF work.cb = Nil THEN "load" ELSE "bind")
    /\ UNCHANGED <<plan, bus, slot, chan, list, used, req>>

Load_Unsettled ==
    /\ work.pc = "load"
    /\ \/ /\ Admissible("own")
          /\ \E st \in {"resolved", "initializing"} : list' = Listed("own", st, Unbound)
          /\ Result("ready")
       \/ UNCHANGED list /\ Recovered
    /\ UNCHANGED <<plan, bus, slot, chan, used, req>>

\* load_local, load_linked or load_cached, off the runtime's workers.
Load ==
    /\ work.pc = "load"
    /\ \/ /\ Admissible("own")
          /\ \E st \in {"resolved", "initializing"} : list' = Listed("own", st, Unbound)
          /\ Step("settle")
       \/ UNCHANGED list /\ Recovered
    /\ UNCHANGED <<plan, bus, slot, chan, used, req>>

Binding == <<work.cb, work.tries - 1>>

\* A failed attempt of a release load is followed by the next candidate's.
AttemptFails ==
    \/ plan.source = "local" /\ Recovered
    \/ /\ plan.source = "pinned"
       /\ \/ Result("failed")
          \/ work.tries < MaxTries /\ Step("bind")

\* CallbackLoad::prepare gives the caller's binding, or the factory the next.
Bind ==
    /\ work.pc = "bind" /\ work.tries < MaxTries
    /\ \/ Result("failed")
       \/ work' = [work EXCEPT !.pc = "attach", !.tries = @ + 1]
    /\ UNCHANGED <<plan, bus, slot, chan, list, used, req>>

\* load_file_with_host_callbacks_checked up to its await: the binding is
\* consumed, the module attached, its initialisation released.
Attach ==
    /\ work.pc = "attach"
    /\ used' = used \cup {Binding}
    /\ \/ /\ Binding \notin used /\ Admissible("own")
          /\ list' = Listed("own", "initializing", Binding)
          /\ Step("init")
       \/ UNCHANGED list /\ AttemptFails
    /\ UNCHANGED <<plan, bus, slot, chan, req>>

Mine(e) == e.by = Binding

\* The decision once it is initialised and ready; the one entry of a binding
\* that failed is taken out again.
Decide ==
    /\ work.pc = "init"
    /\ \/ /\ \E i \in DOMAIN list : Mine(list[i]) /\ list[i].st = "ready"
          /\ Step("retain") /\ UNCHANGED list
       \/ /\ \E i \in DOMAIN list : Mine(list[i]) /\ list' = RemoveAt(list, i)
          /\ LET left == \E i \in DOMAIN list : ~Mine(list[i]) /\ Live(list[i]) IN
             \/ plan.source = "local" /\ (IF left THEN Step("settle") ELSE Result("failed"))
             \/ plan.source = "pinned" /\ (Result("failed") \/ (work.tries < MaxTries /\ Step("bind")))
    /\ UNCHANGED <<plan, bus, slot, chan, used, req>>

\* retain_host_callback_binding: with the first entry of the bus name, if
\* that is the one initialised through this binding.
Retain ==
    /\ work.pc = "retain"
    /\ IF list # <<>> /\ Mine(Head(list))
       THEN /\ list' = [list EXCEPT ![1].held = Binding]
            /\ work' = [work EXCEPT !.pc = "settle",
                          !.selected = IF plan.kind[work.cb] = "factory" THEN Binding ELSE Unbound]
       ELSE UNCHANGED list /\ (IF plan.source = "local" THEN Recovered ELSE Result("failed"))
    /\ UNCHANGED <<plan, bus, slot, chan, used, req>>

\* ModuleHost::settle and setup_outcome, of the first entry: a lazy module
\* not yet used counts as ready, one that is initialising is waited for.
Settle ==
    /\ work.pc = "settle"
    /\ Result(IF list = <<>> \/ Head(list).st \in {"resolved", "ready"} THEN "ready" ELSE "failed")
    /\ UNCHANGED <<plan, bus, slot, chan, list, used, req>>

\* The hook of the host runs and the outcome is recorded.
Finish ==
    /\ work.pc = "finish"
    /\ Complete(work.result)
    /\ work' = [work EXCEPT !.pc = "over"]
    /\ UNCHANGED <<plan, bus, list, used, req>>

\* Code of the host that the resolution calls panics: nothing is recorded.
Dies ==
    /\ work.pc \in {"start", "load", "cache", "bind"}
    /\ Step("over")
    /\ chan' = [chan EXCEPT !.closed = TRUE]
    /\ UNCHANGED <<plan, bus, slot, list, used, req>>

ResolverStep == Start \/ Search \/ Cache \/ Load \/ Bind \/ Attach \/ Decide \/ Retain
                    \/ Settle \/ Finish

CallerStep(c) ==
    Prepare(c) \/ Claim(c) \/ CheckRetained(c) \/ Serving(c) \/ Woken(c)
        \/ WokenRetained(c) \/ Abandoned(c)

ResolutionNext ==
    \/ ModuleRuns \/ DirectLoad \/ Reconfigured
    \/ \E c \in Askers : Ask(c) \/ AskRefused(c) \/ CallerStep(c) \/ Expires(c) \/ GivesUp(c)
    \/ ResolverStep \/ Dies

\* Tasks that can run do; a load returns, a setup ends or its deadline passes.
ResolutionFairness ==
    WF_resolutionVars(ResolverStep) /\ \A c \in Askers : WF_resolutionVars(CallerStep(c))

ResolutionSpec == ResolutionInit /\ [][ResolutionNext]_resolutionVars /\ ResolutionFairness
-----------------------------------------------------------------------------
(* Properties.                                                             *)

(* An answer that carries a callback binding names one the module was      *)
(* initialised with and that the host keeps with it, whichever way the     *)
(* caller got there: a check before the claim, a cached outcome, its own   *)
(* resolution, or one that a module from elsewhere made succeed            *)
(* (ensure_loaded_inner, recover_admission, still_serving).                *)
BindingHeld ==
    [][\A c \in Askers :
         req'[c].answer = "ok" /\ req[c].answer # "ok" /\ Callbacks(c) =>
             /\ plan.kind[c] = "single" => req'[c].got = Own(c)
             /\ \E i \in DOMAIN list' : list'[i].held = req'[c].got /\ list'[i].by = req'[c].got]_resolutionVars

(* Nobody is told that the module serves when a fault was listed before it *)
(* asked and still is (still_serving: a cached Ready is checked against    *)
(* the host, and a callback load that failed takes its entry out again).   *)
FaultReported ==
    [][\A c \in Askers :
         req'[c].answer = "ok" /\ req[c].answer # "ok" => ~(req[c].stale /\ Faulty)]_resolutionVars

(* No rung reports Ready while the module is still being set up: the first *)
(* entry of a slot that is ready, the one a caller is pointed to and the   *)
(* host settles, is initialising only if it was listed lazily and has been *)
(* used since (ladder, ModuleHost::settle).  A load of the host's own may  *)
(* list another behind it, which nobody waits for.                         *)
ReadyIsSettled ==
    slot = "ready" =>
        list # <<>> /\ (Head(list).st = "initializing" => Head(list).lazy)

(* A caller that waits without a bound gets an answer, even if the         *)
(* resolution dies without one (wait: a sender dropped without an outcome). *)
NoneStranded == \A c \in Askers : req[c].pc = "wait" ~> req[c].pc # "wait"
=============================================================================
