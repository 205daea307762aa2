----------------------------- MODULE RuntimeLease -----------------------------
(***************************************************************************)
(* Leases of module objects (module/lease.rs) and the registry of the      *)
(* host's own objects they export their callbacks through                  *)
(* (module/runtime.rs): activation and its rollback, the cleanup worker    *)
(* with its bounded attempts and their deadline, the handles whose last    *)
(* drop starts it, and the bus name that the objects of one host share.    *)
(*                                                                         *)
(* All objects here use one bus name: the registry's entries are           *)
(* independent of each other.  The driver of a lease is native code that   *)
(* may return anything, panic, or never return from start or stop.         *)
(***************************************************************************)
EXTENDS Naturals

CONSTANTS
    Leases,       \* leases that may be taken
    Objects,      \* objects served directly (serve_host_object)
    Paths,        \* object paths
    PathOf,       \* object or lease -> the path of its callback object
    MaxAttempts,  \* RetryPolicy: retry_delays.len() + 1
    MaxUsers      \* live handles of one lease

Registrants == Leases \cup Objects

NONE == "none"

ASSUME LeaseAssumption ==
    /\ Leases \cap Objects = {} /\ NONE \notin Registrants
    /\ PathOf \in [Registrants -> Paths]
    /\ MaxAttempts \in Nat \ {0} /\ MaxUsers \in Nat \ {0}

VARIABLES
    lease,      \* lease -> its activation, LeaseControl and cleanup worker
    guards,     \* registrant -> its registration and HostObjectGuard
    names,      \* HostObjectRegistry: its lock, and its entry for the name
    owner,      \* who owns the name on the bus: NONE, "host", "peer"
    served      \* path -> the registrant whose object is exported there

vars == <<lease, guards, names, owner, served>>

Unused ==
    [pc |-> "idle", starter |-> FALSE, state |-> "Open", users |-> 0, closer |-> "idle",
     worker |-> "off", attempt |-> 1, stopping |-> 0, starting |-> FALSE, failed |-> FALSE]

\* The program may own the name already, or another peer may.
Init ==
    /\ lease = [l \in Leases |-> Unused]
    /\ guards = [r \in Registrants |-> "absent"]
    /\ \E o \in {NONE, "host", "peer"} :
        /\ owner = o
        /\ names = [lock |-> NONE, count |-> 0, auto |-> FALSE, release |-> FALSE,
                    kept |-> o = "host"]
    /\ served = [p \in Paths |-> NONE]

-----------------------------------------------------------------------------
(* The registry.                                                           *)

\* serve_host_object, called directly.
Serve(o) ==
    /\ guards[o] = "absent"
    /\ guards' = [guards EXCEPT ![o] = "lock"]
    /\ UNCHANGED <<lease, names, owner, served>>

\* serve_host_object_transaction: with the registry locked the name is
\* claimed for the host's own peer, which succeeds for a name it owns.
Claim(r) ==
    /\ guards[r] = "lock" /\ names.lock = NONE
    /\ IF owner = "peer"
       THEN guards' = [guards EXCEPT ![r] = "failed"] /\ UNCHANGED <<names, owner>>
       ELSE /\ guards' = [guards EXCEPT ![r] = "claimed"]
            /\ names' = [names EXCEPT !.lock = r, !.release = owner = NONE \/ names.auto]
            /\ owner' = "host"
    /\ UNCHANGED <<lease, served>>

\* Its object is exported, over an older one at the same path.
Register(r) ==
    /\ guards[r] = "claimed"
    /\ guards' = [guards EXCEPT ![r] = "held"]
    /\ names' = [names EXCEPT !.lock = NONE, !.count = @ + 1, !.auto = @ \/ names.release]
    /\ served' = [served EXCEPT ![PathOf[r]] = r]
    /\ UNCHANGED <<lease, owner>>

RegisterFails_Releases(r) ==
    /\ guards[r] = "claimed"
    /\ guards' = [guards EXCEPT ![r] = "failed"]
    /\ names' = [names EXCEPT !.lock = NONE]
    /\ owner' = IF names.release THEN NONE ELSE owner
    /\ UNCHANGED <<lease, served>>

\* The export fails: a name claimed for it is given back, at once or with
\* the last object that uses it.
RegisterFails(r) ==
    /\ guards[r] = "claimed"
    /\ guards' = [guards EXCEPT ![r] = "failed"]
    /\ names' = [names EXCEPT !.lock = NONE,
                              !.auto = @ \/ (names.release /\ names.count > 0)]
    /\ owner' = IF names.release /\ names.count = 0 THEN NONE ELSE owner
    /\ UNCHANGED <<lease, served>>

\* A guard is dropped by its holder, or by serve_host_object's task when its
\* caller is gone.
DropGuard(o) ==
    /\ o \in Objects /\ guards[o] = "held"
    /\ guards' = [guards EXCEPT ![o] = "removing"]
    /\ UNCHANGED <<lease, names, owner, served>>

\* take_if_owned: a newer object at the path stays.
Withdrawn(r) == [p \in Paths |-> IF served[p] = r THEN NONE ELSE served[p]]

\* remove_host_object.
Removes(r) ==
    LET last == names.count = 1 IN
    /\ guards[r] = "removing" /\ names.lock = NONE
    /\ guards' = [guards EXCEPT ![r] = "removed"]
    /\ served' = Withdrawn(r)
    /\ names' = [names EXCEPT !.count = @ - 1, !.auto = @ /\ ~last]
    /\ owner' = IF last /\ names.auto THEN NONE ELSE owner
    /\ UNCHANGED lease

\* Another peer releases the name, or claims it once it is free.
PeerOwns ==
    /\ owner \in {NONE, "peer"}
    /\ owner' = IF owner = NONE THEN "peer" ELSE NONE
    /\ UNCHANGED <<lease, guards, names, served>>

-----------------------------------------------------------------------------
(* LeaseControl.                                                           *)

\* start: the cleanup worker is taken out and spawned at most once.
Started(x) ==
    IF x.starter THEN [x EXCEPT !.starter = FALSE, !.state = "Running", !.worker = "check"] ELSE x

Settled(x) == x.state \in {"Acknowledged", "Unacknowledged"}

Becomes(l, x) ==
    /\ lease' = [lease EXCEPT ![l] = x]
    /\ UNCHANGED <<guards, names, owner, served>>

-----------------------------------------------------------------------------
(* activate, on a task of its own.                                         *)

Reserve(l, ok) ==
    /\ lease[l].pc = "idle"
    /\ Becomes(l, IF ok THEN [lease[l] EXCEPT !.pc = "prepare", !.starter = TRUE]
                  ELSE [lease[l] EXCEPT !.pc = "over"])

\* validate, object, the callback and its address: each failure cleans up and
\* waits for it; a panic drops the rollback, which starts the cleanup alone.
Prepare(l, outcome) ==
    /\ lease[l].pc = "prepare"
    /\ IF outcome = "ok"
       THEN /\ lease' = [lease EXCEPT ![l].pc = "export"]
            /\ guards' = [guards EXCEPT ![l] = "lock"]
       ELSE /\ lease' = [lease EXCEPT ![l] =
                  [Started(@) EXCEPT !.pc = IF outcome = "panic" THEN "over" ELSE "closing"]]
            /\ UNCHANGED guards
    /\ UNCHANGED <<names, owner, served>>

\* The callback is exported, and only then does start run, on its own task.
Exported(l) ==
    /\ lease[l].pc = "export"
    /\ guards[l] \in {"held", "failed"}
    /\ Becomes(l, IF guards[l] = "held" THEN [lease[l] EXCEPT !.pc = "start", !.starting = TRUE]
                  ELSE [Started(lease[l]) EXCEPT !.pc = "closing"])

\* An unacknowledged start, or one that panicked, parks: nothing is cleaned
\* up beneath a runtime that may have started.
StartReturns(l, outcome) ==
    LET x == [lease[l] EXCEPT !.starting = FALSE] IN
    /\ lease[l].pc = "start" /\ lease[l].starting
    /\ Becomes(l, CASE outcome = "Started" -> [x EXCEPT !.pc = "leased", !.users = 1]
                    [] outcome = "SettledFailure" -> [Started(x) EXCEPT !.pc = "closing"]
                    [] OTHER -> [x EXCEPT !.pc = "parked"])

\* A failed activation reports whether its cleanup was acknowledged.
ActivationOver(l) ==
    /\ lease[l].pc = "closing" /\ Settled(lease[l])
    /\ Becomes(l, [lease[l] EXCEPT !.pc = "over"])

-----------------------------------------------------------------------------
(* The handles.                                                            *)

Clone(l) ==
    /\ lease[l].users \in 1..(MaxUsers - 1)
    /\ Becomes(l, [lease[l] EXCEPT !.users = @ + 1])

Dropped(x) == IF x.users = 1 THEN Started([x EXCEPT !.users = 0]) ELSE [x EXCEPT !.users = @ - 1]

\* Also the handle that lease's caller never received.
DropHandle(l) ==
    /\ lease[l].users > 0
    /\ lease[l].users > 1 \/ lease[l].closer # "waiting"
    /\ Becomes(l, Dropped(lease[l]))

Close(l) ==
    /\ lease[l].users > 0 /\ lease[l].closer = "idle"
    /\ Becomes(l, [Started(lease[l]) EXCEPT !.closer = "waiting"])

CloseReturns(l) ==
    /\ lease[l].closer = "waiting" /\ Settled(lease[l])
    /\ Becomes(l, [lease[l] EXCEPT !.closer = "answered"])

-----------------------------------------------------------------------------
(* cleanup_worker.                                                         *)

Unacknowledged(x) == [x EXCEPT !.state = "Unacknowledged"]

Park(x) == [Unacknowledged(x) EXCEPT !.worker = "parked"]

\* check_fault, before an attempt and after a failed one.
Attempt(l) ==
    LET x == lease[l] IN
    /\ x.worker = "check"
    /\ Becomes(l, IF x.failed THEN Park(x)
                  ELSE [x EXCEPT !.worker = "stop", !.stopping = @ + 1])

Retry(l) ==
    LET x == lease[l] IN
    /\ x.worker = "retry"
    /\ Becomes(l, IF x.failed THEN Park(x) ELSE [x EXCEPT !.worker = "check", !.attempt = @ + 1])

TimedOut_Quietly(x) == [x EXCEPT !.worker = "late"]

TimedOut(x) == [Unacknowledged(x) EXCEPT !.worker = "late"]

\* per_attempt_timeout: waiters are told, the attempt is still awaited.
AttemptTimeout(l) ==
    /\ lease[l].worker = "stop"
    /\ Becomes(l, TimedOut(lease[l]))

Withdraw_OnTimeout(l, outcome) == lease[l].worker = "late" \/ outcome = "Acknowledged"

\* Only an acknowledged stop takes the callback away.
Withdraw(l, outcome) == outcome = "Acknowledged"

StopReturns(l, outcome) ==
    LET x == [lease[l] EXCEPT !.stopping = @ - 1] IN
    /\ lease[l].worker \in {"stop", "late"}
    /\ lease' = [lease EXCEPT ![l] =
          CASE outcome = "Acknowledged" -> [x EXCEPT !.worker = "remove"]
            [] outcome = "RetryableFailure" /\ x.attempt < MaxAttempts -> [x EXCEPT !.worker = "retry"]
            [] OTHER -> Park(x)]
    /\ guards' = IF Withdraw(l, outcome) /\ guards[l] = "held"
                 THEN [guards EXCEPT ![l] = "removing"] ELSE guards
    /\ UNCHANGED <<names, owner, served>>

\* The callback is gone and the cleanup is acknowledged.
Acknowledge(l) ==
    /\ lease[l].worker = "remove" /\ guards[l] # "removing"
    /\ Becomes(l, [lease[l] EXCEPT !.state = "Acknowledged", !.worker = "done"])

\* The module of the lease faults (driver.failed).
Fails(l) ==
    /\ lease[l].pc # "idle" /\ ~lease[l].failed
    /\ Becomes(l, [lease[l] EXCEPT !.failed = TRUE])

-----------------------------------------------------------------------------
StopOutcomes == {"Acknowledged", "RetryableFailure", "Unacknowledged", "panic"}

Registry(r) == Claim(r) \/ Register(r) \/ Removes(r)

Task(l) ==
    \/ \E ok \in BOOLEAN : Reserve(l, ok)
    \/ \E outcome \in {"ok", "fail", "panic"} : Prepare(l, outcome)
    \/ Exported(l) \/ ActivationOver(l) \/ CloseReturns(l)
    \/ Attempt(l) \/ Retry(l) \/ AttemptTimeout(l) \/ Acknowledge(l)

Next ==
    \/ \E o \in Objects : Serve(o) \/ DropGuard(o)
    \/ \E r \in Registrants : Registry(r) \/ RegisterFails(r)
    \/ PeerOwns
    \/ \E l \in Leases :
        \/ Task(l)
        \/ \E outcome \in {"Started", "SettledFailure", "Unacknowledged", "panic"} :
              StartReturns(l, outcome)
        \/ \E outcome \in StopOutcomes : StopReturns(l, outcome)
        \/ Clone(l) \/ DropHandle(l) \/ Close(l) \/ Fails(l)

\* Fairness: the runtime schedules its tasks and timers; drivers may hang.
Fairness ==
    /\ \A l \in Leases : WF_vars(Task(l))
    /\ \A r \in Registrants : WF_vars(Registry(r))

Spec == Init /\ [][Next]_vars

FairSpec == Spec /\ Fairness

-----------------------------------------------------------------------------
(* Properties.                                                             *)

(* While no registration is under way, the host owns the shared name exactly
   when the program owned it before or some object still uses it: a failed
   export gives back what it claimed, and neither it nor a removal takes the
   name from under another object (serve_host_object_transaction,
   remove_host_object). *)
NameFollowsUse ==
    names.lock = NONE => (owner = "host" <=> names.kept \/ names.count > 0)

(* The callback of a lease, once exported, stays so until a stop of its module
   is acknowledged - through timed out, failed and abandoned stops -
   unless a newer object replaces it at its path, whose export then no
   removal of an older one takes away (HostObjectGuard, take_if_owned). *)
CallbackKept ==
    [][\A r \in Registrants :
        served[PathOf[r]] = r /\ served'[PathOf[r]] # r =>
            \/ served'[PathOf[r]] # NONE /\ guards[served'[PathOf[r]]] = "claimed"
            \/ guards[r] = "removing" /\ (r \in Leases => lease[r].worker = "remove")]_vars

(* Every close returns, also when the driver's stop never does: a deadline
   or a fault answers it (wait, per_attempt_timeout).  The callback's own
   destructor is code of the program and returns. *)
CloseAnswered ==
    \A l \in Leases : (lease[l].closer = "waiting") ~> (lease[l].closer = "answered")

=============================================================================
