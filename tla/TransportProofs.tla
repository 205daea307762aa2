-------------------------- MODULE TransportProofs --------------------------
(***************************************************************************)
(* Theorems about the module transport, for any messages, stoppers and     *)
(* modes: shutdown runs once and alone, physical completion is published   *)
(* only when it is so, and an ordinary stop does not turn into a fault.    *)
(* All follow from one inductive invariant, TransportInv.                  *)
(***************************************************************************)
EXTENDS ModuleTransport, TLAPS

Phases == {"Deferred", "Scheduled", "Entered", "PublishedValid", "PublishedRejected",
           "ExternalValid", "CanceledBeforeEntry"}

Fields ==
    {"mode", "gate", "hostWork", "faulted", "stopIntent", "halted", "closed", "stopped",
     "ready", "initFailed", "inbound", "module", "bound", "init", "cleanup", "job",
     "result", "jobFaults", "loader", "lock", "active", "pending", "inflight",
     "shutdowns", "fate"}

(* A transport's record, its queue, counters and what the module says of   *)
(* itself left open: no theorem here is about those.                       *)
IsTransport(x) ==
    /\ DOMAIN x = Fields
    /\ x.mode \in {"deferred", "eager"} /\ x.gate \in {"paused", "open", "refused"}
    /\ x.faulted \in BOOLEAN /\ x.stopIntent \in BOOLEAN /\ x.closed \in BOOLEAN
    /\ x.stopped \in BOOLEAN /\ x.module \in BOOLEAN /\ x.jobFaults \in BOOLEAN
    /\ x.init \in Phases
    /\ x.cleanup \in {"Idle", "Requested", "Executing"} \cup Final
    /\ x.job \in {"none", "init", "cleanup"} /\ x.result \in {"none", "ok", "failed", "closed"}
    /\ x.loader \in {"none", "inside", "returned"}
    /\ x.lock \in {"free", "worker", "reinit", "eager"}
    /\ x.active \in SUBSET {"send", "drain"} /\ x.shutdowns \in {0, 1}

TaskTypes ==
    /\ sending \in [pc : {"idle", "gate", "init", "route", "check", "native", "parked"},
                    msg : Nat, initiating : BOOLEAN]
    /\ stops \in [Stoppers -> [pc : {"idle", "lock", "wait", "done", "started", "notStarted"},
                               handoff : BOOLEAN]]
    /\ reinit \in [pc : {"idle", "lock", "awaitInit", "awaitReady", "native", "over"},
                   native : BOOLEAN]

TransportTypes ==
    /\ IsTransport(t)
    /\ worker \in {"none", "submitted", "initializing", "returned", "cleanup", "executing",
                   "shutdown"}
    /\ TaskTypes

(* The lifecycle lock. *)
LockHeld ==
    /\ reinit.native <=> t.lock = "reinit"
    /\ t.loader # "none" <=> t.lock = "eager"
    /\ worker \in {"initializing", "returned", "executing", "shutdown"} => t.lock = "worker"

(* What the worker is at. *)
WorkerAt ==
    /\ worker # "none" => t.job # "none"
    /\ worker = "submitted" /\ t.job = "init" => t.init = "Scheduled"
    /\ worker \in {"initializing", "returned"} =>
         t.init = "Entered" /\ t.job = "init" /\ t.cleanup \in {"Idle", "Requested"}
    /\ worker = "returned" => t.module \/ t.faulted
    /\ worker \in {"executing", "shutdown"} => t.cleanup = "Executing" /\ t.module
    /\ worker = "executing" => t.shutdowns = 0
    /\ worker = "shutdown" => t.shutdowns = 1 /\ t.active = {}

(* How far the initialiser has come. *)
InitAt ==
    /\ t.init = "Scheduled" => t.job = "init"
    /\ t.init = "Entered" => worker \in {"initializing", "returned"} \/ t.loader # "none"
    /\ t.loader # "none" =>
         t.init = "Entered" /\ t.mode = "eager" /\ t.shutdowns = 0 /\ (t.closed => t.faulted)
    /\ t.loader # "none" /\ t.result # "none" => worker = "none" /\ t.job # "none"
    /\ t.init \in {"PublishedValid", "PublishedRejected", "ExternalValid",
                   "CanceledBeforeEntry"} => t.result # "none"
    /\ t.init = "CanceledBeforeEntry" =>
         t.cleanup = "NoCallbackRequired" /\ t.job = "none"

(* Who needs the module has it. *)
ModuleHeld ==
    /\ t.module => t.init \in {"PublishedValid", "ExternalValid"}
                     \/ (t.init = "Entered" /\ t.loader # "inside")
    /\ t.active # {} \/ reinit.native \/ t.shutdowns = 1 \/ t.result = "ok" => t.module

(* What a flag implies. *)
Ending ==
    /\ t.faulted \/ t.cleanup # "Idle" \/ t.stopped => t.closed
    /\ t.init = "Deferred" /\ t.result # "none" => t.closed
    /\ t.closed => t.stopIntent
    /\ t.cleanup \in {"Idle", "Requested"} => t.shutdowns = 0
    /\ t.stopped =>
         /\ t.active = {} /\ ~reinit.native
         /\ t.init = "CanceledBeforeEntry" \/ (t.shutdowns = 1 /\ worker # "shutdown")

(* An eager module is nobody's business before its initialiser returned. *)
Unseen ==
    t.mode = "eager" =>
        /\ t.gate # "paused"
        /\ t.result # "ok" => sending.pc = "idle" /\ \A s \in Stoppers : stops[s].pc = "idle"
        /\ t.init = "Deferred" =>
             /\ t.job = "none" /\ t.lock = "free" /\ ~t.closed /\ t.result = "none"

(* Who may publish a fault. *)
Blame ==
    /\ t.gate = "paused" => t.init \in {"Deferred", "CanceledBeforeEntry"}
    /\ sending.pc = "init" => t.init # "Deferred"
    /\ t.job = "init" => t.jobFaults
    /\ t.job # "none" /\ ~t.jobFaults /\ t.result = "none" => t.init = "Deferred"
    /\ t.result = "failed" /\ ~t.faulted => t.init = "Deferred"

TransportInv ==
    TransportTypes /\ LockHeld /\ WorkerAt /\ InitAt /\ ModuleHeld /\ Ending /\ Unseen /\ Blame
-----------------------------------------------------------------------------
(* What the steps do to the transport's record.                            *)

(* The fields the invariant speaks of. *)
Same(x, y) ==
    /\ y.mode = x.mode /\ y.gate = x.gate /\ y.faulted = x.faulted
    /\ y.stopIntent = x.stopIntent /\ y.closed = x.closed /\ y.stopped = x.stopped
    /\ y.module = x.module /\ y.init = x.init /\ y.cleanup = x.cleanup /\ y.job = x.job
    /\ y.result = x.result /\ y.jobFaults = x.jobFaults /\ y.loader = x.loader
    /\ y.lock = x.lock /\ y.active \subseteq x.active /\ y.shutdowns = x.shutdowns

(* Nobody owns the cleanup yet. *)
Unowned(x) == x.job = "none" /\ x.cleanup \in {"Idle", "Requested"}

(* From x a terminal reason was committed and the cleanup given an owner. *)
Ended(x, y, fault) ==
    /\ y.mode = x.mode /\ y.gate \in {x.gate, "refused"} /\ y.module = x.module
    /\ y.loader = x.loader /\ y.lock = x.lock /\ y.active \subseteq x.active
    /\ y.shutdowns = x.shutdowns
    /\ y.closed /\ y.stopIntent /\ y.faulted = (x.faulted \/ fault)
    /\ \/ /\ ~Unowned(x)
          /\ y.init = x.init /\ y.job = x.job /\ y.result = x.result
          /\ y.jobFaults = x.jobFaults /\ y.stopped = x.stopped
          /\ y.cleanup = IF x.cleanup = "Idle" THEN "Requested" ELSE x.cleanup
       \/ /\ Unowned(x) /\ x.init = "Deferred"
          /\ y.init = "CanceledBeforeEntry" /\ y.job = "none" /\ y.result = "closed"
          /\ y.cleanup = "NoCallbackRequired" /\ y.stopped /\ y.jobFaults = x.jobFaults
       \/ /\ Unowned(x) /\ x.init # "Deferred"
          /\ y.init = x.init /\ y.job = "cleanup" /\ y.result = x.result
          /\ y.jobFaults = fault /\ y.cleanup = "Requested" /\ y.stopped = x.stopped

(* Fates are no concern of the invariant. *)
LEMMA FatedSame ==
    ASSUME NEW x, IsTransport(x), NEW S, NEW f
    PROVE  /\ IsTransport(Fated(x, S, f)) /\ Same(x, Fated(x, S, f))
           /\ Fated(x, S, f).active = x.active
  BY DEF Fated, IsTransport, Fields, Same

(* commit_terminal, field by field. *)
LEMMA CommitFields ==
    ASSUME NEW x, IsTransport(x), NEW fault \in BOOLEAN
    PROVE  LET y == CommitTerminal(x, fault) IN
           /\ IsTransport(y)
           /\ y.closed /\ y.stopIntent /\ y.faulted = (x.faulted \/ fault)
           /\ y.mode = x.mode /\ y.gate = x.gate /\ y.stopped = x.stopped
           /\ y.module = x.module /\ y.init = x.init /\ y.cleanup = x.cleanup
           /\ y.job = x.job /\ y.result = x.result /\ y.jobFaults = x.jobFaults
           /\ y.loader = x.loader /\ y.lock = x.lock /\ y.active = x.active
           /\ y.shutdowns = x.shutdowns
  <1> DEFINE b == x.faulted \/ fault
             p == [x EXCEPT !.faulted = b, !.stopIntent = TRUE]
             q == Fated(p, Range(p.pending), "discarded")
  <1>1. b \in BOOLEAN
    OBVIOUS
  <1> HIDE DEF b
  <1>2. /\ IsTransport(p) /\ p.faulted = b /\ p.stopIntent
        /\ p.closed = x.closed
        /\ p.mode = x.mode /\ p.gate = x.gate /\ p.stopped = x.stopped
        /\ p.module = x.module /\ p.init = x.init /\ p.cleanup = x.cleanup
        /\ p.job = x.job /\ p.result = x.result /\ p.jobFaults = x.jobFaults
        /\ p.loader = x.loader /\ p.lock = x.lock /\ p.active = x.active
        /\ p.shutdowns = x.shutdowns
    BY <1>1 DEF IsTransport, Fields
  <1>3. PublishFlags(x, fault) = p
    BY DEF PublishFlags, b
  <1> HIDE DEF p
  <1>4. IsTransport(q) /\ Same(p, q) /\ q.active = p.active
    BY <1>2, FatedSame
  <1> HIDE DEF q
  <1>5. CommitTerminal(x, fault) = [q EXCEPT !.closed = TRUE, !.pending = <<>>]
    BY <1>3 DEF CommitTerminal, CloseAdmission, q
  <1> DEFINE z == [q EXCEPT !.closed = TRUE, !.pending = <<>>]
  <1>6. /\ IsTransport(z) /\ z.closed /\ z.stopIntent = q.stopIntent
        /\ z.faulted = q.faulted
        /\ z.mode = q.mode /\ z.gate = q.gate /\ z.stopped = q.stopped
        /\ z.module = q.module /\ z.init = q.init /\ z.cleanup = q.cleanup
        /\ z.job = q.job /\ z.result = q.result /\ z.jobFaults = q.jobFaults
        /\ z.loader = q.loader /\ z.lock = q.lock /\ z.active = q.active
        /\ z.shutdowns = q.shutdowns
    BY <1>4 DEF IsTransport, Fields
  <1> HIDE DEF z
  <1>7. CommitTerminal(x, fault) = z
    BY <1>5 DEF z
  <1>8. QED
    BY <1>2, <1>4, <1>6, <1>7 DEF Same, b

(* The cancellation of an initialiser that never ran, field by field. *)
LEMMA CanceledFields ==
    ASSUME NEW x, IsTransport(x)
    PROVE  LET y == Canceled(x) IN
           /\ IsTransport(y)
           /\ y.closed = x.closed /\ y.stopIntent = x.stopIntent /\ y.faulted = x.faulted
           /\ y.mode = x.mode /\ y.gate = x.gate /\ y.stopped
           /\ y.module = x.module /\ y.init = "CanceledBeforeEntry"
           /\ y.cleanup = "NoCallbackRequired"
           /\ y.job = "none" /\ y.result = "closed" /\ y.jobFaults = x.jobFaults
           /\ y.loader = x.loader /\ y.lock = x.lock /\ y.active = x.active
           /\ y.shutdowns = x.shutdowns
  <1> DEFINE c == [x EXCEPT !.init = "CanceledBeforeEntry", !.job = "none",
                            !.cleanup = "NoCallbackRequired", !.result = "closed"]
             y == [c EXCEPT !.stopped = TRUE, !.inbound = FALSE]
  <1>1. /\ IsTransport(c)
        /\ c.closed = x.closed /\ c.stopIntent = x.stopIntent /\ c.faulted = x.faulted
        /\ c.mode = x.mode /\ c.gate = x.gate
        /\ c.module = x.module /\ c.init = "CanceledBeforeEntry"
        /\ c.cleanup = "NoCallbackRequired"
        /\ c.job = "none" /\ c.result = "closed" /\ c.jobFaults = x.jobFaults
        /\ c.loader = x.loader /\ c.lock = x.lock /\ c.active = x.active
        /\ c.shutdowns = x.shutdowns
    BY DEF IsTransport, Fields, Phases, Final
  <1>2. Canceled(x) = y
    BY DEF Canceled, FinishStop
  <1> HIDE DEF c
  <1>3. /\ IsTransport(y) /\ y.stopped
        /\ y.closed = c.closed /\ y.stopIntent = c.stopIntent /\ y.faulted = c.faulted
        /\ y.mode = c.mode /\ y.gate = c.gate
        /\ y.module = c.module /\ y.init = c.init /\ y.cleanup = c.cleanup
        /\ y.job = c.job /\ y.result = c.result /\ y.jobFaults = c.jobFaults
        /\ y.loader = c.loader /\ y.lock = c.lock /\ y.active = c.active
        /\ y.shutdowns = c.shutdowns
    BY <1>1 DEF IsTransport, Fields
  <1> HIDE DEF y
  <1>4. QED
    BY <1>1, <1>2, <1>3

(* request_terminal. *)
LEMMA TerminalEnds ==
    ASSUME NEW x, IsTransport(x), NEW fault \in BOOLEAN
    PROVE  LET y == RequestTerminal(x, fault) IN
           IsTransport(y) /\ y.gate = x.gate /\ Ended(x, y, fault)
  <1> DEFINE c == CommitTerminal(x, fault)
             r == Requested(c)
             j == [r EXCEPT !.job = "cleanup", !.jobFaults = fault]
  <1>1. /\ IsTransport(c)
        /\ c.closed /\ c.stopIntent /\ c.faulted = (x.faulted \/ fault)
        /\ c.mode = x.mode /\ c.gate = x.gate /\ c.stopped = x.stopped
        /\ c.module = x.module /\ c.init = x.init /\ c.cleanup = x.cleanup
        /\ c.job = x.job /\ c.result = x.result /\ c.jobFaults = x.jobFaults
        /\ c.loader = x.loader /\ c.lock = x.lock /\ c.active = x.active
        /\ c.shutdowns = x.shutdowns
    BY CommitFields
  <1> HIDE DEF c
  <1>2. /\ IsTransport(r)
        /\ r.cleanup = IF x.cleanup = "Idle" THEN "Requested" ELSE x.cleanup
        /\ r.closed = c.closed /\ r.stopIntent = c.stopIntent /\ r.faulted = c.faulted
        /\ r.mode = c.mode /\ r.gate = c.gate /\ r.stopped = c.stopped
        /\ r.module = c.module /\ r.init = c.init
        /\ r.job = c.job /\ r.result = c.result /\ r.jobFaults = c.jobFaults
        /\ r.loader = c.loader /\ r.lock = c.lock /\ r.active = c.active
        /\ r.shutdowns = c.shutdowns
    <2>1. CASE c.cleanup = "Idle"
      <3> DEFINE d == [c EXCEPT !.cleanup = "Requested"]
      <3>1. /\ IsTransport(d) /\ d.cleanup = "Requested"
            /\ d.closed = c.closed /\ d.stopIntent = c.stopIntent /\ d.faulted = c.faulted
            /\ d.mode = c.mode /\ d.gate = c.gate /\ d.stopped = c.stopped
            /\ d.module = c.module /\ d.init = c.init
            /\ d.job = c.job /\ d.result = c.result /\ d.jobFaults = c.jobFaults
            /\ d.loader = c.loader /\ d.lock = c.lock /\ d.active = c.active
            /\ d.shutdowns = c.shutdowns
        BY <1>1 DEF IsTransport, Fields
      <3>2. r = d
        BY <2>1 DEF Requested, r
      <3> HIDE DEF d, r
      <3>3. QED
        BY <1>1, <2>1, <3>1, <3>2
    <2>2. CASE c.cleanup # "Idle"
      BY <1>1, <2>2 DEF Requested
    <2>3. QED
      BY <2>1, <2>2
  <1> HIDE DEF r
  <1>3. /\ IsTransport(j) /\ j.job = "cleanup" /\ j.jobFaults = fault
        /\ j.cleanup = r.cleanup
        /\ j.closed = r.closed /\ j.stopIntent = r.stopIntent /\ j.faulted = r.faulted
        /\ j.mode = r.mode /\ j.gate = r.gate /\ j.stopped = r.stopped
        /\ j.module = r.module /\ j.init = r.init /\ j.result = r.result
        /\ j.loader = r.loader /\ j.lock = r.lock /\ j.active = r.active
        /\ j.shutdowns = r.shutdowns
    BY <1>2 DEF IsTransport, Fields
  <1> HIDE DEF j
  <1>4. RequestTerminal(x, fault) =
          IF ~NeedsJob(r) THEN r ELSE IF r.init = "Deferred" THEN Canceled(r) ELSE j
    BY DEF RequestTerminal, r, c, j
  <1>5. NeedsJob(r) <=> Unowned(x)
    BY <1>1, <1>2 DEF NeedsJob, Unowned
  <1>6. CASE ~Unowned(x)
    BY <1>1, <1>2, <1>4, <1>5, <1>6 DEF Ended
  <1>7. CASE Unowned(x) /\ r.init = "Deferred"
    <2> DEFINE y == Canceled(r)
    <2>1. RequestTerminal(x, fault) = y
      BY <1>4, <1>5, <1>7
    <2>2. /\ IsTransport(y)
          /\ y.closed = r.closed /\ y.stopIntent = r.stopIntent /\ y.faulted = r.faulted
          /\ y.mode = r.mode /\ y.gate = r.gate /\ y.stopped
          /\ y.module = r.module /\ y.init = "CanceledBeforeEntry"
          /\ y.cleanup = "NoCallbackRequired"
          /\ y.job = "none" /\ y.result = "closed" /\ y.jobFaults = r.jobFaults
          /\ y.loader = r.loader /\ y.lock = r.lock /\ y.active = r.active
          /\ y.shutdowns = r.shutdowns
      BY <1>2, CanceledFields
    <2> HIDE DEF y
    <2>3. x.init = "Deferred" /\ y.gate = x.gate
      BY <1>1, <1>2, <1>7, <2>2
    <2>4. Ended(x, y, fault)
      BY <1>1, <1>2, <1>7, <2>2, <2>3 DEF Ended
    <2>5. QED
      BY <2>1, <2>2, <2>3, <2>4
  <1>8. CASE Unowned(x) /\ r.init # "Deferred"
    <2>1. RequestTerminal(x, fault) = j
      BY <1>4, <1>5, <1>8
    <2>2. j.cleanup = "Requested"
      BY <1>2, <1>3, <1>8 DEF Unowned
    <2>3. x.init # "Deferred" /\ j.gate = x.gate
      BY <1>1, <1>2, <1>3, <1>8
    <2>4. Ended(x, j, fault)
      BY <1>1, <1>2, <1>3, <1>8, <2>2, <2>3 DEF Ended
    <2>5. QED
      BY <1>3, <2>1, <2>3, <2>4
  <1>9. QED
    BY <1>6, <1>7, <1>8

(* A second terminal reason finds the cleanup owned. *)
LEMMA EndedTwice ==
    ASSUME NEW x, NEW y, NEW z, Ended(x, y, TRUE), Ended(y, z, TRUE)
    PROVE  Ended(x, z, TRUE)
  BY DEF Ended, Unowned
-----------------------------------------------------------------------------
(* Steps that leave the invariant's fields alone, or only end things.      *)

(* What the tasks around the transport do besides. *)
Quietly ==
    /\ TaskTypes'
    /\ reinit'.native = reinit.native
    /\ t.mode = "eager" /\ t.result # "ok" =>
         sending'.pc = "idle" /\ \A s \in Stoppers : stops'[s].pc = "idle"
    /\ sending'.pc = "init" => t.init # "Deferred"

LEMMA SameKeeps ==
    ASSUME TransportInv, Quietly, IsTransport(t'), Same(t, t'), worker' = worker
    PROVE  TransportInv'
  <1> USE DEF TransportInv, TransportTypes, Same, Quietly
  <1>1. TransportTypes'
    OBVIOUS
  <1>2. LockHeld'
    BY DEF LockHeld
  <1>3. WorkerAt'
    BY DEF WorkerAt
  <1>4. InitAt'
    BY DEF InitAt
  <1>5. ModuleHeld'
    BY DEF ModuleHeld
  <1>6. Ending'
    BY DEF Ending
  <1>7. Unseen'
    BY DEF Unseen
  <1>8. Blame'
    BY DEF Blame
  <1>9. QED
    BY <1>1, <1>2, <1>3, <1>4, <1>5, <1>6, <1>7, <1>8

(* A fault ends it at any time, another reason while the gate is paused. *)
LEMMA EndedKeeps ==
    ASSUME TransportInv, Quietly, IsTransport(t'), NEW fault \in BOOLEAN,
           Ended(t, t', fault), worker' = Submitted(t'), fault \/ t.gate = "paused"
    PROVE  TransportInv'
  <1> USE DEF TransportInv, TransportTypes, Quietly
  <1>1. worker' = worker \/ (Unowned(t) /\ worker = "none" /\ worker' = "submitted")
    BY DEF Submitted, Ended, WorkerAt
  <1>2. worker' # worker => t'.job = "cleanup"
    BY DEF Submitted, Ended, Unowned
  <1>3. Unowned(t) => worker = "none"
    BY DEF WorkerAt, Unowned
  <1>a. Unowned(t) /\ t.init # "Deferred" => worker' = "submitted"
    BY DEF Submitted, Ended, Unowned
  <1>4. TransportTypes'
    BY <1>1
  <1>5. LockHeld'
    BY <1>1 DEF LockHeld, Ended
  <1>6. WorkerAt'
    BY <1>1, <1>2, <1>3 DEF WorkerAt, Ended
  <1>7. InitAt'
    BY <1>1, <1>3, <1>a DEF InitAt, WorkerAt, Unseen, Ended, Unowned
  <1>8. ModuleHeld'
    BY <1>1, <1>3 DEF ModuleHeld, WorkerAt, Ended
  <1>9. Ending'
    BY <1>1, <1>2, <1>3 DEF Ending, WorkerAt, ModuleHeld, Ended, Unowned
  <1>10. Unseen'
    BY DEF Unseen, InitAt, Ending, Ended, Unowned
  <1>11. Blame'
    BY DEF Blame, InitAt, Ended, Unowned
  <1>12. QED
    BY <1>4, <1>5, <1>6, <1>7, <1>8, <1>9, <1>10, <1>11

-----------------------------------------------------------------------------
(* The steps, one lemma for each kind.                                     *)

LEMMA StepKeeps ==
    ASSUME TransportInv, Quietly, IsTransport(t'),
           Same(t, t') \/ Ended(t, t', TRUE), worker' = Submitted(t')
    PROVE  TransportInv'
  <1>1. CASE Same(t, t')
    <2>1. worker' = worker
      BY <1>1 DEF Same, Submitted
    <2>2. QED
      BY <1>1, <2>1, SameKeeps
  <1>2. CASE Ended(t, t', TRUE)
    BY <1>2, EndedKeeps
  <1>3. QED
    BY <1>1, <1>2

(* A fault raised on the way does not change what a terminal request ends. *)
Faulting(x, p) ==
    /\ p.mode = x.mode /\ p.gate = x.gate /\ p.stopped = x.stopped
    /\ p.module = x.module /\ p.init = x.init /\ p.job = x.job
    /\ p.cleanup = x.cleanup \/ (x.cleanup = "Idle" /\ p.cleanup = "Requested")
    /\ p.result = x.result /\ p.jobFaults = x.jobFaults /\ p.loader = x.loader
    /\ p.lock = x.lock /\ p.active \subseteq x.active /\ p.shutdowns = x.shutdowns

LEMMA FaultingEnds ==
    ASSUME NEW x, NEW p, NEW y, IsTransport(y), Faulting(x, p), Ended(p, y, TRUE)
    PROVE  Ended(x, y, TRUE)
  BY DEF Faulting, Ended, Unowned, IsTransport

LEMMA SameEnds ==
    ASSUME NEW x, NEW p, NEW y, IsTransport(y), Same(x, p), Ended(p, y, TRUE)
    PROVE  Ended(x, y, TRUE)
  BY DEF Same, Ended, Unowned, IsTransport

LEMMA SameTwice ==
    ASSUME NEW x, NEW p, NEW y, Same(x, p), Same(p, y)
    PROVE  Same(x, y)
  BY DEF Same

(* What a failed send or delivery may do to the record. *)
Settles(x, y) == IsTransport(y) /\ (Same(x, y) \/ Ended(x, y, TRUE))

LEMMA InitErrorSettles ==
    ASSUME NEW x, IsTransport(x), NEW closure \in BOOLEAN
    PROVE  LET y == InitError(x, closure) IN
           /\ IsTransport(y)
           /\ x.closed /\ closure => Same(x, y)
           /\ ~(x.closed /\ closure) => Ended(x, y, TRUE)
  <1> DEFINE m == sending.msg
             f == IF IsCall(m) /\ x.inbound THEN "replied" ELSE "refused"
             p == PublishFlags(x, TRUE)
             q == [p EXCEPT !.initFailed = TRUE, !.inbound = @ /\ ~IsCall(m)]
             r == Fated(q, {m}, f)
             y == RequestTerminal(r, TRUE)
  <1>1. IsTransport(p) /\ Faulting(x, p)
    BY DEF PublishFlags, IsTransport, Fields, Faulting
  <1> HIDE DEF p
  <1>2. IsTransport(q) /\ Faulting(x, q)
    BY <1>1 DEF IsTransport, Fields, Faulting
  <1> HIDE DEF q
  <1>3. IsTransport(r) /\ Same(q, r)
    BY <1>2, FatedSame
  <1> HIDE DEF r
  <1>4. IsTransport(y) /\ Ended(r, y, TRUE)
    BY <1>3, TerminalEnds
  <1> HIDE DEF y
  <1>5. Ended(x, y, TRUE)
    BY <1>2, <1>3, <1>4, SameEnds, FaultingEnds
  <1>6. InitError(x, closure) = IF x.closed /\ closure THEN Fated(x, {m}, "refused") ELSE y
    BY DEF InitError, y, r, q, p
  <1>7. CASE x.closed /\ closure
    BY <1>6, <1>7, FatedSame
  <1>8. CASE ~(x.closed /\ closure)
    BY <1>4, <1>5, <1>6, <1>8
  <1>9. QED
    BY <1>7, <1>8

LEMMA AbandonSettles ==
    ASSUME NEW x, IsTransport(x)
    PROVE  Settles(x, Abandon(x))
  <1> DEFINE p == PublishFlags(x, TRUE)
             q == Requested(p)
             y == RequestTerminal(q, TRUE)
  <1>1. IsTransport(p) /\ Faulting(x, p) /\ p.cleanup = x.cleanup
    BY DEF PublishFlags, IsTransport, Fields, Faulting
  <1> HIDE DEF p
  <1>2. IsTransport(q) /\ Faulting(x, q)
    BY <1>1 DEF Requested, IsTransport, Fields, Faulting
  <1> HIDE DEF q
  <1>3. IsTransport(y) /\ Ended(q, y, TRUE)
    BY <1>2, TerminalEnds
  <1> HIDE DEF y
  <1>4. Ended(x, y, TRUE)
    BY <1>2, <1>3, FaultingEnds
  <1>5. Abandon(x) = x \/ Abandon(x) = y
    BY DEF Abandon, y, q, p
  <1>6. Same(x, x)
    BY DEF Same
  <1>7. QED
    BY <1>3, <1>4, <1>5, <1>6 DEF Settles

LEMMA FaultPendingSettles ==
    ASSUME NEW x, IsTransport(x), NEW m, NEW closure \in BOOLEAN
    PROVE  LET y == FaultPending(x, m, closure) IN
           /\ IsTransport(y)
           /\ x.closed /\ closure => Same(x, y)
           /\ ~(x.closed /\ closure) => Ended(x, y, TRUE)
  <1> DEFINE lost == Range(x.pending) \cup {m}
             calls == {c \in lost : IsCall(c)}
             p == PublishFlags(x, TRUE)
             q == [p EXCEPT !.pending = <<>>]
             a == Fated(q, calls, "replied")
             b == [a EXCEPT !.inflight = @ - Cardinality(calls)]
             c == Fated(q, lost, "unanswered")
             z == IF x.inbound THEN b ELSE c
             r == RequestTerminal(z, TRUE)
             y == [r EXCEPT !.inbound = FALSE]
             d == [x EXCEPT !.pending = <<>>]
  <1>1. IsTransport(p) /\ Faulting(x, p)
    BY DEF PublishFlags, IsTransport, Fields, Faulting
  <1> HIDE DEF p
  <1>2. IsTransport(q) /\ Faulting(x, q)
    BY <1>1 DEF IsTransport, Fields, Faulting
  <1> HIDE DEF q
  <1>3. IsTransport(a) /\ Same(q, a) /\ IsTransport(c) /\ Same(q, c)
    BY <1>2, FatedSame
  <1> HIDE DEF a, c
  <1>4. IsTransport(b) /\ Same(q, b)
    BY <1>3 DEF IsTransport, Fields, Same
  <1> HIDE DEF b
  <1>5. IsTransport(z) /\ Same(q, z)
    BY <1>3, <1>4
  <1> HIDE DEF z
  <1>6. IsTransport(r) /\ Ended(z, r, TRUE)
    BY <1>5, TerminalEnds
  <1> HIDE DEF r
  <1>7. Ended(x, r, TRUE)
    BY <1>2, <1>5, <1>6, SameEnds, FaultingEnds
  <1>8. IsTransport(y) /\ Same(r, y) /\ y.active = r.active
    BY <1>6 DEF IsTransport, Fields, Same
  <1> HIDE DEF y
  <1>9. Ended(x, y, TRUE)
    BY <1>7, <1>8 DEF Same, Ended
  <1>10. IsTransport(d) /\ Same(x, d)
    BY DEF IsTransport, Fields, Same
  <1> HIDE DEF d
  <1>11. IsTransport(Fated(d, lost, "discarded")) /\ Same(x, Fated(d, lost, "discarded"))
    BY <1>10, FatedSame, SameTwice
  <1>12. FaultPending(x, m, closure) =
           IF x.closed /\ closure THEN Fated(d, lost, "discarded") ELSE y
    BY DEF FaultPending, y, r, z, b, a, c, q, p, d
  <1>13. CASE x.closed /\ closure
    BY <1>11, <1>12, <1>13
  <1>14. CASE ~(x.closed /\ closure)
    BY <1>8, <1>9, <1>12, <1>14
  <1>15. QED
    BY <1>13, <1>14

(* A message on its way means that its module may be seen. *)
LEMMA SendingSeen ==
    ASSUME TransportInv, sending.pc # "idle"
    PROVE  t.mode = "eager" => t.result = "ok"
  BY DEF TransportInv, Unseen

(* release_initialization. *)
LEMMA ReleaseKeeps ==
    ASSUME TransportInv, NEW allowed \in BOOLEAN, ReleaseInitialization(allowed)
    PROVE  TransportInv'
  <1> USE DEF TransportInv, TransportTypes
  <1>1. Quietly
    BY DEF ReleaseInitialization, Quietly, TaskTypes, Unseen, Blame
  <1>2. CASE allowed
    <2>1. t' = [t EXCEPT !.gate = "open"] /\ worker' = Submitted(t')
      BY <1>2 DEF ReleaseInitialization, Become
    <2>2. worker' = worker
      BY <2>1 DEF Submitted, IsTransport, Fields
    <2>3. TransportTypes'
      BY <1>1, <2>1, <2>2 DEF IsTransport, Fields, Quietly
    <2>4. \A f \in Fields \ {"gate"} : t'[f] = t[f]
      BY <2>1 DEF IsTransport
    <2>5. /\ t'.gate = "open" /\ t'.mode = t.mode /\ t'.faulted = t.faulted
          /\ t'.stopIntent = t.stopIntent /\ t'.closed = t.closed /\ t'.stopped = t.stopped
          /\ t'.module = t.module /\ t'.init = t.init /\ t'.cleanup = t.cleanup
          /\ t'.job = t.job /\ t'.result = t.result /\ t'.jobFaults = t.jobFaults
          /\ t'.loader = t.loader /\ t'.lock = t.lock /\ t'.active = t.active
          /\ t'.shutdowns = t.shutdowns
      BY <2>1 DEF IsTransport, Fields
    <2>6. LockHeld' /\ WorkerAt' /\ InitAt' /\ ModuleHeld' /\ Ending'
      <3>1. LockHeld'
        BY <1>1, <2>2, <2>5 DEF LockHeld, Quietly
      <3>2. WorkerAt'
        BY <1>1, <2>2, <2>5 DEF WorkerAt, Quietly
      <3>3. InitAt'
        BY <1>1, <2>2, <2>5 DEF InitAt, Quietly
      <3>4. ModuleHeld'
        BY <1>1, <2>2, <2>5 DEF ModuleHeld, Quietly
      <3>5. Ending'
        BY <1>1, <2>2, <2>5 DEF Ending, Quietly
      <3>6. QED
        BY <3>1, <3>2, <3>3, <3>4, <3>5
    <2>7. Unseen' /\ Blame'
      <3>1. Unseen'
        BY <1>1, <2>2, <2>5 DEF Unseen, Quietly
      <3>2. Blame'
        BY <1>1, <2>2, <2>5 DEF Blame, Quietly
      <3>3. QED
        BY <3>1, <3>2
    <2>8. QED
      BY <2>3, <2>6, <2>7
  <1>3. CASE ~allowed
    <2> DEFINE g == [t EXCEPT !.gate = "refused"]
               fault == ~t.stopIntent \/ t.faulted
    <2>1. t' = RequestTerminal(g, fault) /\ worker' = Submitted(t')
      BY <1>3 DEF ReleaseInitialization, Become
    <2>2. /\ IsTransport(g) /\ g.gate = "refused" /\ Faulting([t EXCEPT !.gate = "refused"], g)
          /\ g.closed = t.closed /\ g.faulted = t.faulted
          /\ g.mode = t.mode /\ g.stopped = t.stopped
          /\ g.module = t.module /\ g.init = t.init /\ g.job = t.job
          /\ g.cleanup = t.cleanup
          /\ g.result = t.result /\ g.jobFaults = t.jobFaults /\ g.loader = t.loader
          /\ g.lock = t.lock /\ g.active = t.active /\ g.shutdowns = t.shutdowns
      BY DEF IsTransport, Fields, Faulting
    <2>3. fault \in BOOLEAN
      BY DEF IsTransport
    <2> HIDE DEF g, fault
    <2>4. IsTransport(t') /\ t'.gate = g.gate /\ Ended(g, t', fault)
      BY <2>1, <2>2, <2>3, TerminalEnds
    <2>5. Ended(t, t', fault)
      BY <2>2, <2>4 DEF Ended, Unowned
    <2>6. t.gate = "paused"
      BY DEF ReleaseInitialization
    <2>7. QED
      BY <1>1, <2>1, <2>3, <2>4, <2>5, <2>6, EndedKeeps
  <1>4. QED
    BY <1>2, <1>3

LEMMA SendStartKeeps ==
    ASSUME TransportInv, SendStart
    PROVE  TransportInv'
  <1> USE DEF TransportInv, TransportTypes
  <1>1. /\ worker' = worker /\ stops' = stops /\ reinit' = reinit
        /\ t' = t \/ t' = Fated(t, {sending.msg + 1}, "refused")
        /\ t.mode = "eager" => t.result = "ok"
    BY DEF SendStart, Visible
  <1>2. TaskTypes' /\ sending'.pc # "init"
    BY DEF SendStart, TaskTypes
  <1>3. Quietly
    BY <1>1, <1>2 DEF Quietly
  <1>4. IsTransport(t') /\ Same(t, t')
    BY <1>1, FatedSame DEF Same
  <1>5. QED
    BY <1>1, <1>3, <1>4, SameKeeps

(* schedule_initializer. *)
LEMMA ScheduleKeeps ==
    ASSUME TransportInv, SendGate, t.init = "Deferred", t.result = "none", ~Dead,
           t.gate = "open"
    PROVE  TransportInv'
  <1> USE DEF TransportInv, TransportTypes
  <1>1. /\ t' = [t EXCEPT !.init = "Scheduled", !.job = "init", !.jobFaults = TRUE]
        /\ worker' = Submitted(t')
        /\ sending' = [sending EXCEPT !.pc = "init", !.initiating = TRUE]
        /\ stops' = stops /\ reinit' = reinit
    BY DEF SendGate, Become, Dead
  <1>2. /\ IsTransport(t') /\ t'.init = "Scheduled" /\ t'.job = "init" /\ t'.jobFaults
        /\ t'.gate = t.gate /\ t'.mode = t.mode /\ t'.faulted = t.faulted
        /\ t'.stopIntent = t.stopIntent /\ t'.closed = t.closed /\ t'.stopped = t.stopped
        /\ t'.module = t.module /\ t'.cleanup = t.cleanup
        /\ t'.result = t.result
        /\ t'.loader = t.loader /\ t'.lock = t.lock /\ t'.active = t.active
        /\ t'.shutdowns = t.shutdowns
    BY <1>1 DEF IsTransport, Fields, Phases
  <1>3. t.mode # "eager" /\ ~t.closed /\ ~t.faulted /\ t.gate = "open"
    BY SendingSeen DEF SendGate, Dead
  <1>4. worker' \in {worker, "submitted"} /\ worker \notin {"initializing", "returned", "executing", "shutdown"}
    BY <1>1, <1>3 DEF Submitted, WorkerAt, Ending
  <1>5. TransportTypes'
    BY <1>1, <1>2, <1>4 DEF TaskTypes
  <1>6. LockHeld' /\ WorkerAt'
    <2>1. LockHeld'
      BY <1>1, <1>2, <1>4 DEF LockHeld
    <2>2. WorkerAt'
      BY <1>1, <1>2, <1>4 DEF WorkerAt
    <2>3. QED
      BY <2>1, <2>2
  <1>7. InitAt'
    BY <1>2, <1>3, <1>4 DEF InitAt
  <1>8. ModuleHeld' /\ Ending'
    <2>1. ModuleHeld'
      BY <1>1, <1>2, <1>3, <1>4 DEF ModuleHeld, IsTransport
    <2>2. Ending'
      BY <1>1, <1>2, <1>3, <1>4 DEF Ending, IsTransport
    <2>3. QED
      BY <2>1, <2>2
  <1>9. Unseen' /\ Blame'
    <2>1. Unseen'
      BY <1>1, <1>2, <1>3 DEF Unseen
    <2>2. Blame'
      BY <1>1, <1>2, <1>3 DEF Blame
    <2>3. QED
      BY <2>1, <2>2
  <1>10. QED
    BY <1>5, <1>6, <1>7, <1>8, <1>9

(* ensure_initialized at the gate. *)
LEMMA SendGateKeeps ==
    ASSUME TransportInv, SendGate
    PROVE  TransportInv'
  <1> USE DEF TransportInv, TransportTypes
  <1>1. t.mode = "eager" => t.result = "ok"
    BY SendingSeen DEF SendGate
  <1>2. stops' = stops /\ reinit' = reinit /\ sending.pc = "gate"
    BY DEF SendGate
  <1>3. CASE Become(InitError(t, Dead)) /\ sending' = [sending EXCEPT !.pc = "idle"]
    <2>1. Quietly
      BY <1>1, <1>2, <1>3 DEF Quietly, TaskTypes
    <2>2. Dead \in BOOLEAN
      BY DEF Dead, IsTransport
    <2>3. IsTransport(t') /\ (Same(t, t') \/ Ended(t, t', TRUE))
      BY <1>3, <2>2, InitErrorSettles DEF Become
    <2>4. QED
      BY <1>3, <2>1, <2>3, StepKeeps DEF Become
  <1>4. CASE ~Dead /\ t.gate = "open" /\ t.init = "Deferred" /\ t.result = "none"
    BY <1>4, ScheduleKeeps
  <1>5. CASE /\ ~(t.init = "Deferred" /\ t.result = "none") /\ t' = t /\ worker' = worker
             /\ sending' = [sending EXCEPT !.pc = "init", !.initiating = FALSE]
             /\ ~Dead
    <2>1. t.init # "Deferred"
      BY <1>5 DEF Ending, Dead
    <2>2. Quietly
      BY <1>1, <1>2, <1>5, <2>1 DEF Quietly, TaskTypes
    <2>3. Same(t, t')
      BY <1>5 DEF Same
    <2>4. QED
      BY <1>5, <2>2, <2>3, SameKeeps
  <1>6. QED
    <2>1. Submitted(t) = worker
      BY DEF Submitted
    <2>2. QED
      BY <1>3, <1>4, <1>5, <2>1 DEF SendGate, Become

LEMMA SettlesTwice ==
    ASSUME NEW x, NEW p, NEW y, Settles(x, p), Settles(p, y)
    PROVE  Settles(x, y)
  <1>1. Ended(x, p, TRUE) /\ Same(p, y) => Ended(x, y, TRUE)
    BY DEF Ended, Same
  <1>2. QED
    BY <1>1, SameTwice, SameEnds, EndedTwice DEF Settles

LEMMA SendInitializedKeeps ==
    ASSUME TransportInv, SendInitialized
    PROVE  TransportInv'
  <1> USE DEF TransportInv, TransportTypes
  <1>1. /\ sending.pc = "init" /\ stops' = stops /\ reinit' = reinit
        /\ sending' \in {[sending EXCEPT !.pc = "route"], [sending EXCEPT !.pc = "idle"]}
    BY DEF SendInitialized
  <1>2. Quietly
    BY <1>1, SendingSeen DEF Quietly, TaskTypes
  <1>3. CASE t' = t /\ worker' = worker
    BY <1>2, <1>3, SameKeeps DEF Same
  <1>4. CASE Become(InitError(t, t.result # "failed"))
    <2>1. IsTransport(t') /\ (Same(t, t') \/ Ended(t, t', TRUE))
      BY <1>4, InitErrorSettles DEF Become
    <2>2. QED
      BY <1>2, <1>4, <2>1, StepKeeps DEF Become
  <1>5. QED
    BY <1>3, <1>4 DEF SendInitialized

(* abandon_initialization, and the error its caller reports. *)
LEMMA SendDeadlineKeeps ==
    ASSUME TransportInv, SendDeadline
    PROVE  TransportInv'
  <1> DEFINE a == IF sending.initiating THEN Abandon(t) ELSE t
  <1> USE DEF TransportInv, TransportTypes
  <1>1. /\ sending.pc = "init" /\ stops' = stops /\ reinit' = reinit
        /\ sending' = [sending EXCEPT !.pc = "idle"]
        /\ t' = InitError(a, FALSE) /\ worker' = Submitted(t')
    BY DEF SendDeadline, Become
  <1>2. Quietly
    BY <1>1, SendingSeen DEF Quietly, TaskTypes
  <1>3. Settles(t, a)
    BY AbandonSettles DEF Settles, Same
  <1> HIDE DEF a
  <1>4. Settles(a, t')
    BY <1>1, <1>3, InitErrorSettles DEF Settles
  <1>5. Settles(t, t')
    BY <1>3, <1>4, SettlesTwice
  <1>6. QED
    BY <1>1, <1>2, <1>5, StepKeeps DEF Settles

LEMMA SendRouteKeeps ==
    ASSUME TransportInv, SendRoute
    PROVE  TransportInv'
  <1> DEFINE m == sending.msg
             c == IF IsCall(m) THEN [t EXCEPT !.inflight = @ + 1] ELSE t
             f == Fated(c, {m}, "queued")
             q == [f EXCEPT !.pending = Append(@, m)]
  <1> USE DEF TransportInv, TransportTypes
  <1>1. /\ sending.pc = "route" /\ stops' = stops /\ reinit' = reinit /\ worker' = worker
        /\ sending' \in {[sending EXCEPT !.pc = "check"], [sending EXCEPT !.pc = "idle"]}
        /\ t' = Fated(t, {m}, "refused") \/ t' = q \/ t' = c
    BY DEF SendRoute
  <1>2. Quietly
    BY <1>1, SendingSeen DEF Quietly, TaskTypes
  <1>3. IsTransport(c) /\ Same(t, c)
    BY DEF IsTransport, Fields, Same
  <1> HIDE DEF c
  <1>4. IsTransport(f) /\ Same(c, f)
    BY <1>3, FatedSame
  <1> HIDE DEF f
  <1>5. IsTransport(q) /\ Same(f, q)
    BY <1>4 DEF IsTransport, Fields, Same
  <1> HIDE DEF q
  <1>6. IsTransport(t') /\ Same(t, t')
    BY <1>1, <1>3, <1>4, <1>5, FatedSame, SameTwice
  <1>7. QED
    BY <1>1, <1>2, <1>6, SameKeeps

-----------------------------------------------------------------------------
(* deliver_now and drain_pending.                                          *)

LEMMA GoQuiet ==
    ASSUME TransportInv, NEW w \in {"send", "drain"}, NEW pc, Go(w, pc),
           At(w) \in {"check", "native", "parked"},
           w = "send" => pc \in {"idle", "check", "native", "parked"},
           stops' = stops, reinit' = reinit
    PROVE  Quietly
  <1> USE DEF TransportInv, TransportTypes
  <1>1. \/ sending' = sending
        \/ sending' = [sending EXCEPT !.pc = pc] /\ w = "send" /\ sending.pc # "idle"
    BY DEF Go, At
  <1>2. CASE sending' = sending
    BY <1>2 DEF Quietly, TaskTypes, Unseen, Blame
  <1>3. CASE sending' = [sending EXCEPT !.pc = pc] /\ w = "send" /\ sending.pc # "idle"
    <2>1. sending'.pc = pc /\ pc # "init"
      BY <1>3 DEF TaskTypes
    <2>2. TaskTypes'
      BY <1>3 DEF TaskTypes
    <2>3. QED
      BY <1>3, <2>1, <2>2, SendingSeen DEF Quietly
  <1>4. QED
    BY <1>1, <1>2, <1>3

(* A failed delivery reports its message, or faults the module. *)
LEMMA FailedSettles ==
    ASSUME NEW w \in {"send", "drain"}, NEW x, IsTransport(x), NEW closure \in BOOLEAN,
           Failed(w, x, closure)
    PROVE  /\ Settles(x, t') /\ worker' = Submitted(t')
           /\ Go(w, IF w = "send" THEN "idle" ELSE "off")
           /\ w = "send" \/ (x.closed /\ closure) => t'.faulted = x.faulted
  <1> DEFINE m == Msg(w)
             p == [x EXCEPT !.inflight = IF IsCall(m) THEN @ - 1 ELSE @]
  <1>1. CASE w = "send"
    <2>1. IsTransport(p) /\ Same(x, p)
      BY DEF IsTransport, Fields, Same
    <2>2. t' = Fated(p, {m}, "refused") /\ worker' = Submitted(t') /\ Go(w, "idle")
      BY <1>1 DEF Failed, Become
    <2> HIDE DEF p
    <2>3. IsTransport(t') /\ Same(x, t')
      BY <2>1, <2>2, FatedSame, SameTwice
    <2>4. QED
      BY <1>1, <2>2, <2>3 DEF Settles, Same
  <1>2. CASE w = "drain"
    <2>1. t' = FaultPending(x, m, closure) /\ worker' = Submitted(t') /\ Go(w, "off")
      BY <1>2 DEF Failed, Become
    <2>2. /\ IsTransport(t')
          /\ x.closed /\ closure => Same(x, t')
          /\ ~(x.closed /\ closure) => Ended(x, t', TRUE)
      BY <2>1, FaultPendingSettles
    <2>3. QED
      BY <1>2, <2>1, <2>2 DEF Settles, Same
  <1>3. QED
    BY <1>1, <1>2

LEMMA FailedKeeps ==
    ASSUME TransportInv, NEW w \in {"send", "drain"}, NEW x, Settles(t, x),
           NEW closure \in BOOLEAN, Failed(w, x, closure),
           At(w) \in {"check", "native", "parked"}, stops' = stops, reinit' = reinit
    PROVE  TransportInv'
  <1>1. /\ Settles(x, t') /\ worker' = Submitted(t')
        /\ Go(w, IF w = "send" THEN "idle" ELSE "off")
    BY FailedSettles DEF Settles
  <1>2. Quietly
    BY <1>1, GoQuiet
  <1>3. Settles(t, t')
    BY <1>1, SettlesTwice
  <1>4. QED
    BY <1>1, <1>2, <1>3, StepKeeps DEF Settles

(* A reservation is taken only on a live transport with a module. *)
LEMMA DeliverEnterKeeps ==
    ASSUME TransportInv, NEW w \in {"send", "drain"}, DeliverEnter(w)
    PROVE  TransportInv'
  <1>1. Settles(t, t) /\ stops' = stops /\ reinit' = reinit /\ At(w) = "check"
    BY DEF Settles, Same, TransportInv, TransportTypes, DeliverEnter
  <1>2. CASE Failed(w, t, TRUE)
    BY <1>1, <1>2, FailedKeeps
  <1>3. CASE /\ ~Dead /\ t.module /\ t' = [t EXCEPT !.active = @ \cup {w}]
             /\ Go(w, "native") /\ worker' = worker
    <2> USE DEF TransportInv, TransportTypes
    <2>1. Quietly
      BY <1>1, <1>3, GoQuiet
    <2>2. /\ IsTransport(t') /\ t'.active = t.active \cup {w}
          /\ t'.gate = t.gate /\ t'.mode = t.mode /\ t'.faulted = t.faulted
          /\ t'.stopIntent = t.stopIntent /\ t'.closed = t.closed /\ t'.stopped = t.stopped
          /\ t'.module = t.module /\ t'.init = t.init /\ t'.cleanup = t.cleanup
          /\ t'.job = t.job /\ t'.result = t.result /\ t'.jobFaults = t.jobFaults
          /\ t'.loader = t.loader /\ t'.lock = t.lock /\ t'.shutdowns = t.shutdowns
      BY <1>3 DEF IsTransport, Fields
    <2>3. ~t.stopped /\ t.cleanup = "Idle" /\ t.module
      BY <1>3 DEF Dead, Ending, IsTransport
    <2>4. TransportTypes' /\ LockHeld' /\ WorkerAt'
      <3>1. TransportTypes'
        BY <1>3, <2>1, <2>2, <2>3 DEF Quietly
      <3>2. LockHeld'
        BY <1>3, <2>1, <2>2, <2>3 DEF Quietly, LockHeld
      <3>3. WorkerAt'
        BY <1>3, <2>1, <2>2, <2>3 DEF Quietly, WorkerAt
      <3>4. QED
        BY <3>1, <3>2, <3>3
    <2>5. InitAt' /\ ModuleHeld' /\ Ending'
      <3>1. InitAt'
        BY <1>3, <2>1, <2>2, <2>3 DEF Quietly, InitAt
      <3>2. ModuleHeld'
        BY <1>3, <2>1, <2>2, <2>3 DEF Quietly, ModuleHeld
      <3>3. Ending'
        BY <1>3, <2>1, <2>2, <2>3 DEF Quietly, Ending
      <3>4. QED
        BY <3>1, <3>2, <3>3
    <2>6. Unseen' /\ Blame'
      <3>1. Unseen'
        BY <1>3, <2>1, <2>2 DEF Quietly, Unseen
      <3>2. Blame'
        BY <1>3, <2>1, <2>2 DEF Quietly, Blame
      <3>3. QED
        BY <3>1, <3>2
    <2>7. QED
      BY <2>4, <2>5, <2>6
  <1>4. QED
    BY <1>2, <1>3 DEF DeliverEnter

LEMMA DeliverReturnKeeps ==
    ASSUME TransportInv, NEW w \in {"send", "drain"}, NEW code, DeliverReturn(w, code)
    PROVE  TransportInv'
  <1> DEFINE x == [t EXCEPT !.active = @ \ {w}]
  <1>1. /\ At(w) = "native" /\ stops' = stops /\ reinit' = reinit
        /\ \/ t' = Fated(x, {Msg(w)}, "delivered") /\ worker' = worker
                /\ Go(w, IF w = "send" THEN "idle" ELSE "loop")
           \/ t' = x /\ worker' = worker /\ Go(w, "parked")
           \/ \E closure \in BOOLEAN : Failed(w, x, closure)
    BY DEF DeliverReturn
  <1>2. IsTransport(x) /\ Same(t, x)
    BY DEF IsTransport, Fields, Same, TransportInv, TransportTypes
  <1> HIDE DEF x
  <1>3. CASE t' = Fated(x, {Msg(w)}, "delivered") /\ worker' = worker
               /\ Go(w, IF w = "send" THEN "idle" ELSE "loop")
    <2>1. IsTransport(t') /\ Same(t, t')
      BY <1>2, <1>3, FatedSame, SameTwice
    <2>2. Quietly
      BY <1>1, <1>3, GoQuiet
    <2>3. QED
      BY <1>3, <2>1, <2>2, SameKeeps
  <1>4. CASE t' = x /\ worker' = worker /\ Go(w, "parked")
    <2>1. Quietly
      BY <1>1, <1>4, GoQuiet
    <2>2. QED
      BY <1>2, <1>4, <2>1, SameKeeps
  <1>5. CASE \E closure \in BOOLEAN : Failed(w, x, closure)
    BY <1>1, <1>2, <1>5, FailedKeeps DEF Settles
  <1>6. QED
    BY <1>1, <1>3, <1>4, <1>5

(* BACKPRESSURE_DEADLINE. *)
LEMMA DeliverDeadlineKeeps ==
    ASSUME TransportInv, NEW w \in {"send", "drain"}, DeliverDeadline(w)
    PROVE  TransportInv'
  <1> DEFINE r == RequestTerminal(t, TRUE)
             x == [r EXCEPT !.inbound = FALSE]
  <1>1. /\ At(w) = "parked" /\ stops' = stops /\ reinit' = reinit
        /\ Failed(w, t, TRUE) \/ Failed(w, x, FALSE)
    BY DEF DeliverDeadline
  <1>2. Settles(t, t)
    BY DEF Settles, Same, TransportInv, TransportTypes
  <1>3. Settles(t, r)
    BY TerminalEnds DEF Settles, TransportInv, TransportTypes
  <1> HIDE DEF r
  <1>4. Settles(r, x)
    BY <1>3 DEF Settles, IsTransport, Fields, Same
  <1> HIDE DEF x
  <1>5. Settles(t, x)
    BY <1>3, <1>4, SettlesTwice
  <1>6. QED
    BY <1>1, <1>2, <1>5, FailedKeeps

LEMMA DeliverKeeps ==
    ASSUME TransportInv, NEW w \in {"send", "drain"}, Deliver(w)
    PROVE  TransportInv'
  <1>1. CASE DeliverWoken(w)
    <2>1. Quietly
      BY <1>1, GoQuiet DEF DeliverWoken
    <2>2. Same(t, t') /\ IsTransport(t') /\ worker' = worker
      BY <1>1 DEF DeliverWoken, Same, TransportInv, TransportTypes
    <2>3. QED
      BY <2>1, <2>2, SameKeeps
  <1>2. QED
    BY <1>1, DeliverEnterKeeps, DeliverReturnKeeps, DeliverDeadlineKeeps DEF Deliver

LEMMA DrainKeeps ==
    ASSUME TransportInv, DrainReady \/ DrainNext
    PROVE  TransportInv'
  <1> USE DEF TransportInv, TransportTypes
  <1>1. /\ sending' = sending /\ worker' = worker /\ stops' = stops /\ reinit' = reinit
        /\ t' = t \/ t' = [t EXCEPT !.pending = Tail(@)]
    BY DEF DrainReady, DrainNext
  <1>2. Quietly
    BY <1>1 DEF Quietly, TaskTypes, Unseen, Blame
  <1>3. IsTransport(t') /\ Same(t, t')
    BY <1>1 DEF IsTransport, Fields, Same
  <1>4. QED
    BY <1>1, <1>2, <1>3, SameKeeps

-----------------------------------------------------------------------------
(* PhysicalJob::run and the eager initialiser.                             *)

LEMMA AsideQuiet ==
    ASSUME TransportInv, sending' = sending, stops' = stops, reinit' = reinit
    PROVE  Quietly
  BY DEF TransportInv, TransportTypes, Quietly, TaskTypes, Unseen, Blame

LEMMA CloseSame ==
    ASSUME NEW x, IsTransport(x), x.closed
    PROVE  /\ IsTransport(CloseAdmission(x)) /\ Same(x, CloseAdmission(x))
           /\ CloseAdmission(x).active = x.active
  <1> DEFINE q == Fated(x, Range(x.pending), "discarded")
             z == [q EXCEPT !.closed = TRUE, !.pending = <<>>]
  <1>1. IsTransport(q) /\ Same(x, q) /\ q.active = x.active
    BY FatedSame
  <1> HIDE DEF q
  <1>2. IsTransport(z) /\ Same(q, z) /\ z.active = q.active
    BY <1>1 DEF IsTransport, Fields, Same
  <1>3. CloseAdmission(x) = z
    BY DEF CloseAdmission, q
  <1> HIDE DEF z
  <1>4. QED
    BY <1>1, <1>2, <1>3, SameTwice

(* An initialiser that found the transport dead, or a cleanup of one that   *)
(* never ran. *)
LEMMA CancelKeeps ==
    ASSUME TransportInv, sending' = sending, stops' = stops, reinit' = reinit,
           NEW x, IsTransport(x), x.closed, t.closed,
           x.stopIntent = t.stopIntent, x.faulted = t.faulted, x.mode = t.mode,
           x.gate = t.gate, x.module = t.module, x.loader = t.loader,
           x.active = t.active, x.shutdowns = t.shutdowns, x.jobFaults = t.jobFaults,
           x.lock = t.lock \/ (t.lock = "worker" /\ x.lock = "free"),
           t' = Canceled(x), worker' = "none",
           t.init \in {"Deferred", "Scheduled", "CanceledBeforeEntry"}
    PROVE  TransportInv'
  <1> USE DEF TransportInv, TransportTypes
  <1>1. /\ IsTransport(t')
        /\ t'.closed /\ t'.stopIntent = t.stopIntent /\ t'.faulted = t.faulted
        /\ t'.mode = t.mode /\ t'.gate = t.gate /\ t'.stopped
        /\ t'.module = t.module /\ t'.init = "CanceledBeforeEntry"
        /\ t'.cleanup = "NoCallbackRequired"
        /\ t'.job = "none" /\ t'.result = "closed" /\ t'.jobFaults = t.jobFaults
        /\ t'.loader = t.loader /\ t'.active = t.active
        /\ t'.shutdowns = t.shutdowns
        /\ t'.lock = t.lock \/ (t.lock = "worker" /\ t'.lock = "free")
    BY CanceledFields
  <1>2. ~t.module /\ t.active = {} /\ ~reinit.native /\ t.shutdowns # 1 /\ t.result # "ok"
        /\ t.loader = "none"
    BY DEF ModuleHeld, InitAt
  <1>3. Quietly
    BY AsideQuiet
  <1>4. TransportTypes' /\ LockHeld' /\ WorkerAt'
    <2>1. TransportTypes'
      BY <1>1, <1>2, <1>3 DEF Quietly
    <2>2. LockHeld'
      BY <1>1, <1>2, <1>3 DEF Quietly, LockHeld
    <2>3. WorkerAt'
      BY <1>1, <1>2, <1>3 DEF Quietly, WorkerAt
    <2>4. QED
      BY <2>1, <2>2, <2>3
  <1>5. InitAt' /\ ModuleHeld' /\ Ending'
    <2>1. InitAt'
      BY <1>1, <1>2, <1>3 DEF Quietly, InitAt, Final
    <2>2. ModuleHeld'
      BY <1>1, <1>2, <1>3 DEF Quietly, ModuleHeld, Final
    <2>3. Ending'
      BY <1>1, <1>2, <1>3 DEF Quietly, Ending, Final
    <2>4. QED
      BY <2>1, <2>2, <2>3
  <1>6. Unseen' /\ Blame'
    <2>1. Unseen'
      BY <1>1, <1>2, <1>3 DEF Unseen
    <2>2. Blame'
      BY <1>1, <1>2, <1>3 DEF Blame
    <2>3. QED
      BY <2>1, <2>2
  <1>7. QED
    BY <1>4, <1>5, <1>6

(* The thread of the job could not be spawned. *)
LEMMA SpawnFailsKeeps ==
    ASSUME TransportInv, SpawnFails
    PROVE  TransportInv'
  <1> DEFINE c == CommitTerminal(t, t.jobFaults)
             r == IF c.result = "none" THEN "failed" ELSE c.result
             y == [c EXCEPT !.cleanup = "Uncertain", !.result = r]
  <1> USE DEF TransportInv, TransportTypes
  <1>1. /\ sending' = sending /\ stops' = stops /\ reinit' = reinit
        /\ worker = "submitted" /\ worker' = "none" /\ t' = y
    BY DEF SpawnFails
  <1>2. t.jobFaults \in BOOLEAN
    BY DEF IsTransport
  <1>3. /\ IsTransport(c)
        /\ c.closed /\ c.stopIntent /\ c.faulted = (t.faulted \/ t.jobFaults)
        /\ c.mode = t.mode /\ c.gate = t.gate /\ c.stopped = t.stopped
        /\ c.module = t.module /\ c.init = t.init /\ c.cleanup = t.cleanup
        /\ c.job = t.job /\ c.result = t.result /\ c.jobFaults = t.jobFaults
        /\ c.loader = t.loader /\ c.lock = t.lock /\ c.active = t.active
        /\ c.shutdowns = t.shutdowns
    BY <1>2, CommitFields
  <1> HIDE DEF c
  <1>r. /\ r = IF t.result = "none" THEN "failed" ELSE t.result
        /\ r \in {"ok", "failed", "closed"}
    BY <1>3 DEF IsTransport
  <1> HIDE DEF r
  <1>4. /\ IsTransport(t') /\ t'.cleanup = "Uncertain" /\ t'.result = r
        /\ t'.closed /\ t'.stopIntent /\ t'.faulted = (t.faulted \/ t.jobFaults)
        /\ t'.mode = t.mode /\ t'.gate = t.gate /\ t'.stopped = t.stopped
        /\ t'.module = t.module /\ t'.init = t.init
        /\ t'.job = t.job /\ t'.jobFaults = t.jobFaults
        /\ t'.loader = t.loader /\ t'.lock = t.lock /\ t'.active = t.active
        /\ t'.shutdowns = t.shutdowns
    <2>1. t' = y
      BY <1>1
    <2> HIDE DEF TransportInv, TransportTypes
    <2>a. DOMAIN y = DOMAIN c /\ y.cleanup = "Uncertain" /\ y.result = r
      BY <1>3 DEF IsTransport, Fields
    <2>2. /\ y.closed = c.closed /\ y.stopIntent = c.stopIntent /\ y.faulted = c.faulted
          /\ y.mode = c.mode /\ y.gate = c.gate /\ y.stopped = c.stopped
          /\ y.module = c.module /\ y.init = c.init
          /\ y.job = c.job /\ y.jobFaults = c.jobFaults
          /\ y.loader = c.loader /\ y.lock = c.lock /\ y.active = c.active
          /\ y.shutdowns = c.shutdowns
      BY <1>3 DEF IsTransport, Fields
    <2> HIDE DEF y
    <2>3. IsTransport(y)
      BY <1>3, <1>r, <2>a, <2>2 DEF IsTransport, Final
    <2>4. QED
      BY <1>3, <2>1, <2>a, <2>2, <2>3
  <1> HIDE DEF y
  <1>5. Quietly
    BY <1>1, AsideQuiet
  <1>6. TransportTypes' /\ LockHeld' /\ WorkerAt'
    <2>1. TransportTypes'
      BY <1>1, <1>4, <1>5 DEF Quietly
    <2>2. LockHeld'
      BY <1>1, <1>4, <1>5 DEF Quietly, LockHeld
    <2>3. WorkerAt'
      BY <1>1, <1>4, <1>5 DEF Quietly, WorkerAt
    <2>4. QED
      BY <2>1, <2>2, <2>3
  <1>7. t.job # "none" /\ (~t.jobFaults /\ t.result = "none" => t.init = "Deferred")
    BY <1>1 DEF WorkerAt, Blame
  <1>8. InitAt'
    BY <1>1, <1>4, <1>7, <1>r DEF InitAt
  <1>9. ModuleHeld' /\ Ending'
    <2>1. ModuleHeld'
      BY <1>1, <1>4, <1>r DEF ModuleHeld, Final
    <2>2. Ending'
      BY <1>1, <1>4, <1>r DEF Ending, Final
    <2>3. QED
      BY <2>1, <2>2
  <1>10. Unseen' /\ Blame'
    <2>1. Unseen'
      BY <1>1, <1>4, <1>5, <1>7, <1>r DEF Unseen, Quietly
    <2>2. Blame'
      BY <1>1, <1>4, <1>5, <1>7, <1>r DEF Blame, Quietly
    <2>3. QED
      BY <2>1, <2>2
  <1>11. QED
    BY <1>6, <1>8, <1>9, <1>10

LEMMA WorkerEnterKeeps ==
    ASSUME TransportInv, WorkerEnter
    PROVE  TransportInv'
  <1> USE DEF TransportInv, TransportTypes
  <1>1. /\ sending' = sending /\ stops' = stops /\ reinit' = reinit
        /\ worker = "submitted" /\ t.job = "init" /\ t.lock = "free" /\ t.init = "Scheduled"
    BY DEF WorkerEnter, WorkerAt
  <1>2. CASE Dead
    <2>1. t.closed /\ t' = Canceled(t) /\ worker' = "none"
      BY <1>2 DEF Ending, Dead, WorkerEnter
    <2>2. QED
      BY <1>1, <2>1, CancelKeeps
  <1>3. CASE ~Dead
    <2>1. /\ t' = [t EXCEPT !.init = "Entered", !.lock = "worker"]
          /\ worker' = "initializing"
      BY <1>3 DEF WorkerEnter
    <2>2. /\ IsTransport(t') /\ t'.init = "Entered" /\ t'.lock = "worker"
          /\ t'.gate = t.gate /\ t'.mode = t.mode /\ t'.faulted = t.faulted
          /\ t'.stopIntent = t.stopIntent /\ t'.closed = t.closed /\ t'.stopped = t.stopped
          /\ t'.module = t.module /\ t'.cleanup = t.cleanup
          /\ t'.job = t.job /\ t'.result = t.result /\ t'.jobFaults = t.jobFaults
          /\ t'.loader = t.loader /\ t'.active = t.active /\ t'.shutdowns = t.shutdowns
      BY <2>1 DEF IsTransport, Fields, Phases
    <2>3. Quietly
      BY <1>1, AsideQuiet
    <2>4. TransportTypes'
      BY <2>1, <2>2, <2>3 DEF Quietly
    <2>5. t.cleanup = "Idle"
      BY <1>3 DEF Ending, Dead
    <2>6. LockHeld' /\ WorkerAt' /\ InitAt'
      <3>1. LockHeld'
        BY <1>1, <2>1, <2>2, <2>5 DEF LockHeld
      <3>2. WorkerAt'
        BY <1>1, <2>1, <2>2, <2>5 DEF WorkerAt
      <3>3. InitAt'
        BY <1>1, <2>1, <2>2, <2>5 DEF InitAt
      <3>4. QED
        BY <3>1, <3>2, <3>3
    <2>7. ModuleHeld' /\ Ending'
      <3>1. ModuleHeld'
        BY <1>1, <1>3, <2>1, <2>2, <2>5 DEF ModuleHeld, Dead
      <3>2. Ending'
        BY <1>1, <1>3, <2>1, <2>2, <2>5 DEF Ending, Dead
      <3>3. QED
        BY <3>1, <3>2
    <2>8. Unseen' /\ Blame'
      <3>1. Unseen'
        BY <1>1, <2>1, <2>2 DEF Unseen
      <3>2. Blame'
        BY <1>1, <2>1, <2>2 DEF Blame
      <3>3. QED
        BY <3>1, <3>2
    <2>9. QED
      BY <2>4, <2>6, <2>7, <2>8
  <1>4. QED
    BY <1>2, <1>3

LEMMA InitReturnsKeeps ==
    ASSUME TransportInv, NEW ok \in BOOLEAN, InitReturns(ok)
    PROVE  TransportInv'
  <1> USE DEF TransportInv, TransportTypes
  <1>1. /\ sending' = sending /\ stops' = stops /\ reinit' = reinit
        /\ worker = "initializing" /\ worker' = "returned"
        /\ t' = IF ok THEN [t EXCEPT !.module = TRUE] ELSE CommitTerminal(t, TRUE)
    BY DEF InitReturns
  <1>2. Quietly
    BY <1>1, AsideQuiet
  <1>t. IsTransport(t)
    OBVIOUS
  <1>3. /\ IsTransport(t') /\ t'.module = (t.module \/ ok)
        /\ t'.faulted = (t.faulted \/ ~ok) /\ t'.closed = (t.closed \/ ~ok)
        /\ t'.stopIntent = (t.stopIntent \/ ~ok)
        /\ t'.mode = t.mode /\ t'.gate = t.gate /\ t'.stopped = t.stopped
        /\ t'.init = t.init /\ t'.cleanup = t.cleanup
        /\ t'.job = t.job /\ t'.result = t.result /\ t'.jobFaults = t.jobFaults
        /\ t'.loader = t.loader /\ t'.lock = t.lock /\ t'.active = t.active
        /\ t'.shutdowns = t.shutdowns
    <2>1. CASE ok
      BY <1>1, <2>1 DEF IsTransport, Fields
    <2>2. CASE ~ok
      <3> DEFINE c == CommitTerminal(t, TRUE)
      <3>1. /\ IsTransport(c)
            /\ c.closed /\ c.stopIntent /\ c.faulted = (t.faulted \/ TRUE)
            /\ c.mode = t.mode /\ c.gate = t.gate /\ c.stopped = t.stopped
            /\ c.module = t.module /\ c.init = t.init /\ c.cleanup = t.cleanup
            /\ c.job = t.job /\ c.result = t.result /\ c.jobFaults = t.jobFaults
            /\ c.loader = t.loader /\ c.lock = t.lock /\ c.active = t.active
            /\ c.shutdowns = t.shutdowns
        BY CommitFields
      <3>2. t' = c
        BY <1>1, <2>2
      <3> HIDE DEF c, TransportInv, TransportTypes
      <3>3. c.closed = TRUE /\ c.stopIntent = TRUE /\ c.faulted = TRUE
        BY <3>1 DEF IsTransport
      <3>4. /\ (t.module \/ ok) = t.module /\ (t.faulted \/ ~ok) = TRUE
            /\ (t.closed \/ ~ok) = TRUE /\ (t.stopIntent \/ ~ok) = TRUE
        BY <1>t, <2>2 DEF IsTransport
      <3>5. QED
        BY <3>1, <3>2, <3>3, <3>4
    <2>3. QED
      BY <2>1, <2>2
  <1>4. TransportTypes' /\ LockHeld' /\ WorkerAt'
    <2>1. TransportTypes'
      BY <1>1, <1>2, <1>3 DEF Quietly
    <2>2. LockHeld'
      BY <1>1, <1>2, <1>3 DEF Quietly, LockHeld
    <2>3. WorkerAt'
      BY <1>1, <1>2, <1>3 DEF Quietly, WorkerAt
    <2>4. QED
      BY <2>1, <2>2, <2>3
  <1>5. InitAt' /\ ModuleHeld' /\ Ending'
    <2>1. InitAt'
      BY <1>1, <1>3 DEF InitAt, LockHeld, WorkerAt
    <2>2. ModuleHeld'
      BY <1>1, <1>3 DEF ModuleHeld, LockHeld, WorkerAt
    <2>3. Ending'
      BY <1>1, <1>3 DEF Ending, LockHeld, WorkerAt
    <2>4. QED
      BY <2>1, <2>2, <2>3
  <1>6. Unseen' /\ Blame'
    <2>1. Unseen'
      BY <1>1, <1>3 DEF Unseen, WorkerAt
    <2>2. Blame'
      BY <1>1, <1>3 DEF Blame, WorkerAt
    <2>3. QED
      BY <2>1, <2>2
  <1>7. QED
    BY <1>4, <1>5, <1>6

LEMMA InitPublishedKeeps ==
    ASSUME TransportInv, InitPublished
    PROVE  TransportInv'
  <1> DEFINE x == [t EXCEPT
          !.init = IF t.module THEN "PublishedValid" ELSE "PublishedRejected",
          !.result = FirstResult(IF t.module THEN "ok" ELSE "failed"),
          !.cleanup = IF t.module THEN @ ELSE "Uncertain",
          !.lock = "free"]
  <1> USE DEF TransportInv, TransportTypes
  <1>1. /\ sending' = sending /\ stops' = stops /\ reinit' = reinit
        /\ worker = "returned"
        /\ t' = IF x.cleanup = "Idle" THEN [x EXCEPT !.job = "none"] ELSE x
        /\ worker' = IF x.cleanup = "Requested" THEN "cleanup" ELSE "none"
    BY DEF InitPublished
  <1>2. Quietly
    BY <1>1, AsideQuiet
  <1>3. /\ t.init = "Entered" /\ t.job = "init" /\ t.cleanup \in {"Idle", "Requested"}
        /\ t.module \/ t.faulted
        /\ t.lock = "worker" /\ t.loader = "none" /\ ~reinit.native /\ t.shutdowns = 0
        /\ ~t.stopped
    BY <1>1 DEF WorkerAt, LockHeld, Ending, IsTransport
  <1>4. /\ IsTransport(x)
        /\ x.init = IF t.module THEN "PublishedValid" ELSE "PublishedRejected"
        /\ x.result = IF t.result = "none" THEN (IF t.module THEN "ok" ELSE "failed") ELSE t.result
        /\ x.cleanup = IF t.module THEN t.cleanup ELSE "Uncertain"
        /\ x.lock = "free"
        /\ x.gate = t.gate /\ x.mode = t.mode /\ x.faulted = t.faulted
        /\ x.stopIntent = t.stopIntent /\ x.closed = t.closed /\ x.stopped = t.stopped
        /\ x.module = t.module
        /\ x.job = t.job /\ x.jobFaults = t.jobFaults
        /\ x.loader = t.loader /\ x.active = t.active /\ x.shutdowns = t.shutdowns
    BY DEF IsTransport, Fields, Phases, Final, FirstResult
  <1> HIDE DEF x
  <1>5. /\ IsTransport(t')
        /\ t'.job = IF x.cleanup = "Idle" THEN "none" ELSE x.job
        /\ t'.init = x.init /\ t'.result = x.result /\ t'.cleanup = x.cleanup
        /\ t'.lock = x.lock
        /\ t'.gate = x.gate /\ t'.mode = x.mode /\ t'.faulted = x.faulted
        /\ t'.stopIntent = x.stopIntent /\ t'.closed = x.closed /\ t'.stopped = x.stopped
        /\ t'.module = x.module /\ t'.jobFaults = x.jobFaults
        /\ t'.loader = x.loader /\ t'.active = x.active /\ t'.shutdowns = x.shutdowns
    BY <1>1, <1>4 DEF IsTransport, Fields
  <1>6. TransportTypes' /\ LockHeld' /\ WorkerAt'
    <2>1. TransportTypes'
      BY <1>1, <1>2, <1>3, <1>4, <1>5 DEF Quietly
    <2>2. LockHeld'
      BY <1>1, <1>2, <1>3, <1>4, <1>5 DEF Quietly, LockHeld
    <2>3. WorkerAt'
      BY <1>1, <1>2, <1>3, <1>4, <1>5 DEF Quietly, WorkerAt
    <2>4. QED
      BY <2>1, <2>2, <2>3
  <1>7. InitAt' /\ ModuleHeld' /\ Ending'
    <2>1. InitAt'
      BY <1>1, <1>3, <1>4, <1>5 DEF InitAt, IsTransport
    <2>2. ModuleHeld'
      BY <1>1, <1>3, <1>4, <1>5 DEF ModuleHeld, IsTransport
    <2>3. Ending'
      BY <1>1, <1>3, <1>4, <1>5 DEF Ending, IsTransport
    <2>4. QED
      BY <2>1, <2>2, <2>3
  <1>8. Unseen' /\ Blame'
    <2>1. Unseen'
      BY <1>1, <1>3, <1>4, <1>5 DEF Unseen
    <2>2. Blame'
      BY <1>1, <1>3, <1>4, <1>5 DEF Blame
    <2>3. QED
      BY <2>1, <2>2
  <1>9. QED
    BY <1>6, <1>7, <1>8

LEMMA EagerEnterKeeps ==
    ASSUME TransportInv, EagerEnter
    PROVE  TransportInv'
  <1> USE DEF TransportInv, TransportTypes
  <1>1. /\ sending' = sending /\ stops' = stops /\ reinit' = reinit /\ worker' = worker
        /\ t.mode = "eager" /\ t.init = "Deferred"
        /\ t' = [t EXCEPT !.init = "Entered", !.lock = "eager", !.loader = "inside"]
    BY DEF EagerEnter
  <1>2. Quietly
    BY <1>1, AsideQuiet
  <1>3. /\ t.job = "none" /\ t.lock = "free" /\ ~t.closed /\ t.result = "none"
        /\ worker = "none" /\ ~reinit.native /\ t.shutdowns = 0 /\ ~t.module
        /\ t.cleanup = "Idle" /\ t.gate # "paused" /\ sending.pc = "idle"
    BY <1>1 DEF Unseen, WorkerAt, LockHeld, Ending, ModuleHeld, IsTransport
  <1>4. /\ IsTransport(t') /\ t'.init = "Entered" /\ t'.lock = "eager"
        /\ t'.loader = "inside"
        /\ t'.gate = t.gate /\ t'.mode = t.mode /\ t'.faulted = t.faulted
        /\ t'.stopIntent = t.stopIntent /\ t'.closed = t.closed /\ t'.stopped = t.stopped
        /\ t'.module = t.module /\ t'.cleanup = t.cleanup
        /\ t'.job = t.job /\ t'.result = t.result /\ t'.jobFaults = t.jobFaults
        /\ t'.active = t.active /\ t'.shutdowns = t.shutdowns
    BY <1>1 DEF IsTransport, Fields, Phases
  <1>5. TransportTypes' /\ LockHeld' /\ WorkerAt'
    <2>1. TransportTypes'
      BY <1>1, <1>2, <1>3, <1>4 DEF Quietly
    <2>2. LockHeld'
      BY <1>1, <1>2, <1>3, <1>4 DEF Quietly, LockHeld
    <2>3. WorkerAt'
      BY <1>1, <1>2, <1>3, <1>4 DEF Quietly, WorkerAt
    <2>4. QED
      BY <2>1, <2>2, <2>3
  <1>6. InitAt' /\ ModuleHeld' /\ Ending'
    <2>1. InitAt'
      BY <1>1, <1>3, <1>4 DEF InitAt
    <2>2. ModuleHeld'
      BY <1>1, <1>3, <1>4 DEF ModuleHeld
    <2>3. Ending'
      BY <1>1, <1>3, <1>4 DEF Ending
    <2>4. QED
      BY <2>1, <2>2, <2>3
  <1>7. Unseen' /\ Blame'
    <2>1. Unseen'
      BY <1>1, <1>3, <1>4 DEF Unseen
    <2>2. Blame'
      BY <1>1, <1>3, <1>4 DEF Blame
    <2>3. QED
      BY <2>1, <2>2
  <1>8. QED
    BY <1>5, <1>6, <1>7

LEMMA EagerReturnsKeeps ==
    ASSUME TransportInv, NEW ok \in BOOLEAN, EagerReturns(ok)
    PROVE  TransportInv'
  <1> USE DEF TransportInv, TransportTypes
  <1>1. /\ sending' = sending /\ stops' = stops /\ reinit' = reinit /\ worker' = worker
        /\ t.loader = "inside"
        /\ t' = [t EXCEPT !.module = ok, !.loader = "returned"]
    BY DEF EagerReturns
  <1>2. Quietly
    BY <1>1, AsideQuiet
  <1>3. t.init = "Entered" /\ ~t.module
    BY <1>1 DEF InitAt, ModuleHeld
  <1>4. /\ IsTransport(t') /\ t'.module = ok /\ t'.loader = "returned"
        /\ t'.init = t.init /\ t'.lock = t.lock
        /\ t'.gate = t.gate /\ t'.mode = t.mode /\ t'.faulted = t.faulted
        /\ t'.stopIntent = t.stopIntent /\ t'.closed = t.closed /\ t'.stopped = t.stopped
        /\ t'.cleanup = t.cleanup
        /\ t'.job = t.job /\ t'.result = t.result /\ t'.jobFaults = t.jobFaults
        /\ t'.active = t.active /\ t'.shutdowns = t.shutdowns
    BY <1>1 DEF IsTransport, Fields
  <1>5. TransportTypes' /\ LockHeld' /\ WorkerAt'
    <2>1. TransportTypes'
      BY <1>1, <1>2, <1>3, <1>4 DEF Quietly
    <2>2. LockHeld'
      BY <1>1, <1>2, <1>3, <1>4 DEF Quietly, LockHeld
    <2>3. WorkerAt'
      BY <1>1, <1>2, <1>3, <1>4 DEF Quietly, WorkerAt
    <2>4. QED
      BY <2>1, <2>2, <2>3
  <1>6. InitAt' /\ ModuleHeld' /\ Ending'
    <2>1. InitAt'
      BY <1>1, <1>3, <1>4 DEF InitAt
    <2>2. ModuleHeld'
      BY <1>1, <1>3, <1>4 DEF ModuleHeld
    <2>3. Ending'
      BY <1>1, <1>3, <1>4 DEF Ending
    <2>4. QED
      BY <2>1, <2>2, <2>3
  <1>7. Unseen' /\ Blame'
    <2>1. Unseen'
      BY <1>1, <1>3, <1>4 DEF Unseen
    <2>2. Blame'
      BY <1>1, <1>3, <1>4 DEF Blame
    <2>3. QED
      BY <2>1, <2>2
  <1>8. QED
    BY <1>5, <1>6, <1>7

LEMMA EagerPublishedKeeps ==
    ASSUME TransportInv, EagerPublished
    PROVE  TransportInv'
  <1> DEFINE x == [t EXCEPT !.init = IF t.module THEN "ExternalValid" ELSE "PublishedRejected",
                            !.result = FirstResult(IF t.module THEN "ok" ELSE "failed"),
                            !.lock = "free", !.loader = "none"]
             e == [x EXCEPT !.cleanup = "Uncertain", !.job = "cleanup"]
  <1> USE DEF TransportInv, TransportTypes
  <1>1. /\ sending' = sending /\ stops' = stops /\ reinit' = reinit /\ worker' = worker
        /\ t.loader = "returned"
        /\ t' = IF t.module THEN x ELSE CommitTerminal(e, TRUE)
    BY DEF EagerPublished
  <1>2. Quietly
    BY <1>1, AsideQuiet
  <1>3. /\ t.init = "Entered" /\ t.mode = "eager" /\ t.shutdowns = 0
        /\ t.lock = "eager" /\ ~reinit.native /\ ~t.stopped
        /\ worker \notin {"initializing", "returned", "executing", "shutdown"}
        /\ worker = "submitted" => t.job # "init"
    BY <1>1 DEF InitAt, LockHeld, Ending, WorkerAt
  <1>4. /\ IsTransport(x)
        /\ x.init = IF t.module THEN "ExternalValid" ELSE "PublishedRejected"
        /\ x.result = IF t.result = "none" THEN (IF t.module THEN "ok" ELSE "failed") ELSE t.result
        /\ x.cleanup = t.cleanup /\ x.lock = "free" /\ x.loader = "none"
        /\ x.gate = t.gate /\ x.mode = t.mode /\ x.faulted = t.faulted
        /\ x.stopIntent = t.stopIntent /\ x.closed = t.closed /\ x.stopped = t.stopped
        /\ x.module = t.module
        /\ x.job = t.job /\ x.jobFaults = t.jobFaults
        /\ x.active = t.active /\ x.shutdowns = t.shutdowns
    BY DEF IsTransport, Fields, Phases, FirstResult
  <1> HIDE DEF x
  <1>5. CASE t.module
    <2>1. t' = x
      BY <1>1, <1>5
    <2>2. TransportTypes' /\ LockHeld' /\ WorkerAt'
      <3>1. TransportTypes'
        BY <1>1, <1>2, <1>3, <1>4, <2>1 DEF Quietly
      <3>2. LockHeld'
        BY <1>1, <1>2, <1>3, <1>4, <2>1 DEF Quietly, LockHeld
      <3>3. WorkerAt'
        BY <1>1, <1>2, <1>3, <1>4, <2>1 DEF Quietly, WorkerAt
      <3>4. QED
        BY <3>1, <3>2, <3>3
    <2>3. InitAt' /\ ModuleHeld' /\ Ending'
      <3>1. InitAt'
        BY <1>1, <1>3, <1>4, <1>5, <2>1 DEF InitAt, IsTransport
      <3>2. ModuleHeld'
        <4>1. t'.module /\ t'.init = "ExternalValid"
          BY <1>4, <1>5, <2>1
        <4>2. QED
          BY <4>1 DEF ModuleHeld
      <3>3. Ending'
        BY <1>1, <1>3, <1>4, <1>5, <2>1 DEF Ending, IsTransport
      <3>4. QED
        BY <3>1, <3>2, <3>3
    <2>4. Unseen' /\ Blame'
      <3>1. Unseen'
        BY <1>1, <1>3, <1>4, <1>5, <2>1 DEF Unseen
      <3>2. Blame'
        BY <1>1, <1>3, <1>4, <1>5, <2>1 DEF Blame
      <3>3. QED
        BY <3>1, <3>2
    <2>5. QED
      BY <2>2, <2>3, <2>4
  <1>6. CASE ~t.module
    <2>1. /\ IsTransport(e) /\ e.cleanup = "Uncertain" /\ e.job = "cleanup"
          /\ e.init = x.init /\ e.result = x.result /\ e.lock = x.lock
          /\ e.loader = x.loader /\ e.gate = x.gate /\ e.mode = x.mode
          /\ e.faulted = x.faulted
          /\ e.stopIntent = x.stopIntent /\ e.closed = x.closed /\ e.stopped = x.stopped
          /\ e.module = x.module /\ e.jobFaults = x.jobFaults
          /\ e.active = x.active /\ e.shutdowns = x.shutdowns
      BY <1>4 DEF IsTransport, Fields, Final
    <2>2. t' = CommitTerminal(e, TRUE)
      BY <1>1, <1>6
    <2> HIDE DEF e
    <2>3. /\ IsTransport(t') /\ t'.closed /\ t'.stopIntent
          /\ t'.faulted = (e.faulted \/ TRUE)
          /\ t'.mode = e.mode /\ t'.gate = e.gate /\ t'.stopped = e.stopped
          /\ t'.module = e.module /\ t'.init = e.init /\ t'.cleanup = e.cleanup
          /\ t'.job = e.job /\ t'.result = e.result /\ t'.jobFaults = e.jobFaults
          /\ t'.loader = e.loader /\ t'.lock = e.lock /\ t'.active = e.active
          /\ t'.shutdowns = e.shutdowns
      <3> DEFINE c == CommitTerminal(e, TRUE)
      <3> HIDE DEF TransportInv, TransportTypes
      <3>1. /\ IsTransport(c)
            /\ c.closed /\ c.stopIntent /\ c.faulted = (e.faulted \/ TRUE)
            /\ c.mode = e.mode /\ c.gate = e.gate /\ c.stopped = e.stopped
            /\ c.module = e.module /\ c.init = e.init /\ c.cleanup = e.cleanup
            /\ c.job = e.job /\ c.result = e.result /\ c.jobFaults = e.jobFaults
            /\ c.loader = e.loader /\ c.lock = e.lock /\ c.active = e.active
            /\ c.shutdowns = e.shutdowns
        BY <2>1, CommitFields
      <3> HIDE DEF c
      <3>2. t' = c
        BY <2>2 DEF c
      <3>3. QED
        BY <3>1, <3>2
    <2>4. TransportTypes' /\ LockHeld' /\ WorkerAt'
      <3>1. TransportTypes'
        BY <1>1, <1>2, <1>3, <1>4, <2>1, <2>3 DEF Quietly
      <3>2. LockHeld'
        BY <1>1, <1>2, <1>3, <1>4, <2>1, <2>3 DEF Quietly, LockHeld
      <3>3. WorkerAt'
        BY <1>1, <1>2, <1>3, <1>4, <2>1, <2>3 DEF Quietly, WorkerAt
      <3>4. QED
        BY <3>1, <3>2, <3>3
    <2>b. /\ t.active = {} /\ t.result # "ok"
          /\ t'.init = "PublishedRejected" /\ t'.result \notin {"none", "ok"}
          /\ t'.faulted /\ t'.loader = "none" /\ t'.job = "cleanup"
      <3>1. t.active = {} /\ t.result # "ok"
        BY <1>6 DEF ModuleHeld
      <3>2. x.init = "PublishedRejected" /\ x.result \notin {"none", "ok"}
        BY <1>4, <1>6, <3>1
      <3>3. t'.faulted
        BY <2>3
      <3>4. QED
        BY <1>4, <2>1, <2>3, <3>1, <3>2, <3>3
    <2>c. /\ ~t'.module /\ t'.active = {} /\ t'.shutdowns = 0 /\ ~reinit'.native
          /\ t'.mode = "eager" /\ t'.gate = t.gate /\ t'.jobFaults = t.jobFaults
      <3>1. ~reinit'.native
        BY <1>1, <1>3
      <3>2. ~t'.module
        BY <1>4, <1>6, <2>1, <2>3
      <3> HIDE DEF TransportInv, TransportTypes
      <3>3. t'.mode = t.mode /\ t'.gate = t.gate /\ t'.jobFaults = t.jobFaults
            /\ t'.active = t.active /\ t'.shutdowns = t.shutdowns
        BY <1>4, <2>1, <2>3
      <3>4. QED
        BY <1>3, <2>b, <3>1, <3>2, <3>3
    <2>5. InitAt'
      BY <2>b DEF InitAt
    <2>d. ModuleHeld'
      BY <2>b, <2>c DEF ModuleHeld
    <2>a. Ending'
      BY <1>1, <1>3, <1>4, <1>6, <2>1, <2>3, <2>b DEF Ending
    <2>6. Unseen' /\ Blame'
      <3>1. Unseen'
        BY <1>1, <1>3, <2>b, <2>c DEF Unseen
      <3>2. Blame'
        BY <1>1, <1>3, <2>b, <2>c DEF Blame
      <3>3. QED
        BY <3>1, <3>2
    <2>7. QED
      BY <2>4, <2>5, <2>6, <2>a, <2>d
  <1>7. QED
    BY <1>5, <1>6

LEMMA CleanupStartKeeps ==
    ASSUME TransportInv, CleanupStart
    PROVE  TransportInv'
  <1> USE DEF TransportInv, TransportTypes
  <1>1. /\ sending' = sending /\ stops' = stops /\ reinit' = reinit
        /\ worker = "submitted" /\ t.job = "cleanup" /\ worker' = "cleanup"
        /\ t.init \in {"Scheduled", "Entered"} => t.result # "none"
        /\ t' = t \/ (t.lock = "worker" /\ t' = [t EXCEPT !.lock = "free"])
    BY DEF CleanupStart
  <1>2. Quietly
    BY <1>1, AsideQuiet
  <1>3. /\ IsTransport(t')
        /\ t'.lock = t.lock \/ (t.lock = "worker" /\ t'.lock = "free")
        /\ t'.init = t.init /\ t'.loader = t.loader
        /\ t'.gate = t.gate /\ t'.mode = t.mode /\ t'.faulted = t.faulted
        /\ t'.stopIntent = t.stopIntent /\ t'.closed = t.closed /\ t'.stopped = t.stopped
        /\ t'.module = t.module /\ t'.cleanup = t.cleanup
        /\ t'.job = t.job /\ t'.result = t.result /\ t'.jobFaults = t.jobFaults
        /\ t'.active = t.active /\ t'.shutdowns = t.shutdowns
    BY <1>1 DEF IsTransport, Fields
  <1>4. t.loader = "none"
    BY <1>1 DEF InitAt
  <1>5. TransportTypes' /\ LockHeld' /\ WorkerAt'
    <2>1. TransportTypes'
      BY <1>1, <1>2, <1>3 DEF Quietly
    <2>2. LockHeld'
      BY <1>1, <1>2, <1>3 DEF Quietly, LockHeld
    <2>3. WorkerAt'
      BY <1>1, <1>2, <1>3 DEF Quietly, WorkerAt
    <2>4. QED
      BY <2>1, <2>2, <2>3
  <1>6. InitAt' /\ ModuleHeld' /\ Ending'
    <2>1. InitAt'
      BY <1>1, <1>3, <1>4 DEF InitAt
    <2>2. ModuleHeld'
      BY <1>1, <1>3, <1>4 DEF ModuleHeld
    <2>3. Ending'
      BY <1>1, <1>3, <1>4 DEF Ending
    <2>4. QED
      BY <2>1, <2>2, <2>3
  <1>7. Unseen' /\ Blame'
    <2>1. Unseen'
      BY <1>1, <1>3, <1>4 DEF Unseen
    <2>2. Blame'
      BY <1>1, <1>3, <1>4 DEF Blame
    <2>3. QED
      BY <2>1, <2>2
  <1>8. QED
    BY <1>5, <1>6, <1>7

LEMMA CleanupLockKeeps ==
    ASSUME TransportInv, CleanupLock
    PROVE  TransportInv'
  <1> USE DEF TransportInv, TransportTypes
  <1>1. /\ sending' = sending /\ stops' = stops /\ reinit' = reinit
        /\ worker = "cleanup" /\ t.lock \in {"free", "worker"}
    BY DEF CleanupLock
  <1>2. Quietly
    BY <1>1, AsideQuiet
  <1>3. t.loader = "none" /\ ~reinit.native /\ t.init # "Entered" /\ t.job # "none"
    BY <1>1 DEF LockHeld, InitAt, WorkerAt
  <1>4. CASE /\ t' = [t EXCEPT !.lock = "free", !.cleanup = "Uncertain"] \/ t' = [t EXCEPT !.lock = "free"]
             /\ worker' = "none"
             /\ t'.cleanup # t.cleanup => t.cleanup = "Requested"
    <2>1. /\ IsTransport(t') /\ t'.lock = "free" /\ t'.cleanup \in {t.cleanup, "Uncertain"}
          /\ t'.init = t.init /\ t'.loader = t.loader
          /\ t'.gate = t.gate /\ t'.mode = t.mode /\ t'.faulted = t.faulted
          /\ t'.stopIntent = t.stopIntent /\ t'.closed = t.closed /\ t'.stopped = t.stopped
          /\ t'.module = t.module
          /\ t'.job = t.job /\ t'.result = t.result /\ t'.jobFaults = t.jobFaults
          /\ t'.active = t.active /\ t'.shutdowns = t.shutdowns
      <3>1. IsTransport(t)
        OBVIOUS
      <3> HIDE DEF TransportInv, TransportTypes
      <3>2. CASE t' = [t EXCEPT !.lock = "free"]
        BY <3>1, <3>2 DEF IsTransport, Fields
      <3>3. CASE t' = [t EXCEPT !.lock = "free", !.cleanup = "Uncertain"]
        BY <3>1, <3>3 DEF IsTransport, Fields, Final
      <3>4. QED
        BY <1>4, <3>2, <3>3
    <2>2. TransportTypes' /\ LockHeld' /\ WorkerAt'
      <3>1. TransportTypes'
        BY <1>1, <1>2, <1>3, <1>4, <2>1 DEF Quietly
      <3>2. LockHeld'
        BY <1>1, <1>2, <1>3, <1>4, <2>1 DEF Quietly, LockHeld
      <3>3. WorkerAt'
        BY <1>1, <1>2, <1>3, <1>4, <2>1 DEF Quietly, WorkerAt
      <3>4. QED
        BY <3>1, <3>2, <3>3
    <2>3. InitAt' /\ ModuleHeld' /\ Ending'
      <3>1. InitAt'
        BY <1>1, <1>3, <1>4, <2>1 DEF InitAt
      <3>2. ModuleHeld'
        BY <1>1, <1>3, <1>4, <2>1 DEF ModuleHeld
      <3>3. Ending'
        BY <1>1, <1>3, <1>4, <2>1 DEF Ending
      <3>4. QED
        BY <3>1, <3>2, <3>3
    <2>4. Unseen' /\ Blame'
      <3>1. Unseen'
        BY <1>1, <1>3, <1>4, <2>1 DEF Unseen
      <3>2. Blame'
        BY <1>1, <1>3, <1>4, <2>1 DEF Blame
      <3>3. QED
        BY <3>1, <3>2
    <2>5. QED
      BY <2>2, <2>3, <2>4
  <1>5. CASE /\ t.cleanup = "Requested" /\ t.init \in {"Deferred", "CanceledBeforeEntry"}
             /\ t' = Canceled([t EXCEPT !.lock = "free"]) /\ worker' = "none"
    <2> DEFINE x == [t EXCEPT !.lock = "free"]
    <2>1. t.closed
      BY <1>5 DEF Ending
    <2>2. /\ IsTransport(x) /\ x.closed
          /\ x.stopIntent = t.stopIntent /\ x.faulted = t.faulted /\ x.mode = t.mode
          /\ x.gate = t.gate /\ x.module = t.module /\ x.loader = t.loader
          /\ x.active = t.active /\ x.shutdowns = t.shutdowns /\ x.jobFaults = t.jobFaults
          /\ x.lock = t.lock \/ (t.lock = "worker" /\ x.lock = "free")
      <3>1. IsTransport(t)
        OBVIOUS
      <3> HIDE DEF TransportInv, TransportTypes
      <3>2. IsTransport(x)
        BY <3>1 DEF IsTransport, Fields
      <3>3. x.lock = "free"
        BY <3>1 DEF IsTransport, Fields
      <3>4. QED
        BY <1>1, <2>1, <3>1, <3>2, <3>3 DEF IsTransport, Fields
    <2>3. t' = Canceled(x)
      BY <1>5
    <2> HIDE DEF x
    <2>4. QED
      BY <1>1, <1>5, <2>1, <2>2, <2>3, CancelKeeps
  <1>6. CASE /\ t.cleanup = "Requested" /\ t.module
             /\ t' = [CloseAdmission(t) EXCEPT !.lock = "worker", !.cleanup = "Executing"]
             /\ worker' = "executing"
    <2> DEFINE x == CloseAdmission(t)
    <2>1. t.closed /\ t.shutdowns = 0 /\ ~t.stopped
      BY <1>6 DEF Ending, InitAt
    <2>2. IsTransport(x) /\ Same(t, x)
      BY <2>1, CloseSame
    <2>3. t' = [x EXCEPT !.lock = "worker", !.cleanup = "Executing"]
      BY <1>6
    <2> HIDE DEF x
    <2>4. /\ IsTransport(t') /\ t'.lock = "worker" /\ t'.cleanup = "Executing"
          /\ t'.init = x.init /\ t'.loader = x.loader
          /\ t'.gate = x.gate /\ t'.mode = x.mode /\ t'.faulted = x.faulted
          /\ t'.stopIntent = x.stopIntent /\ t'.closed = x.closed /\ t'.stopped = x.stopped
          /\ t'.module = x.module
          /\ t'.job = x.job /\ t'.result = x.result /\ t'.jobFaults = x.jobFaults
          /\ t'.active = x.active /\ t'.shutdowns = x.shutdowns
      BY <2>2, <2>3 DEF IsTransport, Fields
    <2>c. /\ t'.job = t.job /\ t'.module = t.module /\ t'.shutdowns = t.shutdowns
          /\ t'.init = t.init /\ t'.cleanup = "Executing"
      BY <2>2, <2>4 DEF Same
    <2>d. t'.job # "none" /\ t'.module /\ t'.shutdowns = 0
      BY <1>3, <1>6, <2>1, <2>c
    <2>5. TransportTypes' /\ LockHeld' /\ WorkerAt'
      <3>1. TransportTypes'
        BY <1>1, <1>2, <1>3, <1>6, <2>1, <2>2, <2>4 DEF Quietly, Same
      <3>2. LockHeld'
        BY <1>1, <1>2, <1>3, <1>6, <2>1, <2>2, <2>4 DEF Quietly, LockHeld, Same
      <3>3. WorkerAt'
        BY <1>6, <2>c, <2>d DEF WorkerAt
      <3>4. QED
        BY <3>1, <3>2, <3>3
    <2>6. InitAt'
      BY <1>1, <1>3, <1>6, <2>1, <2>2, <2>4 DEF InitAt, Same
    <2>a. ModuleHeld'
      BY <1>3, <1>6, <2>c, <2>d DEF ModuleHeld
    <2>b. Ending'
      BY <1>1, <1>3, <1>6, <2>1, <2>2, <2>4 DEF Ending, Same
    <2>7. Unseen' /\ Blame'
      <3>1. Unseen'
        BY <1>1, <1>3, <1>6, <2>2, <2>4 DEF Unseen, Same
      <3>2. Blame'
        BY <1>1, <1>3, <1>6, <2>2, <2>4 DEF Blame, Same
      <3>3. QED
        BY <3>1, <3>2
    <2>8. QED
      BY <2>5, <2>6, <2>7, <2>a, <2>b
  <1>7. QED
    <2>1. t' = [t EXCEPT !.lock = "free"] => t'.cleanup = t.cleanup
      BY DEF IsTransport, Fields
    <2>2. QED
      BY <1>4, <1>5, <1>6, <2>1 DEF CleanupLock

(* One more shutdown. *)
LEMMA CountFields ==
    ASSUME NEW x, IsTransport(x), x.shutdowns = 0
    PROVE  LET y == [x EXCEPT !.shutdowns = @ + 1] IN
           /\ IsTransport(y) /\ y.shutdowns = 1
           /\ y.lock = x.lock /\ y.cleanup = x.cleanup
           /\ y.init = x.init /\ y.loader = x.loader
           /\ y.gate = x.gate /\ y.mode = x.mode /\ y.faulted = x.faulted
           /\ y.stopIntent = x.stopIntent /\ y.closed = x.closed /\ y.stopped = x.stopped
           /\ y.module = x.module
           /\ y.job = x.job /\ y.result = x.result /\ y.jobFaults = x.jobFaults
           /\ y.active = x.active
  BY DEF IsTransport, Fields

(* finish_stop after shutdown has returned. *)
LEMMA ReturnedFields ==
    ASSUME NEW x, IsTransport(x), NEW ok \in BOOLEAN
    PROVE  LET y == [FinishStop(x) EXCEPT
                       !.halted = ok, !.lock = "free",
                       !.cleanup = IF ok THEN "Complete" ELSE "Uncertain",
                       !.job = IF ok THEN "none" ELSE @] IN
           /\ IsTransport(y) /\ y.lock = "free" /\ y.stopped
           /\ y.cleanup = IF ok THEN "Complete" ELSE "Uncertain"
           /\ y.job = IF ok THEN "none" ELSE x.job
           /\ y.init = x.init /\ y.loader = x.loader
           /\ y.gate = x.gate /\ y.mode = x.mode /\ y.faulted = x.faulted
           /\ y.stopIntent = x.stopIntent /\ y.closed = x.closed
           /\ y.module = x.module
           /\ y.result = x.result /\ y.jobFaults = x.jobFaults
           /\ y.active = x.active /\ y.shutdowns = x.shutdowns
  <1> DEFINE f == FinishStop(x)
             c == IF ok THEN "Complete" ELSE "Uncertain"
             j == IF ok THEN "none" ELSE f.job
             y == [f EXCEPT !.halted = ok, !.lock = "free", !.cleanup = c, !.job = j]
  <1>1. /\ IsTransport(f) /\ f.stopped
        /\ f.job = x.job /\ f.init = x.init /\ f.loader = x.loader
        /\ f.gate = x.gate /\ f.mode = x.mode /\ f.faulted = x.faulted
        /\ f.stopIntent = x.stopIntent /\ f.closed = x.closed
        /\ f.module = x.module /\ f.result = x.result /\ f.jobFaults = x.jobFaults
        /\ f.active = x.active /\ f.shutdowns = x.shutdowns
    BY DEF FinishStop, IsTransport, Fields
  <1>2. c \in {"Complete", "Uncertain"} /\ j \in {"none", "init", "cleanup"}
    BY <1>1 DEF IsTransport
  <1> HIDE DEF f, c, j
  <1>3. /\ IsTransport(y) /\ y.lock = "free" /\ y.stopped = f.stopped
        /\ y.cleanup = c /\ y.job = j
        /\ y.init = f.init /\ y.loader = f.loader
        /\ y.gate = f.gate /\ y.mode = f.mode /\ y.faulted = f.faulted
        /\ y.stopIntent = f.stopIntent /\ y.closed = f.closed
        /\ y.module = f.module /\ y.result = f.result /\ y.jobFaults = f.jobFaults
        /\ y.active = f.active /\ y.shutdowns = f.shutdowns
    <2>1. DOMAIN y = DOMAIN f
      OBVIOUS
    <2>2. /\ y.init = f.init /\ y.loader = f.loader /\ y.stopped = f.stopped
          /\ y.gate = f.gate /\ y.mode = f.mode /\ y.faulted = f.faulted
          /\ y.stopIntent = f.stopIntent /\ y.closed = f.closed
      BY <1>1 DEF IsTransport, Fields
    <2>a. /\ y.module = f.module /\ y.result = f.result /\ y.jobFaults = f.jobFaults
          /\ y.active = f.active /\ y.shutdowns = f.shutdowns
      BY <1>1 DEF IsTransport, Fields
    <2>3. y.lock = "free" /\ y.cleanup = c /\ y.job = j
      BY <1>1 DEF IsTransport, Fields
    <2> HIDE DEF y
    <2>4. QED
      BY <1>1, <1>2, <2>1, <2>2, <2>3, <2>a DEF IsTransport, Final
  <1>4. y = [FinishStop(x) EXCEPT
               !.halted = ok, !.lock = "free",
               !.cleanup = IF ok THEN "Complete" ELSE "Uncertain",
               !.job = IF ok THEN "none" ELSE @]
    BY DEF f, c, j
  <1> HIDE DEF y
  <1>5. QED
    BY <1>1, <1>3, <1>4 DEF c, j

(* stop_sync. *)
LEMMA ShutdownEnterKeeps ==
    ASSUME TransportInv, ShutdownEnter
    PROVE  TransportInv'
  <1> USE DEF TransportInv, TransportTypes
  <1>1. /\ sending' = sending /\ stops' = stops /\ reinit' = reinit
        /\ worker = "executing" /\ worker' = "shutdown" /\ t.active = {}
        /\ t' = [t EXCEPT !.shutdowns = @ + 1]
    BY DEF ShutdownEnter
  <1>2. Quietly
    BY <1>1, AsideQuiet
  <1>3. t.shutdowns = 0 /\ t.cleanup = "Executing" /\ t.module /\ t.lock = "worker"
        /\ t.loader = "none" /\ ~t.stopped
    BY <1>1 DEF WorkerAt, LockHeld, Ending, InitAt
  <1>4. /\ IsTransport(t') /\ t'.shutdowns = 1
        /\ t'.lock = t.lock /\ t'.cleanup = t.cleanup
        /\ t'.init = t.init /\ t'.loader = t.loader
        /\ t'.gate = t.gate /\ t'.mode = t.mode /\ t'.faulted = t.faulted
        /\ t'.stopIntent = t.stopIntent /\ t'.closed = t.closed /\ t'.stopped = t.stopped
        /\ t'.module = t.module
        /\ t'.job = t.job /\ t'.result = t.result /\ t'.jobFaults = t.jobFaults
        /\ t'.active = t.active
    BY <1>1, <1>3, CountFields
  <1>5. TransportTypes' /\ LockHeld' /\ WorkerAt'
    <2>1. TransportTypes'
      BY <1>1, <1>2, <1>3, <1>4 DEF Quietly
    <2>2. LockHeld'
      BY <1>1, <1>2, <1>3, <1>4 DEF Quietly, LockHeld
    <2>3. WorkerAt'
      BY <1>1, <1>2, <1>3, <1>4 DEF Quietly, WorkerAt
    <2>4. QED
      BY <2>1, <2>2, <2>3
  <1>6. InitAt' /\ ModuleHeld' /\ Ending'
    <2>1. InitAt'
      BY <1>1, <1>3, <1>4 DEF InitAt
    <2>2. ModuleHeld'
      BY <1>1, <1>3, <1>4 DEF ModuleHeld
    <2>3. Ending'
      BY <1>1, <1>3, <1>4 DEF Ending
    <2>4. QED
      BY <2>1, <2>2, <2>3
  <1>7. Unseen' /\ Blame'
    <2>1. Unseen'
      BY <1>1, <1>3, <1>4 DEF Unseen
    <2>2. Blame'
      BY <1>1, <1>3, <1>4 DEF Blame
    <2>3. QED
      BY <2>1, <2>2
  <1>8. QED
    BY <1>5, <1>6, <1>7

LEMMA ShutdownReturnsKeeps ==
    ASSUME TransportInv, NEW ok \in BOOLEAN, ShutdownReturns(ok)
    PROVE  TransportInv'
  <1> DEFINE y == [FinishStop(t) EXCEPT
                     !.halted = ok, !.lock = "free",
                     !.cleanup = IF ok THEN "Complete" ELSE "Uncertain",
                     !.job = IF ok THEN "none" ELSE @]
  <1> USE DEF TransportInv, TransportTypes
  <1>1. /\ sending' = sending /\ stops' = stops /\ reinit' = reinit
        /\ worker = "shutdown" /\ worker' = "none" /\ t' = y
    BY DEF ShutdownReturns
  <1>2. Quietly
    BY <1>1, AsideQuiet
  <1>3. t.shutdowns = 1 /\ t.active = {} /\ t.cleanup = "Executing" /\ t.module
        /\ t.lock = "worker" /\ t.loader = "none" /\ ~reinit.native
        /\ t.init \in {"PublishedValid", "ExternalValid"}
    BY <1>1 DEF WorkerAt, LockHeld, ModuleHeld, InitAt
  <1>4. /\ IsTransport(y) /\ y.lock = "free" /\ y.stopped
        /\ y.cleanup = IF ok THEN "Complete" ELSE "Uncertain"
        /\ y.job = IF ok THEN "none" ELSE t.job
        /\ y.init = t.init /\ y.loader = t.loader
        /\ y.gate = t.gate /\ y.mode = t.mode /\ y.faulted = t.faulted
        /\ y.stopIntent = t.stopIntent /\ y.closed = t.closed
        /\ y.module = t.module
        /\ y.result = t.result /\ y.jobFaults = t.jobFaults
        /\ y.active = t.active /\ y.shutdowns = t.shutdowns
    <2>1. IsTransport(t)
      OBVIOUS
    <2> HIDE DEF TransportInv, TransportTypes
    <2>2. QED
      BY <2>1, ReturnedFields
  <1> HIDE DEF y
  <1>6. TransportTypes' /\ LockHeld' /\ WorkerAt'
    <2>1. TransportTypes'
      BY <1>1, <1>2, <1>3, <1>4 DEF Quietly
    <2>2. LockHeld'
      BY <1>1, <1>2, <1>3, <1>4 DEF Quietly, LockHeld
    <2>3. WorkerAt'
      BY <1>1, <1>2, <1>3, <1>4 DEF Quietly, WorkerAt
    <2>4. QED
      BY <2>1, <2>2, <2>3
  <1>7. InitAt' /\ ModuleHeld' /\ Ending'
    <2>1. InitAt'
      BY <1>1, <1>3, <1>4 DEF InitAt
    <2>2. ModuleHeld'
      BY <1>1, <1>3, <1>4 DEF ModuleHeld
    <2>3. Ending'
      BY <1>1, <1>3, <1>4 DEF Ending
    <2>4. QED
      BY <2>1, <2>2, <2>3
  <1>8. Unseen' /\ Blame'
    <2>1. Unseen'
      BY <1>1, <1>3, <1>4 DEF Unseen
    <2>2. Blame'
      BY <1>1, <1>3, <1>4 DEF Blame
    <2>3. QED
      BY <2>1, <2>2
  <1>9. QED
    BY <1>6, <1>7, <1>8

-----------------------------------------------------------------------------
(* stop, reinitialize, and the module with the host around it.             *)

LEMMA StopCallKeeps ==
    ASSUME TransportInv, NEW s \in Stoppers, StopCall(s) \/ StopDone(s) \/ StopDeadline(s)
    PROVE  TransportInv'
  <1> USE DEF TransportInv, TransportTypes
  <1>1. /\ t' = t /\ sending' = sending /\ worker' = worker /\ reinit' = reinit
        /\ t.mode = "eager" => t.result = "ok"
        /\ \E pc \in {"lock", "done", "started", "notStarted"} :
             stops' = [stops EXCEPT ![s].pc = pc]
    BY DEF StopCall, StopDone, StopDeadline, StopAt, Visible, Unseen
  <1>2. TaskTypes'
    BY <1>1 DEF TaskTypes
  <1>3. Quietly
    BY <1>1, <1>2 DEF Quietly, Blame
  <1>4. Same(t, t')
    BY <1>1 DEF Same
  <1>5. QED
    BY <1>1, <1>3, <1>4, SameKeeps

(* stop closes admission and finds a job for the cleanup. *)
LEMMA StopLockedKeeps ==
    ASSUME TransportInv, NEW s \in Stoppers, StopLocked(s)
    PROVE  TransportInv'
  <1> DEFINE c == CommitTerminal(t, FALSE)
             r == Requested(c)
             mine == NeedsJob(r)
             j == [r EXCEPT !.job = "cleanup", !.jobFaults = FALSE, !.lock = "worker"]
             h == ~r.faulted /\ r.cleanup = "Requested" /\ (mine \/ r.init = "Scheduled")
  <1> USE DEF TransportInv, TransportTypes
  <1>1. /\ sending' = sending /\ reinit' = reinit /\ t.lock = "free" /\ stops[s].pc = "lock"
    BY DEF StopLocked
  <1>2. CASE t.stopped
    <2>1. t' = t /\ worker' = worker /\ stops' = [stops EXCEPT ![s].pc = "notStarted"]
      BY <1>2 DEF StopLocked, StopAt
    <2>2. TaskTypes'
      BY <1>1, <2>1 DEF TaskTypes
    <2>3. t.mode = "eager" => t.result = "ok"
      BY <1>1 DEF Unseen
    <2>4. Quietly
      BY <1>1, <2>1, <2>2, <2>3 DEF Quietly, Blame
    <2>5. Same(t, t')
      BY <2>1 DEF Same
    <2>6. QED
      BY <2>1, <2>4, <2>5, SameKeeps
  <1>3. CASE ~t.stopped
    <2>1. /\ t' = (IF mine THEN j ELSE r) /\ worker' = Submitted(t')
          /\ stops' = [stops EXCEPT ![s] = [pc |-> "wait", handoff |-> h]]
      BY <1>3 DEF StopLocked, Become
    <2>2. t.mode = "eager" => t.result = "ok"
      BY <1>1 DEF Unseen
    <2>a. h \in BOOLEAN
      OBVIOUS
    <2> HIDE DEF h
    <2>3. TaskTypes'
      BY <1>1, <2>1, <2>a DEF TaskTypes
    <2>4. /\ t.loader = "none" /\ ~reinit.native /\ t.init # "Entered"
          /\ worker \in {"none", "submitted", "cleanup"}
      BY <1>1 DEF LockHeld, InitAt
    <2>t. IsTransport(t)
      OBVIOUS
    <2>5. /\ IsTransport(r) /\ r.closed /\ r.stopIntent
          /\ r.faulted = (t.faulted \/ FALSE)
          /\ r.cleanup = IF t.cleanup = "Idle" THEN "Requested" ELSE t.cleanup
          /\ r.mode = t.mode /\ r.gate = t.gate /\ r.stopped = t.stopped
          /\ r.module = t.module /\ r.init = t.init
          /\ r.job = t.job /\ r.result = t.result /\ r.jobFaults = t.jobFaults
          /\ r.loader = t.loader /\ r.lock = t.lock /\ r.active = t.active
          /\ r.shutdowns = t.shutdowns
      <3> HIDE DEF TransportInv, TransportTypes
      <3>1. /\ IsTransport(c)
            /\ c.closed /\ c.stopIntent /\ c.faulted = (t.faulted \/ FALSE)
            /\ c.mode = t.mode /\ c.gate = t.gate /\ c.stopped = t.stopped
            /\ c.module = t.module /\ c.init = t.init /\ c.cleanup = t.cleanup
            /\ c.job = t.job /\ c.result = t.result /\ c.jobFaults = t.jobFaults
            /\ c.loader = t.loader /\ c.lock = t.lock /\ c.active = t.active
            /\ c.shutdowns = t.shutdowns
        BY <2>t, CommitFields
      <3> HIDE DEF c
      <3>2. CASE c.cleanup = "Idle"
        BY <3>1, <3>2 DEF Requested, IsTransport, Fields
      <3>3. CASE c.cleanup # "Idle"
        BY <3>1, <3>3 DEF Requested
      <3>4. QED
        BY <3>2, <3>3
    <2> HIDE DEF r
    <2>6. Quietly
      BY <1>1, <2>2, <2>3 DEF Quietly, Blame
    <2>b. r.faulted = t.faulted
      BY <2>t, <2>5 DEF IsTransport
    <2>c. t.mode = "eager" => t.init # "Deferred"
      BY <2>2 DEF ModuleHeld
    <2>7. CASE ~mine
      <3>1. t' = r
        BY <2>1, <2>7
      <3>2. worker' = worker
        BY <2>1, <2>5, <3>1 DEF Submitted
      <3>3. TransportTypes' /\ LockHeld' /\ WorkerAt'
        <4>1. TransportTypes'
          BY <1>1, <2>4, <2>5, <2>6, <3>1, <3>2 DEF Quietly
        <4>2. LockHeld'
          BY <1>1, <2>4, <2>5, <2>6, <3>1, <3>2 DEF Quietly, LockHeld
        <4>3. WorkerAt'
          BY <1>1, <2>4, <2>5, <2>6, <3>1, <3>2 DEF Quietly, WorkerAt
        <4>4. QED
          BY <4>1, <4>2, <4>3
      <3>4. InitAt' /\ ModuleHeld' /\ Ending'
        <4>1. InitAt'
          BY <1>1, <2>4, <2>5, <3>1, <3>2 DEF InitAt
        <4>2. ModuleHeld'
          BY <1>1, <2>4, <2>5, <3>1, <3>2 DEF ModuleHeld
        <4>3. Ending'
          BY <1>1, <2>4, <2>5, <3>1, <3>2 DEF Ending
        <4>4. QED
          BY <4>1, <4>2, <4>3
      <3>5. Unseen' /\ Blame'
        <4>1. Unseen'
          BY <1>1, <2>2, <2>5, <2>b, <2>c, <3>1, <3>2 DEF Unseen
        <4>2. Blame'
          BY <1>1, <2>2, <2>5, <2>b, <2>c, <3>1, <3>2 DEF Blame
        <4>3. QED
          BY <4>1, <4>2
      <3>6. QED
        BY <3>3, <3>4, <3>5
    <2>8. CASE mine
      <3>1. t' = j
        BY <2>1, <2>8
      <3>2. /\ IsTransport(j) /\ j.job = "cleanup" /\ ~j.jobFaults /\ j.lock = "worker"
            /\ j.closed = r.closed /\ j.stopIntent = r.stopIntent /\ j.faulted = r.faulted
            /\ j.cleanup = r.cleanup
            /\ j.mode = r.mode /\ j.gate = r.gate /\ j.stopped = r.stopped
            /\ j.module = r.module /\ j.init = r.init /\ j.result = r.result
            /\ j.loader = r.loader /\ j.active = r.active /\ j.shutdowns = r.shutdowns
        <4> HIDE DEF TransportInv, TransportTypes
        <4>1. DOMAIN j = DOMAIN r
          OBVIOUS
        <4>2. j.job = "cleanup" /\ j.jobFaults = FALSE /\ j.lock = "worker"
          BY <2>5 DEF IsTransport, Fields
        <4>3. /\ j.closed = r.closed /\ j.stopIntent = r.stopIntent /\ j.faulted = r.faulted
              /\ j.cleanup = r.cleanup
              /\ j.mode = r.mode /\ j.gate = r.gate /\ j.stopped = r.stopped
              /\ j.module = r.module /\ j.init = r.init /\ j.result = r.result
              /\ j.loader = r.loader /\ j.active = r.active /\ j.shutdowns = r.shutdowns
          BY <2>5 DEF IsTransport, Fields
        <4> HIDE DEF j
        <4>4. QED
          BY <2>5, <4>1, <4>2, <4>3 DEF IsTransport
      <3> HIDE DEF j
      <3>3. /\ t.job = "none" /\ worker = "none" /\ worker' = "submitted"
            /\ t.cleanup \in {"Idle", "Requested"} /\ j.cleanup = "Requested"
            /\ t.shutdowns = 0
        BY <2>1, <2>5, <2>8, <3>1, <3>2 DEF NeedsJob, Submitted, WorkerAt, Ending
      <3>4. TransportTypes' /\ LockHeld' /\ WorkerAt'
        <4>1. TransportTypes'
          BY <1>1, <2>4, <2>5, <2>6, <3>1, <3>2, <3>3 DEF Quietly
        <4>2. LockHeld'
          BY <1>1, <2>4, <2>5, <2>6, <3>1, <3>2, <3>3 DEF Quietly, LockHeld
        <4>3. WorkerAt'
          BY <1>1, <2>4, <2>5, <2>6, <3>1, <3>2, <3>3 DEF Quietly, WorkerAt
        <4>4. QED
          BY <4>1, <4>2, <4>3
      <3>5. InitAt' /\ ModuleHeld'
        <4>1. InitAt'
          BY <1>1, <2>4, <2>5, <3>1, <3>2, <3>3 DEF InitAt
        <4>2. ModuleHeld'
          BY <1>1, <2>4, <2>5, <3>1, <3>2, <3>3 DEF ModuleHeld
        <4>3. QED
          BY <4>1, <4>2
      <3>6. Ending'
        BY <1>1, <1>3, <2>4, <2>5, <3>1, <3>2, <3>3 DEF Ending
      <3>7. t.result = "none" => t.init = "Deferred"
        BY <2>4, <3>3 DEF InitAt, IsTransport, Phases
      <3>8. Unseen'
        BY <1>1, <2>2, <2>5, <2>c, <3>1, <3>2 DEF Unseen
      <3>9. Blame'
        BY <1>1, <2>5, <2>b, <3>1, <3>2, <3>7 DEF Blame
      <3>10. QED
        BY <3>4, <3>5, <3>6, <3>8, <3>9
    <2>9. QED
      BY <2>7, <2>8
  <1>4. QED
    BY <1>2, <1>3

LEMMA ReinitWaitsKeeps ==
    ASSUME TransportInv, ReinitCall \/ ReinitAwait \/ ReinitDeadline
    PROVE  TransportInv'
  <1> USE DEF TransportInv, TransportTypes
  <1>1. /\ t' = t /\ sending' = sending /\ worker' = worker /\ stops' = stops
        /\ \E pc \in {"lock", "over"} : reinit' = [reinit EXCEPT !.pc = pc]
    BY DEF ReinitCall, ReinitAwait, ReinitDeadline, ReinitAt
  <1>2. TaskTypes' /\ reinit'.native = reinit.native
    BY <1>1 DEF TaskTypes
  <1>3. Quietly
    BY <1>1, <1>2 DEF Quietly, Unseen, Blame
  <1>4. Same(t, t')
    BY <1>1 DEF Same
  <1>5. QED
    BY <1>1, <1>3, <1>4, SameKeeps

(* The reconfiguration callback takes the lifecycle lock and gives it back. *)
LEMMA ReinitLockKeeps ==
    ASSUME TransportInv, sending' = sending, worker' = worker, stops' = stops,
           NEW lock \in {"free", "reinit"}, t' = [t EXCEPT !.lock = lock], TaskTypes',
           reinit'.native <=> lock = "reinit",
           \/ lock = "free" /\ t.lock = "reinit"
           \/ lock = "reinit" /\ t.lock = "free" /\ t.module /\ ~t.closed
    PROVE  TransportInv'
  <1> USE DEF TransportInv, TransportTypes
  <1>1. /\ IsTransport(t') /\ t'.lock = lock
        /\ t'.init = t.init /\ t'.loader = t.loader /\ t'.cleanup = t.cleanup
        /\ t'.gate = t.gate /\ t'.mode = t.mode /\ t'.faulted = t.faulted
        /\ t'.stopIntent = t.stopIntent /\ t'.closed = t.closed /\ t'.stopped = t.stopped
        /\ t'.module = t.module
        /\ t'.job = t.job /\ t'.result = t.result /\ t'.jobFaults = t.jobFaults
        /\ t'.active = t.active /\ t'.shutdowns = t.shutdowns
    <2>1. IsTransport(t)
      OBVIOUS
    <2> HIDE DEF TransportInv, TransportTypes
    <2>2. QED
      BY <2>1 DEF IsTransport, Fields
  <1>2. TransportTypes' /\ LockHeld' /\ WorkerAt'
    <2>1. TransportTypes'
      BY <1>1
    <2>2. LockHeld'
      BY <1>1 DEF LockHeld
    <2>3. WorkerAt'
      BY <1>1 DEF WorkerAt
    <2>4. QED
      BY <2>1, <2>2, <2>3
  <1>3. InitAt' /\ ModuleHeld'
    <2>1. InitAt'
      BY <1>1 DEF InitAt, LockHeld
    <2>2. ModuleHeld'
      BY <1>1 DEF ModuleHeld, LockHeld
    <2>3. QED
      BY <2>1, <2>2
  <1>4. Ending'
    BY <1>1 DEF Ending
  <1>5. Unseen'
    BY <1>1 DEF Unseen, ModuleHeld, LockHeld
  <1>6. Blame'
    BY <1>1 DEF Blame
  <1>7. QED
    BY <1>2, <1>3, <1>4, <1>5, <1>6

LEMMA ReinitKeeps ==
    ASSUME TransportInv, ReinitLocked \/ ReinitReturns
    PROVE  TransportInv'
  <1> USE DEF TransportInv, TransportTypes
  <1>1. CASE /\ ReinitLocked /\ t' = t
             /\ \E pc \in {"over", "awaitInit", "awaitReady"} : reinit' = [reinit EXCEPT !.pc = pc]
    <2>1. sending' = sending /\ worker' = worker /\ stops' = stops
      BY <1>1 DEF ReinitLocked
    <2>2. TaskTypes' /\ reinit'.native = reinit.native
      BY <1>1, <2>1 DEF TaskTypes
    <2>3. Quietly
      BY <2>1, <2>2 DEF Quietly, Unseen, Blame
    <2>4. Same(t, t')
      BY <1>1 DEF Same
    <2>5. QED
      BY <1>1, <2>1, <2>3, <2>4, SameKeeps
  <1>2. CASE /\ ReinitLocked /\ ~Dead /\ t.module
             /\ t' = [t EXCEPT !.lock = "reinit"]
             /\ reinit' = [pc |-> "native", native |-> TRUE]
    <2>1. /\ sending' = sending /\ worker' = worker /\ stops' = stops /\ t.lock = "free"
          /\ ~t.closed
      BY <1>2 DEF ReinitLocked, Dead
    <2>2. TaskTypes' /\ reinit'.native
      BY <1>2, <2>1 DEF TaskTypes
    <2>3. QED
      BY <1>2, <2>1, <2>2, ReinitLockKeeps
  <1>3. CASE ReinitReturns
    <2>1. /\ sending' = sending /\ worker' = worker /\ stops' = stops /\ t.lock = "reinit"
          /\ t' = [t EXCEPT !.lock = "free"]
          /\ reinit' = [pc |-> "over", native |-> FALSE]
      BY <1>3 DEF ReinitReturns, LockHeld
    <2>2. TaskTypes' /\ ~reinit'.native
      BY <2>1 DEF TaskTypes
    <2>3. QED
      BY <2>1, <2>2, ReinitLockKeeps
  <1>4. QED
    BY <1>1, <1>2, <1>3 DEF ReinitLocked, ReinitAt

(* host_fault. *)
LEMMA HostFaultKeeps ==
    ASSUME TransportInv, HostFault
    PROVE  TransportInv'
  <1> DEFINE p == PublishFlags(t, TRUE)
             q == [p EXCEPT !.inbound = FALSE]
  <1>1. /\ sending' = sending /\ stops' = stops /\ reinit' = reinit
        /\ t' = RequestTerminal(q, TRUE) /\ worker' = Submitted(t')
    BY DEF HostFault, Become
  <1>2. IsTransport(t)
    BY DEF TransportInv, TransportTypes
  <1>3. IsTransport(p) /\ Faulting(t, p)
    BY <1>2 DEF PublishFlags, IsTransport, Fields, Faulting
  <1> HIDE DEF p
  <1>4. IsTransport(q) /\ Faulting(t, q)
    BY <1>3 DEF IsTransport, Fields, Faulting
  <1> HIDE DEF q
  <1>5. IsTransport(t') /\ Ended(q, t', TRUE)
    BY <1>1, <1>4, TerminalEnds
  <1>6. Ended(t, t', TRUE)
    BY <1>4, <1>5, FaultingEnds
  <1>7. Quietly
    BY <1>1, AsideQuiet
  <1>8. QED
    BY <1>1, <1>5, <1>6, <1>7, StepKeeps

LEMMA HostKeeps ==
    ASSUME TransportInv, HostReady \/ Unbind \/ HostWorkEnds \/ \E m \in Msgs : Answer(m)
    PROVE  TransportInv'
  <1>1. sending' = sending /\ stops' = stops /\ reinit' = reinit /\ worker' = worker
    BY DEF HostReady, Unbind, HostWorkEnds, Answer
  <1>2. IsTransport(t)
    BY DEF TransportInv, TransportTypes
  <1>3. CASE HostReady \/ Unbind \/ HostWorkEnds
    <2>1. \/ t' = [t EXCEPT !.ready = TRUE] \/ t' = [t EXCEPT !.bound = FALSE]
          \/ t' = [t EXCEPT !.hostWork = FALSE]
      BY <1>3 DEF HostReady, Unbind, HostWorkEnds
    <2>2. IsTransport(t') /\ Same(t, t')
      BY <1>2, <2>1 DEF IsTransport, Fields, Same
    <2>3. QED
      BY <1>1, <2>2, AsideQuiet, SameKeeps
  <1>4. CASE \E m \in Msgs : Answer(m)
    <2> PICK m \in Msgs : Answer(m)
      BY <1>4
    <2> DEFINE a == Fated(t, {m}, "answered")
               b == [a EXCEPT !.inflight = IF @ = 0 THEN 0 ELSE @ - 1]
               l == Fated(t, {m}, "lost")
    <2>1. t' = b \/ t' = l
      BY DEF Answer
    <2>2. IsTransport(a) /\ Same(t, a) /\ IsTransport(l) /\ Same(t, l)
      BY <1>2, FatedSame
    <2> HIDE DEF a, l
    <2>3. IsTransport(b) /\ Same(a, b)
      BY <2>2 DEF IsTransport, Fields, Same
    <2> HIDE DEF b
    <2>4. IsTransport(t') /\ Same(t, t')
      BY <2>1, <2>2, <2>3, SameTwice
    <2>5. QED
      BY <1>1, <2>4, AsideQuiet, SameKeeps
  <1>5. QED
    BY <1>3, <1>4

-----------------------------------------------------------------------------
(* The invariant.                                                          *)

LEMMA TransportInit == Init => TransportInv
  <1> SUFFICES ASSUME Init PROVE TransportInv
    OBVIOUS
  <1> PICK mode \in Modes, paused \in BOOLEAN :
        /\ mode = "eager" => ~paused
        /\ t = NewTransport(mode, IF paused THEN "paused" ELSE "open", paused)
    BY DEF Init
  <1>1. /\ t.mode = mode /\ t.gate = IF paused THEN "paused" ELSE "open"
        /\ ~t.faulted /\ ~t.stopIntent /\ ~t.closed /\ ~t.stopped /\ ~t.module
        /\ t.init = "Deferred" /\ t.cleanup = "Idle" /\ t.job = "none" /\ t.result = "none"
        /\ ~t.jobFaults /\ t.loader = "none" /\ t.lock = "free" /\ t.active = {}
        /\ t.shutdowns = 0
    BY DEF NewTransport
  <1>2. IsTransport(t)
    BY TransportAssumption DEF NewTransport, IsTransport, Fields, Phases
  <1>3. /\ sending = [pc |-> "idle", msg |-> 0, initiating |-> FALSE] /\ worker = "none"
        /\ stops = [s \in Stoppers |-> [pc |-> "idle", handoff |-> FALSE]]
        /\ ~reinit.native
    BY DEF Init
  <1>4. TransportTypes
    <2>1. sending \in [pc : {"idle", "gate", "init", "route", "check", "native", "parked"},
                       msg : Nat, initiating : BOOLEAN]
      BY <1>3
    <2>2. stops \in [Stoppers -> [pc : {"idle", "lock", "wait", "done", "started", "notStarted"},
                                  handoff : BOOLEAN]]
      BY <1>3
    <2>3. reinit \in [pc : {"idle", "lock", "awaitInit", "awaitReady", "native", "over"},
                      native : BOOLEAN]
      BY DEF Init
    <2>4. QED
      BY <1>2, <1>3, <2>1, <2>2, <2>3 DEF TransportTypes, TaskTypes
  <1>5. LockHeld /\ WorkerAt /\ InitAt /\ ModuleHeld /\ Ending
    BY <1>1, <1>3 DEF LockHeld, WorkerAt, InitAt, ModuleHeld, Ending
  <1>6. Unseen /\ Blame
    BY <1>1, <1>3 DEF Unseen, Blame
  <1>7. QED
    BY <1>4, <1>5, <1>6 DEF TransportInv

LEMMA WorkKeeps == ASSUME TransportInv, Work PROVE TransportInv'
  BY WorkerEnterKeeps, InitReturnsKeeps, EagerReturnsKeeps, ShutdownReturnsKeeps,
     InitPublishedKeeps, EagerPublishedKeeps, CleanupStartKeeps, CleanupLockKeeps,
     ShutdownEnterKeeps DEF Work

LEMMA TransportNext == ASSUME TransportInv, [Next]_vars PROVE TransportInv'
  <1>1. CASE \E allowed \in BOOLEAN : ReleaseInitialization(allowed)
    BY <1>1, ReleaseKeeps
  <1>2. CASE SendStart \/ SendGate \/ SendInitialized \/ SendDeadline \/ SendRoute
    BY <1>2, SendStartKeeps, SendGateKeeps, SendInitializedKeeps, SendDeadlineKeeps,
       SendRouteKeeps
  <1>3. CASE \E w \in {"send", "drain"} : Deliver(w)
    BY <1>3, DeliverKeeps
  <1>4. CASE DrainReady \/ DrainNext
    BY <1>4, DrainKeeps
  <1>5. CASE EagerEnter \/ SpawnFails \/ Work
    BY <1>5, EagerEnterKeeps, SpawnFailsKeeps, WorkKeeps
  <1>6. CASE \E s \in Stoppers : StopCall(s) \/ StopLocked(s) \/ StopDone(s) \/ StopDeadline(s)
    BY <1>6, StopCallKeeps, StopLockedKeeps
  <1>7. CASE ReinitCall \/ ReinitLocked \/ ReinitAwait \/ ReinitReturns \/ ReinitDeadline
    BY <1>7, ReinitWaitsKeeps, ReinitKeeps
  <1>8. CASE HostReady \/ HostFault \/ Unbind \/ HostWorkEnds \/ \E m \in Msgs : Answer(m)
    BY <1>8, HostKeeps, HostFaultKeeps
  <1>9. CASE UNCHANGED vars
    <2>1. Quietly /\ Same(t, t') /\ worker' = worker /\ IsTransport(t')
      BY <1>9, AsideQuiet DEF vars, Same, TransportInv, TransportTypes
    <2>2. QED
      BY <2>1, SameKeeps
  <1>10. QED
    BY <1>1, <1>2, <1>3, <1>4, <1>5, <1>6, <1>7, <1>8, <1>9 DEF Next

(* The states of the lifecycle lock, the worker, the initialiser and the    *)
(* terminal flags agree at every moment (PhysicalState, HostContext and     *)
(* ModuleTransport of module/transport.rs). *)
THEOREM TransportInvariant == Spec => []TransportInv
  <1>1. Init => TransportInv
    BY TransportInit
  <1>2. TransportInv /\ [Next]_vars => TransportInv'
    BY TransportNext
  <1>3. QED
    BY <1>1, <1>2, PTL DEF Spec

(* The shutdown callback runs at most once, on a module whose initialiser   *)
(* returned, and beside no deliver callback, reconfiguration or initialiser,*)
(* whichever of stop's deadline, a fault or a late return comes first       *)
(* (stop_sync and the single PhysicalJob). *)
THEOREM ShutdownTheorem == Spec => []ShutdownOnceAlone
  <1>1. TransportInv => ShutdownOnceAlone
    BY DEF TransportInv, TransportTypes, IsTransport, LockHeld, WorkerAt, ModuleHeld, Ending,
           ShutdownOnceAlone, ShutdownAlone, ShutdownOnce
  <1>2. QED
    BY <1>1, TransportInvariant, PTL

(* finish_stop publishes physical completion only once no native code of    *)
(* the module can still be running for the host. *)
THEOREM StoppedTheorem == Spec => []StoppedIsOver
  <1>1. TransportInv => StoppedIsOver
    BY DEF TransportInv, Ending, StoppedIsOver
  <1>2. QED
    BY <1>1, TransportInvariant, PTL

-----------------------------------------------------------------------------
(* Who turns an ordinary stop into a fault.                                *)

LEMMA SendStays ==
    ASSUME TransportInv, t.closed, ~t.faulted,
           SendStart \/ SendGate \/ SendInitialized \/ SendRoute
    PROVE  ~t'.faulted
  <1>1. IsTransport(t) /\ t.closed = TRUE /\ t.faulted = FALSE
    BY DEF TransportInv, TransportTypes, IsTransport
  <1>2. t' = InitError(t, TRUE) => ~t'.faulted
    BY <1>1, InitErrorSettles DEF Same
  <1>3. CASE SendStart
    BY <1>1, <1>3, FatedSame DEF SendStart, Same
  <1>4. CASE SendGate
    BY <1>1, <1>2, <1>4 DEF SendGate, Become, Dead
  <1>5. CASE SendInitialized
    <2>1. t.result # "failed"
      BY <1>1, <1>5 DEF SendInitialized, TransportInv, Blame
    <2>2. (t.result # "failed") = TRUE
      BY <2>1
    <2>3. QED
      BY <1>1, <1>2, <1>5, <2>2 DEF SendInitialized, Become
  <1>6. CASE SendRoute
    BY <1>1, <1>6, FatedSame DEF SendRoute, Same
  <1>7. QED
    BY <1>3, <1>4, <1>5, <1>6

LEMMA DeliverStays ==
    ASSUME TransportInv, t.closed, ~t.faulted, NEW w \in {"send", "drain"}, Deliver(w)
    PROVE  ~t'.faulted \/ DeliverReturn("drain", "BAD")
  <1>1. IsTransport(t) /\ t.closed = TRUE /\ t.faulted = FALSE
    BY DEF TransportInv, TransportTypes, IsTransport
  <1>2. Failed(w, t, TRUE) => ~t'.faulted
    BY <1>1, FailedSettles
  <1>3. CASE DeliverEnter(w)
    BY <1>1, <1>2, <1>3 DEF DeliverEnter, Dead
  <1>4. CASE \E code \in {"OK", "BACKPRESSURE", "CLOSED", "BAD"} : DeliverReturn(w, code)
    <2> PICK code \in {"OK", "BACKPRESSURE", "CLOSED", "BAD"} : DeliverReturn(w, code)
      BY <1>4
    <2> DEFINE x == [t EXCEPT !.active = @ \ {w}]
    <2>1. IsTransport(x) /\ x.closed = TRUE /\ x.faulted = FALSE
      BY <1>1 DEF IsTransport, Fields
    <2>2. \/ t' = Fated(x, {Msg(w)}, "delivered") \/ t' = x \/ Failed(w, x, TRUE)
          \/ Failed(w, x, FALSE) /\ code = "BAD"
      BY DEF DeliverReturn
    <2> HIDE DEF x
    <2>3. CASE t' = Fated(x, {Msg(w)}, "delivered")
      BY <2>1, <2>3, FatedSame DEF Same
    <2>4. CASE t' = x
      BY <2>1, <2>4
    <2>5. CASE Failed(w, x, TRUE)
      BY <2>1, <2>5, FailedSettles
    <2>6. CASE Failed(w, x, FALSE) /\ code = "BAD"
      <3>1. CASE w = "send"
        BY <2>1, <2>6, <3>1, FailedSettles
      <3>2. CASE w = "drain"
        BY <2>6, <3>2
      <3>3. QED
        BY <3>1, <3>2
    <2>7. QED
      BY <2>2, <2>3, <2>4, <2>5, <2>6
  <1>5. CASE DeliverWoken(w)
    BY <1>1, <1>5 DEF DeliverWoken
  <1>6. CASE DeliverDeadline(w)
    BY <1>2, <1>6 DEF DeliverDeadline
  <1>7. QED
    BY <1>3, <1>4, <1>5, <1>6 DEF Deliver

LEMMA WorkStays ==
    ASSUME TransportInv, t.closed, ~t.faulted, EagerEnter \/ Work
    PROVE  ~t'.faulted \/ InitReturns(FALSE)
  <1>1. IsTransport(t) /\ t.closed = TRUE /\ t.faulted = FALSE
    BY DEF TransportInv, TransportTypes, IsTransport
  <1>2. CASE EagerEnter
    BY <1>1, <1>2 DEF EagerEnter, IsTransport, Fields
  <1>3. CASE WorkerEnter
    BY <1>1, <1>3, CanceledFields DEF WorkerEnter, Dead
  <1>4. CASE \E ok \in BOOLEAN : InitReturns(ok)
    <2>1. CASE InitReturns(TRUE)
      BY <1>1, <2>1 DEF InitReturns, IsTransport, Fields
    <2>2. QED
      BY <1>4, <2>1
  <1>5. CASE \E ok \in BOOLEAN : EagerReturns(ok)
    BY <1>1, <1>5 DEF EagerReturns, IsTransport, Fields
  <1>6. CASE \E ok \in BOOLEAN : ShutdownReturns(ok)
    <2> PICK ok \in BOOLEAN : ShutdownReturns(ok)
      BY <1>6
    <2> DEFINE y == [FinishStop(t) EXCEPT
                       !.halted = ok, !.lock = "free",
                       !.cleanup = IF ok THEN "Complete" ELSE "Uncertain",
                       !.job = IF ok THEN "none" ELSE @]
    <2>1. t' = y
      BY DEF ShutdownReturns
    <2>a. IsTransport(t)
      BY <1>1
    <2>2. /\ IsTransport(y) /\ y.lock = "free" /\ y.stopped
          /\ y.cleanup = IF ok THEN "Complete" ELSE "Uncertain"
          /\ y.job = IF ok THEN "none" ELSE t.job
          /\ y.init = t.init /\ y.loader = t.loader
          /\ y.gate = t.gate /\ y.mode = t.mode /\ y.faulted = t.faulted
          /\ y.stopIntent = t.stopIntent /\ y.closed = t.closed
          /\ y.module = t.module
          /\ y.result = t.result /\ y.jobFaults = t.jobFaults
          /\ y.active = t.active /\ y.shutdowns = t.shutdowns
      BY <2>a, ReturnedFields
    <2> HIDE DEF y
    <2>3. QED
      BY <1>1, <2>1, <2>2
  <1>7. CASE InitPublished
    <2> DEFINE x == [t EXCEPT
          !.init = IF t.module THEN "PublishedValid" ELSE "PublishedRejected",
          !.result = FirstResult(IF t.module THEN "ok" ELSE "failed"),
          !.cleanup = IF t.module THEN @ ELSE "Uncertain",
          !.lock = "free"]
    <2>1. x.faulted = t.faulted /\ DOMAIN x = Fields
      BY <1>1 DEF IsTransport, Fields
    <2>2. t' = IF x.cleanup = "Idle" THEN [x EXCEPT !.job = "none"] ELSE x
      BY <1>7 DEF InitPublished
    <2> HIDE DEF x
    <2>3. t'.faulted = x.faulted
      BY <2>1, <2>2 DEF Fields
    <2>4. QED
      BY <1>1, <2>1, <2>3
  <1>8. CASE EagerPublished
    BY <1>1, <1>8 DEF EagerPublished, TransportInv, InitAt
  <1>9. CASE CleanupStart
    BY <1>1, <1>9 DEF CleanupStart, IsTransport, Fields
  <1>10. CASE CleanupLock
    <2> DEFINE x == [t EXCEPT !.lock = "free"]
               y == CloseAdmission(t)
    <2>1. IsTransport(x) /\ x.faulted = FALSE
      BY <1>1 DEF IsTransport, Fields
    <2>2. Canceled(x).faulted = FALSE
      BY <2>1, CanceledFields
    <2>3. IsTransport(y) /\ y.faulted = FALSE
      BY <1>1, CloseSame DEF Same
    <2>4. \/ t' = x \/ t' = Canceled(x) \/ t' = [t EXCEPT !.lock = "free", !.cleanup = "Uncertain"]
          \/ t' = [y EXCEPT !.lock = "worker", !.cleanup = "Executing"]
      BY <1>10 DEF CleanupLock
    <2> HIDE DEF x, y
    <2>5. CASE t' = [t EXCEPT !.lock = "free", !.cleanup = "Uncertain"]
      BY <1>1, <2>5 DEF IsTransport, Fields
    <2>6. CASE t' = [y EXCEPT !.lock = "worker", !.cleanup = "Executing"]
      BY <2>3, <2>6 DEF IsTransport, Fields
    <2>7. QED
      BY <2>1, <2>2, <2>4, <2>5, <2>6
  <1>11. CASE ShutdownEnter
    BY <1>1, <1>11 DEF ShutdownEnter, IsTransport, Fields
  <1>12. QED
    BY <1>2, <1>3, <1>4, <1>5, <1>6, <1>7, <1>8, <1>9, <1>10, <1>11 DEF Work

LEMMA StopStays ==
    ASSUME TransportInv, t.closed, ~t.faulted, NEW s \in Stoppers, StopLocked(s)
    PROVE  ~t'.faulted
  <1> DEFINE c == CommitTerminal(t, FALSE)
             r == Requested(c)
             j == [r EXCEPT !.job = "cleanup", !.jobFaults = FALSE, !.lock = "worker"]
  <1>1. IsTransport(t) /\ t.faulted = FALSE
    BY DEF TransportInv, TransportTypes, IsTransport
  <1>2. IsTransport(c) /\ c.faulted = FALSE
    <2>1. IsTransport(t)
      BY <1>1
    <2>2. /\ IsTransport(c)
          /\ c.closed /\ c.stopIntent /\ c.faulted = (t.faulted \/ FALSE)
          /\ c.mode = t.mode /\ c.gate = t.gate /\ c.stopped = t.stopped
          /\ c.module = t.module /\ c.init = t.init /\ c.cleanup = t.cleanup
          /\ c.job = t.job /\ c.result = t.result /\ c.jobFaults = t.jobFaults
          /\ c.loader = t.loader /\ c.lock = t.lock /\ c.active = t.active
          /\ c.shutdowns = t.shutdowns
      BY <2>1, CommitFields
    <2>3. QED
      BY <1>1, <2>2
  <1>3. t' = t \/ t' = j \/ t' = r
    BY DEF StopLocked, Become
  <1> HIDE DEF c
  <1>4. IsTransport(r) /\ r.faulted = FALSE
    BY <1>2 DEF Requested, IsTransport, Fields
  <1> HIDE DEF r
  <1>5. j.faulted = FALSE
    BY <1>4 DEF IsTransport, Fields
  <1>6. QED
    BY <1>1, <1>3, <1>4, <1>5

LEMMA ReleaseStays ==
    ASSUME TransportInv, t.closed, ~t.faulted, NEW allowed \in BOOLEAN,
           ReleaseInitialization(allowed)
    PROVE  ~t'.faulted
  <1> DEFINE g == [t EXCEPT !.gate = "refused"]
  <1>1. IsTransport(t) /\ t.faulted = FALSE /\ t.stopIntent = TRUE
    BY DEF TransportInv, TransportTypes, IsTransport, Ending
  <1>2. IsTransport(g) /\ g.faulted = FALSE
    BY <1>1 DEF IsTransport, Fields
  <1>3. (~t.stopIntent \/ t.faulted) = FALSE
    BY <1>1
  <1>4. t' = [t EXCEPT !.gate = "open"] \/ t' = RequestTerminal(g, FALSE)
    BY <1>3 DEF ReleaseInitialization, Become
  <1> HIDE DEF g
  <1>5. CASE t' = [t EXCEPT !.gate = "open"]
    BY <1>1, <1>5 DEF IsTransport, Fields
  <1>6. CASE t' = RequestTerminal(g, FALSE)
    BY <1>2, <1>6, TerminalEnds DEF Ended
  <1>7. QED
    BY <1>4, <1>5, <1>6

LEMMA OthersStay ==
    ASSUME TransportInv, ~t.faulted,
           \/ DrainReady \/ DrainNext
           \/ \E s \in Stoppers : StopCall(s) \/ StopDone(s) \/ StopDeadline(s)
           \/ ReinitCall \/ ReinitLocked \/ ReinitAwait \/ ReinitReturns \/ ReinitDeadline
           \/ HostReady \/ Unbind \/ HostWorkEnds \/ UNCHANGED vars
    PROVE  ~t'.faulted
  <1>1. IsTransport(t) /\ t.faulted = FALSE
    BY DEF TransportInv, TransportTypes, IsTransport
  <1>2. \/ t' = t \/ t' = [t EXCEPT !.pending = Tail(@)] \/ t' = [t EXCEPT !.lock = "reinit"]
        \/ t' = [t EXCEPT !.lock = "free"] \/ t' = [t EXCEPT !.ready = TRUE]
        \/ t' = [t EXCEPT !.bound = FALSE] \/ t' = [t EXCEPT !.hostWork = FALSE]
    BY DEF DrainReady, DrainNext, StopCall, StopDone, StopDeadline, ReinitCall, ReinitLocked,
           ReinitAwait, ReinitReturns, ReinitDeadline, HostReady, Unbind, HostWorkEnds, vars
  <1>3. QED
    BY <1>1, <1>2 DEF IsTransport, Fields

LEMMA AnswerStays ==
    ASSUME TransportInv, ~t.faulted, NEW m \in Msgs, Answer(m)
    PROVE  ~t'.faulted
  <1> DEFINE a == Fated(t, {m}, "answered")
             b == [a EXCEPT !.inflight = IF @ = 0 THEN 0 ELSE @ - 1]
             l == Fated(t, {m}, "lost")
  <1>1. IsTransport(t) /\ t.faulted = FALSE
    BY DEF TransportInv, TransportTypes, IsTransport
  <1>2. t' = b \/ t' = l
    BY DEF Answer
  <1>3. IsTransport(a) /\ a.faulted = FALSE /\ l.faulted = FALSE
    BY <1>1, FatedSame DEF Same
  <1> HIDE DEF a, l
  <1>4. b.faulted = FALSE
    BY <1>3 DEF IsTransport, Fields
  <1>5. QED
    BY <1>2, <1>3, <1>4

(* After an ordinary stop only the module, its initialiser, a worker that   *)
(* could not be spawned or the first caller's deadline publishes a fault    *)
(* (AdmissionTermination, and the closure tests of send, deliver_now and    *)
(* fault_pending). *)
THEOREM OrdinaryStopTheorem == Spec => OrdinaryStopStays
  <1> DEFINE Fault == \/ HostFault \/ SpawnFails \/ InitReturns(FALSE) \/ SendDeadline
                      \/ DeliverReturn("drain", "BAD")
             A == t.closed /\ ~t.faulted /\ t'.faulted => Fault
  <1>1. TransportInv /\ [Next]_vars => A
    <2> SUFFICES ASSUME TransportInv, [Next]_vars, t.closed, ~t.faulted, t'.faulted
                 PROVE  Fault
      OBVIOUS
    <2>1. CASE \E allowed \in BOOLEAN : ReleaseInitialization(allowed)
      BY <2>1, ReleaseStays
    <2>2. CASE SendStart \/ SendGate \/ SendInitialized \/ SendRoute
      BY <2>2, SendStays
    <2>3. CASE \E w \in {"send", "drain"} : Deliver(w)
      BY <2>3, DeliverStays
    <2>4. CASE EagerEnter \/ Work
      BY <2>4, WorkStays
    <2>5. CASE \E s \in Stoppers : StopLocked(s)
      BY <2>5, StopStays
    <2>6. CASE \/ DrainReady \/ DrainNext
               \/ \E s \in Stoppers : StopCall(s) \/ StopDone(s) \/ StopDeadline(s)
               \/ ReinitCall \/ ReinitLocked \/ ReinitAwait \/ ReinitReturns \/ ReinitDeadline
               \/ HostReady \/ Unbind \/ HostWorkEnds \/ UNCHANGED vars
      BY <2>6, OthersStay
    <2>7. CASE \E m \in Msgs : Answer(m)
      BY <2>7, AnswerStays
    <2>8. CASE SendDeadline \/ SpawnFails \/ HostFault
      BY <2>8
    <2>9. QED
      BY <2>1, <2>2, <2>3, <2>4, <2>5, <2>6, <2>7, <2>8 DEF Next
  <1>2. TransportInv /\ [Next]_vars => [A]_vars
    BY <1>1
  <1>3. Spec => [][A]_vars
    BY <1>2, TransportInvariant, PTL DEF Spec
  <1>4. QED
    BY <1>3 DEF OrdinaryStopStays
=============================================================================
