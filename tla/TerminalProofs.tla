----------------------------- MODULE TerminalProofs -----------------------------
(***************************************************************************)
(* What is proved of a native module's end, for any number of instances,   *)
(* slots, reconfigurations and faults: TerminalInvTheorem,                 *)
(* HooksTheorem and EndTheorem.                                            *)
(*                                                                         *)
(* The invariant is a predicate Ok(s, p, g) of one instance's record,      *)
(* program counters and places inside signal(), and the relation SlotOk    *)
(* of an instance to the admission table.  A step changes one instance;    *)
(* the lemmas named ...Ok show that the change keeps Ok, and Lift that     *)
(* nothing of the other instances is touched, as no two hold one slot.     *)
(***************************************************************************)
EXTENDS NativeTerminal, TLAPS

\* Every field of an instance's record (TerminalState, Control and
\* StartupResources together).
Fields ==
    {"slot", "reason", "uncertain", "request", "finish", "published", "completion",
     "activeReinit", "op", "pending", "code", "retirementFailed", "vtable", "res",
     "initial", "aborted", "reinits", "faults", "requests", "finishes", "completed",
     "disposalFailed", "released"}

\* Where the worker (run_finish) is: in its loop, or past it.
Loop == {"loop", "Retire", "Construct", "retireFailed", "parse", "parsed", "build",
         "notBuilt"}
Past == {"settle", "join", "dispose", "finish", "release", "observe", "check",
         "doubtful", "clean", "done"}

\* Before start-up owns anything; and a request hook some thread claimed.
Early == {"idle", "refused", "config"}
Claimed == {"Running", "Done", "Panicked"}

\* What the variables of an instance are, as far as the proofs need it.
TypeOk(s, p, g) ==
    /\ DOMAIN s = Fields /\ DOMAIN p = Threads /\ DOMAIN g = Threads
    /\ s.slot \in Slots \cup {"none"}

\* start_terminal_factory_mode: the hooks are registered on the way, a start-up
\* that ends without them has signalled a reason, publish() is its last step, and
\* until the configuration is parsed nothing else of the instance runs.
EntryOk(s, p, g) ==
    /\ p["entry"] \in Early \cup {"factory", "register"} => s.request = "Unregistered"
    /\ p["entry"] \in {"live", "runtime", "spawn"} => s.request # "Unregistered"
    /\ p["entry"] \in {"publish", "done"} /\ s.request = "Unregistered" => s.reason # "live"
    /\ s.published => p["entry"] = "done"
    /\ p["entry"] \in Early =>
          /\ ~s.uncertain /\ s.res = {} /\ s.finish = "Idle"
          /\ \A t \in Threads : g[t] = "none" /\ (t # "entry" => p[t] = "idle")

\* signal() and run_request: a thread is in it only after a reason was
\* committed, one thread at most runs the request hook, and it runs once.
RequestOk(s, g) ==
    /\ s.request \in {"Unregistered", "Idle"} \cup Claimed
    /\ s.request \in Claimed => s.reason # "live"
    /\ \A t \in Threads : g[t] \in {"request", "hook"} => s.reason # "live"
    /\ \A t \in Threads : g[t] = "hook" => s.request = "Running"
    /\ \A t, u \in Threads : g[t] = "hook" /\ g[u] = "hook" => t = u
    /\ s.requests = IF s.request \in Claimed THEN 1 ELSE 0

\* run_finish: past its loop start-up is published, no reconfiguration is
\* active and the request hook is over; the finish hook answers the one request,
\* and from disposal on the setup task is over.
WorkerOk(s, p) ==
    /\ p["worker"] \in {"idle"} \cup Loop \cup Past
    /\ s.op \in {"none", "Retire", "Construct"}
    /\ p["worker"] \in Past =>
          s.published /\ ~s.activeReinit /\ s.request \notin {"Idle", "Running"}
    /\ s.finish \in IF p["worker"] = "idle" THEN {"Idle", "SpawnFailed"}
                    ELSE IF p["worker"] \in Loop THEN {"Submitted"}
                    ELSE IF p["worker"] = "done" THEN {"Complete"} ELSE {"Running"}
    /\ s.finishes \in {0} \cup
          IF p["worker"] \in {"release", "observe", "check", "doubtful", "clean", "done"}
          THEN {s.requests} ELSE {}
    /\ p["worker"] \in Past \ {"settle", "join"} => p["task"] \in {"idle", "done"}
    /\ p["task"] \notin {"idle", "done"} => s.initial = "running"

\* release_resources and the completion: released means nothing is held, and
\* a physical stop is recorded by the worker's last step only, without doubt.
EndOk(s, p) ==
    /\ s.released => p["worker"] \in {"observe", "check", "doubtful", "clean"} /\ s.res = {}
    /\ p["worker"] = "clean" => s.released
    /\ s.completion = "PhysicallyStopped" =>
          p["worker"] = "done" /\ ~s.uncertain /\ s.res = {}
    /\ p["stop"] \in {"check", "OK"} => s.completion = "PhysicallyStopped"
    /\ p["reinit"] \notin {"idle", "begin"} => s.activeReinit

\* Without a slot nothing of the instance is left.
GoneOk(s, p, g) ==
    s.slot = "none" =>
        /\ s.res = {} /\ ~s.uncertain
        /\ \A t \in Threads : g[t] = "none" /\ p[t] \in Over

Ok(s, p, g) ==
    /\ TypeOk(s, p, g) /\ EntryOk(s, p, g) /\ RequestOk(s, g)
    /\ WorkerOk(s, p) /\ EndOk(s, p) /\ GoneOk(s, p, g)

\* Admission: the slot an instance holds is reserved and anchors nobody else,
\* and an instance with an uncertain end is anchored.
SlotOk(i) ==
    /\ st[i].slot # "none" =>
          slots[st[i].slot].reserved /\ slots[st[i].slot].anchor \in {None, i}
    /\ st[i].uncertain => st[i].slot # "none" /\ slots[st[i].slot].anchor = i

\* The variables are functions on the instances, and on the slots.
TerminalType ==
    /\ st = [i \in Instances |-> st[i]]
    /\ pc = [i \in Instances |-> pc[i]]
    /\ sig = [i \in Instances |-> sig[i]]
    /\ DOMAIN slots = Slots
    /\ \A k \in Slots : DOMAIN slots[k] = {"reserved", "anchor"}

\* The invariant; no two instances hold one slot.
TerminalInv ==
    /\ TerminalType
    /\ \A i \in Instances : Ok(st[i], pc[i], sig[i])
    /\ \A i \in Instances : SlotOk(i)
    /\ \A i, j \in Instances : st[i].slot = st[j].slot /\ st[i].slot # "none" => i = j

-----------------------------------------------------------------------------
(* One instance.                                                           *)

\* commit() keeps the invariant: a reason never becomes "live" again.
LEMMA CommitOk ==
    ASSUME NEW s, NEW p, NEW g, Ok(s, p, g), NEW r, r # "live"
    PROVE  /\ Ok(Commit(s, r), p, g)
           /\ Commit(s, r).slot = s.slot /\ Commit(s, r).uncertain = s.uncertain
           /\ Commit(s, r).reason # "live" /\ Commit(s, r).finish = s.finish
<1> DEFINE c == Commit(s, r)
<1>1. DOMAIN s = Fields BY DEF Ok, TypeOk
<1>2. /\ DOMAIN c = Fields /\ c.reason # "live"
      /\ c.slot = s.slot /\ c.uncertain = s.uncertain /\ c.request = s.request
      /\ c.finish = s.finish /\ c.published = s.published /\ c.completion = s.completion
      /\ c.activeReinit = s.activeReinit /\ c.op = s.op /\ c.res = s.res
      /\ c.initial = s.initial /\ c.requests = s.requests /\ c.finishes = s.finishes
      /\ c.released = s.released
  BY <1>1 DEF Commit, IsFault, Fields
<1> HIDE DEF c
<1>3. TypeOk(c, p, g) BY <1>2 DEF Ok, TypeOk
<1>4. EntryOk(c, p, g) BY <1>2 DEF Ok, EntryOk
<1>5. RequestOk(c, g) BY <1>2 DEF Ok, RequestOk
<1>6. WorkerOk(c, p) BY <1>2 DEF Ok, WorkerOk
<1>7. EndOk(c, p) BY <1>2 DEF Ok, EndOk
<1>8. GoneOk(c, p, g) BY <1>2 DEF Ok, GoneOk
<1>9. Ok(c, p, g) BY <1>3, <1>4, <1>5, <1>6, <1>7, <1>8 DEF Ok
<1> QED BY <1>2, <1>9 DEF c

\* A thread moves on inside signal(), or enters or leaves it.
LEMMA SigOk ==
    ASSUME NEW s, NEW p, NEW g, Ok(s, p, g), NEW t \in Threads,
           NEW x \in {"none", "schedule", "request"}, x = "request" => s.reason # "live",
           x # "none" => p["entry"] \notin Early /\ s.slot # "none"
    PROVE  Ok(s, p, [g EXCEPT ![t] = x])
<1> DEFINE h == [g EXCEPT ![t] = x]
<1>1. DOMAIN h = Threads /\ h[t] = x /\ \A u \in Threads \ {t} : h[u] = g[u]
  BY DEF Ok, TypeOk
<1> HIDE DEF h
<1>2. TypeOk(s, p, h) BY <1>1 DEF Ok, TypeOk
<1>3. EntryOk(s, p, h)
  <2>1. p["entry"] \in Early => \A u \in Threads : h[u] = "none"
    BY <1>1 DEF Ok, EntryOk
  <2> QED BY <2>1 DEF Ok, EntryOk
<1>4. RequestOk(s, h) BY <1>1 DEF Ok, RequestOk
<1>5. GoneOk(s, p, h)
  <2>1. s.slot = "none" => \A u \in Threads : h[u] = "none"
    BY <1>1 DEF Ok, GoneOk
  <2> QED BY <2>1 DEF Ok, GoneOk
<1>6. Ok(s, p, h) BY <1>2, <1>3, <1>4, <1>5 DEF Ok
<1> QED BY <1>6 DEF h

\* record_uncertain_locked keeps it, as long as no shutdown call has been told
\* of a physical stop.
LEMMA DoubtOk ==
    ASSUME NEW s, NEW p, NEW g, Ok(s, p, g),
           p["entry"] \notin Early, s.slot # "none", p["stop"] \notin {"check", "OK"}
    PROVE  /\ Ok(Doubt(s), p, g)
           /\ Doubt(s).slot = s.slot /\ Doubt(s).uncertain
           /\ Doubt(s).reason = s.reason /\ Doubt(s).finish = s.finish
<1> DEFINE c == Doubt(s)
<1>1. DOMAIN s = Fields BY DEF Ok, TypeOk
<1>2. /\ DOMAIN c = Fields /\ c.reason = s.reason
      /\ c.slot = s.slot /\ c.uncertain /\ c.request = s.request
      /\ c.finish = s.finish /\ c.published = s.published
      /\ c.completion # "PhysicallyStopped"
      /\ c.activeReinit = s.activeReinit /\ c.op = s.op /\ c.res = s.res
      /\ c.initial = s.initial /\ c.requests = s.requests /\ c.finishes = s.finishes
      /\ c.released = s.released
  BY <1>1 DEF Doubt, Fields
<1> HIDE DEF c
<1>3. TypeOk(c, p, g) BY <1>2 DEF Ok, TypeOk
<1>4. EntryOk(c, p, g) BY <1>2 DEF Ok, EntryOk
<1>5. RequestOk(c, g) BY <1>2 DEF Ok, RequestOk
<1>6. WorkerOk(c, p) BY <1>2 DEF Ok, WorkerOk
<1>7. EndOk(c, p) BY <1>2 DEF Ok, EndOk
<1>8. GoneOk(c, p, g) BY <1>2 DEF GoneOk
<1>9. Ok(c, p, g) BY <1>3, <1>4, <1>5, <1>6, <1>7, <1>8 DEF Ok
<1> QED BY <1>2, <1>9 DEF c

\* A step of a thread that is not starting the module up.
LEMMA MoveOk ==
    ASSUME NEW s, NEW p, NEW g, Ok(s, p, g), NEW t \in Threads \ {"entry"}, NEW q, NEW s2,
           DOMAIN s2 = Fields, s2.slot = s.slot, s.slot # "none", p["entry"] \notin Early,
           s2.request = s.request, s2.requests = s.requests, s2.reason = s.reason,
           s2.published = s.published,
           WorkerOk(s2, [p EXCEPT ![t] = q]), EndOk(s2, [p EXCEPT ![t] = q])
    PROVE  Ok(s2, [p EXCEPT ![t] = q], g)
<1> DEFINE p2 == [p EXCEPT ![t] = q]
<1>1. /\ DOMAIN p2 = Threads /\ p2[t] = q
      /\ \A u \in Threads \ {t} : p2[u] = p[u]
  BY DEF Ok, TypeOk
<1>2. WorkerOk(s2, p2) /\ EndOk(s2, p2) OBVIOUS
<1>3. p2["entry"] = p["entry"] BY <1>1 DEF Threads
<1> HIDE DEF p2
<1>4. TypeOk(s2, p2, g) BY <1>1 DEF Ok, TypeOk
<1>5. EntryOk(s2, p2, g) BY <1>3 DEF Ok, EntryOk
<1>6. RequestOk(s2, g) BY DEF Ok, RequestOk
<1>7. GoneOk(s2, p2, g) BY DEF GoneOk
<1>8. Ok(s2, p2, g) BY <1>2, <1>4, <1>5, <1>6, <1>7 DEF Ok
<1> QED BY <1>8 DEF p2

\* A step of a caller of the module, or of the module.
LEMMA SideOk ==
    ASSUME NEW s, NEW p, NEW g, Ok(s, p, g),
           NEW t \in {"stop", "reinit", "deliver", "module"}, NEW q, NEW s2,
           DOMAIN s2 = Fields, s2.slot = s.slot, s.slot # "none", p["entry"] \notin Early,
           s2.request = s.request, s2.requests = s.requests, s2.reason = s.reason,
           s2.published = s.published, s2.finish = s.finish, s2.finishes = s.finishes,
           s2.initial = s.initial, s2.released = s.released, s2.uncertain = s.uncertain,
           s2.completion = s.completion,
           s2.op \in {"none", "Retire", "Construct"}, s2.res \subseteq s.res,
           s2.activeReinit => s.activeReinit \/ p["worker"] \notin Past,
           t = "stop" /\ q \in {"check", "OK"} => s.completion = "PhysicallyStopped",
           t = "reinit" /\ q \notin {"idle", "begin"} => s2.activeReinit,
           t # "reinit" => s2.activeReinit = s.activeReinit
    PROVE  Ok(s2, [p EXCEPT ![t] = q], g)
<1> DEFINE p2 == [p EXCEPT ![t] = q]
<1>1. /\ DOMAIN p2 = Threads /\ p2[t] = q
      /\ \A u \in Threads \ {t} : p2[u] = p[u]
  BY DEF Ok, TypeOk, Threads
<1>2. p2["worker"] = p["worker"] /\ p2["task"] = p["task"] BY <1>1 DEF Threads
<1>3. t # "stop" => p2["stop"] = p["stop"] BY <1>1 DEF Threads
<1>4. t # "reinit" => p2["reinit"] = p["reinit"] BY <1>1 DEF Threads
<1> HIDE DEF p2
<1>5. WorkerOk(s2, p2) BY <1>2 DEF Ok, WorkerOk
<1>6. EndOk(s2, p2) BY <1>1, <1>2, <1>3, <1>4 DEF Ok, EndOk
<1>7. t \in Threads \ {"entry"} BY DEF Threads
<1> QED BY <1>5, <1>6, <1>7, MoveOk DEF p2

\* A step of the setup task.
LEMMA TaskOk ==
    ASSUME NEW s, NEW p, NEW g, Ok(s, p, g), p["task"] \notin {"idle", "done"}, NEW q, NEW s2,
           DOMAIN s2 = Fields, s2.slot = s.slot, s.slot # "none", p["entry"] \notin Early,
           s2.request = s.request, s2.requests = s.requests, s2.reason = s.reason,
           s2.published = s.published, s2.finish = s.finish, s2.finishes = s.finishes,
           s2.released = s.released, s2.uncertain = s.uncertain,
           s2.completion = s.completion, s2.op = s.op, s2.activeReinit = s.activeReinit,
           s2.initial = s.initial \/ q = "done"
    PROVE  Ok(s2, [p EXCEPT !["task"] = q], g)
<1> DEFINE p2 == [p EXCEPT !["task"] = q]
<1>1. /\ DOMAIN p2 = Threads /\ p2["task"] = q
      /\ \A u \in Threads \ {"task"} : p2[u] = p[u]
  BY DEF Ok, TypeOk, Threads
<1>2. p2["worker"] = p["worker"] /\ p2["stop"] = p["stop"] /\ p2["reinit"] = p["reinit"]
  BY <1>1 DEF Threads
<1> HIDE DEF p2
<1>3. p["worker"] \notin Past \ {"settle", "join"} BY DEF Ok, WorkerOk
<1>4. WorkerOk(s2, p2) BY <1>1, <1>2, <1>3 DEF Ok, WorkerOk
<1>5. EndOk(s2, p2) BY <1>2, <1>3 DEF Ok, EndOk, Past
<1>6. "task" \in Threads \ {"entry"} BY DEF Threads
<1> QED BY <1>4, <1>5, <1>6, MoveOk DEF p2

\* A step of start-up, from before its end.
LEMMA StartUpOk ==
    ASSUME NEW s, NEW p, NEW g, Ok(s, p, g), p["entry"] # "done", NEW p2, NEW s2,
           DOMAIN s2 = Fields, s2.slot \in Slots, DOMAIN p2 = Threads,
           \A u \in Threads \ {"entry", "task"} : p2[u] = p[u],
           p2["task"] = p["task"] \/ s2.initial = "running",
           s2.initial = s.initial \/ s2.initial = "running",
           s2.finish = s.finish, s2.finishes = s.finishes, s2.requests = s.requests,
           s2.op = s.op, s2.activeReinit = s.activeReinit, s2.released = s.released,
           s2.completion = s.completion,
           EntryOk(s2, p2, g), RequestOk(s2, g), s2.slot # "none"
    PROVE  Ok(s2, p2, g)
<1>1. p2["worker"] = p["worker"] /\ p2["stop"] = p["stop"] /\ p2["reinit"] = p["reinit"]
  BY DEF Threads
<1>2. p["worker"] \notin Past BY DEF Ok, EntryOk, WorkerOk
<1>3. s.completion # "PhysicallyStopped" /\ ~s.released BY <1>2 DEF Ok, EndOk, Past
<1>4. TypeOk(s2, p2, g) BY DEF Ok, TypeOk
<1>5. WorkerOk(s2, p2) BY <1>1, <1>2 DEF Ok, WorkerOk, Past
<1>6. EndOk(s2, p2) BY <1>1, <1>2, <1>3 DEF Ok, EndOk, Past
<1>7. GoneOk(s2, p2, g) BY DEF GoneOk
<1> QED BY <1>4, <1>5, <1>6, <1>7 DEF Ok

-----------------------------------------------------------------------------
(* A step of one instance, seen from all of them.                          *)

\* A step of one instance keeps the invariant of all when its own is kept and
\* every slot another instance holds is left alone.
LEMMA Lift ==
    ASSUME TerminalInv, NEW i \in Instances, NEW s2, NEW p2, NEW g2,
           st' = [st EXCEPT ![i] = s2], pc' = [pc EXCEPT ![i] = p2],
           sig' = [sig EXCEPT ![i] = g2], Ok(s2, p2, g2),
           DOMAIN slots' = Slots,
           \A k \in Slots : DOMAIN slots'[k] = {"reserved", "anchor"},
           SlotOk(i)',
           \A j \in Instances \ {i} : st[j].slot # "none" =>
              st[j].slot # s2.slot /\ slots'[st[j].slot] = slots[st[j].slot]
    PROVE  TerminalInv'
<1> USE DEF TerminalInv
<1>1. /\ DOMAIN st = Instances /\ DOMAIN pc = Instances /\ DOMAIN sig = Instances
  BY DEF TerminalType
<1>2. /\ st'[i] = s2 /\ pc'[i] = p2 /\ sig'[i] = g2
      /\ \A j \in Instances \ {i} : st'[j] = st[j] /\ pc'[j] = pc[j] /\ sig'[j] = sig[j]
  BY <1>1
<1>3. TerminalType'
  <2>1. st' = [j \in Instances |-> st'[j]] BY DEF TerminalType
  <2>2. pc' = [j \in Instances |-> pc'[j]] BY DEF TerminalType
  <2>3. sig' = [j \in Instances |-> sig'[j]] BY DEF TerminalType
  <2> QED BY <2>1, <2>2, <2>3 DEF TerminalType
<1>4. ASSUME NEW j \in Instances PROVE Ok(st'[j], pc'[j], sig'[j])
  <2>1. CASE j = i BY <1>2, <2>1
  <2>2. CASE j # i
    <3>1. Ok(st[j], pc[j], sig[j]) OBVIOUS
    <3> HIDE DEF TerminalInv
    <3>2. st'[j] = st[j] /\ pc'[j] = pc[j] /\ sig'[j] = sig[j] BY <1>2, <2>2
    <3> QED BY <3>1, <3>2
  <2> QED BY <2>1, <2>2
<1>5. ASSUME NEW j \in Instances PROVE Ok(st[j], pc[j], sig[j])'
  BY <1>4 DEF Ok, TypeOk, EntryOk, RequestOk, WorkerOk, EndOk, GoneOk, Over, Threads
<1>6. \A j \in Instances : SlotOk(j)'
  BY <1>2 DEF SlotOk, None
<1>7. ASSUME NEW j \in Instances, NEW k \in Instances,
             st'[j].slot = st'[k].slot, st'[j].slot # "none"
      PROVE  j = k
  BY <1>2, <1>7
<1> QED BY <1>3, <1>5, <1>6, <1>7

\* Nobody else has the slot of an instance (Admission).
LEMMA SlotIsOwn ==
    ASSUME TerminalInv, NEW i \in Instances, st[i].slot # "none"
    PROVE  \A j \in Instances \ {i} : st[j].slot # st[i].slot
BY DEF TerminalInv

\* A step that leaves the admission table alone.
LEMMA QuietKeeps ==
    ASSUME TerminalInv, NEW i \in Instances, NEW s2, NEW p2, NEW g2,
           st' = [st EXCEPT ![i] = s2], pc' = [pc EXCEPT ![i] = p2],
           sig' = [sig EXCEPT ![i] = g2], slots' = slots, Ok(s2, p2, g2),
           s2.slot = st[i].slot, s2.uncertain = st[i].uncertain
    PROVE  TerminalInv'
<1>1. DOMAIN st = Instances /\ SlotOk(i) /\ TerminalType BY DEF TerminalInv, TerminalType
<1>2. st'[i] = s2 BY <1>1
<1>3. SlotOk(i)' BY <1>1, <1>2 DEF SlotOk, None
<1>4. \A j \in Instances \ {i} : st[j].slot # "none" => st[j].slot # s2.slot
  BY SlotIsOwn
<1> QED BY <1>1, <1>3, <1>4, Lift DEF TerminalType

\* Anchored, the effect of record_uncertain_locked on the table.
LEMMA AnchorFacts ==
    ASSUME TerminalInv, NEW i \in Instances, st[i].slot # "none"
    PROVE  /\ DOMAIN Anchored(i) = Slots
           /\ \A k \in Slots : DOMAIN Anchored(i)[k] = {"reserved", "anchor"}
           /\ \A k \in Slots : k # st[i].slot => Anchored(i)[k] = slots[k]
           /\ Anchored(i)[st[i].slot].anchor = i
           /\ Anchored(i)[st[i].slot].reserved
           /\ st[i].slot \in Slots
<1>1. st[i].slot \in Slots BY DEF TerminalInv, Ok, TypeOk
<1>2. DOMAIN slots = Slots /\ \A k \in Slots : DOMAIN slots[k] = {"reserved", "anchor"}
  BY DEF TerminalInv, TerminalType
<1>3. slots[st[i].slot].reserved /\ slots[st[i].slot].anchor \in {None, i}
  BY DEF TerminalInv, SlotOk
<1> QED BY <1>1, <1>2, <1>3 DEF Anchored

\* A step that records doubt, and anchors the instance with it.
LEMMA DoubtedKeeps ==
    ASSUME TerminalInv, NEW i \in Instances, NEW s2, NEW p2, NEW g2,
           st' = [st EXCEPT ![i] = s2], pc' = [pc EXCEPT ![i] = p2],
           sig' = [sig EXCEPT ![i] = g2], slots' = Anchored(i), Ok(s2, p2, g2),
           s2.slot = st[i].slot, st[i].slot # "none"
    PROVE  TerminalInv'
<1>1. DOMAIN st = Instances BY DEF TerminalInv, TerminalType
<1>2. st'[i] = s2 BY <1>1
<1>3. SlotOk(i)' BY <1>2, AnchorFacts DEF SlotOk, None
<1>4. \A j \in Instances \ {i} : st[j].slot # "none" =>
          st[j].slot \in Slots /\ st[j].slot # s2.slot
  BY SlotIsOwn DEF TerminalInv, Ok, TypeOk
<1>5. /\ DOMAIN slots' = Slots
      /\ \A k \in Slots : DOMAIN slots'[k] = {"reserved", "anchor"}
      /\ \A k \in Slots : k # st[i].slot => slots'[k] = slots[k]
  BY AnchorFacts
<1>6. \A j \in Instances \ {i} : st[j].slot # "none" =>
          st[j].slot # s2.slot /\ slots'[st[j].slot] = slots[st[j].slot]
  BY <1>4, <1>5
<1> QED BY <1>3, <1>5, <1>6, Lift

\* Step: nothing is signalled.
LEMMA StepKeeps ==
    ASSUME TerminalInv, NEW i \in Instances, NEW t \in Threads, NEW q, NEW s2,
           Step(i, t, q, s2), Ok(s2, [pc[i] EXCEPT ![t] = q], sig[i]),
           s2.slot = st[i].slot, s2.uncertain = st[i].uncertain
    PROVE  TerminalInv'
<1>1. sig = [j \in Instances |-> sig[j]] BY DEF TerminalInv, TerminalType
<1>2. sig' = [sig EXCEPT ![i] = sig[i]] BY <1>1 DEF Step
<1>3. pc' = [pc EXCEPT ![i] = [pc[i] EXCEPT ![t] = q]] BY DEF Step, Goto
<1>4. st' = [st EXCEPT ![i] = s2] /\ slots' = slots BY DEF Step, Set
<1> QED BY <1>2, <1>3, <1>4, QuietKeeps

\* Signal: the reason is committed and the thread enters signal().
LEMMA SignalKeeps ==
    ASSUME TerminalInv, NEW i \in Instances, NEW t \in Threads, NEW q, NEW s2, NEW r,
           r # "live", Signal(i, t, q, s2, r), sig[i][t] = "none",
           Ok(s2, [pc[i] EXCEPT ![t] = q], sig[i]),
           [pc[i] EXCEPT ![t] = q]["entry"] \notin Early, st[i].slot # "none",
           s2.slot = st[i].slot, s2.uncertain = st[i].uncertain
    PROVE  TerminalInv'
<1> DEFINE x == Signalled(st[i])
           p2 == [pc[i] EXCEPT ![t] = q]
<1>1. x \in {"none", "request"} BY DEF Signalled
<1>2. sig' = [sig EXCEPT ![i] = [sig[i] EXCEPT ![t] = x]] BY DEF Signal
<1>3. pc' = [pc EXCEPT ![i] = p2] BY DEF Signal, Goto
<1>4. st' = [st EXCEPT ![i] = Commit(s2, r)] /\ slots' = slots BY DEF Signal, Set
<1> DEFINE g == sig[i]
<1>5. Ok(s2, p2, g) /\ p2["entry"] \notin Early /\ g[t] = "none" OBVIOUS
<1> HIDE DEF x, p2, g
<1>6. /\ Ok(Commit(s2, r), p2, [g EXCEPT ![t] = x])
      /\ Commit(s2, r).slot = s2.slot /\ Commit(s2, r).uncertain = s2.uncertain
  <2> DEFINE c == Commit(s2, r)
  <2>1. /\ Ok(c, p2, g) /\ c.slot = s2.slot /\ c.uncertain = s2.uncertain
        /\ c.reason # "live"
    BY <1>5, CommitOk
  <2>2. s2.slot # "none" OBVIOUS
  <2> HIDE DEF c
  <2>3. Ok(c, p2, [g EXCEPT ![t] = x]) BY <1>1, <1>5, <2>1, <2>2, SigOk
  <2> QED BY <2>1, <2>3 DEF c
<1> QED BY <1>2, <1>3, <1>4, <1>6, QuietKeeps DEF g

\* source_panic: a fault is committed and its outcome stays uncertain.
LEMMA SourcePanicKeeps ==
    ASSUME TerminalInv, NEW i \in Instances, NEW t \in Threads, NEW q, NEW s2,
           SourcePanic(i, t, q, s2), sig[i][t] = "none",
           Ok(s2, [pc[i] EXCEPT ![t] = q], sig[i]),
           [pc[i] EXCEPT ![t] = q]["entry"] \notin Early, st[i].slot # "none",
           s2.slot = st[i].slot, s2.completion # "PhysicallyStopped"
    PROVE  TerminalInv'
<1> DEFINE x == Signalled(st[i])
           p2 == [pc[i] EXCEPT ![t] = q]
           c == Commit(s2, "Fault")
<1>1. x \in {"none", "request"} BY DEF Signalled
<1>2. sig' = [sig EXCEPT ![i] = [sig[i] EXCEPT ![t] = x]] BY DEF SourcePanic
<1>3. pc' = [pc EXCEPT ![i] = p2] BY DEF SourcePanic, Goto
<1>4. st' = [st EXCEPT ![i] = Doubt(c)] /\ slots' = Anchored(i) BY DEF SourcePanic, Set
<1> DEFINE g == sig[i]
<1>5. Ok(s2, p2, g) /\ p2["entry"] \notin Early /\ g[t] = "none" OBVIOUS
<1> HIDE DEF x, p2, g
<1>6. Ok(c, p2, [g EXCEPT ![t] = x]) /\ c.slot = s2.slot
  <2>1. Ok(c, p2, g) /\ c.slot = s2.slot /\ c.reason # "live" BY <1>5, CommitOk
  <2>2. s2.slot # "none" OBVIOUS
  <2> HIDE DEF c
  <2>3. Ok(c, p2, [g EXCEPT ![t] = x]) BY <1>1, <1>5, <2>1, <2>2, SigOk
  <2> QED BY <2>1, <2>3
<1>7. p2["stop"] \notin {"check", "OK"} BY <1>5 DEF Ok, EndOk
<1> HIDE DEF c
<1>8. Ok(Doubt(c), p2, [g EXCEPT ![t] = x]) /\ Doubt(c).slot = c.slot
  BY <1>5, <1>6, <1>7, DoubtOk
<1> QED BY <1>2, <1>3, <1>4, <1>6, <1>8, DoubtedKeeps DEF g

\* The count of faults is of no account.
LEMMA FaultsOk ==
    ASSUME NEW s, NEW p, NEW g, Ok(s, p, g), NEW n
    PROVE  /\ Ok([s EXCEPT !.faults = n], p, g)
           /\ [s EXCEPT !.faults = n].slot = s.slot
           /\ [s EXCEPT !.faults = n].uncertain = s.uncertain
           /\ [s EXCEPT !.faults = n].completion = s.completion
           /\ [s EXCEPT !.faults = n].reason = s.reason
           /\ [s EXCEPT !.faults = n].finish = s.finish
<1> DEFINE c == [s EXCEPT !.faults = n]
<1>1. DOMAIN s = Fields BY DEF Ok, TypeOk
<1>2. /\ DOMAIN c = Fields /\ c.reason = s.reason
      /\ c.slot = s.slot /\ c.uncertain = s.uncertain /\ c.request = s.request
      /\ c.finish = s.finish /\ c.published = s.published /\ c.completion = s.completion
      /\ c.activeReinit = s.activeReinit /\ c.op = s.op /\ c.res = s.res
      /\ c.initial = s.initial /\ c.requests = s.requests /\ c.finishes = s.finishes
      /\ c.released = s.released
  BY <1>1 DEF Fields
<1> HIDE DEF c
<1>3. TypeOk(c, p, g) BY <1>2 DEF Ok, TypeOk
<1>4. EntryOk(c, p, g) BY <1>2 DEF Ok, EntryOk
<1>5. RequestOk(c, g) BY <1>2 DEF Ok, RequestOk
<1>6. WorkerOk(c, p) BY <1>2 DEF Ok, WorkerOk
<1>7. EndOk(c, p) BY <1>2 DEF Ok, EndOk
<1>8. GoneOk(c, p, g) BY <1>2 DEF Ok, GoneOk
<1>9. Ok(c, p, g) BY <1>3, <1>4, <1>5, <1>6, <1>7, <1>8 DEF Ok
<1> QED BY <1>2, <1>9 DEF c

\* A panic of module code, within the bound.
LEMMA PanicsKeep ==
    ASSUME TerminalInv, NEW i \in Instances, NEW t \in Threads, NEW q, NEW s2,
           Panics(i, t, q, s2), sig[i][t] = "none",
           Ok(s2, [pc[i] EXCEPT ![t] = q], sig[i]),
           [pc[i] EXCEPT ![t] = q]["entry"] \notin Early, st[i].slot # "none",
           s2.slot = st[i].slot, s2.completion # "PhysicallyStopped"
    PROVE  TerminalInv'
<1> DEFINE c == [s2 EXCEPT !.faults = @ + 1]
<1>1. SourcePanic(i, t, q, c) BY DEF Panics
<1>2. /\ Ok(c, [pc[i] EXCEPT ![t] = q], sig[i])
      /\ c.slot = s2.slot /\ c.completion = s2.completion
  BY FaultsOk
<1> HIDE DEF c
<1> QED BY <1>1, <1>2, SourcePanicKeeps

\* is_live, whichever way it comes out.
LEMMA LiveElseKeeps ==
    ASSUME TerminalInv, NEW i \in Instances, NEW t \in Threads, NEW yes, NEW no,
           LiveElse(i, t, yes, no), sig[i][t] = "none",
           Ok(st[i], [pc[i] EXCEPT ![t] = yes], sig[i]),
           Ok(st[i], [pc[i] EXCEPT ![t] = no], sig[i]),
           [pc[i] EXCEPT ![t] = no]["entry"] \notin Early, st[i].slot # "none"
    PROVE  TerminalInv'
<1>1. Observed(i) # "live" BY DEF Observed
<1>2. CASE Step(i, t, no, st[i]) BY <1>2, StepKeeps
<1>3. CASE Step(i, t, yes, st[i]) BY <1>3, StepKeeps
<1>4. CASE Signal(i, t, no, st[i], Observed(i)) BY <1>1, <1>4, SignalKeeps
<1> QED BY <1>2, <1>3, <1>4 DEF LiveElse

\* observe_host, whatever the host has published.
LEMMA ObserveHostKeeps ==
    ASSUME TerminalInv, NEW i \in Instances, NEW t \in Threads, NEW q,
           ObserveHost(i, t, q), sig[i][t] = "none",
           Ok(st[i], [pc[i] EXCEPT ![t] = q], sig[i]),
           [pc[i] EXCEPT ![t] = q]["entry"] \notin Early, st[i].slot # "none"
    PROVE  TerminalInv'
<1>1. Observed(i) # "live" BY DEF Observed
<1>2. CASE Step(i, t, q, st[i]) BY <1>2, StepKeeps
<1>3. CASE Signal(i, t, q, st[i], Observed(i)) BY <1>1, <1>3, SignalKeeps
<1> QED BY <1>2, <1>3 DEF ObserveHost

-----------------------------------------------------------------------------
(* Signalling.                                                             *)

\* What the invariant says of one instance.
LEMMA OfInstance ==
    ASSUME TerminalInv, NEW i \in Instances
    PROVE  /\ Ok(st[i], pc[i], sig[i])
           /\ DOMAIN st[i] = Fields /\ DOMAIN pc[i] = Threads /\ DOMAIN sig[i] = Threads
           /\ st = [j \in Instances |-> st[j]]
           /\ pc = [j \in Instances |-> pc[j]]
           /\ sig = [j \in Instances |-> sig[j]]
BY DEF TerminalInv, TerminalType, Ok, TypeOk

\* An instance with a thread under way has its slot and is past admission.
LEMMA UnderWay ==
    ASSUME NEW s, NEW p, NEW g, Ok(s, p, g), NEW t \in Threads
    PROVE  /\ g[t] # "none" => s.slot # "none" /\ p["entry"] \notin Early
           /\ p[t] \notin Over => s.slot # "none"
           /\ t # "entry" /\ p[t] # "idle" => p["entry"] \notin Early
BY DEF Ok, EntryOk, GoneOk

\* run_request: the request hook is claimed, by the first thread to come.
LEMMA ClaimOk ==
    ASSUME NEW s, NEW p, NEW g, Ok(s, p, g), NEW t \in Threads, g[t] = "request",
           s.request = "Idle"
    PROVE  Ok([s EXCEPT !.request = "Running", !.requests = @ + 1], p,
              [g EXCEPT ![t] = "hook"])
<1> DEFINE c == [s EXCEPT !.request = "Running", !.requests = @ + 1]
           h == [g EXCEPT ![t] = "hook"]
<1>1. DOMAIN s = Fields /\ DOMAIN g = Threads BY DEF Ok, TypeOk
<1>2. /\ DOMAIN c = Fields /\ c.reason = s.reason
      /\ c.slot = s.slot /\ c.uncertain = s.uncertain /\ c.request = "Running"
      /\ c.finish = s.finish /\ c.published = s.published /\ c.completion = s.completion
      /\ c.activeReinit = s.activeReinit /\ c.op = s.op /\ c.res = s.res
      /\ c.initial = s.initial /\ c.requests = s.requests + 1 /\ c.finishes = s.finishes
      /\ c.released = s.released
  BY <1>1 DEF Fields
<1>3. DOMAIN h = Threads /\ h[t] = "hook" /\ \A u \in Threads \ {t} : h[u] = g[u]
  BY <1>1
<1> HIDE DEF c, h
<1>4. s.slot # "none" /\ p["entry"] \notin Early BY UnderWay
<1>5. TypeOk(c, p, h) BY <1>2, <1>3 DEF Ok, TypeOk
<1>6. EntryOk(c, p, h) BY <1>2, <1>4 DEF Ok, EntryOk
<1>7. RequestOk(c, h)
  <2>1. s.reason # "live" /\ s.requests = 0 /\ \A u \in Threads : g[u] # "hook"
    BY DEF Ok, RequestOk, Claimed
  <2> QED BY <1>2, <1>3, <2>1 DEF Ok, RequestOk, Claimed
<1>8. WorkerOk(c, p) BY <1>2 DEF Ok, WorkerOk, Past
<1>9. EndOk(c, p) BY <1>2 DEF Ok, EndOk
<1>10. GoneOk(c, p, h) BY <1>2, <1>4 DEF GoneOk
<1>11. Ok(c, p, h) BY <1>5, <1>6, <1>7, <1>8, <1>9, <1>10 DEF Ok
<1> QED BY <1>11 DEF c, h

\* The request hook is over, on the one thread that ran it.
LEMMA ReturnOk ==
    ASSUME NEW s, NEW p, NEW g, Ok(s, p, g), NEW t \in Threads, g[t] = "hook",
           NEW how \in {"Done", "Panicked"}
    PROVE  /\ Ok([s EXCEPT !.request = how], p, [g EXCEPT ![t] = "schedule"])
           /\ s.completion # "PhysicallyStopped"
<1> DEFINE c == [s EXCEPT !.request = how]
           h == [g EXCEPT ![t] = "schedule"]
<1>1. DOMAIN s = Fields /\ DOMAIN g = Threads BY DEF Ok, TypeOk
<1>2. /\ DOMAIN c = Fields /\ c.reason = s.reason
      /\ c.slot = s.slot /\ c.uncertain = s.uncertain /\ c.request = how
      /\ c.finish = s.finish /\ c.published = s.published /\ c.completion = s.completion
      /\ c.activeReinit = s.activeReinit /\ c.op = s.op /\ c.res = s.res
      /\ c.initial = s.initial /\ c.requests = s.requests /\ c.finishes = s.finishes
      /\ c.released = s.released
  BY <1>1 DEF Fields
<1>3. DOMAIN h = Threads /\ h[t] = "schedule" /\ \A u \in Threads \ {t} : h[u] = g[u]
  BY <1>1
<1> HIDE DEF c, h
<1>4. s.slot # "none" /\ p["entry"] \notin Early BY UnderWay
<1>5. s.request = "Running" BY DEF Ok, RequestOk
<1>6. TypeOk(c, p, h) BY <1>2, <1>3 DEF Ok, TypeOk
<1>7. EntryOk(c, p, h) BY <1>2, <1>4, <1>5 DEF Ok, EntryOk
<1>8. RequestOk(c, h)
  <2>1. s.reason # "live" /\ s.requests = 1 /\ \A u \in Threads : g[u] = "hook" => u = t
    BY <1>5 DEF Ok, RequestOk, Claimed
  <2> QED BY <1>2, <1>3, <2>1 DEF Ok, RequestOk, Claimed
<1>9. WorkerOk(c, p) BY <1>2, <1>5 DEF Ok, WorkerOk
<1>10. EndOk(c, p) BY <1>2 DEF Ok, EndOk
<1>11. GoneOk(c, p, h) BY <1>2, <1>4 DEF GoneOk
<1>12. p["worker"] \notin Past BY <1>5 DEF Ok, WorkerOk
<1>13. s.completion # "PhysicallyStopped" BY <1>12 DEF Ok, EndOk, Past
<1>14. Ok(c, p, h) BY <1>6, <1>7, <1>8, <1>9, <1>10, <1>11 DEF Ok
<1> QED BY <1>13, <1>14 DEF c, h

\* schedule: the worker is spawned, or could not be.
LEMMA SpawnOk ==
    ASSUME NEW s, NEW p, NEW g, Ok(s, p, g), s.finish = "Idle", s.slot # "none",
           p["entry"] \notin Early
    PROVE  /\ Ok([s EXCEPT !.finish = "Submitted"], [p EXCEPT !["worker"] = "loop"], g)
           /\ Ok([s EXCEPT !.finish = "SpawnFailed"], p, g)
           /\ s.completion # "PhysicallyStopped"
<1>1. DOMAIN s = Fields /\ DOMAIN p = Threads BY DEF Ok, TypeOk
<1>2. p["worker"] = "idle" BY DEF Ok, WorkerOk
<1>3. s.completion # "PhysicallyStopped" BY <1>2 DEF Ok, EndOk
<1>5. Ok([s EXCEPT !.finish = "Submitted"], [p EXCEPT !["worker"] = "loop"], g)
  <2> DEFINE c == [s EXCEPT !.finish = "Submitted"]
             p2 == [p EXCEPT !["worker"] = "loop"]
  <2>1. /\ DOMAIN c = Fields /\ c.reason = s.reason
        /\ c.slot = s.slot /\ c.uncertain = s.uncertain /\ c.request = s.request
        /\ c.finish = "Submitted" /\ c.published = s.published /\ c.completion = s.completion
        /\ c.activeReinit = s.activeReinit /\ c.op = s.op /\ c.res = s.res
        /\ c.initial = s.initial /\ c.requests = s.requests /\ c.finishes = s.finishes
        /\ c.released = s.released
    BY <1>1 DEF Fields
  <2>2. /\ p2["worker"] = "loop" /\ p2["task"] = p["task"] /\ p2["stop"] = p["stop"]
        /\ p2["reinit"] = p["reinit"]
    BY <1>1 DEF Threads
  <2> HIDE DEF p2, c
  <2>3. WorkerOk(c, p2) BY <1>2, <2>1, <2>2 DEF Ok, WorkerOk, Loop, Past
  <2>4. EndOk(c, p2) BY <1>2, <1>3, <2>1, <2>2 DEF Ok, EndOk
  <2>5. "worker" \in Threads \ {"entry"} BY DEF Threads
  <2> QED BY <2>1, <2>3, <2>4, <2>5, MoveOk DEF p2, c
<1>6. Ok([s EXCEPT !.finish = "SpawnFailed"], p, g)
  <2> DEFINE c == [s EXCEPT !.finish = "SpawnFailed"]
  <2>1. /\ DOMAIN c = Fields /\ c.reason = s.reason
        /\ c.slot = s.slot /\ c.uncertain = s.uncertain /\ c.request = s.request
        /\ c.finish = "SpawnFailed" /\ c.published = s.published
        /\ c.completion = s.completion
        /\ c.activeReinit = s.activeReinit /\ c.op = s.op /\ c.res = s.res
        /\ c.initial = s.initial /\ c.requests = s.requests /\ c.finishes = s.finishes
        /\ c.released = s.released
    BY <1>1 DEF Fields
  <2> HIDE DEF c
  <2>2. TypeOk(c, p, g) BY <2>1 DEF Ok, TypeOk
  <2>3. EntryOk(c, p, g) BY <2>1 DEF Ok, EntryOk
  <2>4. RequestOk(c, g) BY <2>1 DEF Ok, RequestOk
  <2>5. WorkerOk(c, p) BY <1>2, <2>1 DEF Ok, WorkerOk, Past
  <2>6. EndOk(c, p) BY <2>1 DEF Ok, EndOk
  <2>7. GoneOk(c, p, g) BY <2>1 DEF GoneOk
  <2>8. Ok(c, p, g) BY <2>2, <2>3, <2>4, <2>5, <2>6, <2>7 DEF Ok
  <2> QED BY <2>8 DEF c
<1> QED BY <1>3, <1>5, <1>6

\* The completion is written down as uncertain.
LEMMA UncertainOk ==
    ASSUME NEW s, NEW p, NEW g, Ok(s, p, g), p["stop"] \notin {"check", "OK"}
    PROVE  /\ Ok([s EXCEPT !.completion = "Uncertain"], p, g)
           /\ [s EXCEPT !.completion = "Uncertain"].slot = s.slot
           /\ [s EXCEPT !.completion = "Uncertain"].reason = s.reason
<1> DEFINE c == [s EXCEPT !.completion = "Uncertain"]
<1>1. DOMAIN s = Fields BY DEF Ok, TypeOk
<1>2. /\ DOMAIN c = Fields /\ c.reason = s.reason
      /\ c.slot = s.slot /\ c.uncertain = s.uncertain /\ c.request = s.request
      /\ c.finish = s.finish /\ c.published = s.published /\ c.completion = "Uncertain"
      /\ c.activeReinit = s.activeReinit /\ c.op = s.op /\ c.res = s.res
      /\ c.initial = s.initial /\ c.requests = s.requests /\ c.finishes = s.finishes
      /\ c.released = s.released
  BY <1>1 DEF Fields
<1> HIDE DEF c
<1>3. TypeOk(c, p, g) BY <1>2 DEF Ok, TypeOk
<1>4. EntryOk(c, p, g) BY <1>2 DEF Ok, EntryOk
<1>5. RequestOk(c, g) BY <1>2 DEF Ok, RequestOk
<1>6. WorkerOk(c, p) BY <1>2 DEF Ok, WorkerOk
<1>7. EndOk(c, p) BY <1>2 DEF Ok, EndOk
<1>8. GoneOk(c, p, g) BY <1>2 DEF Ok, GoneOk
<1>9. Ok(c, p, g) BY <1>3, <1>4, <1>5, <1>6, <1>7, <1>8 DEF Ok
<1> QED BY <1>2, <1>9 DEF c

\* The steps of signal(): the request hook, and the worker scheduled.
LEMMA SignallingKeeps ==
    ASSUME TerminalInv, NEW i \in Instances, Signalling(i)
    PROVE  TerminalInv'
<1> DEFINE s == st[i]
           p == pc[i]
           g == sig[i]
<1>0. /\ Ok(s, p, g) /\ st = [j \in Instances |-> st[j]]
      /\ pc = [j \in Instances |-> pc[j]] /\ sig = [j \in Instances |-> sig[j]]
      /\ DOMAIN s = Fields
  BY OfInstance
<1>1. PICK t \in Threads : RunRequest(i, t) \/ RequestReturns(i, t) \/ Schedule(i, t)
  BY DEF Signalling
<1>2. g[t] # "none" BY <1>1 DEF RunRequest, RequestReturns, Schedule
<1> HIDE DEF s, p, g
<1>3. s.slot # "none" /\ p["entry"] \notin Early BY <1>0, <1>2, UnderWay
<1> USE <1>0, <1>3
<1>4. CASE RunRequest(i, t)
  <2>1. /\ g[t] = "request" /\ slots' = slots /\ pc' = [pc EXCEPT ![i] = p]
    BY <1>4 DEF RunRequest, g, p
  <2>2. CASE s.request = "Idle"
    <3> DEFINE c == [s EXCEPT !.request = "Running", !.requests = @ + 1]
    <3>1. st' = [st EXCEPT ![i] = c] /\ sig' = [sig EXCEPT ![i] = [g EXCEPT ![t] = "hook"]]
      BY <1>4, <2>2 DEF RunRequest, Set, s, g
    <3>2. Ok(c, p, [g EXCEPT ![t] = "hook"]) BY <2>1, <2>2, ClaimOk
    <3>3. c.slot = s.slot /\ c.uncertain = s.uncertain BY DEF Fields
    <3> HIDE DEF c
    <3> QED BY <2>1, <3>1, <3>2, <3>3, QuietKeeps DEF s
  <2>3. CASE s.request # "Idle"
    <3>1. /\ st' = [st EXCEPT ![i] = s]
          /\ sig' = [sig EXCEPT ![i] = [g EXCEPT ![t] = "schedule"]]
      BY <1>4, <2>3 DEF RunRequest, s, g
    <3>2. Ok(s, p, [g EXCEPT ![t] = "schedule"]) BY SigOk
    <3> QED BY <2>1, <3>1, <3>2, QuietKeeps DEF s
  <2> QED BY <2>2, <2>3
<1>5. CASE RequestReturns(i, t)
  <2>1. /\ g[t] = "hook" /\ pc' = [pc EXCEPT ![i] = p]
        /\ sig' = [sig EXCEPT ![i] = [g EXCEPT ![t] = "schedule"]]
    BY <1>5 DEF RequestReturns, g, p
  <2>2. CASE Set(i, [st[i] EXCEPT !.request = "Done"]) /\ UNCHANGED <<slots, host>>
    <3> DEFINE c == [s EXCEPT !.request = "Done"]
    <3>1. st' = [st EXCEPT ![i] = c] BY <2>2 DEF Set, s
    <3>2. Ok(c, p, [g EXCEPT ![t] = "schedule"]) BY <2>1, ReturnOk
    <3>3. c.slot = s.slot /\ c.uncertain = s.uncertain BY DEF Fields
    <3> HIDE DEF c
    <3> QED BY <2>1, <2>2, <3>1, <3>2, <3>3, QuietKeeps DEF s
  <2>3. CASE /\ Set(i, [Doubt(Commit(st[i], "Fault")) EXCEPT
                        !.request = "Panicked", !.faults = @ + 1])
             /\ slots' = Anchored(i)
    <3> DEFINE x == Doubt(Commit(s, "Fault"))
               y == [x EXCEPT !.request = "Panicked"]
               z == [y EXCEPT !.faults = @ + 1]
               h == [g EXCEPT ![t] = "schedule"]
    <3>1. st' = [st EXCEPT ![i] = z] BY <2>3 DEF Set, s
    <3>2. Ok(Commit(s, "Fault"), p, g) /\ Commit(s, "Fault").slot = s.slot BY CommitOk
    <3>3. s.completion # "PhysicallyStopped" BY <2>1, ReturnOk
    <3>4. p["stop"] \notin {"check", "OK"} BY <3>3 DEF Ok, EndOk
    <3>5. Ok(x, p, g) /\ x.slot = s.slot BY <3>2, <3>4, DoubtOk
    <3> HIDE DEF x
    <3>6. Ok(y, p, h) BY <2>1, <3>5, ReturnOk
    <3>7. y.slot = s.slot BY <3>5 DEF Ok, TypeOk, Fields
    <3> HIDE DEF y
    <3>8. Ok(z, p, h) /\ z.slot = s.slot BY <3>6, <3>7, FaultsOk
    <3> HIDE DEF z
    <3> QED BY <2>1, <2>3, <3>1, <3>8, DoubtedKeeps DEF s
  <2> QED BY <1>5, <2>2, <2>3 DEF RequestReturns
<1>6. CASE Schedule(i, t)
  <2>1. CASE /\ sig' = [sig EXCEPT ![i][t] = "none"]
             /\ UNCHANGED <<slots, st, pc, host>>
    <3>1. /\ st' = [st EXCEPT ![i] = s] /\ pc' = [pc EXCEPT ![i] = p]
          /\ sig' = [sig EXCEPT ![i] = [g EXCEPT ![t] = "none"]]
      BY <2>1 DEF s, p, g
    <3>2. Ok(s, p, [g EXCEPT ![t] = "none"]) BY SigOk
    <3> QED BY <2>1, <3>1, <3>2, QuietKeeps DEF s
  <2>2. CASE /\ s.finish = "Idle" /\ sig' = [sig EXCEPT ![i][t] = "none"]
             /\ Set(i, [st[i] EXCEPT !.finish = "Submitted"])
             /\ Goto(i, "worker", "loop")
             /\ UNCHANGED <<slots, host>>
    <3> DEFINE c == [s EXCEPT !.finish = "Submitted"]
               p2 == [p EXCEPT !["worker"] = "loop"]
    <3>1. /\ st' = [st EXCEPT ![i] = c] /\ pc' = [pc EXCEPT ![i] = p2]
          /\ sig' = [sig EXCEPT ![i] = [g EXCEPT ![t] = "none"]]
      BY <2>2 DEF s, p, g, Set, Goto
    <3>2. Ok(c, p2, g) BY <2>2, SpawnOk
    <3>3. c.slot = s.slot /\ c.uncertain = s.uncertain BY DEF Fields
    <3> HIDE DEF c, p2
    <3>4. Ok(c, p2, [g EXCEPT ![t] = "none"]) BY <3>2, SigOk
    <3> QED BY <2>2, <3>1, <3>3, <3>4, QuietKeeps DEF s
  <2>3. CASE /\ s.finish = "Idle" /\ sig' = [sig EXCEPT ![i][t] = "request"]
             /\ Set(i, [Doubt(Commit(st[i], "Fault")) EXCEPT !.faults = @ + 1,
                        !.finish = "SpawnFailed", !.completion = "Uncertain"])
             /\ slots' = Anchored(i)
             /\ UNCHANGED pc
    <3> DEFINE x == Doubt(Commit(s, "Fault"))
               y == [x EXCEPT !.faults = @ + 1]
               z == [y EXCEPT !.finish = "SpawnFailed"]
               f == [z EXCEPT !.completion = "Uncertain"]
               h == [g EXCEPT ![t] = "request"]
    <3>1. st' = [st EXCEPT ![i] = f] BY <2>3 DEF Set, s
    <3>2. pc' = [pc EXCEPT ![i] = p] /\ sig' = [sig EXCEPT ![i] = h] BY <2>3 DEF p, g
    <3>3. /\ Ok(Commit(s, "Fault"), p, g) /\ Commit(s, "Fault").slot = s.slot
          /\ Commit(s, "Fault").reason # "live" /\ Commit(s, "Fault").finish = s.finish
      BY CommitOk
    <3>4. s.completion # "PhysicallyStopped" BY <2>3, SpawnOk
    <3>5. p["stop"] \notin {"check", "OK"} BY <3>4 DEF Ok, EndOk
    <3>6. Ok(x, p, g) /\ x.slot = s.slot /\ x.reason # "live" /\ x.finish = s.finish
      BY <3>3, <3>5, DoubtOk
    <3> HIDE DEF x
    <3>7. Ok(y, p, g) /\ y.slot = s.slot /\ y.reason # "live" /\ y.finish = s.finish
      BY <3>6, FaultsOk
    <3> HIDE DEF y
    <3>8. Ok(z, p, g) BY <2>3, <3>7, SpawnOk
    <3>9. z.slot = s.slot /\ z.reason # "live" BY <3>7 DEF Ok, TypeOk, Fields
    <3> HIDE DEF z
    <3>10. Ok(f, p, g) /\ f.slot = s.slot /\ f.reason # "live" BY <3>5, <3>8, <3>9, UncertainOk
    <3> HIDE DEF f
    <3>11. Ok(f, p, h) BY <3>10, SigOk
    <3> HIDE DEF h
    <3> QED BY <2>3, <3>1, <3>2, <3>10, <3>11, DoubtedKeeps DEF s
  <2> QED BY <1>6, <2>1, <2>2, <2>3 DEF Schedule, s
<1> QED BY <1>1, <1>4, <1>5, <1>6

-----------------------------------------------------------------------------
(* The setup task.                                                         *)

\* Each end of a step of the setup task, with the record it leaves.
LEMMA TaskMoves ==
    ASSUME NEW s, NEW p, NEW g, Ok(s, p, g), p["task"] \notin {"idle", "done"}, NEW q,
           s.slot # "none", p["entry"] \notin Early, NEW res, NEW how, NEW n
    PROVE  /\ Ok(s, [p EXCEPT !["task"] = q], g)
           /\ Ok([s EXCEPT !.res = res], [p EXCEPT !["task"] = q], g)
           /\ Ok(TaskEnds(s, how), [p EXCEPT !["task"] = "done"], g)
           /\ Ok(TaskEnds([s EXCEPT !.res = res], how), [p EXCEPT !["task"] = "done"], g)
           /\ Ok(TaskEnds([s EXCEPT !.faults = n], how), [p EXCEPT !["task"] = "done"], g)
           /\ s.completion # "PhysicallyStopped"
<1>1. DOMAIN s = Fields BY DEF Ok, TypeOk
<1>2. Ok(s, [p EXCEPT !["task"] = q], g) BY <1>1, TaskOk
<1>3. Ok([s EXCEPT !.res = res], [p EXCEPT !["task"] = q], g)
  <2> DEFINE c == [s EXCEPT !.res = res]
  <2>1. /\ DOMAIN c = Fields /\ c.reason = s.reason
        /\ c.slot = s.slot /\ c.uncertain = s.uncertain /\ c.request = s.request
        /\ c.finish = s.finish /\ c.published = s.published /\ c.completion = s.completion
        /\ c.activeReinit = s.activeReinit /\ c.op = s.op
        /\ c.initial = s.initial /\ c.requests = s.requests /\ c.finishes = s.finishes
        /\ c.released = s.released
    BY <1>1 DEF Fields
  <2> HIDE DEF c
  <2>2. Ok(c, [p EXCEPT !["task"] = q], g) BY <2>1, TaskOk
  <2> QED BY <2>2 DEF c
<1>4. ASSUME NEW c, DOMAIN c = Fields, c.reason = s.reason,
             c.slot = s.slot, c.uncertain = s.uncertain, c.request = s.request,
             c.finish = s.finish, c.published = s.published, c.completion = s.completion,
             c.activeReinit = s.activeReinit, c.op = s.op,
             c.requests = s.requests, c.finishes = s.finishes, c.released = s.released
      PROVE  Ok(TaskEnds(c, how), [p EXCEPT !["task"] = "done"], g)
  <2> DEFINE e == TaskEnds(c, how)
  <2>1. /\ DOMAIN e = Fields /\ e.reason = s.reason
        /\ e.slot = s.slot /\ e.uncertain = s.uncertain /\ e.request = s.request
        /\ e.finish = s.finish /\ e.published = s.published /\ e.completion = s.completion
        /\ e.activeReinit = s.activeReinit /\ e.op = s.op
        /\ e.requests = s.requests /\ e.finishes = s.finishes
        /\ e.released = s.released
    BY <1>4 DEF Fields, TaskEnds
  <2> HIDE DEF e
  <2>2. Ok(e, [p EXCEPT !["task"] = "done"], g) BY <2>1, TaskOk
  <2> QED BY <2>2 DEF e
<1>5. Ok(TaskEnds(s, how), [p EXCEPT !["task"] = "done"], g) BY <1>1, <1>4
<1>6. Ok(TaskEnds([s EXCEPT !.res = res], how), [p EXCEPT !["task"] = "done"], g)
  BY <1>1, <1>4 DEF Fields
<1>7. Ok(TaskEnds([s EXCEPT !.faults = n], how), [p EXCEPT !["task"] = "done"], g)
  BY <1>1, <1>4 DEF Fields
<1>8. p["worker"] \notin Past \ {"settle", "join"} BY DEF Ok, WorkerOk
<1>9. s.completion # "PhysicallyStopped" BY <1>8 DEF Ok, EndOk, Past
<1> QED BY <1>2, <1>3, <1>5, <1>6, <1>7, <1>9

\* The steps of the setup task, aborted or not.
LEMMA SettingUpKeeps ==
    ASSUME TerminalInv, NEW i \in Instances, SettingUp(i)
    PROVE  TerminalInv'
<1> DEFINE s == st[i]
           p == pc[i]
           g == sig[i]
           P(q) == [p EXCEPT !["task"] = q]
<1>0. Ok(s, p, g) /\ DOMAIN s = Fields /\ DOMAIN p = Threads BY OfInstance
<1>1. g["task"] = "none" /\ p["task"] \notin Over
  BY DEF SettingUp, Handshake, TaskLive, ConstructSetup, PollSetup, TaskReady, Announce,
         TaskReturn, TaskCancelled, At, Over
<1>2. "task" \in Threads BY DEF Threads
<1>3. s.slot # "none" /\ p["entry"] \notin Early BY <1>0, <1>1, <1>2, UnderWay DEF Over, Threads
<1>4. p["task"] \notin {"idle", "done"} BY <1>1 DEF Over
<1>5. \A q : P(q)["entry"] = p["entry"] BY <1>0 DEF Threads
<1>6. \A q : Ok(s, P(q), g) BY <1>0, <1>3, <1>4, TaskMoves
<1>7. \A q, res : Ok([s EXCEPT !.res = res], P(q), g) BY <1>0, <1>3, <1>4, TaskMoves
<1>8. \A how, res, n :
        /\ Ok(TaskEnds(s, how), P("done"), g)
        /\ Ok(TaskEnds([s EXCEPT !.res = res], how), P("done"), g)
        /\ Ok(TaskEnds([s EXCEPT !.faults = n], how), P("done"), g)
        /\ s.completion # "PhysicallyStopped"
  BY <1>0, <1>3, <1>4, TaskMoves
<1>9. \A how, res, n :
        /\ TaskEnds(s, how).slot = s.slot /\ TaskEnds(s, how).uncertain = s.uncertain
        /\ TaskEnds(s, how).completion = s.completion
        /\ TaskEnds([s EXCEPT !.res = res], how).slot = s.slot
        /\ TaskEnds([s EXCEPT !.res = res], how).uncertain = s.uncertain
        /\ TaskEnds([s EXCEPT !.res = res], how).completion = s.completion
        /\ TaskEnds([s EXCEPT !.faults = n], how).slot = s.slot
        /\ TaskEnds([s EXCEPT !.faults = n], how).uncertain = s.uncertain
        /\ [s EXCEPT !.res = res].slot = s.slot
        /\ [s EXCEPT !.res = res].uncertain = s.uncertain
  BY <1>0 DEF Fields, TaskEnds
<1>10. ASSUME NEW q, NEW c, Step(i, "task", q, c), Ok(c, P(q), g),
              c.slot = s.slot, c.uncertain = s.uncertain
       PROVE  TerminalInv'
  BY <1>2, <1>10, StepKeeps
<1>11. ASSUME NEW q, NEW c, Signal(i, "task", q, c, "SetupFailed"), Ok(c, P(q), g),
              c.slot = s.slot, c.uncertain = s.uncertain
       PROVE  TerminalInv'
  BY <1>1, <1>2, <1>3, <1>5, <1>11, SignalKeeps
<1>12. ASSUME NEW q, NEW c, Panics(i, "task", q, c), Ok(c, P(q), g),
              c.slot = s.slot, c.completion = s.completion
       PROVE  TerminalInv'
  BY <1>1, <1>2, <1>3, <1>5, <1>8, <1>12, PanicsKeep
<1>13. ASSUME NEW yes, NEW no, LiveElse(i, "task", yes, no) PROVE TerminalInv'
  BY <1>1, <1>2, <1>3, <1>5, <1>6, <1>13, LiveElseKeeps
<1> HIDE DEF s, P
<1>14. CASE Handshake(i)
  BY <1>7, <1>8, <1>9, <1>10, <1>11, <1>14 DEF Handshake, s
<1>15. CASE TaskLive(i) BY <1>13, <1>15 DEF TaskLive
<1>16. CASE ConstructSetup(i)
  BY <1>7, <1>8, <1>9, <1>10, <1>12, <1>16 DEF ConstructSetup, s
<1>17. CASE PollSetup(i)
  BY <1>6, <1>8, <1>9, <1>10, <1>11, <1>12, <1>17 DEF PollSetup, s
<1>18. CASE TaskReady(i) BY <1>13, <1>18 DEF TaskReady
<1>19. CASE Announce(i) BY <1>8, <1>9, <1>10, <1>19 DEF Announce, s
<1>20. CASE TaskReturn(i) BY <1>8, <1>9, <1>10, <1>20 DEF TaskReturn, s
<1>21. CASE TaskCancelled(i) BY <1>8, <1>9, <1>10, <1>21 DEF TaskCancelled, s
<1> QED BY <1>14, <1>15, <1>16, <1>17, <1>18, <1>19, <1>20, <1>21 DEF SettingUp

-----------------------------------------------------------------------------
(* The ABI calls and reconfiguration.                                      *)

\* A thread that calls the module moves on; the record stays as it is.
LEMMA CallOk ==
    ASSUME NEW s, NEW p, NEW g, Ok(s, p, g), s.slot # "none", p["entry"] \notin Early,
           NEW t \in {"stop", "reinit", "deliver", "module"}, NEW q,
           t = "stop" /\ q \in {"check", "OK"} => s.completion = "PhysicallyStopped",
           t = "reinit" /\ q \notin {"idle", "begin"} => s.activeReinit
    PROVE  Ok(s, [p EXCEPT ![t] = q], g)
<1>1. DOMAIN s = Fields /\ s.op \in {"none", "Retire", "Construct"}
  BY DEF Ok, TypeOk, WorkerOk
<1> QED BY <1>1, SideOk

\* A call refused because the token names nobody any more.
LEMMA RefusedOk ==
    ASSUME NEW s, NEW p, NEW g, Ok(s, p, g), p["entry"] \notin Early,
           NEW t, NEW q, (t = "stop" /\ q = "CLOSED") \/ (t = "reinit" /\ q = "idle")
    PROVE  Ok(s, [p EXCEPT ![t] = q], g)
<1> DEFINE p2 == [p EXCEPT ![t] = q]
<1>1. CASE s.slot # "none" BY <1>1, CallOk
<1>2. CASE s.slot = "none"
  <2>1. /\ DOMAIN p2 = Threads /\ p2[t] = q /\ t \in Threads
        /\ \A u \in Threads \ {t} : p2[u] = p[u]
    BY DEF Ok, TypeOk, Threads
  <2>2. /\ p2["entry"] = p["entry"] /\ p2["worker"] = p["worker"] /\ p2["task"] = p["task"]
        /\ p2["stop"] \in {p["stop"], "CLOSED"} /\ p2["reinit"] \in {p["reinit"], "idle"}
    BY <2>1 DEF Threads
  <2> HIDE DEF p2
  <2>3. TypeOk(s, p2, g) BY <2>1 DEF Ok, TypeOk
  <2>4. EntryOk(s, p2, g) BY <2>2 DEF Ok, EntryOk
  <2>5. WorkerOk(s, p2) BY <2>2 DEF Ok, WorkerOk
  <2>6. EndOk(s, p2) BY <2>2 DEF Ok, EndOk
  <2>7. GoneOk(s, p2, g) BY <2>1 DEF Ok, GoneOk, Over
  <2>8. Ok(s, p2, g) BY <2>3, <2>4, <2>5, <2>6, <2>7 DEF Ok
  <2> QED BY <2>8 DEF p2
<1> QED BY <1>1, <1>2

\* The steps of terminal_deliver and of the shutdown call.
LEMMA CallingKeeps ==
    ASSUME TerminalInv, NEW i \in Instances, Calling(i)
    PROVE  TerminalInv'
<1> DEFINE s == st[i]
           p == pc[i]
           g == sig[i]
           P(t, q) == [p EXCEPT ![t] = q]
<1>0. Ok(s, p, g) /\ DOMAIN s = Fields /\ DOMAIN p = Threads BY OfInstance
<1>1. {"stop", "deliver"} \subseteq Threads BY DEF Threads
<1>2. \A q, t : t \in {"stop", "deliver"} => P(t, q)["entry"] = p["entry"]
  BY <1>0 DEF Threads
<1>3. Exported(i) => p["entry"] \notin Early BY DEF Exported, Early
<1>4. Lookup(i) => s.slot # "none" BY DEF Lookup
<1>5. ASSUME At(i, "stop", "signal") \/ At(i, "stop", "wait") \/ At(i, "stop", "check")
                \/ At(i, "stop", "doubt")
      PROVE  g["stop"] = "none" /\ s.slot # "none" /\ p["entry"] \notin Early
  BY <1>0, <1>1, <1>5, UnderWay DEF At, Over
<1>6. ASSUME s.slot # "none", p["entry"] \notin Early, NEW q,
             q \in {"check", "OK"} => s.completion = "PhysicallyStopped"
      PROVE  Ok(s, P("stop", q), g)
  BY <1>0, <1>6, CallOk
<1>7. ASSUME s.slot # "none", p["entry"] \notin Early, g["stop"] = "none", NEW q,
             q \in {"check", "OK"} => s.completion = "PhysicallyStopped",
             ObserveHost(i, "stop", q)
      PROVE  TerminalInv'
  BY <1>1, <1>2, <1>6, <1>7, ObserveHostKeeps
<1>8. CASE Deliver(i)
  <2>1. /\ g["deliver"] = "none" /\ s.slot # "none" /\ p["entry"] \notin Early
        /\ Signal(i, "deliver", "idle", s, Observed(i)) /\ Observed(i) # "live"
    BY <1>3, <1>4, <1>8 DEF Deliver, At, Observed
  <2>2. Ok(s, P("deliver", "idle"), g) BY <1>0, <2>1, CallOk
  <2> QED BY <1>1, <1>2, <2>1, <2>2, SignalKeeps
<1>9. CASE StopCall(i)
  <2>1. g["stop"] = "none" /\ p["entry"] \notin Early BY <1>3, <1>9 DEF StopCall, At
  <2>2. CASE ObserveHost(i, "stop", "signal") /\ Lookup(i) BY <1>4, <1>7, <2>1, <2>2
  <2>3. CASE Step(i, "stop", "CLOSED", s)
    <3>1. Ok(s, P("stop", "CLOSED"), g) BY <1>0, <2>1, RefusedOk
    <3> QED BY <1>1, <2>3, <3>1, StepKeeps
  <2> QED BY <1>9, <2>2, <2>3 DEF StopCall
<1>10. CASE StopSignal(i)
  <2>1. /\ Signal(i, "stop", "wait", s, "Stop") /\ At(i, "stop", "signal")
    BY <1>10 DEF StopSignal
  <2>2. Ok(s, P("stop", "wait"), g) BY <1>5, <1>6, <2>1
  <2> QED BY <1>1, <1>2, <1>5, <2>1, <2>2, SignalKeeps
<1>11. CASE StopWoken(i) BY <1>5, <1>7, <1>11 DEF StopWoken
<1>12. CASE StopDeadline(i) BY <1>5, <1>7, <1>12 DEF StopDeadline
<1>13. CASE StopCheck(i)
  <2>1. PICK q \in {"doubt", "OK"} : Step(i, "stop", q, s) /\ At(i, "stop", "check")
    BY <1>13 DEF StopCheck
  <2>2. s.completion = "PhysicallyStopped" BY <1>0, <2>1 DEF At, Ok, EndOk
  <2>3. Ok(s, P("stop", q), g) BY <1>5, <1>6, <2>1, <2>2
  <2> QED BY <1>1, <2>1, <2>3, StepKeeps
<1>14. CASE StopDoubt(i)
  <2>1. At(i, "stop", "doubt") BY <1>14 DEF StopDoubt
  <2>2. Ok(s, P("stop", "PANICKED"), g) BY <1>5, <1>6, <2>1
  <2>3. P("stop", "PANICKED")["stop"] = "PANICKED" BY <1>0 DEF Threads
  <2>4. s.slot # "none" /\ P("stop", "PANICKED")["entry"] \notin Early
    BY <1>1, <1>2, <1>5, <2>1
  <2>5. st' = [st EXCEPT ![i] = Doubt(s)] /\ pc' = [pc EXCEPT ![i] = P("stop", "PANICKED")]
    BY <1>14 DEF StopDoubt, Set, Goto
  <2>6. sig' = [sig EXCEPT ![i] = g] /\ slots' = Anchored(i)
    BY <1>14, OfInstance DEF StopDoubt
  <2> HIDE DEF s, p, g, P
  <2>7. Ok(Doubt(s), P("stop", "PANICKED"), g) /\ Doubt(s).slot = s.slot
    BY <2>2, <2>3, <2>4, DoubtOk
  <2> QED BY <2>4, <2>5, <2>6, <2>7, DoubtedKeeps DEF s
<1> QED BY <1>8, <1>9, <1>10, <1>11, <1>12, <1>13, <1>14 DEF Calling

\* Past the worker's loop a reason was committed.
LEMMA PastIsEnded ==
    ASSUME NEW s, NEW p, NEW g, Ok(s, p, g), p["worker"] \in Past
    PROVE  s.reason # "live"
BY DEF Ok, EntryOk, RequestOk, WorkerOk, Claimed

\* The steps of terminal_reinitialize and of the reconfiguration callback:
\* begin_reinit refuses an instance whose end was signalled, so the worker is
\* still in its loop while one is active.
LEMMA ReconfiguringKeeps ==
    ASSUME TerminalInv, NEW i \in Instances, Reconfiguring(i)
    PROVE  TerminalInv'
<1> DEFINE s == st[i]
           p == pc[i]
           g == sig[i]
           P(q) == [p EXCEPT !["reinit"] = q]
<1>0. Ok(s, p, g) /\ DOMAIN s = Fields /\ DOMAIN p = Threads BY OfInstance
<1>1. "reinit" \in Threads BY DEF Threads
<1>2. \A q : P(q)["entry"] = p["entry"] BY <1>0 DEF Threads
<1>3. g["reinit"] = "none"
  BY DEF Reconfiguring, ReinitCall, BeginReinit, ReinitLive, RetirePrevious, RetireWoken,
         ReinitStillLive, ConstructReinit, ConstructWoken, PollReinit, ReinitNotified,
         EndReinit, At
<1>4. p["reinit"] # "idle" => s.slot # "none" /\ p["entry"] \notin Early
  <2>1. ReinitCall(i) \/ p["reinit"] \notin Over
    BY DEF Reconfiguring, BeginReinit, ReinitLive, RetirePrevious, RetireWoken,
           ReinitStillLive, ConstructReinit, ConstructWoken, PollReinit, ReinitNotified,
           EndReinit, At, Over
  <2>2. ReinitCall(i) => p["reinit"] = "idle" BY DEF ReinitCall, At
  <2> QED BY <1>0, <1>1, <2>1, <2>2, UnderWay
\* From a place of the callback to any place of it.
<1>5. ASSUME p["reinit"] # "idle", NEW q,
             q \notin {"idle", "begin"} => p["reinit"] \notin {"idle", "begin"}
      PROVE  Ok(s, P(q), g)
  <2>1. p["reinit"] \notin {"idle", "begin"} => s.activeReinit BY <1>0 DEF Ok, EndOk
  <2> QED BY <1>0, <1>4, <1>5, <2>1, CallOk
<1>6. ASSUME p["reinit"] # "idle", NEW q, Step(i, "reinit", q, s),
             q \notin {"idle", "begin"} => p["reinit"] \notin {"idle", "begin"}
      PROVE  TerminalInv'
  BY <1>1, <1>5, <1>6, StepKeeps
<1>7. ASSUME p["reinit"] # "idle", NEW yes, NEW no, LiveElse(i, "reinit", yes, no),
             p["reinit"] \notin {"idle", "begin"}
      PROVE  TerminalInv'
  <2>1. Ok(s, P(yes), g) /\ Ok(s, P(no), g) BY <1>5, <1>7
  <2> QED BY <1>1, <1>2, <1>3, <1>4, <1>7, <2>1, LiveElseKeeps
<1>8. p["reinit"] \notin {"idle", "begin"} =>
          s.activeReinit /\ p["worker"] \notin Past /\ s.completion # "PhysicallyStopped"
  BY <1>0 DEF Ok, EndOk, WorkerOk, Past
\* Another record, but for what a reconfiguration changes.
<1>9. ASSUME p["reinit"] # "idle", NEW q, NEW c, DOMAIN c = Fields, c.slot = s.slot,
             c.request = s.request, c.requests = s.requests, c.reason = s.reason,
             c.published = s.published, c.finish = s.finish, c.finishes = s.finishes,
             c.initial = s.initial, c.released = s.released, c.uncertain = s.uncertain,
             c.completion = s.completion,
             c.op \in {"none", "Retire", "Construct"}, c.res \subseteq s.res,
             c.activeReinit => s.activeReinit \/ p["worker"] \notin Past,
             q \notin {"idle", "begin"} => c.activeReinit
      PROVE  Ok(c, P(q), g)
  BY <1>0, <1>4, <1>9, SideOk
<1>10. s.op \in {"none", "Retire", "Construct"} BY <1>0 DEF Ok, WorkerOk
<1>11. ASSUME p["reinit"] \notin {"idle", "begin"}, NEW op \in {"Retire", "Construct"},
              NEW r, DOMAIN r = Fields, r = s \/ r = [s EXCEPT !.res = @ \ {"reinitFuture"}],
              NEW q, Submit(i, op, r, q)
       PROVE  TerminalInv'
  <2> DEFINE c == [r EXCEPT !.op = op, !.pending = TRUE]
  <2>1. /\ st' = [st EXCEPT ![i] = c] /\ pc' = [pc EXCEPT ![i] = P(q)] /\ slots' = slots
        /\ sig' = [sig EXCEPT ![i] = [g EXCEPT !["reinit"] = "schedule"]]
    BY <1>11 DEF Submit, Set, Goto
  <2>2. /\ DOMAIN c = Fields /\ c.slot = s.slot
        /\ c.request = s.request /\ c.requests = s.requests /\ c.reason = s.reason
        /\ c.published = s.published /\ c.finish = s.finish /\ c.finishes = s.finishes
        /\ c.initial = s.initial /\ c.released = s.released /\ c.uncertain = s.uncertain
        /\ c.completion = s.completion /\ c.op = op /\ c.res \subseteq s.res
        /\ c.activeReinit = s.activeReinit
    BY <1>0, <1>11 DEF Fields
  <2> HIDE DEF c
  <2>3. Ok(c, P(q), g) BY <1>8, <1>9, <1>11, <2>2
  <2>4. P(q)["entry"] \notin Early BY <1>2, <1>4, <1>11
  <2>5. Ok(c, P(q), [g EXCEPT !["reinit"] = "schedule"])
    <3> HIDE DEF P, s
    <3> QED BY <1>1, <1>4, <1>11, <2>2, <2>3, <2>4, SigOk
  <2> HIDE DEF P
  <2> QED BY <2>1, <2>2, <2>5, QuietKeeps
<1>12. CASE ReinitCall(i)
  <2>1. p["entry"] \notin Early /\ (Lookup(i) => s.slot # "none")
    BY <1>12 DEF ReinitCall, Exported, Lookup, Early
  <2>2. CASE Lookup(i) /\ LiveElse(i, "reinit", "begin", "idle")
    <3>1. Ok(s, P("begin"), g) /\ Ok(s, P("idle"), g) BY <1>0, <2>1, <2>2, CallOk
    <3> QED BY <1>1, <1>2, <1>3, <2>1, <2>2, <3>1, LiveElseKeeps
  <2>3. CASE Step(i, "reinit", "idle", s)
    <3>1. Ok(s, P("idle"), g) BY <1>0, <2>1, RefusedOk
    <3> QED BY <1>1, <2>3, <3>1, StepKeeps
  <2> QED BY <1>12, <2>2, <2>3 DEF ReinitCall
<1>13. CASE BeginReinit(i)
  <2>1. p["reinit"] = "begin" BY <1>13 DEF BeginReinit, At
  <2>2. CASE Step(i, "reinit", "idle", s) BY <1>6, <2>1, <2>2
  <2>3. CASE /\ ~Terminal(i)
             /\ Step(i, "reinit", "callback",
                     [s EXCEPT !.activeReinit = TRUE, !.reinits = @ + 1])
    <3> DEFINE c == [s EXCEPT !.activeReinit = TRUE, !.reinits = @ + 1]
    <3>1. /\ DOMAIN c = Fields /\ c.slot = s.slot
          /\ c.request = s.request /\ c.requests = s.requests /\ c.reason = s.reason
          /\ c.published = s.published /\ c.finish = s.finish /\ c.finishes = s.finishes
          /\ c.initial = s.initial /\ c.released = s.released /\ c.uncertain = s.uncertain
          /\ c.completion = s.completion /\ c.op = s.op /\ c.res = s.res
          /\ c.activeReinit
      BY <1>0 DEF Fields
    <3>2. p["worker"] \notin Past BY <1>0, <2>3, PastIsEnded DEF Terminal
    <3>3. Step(i, "reinit", "callback", c) BY <2>3
    <3> HIDE DEF c
    <3>4. Ok(c, P("callback"), g) BY <1>9, <1>10, <2>1, <3>1, <3>2
    <3> QED BY <1>1, <3>1, <3>3, <3>4, StepKeeps
  <2> QED BY <1>13, <2>2, <2>3 DEF BeginReinit
<1>14. CASE ReinitLive(i) \/ ReinitStillLive(i)
  BY <1>7, <1>14 DEF ReinitLive, ReinitStillLive, At
<1>15. CASE RetirePrevious(i)
  <2>1. p["reinit"] = "previous" BY <1>15 DEF RetirePrevious, At
  <2>2. CASE \E q \in {"end", "retired"} : Step(i, "reinit", q, s) BY <1>6, <2>1, <2>2
  <2>3. CASE Submit(i, "Retire", [s EXCEPT !.res = @ \ {"reinitFuture"}], "retiring")
    BY <1>0, <1>11, <2>1, <2>3
  <2> QED BY <1>15, <2>2, <2>3 DEF RetirePrevious
<1>16. CASE RetireWoken(i)
  <2>1. PICK q \in {"end", "retired"} : Step(i, "reinit", q, s) /\ p["reinit"] = "retiring"
    BY <1>16 DEF RetireWoken, At
  <2> QED BY <1>6, <2>1
<1>17. CASE ConstructReinit(i)
  BY <1>0, <1>11, <1>17 DEF ConstructReinit, At
<1>18. CASE ConstructWoken(i)
  <2> DEFINE c == [s EXCEPT !.code = "CLOSED"]
  <2>1. PICK q : Step(i, "reinit", q, c) /\ p["reinit"] = "constructing"
    BY <1>18 DEF ConstructWoken, At
  <2>2. /\ DOMAIN c = Fields /\ c.slot = s.slot
        /\ c.request = s.request /\ c.requests = s.requests /\ c.reason = s.reason
        /\ c.published = s.published /\ c.finish = s.finish /\ c.finishes = s.finishes
        /\ c.initial = s.initial /\ c.released = s.released /\ c.uncertain = s.uncertain
        /\ c.completion = s.completion /\ c.op = s.op /\ c.res = s.res
        /\ c.activeReinit = s.activeReinit
    BY <1>0 DEF Fields
  <2> HIDE DEF c
  <2>3. Ok(c, P(q), g) BY <1>8, <1>9, <1>10, <2>1, <2>2
  <2> QED BY <1>1, <2>1, <2>2, <2>3, StepKeeps
<1>19. CASE PollReinit(i)
  <2>1. p["reinit"] = "poll" BY <1>19 DEF PollReinit, At
  <2>2. CASE LiveElse(i, "reinit", "end", "end") BY <1>7, <2>1, <2>2
  <2>3. Ok(s, P("end"), g) BY <1>5, <2>1
  <2>4. CASE Signal(i, "reinit", "end", s, "SetupFailed")
    BY <1>1, <1>2, <1>3, <1>4, <2>1, <2>3, <2>4, SignalKeeps
  <2>5. CASE Panics(i, "reinit", "end", s)
    BY <1>1, <1>2, <1>3, <1>4, <1>8, <2>1, <2>3, <2>5, PanicsKeep
  <2> QED BY <1>19, <2>2, <2>4, <2>5 DEF PollReinit
<1>20. CASE ReinitNotified(i) BY <1>6, <1>20 DEF ReinitNotified, At
<1>21. CASE EndReinit(i)
  <2> DEFINE c == [s EXCEPT !.activeReinit = FALSE]
  <2>1. Step(i, "reinit", "idle", c) /\ p["reinit"] = "end" BY <1>21 DEF EndReinit, At
  <2>2. /\ DOMAIN c = Fields /\ c.slot = s.slot
        /\ c.request = s.request /\ c.requests = s.requests /\ c.reason = s.reason
        /\ c.published = s.published /\ c.finish = s.finish /\ c.finishes = s.finishes
        /\ c.initial = s.initial /\ c.released = s.released /\ c.uncertain = s.uncertain
        /\ c.completion = s.completion /\ c.op = s.op /\ c.res = s.res
        /\ ~c.activeReinit
    BY <1>0 DEF Fields
  <2> HIDE DEF c
  <2>3. Ok(c, P("idle"), g) BY <1>9, <1>10, <2>1, <2>2
  <2> QED BY <1>1, <2>1, <2>2, <2>3, StepKeeps
<1> QED BY <1>12, <1>13, <1>14, <1>15, <1>16, <1>17, <1>18, <1>19, <1>20, <1>21
        DEF Reconfiguring

-----------------------------------------------------------------------------
(* Start-up.                                                               *)

\* A step of start-up past the configuration: what it leaves alone.
LEMMA EntryOkMoves ==
    ASSUME NEW s, NEW p, NEW g, Ok(s, p, g), p["entry"] # "done", s.slot # "none",
           NEW p2, DOMAIN p2 = Threads, \A u \in Threads \ {"entry", "task"} : p2[u] = p[u],
           p2["entry"] \notin Early, NEW s2,
           p2["task"] = p["task"] \/ s2.initial = "running",
           DOMAIN s2 = Fields, s2.slot = s.slot, s2.reason = s.reason,
           s2.initial = s.initial \/ s2.initial = "running",
           s2.finish = s.finish, s2.finishes = s.finishes, s2.requests = s.requests,
           s2.op = s.op, s2.activeReinit = s.activeReinit, s2.released = s.released,
           s2.completion = s.completion,
           s2.request = s.request \/ (s.request = "Unregistered" /\ s2.request = "Idle"),
           s2.published => p2["entry"] = "done",
           p2["entry"] \in {"factory", "register"} => s2.request = "Unregistered",
           p2["entry"] \in {"live", "runtime", "spawn"} => s2.request # "Unregistered",
           p2["entry"] \in {"publish", "done"} /\ s2.request = "Unregistered" =>
               s2.reason # "live"
    PROVE  Ok(s2, p2, g)
<1>1. s2.slot \in Slots BY DEF Ok, TypeOk
<1>2. EntryOk(s2, p2, g) BY DEF EntryOk
<1>3. RequestOk(s2, g) BY DEF Ok, RequestOk, Claimed
<1> QED BY <1>1, <1>2, <1>3, StartUpOk

\* A start-up refused before it owned anything.
LEMMA RefusesOk ==
    ASSUME NEW s, NEW p, NEW g, Ok(s, p, g), p["entry"] \in Early
    PROVE  Ok(s, [p EXCEPT !["entry"] = "refused"], g)
<1> DEFINE p2 == [p EXCEPT !["entry"] = "refused"]
<1>1. /\ DOMAIN p2 = Threads /\ p2["entry"] = "refused"
      /\ \A u \in Threads \ {"entry"} : p2[u] = p[u]
  BY DEF Ok, TypeOk, Threads
<1>2. /\ p2["worker"] = p["worker"] /\ p2["task"] = p["task"]
      /\ p2["stop"] = p["stop"] /\ p2["reinit"] = p["reinit"]
  BY <1>1 DEF Threads
<1> HIDE DEF p2
<1>3. TypeOk(s, p2, g) BY <1>1 DEF Ok, TypeOk
<1>4. EntryOk(s, p2, g) BY <1>1 DEF Ok, EntryOk, Early
<1>5. WorkerOk(s, p2) BY <1>2 DEF Ok, WorkerOk
<1>6. EndOk(s, p2) BY <1>2 DEF Ok, EndOk
<1>7. GoneOk(s, p2, g) BY <1>1 DEF Ok, GoneOk, Over
<1>8. Ok(s, p2, g) BY <1>3, <1>4, <1>5, <1>6, <1>7 DEF Ok
<1> QED BY <1>8 DEF p2

\* The slot that is reserved was nobody's.
LEMMA AdmitKeeps ==
    ASSUME TerminalInv, NEW i \in Instances, Admit(i)
    PROVE  TerminalInv'
<1> DEFINE s == st[i]
           p == pc[i]
           g == sig[i]
           P(q) == [p EXCEPT !["entry"] = q]
<1>0. /\ Ok(s, p, g) /\ DOMAIN s = Fields /\ DOMAIN p = Threads
      /\ st = [j \in Instances |-> st[j]]
      /\ pc = [j \in Instances |-> pc[j]] /\ sig = [j \in Instances |-> sig[j]]
  BY OfInstance
<1>1. p["entry"] = "idle" /\ sig' = [sig EXCEPT ![i] = g]
  BY <1>0 DEF Admit, At
<1>2. CASE Goto(i, "entry", "refused") /\ UNCHANGED <<slots, st>>
  <2>1. /\ st' = [st EXCEPT ![i] = s] /\ pc' = [pc EXCEPT ![i] = P("refused")]
        /\ slots' = slots
    BY <1>0, <1>2 DEF Goto
  <2>2. Ok(s, P("refused"), g) BY <1>0, <1>1, RefusesOk DEF Early
  <2> HIDE DEF P
  <2> QED BY <1>1, <2>1, <2>2, QuietKeeps
<1>3. CASE /\ \E k \in Slots :
                /\ ~slots[k].reserved
                /\ slots' = [slots EXCEPT ![k] = [reserved |-> TRUE, anchor |-> i]]
                /\ Set(i, [st[i] EXCEPT !.slot = k])
           /\ Goto(i, "entry", "config")
  <2>1. PICK k \in Slots :
                /\ ~slots[k].reserved
                /\ slots' = [slots EXCEPT ![k] = [reserved |-> TRUE, anchor |-> i]]
                /\ Set(i, [st[i] EXCEPT !.slot = k])
    BY <1>3
  <2> DEFINE c == [s EXCEPT !.slot = k]
  <2>2. st' = [st EXCEPT ![i] = c] /\ pc' = [pc EXCEPT ![i] = P("config")]
    BY <1>3, <2>1 DEF Set, Goto
  <2>3. /\ DOMAIN c = Fields /\ c.slot = k /\ c.reason = s.reason
        /\ c.uncertain = s.uncertain /\ c.request = s.request
        /\ c.finish = s.finish /\ c.published = s.published /\ c.completion = s.completion
        /\ c.activeReinit = s.activeReinit /\ c.op = s.op /\ c.res = s.res
        /\ c.initial = s.initial /\ c.requests = s.requests /\ c.finishes = s.finishes
        /\ c.released = s.released
    BY <1>0 DEF Fields
  <2>4. /\ DOMAIN P("config") = Threads /\ P("config")["entry"] = "config"
        /\ \A u \in Threads \ {"entry"} : P("config")[u] = p[u]
    BY <1>0 DEF Threads
  <2>5. k # "none" BY TerminalAssumption
  <2> HIDE DEF c, P
  <2>6. /\ ~s.uncertain /\ s.res = {} /\ s.finish = "Idle" /\ ~s.published
        /\ s.request = "Unregistered"
        /\ \A t \in Threads : g[t] = "none" /\ (t # "entry" => p[t] = "idle")
    BY <1>0, <1>1 DEF Ok, EntryOk, Early
  <2>7. EntryOk(c, P("config"), g) BY <2>3, <2>4, <2>6 DEF EntryOk
  <2>8. RequestOk(c, g) BY <1>0, <2>3 DEF Ok, RequestOk
  <2>9. P("config")["task"] = p["task"] BY <2>4 DEF Threads
  <2>10. Ok(c, P("config"), g)
    BY <1>0, <1>1, <2>3, <2>4, <2>5, <2>7, <2>8, <2>9, StartUpOk
  <2>11. /\ DOMAIN slots' = Slots
         /\ \A j \in Slots : DOMAIN slots'[j] = {"reserved", "anchor"}
         /\ slots'[k].reserved /\ slots'[k].anchor = i
         /\ \A j \in Slots \ {k} : slots'[j] = slots[j]
    BY <2>1 DEF TerminalInv, TerminalType
  <2>12. st'[i] = c BY <1>0, <2>2
  <2>13. SlotOk(i)' BY <2>3, <2>6, <2>11, <2>12 DEF SlotOk
  <2>14. ASSUME NEW j \in Instances \ {i}, st[j].slot # "none"
         PROVE  st[j].slot # c.slot /\ slots'[st[j].slot] = slots[st[j].slot]
    <3>1. slots[st[j].slot].reserved BY <2>14 DEF TerminalInv, SlotOk
    <3>2. st[j].slot \in Slots BY <2>14 DEF TerminalInv, Ok, TypeOk
    <3> QED BY <2>1, <2>3, <2>11, <3>1, <3>2
  <2> QED BY <1>1, <2>2, <2>10, <2>11, <2>13, <2>14, Lift
<1> QED BY <1>2, <1>3 DEF Admit

\* A module refused before it owned anything gives its anchor up again.
LEMMA ParseConfigKeeps ==
    ASSUME TerminalInv, NEW i \in Instances, ParseConfig(i)
    PROVE  TerminalInv'
<1> DEFINE s == st[i]
           p == pc[i]
           g == sig[i]
           P(q) == [p EXCEPT !["entry"] = q]
<1>0. /\ Ok(s, p, g) /\ DOMAIN s = Fields /\ DOMAIN p = Threads
      /\ st = [j \in Instances |-> st[j]]
      /\ pc = [j \in Instances |-> pc[j]] /\ sig = [j \in Instances |-> sig[j]]
  BY OfInstance
<1>1. p["entry"] = "config" BY DEF ParseConfig, At
<1>2. "entry" \in Threads BY DEF Threads
<1>3. s.slot # "none" BY <1>0, <1>1, <1>2, UnderWay DEF Over
<1>4. s.request = "Unregistered" /\ ~s.published /\ ~s.uncertain
  BY <1>0, <1>1 DEF Ok, EntryOk, Early
<1>5. CASE Step(i, "entry", "factory", [st[i] EXCEPT !.res = {"config"}])
  <2> DEFINE c == [s EXCEPT !.res = {"config"}]
  <2>1. /\ DOMAIN c = Fields /\ c.slot = s.slot /\ c.reason = s.reason
        /\ c.uncertain = s.uncertain /\ c.request = s.request
        /\ c.finish = s.finish /\ c.published = s.published /\ c.completion = s.completion
        /\ c.activeReinit = s.activeReinit /\ c.op = s.op
        /\ c.initial = s.initial /\ c.requests = s.requests /\ c.finishes = s.finishes
        /\ c.released = s.released
    BY <1>0 DEF Fields
  <2>2. /\ DOMAIN P("factory") = Threads /\ P("factory")["entry"] = "factory"
        /\ \A u \in Threads \ {"entry"} : P("factory")[u] = p[u]
        /\ P("factory")["task"] = p["task"]
    BY <1>0 DEF Threads
  <2>3. Step(i, "entry", "factory", c) BY <1>5
  <2> HIDE DEF c
  <2>4. Ok(c, P("factory"), g)
    <3> HIDE DEF P, s
    <3> QED BY <1>0, <1>1, <1>3, <1>4, <2>1, <2>2, EntryOkMoves DEF Early
  <2> QED BY <1>2, <2>1, <2>3, <2>4, StepKeeps
<1>6. CASE /\ Goto(i, "entry", "refused")
           /\ Set(i, Commit(st[i], "SetupFailed"))
           /\ slots' = [slots EXCEPT ![st[i].slot].anchor = None]
           /\ UNCHANGED <<sig, host>>
  <2> DEFINE c == Commit(s, "SetupFailed")
  <2>1. /\ st' = [st EXCEPT ![i] = c] /\ pc' = [pc EXCEPT ![i] = P("refused")]
        /\ sig' = [sig EXCEPT ![i] = g]
    BY <1>0, <1>6 DEF Set, Goto
  <2>2. Ok(c, p, g) /\ c.slot = s.slot /\ c.uncertain = s.uncertain BY <1>0, CommitOk
  <2> HIDE DEF c
  <2>3. Ok(c, P("refused"), g) BY <1>1, <2>2, RefusesOk DEF Early
  <2>4. s.slot \in Slots BY <1>0, <1>3 DEF Ok, TypeOk
  <2>5. /\ DOMAIN slots' = Slots
        /\ \A j \in Slots : DOMAIN slots'[j] = {"reserved", "anchor"}
        /\ slots'[s.slot].reserved = slots[s.slot].reserved
        /\ slots'[s.slot].anchor = None
        /\ \A j \in Slots \ {s.slot} : slots'[j] = slots[j]
    BY <1>6, <2>4 DEF TerminalInv, TerminalType
  <2>6. st'[i] = c BY <1>0, <2>1
  <2>7. slots[s.slot].reserved BY <1>3 DEF TerminalInv, SlotOk
  <2>8. SlotOk(i)' BY <1>4, <2>2, <2>5, <2>6, <2>7 DEF SlotOk
  <2>9. ASSUME NEW j \in Instances \ {i}, st[j].slot # "none"
        PROVE  st[j].slot # c.slot /\ slots'[st[j].slot] = slots[st[j].slot]
    <3>1. st[j].slot # s.slot BY <1>3, SlotIsOwn
    <3>2. st[j].slot \in Slots BY <2>9 DEF TerminalInv, Ok, TypeOk
    <3> QED BY <2>2, <2>5, <3>1, <3>2
  <2> QED BY <2>1, <2>3, <2>5, <2>8, <2>9, Lift
<1>7. CASE Panics(i, "entry", "fail", s)
  <2>1. /\ DOMAIN P("fail") = Threads /\ P("fail")["entry"] = "fail"
        /\ \A u \in Threads \ {"entry"} : P("fail")[u] = p[u]
        /\ P("fail")["task"] = p["task"]
    BY <1>0 DEF Threads
  <2>2. "fail" \notin Early BY DEF Early
  <2>3. Ok(s, P("fail"), g)
    <3> HIDE DEF P, s
    <3> QED BY <1>0, <1>1, <1>3, <1>4, <2>1, <2>2, EntryOkMoves
  <2>4. s.completion # "PhysicallyStopped"
    BY <1>0, <1>1, <1>4 DEF Ok, EntryOk, WorkerOk, EndOk, Past
  <2>5. g["entry"] = "none" BY DEF ParseConfig, At
  <2> QED BY <1>2, <1>3, <1>7, <2>1, <2>2, <2>3, <2>4, <2>5, PanicsKeep
<1> QED BY <1>5, <1>6, <1>7 DEF ParseConfig

\* The steps of start_terminal_factory_mode, up to publish().
LEMMA StartingKeeps ==
    ASSUME TerminalInv, NEW i \in Instances, Starting(i)
    PROVE  TerminalInv'
<1> DEFINE s == st[i]
           p == pc[i]
           g == sig[i]
           P(q) == [p EXCEPT !["entry"] = q]
<1>0. /\ Ok(s, p, g) /\ DOMAIN s = Fields /\ DOMAIN p = Threads
      /\ st = [j \in Instances |-> st[j]]
      /\ pc = [j \in Instances |-> pc[j]] /\ sig = [j \in Instances |-> sig[j]]
  BY OfInstance
<1>1. "entry" \in Threads BY DEF Threads
<1>2. CASE Admit(i) \/ ParseConfig(i) BY <1>2, AdmitKeeps, ParseConfigKeeps
<1>3. SUFFICES ASSUME ~Admit(i), ~ParseConfig(i) PROVE TerminalInv'
  BY <1>2
<1>4. g["entry"] = "none" /\ p["entry"] \notin Over /\ p["entry"] \notin Early
  BY <1>3 DEF Starting, RunFactory, Register, EntryLive, BuildRuntime, SpawnSetup,
              EntryFail, Publish, At, Over, Early
<1>5. s.slot # "none" /\ p["entry"] # "done" BY <1>0, <1>1, <1>4, UnderWay DEF Over
<1>6. \A q : /\ DOMAIN P(q) = Threads /\ P(q)["entry"] = q
             /\ \A u \in Threads \ {"entry"} : P(q)[u] = p[u]
             /\ P(q)["task"] = p["task"]
  BY <1>0 DEF Threads
<1>7. ~s.published /\ s.completion # "PhysicallyStopped"
  BY <1>0, <1>5 DEF Ok, EntryOk, WorkerOk, EndOk, Past
\* Another record, but for what start-up changes.
<1>8. ASSUME NEW c, NEW q, q \notin Early,
             DOMAIN c = Fields, c.slot = s.slot, c.reason = s.reason, c.initial = s.initial,
             c.finish = s.finish, c.finishes = s.finishes, c.requests = s.requests,
             c.op = s.op, c.activeReinit = s.activeReinit, c.released = s.released,
             c.completion = s.completion,
             c.request = s.request \/ (s.request = "Unregistered" /\ c.request = "Idle"),
             c.published => q = "done",
             q \in {"factory", "register"} => c.request = "Unregistered",
             q \in {"live", "runtime", "spawn"} => c.request # "Unregistered",
             q \in {"publish", "done"} /\ c.request = "Unregistered" => c.reason # "live"
      PROVE  Ok(c, P(q), g)
  <2> DEFINE p2 == P(q)
  <2>1. /\ DOMAIN p2 = Threads /\ p2["entry"] = q /\ p2["task"] = p["task"]
        /\ \A u \in Threads \ {"entry", "task"} : p2[u] = p[u]
    BY <1>6
  <2> HIDE DEF p2
  <2>2. Ok(c, p2, g)
    <3> HIDE DEF s, p, g, P
    <3> QED BY <1>0, <1>5, <1>8, <2>1, EntryOkMoves
  <2> QED BY <2>2 DEF p2
<1>9. Ok(s, P("fail"), g) BY <1>0, <1>7, <1>8 DEF Early
<1>10. CASE Signal(i, "entry", "fail", s, "SetupFailed")
  BY <1>1, <1>4, <1>5, <1>6, <1>9, <1>10, SignalKeeps DEF Early
<1>11. CASE Panics(i, "entry", "fail", s)
  BY <1>1, <1>4, <1>5, <1>6, <1>7, <1>9, <1>11, PanicsKeep DEF Early
<1>12. ASSUME NEW res, NEW q, Step(i, "entry", q, [s EXCEPT !.res = res]), q \notin Early,
              q \in {"factory", "register"} => s.request = "Unregistered",
              q \in {"live", "runtime", "spawn"} => s.request # "Unregistered",
              q \notin {"publish", "done"}
       PROVE  TerminalInv'
  <2> DEFINE c == [s EXCEPT !.res = res]
  <2>1. /\ DOMAIN c = Fields /\ c.slot = s.slot /\ c.reason = s.reason
        /\ c.initial = s.initial /\ c.uncertain = s.uncertain
        /\ c.finish = s.finish /\ c.finishes = s.finishes /\ c.requests = s.requests
        /\ c.op = s.op /\ c.activeReinit = s.activeReinit /\ c.released = s.released
        /\ c.completion = s.completion /\ c.request = s.request
        /\ c.published = s.published
    BY <1>0 DEF Fields
  <2>2. Step(i, "entry", q, c) BY <1>12
  <2> HIDE DEF c
  <2>3. Ok(c, P(q), g) BY <1>7, <1>8, <1>12, <2>1
  <2> QED BY <1>1, <2>1, <2>2, <2>3, StepKeeps
<1>13. CASE RunFactory(i)
  <2>1. s.request = "Unregistered" BY <1>0, <1>13 DEF RunFactory, At, Ok, EntryOk
  <2>2. CASE Step(i, "entry", "register", [s EXCEPT !.res = @ \cup {"factory"}])
    BY <1>12, <2>1, <2>2 DEF Early
  <2> QED BY <1>10, <1>11, <1>13, <2>2 DEF RunFactory
\* signal() from the entry point once the hooks are registered or start-up
\* is over: the thread enters it only when a reason is there.
<1>14. ASSUME NEW c, NEW q, q \notin Early, Ok(c, P(q), g), c.slot = s.slot,
              c.uncertain = s.uncertain, c.reason = s.reason,
              Goto(i, "entry", q), Set(i, c), UNCHANGED slots,
              sig' = IF Terminal(i) THEN [sig EXCEPT ![i]["entry"] = "request"] ELSE sig
       PROVE  TerminalInv'
  <2>1. st' = [st EXCEPT ![i] = c] /\ pc' = [pc EXCEPT ![i] = P(q)] BY <1>14 DEF Set, Goto
  <2>2. CASE Terminal(i)
    <3> DEFINE h == [g EXCEPT !["entry"] = "request"]
               p2 == P(q)
    <3>1. sig' = [sig EXCEPT ![i] = h] BY <1>14, <2>2
    <3>2. p2["entry"] \notin Early /\ c.slot # "none" /\ c.reason # "live" /\ Ok(c, p2, g)
      BY <1>5, <1>6, <1>14, <2>2 DEF Terminal
    <3> HIDE DEF p2
    <3>3. Ok(c, p2, h) BY <1>1, <3>2, SigOk
    <3> HIDE DEF h
    <3> QED BY <1>14, <2>1, <3>1, <3>3, QuietKeeps DEF p2
  <2>3. CASE ~Terminal(i)
    <3>1. sig' = [sig EXCEPT ![i] = g] BY <1>0, <1>14, <2>3
    <3> QED BY <1>14, <2>1, <3>1, QuietKeeps
  <2> QED BY <2>2, <2>3
<1>15. CASE Register(i)
  <2> DEFINE c == [s EXCEPT !.request = "Idle"]
  <2>1. /\ DOMAIN c = Fields /\ c.slot = s.slot /\ c.reason = s.reason
        /\ c.initial = s.initial /\ c.uncertain = s.uncertain
        /\ c.finish = s.finish /\ c.finishes = s.finishes /\ c.requests = s.requests
        /\ c.op = s.op /\ c.activeReinit = s.activeReinit /\ c.released = s.released
        /\ c.completion = s.completion /\ c.request = "Idle"
        /\ c.published = s.published
    BY <1>0 DEF Fields
  <2>2. Goto(i, "entry", "live") /\ Set(i, c) BY <1>15 DEF Register
  <2> HIDE DEF c
  <2>3. s.request = "Unregistered" BY <1>0, <1>15 DEF Register, At, Ok, EntryOk
  <2>4. Ok(c, P("live"), g) BY <1>7, <1>8, <2>1, <2>3 DEF Early
  <2>5. "live" \notin Early BY DEF Early
  <2> QED BY <1>14, <1>15, <2>1, <2>2, <2>4, <2>5 DEF Register
<1>16. CASE EntryLive(i)
  <2>1. s.request # "Unregistered" BY <1>0, <1>16 DEF EntryLive, At, Ok, EntryOk
  <2>2. Ok(s, P("runtime"), g) BY <1>0, <1>7, <1>8, <2>1 DEF Early
  <2>3. LiveElse(i, "entry", "runtime", "fail") BY <1>16 DEF EntryLive
  <2>4. P("fail")["entry"] \notin Early BY <1>6 DEF Early
  <2> QED BY <1>1, <1>4, <1>5, <1>9, <2>2, <2>3, <2>4, LiveElseKeeps
<1>17. CASE BuildRuntime(i)
  <2>1. s.request # "Unregistered" BY <1>0, <1>17 DEF BuildRuntime, At, Ok, EntryOk
  <2> DEFINE res == (s.res \ {"config"}) \cup
                    {"setup", "runtime", "inbound", "transport", "callback"}
  <2>2. \/ Step(i, "entry", "spawn", [s EXCEPT !.res = res])
        \/ Signal(i, "entry", "fail", s, "SetupFailed")
        \/ Panics(i, "entry", "fail", s)
    BY <1>17 DEF BuildRuntime
  <2> HIDE DEF res
  <2>3. CASE Step(i, "entry", "spawn", [s EXCEPT !.res = res])
    BY <1>12, <2>1, <2>3 DEF Early
  <2> QED BY <1>10, <1>11, <2>2, <2>3
<1>18. CASE SpawnSetup(i)
  <2> DEFINE c == [s EXCEPT !.initial = "running", !.vtable = TRUE]
             p2 == [p EXCEPT !["entry"] = "publish", !["task"] = "handshake"]
  <2>1. /\ DOMAIN c = Fields /\ c.slot = s.slot /\ c.reason = s.reason
        /\ c.initial = "running" /\ c.uncertain = s.uncertain
        /\ c.finish = s.finish /\ c.finishes = s.finishes /\ c.requests = s.requests
        /\ c.op = s.op /\ c.activeReinit = s.activeReinit /\ c.released = s.released
        /\ c.completion = s.completion /\ c.request = s.request
        /\ c.published = s.published
    BY <1>0 DEF Fields
  <2>2. /\ DOMAIN p2 = Threads /\ p2["entry"] = "publish"
        /\ \A u \in Threads \ {"entry", "task"} : p2[u] = p[u]
    BY <1>0 DEF Threads
  <2>3. st' = [st EXCEPT ![i] = c] /\ pc' = [pc EXCEPT ![i] = p2]
        /\ sig' = [sig EXCEPT ![i] = g] /\ slots' = slots
    BY <1>0, <1>18 DEF SpawnSetup, Set
  <2>4. s.request # "Unregistered" BY <1>0, <1>18 DEF SpawnSetup, At, Ok, EntryOk
  <2>5. "publish" \notin Early BY DEF Early
  <2> HIDE DEF c, p2
  <2>6. Ok(c, p2, g)
    <3> HIDE DEF s, p, g, P
    <3> QED BY <1>0, <1>5, <1>7, <2>1, <2>2, <2>4, <2>5, EntryOkMoves
  <2> QED BY <2>1, <2>3, <2>6, QuietKeeps
<1>19. CASE EntryFail(i)
  <2>1. CASE Terminal(i) /\ Step(i, "entry", "publish", s)
    <3>1. s.reason # "live" BY <2>1 DEF Terminal
    <3>2. Ok(s, P("publish"), g) BY <1>0, <1>7, <1>8, <3>1 DEF Early
    <3> QED BY <1>1, <2>1, <3>2, StepKeeps
  <2>2. CASE Signal(i, "entry", "publish", s, "SetupFailed")
    <3> DEFINE c == Commit(s, "SetupFailed")
               x == Signalled(s)
    <3>1. /\ st' = [st EXCEPT ![i] = c] /\ pc' = [pc EXCEPT ![i] = P("publish")]
          /\ sig' = [sig EXCEPT ![i] = [g EXCEPT !["entry"] = x]] /\ slots' = slots
      BY <2>2 DEF Signal, Set, Goto
    <3>2. x \in {"none", "request"} BY DEF Signalled
    <3>3. /\ Ok(c, p, g) /\ c.slot = s.slot /\ c.uncertain = s.uncertain
          /\ c.reason # "live"
      BY <1>0, CommitOk
    <3>4. ~c.published /\ DOMAIN c = Fields
      BY <1>5, <3>3 DEF Ok, EntryOk, TypeOk
    <3>5. "publish" \notin Early BY DEF Early
    <3> DEFINE p2 == P("publish")
    <3>6. /\ DOMAIN p2 = Threads /\ p2["entry"] = "publish" /\ p2["task"] = p["task"]
          /\ \A u \in Threads \ {"entry", "task"} : p2[u] = p[u]
      BY <1>6
    <3> HIDE DEF p2, c, x
    <3>7. Ok(c, p2, g)
      <4> HIDE DEF s, p, g, P
      <4> QED BY <1>5, <3>3, <3>4, <3>5, <3>6, EntryOkMoves
    <3>8. Ok(c, p2, [g EXCEPT !["entry"] = x])
      BY <1>1, <1>5, <3>2, <3>3, <3>5, <3>6, <3>7, SigOk
    <3> QED BY <3>1, <3>3, <3>8, QuietKeeps DEF p2
  <2> QED BY <1>19, <2>1, <2>2 DEF EntryFail
<1>20. CASE Publish(i)
  <2> DEFINE c == [s EXCEPT !.published = TRUE]
  <2>1. /\ DOMAIN c = Fields /\ c.slot = s.slot /\ c.reason = s.reason
        /\ c.initial = s.initial /\ c.uncertain = s.uncertain
        /\ c.finish = s.finish /\ c.finishes = s.finishes /\ c.requests = s.requests
        /\ c.op = s.op /\ c.activeReinit = s.activeReinit /\ c.released = s.released
        /\ c.completion = s.completion /\ c.request = s.request
    BY <1>0 DEF Fields
  <2>2. Goto(i, "entry", "done") /\ Set(i, c) BY <1>20 DEF Publish
  <2> HIDE DEF c
  <2>3. s.request = "Unregistered" => s.reason # "live"
    BY <1>0, <1>20 DEF Publish, At, Ok, EntryOk
  <2>4. Ok(c, P("done"), g) BY <1>8, <2>1, <2>3 DEF Early
  <2>5. "done" \notin Early BY DEF Early
  <2> QED BY <1>14, <1>20, <2>1, <2>2, <2>4, <2>5 DEF Publish
<1> QED BY <1>3, <1>13, <1>15, <1>16, <1>17, <1>18, <1>19, <1>20 DEF Starting

-----------------------------------------------------------------------------
(* The worker.                                                             *)

\* The worker goes from place to place of its loop.
LEMMA LoopOk ==
    ASSUME NEW s, NEW p, NEW g, Ok(s, p, g), p["worker"] \in Loop, NEW q \in Loop, NEW s2,
           DOMAIN s2 = Fields, s2.slot = s.slot, s2.request = s.request,
           s2.requests = s.requests, s2.reason = s.reason, s2.published = s.published,
           s2.finish = s.finish, s2.finishes = s.finishes, s2.initial = s.initial,
           s2.released = s.released, s2.completion = s.completion,
           s2.activeReinit = s.activeReinit, s2.op \in {"none", "Retire", "Construct"}
    PROVE  Ok(s2, [p EXCEPT !["worker"] = q], g)
<1> DEFINE p2 == [p EXCEPT !["worker"] = q]
<1>1. /\ p2["worker"] = q /\ p2["task"] = p["task"] /\ p2["stop"] = p["stop"]
      /\ p2["reinit"] = p["reinit"]
  BY DEF Ok, TypeOk, Threads
<1>2. "worker" \in Threads \ {"entry"} BY DEF Threads
<1>3. s.slot # "none" /\ p["entry"] \notin Early BY <1>2, UnderWay DEF Loop, Over
<1> HIDE DEF p2
<1>4. WorkerOk(s2, p2) BY <1>1 DEF Ok, WorkerOk, Loop, Past
<1>5. EndOk(s2, p2) BY <1>1 DEF Ok, EndOk, Loop
<1> QED BY <1>2, <1>3, <1>4, <1>5, MoveOk DEF p2

\* The worker goes on after its loop, before the completion.
LEMMA PastOk ==
    ASSUME NEW s, NEW p, NEW g, Ok(s, p, g), p["worker"] \in Past \ {"done"},
           NEW q \in Past \ {"done"}, NEW s2,
           DOMAIN s2 = Fields, s2.slot = s.slot, s2.request = s.request,
           s2.requests = s.requests, s2.reason = s.reason, s2.published = s.published,
           s2.finish = s.finish, s2.completion = s.completion,
           s2.activeReinit = s.activeReinit, s2.op = s.op,
           s2.finishes \in {0} \cup
               IF q \in {"release", "observe", "check", "doubtful", "clean"}
               THEN {s.requests} ELSE {},
           q \in Past \ {"settle", "join"} => p["task"] \in {"idle", "done"},
           p["task"] \notin {"idle", "done"} => s2.initial = "running",
           s2.released => q \in {"observe", "check", "doubtful", "clean"} /\ s2.res = {},
           q = "clean" => s2.released
    PROVE  Ok(s2, [p EXCEPT !["worker"] = q], g)
<1> DEFINE p2 == [p EXCEPT !["worker"] = q]
<1>1. /\ p2["worker"] = q /\ p2["task"] = p["task"] /\ p2["stop"] = p["stop"]
      /\ p2["reinit"] = p["reinit"]
  BY DEF Ok, TypeOk, Threads
<1>2. "worker" \in Threads \ {"entry"} BY DEF Threads
<1>3. s.slot # "none" /\ p["entry"] \notin Early BY <1>2, UnderWay DEF Past, Over
<1> HIDE DEF p2
<1>4. WorkerOk(s2, p2) BY <1>1 DEF Ok, WorkerOk, Loop, Past
<1>5. EndOk(s2, p2) BY <1>1 DEF Ok, EndOk
<1> QED BY <1>2, <1>3, <1>4, <1>5, MoveOk DEF p2

\* What holds while the worker works.
LEMMA AtWork ==
    ASSUME TerminalInv, NEW i \in Instances, Working(i)
    PROVE  /\ sig[i]["worker"] = "none" /\ st[i].slot # "none"
           /\ pc[i]["worker"] \in Loop \cup (Past \ {"done"})
           /\ \A q : [pc[i] EXCEPT !["worker"] = q]["entry"] \notin Early
           /\ st[i].completion # "PhysicallyStopped"
<1>0. Ok(st[i], pc[i], sig[i]) /\ DOMAIN pc[i] = Threads BY OfInstance
<1>1. /\ sig[i]["worker"] = "none" /\ pc[i]["worker"] \notin {"idle", "done"}
  BY DEF Working, WorkerTakesOp, WorkerRetires, WorkerRetireFailed, WorkerConstructs,
         WorkerParses, WorkerStillLive, WorkerBuilds, WorkerNotBuilt, WorkerFinishes,
         Settle, Join, DisposeSetup, Finish, Release, FinalObserve, FinalCheck, Complete, At
<1>2. pc[i]["worker"] \in Loop \cup (Past \ {"done"}) BY <1>0, <1>1 DEF Ok, WorkerOk, Past
<1>3. "worker" \in Threads BY DEF Threads
<1>4. st[i].slot # "none" /\ pc[i]["entry"] \notin Early
  BY <1>0, <1>2, <1>3, UnderWay DEF Loop, Past, Over
<1>5. \A q : [pc[i] EXCEPT !["worker"] = q]["entry"] = pc[i]["entry"]
  BY <1>0 DEF Threads
<1>6. st[i].completion # "PhysicallyStopped" BY <1>0, <1>1 DEF Ok, EndOk
<1> QED BY <1>1, <1>2, <1>4, <1>5, <1>6

\* The loop: operations handed over by the reconfiguration callback.
InLoop(i) ==
    \/ WorkerTakesOp(i) \/ WorkerRetires(i) \/ WorkerRetireFailed(i)
    \/ WorkerConstructs(i) \/ WorkerParses(i) \/ WorkerStillLive(i)
    \/ WorkerBuilds(i) \/ WorkerNotBuilt(i)

\* The worker's loop: operations handed over by the reconfiguration callback.
LEMMA InLoopKeeps ==
    ASSUME TerminalInv, NEW i \in Instances, InLoop(i)
    PROVE  TerminalInv'
<1> DEFINE s == st[i]
           p == pc[i]
           g == sig[i]
           P(q) == [p EXCEPT !["worker"] = q]
<1>0. Ok(s, p, g) /\ DOMAIN s = Fields BY OfInstance
<1>1. /\ g["worker"] = "none" /\ s.slot # "none" /\ s.completion # "PhysicallyStopped"
      /\ \A q : P(q)["entry"] \notin Early
  BY AtWork DEF InLoop, Working
<1>2. p["worker"] \in Loop
  BY DEF InLoop, WorkerTakesOp, WorkerRetires, WorkerRetireFailed, WorkerConstructs,
         WorkerParses, WorkerStillLive, WorkerBuilds, WorkerNotBuilt, At, Loop
<1>3. "worker" \in Threads BY DEF Threads
<1>4. s.op \in {"none", "Retire", "Construct"} BY <1>0 DEF Ok, WorkerOk
<1>5. ASSUME NEW q \in Loop PROVE Ok(s, P(q), g) BY <1>0, <1>2, <1>4, <1>5, LoopOk
<1>6. ASSUME NEW yes \in Loop, NEW no \in Loop, LiveElse(i, "worker", yes, no)
      PROVE  TerminalInv'
  BY <1>1, <1>3, <1>5, <1>6, LiveElseKeeps
<1>7. ASSUME NEW q \in Loop, Step(i, "worker", q, s) PROVE TerminalInv'
  BY <1>3, <1>5, <1>7, StepKeeps
<1>8. ASSUME NEW q \in Loop, NEW c, DOMAIN c = Fields, c.slot = s.slot,
             c.request = s.request,
             c.requests = s.requests, c.reason = s.reason, c.published = s.published,
             c.finish = s.finish, c.finishes = s.finishes, c.initial = s.initial,
             c.released = s.released, c.completion = s.completion,
             c.activeReinit = s.activeReinit, c.op \in {"none", "Retire", "Construct"},
             c.uncertain = s.uncertain,
             Step(i, "worker", q, c) \/ Panics(i, "worker", q, c)
      PROVE  TerminalInv'
  <2>1. Ok(c, P(q), g)
    <3> HIDE DEF s, p, g, P
    <3> QED BY <1>0, <1>2, <1>8, LoopOk DEF P
  <2>2. CASE Step(i, "worker", q, c) BY <1>3, <1>8, <2>1, <2>2, StepKeeps
  <2>3. CASE Panics(i, "worker", q, c) BY <1>1, <1>3, <1>8, <2>1, <2>3, PanicsKeep
  <2> QED BY <1>8, <2>2, <2>3
<1>9. ASSUME NEW q \in Loop, NEW res, Step(i, "worker", q, [s EXCEPT !.res = res])
                 \/ Panics(i, "worker", q, [s EXCEPT !.res = res])
      PROVE  TerminalInv'
  <2> DEFINE c == [s EXCEPT !.res = res]
  <2>1. /\ DOMAIN c = Fields /\ c.slot = s.slot /\ c.request = s.request
        /\ c.requests = s.requests /\ c.reason = s.reason /\ c.published = s.published
        /\ c.finish = s.finish /\ c.finishes = s.finishes /\ c.initial = s.initial
        /\ c.released = s.released /\ c.completion = s.completion
        /\ c.activeReinit = s.activeReinit /\ c.op = s.op /\ c.uncertain = s.uncertain
    BY <1>0 DEF Fields
  <2>2. Step(i, "worker", q, c) \/ Panics(i, "worker", q, c) BY <1>9
  <2> HIDE DEF c
  <2> QED BY <1>4, <1>8, <2>1, <2>2
\* The caller is told, and woken.
<1>10. ASSUME NEW r, DOMAIN r = Fields, NEW res, r = s \/ r = [s EXCEPT !.res = res],
              NEW failed, NEW code, Step(i, "worker", "loop", OpOver(i, r, failed, code))
       PROVE  TerminalInv'
  <2> DEFINE c == OpOver(i, r, failed, code)
  <2>1. /\ DOMAIN c = Fields /\ c.slot = s.slot /\ c.request = s.request
        /\ c.requests = s.requests /\ c.reason = s.reason /\ c.published = s.published
        /\ c.finish = s.finish /\ c.finishes = s.finishes /\ c.initial = s.initial
        /\ c.released = s.released /\ c.completion = s.completion
        /\ c.activeReinit = s.activeReinit /\ c.op = s.op /\ c.uncertain = s.uncertain
    BY <1>0, <1>10 DEF OpOver, Fields
  <2>2. Step(i, "worker", "loop", c) BY <1>10
  <2>3. "loop" \in Loop BY DEF Loop
  <2> HIDE DEF c
  <2> QED BY <1>4, <1>8, <2>1, <2>2, <2>3
<1>11. CASE WorkerTakesOp(i)
  <2> DEFINE c == [s EXCEPT !.op = "none"]
  <2>1. /\ DOMAIN c = Fields /\ c.slot = s.slot /\ c.request = s.request
        /\ c.requests = s.requests /\ c.reason = s.reason /\ c.published = s.published
        /\ c.finish = s.finish /\ c.finishes = s.finishes /\ c.initial = s.initial
        /\ c.released = s.released /\ c.completion = s.completion
        /\ c.activeReinit = s.activeReinit /\ c.op = "none" /\ c.uncertain = s.uncertain
    BY <1>0 DEF Fields
  <2>2. Step(i, "worker", s.op, c) /\ s.op \in Loop
    BY <1>4, <1>11 DEF WorkerTakesOp, Loop
  <2> HIDE DEF c
  <2> QED BY <1>8, <2>1, <2>2
<1>12. CASE WorkerRetires(i)
  <2>1. CASE Step(i, "worker", "loop", OpOver(i, s, FALSE, "OK"))
    BY <1>0, <1>10, <2>1
  <2>2. CASE Panics(i, "worker", "retireFailed", s)
    BY <1>0, <1>4, <1>8, <2>2 DEF Loop
  <2> QED BY <1>12, <2>1, <2>2 DEF WorkerRetires
<1>13. CASE WorkerRetireFailed(i)
  BY <1>0, <1>10, <1>13 DEF WorkerRetireFailed
<1>14. CASE WorkerConstructs(i) BY <1>6, <1>14 DEF WorkerConstructs, Loop
<1>15. CASE WorkerParses(i)
  <2>1. CASE Step(i, "worker", "parsed", [s EXCEPT !.res = @ \cup {"config"}])
    BY <1>9, <2>1 DEF Loop
  <2>2. CASE Step(i, "worker", "notBuilt", s) BY <1>7, <2>2 DEF Loop
  <2>3. CASE Panics(i, "worker", "notBuilt", s) BY <1>0, <1>4, <1>8, <2>3 DEF Loop
  <2> QED BY <1>15, <2>1, <2>2, <2>3 DEF WorkerParses
<1>16. CASE WorkerStillLive(i) BY <1>6, <1>16 DEF WorkerStillLive, Loop
<1>17. CASE WorkerBuilds(i)
  <2> DEFINE r == [s EXCEPT !.res = @ \ {"config"}]
             r2 == [r EXCEPT !.res = @ \cup {"reinitFuture"}]
  <2>1. r2 = [s EXCEPT !.res = (s.res \ {"config"}) \cup {"reinitFuture"}]
    BY <1>0 DEF Fields
  <2>2. \/ Step(i, "worker", "loop", OpOver(i, r2, FALSE, "OK"))
        \/ Panics(i, "worker", "notBuilt", r)
    BY <1>17 DEF WorkerBuilds
  <2>3. DOMAIN r2 = Fields BY <1>0
  <2> HIDE DEF r2
  <2>4. CASE Step(i, "worker", "loop", OpOver(i, r2, FALSE, "OK"))
    BY <1>10, <2>1, <2>3, <2>4
  <2>5. CASE Panics(i, "worker", "notBuilt", r)
    BY <1>9, <2>5 DEF Loop
  <2> QED BY <2>2, <2>4, <2>5
<1>18. CASE WorkerNotBuilt(i)
  BY <1>0, <1>10, <1>18 DEF WorkerNotBuilt
<1> QED BY <1>11, <1>12, <1>13, <1>14, <1>15, <1>16, <1>17, <1>18 DEF InLoop

\* After the loop, up to the completion.
Ending(i) ==
    \/ Settle(i) \/ Join(i) \/ DisposeSetup(i) \/ Finish(i) \/ Release(i)
    \/ FinalObserve(i) \/ FinalCheck(i)

\* settle_execution, dispose_setup, the finish hook, release_resources and the
\* last look at the host.
LEMMA EndingKeeps ==
    ASSUME TerminalInv, NEW i \in Instances, Ending(i)
    PROVE  TerminalInv'
<1> DEFINE s == st[i]
           p == pc[i]
           g == sig[i]
           P(q) == [p EXCEPT !["worker"] = q]
<1>0. Ok(s, p, g) /\ DOMAIN s = Fields BY OfInstance
<1>1. /\ g["worker"] = "none" /\ s.slot # "none" /\ s.completion # "PhysicallyStopped"
      /\ \A q : P(q)["entry"] \notin Early
  BY AtWork DEF Ending, Working
<1>2. p["worker"] \in Past \ {"done"}
  BY DEF Ending, Settle, Join, DisposeSetup, Finish, Release, FinalObserve, FinalCheck,
         At, Past
<1>3. "worker" \in Threads BY DEF Threads
<1>4. /\ s.finishes \in {0} \cup
            IF p["worker"] \in {"release", "observe", "check", "doubtful", "clean"}
            THEN {s.requests} ELSE {}
      /\ p["worker"] \in Past \ {"settle", "join"} => p["task"] \in {"idle", "done"}
      /\ p["task"] \notin {"idle", "done"} => s.initial = "running"
      /\ s.released => p["worker"] \in {"observe", "check", "doubtful", "clean"}
      /\ s.released => s.res = {}
  BY <1>0, <1>2 DEF Ok, WorkerOk, EndOk, Past
\* Another record, but for what the worker changes.
<1>5. ASSUME NEW q \in Past \ {"done"}, NEW c,
             DOMAIN c = Fields, c.slot = s.slot, c.request = s.request,
             c.requests = s.requests, c.reason = s.reason, c.published = s.published,
             c.finish = s.finish, c.completion = s.completion,
             c.activeReinit = s.activeReinit, c.op = s.op, c.uncertain = s.uncertain,
             c.finishes \in {0} \cup
                 IF q \in {"release", "observe", "check", "doubtful", "clean"}
                 THEN {s.requests} ELSE {},
             q \in Past \ {"settle", "join"} => p["task"] \in {"idle", "done"},
             p["task"] \notin {"idle", "done"} => c.initial = "running",
             c.released => q \in {"observe", "check", "doubtful", "clean"} /\ c.res = {},
             q = "clean" => c.released,
             \/ Step(i, "worker", q, c) \/ Panics(i, "worker", q, c)
             \/ SourcePanic(i, "worker", q, c) \/ Signal(i, "worker", q, c, "SetupFailed")
      PROVE  TerminalInv'
  <2>1. Ok(c, P(q), g)
    <3> HIDE DEF s, p, g, P
    <3> QED BY <1>0, <1>2, <1>5, PastOk DEF P
  <2>2. CASE Step(i, "worker", q, c) BY <1>3, <1>5, <2>1, <2>2, StepKeeps
  <2>3. CASE Panics(i, "worker", q, c) BY <1>1, <1>3, <1>5, <2>1, <2>3, PanicsKeep
  <2>4. CASE SourcePanic(i, "worker", q, c)
    BY <1>1, <1>3, <1>5, <2>1, <2>4, SourcePanicKeeps
  <2>5. CASE Signal(i, "worker", q, c, "SetupFailed")
    BY <1>1, <1>3, <1>5, <2>1, <2>5, SignalKeeps
  <2> QED BY <1>5, <2>2, <2>3, <2>4, <2>5
<1>6. CASE Settle(i)
  <2>1. p["worker"] = "settle" BY <1>6 DEF Settle, At
  <2>2. CASE s.initial = "none" /\ Step(i, "worker", "dispose", s)
    BY <1>0, <1>4, <1>5, <2>1, <2>2 DEF Past
  <2>3. CASE Step(i, "worker", "join", [s EXCEPT !.aborted = TRUE])
    <3> DEFINE c == [s EXCEPT !.aborted = TRUE]
    <3>1. /\ DOMAIN c = Fields /\ c.slot = s.slot /\ c.request = s.request
          /\ c.requests = s.requests /\ c.reason = s.reason /\ c.published = s.published
          /\ c.finish = s.finish /\ c.finishes = s.finishes /\ c.initial = s.initial
          /\ c.released = s.released /\ c.completion = s.completion /\ c.res = s.res
          /\ c.activeReinit = s.activeReinit /\ c.op = s.op /\ c.uncertain = s.uncertain
      BY <1>0 DEF Fields
    <3>2. Step(i, "worker", "join", c) BY <2>3
    <3> HIDE DEF c
    <3> QED BY <1>4, <1>5, <2>1, <3>1, <3>2 DEF Past
  <2> QED BY <1>6, <2>2, <2>3 DEF Settle
<1>7. CASE Join(i)
  <2> DEFINE c == [s EXCEPT !.initial = "none", !.aborted = FALSE]
  <2>1. p["worker"] = "join" /\ p["task"] = "done" BY <1>7 DEF Join, Joined, At
  <2>2. /\ DOMAIN c = Fields /\ c.slot = s.slot /\ c.request = s.request
        /\ c.requests = s.requests /\ c.reason = s.reason /\ c.published = s.published
        /\ c.finish = s.finish /\ c.finishes = s.finishes
        /\ c.released = s.released /\ c.completion = s.completion /\ c.res = s.res
        /\ c.activeReinit = s.activeReinit /\ c.op = s.op /\ c.uncertain = s.uncertain
    BY <1>0 DEF Fields
  <2>3. \/ Step(i, "worker", "dispose", c) \/ SourcePanic(i, "worker", "dispose", c)
        \/ Signal(i, "worker", "dispose", c, "SetupFailed")
    BY <1>7 DEF Join
  <2> HIDE DEF c
  <2> QED BY <1>4, <1>5, <2>1, <2>2, <2>3 DEF Past
<1>8. CASE DisposeSetup(i)
  <2> DEFINE gone == s.res \ {"initialFuture", "callback", "reinitFuture"}
             a == [s EXCEPT !.disposalFailed = TRUE]
             b == [s EXCEPT !.res = gone]
             d == [b EXCEPT !.disposalFailed = TRUE]
             Same(c) ==
                /\ DOMAIN c = Fields /\ c.slot = s.slot /\ c.request = s.request
                /\ c.requests = s.requests /\ c.reason = s.reason
                /\ c.published = s.published /\ c.initial = s.initial
                /\ c.finish = s.finish /\ c.finishes = s.finishes
                /\ c.released = s.released /\ c.completion = s.completion
                /\ c.activeReinit = s.activeReinit /\ c.op = s.op
                /\ c.uncertain = s.uncertain
  <2>1. p["worker"] = "dispose" BY <1>8 DEF DisposeSetup, At
  <2>2. Same(a) /\ Same(b) /\ Same(d)
    <3>1. Same(a) BY <1>0 DEF Fields
    <3>2. Same(b) BY <1>0 DEF Fields
    <3>3. Same(d) BY <1>0 DEF Fields
    <3> QED BY <3>1, <3>2, <3>3
  <2>3. \/ Step(i, "worker", "finish", a) \/ Step(i, "worker", "finish", b)
        \/ Panics(i, "worker", "finish", d)
    BY <1>8 DEF DisposeSetup
  <2> HIDE DEF a, b, d
  <2>4. ~s.released /\ s.finishes = 0 BY <1>4, <2>1
  <2>5. "finish" \in Past \ {"done"} /\ p["task"] \in {"idle", "done"}
    BY <1>4, <2>1 DEF Past
  <2>6. ASSUME NEW c, Same(c),
               Step(i, "worker", "finish", c) \/ Panics(i, "worker", "finish", c)
        PROVE  TerminalInv'
    BY <1>4, <1>5, <2>4, <2>5, <2>6
  <2> QED BY <2>2, <2>3, <2>6
<1>9. CASE Finish(i)
  <2> DEFINE n == IF s.request = "Unregistered" THEN s.finishes ELSE s.finishes + 1
             ran(c) == [s EXCEPT !.completed = c, !.finishes = n]
  <2>1. p["worker"] = "finish" BY <1>9 DEF Finish, At
  <2>2. \A x : LET c == ran(x) IN
            /\ DOMAIN c = Fields /\ c.slot = s.slot /\ c.request = s.request
            /\ c.requests = s.requests /\ c.reason = s.reason
            /\ c.published = s.published /\ c.initial = s.initial
            /\ c.finish = s.finish /\ c.finishes = n
            /\ c.released = s.released /\ c.completion = s.completion
            /\ c.activeReinit = s.activeReinit /\ c.op = s.op /\ c.uncertain = s.uncertain
    BY <1>0 DEF Fields
  <2>3. \E x : Step(i, "worker", "release", ran(x)) \/ Panics(i, "worker", "release", ran(x))
    BY <1>9 DEF Finish
  <2>4. PICK x : Step(i, "worker", "release", ran(x)) \/ Panics(i, "worker", "release", ran(x))
    BY <2>3
\* The finish hook answers the one request.
  <2>5. n \in {0, s.requests}
    <3>1. s.finishes = 0 BY <1>4, <2>1
    <3>2. s.request \notin {"Idle", "Running"} BY <1>0, <1>2 DEF Ok, WorkerOk
    <3>3. s.request # "Unregistered" => s.requests = 1
      BY <1>0, <3>2 DEF Ok, RequestOk, Claimed
    <3> QED BY <3>1, <3>3
  <2> DEFINE c == ran(x)
  <2>6. /\ DOMAIN c = Fields /\ c.slot = s.slot /\ c.request = s.request
        /\ c.requests = s.requests /\ c.reason = s.reason
        /\ c.published = s.published /\ c.initial = s.initial
        /\ c.finish = s.finish /\ c.finishes = n
        /\ c.released = s.released /\ c.completion = s.completion
        /\ c.activeReinit = s.activeReinit /\ c.op = s.op /\ c.uncertain = s.uncertain
    BY <2>2
  <2>7. Step(i, "worker", "release", c) \/ Panics(i, "worker", "release", c) BY <2>4
  <2> HIDE DEF c, n
  <2>8. ~c.released /\ "release" \in Past \ {"done"} /\ p["task"] \in {"idle", "done"}
    BY <1>4, <2>1, <2>6 DEF Past
  <2> QED BY <1>5, <2>5, <2>6, <2>7, <2>8
<1>10. CASE Release(i)
  <2> DEFINE a == [s EXCEPT !.res = {}, !.released = TRUE]
             b(res) == [s EXCEPT !.res = res]
  <2>1. p["worker"] = "release" BY <1>10 DEF Release, At
  <2>2. ~s.released /\ "observe" \in Past \ {"done"} /\ p["task"] \in {"idle", "done"}
    BY <1>4, <2>1 DEF Past
  <2>3. CASE Step(i, "worker", "observe", s) BY <1>0, <1>4, <1>5, <2>1, <2>2, <2>3
  <2>4. CASE Step(i, "worker", "observe", a)
    <3>1. /\ DOMAIN a = Fields /\ a.slot = s.slot /\ a.request = s.request
          /\ a.requests = s.requests /\ a.reason = s.reason
          /\ a.published = s.published /\ a.initial = s.initial
          /\ a.finish = s.finish /\ a.finishes = s.finishes /\ a.res = {}
          /\ a.completion = s.completion
          /\ a.activeReinit = s.activeReinit /\ a.op = s.op /\ a.uncertain = s.uncertain
      BY <1>0 DEF Fields
    <3> HIDE DEF a
    <3> QED BY <1>4, <1>5, <2>1, <2>2, <2>4, <3>1
  <2>5. ASSUME NEW res, Step(i, "worker", "observe", b(res))
                        \/ Panics(i, "worker", "observe", b(res))
        PROVE  TerminalInv'
    <3> DEFINE c == b(res)
    <3>1. /\ DOMAIN c = Fields /\ c.slot = s.slot /\ c.request = s.request
          /\ c.requests = s.requests /\ c.reason = s.reason
          /\ c.published = s.published /\ c.initial = s.initial
          /\ c.finish = s.finish /\ c.finishes = s.finishes
          /\ c.completion = s.completion /\ c.released = s.released
          /\ c.activeReinit = s.activeReinit /\ c.op = s.op /\ c.uncertain = s.uncertain
      BY <1>0 DEF Fields
    <3>2. Step(i, "worker", "observe", c) \/ Panics(i, "worker", "observe", c) BY <2>5
    <3> HIDE DEF c
    <3> QED BY <1>4, <1>5, <2>1, <2>2, <3>1, <3>2
  <2>6. \/ Step(i, "worker", "observe", s) \/ Step(i, "worker", "observe", a)
        \/ Step(i, "worker", "observe", b({"connection"}))
        \/ Panics(i, "worker", "observe", b({}))
    BY <1>10 DEF Release
  <2> HIDE DEF a, b
  <2> QED BY <2>3, <2>4, <2>5, <2>6
<1>11. CASE FinalObserve(i)
  <2>1. p["worker"] = "observe" /\ ObserveHost(i, "worker", "check")
    BY <1>11 DEF FinalObserve, At
  <2>2. "check" \in Past \ {"done"} /\ p["task"] \in {"idle", "done"}
    BY <1>4, <2>1 DEF Past
  <2>3. Ok(s, P("check"), g)
    <3> HIDE DEF s, p, g, P
    <3> QED BY <1>0, <1>2, <1>4, <2>1, <2>2, PastOk DEF P
  <2> QED BY <1>1, <1>3, <2>1, <2>3, ObserveHostKeeps
<1>12. CASE FinalCheck(i)
  <2>1. PICK q \in {"doubtful", "clean"} :
            p["worker"] = "check" /\ Step(i, "worker", q, s) /\ (q = "clean" => s.released)
    BY <1>12 DEF FinalCheck, At
  <2>2. q \in Past \ {"done"} /\ p["task"] \in {"idle", "done"}
    BY <1>4, <2>1 DEF Past
  <2> QED BY <1>0, <1>4, <1>5, <2>1, <2>2
<1> QED BY <1>6, <1>7, <1>8, <1>9, <1>10, <1>11, <1>12 DEF Ending

\* The worker leaves its loop only when nobody else is about.
LEMMA WorkerFinishesKeeps ==
    ASSUME TerminalInv, NEW i \in Instances, WorkerFinishes(i)
    PROVE  TerminalInv'
<1> DEFINE s == st[i]
           p == pc[i]
           g == sig[i]
           c == [s EXCEPT !.finish = "Running"]
           p2 == [p EXCEPT !["worker"] = "settle"]
<1>0. Ok(s, p, g) /\ DOMAIN s = Fields BY OfInstance
<1>1. p["worker"] = "loop" /\ Step(i, "worker", "settle", c)
  BY <1>0 DEF WorkerFinishes, At
<1>2. s.published /\ ~s.activeReinit /\ s.request \notin {"Idle", "Running"}
  BY DEF WorkerFinishes, MayFinish
<1>3. "worker" \in Threads \ {"entry"} BY DEF Threads
<1>4. s.slot # "none" /\ p["entry"] \notin Early BY <1>0, <1>1, <1>3, UnderWay DEF Over
<1>5. /\ DOMAIN c = Fields /\ c.slot = s.slot /\ c.request = s.request
      /\ c.requests = s.requests /\ c.reason = s.reason /\ c.published = s.published
      /\ c.initial = s.initial /\ c.finish = "Running" /\ c.finishes = s.finishes
      /\ c.released = s.released /\ c.completion = s.completion /\ c.res = s.res
      /\ c.activeReinit = s.activeReinit /\ c.op = s.op /\ c.uncertain = s.uncertain
  BY <1>0 DEF Fields
<1>6. /\ p2["worker"] = "settle" /\ p2["task"] = p["task"] /\ p2["stop"] = p["stop"]
      /\ p2["reinit"] = p["reinit"]
  BY <1>0 DEF Ok, TypeOk, Threads
<1> HIDE DEF c, p2
<1>7. WorkerOk(c, p2) BY <1>0, <1>1, <1>2, <1>5, <1>6 DEF Ok, WorkerOk, Loop, Past
<1>8. EndOk(c, p2) BY <1>0, <1>1, <1>5, <1>6 DEF Ok, EndOk
<1>9. Ok(c, p2, g)
  <2> HIDE DEF s, p, g
  <2> QED BY <1>0, <1>3, <1>4, <1>5, <1>7, <1>8, MoveOk DEF p2
<1> QED BY <1>1, <1>3, <1>5, <1>9, StepKeeps DEF p2

\* The completion: what it says is so, and only a physical stop gives the
\* anchor up.
LEMMA CompleteKeeps ==
    ASSUME TerminalInv, NEW i \in Instances, Complete(i)
    PROVE  TerminalInv'
<1> DEFINE s == st[i]
           p == pc[i]
           g == sig[i]
           d == IF p["worker"] = "doubtful" THEN Doubt(s) ELSE s
           c == [d EXCEPT !.finish = "Complete", !.completion = Completion(i),
                          !.completed = "none", !.disposalFailed = FALSE,
                          !.released = FALSE]
           p2 == [p EXCEPT !["worker"] = "done"]
<1>0. /\ Ok(s, p, g) /\ DOMAIN s = Fields /\ st = [j \in Instances |-> st[j]]
      /\ sig = [j \in Instances |-> sig[j]]
  BY OfInstance
<1>1. p["worker"] \in {"doubtful", "clean"} BY DEF Complete, At
<1>2. /\ st' = [st EXCEPT ![i] = c] /\ pc' = [pc EXCEPT ![i] = p2]
      /\ sig' = [sig EXCEPT ![i] = g]
  BY <1>0 DEF Complete, Set, Goto
<1>3. "worker" \in Threads \ {"entry"} BY DEF Threads
<1>4. s.slot # "none" /\ p["entry"] \notin Early BY <1>0, <1>1, <1>3, UnderWay DEF Over
<1>5. /\ DOMAIN d = Fields /\ d.slot = s.slot /\ d.request = s.request
      /\ d.requests = s.requests /\ d.reason = s.reason /\ d.published = s.published
      /\ d.initial = s.initial /\ d.finishes = s.finishes /\ d.res = s.res
      /\ d.activeReinit = s.activeReinit /\ d.op = s.op
      /\ p["worker"] = "clean" => d.uncertain = s.uncertain
  <2>1. CASE p["worker"] = "doubtful" BY <1>0, <2>1 DEF Doubt, Fields
  <2>2. CASE p["worker"] # "doubtful" BY <1>0, <2>2
  <2> QED BY <2>1, <2>2
<1> HIDE DEF d
<1>6. /\ DOMAIN c = Fields /\ c.slot = s.slot /\ c.request = s.request
      /\ c.requests = s.requests /\ c.reason = s.reason /\ c.published = s.published
      /\ c.initial = s.initial /\ c.finish = "Complete" /\ c.finishes = s.finishes
      /\ ~c.released /\ c.completion = Completion(i) /\ c.res = s.res
      /\ c.activeReinit = s.activeReinit /\ c.op = s.op /\ c.uncertain = d.uncertain
  BY <1>5 DEF Fields
<1>7. Completion(i) = "PhysicallyStopped" =>
          p["worker"] = "clean" /\ ~s.uncertain /\ s.res = {}
  BY <1>0, <1>1 DEF Completion, Ok, EndOk
<1>8. p["stop"] \notin {"check", "OK"} BY <1>0, <1>1 DEF Ok, EndOk
<1>9. /\ p2["worker"] = "done" /\ p2["task"] = p["task"] /\ p2["stop"] = p["stop"]
      /\ p2["reinit"] = p["reinit"]
  BY <1>0 DEF Ok, TypeOk, Threads
<1> HIDE DEF c, p2
<1>10. WorkerOk(c, p2) BY <1>0, <1>1, <1>6, <1>9 DEF Ok, WorkerOk, Loop, Past
<1>11. EndOk(c, p2) BY <1>0, <1>5, <1>6, <1>7, <1>8, <1>9 DEF Ok, EndOk
<1>12. Ok(c, p2, g)
  <2> HIDE DEF s, p, g
  <2> QED BY <1>0, <1>3, <1>4, <1>6, <1>10, <1>11, MoveOk DEF p2
<1>13. st'[i] = c BY <1>0, <1>2
<1>14. CASE Completion(i) = "PhysicallyStopped"
  <2>1. slots' = [slots EXCEPT ![s.slot].anchor = None] BY <1>14 DEF Complete
  <2>2. s.slot \in Slots BY <1>0, <1>4 DEF Ok, TypeOk
  <2>3. /\ DOMAIN slots' = Slots
        /\ \A j \in Slots : DOMAIN slots'[j] = {"reserved", "anchor"}
        /\ slots'[s.slot].reserved = slots[s.slot].reserved
        /\ slots'[s.slot].anchor = None
        /\ \A j \in Slots \ {s.slot} : slots'[j] = slots[j]
    BY <2>1, <2>2 DEF TerminalInv, TerminalType
  <2>4. slots[s.slot].reserved BY <1>4 DEF TerminalInv, SlotOk
  <2>5. SlotOk(i)' BY <1>5, <1>6, <1>7, <1>13, <1>14, <2>3, <2>4 DEF SlotOk
  <2>6. ASSUME NEW j \in Instances \ {i}, st[j].slot # "none"
        PROVE  st[j].slot # c.slot /\ slots'[st[j].slot] = slots[st[j].slot]
    <3>1. st[j].slot # s.slot BY <1>4, SlotIsOwn
    <3>2. st[j].slot \in Slots BY <2>6 DEF TerminalInv, Ok, TypeOk
    <3> QED BY <1>6, <2>3, <3>1, <3>2
  <2> QED BY <1>2, <1>12, <2>3, <2>5, <2>6, Lift
<1>15. CASE Completion(i) # "PhysicallyStopped" /\ p["worker"] = "doubtful"
  <2>1. slots' = Anchored(i) BY <1>15 DEF Complete
  <2> QED BY <1>2, <1>4, <1>6, <1>12, <2>1, DoubtedKeeps
<1>16. CASE Completion(i) # "PhysicallyStopped" /\ p["worker"] # "doubtful"
  <2>1. slots' = slots BY <1>16 DEF Complete
  <2>2. c.uncertain = s.uncertain BY <1>1, <1>5, <1>6, <1>16
  <2> QED BY <1>2, <1>6, <1>12, <2>1, <2>2, QuietKeeps
<1> QED BY <1>14, <1>15, <1>16

\* Every step of the worker.
LEMMA WorkingKeeps ==
    ASSUME TerminalInv, NEW i \in Instances, Working(i)
    PROVE  TerminalInv'
BY InLoopKeeps, EndingKeeps, WorkerFinishesKeeps, CompleteKeeps
   DEF Working, InLoop, Ending

-----------------------------------------------------------------------------
(* The module, the host and the slot table.                                *)

\* request_fault, or a panic in a handler: somebody holds the module still.
LEMMA ModuleFaultsKeeps ==
    ASSUME TerminalInv, NEW i \in Instances, ModuleFaults(i)
    PROVE  TerminalInv'
<1> DEFINE s == st[i]
           p == pc[i]
           g == sig[i]
           P == [p EXCEPT !["module"] = "over"]
<1>0. Ok(s, p, g) /\ DOMAIN s = Fields /\ DOMAIN p = Threads BY OfInstance
<1>1. "module" \in Threads /\ "entry" \in Threads BY DEF Threads
<1>2. g["module"] = "none" BY DEF ModuleFaults, At
<1>3. s.res # {} \/ p["entry"] = "factory" BY DEF ModuleFaults
<1>4. s.slot # "none"
  BY <1>0, <1>1, <1>3 DEF Ok, GoneOk, Over
<1>5. p["entry"] \notin Early BY <1>0, <1>3 DEF Ok, EntryOk, Early
<1>6. s.completion # "PhysicallyStopped"
  BY <1>0, <1>3 DEF Ok, EndOk, WorkerOk, EntryOk, Past
<1>7. Ok(s, P, g)
  <2> HIDE DEF s, p, g
  <2> QED BY <1>0, <1>4, <1>5, CallOk
<1>8. P["entry"] \notin Early BY <1>0, <1>5 DEF Threads
<1>9. CASE Signal(i, "module", "over", [s EXCEPT !.faults = @ + 1], "Fault")
  <2> DEFINE c == [s EXCEPT !.faults = s.faults + 1]
  <2>1. Signal(i, "module", "over", c, "Fault") BY <1>9
  <2>2. Ok(c, P, g) /\ c.slot = s.slot /\ c.uncertain = s.uncertain
    <3> HIDE DEF P, s
    <3> QED BY <1>7, FaultsOk
  <2> HIDE DEF c
  <2> QED BY <1>1, <1>2, <1>4, <1>8, <2>1, <2>2, SignalKeeps
<1>10. CASE Panics(i, "module", "over", s)
  BY <1>1, <1>2, <1>4, <1>6, <1>7, <1>8, <1>10, PanicsKeep
<1> QED BY <1>9, <1>10 DEF ModuleFaults

\* The host publishes a stop or a fault.
LEMMA HostEndsKeeps ==
    ASSUME TerminalInv, NEW i \in Instances, HostEnds(i)
    PROVE  TerminalInv'
<1> DEFINE s == st[i]
           c == [s EXCEPT !.faults = s.faults + 1]
<1>0. /\ Ok(s, pc[i], sig[i]) /\ pc = [j \in Instances |-> pc[j]]
      /\ sig = [j \in Instances |-> sig[j]]
  BY OfInstance
<1>1. /\ st' = [st EXCEPT ![i] = c] /\ pc' = [pc EXCEPT ![i] = pc[i]]
      /\ sig' = [sig EXCEPT ![i] = sig[i]] /\ slots' = slots
  BY <1>0 DEF HostEnds, Set
<1>2. Ok(c, pc[i], sig[i]) /\ c.slot = s.slot /\ c.uncertain = s.uncertain
  BY <1>0, FaultsOk
<1> HIDE DEF c
<1> QED BY <1>1, <1>2, QuietKeeps

\* SlotLease::drop: the slot is given up by an instance nothing is left of.
LEMMA DropLeaseKeeps ==
    ASSUME TerminalInv, NEW i \in Instances, DropLease(i)
    PROVE  TerminalInv'
<1> DEFINE s == st[i]
           p == pc[i]
           g == sig[i]
           c == [s EXCEPT !.slot = "none"]
<1>0. /\ Ok(s, p, g) /\ DOMAIN s = Fields /\ st = [j \in Instances |-> st[j]]
      /\ pc = [j \in Instances |-> pc[j]] /\ sig = [j \in Instances |-> sig[j]]
  BY OfInstance
<1>1. /\ st' = [st EXCEPT ![i] = c] /\ pc' = [pc EXCEPT ![i] = p]
      /\ sig' = [sig EXCEPT ![i] = g]
      /\ slots' = [slots EXCEPT ![s.slot].reserved = FALSE]
  BY <1>0 DEF DropLease, Set
<1>2. /\ s.slot # "none" /\ slots[s.slot].anchor # i /\ s.res = {}
      /\ \A t \in Threads : g[t] = "none" /\ p[t] \in Over
  BY DEF DropLease, Referenced
<1>3. ~s.uncertain BY <1>2 DEF TerminalInv, SlotOk
<1>4. /\ DOMAIN c = Fields /\ c.slot = "none" /\ c.request = s.request
      /\ c.requests = s.requests /\ c.reason = s.reason /\ c.published = s.published
      /\ c.initial = s.initial /\ c.finish = s.finish /\ c.finishes = s.finishes
      /\ c.released = s.released /\ c.completion = s.completion /\ c.res = s.res
      /\ c.activeReinit = s.activeReinit /\ c.op = s.op /\ c.uncertain = s.uncertain
  BY <1>0 DEF Fields
<1> HIDE DEF c
<1>5. TypeOk(c, p, g) BY <1>0, <1>4 DEF Ok, TypeOk
<1>6. EntryOk(c, p, g) BY <1>0, <1>4 DEF Ok, EntryOk
<1>7. RequestOk(c, g) BY <1>0, <1>4 DEF Ok, RequestOk
<1>8. WorkerOk(c, p) BY <1>0, <1>4 DEF Ok, WorkerOk
<1>9. EndOk(c, p) BY <1>0, <1>4 DEF Ok, EndOk
<1>10. GoneOk(c, p, g) BY <1>2, <1>3, <1>4 DEF GoneOk
<1>11. Ok(c, p, g) BY <1>5, <1>6, <1>7, <1>8, <1>9, <1>10 DEF Ok
<1>12. st'[i] = c BY <1>0, <1>1
<1>13. SlotOk(i)' BY <1>3, <1>4, <1>12 DEF SlotOk
<1>14. s.slot \in Slots BY <1>0, <1>2 DEF Ok, TypeOk
<1>15. /\ DOMAIN slots' = Slots
       /\ \A j \in Slots : DOMAIN slots'[j] = {"reserved", "anchor"}
       /\ \A j \in Slots \ {s.slot} : slots'[j] = slots[j]
  BY <1>1, <1>14 DEF TerminalInv, TerminalType
<1>16. ASSUME NEW j \in Instances \ {i}, st[j].slot # "none"
       PROVE  st[j].slot # c.slot /\ slots'[st[j].slot] = slots[st[j].slot]
  <2>1. st[j].slot # s.slot BY <1>2, SlotIsOwn
  <2>2. st[j].slot \in Slots BY <1>16 DEF TerminalInv, Ok, TypeOk
  <2> QED BY <1>4, <1>15, <1>16, <2>1, <2>2
<1> QED BY <1>1, <1>11, <1>13, <1>15, <1>16, Lift

-----------------------------------------------------------------------------
(* Every step, and what follows.                                           *)

\* Init establishes the invariant: no module has been started.
LEMMA InitInv == ASSUME Init PROVE TerminalInv
<1>1. TerminalType BY DEF Init, TerminalType
<1>2. ASSUME NEW i \in Instances PROVE Ok(st[i], pc[i], sig[i])
  <2> DEFINE p == [t \in Threads |-> "idle"]
             g == [t \in Threads |-> "none"]
  <2>1. st[i] = Fresh /\ pc[i] = p /\ sig[i] = g BY <1>2 DEF Init
  <2>2. TypeOk(Fresh, p, g) BY DEF TypeOk, Fresh, Fields
  <2>3. EntryOk(Fresh, p, g) BY DEF EntryOk, Fresh, Early, Threads
  <2>4. RequestOk(Fresh, g) BY DEF RequestOk, Fresh, Claimed
  <2>5. WorkerOk(Fresh, p) BY DEF WorkerOk, Fresh, Loop, Past, Threads
  <2>6. EndOk(Fresh, p) BY DEF EndOk, Fresh, Threads
  <2>7. GoneOk(Fresh, p, g) BY DEF GoneOk, Fresh, Over
  <2> QED BY <2>1, <2>2, <2>3, <2>4, <2>5, <2>6, <2>7 DEF Ok
<1>3. \A i \in Instances : st[i].slot = "none" /\ ~st[i].uncertain BY DEF Init, Fresh
<1>4. \A i \in Instances : SlotOk(i) BY <1>3 DEF SlotOk
<1> QED BY <1>1, <1>2, <1>3, <1>4 DEF TerminalInv

\* A step that changes nothing keeps it.
LEMMA StutterKeeps == ASSUME TerminalInv, UNCHANGED vars PROVE TerminalInv'
BY DEF TerminalInv, TerminalType, SlotOk, vars, Ok, TypeOk, EntryOk, RequestOk, WorkerOk,
       EndOk, GoneOk

\* Every step of the module, its callers and the host keeps it.
LEMMA StepInv == ASSUME TerminalInv, [Next]_vars PROVE TerminalInv'
<1>1. ASSUME NEW i \in Instances,
             \/ Signalling(i) \/ Starting(i) \/ SettingUp(i) \/ Calling(i)
             \/ Reconfiguring(i) \/ Working(i)
             \/ ModuleFaults(i) \/ HostEnds(i) \/ DropLease(i)
      PROVE  TerminalInv'
  BY <1>1, SignallingKeeps, StartingKeeps, SettingUpKeeps, CallingKeeps,
     ReconfiguringKeeps, WorkingKeeps, ModuleFaultsKeeps, HostEndsKeeps, DropLeaseKeeps
<1> QED BY <1>1, StutterKeeps DEF Next

\* The invariant holds in every state: no two instances share a slot of the
\* admission table, the request hook is claimed once, and a completion says what
\* the worker (run_finish) found.
THEOREM TerminalInvTheorem == Spec => []TerminalInv
<1>1. Init => TerminalInv BY InitInv
<1>2. TerminalInv /\ [Next]_vars => TerminalInv' BY StepInv
<1> QED BY <1>1, <1>2, PTL DEF Spec

\* The module's request and finish hooks each run at most once, finish never
\* before the request it answers, and finish runs alone: no request hook, no
\* reconfiguration, and from disposal on no setup task (FinishAlone, HooksOnce).
THEOREM HooksTheorem == Spec => []HooksAlone
<1>1. ASSUME TerminalInv PROVE HooksAlone
  <2>1. ASSUME NEW i \in Instances, st[i].finish = "Running"
        PROVE  /\ \A t \in Threads : sig[i][t] # "hook"
               /\ ~st[i].activeReinit
               /\ pc[i]["worker"] \in {"dispose", "finish", "release", "observe"} =>
                      pc[i]["task"] \in {"idle", "done"}
    <3>1. Ok(st[i], pc[i], sig[i]) BY <1>1, OfInstance
    <3>2. pc[i]["worker"] \in Past BY <2>1, <3>1 DEF Ok, WorkerOk
    <3> QED BY <3>1, <3>2 DEF Ok, WorkerOk, RequestOk, Past
  <2>2. ASSUME NEW i \in Instances
        PROVE  st[i].requests <= 1 /\ st[i].finishes <= st[i].requests
    <3>1. Ok(st[i], pc[i], sig[i]) BY <1>1, OfInstance
    <3>2. st[i].requests \in {0, 1} BY <3>1 DEF Ok, RequestOk
    <3>3. st[i].finishes \in {0, st[i].requests} BY <3>1 DEF Ok, WorkerOk
    <3> QED BY <3>2, <3>3
  <2>3. FinishAlone BY <2>1 DEF FinishAlone
  <2>4. HooksOnce BY <2>2 DEF HooksOnce
  <2> QED BY <2>3, <2>4 DEF HooksAlone
<1> QED BY <1>1, TerminalInvTheorem, PTL

\* A shutdown call that returned OK told the truth, and an instance whose end
\* is uncertain stays anchored and is never reported as physically stopped
\* (OkIsPhysical, UncertainKept).
THEOREM EndTheorem == Spec => []EndIsTrue
<1>1. ASSUME TerminalInv PROVE EndIsTrue
  <2>1. ASSUME NEW i \in Instances, pc[i]["stop"] = "OK"
        PROVE  st[i].completion = "PhysicallyStopped" /\ st[i].res = {} /\ ~st[i].uncertain
    <3>1. Ok(st[i], pc[i], sig[i]) BY <1>1, OfInstance
    <3> QED BY <2>1, <3>1 DEF Ok, EndOk
  <2>2. ASSUME NEW i \in Instances, st[i].uncertain
        PROVE  Lookup(i) /\ st[i].completion # "PhysicallyStopped"
    <3>1. Ok(st[i], pc[i], sig[i]) BY <1>1, OfInstance
    <3>2. Lookup(i) BY <1>1, <2>2 DEF TerminalInv, SlotOk, Lookup
    <3> QED BY <2>2, <3>1, <3>2 DEF Ok, EndOk
  <2>3. OkIsPhysical BY <2>1 DEF OkIsPhysical
  <2>4. UncertainKept BY <2>2 DEF UncertainKept
  <2> QED BY <2>3, <2>4 DEF EndIsTrue
<1> QED BY <1>1, TerminalInvTheorem, PTL
=================================================================================
