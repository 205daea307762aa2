-------------------------- MODULE ConnectionProofs --------------------------
(***************************************************************************)
(* Theorems about a peer's end of its link, for any number of callers,     *)
(* messages, answers and capacities: a call is answered only by whom it    *)
(* was captured for, and who waits is listed as long as something can      *)
(* still come.  All follow from one inductive invariant, LinkInv.          *)
(***************************************************************************)
EXTENDS Connection, TLAPS

Waiting == {"enqueue", "await", "reclaim"}

(* What a caller may send, once its target is resolved, and what the outbox *)
(* may hold. *)
Carried == Outgoing \cup StreamCalls

Pinnings ==
    {[p[1] EXCEPT !.expected_responder = p[2].body] :
        p \in {q \in Carried \X Answers : OwnerAgrees(q[1], q[2].body)}}

Sendable ==
    Carried \cup Pinnings
        \cup {ResolveCallTarget(m) : m \in {o \in Carried : ~IsUnique(o.destination)}}

Numbered(S) == {[m EXCEPT !.serial = n] : m \in S, n \in 1..MaxSerial}

Replies ==
    {MethodReturn(m, TRUE) : m \in Inbound} \cup {ErrorReply(m, "error") : m \in Inbound}

Outbound == Numbered(Sendable \cup Published) \cup Replies

(* The answer a call is entitled to. *)
Right(m, a) ==
    /\ a.brokered =>
         a.sender \in CASE m.destination = BUS     -> {None, BUS}
                        [] IsUnique(m.destination) -> {m.destination}
                        [] OTHER                   -> {m.expected_responder}
    /\ m.confidential => a.confidential

CallerFields == {"pc", "msg", "goal", "pinned", "serial", "slot", "listens",
                 "heard", "owed", "last"}

IsCaller(r) ==
    /\ DOMAIN r = CallerFields
    /\ r.pc \in {"idle", "register"} \cup Waiting
    /\ r.serial \in Nat /\ r.heard \in Nat /\ r.owed \in Nat
    /\ r.pinned \in BOOLEAN /\ r.listens \in BOOLEAN
    /\ r.slot \in Answers \cup {None, Dropped, Refusal}
    /\ r.goal \in Carried \cup {None}

(* A subscription hears what it is owed. *)
Listens(r) ==
    /\ r.goal # None => r.goal.destination # BUS
    /\ r.pc # "idle" /\ IsAddMatch(r.msg) => r.listens
    /\ r.owed <= r.heard

Answered(r) ==
    r.last # None =>
        /\ Right(r.last.msg, r.last.slot) /\ r.last.slot \in Answers
        /\ r.last.owed <= r.last.heard

Listed(c) == caller[c].serial \in DOMAIN pending

(* One caller: what it carries, whether it is listed, what its entry lets    *)
(* in, what it was answered, and what it hears. *)
CallerOk(c) ==
    /\ IsCaller(caller[c])
    /\ caller[c].pc \notin Waiting => caller[c].serial = 0 /\ caller[c].slot = None
    /\ caller[c].pc \in Waiting =>
         caller[c].serial \in 1..(serial - 1) /\ caller[c].msg \in Outbound
    /\ caller[c].pc = "register" => caller[c].msg \in Sendable
    /\ caller[c].pc \in {"await", "reclaim"} => IsCall(caller[c].msg)
    /\ caller[c].pc \in Waiting /\ Listed(c) =>
         /\ IsCall(caller[c].msg) /\ caller[c].slot = None
         /\ \A a \in Answers :
              Accepts(pending[caller[c].serial], a) /\ a.type # "error" =>
                Right(caller[c].msg, a)
    /\ caller[c].pc \in {"enqueue", "await"} /\ IsCall(caller[c].msg) /\ ~Listed(c) =>
         caller[c].slot # None
    /\ caller[c].slot # None /\ caller[c].slot.type = "method_return" =>
         Right(caller[c].msg, caller[c].slot)
    /\ Listens(caller[c]) /\ Answered(caller[c])

SerialsApart ==
    \A c, d \in Tasks :
        c # d /\ caller[c].serial = caller[d].serial => caller[c].serial = 0

Jobs ==
    [pc : {"running", "opening", "sending", "handed", "writing", "closing", "over"},
     call : Inbound, reply : {None, "return", "error"}, peer : Destinations \cup {None},
     replies : Seq({"return", "error"}), broken : BOOLEAN]

(* A handler: what it has replied so far, w being the state of the writer.   *)
JobOk(q, w) ==
    /\ q.pc \in {"running", "opening"} => q.replies = <<>>
    /\ q.pc = "opening" => q.call.stream_reply
    /\ q.pc = "sending" =>
         \/ /\ q.reply = "return" /\ q.replies = <<>>
            /\ q.call.stream_reply => q.peer \in Destinations
         \/ q.reply = "error" /\ q.replies = <<>>
         \/ q.reply = "error" /\ q.replies = <<"return">> /\ q.call.stream_reply /\ q.broken
    /\ q.pc \in {"handed", "writing", "closing"} =>
         q.replies = <<"return">> /\ q.call.stream_reply /\ q.peer \in Destinations
    /\ q.pc = "over" =>
         \/ q.replies = <<>> /\ w = "ended"
         \/ q.replies \in {<<"return">>, <<"error">>}
         \/ q.replies = <<"return", "error">> /\ q.call.stream_reply /\ q.broken

JobsOk == \A j \in DOMAIN jobs : JobOk(jobs[j], writing)

(* What a task's call, or the last one it made, is for. *)
Aim(r) == IF r.goal # None THEN r.goal ELSE r.msg

Opens(r, to) ==
    IF r.pc = "idle"
    THEN r.last # None => r.last.msg.member = "Open" /\ r.last.msg.destination = to
    ELSE Aim(r).member = "Open" /\ Aim(r).destination = to

(* A handler and the call it makes: the handle it sends is that of a stream  *)
(* its caller accepted. *)
HandlerAt(q, r) ==
    /\ q.pc = "running" => r.pc = "idle"
    /\ q.pc = "opening" => Opens(r, ReplyTo(q.call))
    /\ q.pc = "sending" /\ q.reply = "return" /\ q.call.stream_reply =>
         /\ r.pc = "idle" /\ r.last # None /\ Opens(r, ReplyTo(q.call))
         /\ IsUnique(ReplyTo(q.call)) /\ r.last.slot.brokered => q.peer = ReplyTo(q.call)

HandlersOk ==
    \A j \in Handlers : IF j \in DOMAIN jobs THEN HandlerAt(jobs[j], caller[j])
                        ELSE caller[j].pc = "idle"

LinkTypes ==
    /\ DOMAIN caller = Tasks
    /\ serial \in Nat \ {0}
    /\ DOMAIN pending \subseteq 1..(serial - 1)
    /\ outbox \in Seq(Outbound)
    /\ writing \in {"running", "ended"}
    /\ jobs \in Seq(Jobs)
    /\ Len(jobs) <= MaxInbound

LinkInv ==
    /\ LinkTypes
    /\ \A c \in Tasks : CallerOk(c)
    /\ SerialsApart
    /\ NoSlotLeaked
    /\ JobsOk

-----------------------------------------------------------------------------
(* Messages.                                                               *)

(* What a task may be asked to send is a header without a serial. *)
LEMMA CarriedShape ==
    ASSUME NEW o \in Carried
    PROVE  o.serial = 0 /\ o = [f \in DOMAIN BlankHeader |-> o[f]]
  <1>1. CASE o \in Outgoing
    BY <1>1, MessagesAssumption
  <1>2. CASE o \in StreamCalls
    <2>1. PICK p \in Destinations, k \in {"Open", "Write", "Close", "Abort"} :
                 o = StreamCall(p, k)
      BY <1>2 DEF StreamCalls
    <2>2. QED
      BY <2>1 DEF StreamCall, MethodCall, BlankHeader
  <1>3. QED
    BY <1>1, <1>2 DEF Carried

(* A call in the outbox keeps the responder its caller asked for. *)
LEMMA OutboundCaptured ==
    ASSUME NEW m \in Outbound, IsCall(m), m.destination \in WellKnown
    PROVE  \E o \in Carried :
             /\ [m EXCEPT !.serial = 0, !.expected_responder = o.expected_responder] = o
             /\ o.expected_responder \in {None, m.expected_responder}
  <1> DEFINE F == DOMAIN BlankHeader
  <1>f. F = {"type", "serial", "reply_serial", "sender", "expected_responder", "destination",
             "path", "interface", "member", "error_name", "confidential", "sensitive",
             "stream_reply", "body"}
    BY DEF BlankHeader
  <1>1. ASSUME NEW o \in Carried, NEW x, DOMAIN x = F, x = [f \in F |-> x[f]],
               \A f \in F \ {"serial", "expected_responder"} : x[f] = o[f]
        PROVE  /\ [x EXCEPT !.serial = 0, !.expected_responder = o.expected_responder] = o
               /\ x.destination = o.destination /\ x.type = o.type
    <2> DEFINE y == [x EXCEPT !.serial = 0, !.expected_responder = o.expected_responder]
    <2>1. o.serial = 0 /\ o = [f \in F |-> o[f]]
      BY CarriedShape
    <2>2. y = [f \in F |-> y[f]] /\ \A f \in F : y[f] = o[f]
      BY <1>1, <1>f, <2>1
    <2>3. y = o
      BY <2>1, <2>2
    <2>4. QED
      BY <1>1, <1>f, <2>3
  <1>2. ASSUME NEW c PROVE ~IsCall(MethodReturn(c, TRUE)) /\ ~IsCall(ErrorReply(c, "error"))
    BY DEF IsCall, MethodReturn, ErrorReply, BlankHeader
  <1>3. m \in Numbered(Sendable \cup Published)
    BY <1>2 DEF Outbound, Replies
  <1>4. PICK p \in Sendable \cup Published, n \in 1..MaxSerial : m = [p EXCEPT !.serial = n]
    BY <1>3 DEF Numbered
  <1>5. CASE p \in Carried
    <2>1. p = [f \in F |-> p[f]]
      BY <1>5, CarriedShape
    <2>2. /\ DOMAIN m = F /\ m = [f \in F |-> m[f]]
          /\ \A f \in F \ {"serial", "expected_responder"} : m[f] = p[f]
          /\ m.expected_responder = p.expected_responder
      BY <1>4, <1>f, <2>1
    <2>3. [m EXCEPT !.serial = 0, !.expected_responder = p.expected_responder] = p
      BY <1>1, <1>5, <2>2
    <2>4. QED
      BY <1>5, <2>2, <2>3
  <1>6. CASE p \in Pinnings
    <2>1. PICK o \in Carried, a \in Answers :
            p = [o EXCEPT !.expected_responder = a.body] /\ OwnerAgrees(o, a.body)
      BY <1>6 DEF Pinnings
    <2>2. o = [f \in F |-> o[f]]
      BY CarriedShape
    <2>3. /\ DOMAIN m = F /\ m = [f \in F |-> m[f]]
          /\ \A f \in F \ {"serial", "expected_responder"} : m[f] = o[f]
          /\ m.expected_responder = a.body
      BY <1>4, <1>f, <2>1, <2>2
    <2>4. [m EXCEPT !.serial = 0, !.expected_responder = o.expected_responder] = o
      BY <1>1, <2>3
    <2>5. o.expected_responder \in {None, a.body}
      BY <2>1 DEF OwnerAgrees
    <2>6. QED
      BY <2>3, <2>4, <2>5
  <1>7. CASE \E o \in Carried : p = ResolveCallTarget(o)
    <2>1. m.destination = BUS
      BY <1>4, <1>7 DEF ResolveCallTarget, MethodCall, BlankHeader
    <2>2. QED
      BY <2>1, NamesAssumption
  <1>8. CASE p \in Published /\ p \notin Sendable
    <2>1. ~IsCall(p)
      BY <1>8, MessagesAssumption
    <2>2. m.type = p.type
      BY <1>4
    <2>3. QED
      BY <2>1, <2>2 DEF IsCall
  <1>9. QED
    BY <1>4, <1>5, <1>6, <1>7, <1>8 DEF Sendable

(* Nothing sent lacks a field, and numbering it leaves the others alone. *)
LEMMA SendableShape ==
    ASSUME NEW m \in Sendable, NEW n
    PROVE  /\ DOMAIN m = DOMAIN BlankHeader
           /\ [m EXCEPT !.serial = n].member = m.member
           /\ [m EXCEPT !.serial = n].destination = m.destination
  <1>f. {"serial", "expected_responder", "destination", "member"} \subseteq DOMAIN BlankHeader
    BY DEF BlankHeader
  <1>1. DOMAIN m = DOMAIN BlankHeader
    <2>1. CASE m \in Carried
      BY <2>1, CarriedShape
    <2>2. CASE m \in Pinnings
      <3>1. PICK o \in Carried, a \in Answers : m = [o EXCEPT !.expected_responder = a.body]
        BY <2>2 DEF Pinnings
      <3>2. DOMAIN o = DOMAIN BlankHeader
        BY CarriedShape
      <3>3. QED
        BY <3>1, <3>2
    <2>3. CASE \E o \in Carried : m = ResolveCallTarget(o)
      BY <2>3 DEF ResolveCallTarget, MethodCall, BlankHeader
    <2>4. QED
      BY <2>1, <2>2, <2>3 DEF Sendable
  <1>2. QED
    BY <1>1, <1>f

(* What `accepts` lets in is what the call was captured for. *)
LEMMA CapturedRight ==
    ASSUME NEW c \in Tasks, NEW m, NEW a,
           Accepts(Pending(c, m), a), a.type # "error"
    PROVE  Right(m, a)
  <1> DEFINE p == Pending(c, m)
  <1>1. /\ p.bus_control = (m.destination = BUS) /\ p.confidential = m.confidential
        /\ p.expected = CASE m.destination = BUS -> None
                          [] IsUnique(m.destination) -> m.destination
                          [] OTHER -> IF caller[c].pinned THEN m.expected_responder ELSE None
    BY DEF Pending
  <1> HIDE DEF p
  <1>2. m.destination = BUS => ~IsUnique(m.destination)
    BY DEF IsUnique
  <1>3. m.confidential => a.confidential
    BY <1>1 DEF Accepts, p
  <1>4. CASE m.destination = BUS
    BY <1>1, <1>2, <1>3, <1>4 DEF Accepts, Right, p
  <1>5. CASE IsUnique(m.destination)
    <2>1. ~p.bus_control /\ p.expected = m.destination
      BY <1>1, <1>2, <1>5
    <2>2. CASE m.destination = None
      <3>1. ~a.brokered
        BY <2>1, <2>2 DEF Accepts, p
      <3>2. QED
        BY <1>3, <3>1 DEF Right
    <2>3. CASE m.destination # None
      <3>1. a.brokered => a.sender = m.destination
        BY <2>1, <2>3 DEF Accepts, p
      <3>2. QED
        BY <1>2, <1>3, <1>5, <3>1 DEF Right
    <2>4. QED
      BY <2>2, <2>3
  <1>6. CASE m.destination # BUS /\ ~IsUnique(m.destination)
    <2>1. ~p.bus_control /\ p.expected \in {None, m.expected_responder}
      BY <1>1, <1>6
    <2>2. a.brokered => a.sender = m.expected_responder
      BY <2>1 DEF Accepts, p
    <2>3. QED
      BY <1>3, <1>6, <2>2 DEF Right
  <1>7. QED
    BY <1>4, <1>5, <1>6


-----------------------------------------------------------------------------
(* What a step leaves of a caller.                                         *)

(* Nothing happened to the caller, and its entry stayed unless it no longer  *)
(* reads it. *)
LEMMA KeptOk ==
    ASSUME NEW c, CallerOk(c), caller'[c] = caller[c],
           serial \in Nat, serial' \in Nat, serial <= serial',
           caller[c].pc \in Waiting /\ Listed(c)' =>
             Listed(c) /\ pending'[caller[c].serial] = pending[caller[c].serial],
           caller[c].pc \in {"enqueue", "await"} /\ Listed(c) => Listed(c)'
    PROVE  CallerOk(c)'
  <1> DEFINE r == caller[c]
  <1>1. IsCaller(r) /\ r.serial \in Nat
    BY DEF CallerOk, IsCaller
  <1>2. /\ r.pc \notin Waiting => r.serial = 0 /\ r.slot = None
        /\ r.pc \in Waiting => r.serial \in 1..(serial' - 1) /\ r.msg \in Outbound
        /\ r.pc = "register" => r.msg \in Sendable
        /\ r.pc \in {"await", "reclaim"} => IsCall(r.msg)
    BY <1>1 DEF CallerOk
  <1>3. r.pc \in Waiting /\ Listed(c)' =>
          /\ IsCall(r.msg) /\ r.slot = None
          /\ \A a \in Answers :
               Accepts(pending'[r.serial], a) /\ a.type # "error" => Right(r.msg, a)
    BY DEF CallerOk
  <1>4. r.pc \in {"enqueue", "await"} /\ IsCall(r.msg) /\ ~Listed(c)' => r.slot # None
    BY DEF CallerOk
  <1>5. /\ r.slot # None /\ r.slot.type = "method_return" => Right(r.msg, r.slot)
    BY DEF CallerOk
  <1>6. Listens(r) /\ Answered(r)
    BY DEF CallerOk
  <1>7. caller'[c] = r
    OBVIOUS
  <1>8. \A p, a : Accepts(p, a)' <=> Accepts(p', a')
    OBVIOUS
  <1> HIDE DEF r
  <1>9. QED
    BY <1>1, <1>2, <1>3, <1>4, <1>5, <1>6, <1>7 DEF CallerOk

(* An answer, or the end of the link, reaches the slot of a listed caller. *)
LEMMA SlotOk ==
    ASSUME NEW c, NEW a \in Answers \cup {Dropped, Refusal}, CallerOk(c), caller[c].pc \in Waiting, Listed(c),
           ~Listed(c)', caller'[c] = [caller[c] EXCEPT !.slot = a],
           serial' = serial,
           a.type = "method_return" => Right(caller[c].msg, a)
    PROVE  CallerOk(c)'
  <1> DEFINE r == caller[c]
             q == caller'[c]
  <1>1. IsCaller(r) /\ a # None
    BY MessagesAssumption DEF CallerOk
  <1>2. /\ DOMAIN q = CallerFields /\ q.slot = a
        /\ \A f \in CallerFields \ {"slot"} : q[f] = r[f]
    BY <1>1 DEF IsCaller, CallerFields
  <1>3. /\ q.pc = r.pc /\ q.msg = r.msg /\ q.goal = r.goal /\ q.pinned = r.pinned
        /\ q.serial = r.serial /\ q.last = r.last
        /\ q.listens = r.listens /\ q.heard = r.heard /\ q.owed = r.owed
    BY <1>2 DEF CallerFields
  <1>4. IsCaller(q)
    BY <1>1, <1>2, <1>3 DEF IsCaller
  <1>5. /\ r.pc \in Waiting
        /\ r.serial \in 1..(serial - 1) /\ r.msg \in Outbound
        /\ r.pc = "register" => r.msg \in Sendable
        /\ r.pc \in {"await", "reclaim"} => IsCall(r.msg)
        /\ Listens(r) /\ Answered(r)
    BY DEF CallerOk
  <1>6. ~Listed(c)' /\ caller'[c] = q
    OBVIOUS
  <1>9. Listens(q) /\ Answered(q)
    BY <1>3, <1>5 DEF Listens, Answered
  <1> HIDE DEF r, q
  <1>7. a.type = "method_return" => Right(q.msg, a)
    BY <1>3 DEF r
  <1>8. QED
    BY <1>1, <1>2, <1>3, <1>4, <1>5, <1>6, <1>7, <1>9 DEF CallerOk

(* One caller moved on, to r: the others do not notice, no two share a      *)
(* serial, and no entry is left behind.                                    *)
LEMMA Moved ==
    ASSUME LinkInv, NEW c \in Tasks, NEW r, caller' = [caller EXCEPT ![c] = r],
           serial' \in Nat, serial <= serial',
           r.serial \in {0, caller[c].serial, serial},
           \A s \in 1..(serial - 1) \ {caller[c].serial} :
             /\ s \in DOMAIN pending' <=> s \in DOMAIN pending
             /\ s \in DOMAIN pending => pending'[s] = pending[s],
           \A s \in DOMAIN pending' :
             \/ s \in DOMAIN pending /\ s # caller[c].serial
             \/ s = r.serial /\ r.pc # "idle"
             \/ s \in abandoned',
           abandoned \subseteq abandoned'
    PROVE  /\ DOMAIN caller' = Tasks /\ caller'[c] = r
           /\ \A d \in Tasks \ {c} : CallerOk(d)'
           /\ SerialsApart'
           /\ NoSlotLeaked'
  <1>1. /\ DOMAIN caller = Tasks /\ \A d \in Tasks : CallerOk(d)
        /\ serial \in Nat \ {0}
        /\ SerialsApart /\ NoSlotLeaked
    BY DEF LinkInv, LinkTypes
  <1>2. /\ DOMAIN caller' = Tasks /\ caller'[c] = r
        /\ \A d \in Tasks \ {c} : caller'[d] = caller[d]
    BY <1>1
  <1>3. \A d \in Tasks :
          /\ IsCaller(caller[d])
          /\ caller[d].serial \in 0..(serial - 1)
          /\ caller[d].pc \in Waiting => caller[d].serial # 0
    <2> TAKE d \in Tasks
    <2>1. CallerOk(d) BY <1>1
    <2>2. QED BY <1>1, <2>1 DEF CallerOk
  <1>4. ASSUME NEW d \in Tasks \ {c} PROVE CallerOk(d)'
    <2>1. CallerOk(d) /\ caller'[d] = caller[d]
      BY <1>1, <1>2
    <2>2. caller[d].pc \in Waiting => caller[d].serial \in 1..(serial - 1) \ {caller[c].serial}
      BY <1>1, <1>3 DEF SerialsApart
    <2>3. caller[d].pc \in Waiting =>
            /\ Listed(d)' <=> Listed(d)
            /\ Listed(d) => pending'[caller[d].serial] = pending[caller[d].serial]
      BY <2>1, <2>2 DEF Listed
    <2>4. QED
      BY <1>1, <2>1, <2>3, KeptOk DEF Waiting
  <1>5. SerialsApart'
    <2> SUFFICES ASSUME NEW d \in Tasks, NEW e \in Tasks, d # e,
                        caller'[d].serial = caller'[e].serial
                 PROVE  caller'[d].serial = 0
      BY DEF SerialsApart
    <2>1. CASE d # c /\ e # c
      BY <1>1, <1>2, <2>1 DEF SerialsApart
    <2>2. CASE d = c
      <3>1. caller'[e] = caller[e] /\ caller[e].serial \in 0..(serial - 1)
        BY <1>2, <1>3, <2>2
      <3>2. r.serial = caller[c].serial => caller[e].serial = 0
        BY <1>1, <1>2, <2>2, <3>1 DEF SerialsApart
      <3>3. QED
        BY <1>1, <1>2, <2>2, <3>1, <3>2
    <2>3. CASE e = c
      <3>1. caller'[d] = caller[d] /\ caller[d].serial \in 0..(serial - 1)
        BY <1>2, <1>3, <2>3
      <3>2. r.serial = caller[c].serial => caller[d].serial = 0
        BY <1>1, <1>2, <2>3, <3>1 DEF SerialsApart
      <3>3. QED
        BY <1>1, <1>2, <2>3, <3>1, <3>2
    <2>4. QED
      BY <2>1, <2>2, <2>3
  <1>6. NoSlotLeaked'
    <2> SUFFICES ASSUME NEW s \in DOMAIN pending', s \notin abandoned'
                 PROVE  \E d \in Tasks : caller'[d].serial = s /\ caller'[d].pc # "idle"
      BY DEF NoSlotLeaked
    <2>1. CASE s = r.serial /\ r.pc # "idle"
      BY <1>2, <2>1
    <2>2. CASE s \in DOMAIN pending /\ s # caller[c].serial
      <3>1. PICK d \in Tasks : caller[d].serial = s /\ caller[d].pc # "idle"
        BY <1>1, <2>2 DEF NoSlotLeaked
      <3>2. d # c BY <2>2, <3>1
      <3>3. QED BY <1>2, <3>1, <3>2
    <2>3. QED
      BY <2>1, <2>2
  <1>7. QED
    BY <1>2, <1>4, <1>5, <1>6

(* The slot of every caller waiting for s takes the answer a. *)
LEMMA Delivered ==
    ASSUME LinkInv, NEW s \in DOMAIN pending, NEW a \in Answers \cup {Refusal},
           a.type = "method_return" => a \in Answers /\ Accepts(pending[s], a),
           Forget(s), Deliver(s, a),
           serial' = serial, abandoned' = abandoned
    PROVE  /\ DOMAIN caller' = Tasks /\ DOMAIN pending' \subseteq DOMAIN pending
           /\ \A d \in Tasks : CallerOk(d)'
           /\ SerialsApart'
           /\ NoSlotLeaked'
  <1>1. /\ DOMAIN caller = Tasks /\ \A d \in Tasks : CallerOk(d)
        /\ serial \in Nat \ {0}
        /\ SerialsApart /\ NoSlotLeaked /\ DOMAIN pending \subseteq 1..(serial - 1)
    BY DEF LinkInv, LinkTypes
  <1>2. /\ DOMAIN pending' = DOMAIN pending \ {s}
        /\ \A t \in DOMAIN pending \ {s} : pending'[t] = pending[t]
    BY DEF Forget, Restrict
  <1>3. /\ DOMAIN caller' = Tasks
        /\ \A d \in Tasks :
             caller'[d] = IF caller[d].serial = s /\ caller[d].pc \in {"enqueue", "await"}
                          THEN [caller[d] EXCEPT !.slot = a] ELSE caller[d]
    BY DEF Deliver
  <1>4. ASSUME NEW d \in Tasks
        PROVE  /\ CallerOk(d)'
               /\ caller'[d].serial = caller[d].serial /\ caller'[d].pc = caller[d].pc
    <2>1. CallerOk(d) /\ IsCaller(caller[d])
      BY <1>1 DEF CallerOk
    <2>2. CASE caller[d].serial = s /\ caller[d].pc \in {"enqueue", "await"}
      <3>1. caller'[d] = [caller[d] EXCEPT !.slot = a]
        BY <1>3, <2>2
      <3>2. caller'[d].serial = caller[d].serial /\ caller'[d].pc = caller[d].pc
        BY <2>1, <3>1 DEF IsCaller, CallerFields
      <3>3. caller[d].pc \in Waiting /\ Listed(d) /\ ~Listed(d)'
        BY <1>2, <2>2, <3>2 DEF Waiting, Listed
      <3>4. a.type = "method_return" => Right(caller[d].msg, a)
        BY <2>1, <2>2, <3>3 DEF CallerOk
      <3>5. QED
        BY <2>1, <3>1, <3>2, <3>3, <3>4, SlotOk
    <2>3. CASE ~(caller[d].serial = s /\ caller[d].pc \in {"enqueue", "await"})
      <3>1. caller'[d] = caller[d]
        BY <1>3, <2>3
      <3>2. /\ caller[d].pc \in Waiting /\ Listed(d)' =>
                 Listed(d) /\ pending'[caller[d].serial] = pending[caller[d].serial]
            /\ caller[d].pc \in {"enqueue", "await"} /\ Listed(d) => Listed(d)'
        BY <1>2, <2>3, <3>1 DEF Listed
      <3>3. QED
        BY <1>1, <2>1, <3>1, <3>2, KeptOk
    <2>4. QED
      BY <2>2, <2>3
  <1>5. SerialsApart'
    BY <1>1, <1>4 DEF SerialsApart
  <1>6. NoSlotLeaked'
    BY <1>1, <1>2, <1>4 DEF NoSlotLeaked
  <1>7. QED
    BY <1>2, <1>3, <1>4, <1>5, <1>6

-----------------------------------------------------------------------------
(* Tasks.                                                                *)

LEMMA RestingFresh ==
    /\ IsCaller(Resting) /\ Resting.pc = "idle" /\ Resting.serial = 0 /\ Resting.slot = None
    /\ Resting.heard = 0 /\ Resting.owed = 0 /\ Resting.last = None /\ Resting.goal = None
    /\ Listens(Resting) /\ Answered(Resting)
  BY DEF Listens, Answered, Resting, IsCaller, CallerFields

(* A caller that waits for nothing. *)
LEMMA FreshOk ==
    ASSUME NEW c, NEW r, caller'[c] = r, IsCaller(r), r.pc \notin Waiting,
           r.serial = 0, r.slot = None, r.pc = "register" => r.msg \in Sendable,
           Listens(r), Answered(r)
    PROVE  CallerOk(c)'
  BY DEF CallerOk, Waiting

LEMMA RestedOk ==
    ASSUME NEW c, caller'[c] = Resting
    PROVE  CallerOk(c)'
  <1>1. /\ IsCaller(Resting) /\ Resting.pc \notin Waiting
        /\ Resting.serial = 0 /\ Resting.slot = None /\ Resting.pc # "register"
        /\ Listens(Resting) /\ Answered(Resting)
    BY RestingFresh DEF Waiting
  <1>2. QED
    BY <1>1, FreshOk

(* The parts of the invariant, in the form the steps below use. *)
LEMMA Known ==
    ASSUME LinkInv, NEW c \in Tasks
    PROVE  /\ CallerOk(c) /\ IsCaller(caller[c])
           /\ serial \in Nat \ {0}
           /\ caller[c].pc \notin Waiting => caller[c].serial = 0
           /\ caller[c].pc \in Waiting => caller[c].serial \in 1..(serial - 1)
           /\ DOMAIN pending \subseteq 1..(serial - 1)
  BY DEF LinkInv, LinkTypes, CallerOk

(* What is left to show when only callers and the table changed. *)
LEMMA LinkKept ==
    ASSUME LinkInv, UNCHANGED <<outbox, writing, jobs>>,
           serial' = serial,
           DOMAIN caller' = Tasks, DOMAIN pending' \subseteq DOMAIN pending,
           \A c \in Tasks : CallerOk(c)', SerialsApart', NoSlotLeaked'
    PROVE  LinkInv'
  <1>1. LinkTypes'
    BY DEF LinkInv, LinkTypes
  <1>2. JobsOk'
    BY DEF LinkInv, JobsOk
  <1>3. QED
    BY <1>1, <1>2 DEF LinkInv

(* A task starts a call, whoever else spends serials meanwhile. *)
LEMMA Started ==
    ASSUME LinkInv, NEW c \in Tasks, NEW m \in Carried, caller[c].pc = "idle", Start(c, m),
           UNCHANGED <<pending, abandoned>>, serial' \in Nat, serial <= serial'
    PROVE  /\ DOMAIN caller' = Tasks
           /\ \A d \in Tasks : CallerOk(d)'
           /\ SerialsApart' /\ NoSlotLeaked'
           /\ \A d \in Tasks \ {c} : caller'[d] = caller[d]
           /\ caller'[c].pc = "register" /\ Aim(caller'[c]) = m
  <1> DEFINE r == [Resting EXCEPT
                  !.pc = "register",
                  !.msg = IF NeedsResolving(m) THEN ResolveCallTarget(m) ELSE m,
                  !.goal = IF NeedsResolving(m) THEN m ELSE None,
                  !.listens = IsAddMatch(m)]
  <1>1. caller' = [caller EXCEPT ![c] = r]
    BY DEF Start, Move
  <1>2. /\ IsCaller(caller[c]) /\ serial \in Nat \ {0} /\ DOMAIN caller = Tasks
        /\ caller[c].serial = 0 /\ DOMAIN pending \subseteq 1..(serial - 1)
    BY Known DEF Waiting, LinkInv, LinkTypes
  <1>3. /\ r.pc = "register" /\ r.serial = 0 /\ r.slot = None /\ r.last = None
        /\ r.heard = 0 /\ r.owed = 0 /\ r.pinned = FALSE
        /\ r.msg = IF NeedsResolving(m) THEN ResolveCallTarget(m) ELSE m
        /\ r.goal = IF NeedsResolving(m) THEN m ELSE None
        /\ r.listens = IsAddMatch(m) /\ DOMAIN r = CallerFields
    BY DEF Resting, CallerFields
  <1>4. r.msg \in Sendable
    BY <1>3 DEF Sendable, NeedsResolving
  <1>5. m # None
    BY MessagesAssumption DEF Carried
  <1> HIDE DEF r
  <1>6. IsCaller(r)
    <2>1. r.listens \in BOOLEAN
      BY <1>3 DEF IsAddMatch
    <2>2. r.goal \in Carried \cup {None}
      BY <1>3
    <2>3. r.serial \in Nat /\ r.heard \in Nat /\ r.owed \in Nat
      <3>1. r.serial = 0 /\ r.heard = 0 /\ r.owed = 0
        BY <1>3
      <3>2. QED
        BY <3>1
    <2>4. r.pinned \in BOOLEAN
      <3>1. r.pinned = FALSE
        BY <1>3
      <3>2. QED
        BY <3>1
    <2>5. QED
      BY <1>3, <2>1, <2>2, <2>3, <2>4 DEF IsCaller
  <1>7. Listens(r) /\ Answered(r) /\ Aim(r) = m
    <2>1. ~IsAddMatch(ResolveCallTarget(m))
      BY DEF IsAddMatch, ResolveCallTarget, MethodCall, BlankHeader
    <2>2. IsAddMatch(r.msg) => r.listens
      BY <1>3, <2>1
    <2>3. QED
      BY <1>3, <1>5, <2>2 DEF Listens, Answered, NeedsResolving, Aim
  <1>8. /\ DOMAIN caller' = Tasks /\ caller'[c] = r
        /\ \A d \in Tasks \ {c} : CallerOk(d)'
        /\ SerialsApart' /\ NoSlotLeaked'
    <2>1. abandoned \subseteq abandoned' /\ r.serial \in {0, caller[c].serial, serial}
      BY <1>3
    <2>2. \A s \in DOMAIN pending' : s \in DOMAIN pending /\ s # caller[c].serial
      BY <1>2
    <2>3. QED
      BY <1>1, <2>1, <2>2, Moved
  <1>9. CallerOk(c)'
    BY <1>3, <1>4, <1>6, <1>7, <1>8, FreshOk DEF Waiting
  <1>10. QED
    BY <1>1, <1>2, <1>3, <1>7, <1>8, <1>9

LEMMA BeginStep ==
    ASSUME LinkInv, NEW c \in Callers, NEW m \in Outgoing, Begin(c, m)
    PROVE  LinkInv'
  <1>1. /\ Start(c, m) /\ caller[c].pc = "idle" /\ c \in Tasks /\ m \in Carried
        /\ UNCHANGED <<serial, pending, outbox, writing, jobs, abandoned>>
    BY DEF Begin, taskVars, Tasks, Carried
  <1>2. serial' \in Nat /\ serial <= serial'
    BY <1>1, Known
  <1>3. /\ DOMAIN caller' = Tasks
        /\ \A d \in Tasks : CallerOk(d)'
        /\ SerialsApart' /\ NoSlotLeaked'
    BY <1>1, <1>2, Started
  <1>4. QED
    BY <1>1, <1>3, LinkKept

LEMMA RegisterStep ==
    ASSUME LinkInv, NEW c \in Tasks, Register(c)
    PROVE  LinkInv'
  <1> DEFINE m == [caller[c].msg EXCEPT !.serial = serial]
             x == caller[c]
             r == [caller[c] EXCEPT !.pc = "enqueue", !.msg = m, !.serial = serial]
  <1>1. /\ caller' = [caller EXCEPT ![c] = r] /\ x.pc = "register"
        /\ serial <= MaxSerial /\ serial' = serial + 1
        /\ pending' = IF IsCall(m)
                      THEN [s \in DOMAIN pending \cup {serial} |->
                              IF s = serial THEN Pending(c, m) ELSE pending[s]]
                      ELSE pending
        /\ UNCHANGED <<outbox, writing, jobs, abandoned>>
    BY DEF Register, Move, taskVars
  <1>2. /\ CallerOk(c) /\ IsCaller(x) /\ serial \in Nat \ {0}
        /\ x.serial = 0 /\ DOMAIN pending \subseteq 1..(serial - 1)
    BY <1>1, Known DEF Waiting
  <1>3. /\ x.slot = None /\ x.msg \in Sendable
        /\ Listens(x) /\ Answered(x)
    BY <1>1, <1>2 DEF CallerOk, Waiting
  <1>4. /\ r.pc = "enqueue" /\ r.msg = m /\ r.serial = serial /\ r.slot = None
        /\ r.goal = x.goal /\ r.pinned = x.pinned
        /\ r.listens = x.listens /\ r.heard = x.heard /\ r.owed = x.owed
        /\ r.last = x.last /\ DOMAIN r = CallerFields
    BY <1>2, <1>3 DEF IsCaller, CallerFields
  <1>5. IsCaller(r)
    BY <1>2, <1>4 DEF IsCaller, Waiting
  <1>13. Listens(r) /\ Answered(r)
    <2>1. m.member = x.msg.member /\ m.destination = x.msg.destination
      BY <1>3, SendableShape
    <2>2. QED
      BY <1>1, <1>3, <1>4, <2>1 DEF Listens, Answered, IsAddMatch
  <1>6. m \in Outbound
    BY <1>1, <1>2, <1>3, CapacityAssumption DEF Outbound, Numbered
  <1>7. /\ serial \notin DOMAIN pending
        /\ \A s \in DOMAIN pending : s \in DOMAIN pending' /\ pending'[s] = pending[s]
        /\ DOMAIN pending' \subseteq DOMAIN pending \cup {serial}
        /\ serial \in DOMAIN pending' <=> IsCall(m)
        /\ IsCall(m) => pending'[serial] = Pending(c, m)
    BY <1>1, <1>2
  <1> HIDE DEF m, r, x
  <1>8. /\ DOMAIN caller' = Tasks /\ caller'[c] = r
        /\ \A d \in Tasks \ {c} : CallerOk(d)'
        /\ SerialsApart' /\ NoSlotLeaked'
    <2>1. /\ serial' \in Nat /\ serial <= serial'
          /\ abandoned \subseteq abandoned'
      BY <1>1, <1>2
    <2>2. \A s \in 1..(serial - 1) \ {caller[c].serial} :
             /\ s \in DOMAIN pending' <=> s \in DOMAIN pending
             /\ s \in DOMAIN pending => pending'[s] = pending[s]
      BY <1>2, <1>7
    <2>3. \A s \in DOMAIN pending' :
             \/ s \in DOMAIN pending /\ s # caller[c].serial
             \/ s = r.serial /\ r.pc # "idle"
             \/ s \in abandoned'
      BY <1>2, <1>4, <1>7 DEF x
    <2>4. r.serial \in {0, caller[c].serial, serial}
      BY <1>4
    <2>5. QED
      BY <1>1, <2>1, <2>2, <2>3, <2>4, Moved
  <1>9. CallerOk(c)'
    <2>1. Listed(c)' <=> IsCall(m)
      BY <1>4, <1>7, <1>8 DEF Listed
    <2>2. \A a \in Answers :
              IsCall(m) /\ Accepts(pending'[r.serial], a) /\ a.type # "error" => Right(m, a)
      BY <1>4, <1>7, CapturedRight
    <2>3. r.serial \in 1..(serial' - 1)
      BY <1>1, <1>2, <1>4
    <2>4. QED
      BY <1>1, <1>3, <1>4, <1>5, <1>6, <1>8, <1>13, <2>1, <2>2, <2>3 DEF CallerOk, Waiting
  <1>10. LinkTypes'
    <2>1. DOMAIN pending' \subseteq 1..(serial' - 1)
      BY <1>1, <1>2, <1>7
    <2>2. QED
      BY <1>1, <1>2, <1>8, <2>1 DEF LinkInv, LinkTypes
  <1>11. JobsOk'
    BY <1>1 DEF LinkInv, JobsOk
  <1>12. QED
    BY <1>8, <1>9, <1>10, <1>11 DEF LinkInv

(* A caller that goes on without its entry, or with one nobody reads. *)
LEMMA RestStep ==
    ASSUME LinkInv, NEW c \in Tasks, NEW r,
           caller' = [caller EXCEPT ![c] = r],
           r.serial = 0, CallerOk(c)',
           UNCHANGED <<serial, outbox, writing, jobs>>,
           \/ pending' = pending /\ (Listed(c) => caller[c].serial \in abandoned')
           \/ Forget(caller[c].serial),
           abandoned \subseteq abandoned'
    PROVE  LinkInv'
  <1>1. /\ serial \in Nat \ {0} /\ DOMAIN pending \subseteq 1..(serial - 1)
    BY Known
  <1>2. /\ \A s \in DOMAIN pending \ {caller[c].serial} :
             s \in DOMAIN pending' /\ pending'[s] = pending[s]
        /\ DOMAIN pending' \subseteq DOMAIN pending
        /\ caller[c].serial \in DOMAIN pending' => caller[c].serial \in abandoned'
    BY DEF Forget, Restrict, Listed
  <1>3. /\ DOMAIN caller' = Tasks
        /\ \A d \in Tasks \ {c} : CallerOk(d)'
        /\ SerialsApart' /\ NoSlotLeaked'
    <2>1. \A s \in DOMAIN pending' :
             \/ s \in DOMAIN pending /\ s # caller[c].serial
             \/ s = r.serial /\ r.pc # "idle"
             \/ s \in abandoned'
      BY <1>2
    <2>2. \A s \in 1..(serial - 1) \ {caller[c].serial} :
             /\ s \in DOMAIN pending' <=> s \in DOMAIN pending
             /\ s \in DOMAIN pending => pending'[s] = pending[s]
      BY <1>2
    <2>3. /\ serial' \in Nat /\ serial <= serial'
      BY <1>1
    <2>4. QED
      BY <2>1, <2>2, <2>3, Moved
  <1>4. QED
    BY <1>2, <1>3, LinkKept

LEMMA ReclaimStep ==
    ASSUME LinkInv, NEW c \in Tasks, Reclaim(c)
    PROVE  LinkInv'
  <1>1. /\ caller' = [caller EXCEPT ![c] = Resting] /\ Forget(caller[c].serial)
        /\ UNCHANGED <<serial, outbox, writing, jobs, abandoned>>
    BY DEF Reclaim, Error, Move, taskVars
  <1>2. caller'[c] = Resting
    BY <1>1 DEF LinkInv, LinkTypes
  <1>3. QED
    BY <1>1, <1>2, RestedOk, RestingFresh, RestStep

LEMMA CancelStep ==
    ASSUME LinkInv, NEW c \in Tasks, Cancel(c)
    PROVE  LinkInv'
  <1>1. /\ caller' = [caller EXCEPT ![c] = Resting] /\ pending' = pending
        /\ abandoned' = abandoned \cup ({caller[c].serial} \cap DOMAIN pending)
        /\ UNCHANGED <<serial, outbox, writing, jobs>>
    BY DEF Cancel, Move, taskVars
  <1>2. caller'[c] = Resting
    BY <1>1 DEF LinkInv, LinkTypes
  <1>3. abandoned \subseteq abandoned' /\ (Listed(c) => caller[c].serial \in abandoned')
    BY <1>1 DEF Listed
  <1>4. QED
    BY <1>1, <1>2, <1>3, RestedOk, RestingFresh, RestStep

(* A caller that keeps its serial moves on to wait elsewhere. *)
LEMMA WaitStep ==
    ASSUME LinkInv, NEW c \in Tasks, NEW r,
           caller' = [caller EXCEPT ![c] = r], caller[c].pc \in Waiting,
           r.serial = caller[c].serial, r.pc # "idle", CallerOk(c)',
           UNCHANGED <<serial, pending, abandoned>>
    PROVE  /\ DOMAIN caller' = Tasks
           /\ \A d \in Tasks : CallerOk(d)'
           /\ SerialsApart' /\ NoSlotLeaked'
  <1>1. /\ serial \in Nat \ {0}
    BY Known
  <1>2. \A s \in DOMAIN pending' :
             \/ s \in DOMAIN pending /\ s # caller[c].serial
             \/ s = r.serial /\ r.pc # "idle"
             \/ s \in abandoned'
    OBVIOUS
  <1>3. \A s \in 1..(serial - 1) \ {caller[c].serial} :
             /\ s \in DOMAIN pending' <=> s \in DOMAIN pending
             /\ s \in DOMAIN pending => pending'[s] = pending[s]
    OBVIOUS
  <1>4. /\ serial' \in Nat /\ serial <= serial'
        /\ abandoned \subseteq abandoned' /\ r.serial \in {0, caller[c].serial, serial}
    BY <1>1
  <1>5. /\ DOMAIN caller' = Tasks
        /\ \A d \in Tasks \ {c} : CallerOk(d)'
        /\ SerialsApart' /\ NoSlotLeaked'
    BY <1>2, <1>3, <1>4, Moved
  <1>6. QED
    BY <1>5

LEMMA ExpireStep ==
    ASSUME LinkInv, NEW c \in Tasks, Expire(c)
    PROVE  LinkInv'
  <1> DEFINE x == caller[c]
             r == [caller[c] EXCEPT !.pc = "reclaim"]
  <1>1. /\ caller' = [caller EXCEPT ![c] = r] /\ x.pc = "await" /\ x.slot = None
        /\ UNCHANGED <<serial, pending, outbox, writing, jobs, abandoned>>
    BY DEF Expire, Move, taskVars
  <1>2. CallerOk(c) /\ IsCaller(x) /\ caller'[c] = r
    BY <1>1, Known DEF LinkInv, LinkTypes
  <1>3. /\ r.pc = "reclaim" /\ r.msg = x.msg /\ r.serial = x.serial /\ r.slot = None
        /\ r.goal = x.goal /\ r.pinned = x.pinned
        /\ r.listens = x.listens /\ r.heard = x.heard /\ r.owed = x.owed
        /\ r.last = x.last /\ DOMAIN r = CallerFields
    BY <1>1, <1>2 DEF IsCaller, CallerFields
  <1>4. IsCaller(r)
    BY <1>2, <1>3 DEF IsCaller, Waiting
  <1>5. /\ x.serial \in 1..(serial - 1) /\ x.msg \in Outbound /\ IsCall(x.msg)
        /\ Listens(x) /\ Answered(x)
    BY <1>1, <1>2 DEF CallerOk, Waiting
  <1>13. Listens(r) /\ Answered(r)
    BY <1>1, <1>3, <1>5 DEF Listens, Answered
  <1>6. Listed(c) => \A a \in Answers :
              Accepts(pending[x.serial], a) /\ a.type # "error" => Right(x.msg, a)
    BY <1>1, <1>2 DEF CallerOk, Waiting
  <1>7. Listed(c)' <=> Listed(c)
    BY <1>1, <1>2, <1>3 DEF Listed
  <1>8. pending' = pending /\ serial' = serial
    BY <1>1
  <1> HIDE DEF r, x
  <1>9. CallerOk(c)'
    BY <1>2, <1>3, <1>4, <1>5, <1>6, <1>7, <1>8, <1>13 DEF CallerOk, Waiting
  <1>10. caller[c].pc \in Waiting /\ r.serial = caller[c].serial
    BY <1>1, <1>3 DEF x, Waiting
  <1>11. /\ DOMAIN caller' = Tasks
         /\ \A d \in Tasks : CallerOk(d)'
         /\ SerialsApart' /\ NoSlotLeaked'
    BY <1>1, <1>3, <1>9, <1>10, WaitStep
  <1>12. QED
    BY <1>1, <1>11, LinkKept

LEMMA EnqueueStep ==
    ASSUME LinkInv, NEW c \in Tasks, EnqueueCall(c)
    PROVE  LinkInv'
  <1> DEFINE x == caller[c]
             r == [caller[c] EXCEPT !.pc = "await"]
  <1>1. /\ x.pc = "enqueue"
        /\ UNCHANGED <<serial, writing, jobs, abandoned>>
    BY DEF EnqueueCall, taskVars
  <1>2. /\ CallerOk(c) /\ IsCaller(x) /\ serial \in Nat \ {0}
        /\ DOMAIN caller = Tasks /\ outbox \in Seq(Outbound)
    BY <1>1, Known DEF LinkInv, LinkTypes
  <1>3. /\ x.serial \in 1..(serial - 1) /\ x.msg \in Outbound
        /\ Listens(x) /\ Answered(x)
        /\ IsCall(x.msg) /\ ~Listed(c) => x.slot # None
        /\ x.slot # None /\ x.slot.type = "method_return" => Right(x.msg, x.slot)
    BY <1>1, <1>2 DEF CallerOk, Waiting
  <1>4. Listed(c) =>
          /\ IsCall(x.msg) /\ x.slot = None
          /\ \A a \in Answers :
              Accepts(pending[x.serial], a) /\ a.type # "error" => Right(x.msg, a)
    BY <1>1, <1>2 DEF CallerOk, Waiting
  <1>5. CASE /\ Accept(x.msg) /\ IsCall(x.msg)
             /\ caller' = [caller EXCEPT ![c] = r] /\ pending' = pending
    <2>1. /\ r.pc = "await" /\ r.msg = x.msg /\ r.serial = x.serial /\ r.slot = x.slot
          /\ r.goal = x.goal /\ r.pinned = x.pinned
          /\ r.listens = x.listens /\ r.heard = x.heard /\ r.owed = x.owed
          /\ r.last = x.last /\ DOMAIN r = CallerFields
      BY <1>2 DEF IsCaller, CallerFields
    <2>11. Listens(r) /\ Answered(r)
      BY <1>1, <1>3, <2>1 DEF Listens, Answered
    <2>2. IsCaller(r) /\ caller'[c] = r
      BY <1>2, <1>5, <2>1 DEF IsCaller, Waiting
    <2>3. Listed(c)' <=> Listed(c)
      BY <1>5, <2>1, <2>2 DEF Listed
    <2> HIDE DEF r, x
    <2>4. CallerOk(c)'
      BY <1>1, <1>2, <1>3, <1>4, <1>5, <2>1, <2>2, <2>3, <2>11 DEF CallerOk, Waiting
    <2>5. caller[c].pc \in Waiting /\ r.serial = caller[c].serial
      BY <1>1, <2>1 DEF x, Waiting
    <2>6. /\ DOMAIN caller' = Tasks
          /\ \A d \in Tasks : CallerOk(d)'
          /\ SerialsApart' /\ NoSlotLeaked'
      BY <1>1, <1>5, <2>1, <2>4, <2>5, WaitStep
    <2>7. outbox' \in Seq(Outbound)
      BY <1>2, <1>3, <1>5 DEF Accept
    <2>8. LinkTypes'
      BY <1>1, <1>5, <2>6, <2>7 DEF LinkInv, LinkTypes
    <2>9. JobsOk'
      BY <1>1 DEF LinkInv, JobsOk
    <2>10. QED
      BY <2>6, <2>8, <2>9 DEF LinkInv
  <1>6. CASE /\ Accept(x.msg) /\ ~IsCall(x.msg)
             /\ caller' = [caller EXCEPT ![c] = Resting] /\ pending' = pending
    <2>1. caller'[c] = Resting
      BY <1>1, <1>2, <1>6
    <2>2. CallerOk(c)' /\ Resting.serial = 0 /\ ~Listed(c)
      BY <1>4, <1>6, <2>1, RestedOk, RestingFresh
    <2>3. /\ serial' \in Nat /\ serial <= serial'
          /\ abandoned \subseteq abandoned'
          /\ Resting.serial \in {0, caller[c].serial, serial}
      BY <1>1, <1>2, <2>2
    <2>4. \A s \in DOMAIN pending' : s \in DOMAIN pending /\ s # caller[c].serial
      BY <1>6, <2>2 DEF Listed
    <2>5. /\ DOMAIN caller' = Tasks
          /\ \A d \in Tasks \ {c} : CallerOk(d)'
          /\ SerialsApart' /\ NoSlotLeaked'
      BY <1>6, <2>3, <2>4, Moved
    <2>6. outbox' \in Seq(Outbound)
      BY <1>2, <1>3, <1>6 DEF Accept
    <2>7. LinkTypes'
      BY <1>1, <1>6, <2>5, <2>6 DEF LinkInv, LinkTypes
    <2>8. JobsOk'
      BY <1>1 DEF LinkInv, JobsOk
    <2>9. QED
      BY <2>2, <2>5, <2>7, <2>8 DEF LinkInv
  <1>7. CASE /\ Forget(x.serial) /\ outbox' = outbox
             /\ caller' = [caller EXCEPT ![c] = Resting]
    <2>1. caller'[c] = Resting
      BY <1>1, <1>2, <1>7
    <2>2. QED
      BY <1>1, <1>7, <2>1, RestedOk, RestingFresh, RestStep
  <1>8. QED
    BY <1>5, <1>6, <1>7 DEF EnqueueCall, Move, Error

LEMMA TakeReplyStep ==
    ASSUME LinkInv, NEW c \in Tasks, TakeReply(c)
    PROVE  LinkInv'
  <1> DEFINE x == caller[c]
             a == caller[c].slot
             g == caller[c].goal
  <1>1. /\ x.pc = "await" /\ a # None
        /\ UNCHANGED <<serial, pending, outbox, writing, jobs, abandoned>>
    BY DEF TakeReply, taskVars
  <1>2. /\ CallerOk(c) /\ IsCaller(x)
        /\ DOMAIN caller = Tasks
    BY <1>1, Known DEF LinkInv, LinkTypes
  <1>3. /\ ~Listed(c) /\ Listens(x)
        /\ a.type = "method_return" => Right(x.msg, a)
    BY <1>1, <1>2 DEF CallerOk, Waiting
  <1>4. CASE Error(c)
    <2>1. caller' = [caller EXCEPT ![c] = Resting] /\ caller'[c] = Resting
      BY <1>2, <1>4 DEF Error, Move
    <2>2. QED
      BY <1>1, <1>2, <1>3, <2>1, RestedOk, RestingFresh, RestStep
  <1>5. CASE a.type = "method_return" /\ Reply(c)
    <2> DEFINE l == [caller[c] EXCEPT !.last = None]
               r == [Resting EXCEPT !.last = l]
    <2>1. caller' = [caller EXCEPT ![c] = r] /\ caller'[c] = r
      BY <1>2, <1>5 DEF Reply, Move
    <2>2. l.msg = x.msg /\ l.slot = a /\ l.heard = x.heard /\ l.owed = x.owed
      BY <1>2 DEF IsCaller, CallerFields
    <2>7. a \in Answers
      BY <1>1, <1>2, <1>5 DEF IsCaller, Dropped, Refusal, Answer
    <2>3. /\ r.pc = "idle" /\ r.serial = 0 /\ r.slot = None
          /\ r.heard = 0 /\ r.owed = 0 /\ r.goal = None /\ r.last = l
      BY DEF Resting
    <2>4. IsCaller(r)
      BY DEF Resting, IsCaller, CallerFields
    <2>8. l.owed <= l.heard
      BY <1>3, <2>2 DEF Listens
    <2> HIDE DEF r, l
    <2>9. Listens(r) /\ Answered(r)
      BY <1>3, <1>5, <2>2, <2>3, <2>7, <2>8 DEF Listens, Answered
    <2>5. CallerOk(c)'
      BY <2>1, <2>3, <2>4, <2>9, FreshOk DEF Waiting
    <2>6. QED
      BY <1>1, <1>3, <2>1, <2>3, <2>5, RestStep
  <1>6. CASE a.type = "method_return" /\ g # None /\ OwnerAgrees(g, a.body)
             /\ Move(c, [Resting EXCEPT
                                  !.pc = "register", !.pinned = TRUE,
                                  !.msg = [g EXCEPT !.expected_responder = a.body]])
    <2> DEFINE r == [Resting EXCEPT
                                  !.pc = "register", !.pinned = TRUE,
                                  !.msg = [g EXCEPT !.expected_responder = a.body]]
    <2>1. caller' = [caller EXCEPT ![c] = r] /\ caller'[c] = r
      BY <1>2, <1>6 DEF Move
    <2>2. /\ r.pc = "register" /\ r.serial = 0 /\ r.slot = None
          /\ r.heard = 0 /\ r.owed = 0 /\ r.goal = None /\ r.last = None
          /\ r.msg = [g EXCEPT !.expected_responder = a.body]
      BY DEF Resting
    <2>3. IsCaller(r)
      BY <1>2 DEF Resting, IsCaller, CallerFields
    <2>4. a \in Answers /\ g \in Carried
      BY <1>1, <1>2, <1>6 DEF IsCaller, Dropped, Refusal, Answer
    <2>5. r.msg \in Sendable
      <3> DEFINE p == <<g, a>>
      <3>1. /\ p \in {q \in Carried \X Answers : OwnerAgrees(q[1], q[2].body)}
            /\ r.msg = [p[1] EXCEPT !.expected_responder = p[2].body]
        BY <1>6, <2>2, <2>4
      <3> HIDE DEF p, r
      <3>2. r.msg \in Pinnings
        BY <3>1 DEF Pinnings
      <3>3. QED
        BY <3>2 DEF Sendable
    <2>8. ~IsAddMatch(r.msg)
      <3>1. DOMAIN g = DOMAIN BlankHeader /\ g.destination # BUS
        BY <1>3, <1>6, <2>4, CarriedShape DEF Listens
      <3>2. r.msg.destination = g.destination
        BY <2>2, <3>1 DEF BlankHeader
      <3>3. QED
        BY <3>1, <3>2 DEF IsAddMatch
    <2> HIDE DEF r
    <2>9. Listens(r) /\ Answered(r)
      BY <2>2, <2>8 DEF Listens, Answered
    <2>6. CallerOk(c)'
      BY <2>1, <2>2, <2>3, <2>5, <2>9, FreshOk DEF Waiting
    <2>7. QED
      BY <1>1, <1>3, <2>1, <2>2, <2>6, RestStep
  <1>7. QED
    BY <1>4, <1>5, <1>6 DEF TakeReply

-----------------------------------------------------------------------------
(* The tasks of the connection.                                            *)

(* A step of a task that no caller notices. *)
LEMMA Unnoticed ==
    ASSUME LinkInv, UNCHANGED <<caller, pending, abandoned>>,
           serial' \in Nat, serial <= serial',
           outbox' \in Seq(Outbound), writing' \in {"running", "ended"},
           jobs' \in Seq(Jobs),
           Len(jobs') <= MaxInbound, JobsOk'
    PROVE  LinkInv'
  <1>1. /\ DOMAIN caller = Tasks /\ serial \in Nat \ {0}
        /\ DOMAIN pending \subseteq 1..(serial - 1)
    BY DEF LinkInv, LinkTypes
  <1>2. ASSUME NEW c \in Tasks PROVE CallerOk(c)'
    <2>1. CallerOk(c) BY DEF LinkInv
    <2>2. Listed(c)' <=> Listed(c) BY DEF Listed
    <2>3. QED BY <1>1, <2>1, <2>2, KeptOk
  <1>3. LinkTypes'
    <2>1. DOMAIN pending' \subseteq 1..(serial' - 1)
      BY <1>1
    <2>2. QED
      BY <1>1, <2>1 DEF LinkTypes
  <1>4. SerialsApart' /\ NoSlotLeaked'
    BY DEF LinkInv, SerialsApart, NoSlotLeaked
  <1>5. QED
    BY <1>2, <1>3, <1>4 DEF LinkInv

LEMMA LinkKnown ==
    ASSUME LinkInv
    PROVE  /\ serial \in Nat \ {0} /\ outbox \in Seq(Outbound)
           /\ writing \in {"running", "ended"}
           /\ jobs \in Seq(Jobs)
           /\ Len(jobs) <= MaxInbound /\ JobsOk
           /\ DOMAIN caller = Tasks /\ DOMAIN pending \subseteq 1..(serial - 1)
  BY DEF LinkInv, LinkTypes

LEMMA TrySendStep ==
    ASSUME LinkInv, NEW m \in Published, TrySend(m)
    PROVE  LinkInv'
  <1>1. /\ serial <= MaxSerial /\ serial' = serial + 1
        /\ UNCHANGED <<caller, pending, abandoned, writing, jobs>>
        /\ \/ Accept([m EXCEPT !.serial = serial]) \/ outbox' = outbox
    BY DEF TrySend, taskVars
  <1>2. [m EXCEPT !.serial = serial] \in Outbound
    <2>1. serial \in 1..MaxSerial
      BY <1>1, LinkKnown, CapacityAssumption
    <2>2. [m EXCEPT !.serial = serial] \in Numbered(Sendable \cup Published)
      BY <2>1 DEF Numbered
    <2>3. QED
      BY <2>2 DEF Outbound
  <1>3. outbox' \in Seq(Outbound)
    <2> DEFINE n == [m EXCEPT !.serial = serial]
    <2>1. Accept(n) \/ outbox' = outbox
      BY <1>1
    <2>2. n \in Outbound
      BY <1>2
    <2> HIDE DEF n
    <2>3. \A o \in Outbound : Append(outbox, o) \in Seq(Outbound)
      BY LinkKnown
    <2>4. QED
      BY <2>1, <2>2, <2>3, LinkKnown DEF Accept
  <1>4. JobsOk'
    BY <1>1, LinkKnown DEF JobsOk
  <1>5. QED
    BY <1>1, <1>3, <1>4, LinkKnown, Unnoticed

LEMMA WriteStep ==
    ASSUME LinkInv, Write
    PROVE  LinkInv'
  <1>1. /\ outbox # <<>> /\ outbox' = Tail(outbox)
        /\ UNCHANGED <<caller, pending, abandoned, writing, serial, jobs>>
    BY DEF Write, taskVars
  <1>2. outbox' \in Seq(Outbound)
    BY <1>1, LinkKnown
  <1>3. JobsOk'
    BY <1>1, LinkKnown DEF JobsOk
  <1>4. QED
    BY <1>1, <1>2, <1>3, LinkKnown, Unnoticed

LEMMA WriteFailedStep ==
    ASSUME LinkInv, WriteFailed
    PROVE  LinkInv'
  <1>1. /\ writing' = "ended" /\ outbox' = <<>>
        /\ UNCHANGED <<caller, pending, abandoned, serial, jobs>>
    BY DEF WriteFailed
  <1>2. outbox' \in Seq(Outbound)
    BY <1>1
  <1>3. JobsOk'
    BY <1>1, LinkKnown DEF JobsOk, JobOk
  <1>4. QED
    BY <1>1, <1>2, <1>3, LinkKnown, Unnoticed

LEMMA WriteRefusedStep ==
    ASSUME LinkInv, WriteRefused
    PROVE  LinkInv'
  <1> DEFINE m == Head(outbox)
  <1>1. /\ outbox # <<>> /\ outbox' = Tail(outbox)
        /\ UNCHANGED <<abandoned, writing, serial, jobs>>
    BY DEF WriteRefused, taskVars
  <1>2. outbox' \in Seq(Outbound)
    BY <1>1, LinkKnown
  <1>3. JobsOk'
    BY <1>1, LinkKnown DEF JobsOk
  <1>4. CASE UNCHANGED <<pending, caller>>
    BY <1>1, <1>2, <1>3, <1>4, LinkKnown, Unnoticed
  <1>5. CASE m.serial \in DOMAIN pending /\ Forget(m.serial) /\ Deliver(m.serial, Refusal)
    <2>1. Refusal.type # "method_return"
      BY DEF Refusal, Answer
    <2> HIDE DEF m
    <2>2. /\ DOMAIN caller' = Tasks /\ DOMAIN pending' \subseteq DOMAIN pending
          /\ \A d \in Tasks : CallerOk(d)'
          /\ SerialsApart' /\ NoSlotLeaked'
      BY <1>1, <1>5, <2>1, Delivered
    <2>3. LinkTypes'
      BY <1>1, <1>2, <2>2, LinkKnown DEF LinkTypes
    <2>4. QED
      BY <1>3, <2>2, <2>3 DEF LinkInv
  <1>6. QED
    BY <1>4, <1>5 DEF WriteRefused

LEMMA DispatchReplyStep ==
    ASSUME LinkInv, NEW s \in DOMAIN pending, NEW a \in Answers, DispatchReply(s, a)
    PROVE  LinkInv'
  <1>1. /\ Accepts(pending[s], a) /\ Forget(s) /\ Deliver(s, a)
        /\ UNCHANGED <<serial, outbox, writing, jobs, abandoned>>
    BY DEF DispatchReply, taskVars
  <1>2. /\ DOMAIN caller' = Tasks /\ DOMAIN pending' \subseteq DOMAIN pending
        /\ \A d \in Tasks : CallerOk(d)'
        /\ SerialsApart' /\ NoSlotLeaked'
    BY <1>1, Delivered
  <1>3. QED
    BY <1>1, <1>2, LinkKept

LEMMA DispatchSignalStep ==
    ASSUME LinkInv, DispatchSignal
    PROVE  LinkInv'
  <1>1. /\ caller' = [t \in Tasks |->
                    [caller[t] EXCEPT
                       !.heard = IF caller[t].listens THEN @ + 1 ELSE @,
                       !.owed = IF Owed(caller[t]) THEN @ + 1 ELSE @]]
        /\ UNCHANGED <<serial, pending, outbox, writing, jobs, abandoned>>
    BY DEF DispatchSignal, taskVars
  <1>2. ASSUME NEW c \in Tasks
        PROVE  /\ CallerOk(c)'
               /\ caller'[c].serial = caller[c].serial /\ caller'[c].pc = caller[c].pc
    <2> DEFINE r == caller[c]
               q == caller'[c]
    <2>1. CallerOk(c) /\ IsCaller(r)
      BY Known
    <2>2. q = [r EXCEPT !.heard = IF r.listens THEN @ + 1 ELSE @,
                        !.owed = IF Owed(r) THEN @ + 1 ELSE @]
      BY <1>1
    <2>3. /\ DOMAIN q = CallerFields
          /\ q.pc = r.pc /\ q.msg = r.msg /\ q.goal = r.goal /\ q.pinned = r.pinned
          /\ q.serial = r.serial /\ q.slot = r.slot /\ q.last = r.last /\ q.listens = r.listens
          /\ q.heard = IF r.listens THEN r.heard + 1 ELSE r.heard
          /\ q.owed = IF Owed(r) THEN r.owed + 1 ELSE r.owed
      BY <2>1, <2>2 DEF IsCaller, CallerFields
    <2>4. Listens(r) /\ Answered(r)
      BY <2>1 DEF CallerOk
    <2>5. Owed(r) => r.listens
      BY <2>4 DEF Listens, Owed
    <2>6. r.heard \in Nat /\ r.owed \in Nat /\ r.owed <= r.heard
      BY <2>1, <2>4 DEF IsCaller, Listens
    <2> HIDE DEF r, q
    <2>7. q.owed <= q.heard /\ q.heard \in Nat /\ q.owed \in Nat
      BY <2>3, <2>5, <2>6
    <2>8. Listens(q) /\ Answered(q)
      BY <2>3, <2>4, <2>7 DEF Listens, Answered
    <2>9. IsCaller(q)
      BY <2>1, <2>3, <2>7 DEF IsCaller, r
    <2>10. Listed(c)' <=> Listed(c)
      BY <1>1, <2>3 DEF Listed, r, q
    <2>11. CallerOk(c)'
      BY <1>1, <2>1, <2>3, <2>8, <2>9, <2>10 DEF CallerOk, r, q
    <2>12. QED
      BY <2>3, <2>11 DEF r, q
  <1>3. DOMAIN caller' = Tasks
    BY <1>1
  <1>4. SerialsApart'
    BY <1>2 DEF LinkInv, SerialsApart
  <1>5. NoSlotLeaked'
    <2>1. NoSlotLeaked
      BY DEF LinkInv
    <2>2. pending' = pending /\ abandoned' = abandoned
      BY <1>1
    <2>3. QED
      BY <1>2, <2>1, <2>2 DEF NoSlotLeaked
  <1>6. QED
    BY <1>1, <1>2, <1>3, <1>4, <1>5, LinkKept

LEMMA DispatchEndStep ==
    ASSUME LinkInv, DispatchEnd
    PROVE  LinkInv'
  <1>1. /\ pending' = <<>>
        /\ caller' = [c \in Tasks |->
                    IF caller[c].serial \in DOMAIN pending
                    THEN [caller[c] EXCEPT !.slot = Dropped] ELSE caller[c]]
        /\ UNCHANGED <<serial, outbox, writing, jobs, abandoned>>
    BY DEF DispatchEnd
  <1>2. DOMAIN pending' = {}
    BY <1>1
  <1>3. DOMAIN caller' = Tasks
    BY <1>1
  <1>4. ASSUME NEW c \in Tasks
        PROVE  CallerOk(c)' /\ caller'[c].serial = caller[c].serial
    <2>1. CallerOk(c) /\ IsCaller(caller[c]) /\ serial \in Nat
      BY Known
    <2>2. CASE caller[c].serial \in DOMAIN pending
      <3>1. caller'[c] = [caller[c] EXCEPT !.slot = Dropped]
        BY <1>1, <2>2
      <3>2. caller'[c].serial = caller[c].serial
        BY <2>1, <3>1 DEF IsCaller, CallerFields
      <3>3. caller[c].pc \in Waiting /\ Listed(c) /\ ~Listed(c)'
        BY <1>2, <2>2, Known DEF Listed
      <3>4. Dropped.type # "method_return"
        BY DEF Dropped, Answer
      <3>5. QED
        BY <1>1, <2>1, <3>1, <3>2, <3>3, <3>4, SlotOk
    <2>3. CASE caller[c].serial \notin DOMAIN pending
      <3>1. caller'[c] = caller[c]
        BY <1>1, <2>3
      <3>2. ~Listed(c) /\ ~Listed(c)'
        BY <1>2, <2>3 DEF Listed
      <3>3. serial' = serial
        BY <1>1
      <3>4. CallerOk(c)'
        BY <2>1, <3>1, <3>2, <3>3, KeptOk
      <3>5. QED
        BY <3>1, <3>4
    <2>4. QED
      BY <2>2, <2>3
  <1>5. SerialsApart'
    BY <1>4 DEF SerialsApart, LinkInv
  <1>6. NoSlotLeaked'
    BY <1>2 DEF NoSlotLeaked
  <1>7. QED
    BY <1>1, <1>2, <1>3, <1>4, <1>5, <1>6, LinkKept

-----------------------------------------------------------------------------
(* Inbound calls.                                                          *)

LEMMA JobMoved ==
    ASSUME LinkInv, NEW j \in DOMAIN jobs, NEW q \in Jobs, jobs' = [jobs EXCEPT ![j] = q]
    PROVE  /\ jobs' \in Seq(Jobs) /\ Len(jobs') = Len(jobs) /\ DOMAIN jobs' = DOMAIN jobs
           /\ jobs'[j] = q /\ \A i \in DOMAIN jobs \ {j} : jobs'[i] = jobs[i]
  <1>1. jobs \in Seq(Jobs)
    BY LinkKnown
  <1>2. QED
    BY <1>1

LEMMA DispatchCallStep ==
    ASSUME LinkInv, DispatchCall
    PROVE  LinkInv'
  <1>1. PICK m \in Inbound : /\ Len(jobs) < MaxInbound /\ jobs' = Append(jobs, Received(m))
                             /\ UNCHANGED <<caller, pending, abandoned, outbox, writing, serial>>
    BY DEF DispatchCall, taskVars
  <1> DEFINE q == Received(m)
  <1>2. q \in Jobs /\ JobOk(q, writing)
    BY DEF Received, Jobs, JobOk
  <1> HIDE DEF q
  <1>3. /\ Len(jobs') = Len(jobs) + 1 /\ DOMAIN jobs' = 1..(Len(jobs) + 1)
        /\ \A i \in DOMAIN jobs : jobs'[i] = jobs[i]
        /\ jobs'[Len(jobs) + 1] = q /\ DOMAIN jobs = 1..Len(jobs) /\ Len(jobs) \in Nat
        /\ jobs' \in Seq(Jobs)
    BY <1>1, <1>2, LinkKnown DEF q
  <1>4. JobsOk'
    BY <1>1, <1>2, <1>3, LinkKnown DEF JobsOk
  <1>5. QED
    BY <1>1, <1>3, <1>4, LinkKnown, CapacityAssumption, Unnoticed

(* A handler goes on, and may start a call. *)
LEMMA HandlerKept ==
    ASSUME LinkInv, NEW j \in DOMAIN jobs, NEW q \in Jobs, Step(j, q), JobOk(q, writing),
           UNCHANGED <<pending, abandoned, writing>>,
           serial' \in {serial, serial + 1}, outbox' \in Seq(Outbound),
           \/ caller' = caller
           \/ caller[j].pc = "idle" /\ \E m \in Carried : Start(j, m)
    PROVE  LinkInv'
  <1>1. /\ jobs' \in Seq(Jobs) /\ Len(jobs') = Len(jobs) /\ DOMAIN jobs' = DOMAIN jobs
        /\ jobs'[j] = q /\ \A i \in DOMAIN jobs \ {j} : jobs'[i] = jobs[i]
    BY JobMoved DEF Step
  <1>2. JobsOk'
    BY <1>1, LinkKnown DEF JobsOk
  <1>3. serial' \in Nat /\ serial <= serial' /\ serial \in Nat \ {0}
    BY LinkKnown
  <1>4. CASE caller' = caller
    BY <1>1, <1>2, <1>3, <1>4, LinkKnown, Unnoticed
  <1>5. CASE caller[j].pc = "idle" /\ \E m \in Carried : Start(j, m)
    <2>1. PICK m \in Carried : Start(j, m)
      BY <1>5
    <2>2. j \in Tasks
      BY LinkKnown, CapacityAssumption DEF Tasks, Handlers
    <2>3. /\ DOMAIN caller' = Tasks
          /\ \A d \in Tasks : CallerOk(d)'
          /\ SerialsApart' /\ NoSlotLeaked'
      BY <1>3, <1>5, <2>1, <2>2, Started
    <2>4. LinkTypes'
      <3>1. DOMAIN pending' \subseteq 1..(serial' - 1) /\ serial' \in Nat \ {0}
        BY <1>3, LinkKnown
      <3>2. QED
        BY <1>1, <2>3, <3>1, LinkKnown DEF LinkTypes
    <2>5. QED
      BY <1>2, <2>3, <2>4 DEF LinkInv
  <1>6. QED
    BY <1>4, <1>5

(* What the handlers start. *)
LEMMA StreamsCarried ==
    ASSUME NEW p \in Destinations, NEW k \in {"Open", "Write", "Close", "Abort"}
    PROVE  StreamCall(p, k) \in Carried
  BY DEF Carried, StreamCalls

LEMMA HandlerKnown ==
    ASSUME LinkInv, NEW j \in DOMAIN jobs
    PROVE  /\ jobs[j] \in Jobs /\ JobOk(jobs[j], writing) /\ outbox \in Seq(Outbound)
           /\ ReplyTo(jobs[j].call) \in Destinations
           /\ j \in Tasks /\ j \in Handlers /\ CallerOk(j)
  <1>1. jobs[j] \in Jobs /\ JobOk(jobs[j], writing) /\ j \in Handlers
    BY LinkKnown, CapacityAssumption DEF JobsOk, Handlers
  <1>2. ReplyTo(jobs[j].call) \in Destinations
    BY <1>1 DEF Jobs, Destinations
  <1>3. j \in Tasks /\ CallerOk(j)
    BY <1>1 DEF Tasks, LinkInv
  <1>4. QED
    BY <1>1, <1>2, <1>3, LinkKnown

LEMMA ServeStep ==
    ASSUME LinkInv, HandlersOk, NEW j \in DOMAIN jobs, Serve(j)
    PROVE  LinkInv'
  <1> DEFINE x == jobs[j]
             m == jobs[j].call
  <1>1. /\ x.pc = "running"
        /\ UNCHANGED <<pending, abandoned, outbox, writing>>
    BY DEF Serve, taskVars
  <1>2. /\ x \in Jobs /\ x.replies = <<>> /\ caller[j].pc = "idle"
        /\ ReplyTo(m) \in Destinations /\ outbox' \in Seq(Outbound)
    BY <1>1, HandlerKnown DEF JobOk, HandlersOk, HandlerAt
  <1>3. ASSUME NEW reply \in {"return", "error"}, Compose(j, x, reply), caller' = caller,
               reply = "return" => ~m.stream_reply
        PROVE  LinkInv'
    <2> DEFINE q == [x EXCEPT !.pc = "sending", !.reply = reply]
    <2>1. /\ q \in Jobs /\ q.pc = "sending" /\ q.reply = reply /\ q.replies = <<>>
          /\ q.call = m
      BY <1>2 DEF Jobs
    <2>2. Step(j, q) /\ serial' = serial + 1
      BY <1>3 DEF Compose
    <2> HIDE DEF q, x, m
    <2>3. JobOk(q, writing)
      BY <1>3, <2>1 DEF JobOk
    <2>4. QED
      BY <1>1, <1>2, <1>3, <2>1, <2>2, <2>3, HandlerKept
  <1>4. CASE /\ m.stream_reply /\ Start(j, StreamCall(ReplyTo(m), "Open")) /\ serial' = serial
             /\ Step(j, [x EXCEPT !.pc = "opening"])
    <2> DEFINE q == [x EXCEPT !.pc = "opening"]
    <2>1. q \in Jobs /\ q.pc = "opening" /\ q.replies = <<>> /\ q.call = m /\ Step(j, q)
      BY <1>2, <1>4 DEF Jobs
    <2>2. StreamCall(ReplyTo(m), "Open") \in Carried
      BY <1>2, StreamsCarried
    <2> HIDE DEF q, x, m
    <2>3. JobOk(q, writing)
      BY <1>4, <2>1 DEF JobOk
    <2>4. QED
      BY <1>1, <1>2, <1>4, <2>1, <2>2, <2>3, HandlerKept
  <1>5. QED
    BY <1>3, <1>4 DEF Serve

LEMMA OpenedStep ==
    ASSUME LinkInv, HandlersOk, NEW j \in DOMAIN jobs, Opened(j)
    PROVE  LinkInv'
  <1> DEFINE x == jobs[j]
             by == caller[j].last.slot.sender
             peer == IF by # None THEN by ELSE ReplyTo(jobs[j].call)
  <1>1. /\ x.pc = "opening" /\ caller' = caller
        /\ UNCHANGED <<pending, abandoned, outbox, writing>>
    BY DEF Opened, taskVars
  <1>2. /\ x \in Jobs /\ x.replies = <<>> /\ x.call.stream_reply
        /\ ReplyTo(x.call) \in Destinations /\ outbox' \in Seq(Outbound)
    BY <1>1, HandlerKnown DEF JobOk
  <1>3. CASE Compose(j, x, "error")
    <2> DEFINE q == [x EXCEPT !.pc = "sending", !.reply = "error"]
    <2>1. q \in Jobs /\ q.pc = "sending" /\ q.reply = "error" /\ q.replies = <<>>
      BY <1>2 DEF Jobs
    <2>2. Step(j, q) /\ serial' = serial + 1
      BY <1>3 DEF Compose
    <2> HIDE DEF q, x
    <2>3. JobOk(q, writing)
      BY <2>1 DEF JobOk
    <2>4. QED
      BY <1>1, <1>2, <2>1, <2>2, <2>3, HandlerKept
  <1>4. CASE WentWell(j) /\ Compose(j, [x EXCEPT !.peer = peer], "return")
    <2> DEFINE q == [[x EXCEPT !.peer = peer] EXCEPT !.pc = "sending", !.reply = "return"]
    <2>1. peer \in Destinations
      <3>1. caller[j].last # None /\ CallerOk(j)
        BY <1>4, HandlerKnown DEF WentWell
      <3>2. caller[j].last.slot \in Answers
        BY <3>1 DEF CallerOk, Answered
      <3>3. QED
        BY <1>2, <3>2 DEF Destinations
    <2> HIDE DEF peer
    <2>2. /\ q \in Jobs /\ q.pc = "sending" /\ q.reply = "return" /\ q.replies = <<>>
          /\ q.peer = peer
      BY <1>2, <2>1 DEF Jobs
    <2>3. Step(j, q) /\ serial' = serial + 1
      BY <1>4 DEF Compose
    <2> HIDE DEF q, x
    <2>4. JobOk(q, writing)
      BY <2>1, <2>2 DEF JobOk
    <2>5. QED
      BY <1>1, <1>2, <2>2, <2>3, <2>4, HandlerKept
  <1>5. QED
    BY <1>3, <1>4 DEF Opened

(* The second reply after the first. *)
LEMMA Pushed ==
    ASSUME NEW S, NEW s \in Seq(S), NEW e \in S, NEW t \in Seq(S),
           Len(t) = Len(s) + 1, \A i \in 1..Len(s) : t[i] = s[i], t[Len(s) + 1] = e
    PROVE  Append(s, e) = t
  OBVIOUS

LEMMA SecondReply == Append(<<"return">>, "error") = <<"return", "error">>
  <1> DEFINE S == {"return", "error"}
             s == <<"return">>
             t == <<"return", "error">>
  <1>1. s \in Seq(S) /\ Len(s) = 1 /\ s[1] = "return" /\ "error" \in S
    OBVIOUS
  <1>2. t \in Seq(S) /\ Len(t) = 2 /\ t[1] = "return" /\ t[2] = "error"
    OBVIOUS
  <1> HIDE DEF s, t, S
  <1>3. Append(s, "error") = t
    BY <1>1, <1>2, Pushed
  <1>4. QED
    BY <1>3 DEF s, t

LEMMA SendReplyStep ==
    ASSUME LinkInv, HandlersOk, NEW j \in DOMAIN jobs, SendReply(j)
    PROVE  LinkInv'
  <1> DEFINE x == jobs[j]
             handle == x.reply = "return" /\ x.call.stream_reply
  <1>1. /\ x.pc = "sending"
        /\ UNCHANGED <<pending, abandoned, writing, serial>>
    BY DEF SendReply, taskVars
  <1>2. x \in Jobs /\ JobOk(x, writing) /\ x.call \in Inbound
    BY HandlerKnown DEF Jobs
  <1>3. handle => x.peer \in Destinations /\ caller[j].pc = "idle"
    BY <1>1, HandlerKnown DEF JobOk, HandlersOk, HandlerAt
  <1>4. /\ x.replies \in {<<>>, <<"return">>} /\ x.reply \in {"return", "error"}
        /\ x.reply = "return" => x.replies = <<>>
        /\ x.replies = <<"return">> => x.call.stream_reply /\ x.broken
    <2>1. <<>> # <<"return">> /\ "return" # "error"
      OBVIOUS
    <2>2. \/ x.reply = "return" /\ x.replies = <<>>
          \/ x.reply = "error" /\ x.replies = <<>>
          \/ x.reply = "error" /\ x.replies = <<"return">> /\ x.call.stream_reply /\ x.broken
      BY <1>1, <1>2 DEF JobOk
    <2> HIDE DEF x
    <2>3. QED
      BY <2>1, <2>2
  <1>5. CASE /\ Accept(IF x.reply = "return" THEN MethodReturn(x.call, TRUE)
                                             ELSE ErrorReply(x.call, "error"))
             /\ Step(j, [x EXCEPT !.pc = IF handle THEN "handed" ELSE "over",
                                  !.replies = Append(@, x.reply)])
             /\ caller' = caller
    <2> DEFINE q == [x EXCEPT !.pc = IF handle THEN "handed" ELSE "over",
                              !.replies = Append(@, x.reply)]
    <2>1. outbox' \in Seq(Outbound)
      <3>1. /\ MethodReturn(x.call, TRUE) \in Outbound
            /\ ErrorReply(x.call, "error") \in Outbound
        BY <1>2 DEF Outbound, Replies
      <3>2. \A n \in Outbound : Accept(n) => outbox' \in Seq(Outbound)
        BY LinkKnown DEF Accept
      <3>3. QED
        BY <1>5, <3>1, <3>2
    <2>2. Append(x.replies, x.reply) \in Seq({"return", "error"})
      BY <1>2, <1>4 DEF Jobs
    <2>3. /\ q \in Jobs /\ q.pc = IF handle THEN "handed" ELSE "over"
          /\ q.replies = Append(x.replies, x.reply)
          /\ q.call = x.call /\ q.peer = x.peer /\ q.broken = x.broken
      BY <1>2, <2>2 DEF Jobs
    <2>4. \/ q.replies = <<"return">> /\ x.reply = "return"
          \/ q.replies = <<"error">> /\ x.reply = "error"
          \/ /\ q.replies = <<"return", "error">> /\ x.reply = "error"
             /\ x.call.stream_reply /\ x.broken
      <3>1. Append(<<>>, "return") = <<"return">> /\ Append(<<>>, "error") = <<"error">>
        OBVIOUS
      <3> HIDE DEF x, q
      <3>2. QED
        BY <1>4, <2>3, <3>1, SecondReply
    <2> HIDE DEF q
    <2>5. JobOk(q, writing)
      BY <1>3, <2>3, <2>4 DEF JobOk
    <2>6. Step(j, q)
      BY <1>5 DEF q
    <2>7. QED
      BY <1>1, <1>5, <2>1, <2>3, <2>5, <2>6, HandlerKept
  <1>6. CASE /\ writing = "ended" /\ Step(j, [x EXCEPT !.pc = "over"]) /\ outbox' = outbox
             /\ IF handle THEN DropWriter(j) ELSE caller' = caller
    <2> DEFINE q == [x EXCEPT !.pc = "over"]
    <2>1. /\ q \in Jobs /\ q.pc = "over" /\ q.replies = x.replies /\ Step(j, q)
      BY <1>2, <1>6 DEF Jobs
    <2> HIDE DEF q
    <2>2. JobOk(q, writing)
      BY <1>4, <1>6, <2>1 DEF JobOk
    <2>3. handle => StreamCall(x.peer, "Abort") \in Carried
      BY <1>3, StreamsCarried
    <2>4. caller' = caller \/ (caller[j].pc = "idle" /\ \E m \in Carried : Start(j, m))
      BY <1>3, <1>6, <2>3 DEF DropWriter
    <2>5. QED
      BY <1>1, <1>6, <2>1, <2>2, <2>4, LinkKnown, HandlerKept
  <1>7. QED
    BY <1>5, <1>6 DEF SendReply

(* The chunks, the end of the stream and what goes wrong behind the handle. *)
LEMMA StreamStep ==
    ASSUME LinkInv, NEW j \in DOMAIN jobs,
           WriteChunk(j) \/ ChunkLost(j) \/ EncoderFailed(j) \/ Finish(j) \/ Finished(j)
    PROVE  LinkInv'
  <1> DEFINE x == jobs[j]
  <1>1. /\ x.pc \in {"handed", "writing", "closing"} /\ caller[j].pc = "idle"
        /\ UNCHANGED <<pending, abandoned, outbox, writing>>
    BY DEF WriteChunk, ChunkLost, EncoderFailed, Finish, Finished, WentWell, WentWrong, taskVars
  <1>2. /\ x \in Jobs /\ x.replies = <<"return">> /\ x.call.stream_reply
        /\ x.peer \in Destinations /\ outbox' \in Seq(Outbound)
    BY <1>1, HandlerKnown DEF JobOk
  <1>3. \A k \in {"Write", "Close", "Abort"} : StreamCall(x.peer, k) \in Carried
    BY <1>2, StreamsCarried
  <1>4. caller' = caller \/ \E m \in Carried : Start(j, m)
    BY <1>3 DEF WriteChunk, ChunkLost, EncoderFailed, Finish, Finished, DropWriter
  <1>5. ASSUME NEW pc \in {"writing", "closing", "over"},
               Step(j, [x EXCEPT !.pc = pc]), serial' = serial
        PROVE  LinkInv'
    <2> DEFINE q == [x EXCEPT !.pc = pc]
    <2>1. /\ q \in Jobs /\ q.pc = pc /\ q.replies = <<"return">> /\ q.call.stream_reply
          /\ q.peer \in Destinations /\ Step(j, q)
      BY <1>2, <1>5 DEF Jobs
    <2> HIDE DEF q
    <2>2. JobOk(q, writing)
      BY <2>1 DEF JobOk
    <2>3. QED
      BY <1>1, <1>2, <1>4, <1>5, <2>1, <2>2, HandlerKept
  <1>6. CASE Compose(j, [x EXCEPT !.broken = TRUE], "error")
    <2> DEFINE q == [[x EXCEPT !.broken = TRUE] EXCEPT !.pc = "sending", !.reply = "error"]
    <2>1. /\ q \in Jobs /\ q.pc = "sending" /\ q.reply = "error" /\ q.replies = <<"return">>
          /\ q.call.stream_reply /\ q.broken
      BY <1>2 DEF Jobs
    <2>2. Step(j, q) /\ serial' = serial + 1
      BY <1>6 DEF Compose
    <2> HIDE DEF q
    <2>3. JobOk(q, writing)
      BY <2>1 DEF JobOk
    <2>4. QED
      BY <1>1, <1>2, <1>4, <2>1, <2>2, <2>3, HandlerKept
  <1>7. QED
    BY <1>5, <1>6 DEF WriteChunk, ChunkLost, EncoderFailed, Finish, Finished

-----------------------------------------------------------------------------
(* Handlers and their calls.                                               *)

(* The slot and the signals of a call may change, not what it is for. *)
SameAim(r, q) == q.pc = r.pc /\ q.msg = r.msg /\ q.goal = r.goal /\ q.last = r.last

LEMMA HandlersKept ==
    ASSUME HandlersOk, jobs' = jobs,
           \A j \in Handlers :
             \/ SameAim(caller[j], caller'[j])
             \/ /\ caller[j].pc # "idle"
                /\ \A to : Opens(caller[j], to) => Opens(caller'[j], to)
    PROVE  HandlersOk'
  <1> SUFFICES ASSUME NEW j \in Handlers
               PROVE  IF j \in DOMAIN jobs THEN HandlerAt(jobs[j], caller'[j])
                      ELSE caller'[j].pc = "idle"
    BY DEF HandlersOk
  <1>1. IF j \in DOMAIN jobs THEN HandlerAt(jobs[j], caller[j]) ELSE caller[j].pc = "idle"
    BY DEF HandlersOk
  <1>2. CASE SameAim(caller[j], caller'[j])
    <2> DEFINE r == caller[j]
               q == caller'[j]
    <2>1. q.pc = r.pc /\ q.msg = r.msg /\ q.goal = r.goal /\ q.last = r.last
      BY <1>2 DEF SameAim
    <2> HIDE DEF r, q
    <2>2. \A to : Opens(r, to) => Opens(q, to)
      BY <2>1 DEF Opens, Aim
    <2>3. HandlerAt(jobs[j], r) => HandlerAt(jobs[j], q)
      BY <2>1, <2>2 DEF HandlerAt
    <2>4. QED
      BY <1>1, <2>1, <2>3 DEF r, q
  <1>3. CASE /\ caller[j].pc # "idle"
             /\ \A to : Opens(caller[j], to) => Opens(caller'[j], to)
    BY <1>1, <1>3 DEF HandlerAt
  <1>4. QED
    BY <1>2, <1>3

(* A call that goes on stays what it was made for. *)
LEMMA CallAims ==
    ASSUME LinkInv, NEW c \in Tasks, CallStep(c)
    PROVE  /\ caller[c].pc # "idle"
           /\ \A to : Opens(caller[c], to) => Opens(caller'[c], to)
           /\ \A d \in Tasks \ {c} : caller'[d] = caller[d]
  <1> DEFINE x == caller[c]
             a == caller[c].slot
             g == caller[c].goal
  <1>1. /\ DOMAIN caller = Tasks /\ CallerOk(c) /\ IsCaller(x)
        /\ x.pc = "register" => x.msg \in Sendable
    BY Known DEF LinkInv, LinkTypes, CallerOk
  <1>2. x.pc # "idle"
    BY DEF CallStep, Register, EnqueueCall, TakeReply, Expire, Reclaim
  <1>3. ASSUME NEW r, Move(c, r), \A to : Opens(x, to) => Opens(r, to)
        PROVE  /\ \A to : Opens(x, to) => Opens(caller'[c], to)
               /\ \A d \in Tasks \ {c} : caller'[d] = caller[d]
    BY <1>1, <1>3 DEF Move
  <1>4. \A to : Opens(Resting, to)
    BY RestingFresh DEF Opens
  <1>5. ASSUME NEW pc \in {"enqueue", "await", "reclaim"}, NEW r,
               /\ r.pc = pc /\ r.goal = x.goal
               /\ r.msg.member = x.msg.member /\ r.msg.destination = x.msg.destination
        PROVE  \A to : Opens(x, to) => Opens(r, to)
    BY <1>2, <1>5 DEF Opens, Aim
  <1>6. CASE Register(c)
    <2> DEFINE m == [x.msg EXCEPT !.serial = serial]
               r == [x EXCEPT !.pc = "enqueue", !.msg = m, !.serial = serial]
    <2>1. Move(c, r) /\ x.pc = "register"
      BY <1>6 DEF Register
    <2>2. m.member = x.msg.member /\ m.destination = x.msg.destination
      BY <1>1, <2>1, SendableShape
    <2>3. r.pc = "enqueue" /\ r.goal = x.goal /\ r.msg = m
      BY <1>1 DEF IsCaller, CallerFields
    <2> HIDE DEF r, m, x
    <2>4. \A to : Opens(x, to) => Opens(r, to)
      BY <1>5, <2>2, <2>3
    <2>5. QED
      BY <1>2, <1>3, <2>1, <2>4 DEF x
  <1>7. CASE Move(c, [x EXCEPT !.pc = "await"]) \/ Move(c, [x EXCEPT !.pc = "reclaim"])
    <2>1. PICK pc \in {"await", "reclaim"} : Move(c, [x EXCEPT !.pc = pc])
      BY <1>7
    <2> DEFINE r == [x EXCEPT !.pc = pc]
    <2>2. r.pc = pc /\ r.goal = x.goal /\ r.msg = x.msg
      BY <1>1 DEF IsCaller, CallerFields
    <2>3. Move(c, r)
      BY <2>1
    <2> HIDE DEF r, x
    <2>4. \A to : Opens(x, to) => Opens(r, to)
      BY <1>5, <2>2
    <2>5. QED
      BY <1>2, <1>3, <2>3, <2>4 DEF x
  <1>8. CASE Move(c, Resting)
    BY <1>2, <1>3, <1>4, <1>8
  <1>9. CASE g = None /\ Reply(c)
    <2> DEFINE l == [x EXCEPT !.last = None]
               r == [Resting EXCEPT !.last = l]
    <2>1. Move(c, r)
      BY <1>9 DEF Reply
    <2>2. l.msg = x.msg
      BY <1>1 DEF IsCaller, CallerFields
    <2>3. r.pc = "idle" /\ r.last = l
      BY DEF Resting
    <2> HIDE DEF l, r
    <2>4. \A to : Opens(x, to) => Opens(r, to)
      BY <1>2, <1>9, <2>2, <2>3 DEF Opens, Aim
    <2>5. QED
      BY <1>2, <1>3, <2>1, <2>4
  <1>10. CASE /\ g # None
              /\ Move(c, [Resting EXCEPT
                                  !.pc = "register", !.pinned = TRUE,
                                  !.msg = [g EXCEPT !.expected_responder = a.body]])
    <2> DEFINE n == [g EXCEPT !.expected_responder = a.body]
               r == [Resting EXCEPT !.pc = "register", !.pinned = TRUE, !.msg = n]
    <2>1. Move(c, r)
      BY <1>10
    <2>2. r.pc = "register" /\ r.goal = None /\ r.msg = n
      BY DEF Resting
    <2>3. n.member = g.member /\ n.destination = g.destination
      <3>1. DOMAIN g = DOMAIN BlankHeader
        BY <1>1, <1>10, CarriedShape DEF IsCaller
      <3>2. QED
        BY <3>1 DEF BlankHeader
    <2> HIDE DEF n, r
    <2>4. \A to : Opens(x, to) => Opens(r, to)
      BY <1>2, <1>10, <2>2, <2>3 DEF Opens, Aim
    <2>5. QED
      BY <1>2, <1>3, <2>1, <2>4
  <1>11. QED
    BY <1>2, <1>6, <1>7, <1>8, <1>9, <1>10
       DEF CallStep, EnqueueCall, TakeReply, Expire, Reclaim, Error

(* Whatever a caller, the writer or the dispatch task does, the handlers'    *)
(* calls stay what they were made for. *)
LEMMA OthersHandled ==
    ASSUME LinkInv, HandlersOk,
           \/ \E c \in Callers : Cancel(c) \/ \E m \in Outgoing : Begin(c, m)
           \/ \E t \in Tasks : CallStep(t)
           \/ \E m \in Published : TrySend(m)
           \/ WriterStep
           \/ \E s \in DOMAIN pending, a \in Answers : DispatchReply(s, a)
           \/ DispatchSignal \/ DispatchEnd
           \/ UNCHANGED vars
    PROVE  HandlersOk'
  <1>1. /\ DOMAIN caller = Tasks /\ \A t \in Tasks : IsCaller(caller[t])
        /\ \A j \in Handlers : j \in Tasks /\ j \notin Callers
    BY Known, TasksAssumption DEF LinkInv, LinkTypes, Tasks
  <1>2. jobs' = jobs
    BY DEF Cancel, Begin, CallStep, Register, EnqueueCall, TakeReply, Expire, Reclaim, TrySend,
           WriterStep, Write, WriteRefused, WriteFailed, DispatchReply, DispatchSignal,
           DispatchEnd, vars
  <1>3. CASE \E c \in Callers : Cancel(c) \/ \E m \in Outgoing : Begin(c, m)
    <2>1. PICK c \in Callers : Cancel(c) \/ \E m \in Outgoing : Begin(c, m)
      BY <1>3
    <2>2. \A j \in Handlers : caller'[j] = caller[j]
      BY <1>1, <2>1 DEF Cancel, Begin, Start, Move
    <2>3. QED
      BY <1>2, <2>2, HandlersKept DEF SameAim
  <1>4. CASE \E t \in Tasks : CallStep(t)
    <2>1. PICK t \in Tasks : CallStep(t)
      BY <1>4
    <2>2. /\ caller[t].pc # "idle"
          /\ \A to : Opens(caller[t], to) => Opens(caller'[t], to)
          /\ \A d \in Tasks \ {t} : caller'[d] = caller[d]
      BY <2>1, CallAims
    <2>3. QED
      BY <1>1, <1>2, <2>2, HandlersKept DEF SameAim
  <1>5. CASE caller' = caller
    BY <1>2, <1>5, HandlersKept DEF SameAim
  <1>6. CASE \E s, a : Deliver(s, a)
    <2>1. PICK s, a : Deliver(s, a)
      BY <1>6
    <2>2. ASSUME NEW j \in Handlers PROVE SameAim(caller[j], caller'[j])
      <3>1. caller'[j] = caller[j] \/ caller'[j] = [caller[j] EXCEPT !.slot = a]
        BY <1>1, <2>1 DEF Deliver
      <3>2. QED
        BY <1>1, <3>1 DEF SameAim, IsCaller, CallerFields
    <2>3. QED
      BY <1>2, <2>2, HandlersKept
  <1>7. CASE DispatchSignal
    <2>1. ASSUME NEW j \in Handlers PROVE SameAim(caller[j], caller'[j])
      <3>1. caller'[j] = [caller[j] EXCEPT
                       !.heard = IF caller[j].listens THEN @ + 1 ELSE @,
                       !.owed = IF Owed(caller[j]) THEN @ + 1 ELSE @]
        BY <1>1, <1>7 DEF DispatchSignal
      <3>2. QED
        BY <1>1, <3>1 DEF SameAim, IsCaller, CallerFields
    <2>2. QED
      BY <1>2, <2>1, HandlersKept
  <1>8. CASE DispatchEnd
    <2>1. ASSUME NEW j \in Handlers PROVE SameAim(caller[j], caller'[j])
      <3>1. caller'[j] = caller[j] \/ caller'[j] = [caller[j] EXCEPT !.slot = Dropped]
        BY <1>1, <1>8 DEF DispatchEnd
      <3>2. QED
        BY <1>1, <3>1 DEF SameAim, IsCaller, CallerFields
    <2>2. QED
      BY <1>2, <2>1, HandlersKept
  <1>9. QED
    BY <1>3, <1>4, <1>5, <1>6, <1>7, <1>8
       DEF TrySend, WriterStep, Write, WriteRefused, WriteFailed, DispatchReply, vars

LEMMA ArrivalHandled ==
    ASSUME LinkInv, HandlersOk, DispatchCall
    PROVE  HandlersOk'
  <1>1. PICK m \in Inbound : /\ Len(jobs) < MaxInbound /\ jobs' = Append(jobs, Received(m))
                             /\ caller' = caller
    BY DEF DispatchCall
  <1>2. /\ DOMAIN jobs' = 1..(Len(jobs) + 1) /\ DOMAIN jobs = 1..Len(jobs) /\ Len(jobs) \in Nat
        /\ \A i \in DOMAIN jobs : jobs'[i] = jobs[i]
        /\ jobs'[Len(jobs) + 1] = Received(m)
    BY <1>1, LinkKnown
  <1>3. \A r : r.pc = "idle" => HandlerAt(Received(m), r)
    BY DEF HandlerAt, Received
  <1>4. QED
    BY <1>1, <1>2, <1>3 DEF HandlersOk

(* A handler moves on to q. *)
LEMMA HandlerMoved ==
    ASSUME LinkInv, HandlersOk, NEW j \in DOMAIN jobs, NEW q \in Jobs, Step(j, q),
           HandlerAt(q, caller'[j]),
           caller' = caller \/ \E m : Start(j, m)
    PROVE  HandlersOk'
  <1>1. /\ DOMAIN jobs' = DOMAIN jobs
        /\ jobs'[j] = q /\ \A i \in DOMAIN jobs \ {j} : jobs'[i] = jobs[i]
    BY JobMoved DEF Step
  <1>2. \A i \in Handlers \ {j} : caller'[i] = caller[i]
    BY LinkKnown DEF Start, Move, Tasks
  <1>3. QED
    BY <1>1, <1>2 DEF HandlersOk

LEMMA ServeHandled ==
    ASSUME LinkInv, HandlersOk, NEW j \in DOMAIN jobs, Serve(j)
    PROVE  HandlersOk'
  <1> DEFINE x == jobs[j]
             m == jobs[j].call
  <1>1. /\ x \in Jobs /\ ReplyTo(m) \in Destinations /\ j \in Tasks
        /\ x.pc = "running" /\ caller[j].pc = "idle" /\ serial \in Nat
        /\ UNCHANGED <<pending, abandoned>>
    BY HandlerKnown, LinkKnown DEF Serve, HandlersOk, HandlerAt
  <1>2. ASSUME NEW reply \in {"return", "error"}, Compose(j, x, reply), caller' = caller,
               reply = "return" => ~m.stream_reply
        PROVE  HandlersOk'
    <2> DEFINE q == [x EXCEPT !.pc = "sending", !.reply = reply]
    <2>1. /\ q \in Jobs /\ q.pc = "sending" /\ q.reply = reply /\ q.call = m /\ Step(j, q)
      BY <1>1, <1>2 DEF Jobs, Compose
    <2> HIDE DEF q, x, m
    <2>2. HandlerAt(q, caller'[j])
      BY <1>2, <2>1 DEF HandlerAt
    <2>3. QED
      BY <1>2, <2>1, <2>2, HandlerMoved
  <1>3. CASE /\ Start(j, StreamCall(ReplyTo(m), "Open")) /\ serial' = serial
             /\ Step(j, [x EXCEPT !.pc = "opening"])
    <2> DEFINE q == [x EXCEPT !.pc = "opening"]
               o == StreamCall(ReplyTo(m), "Open")
    <2>1. q \in Jobs /\ q.pc = "opening" /\ q.call = m /\ Step(j, q)
      BY <1>1, <1>3 DEF Jobs
    <2>2. o \in Carried /\ o.member = "Open" /\ o.destination = ReplyTo(m)
      BY <1>1, StreamsCarried DEF StreamCall, MethodCall, BlankHeader
    <2>3. Start(j, o)
      BY <1>3
    <2> HIDE DEF q, o, x, m
    <2>4. caller'[j].pc = "register" /\ Aim(caller'[j]) = o
      BY <1>1, <1>3, <2>2, <2>3, Started
    <2>5. HandlerAt(q, caller'[j])
      BY <2>1, <2>2, <2>4 DEF HandlerAt, Opens
    <2>6. QED
      BY <2>1, <2>3, <2>5, HandlerMoved
  <1>4. QED
    BY <1>2, <1>3 DEF Serve

(* The stream was accepted by whoever the handle goes to. *)
LEMMA OpenedHandled ==
    ASSUME LinkInv, HandlersOk, NEW j \in DOMAIN jobs, Opened(j)
    PROVE  HandlersOk'
  <1> DEFINE x == jobs[j]
             r == caller[j]
             by == caller[j].last.slot.sender
             to == ReplyTo(jobs[j].call)
             peer == IF by # None THEN by ELSE to
  <1>1. /\ x \in Jobs /\ to \in Destinations /\ CallerOk(j)
        /\ x.pc = "opening" /\ caller' = caller /\ Opens(r, to)
    BY HandlerKnown DEF Opened, HandlersOk, HandlerAt
  <1>2. CASE Compose(j, x, "error")
    <2> DEFINE q == [x EXCEPT !.pc = "sending", !.reply = "error"]
    <2>1. /\ q \in Jobs /\ q.pc = "sending" /\ q.reply = "error" /\ Step(j, q)
      BY <1>1, <1>2 DEF Jobs, Compose
    <2> HIDE DEF q
    <2>2. HandlerAt(q, caller'[j])
      BY <2>1 DEF HandlerAt
    <2>3. QED
      BY <1>1, <2>1, <2>2, HandlerMoved
  <1>3. CASE WentWell(j) /\ Compose(j, [x EXCEPT !.peer = peer], "return")
    <2> DEFINE q == [[x EXCEPT !.peer = peer] EXCEPT !.pc = "sending", !.reply = "return"]
    <2>1. /\ r.pc = "idle" /\ r.last # None
          /\ r.last.msg.member = "Open" /\ r.last.msg.destination = to
      BY <1>1, <1>3 DEF WentWell, Opens
    <2>2. Right(r.last.msg, r.last.slot) /\ r.last.slot \in Answers
      BY <1>1, <2>1 DEF CallerOk, Answered
    <2>3. peer \in Destinations
      BY <1>1, <2>2 DEF Destinations
    <2>4. IsUnique(to) /\ r.last.slot.brokered => peer = to
      <3>1. to # BUS \/ ~IsUnique(to)
        BY DEF IsUnique
      <3>2. IsUnique(to) /\ r.last.slot.brokered => by = to
        BY <2>1, <2>2, <3>1 DEF Right
      <3>3. QED
        BY <3>2
    <2> HIDE DEF peer
    <2>5. /\ q \in Jobs /\ q.pc = "sending" /\ q.peer = peer /\ q.call = x.call
      BY <1>1, <2>3 DEF Jobs
    <2>6. Step(j, q)
      BY <1>3 DEF Compose
    <2> HIDE DEF q
    <2>7. HandlerAt(q, r)
      BY <1>1, <2>1, <2>4, <2>5 DEF HandlerAt
    <2>8. QED
      BY <1>1, <2>5, <2>6, <2>7, HandlerMoved
  <1>4. QED
    BY <1>2, <1>3 DEF Opened

(* The other steps of a handler promise nothing of a handle. *)
LEMMA StepHandled ==
    ASSUME LinkInv, HandlersOk, NEW j \in DOMAIN jobs,
           \/ SendReply(j) \/ WriteChunk(j) \/ ChunkLost(j) \/ EncoderFailed(j)
           \/ Finish(j) \/ Finished(j),
           jobs' \in Seq(Jobs)
    PROVE  HandlersOk'
  <1> DEFINE q == jobs'[j]
  <1>1. jobs \in Seq(Jobs) /\ jobs[j] \in Jobs
    BY LinkKnown
  <1>2. /\ Step(j, q)
        /\ q.pc \in {"handed", "writing", "closing", "over"}
           \/ (q.pc = "sending" /\ q.reply = "error")
    <2>1. ASSUME NEW p, Step(j, p) PROVE p = q /\ Step(j, q)
      BY <1>1, <2>1 DEF Step
    <2>2. CASE SendReply(j)
      <3>1. \/ \E pc \in {"handed", "over"} :
                 Step(j, [jobs[j] EXCEPT !.pc = pc, !.replies = Append(@, jobs[j].reply)])
            \/ Step(j, [jobs[j] EXCEPT !.pc = "over"])
        BY <2>2 DEF SendReply
      <3>2. CASE \E pc \in {"handed", "over"} :
                   Step(j, [jobs[j] EXCEPT !.pc = pc, !.replies = Append(@, jobs[j].reply)])
        <4>1. PICK pc \in {"handed", "over"} :
                     Step(j, [jobs[j] EXCEPT !.pc = pc, !.replies = Append(@, jobs[j].reply)])
          BY <3>2
        <4> DEFINE p == [jobs[j] EXCEPT !.pc = pc, !.replies = Append(@, jobs[j].reply)]
        <4>2. p.pc = pc
          BY <1>1 DEF Jobs
        <4> HIDE DEF p
        <4>3. p = q /\ Step(j, q)
          BY <2>1, <4>1 DEF p
        <4>4. QED
          BY <4>2, <4>3
      <3>3. CASE Step(j, [jobs[j] EXCEPT !.pc = "over"])
        <4> DEFINE p == [jobs[j] EXCEPT !.pc = "over"]
        <4>1. p.pc = "over"
          BY <1>1 DEF Jobs
        <4> HIDE DEF p
        <4>2. p = q /\ Step(j, q)
          BY <2>1, <3>3 DEF p
        <4>3. QED
          BY <4>1, <4>2
      <3>4. QED
        BY <3>1, <3>2, <3>3
    <2>3. CASE EncoderFailed(j)
      <3>1. Step(j, [[jobs[j] EXCEPT !.broken = TRUE] EXCEPT !.pc = "sending", !.reply = "error"])
        BY <2>3 DEF EncoderFailed, Compose
      <3> DEFINE p == [[jobs[j] EXCEPT !.broken = TRUE] EXCEPT !.pc = "sending", !.reply = "error"]
      <3>2. p.pc = "sending" /\ p.reply = "error"
        BY <1>1 DEF Jobs
      <3> HIDE DEF p
      <3>3. p = q /\ Step(j, q)
        BY <2>1, <3>1 DEF p
      <3>4. QED
        BY <3>2, <3>3
    <2>4. CASE WriteChunk(j) \/ ChunkLost(j) \/ Finish(j) \/ Finished(j)
      <3>1. \E pc \in {"writing", "closing", "over"} : Step(j, [jobs[j] EXCEPT !.pc = pc])
        BY <2>4 DEF WriteChunk, ChunkLost, Finish, Finished
      <3>2. QED
        BY <1>1, <2>1, <3>1 DEF Jobs
    <2>5. QED
      BY <2>2, <2>3, <2>4
  <1>3. q \in Jobs
    BY <1>1, <1>2 DEF Step
  <1>4. caller' = caller \/ \E m : Start(j, m)
    BY DEF SendReply, WriteChunk, ChunkLost, EncoderFailed, Finish, Finished, DropWriter
  <1> HIDE DEF q
  <1>5. HandlerAt(q, caller'[j])
    BY <1>2 DEF HandlerAt
  <1>6. QED
    BY <1>2, <1>3, <1>4, <1>5, HandlerMoved

-----------------------------------------------------------------------------
(* The theorems.                                                           *)

LEMMA LinkInit == Init => LinkInv /\ HandlersOk
  <1> SUFFICES ASSUME Init PROVE LinkInv /\ HandlersOk
    OBVIOUS
  <1>1. /\ caller = [t \in Tasks |-> Resting] /\ serial = 1
        /\ DOMAIN pending = {} /\ outbox = <<>> /\ writing = "running" /\ jobs = <<>>
    BY DEF Init
  <1>2. LinkTypes
    BY <1>1, CapacityAssumption DEF LinkTypes
  <1>3. ASSUME NEW c \in Tasks PROVE CallerOk(c)
    <2>1. caller[c] = Resting
      BY <1>1
    <2>2. QED
      BY <1>1, <2>1, RestingFresh DEF CallerOk, Waiting
  <1>4. SerialsApart /\ NoSlotLeaked /\ JobsOk /\ HandlersOk
    BY <1>1, RestingFresh DEF SerialsApart, NoSlotLeaked, JobsOk, HandlersOk, Tasks
  <1>5. QED
    BY <1>2, <1>3, <1>4 DEF LinkInv

LEMMA LinkStutters ==
    ASSUME LinkInv, UNCHANGED vars
    PROVE  LinkInv'
  <1>1. UNCHANGED <<caller, pending, abandoned, writing, serial, outbox, jobs>>
    BY DEF vars
  <1>2. JobsOk'
    BY <1>1, LinkKnown DEF JobsOk
  <1>3. QED
    BY <1>1, <1>2, LinkKnown, Unnoticed

(* The link's bookkeeping holds for any callers, messages, answers and      *)
(* capacities: connection.rs `call_raw_message`, `enqueue`, `refuse_call`,  *)
(* the dispatch loop, `handle_call` and `send_streamed_reply`, in any order. *)
THEOREM LinkInvariant == Spec => [](LinkInv /\ HandlersOk)
  <1>1. ASSUME LinkInv, HandlersOk, [Next]_vars PROVE LinkInv' /\ HandlersOk'
    <2>1. CASE \E c \in Callers : Cancel(c) \/ \E m \in Outgoing : Begin(c, m)
      BY <1>1, <2>1, BeginStep, CancelStep, OthersHandled DEF Tasks
    <2>2. CASE \E t \in Tasks : CallStep(t)
      <3>1. LinkInv'
        BY <1>1, <2>2, RegisterStep, EnqueueStep, TakeReplyStep, ExpireStep, ReclaimStep
           DEF CallStep
      <3>2. QED
        BY <1>1, <2>2, <3>1, OthersHandled
    <2>3. CASE \E m \in Published : TrySend(m)
      BY <1>1, <2>3, TrySendStep, OthersHandled
    <2>4. CASE WriterStep
      <3>1. LinkInv'
        BY <1>1, <2>4, WriteStep, WriteRefusedStep, WriteFailedStep DEF WriterStep
      <3>2. QED
        BY <1>1, <2>4, <3>1, OthersHandled
    <2>5. CASE \E s \in DOMAIN pending, a \in Answers : DispatchReply(s, a)
      BY <1>1, <2>5, DispatchReplyStep, OthersHandled
    <2>6. CASE DispatchSignal \/ DispatchEnd
      BY <1>1, <2>6, DispatchSignalStep, DispatchEndStep, OthersHandled
    <2>7. CASE DispatchCall
      BY <1>1, <2>7, DispatchCallStep, ArrivalHandled
    <2>8. CASE \E j \in DOMAIN jobs : JobStep(j)
      <3>1. PICK j \in DOMAIN jobs : JobStep(j)
        BY <2>8
      <3>2. LinkInv'
        BY <1>1, <3>1, ServeStep, OpenedStep, SendReplyStep, StreamStep DEF JobStep
      <3>3. jobs' \in Seq(Jobs)
        BY <3>2 DEF LinkInv, LinkTypes
      <3>4. HandlersOk'
        BY <1>1, <3>1, <3>3, ServeHandled, OpenedHandled, StepHandled DEF JobStep
      <3>5. QED
        BY <3>2, <3>4
    <2>9. CASE UNCHANGED vars
      BY <1>1, <2>9, LinkStutters, OthersHandled
    <2>10. QED
      BY <1>1, <2>1, <2>2, <2>3, <2>4, <2>5, <2>6, <2>7, <2>8, <2>9 DEF Next
  <1>2. QED
    BY <1>1, LinkInit, PTL DEF Spec

LEMMA LinkAnswers == LinkInv /\ HandlersOk => AnsweredAsCaptured
  <1> SUFFICES ASSUME LinkInv, HandlersOk PROVE AnsweredAsCaptured
    OBVIOUS
  <1>1. AnsweredByItsResponder
    <2> SUFFICES ASSUME NEW c \in Tasks, caller[c].last # None
                 PROVE  Right(caller[c].last.msg, caller[c].last.slot)
      BY DEF AnsweredByItsResponder, Right
    <2>1. QED
      BY DEF LinkInv, CallerOk, Answered
  <1>2. CaptureHonoured
    <2>1. \A i \in DOMAIN outbox : outbox[i] \in Outbound
      BY LinkKnown
    <2>2. QED
      BY <2>1, OutboundCaptured DEF CaptureHonoured, Carried
  <1>3. InboundAnswered
    <2> SUFFICES ASSUME NEW j \in DOMAIN jobs
                 PROVE  /\ jobs[j].pc = "over" => jobs[j].replies # <<>> \/ writing = "ended"
                        /\ \/ Len(jobs[j].replies) <= 1
                           \/ /\ jobs[j].replies = <<"return", "error">>
                              /\ jobs[j].call.stream_reply /\ jobs[j].broken
      BY DEF InboundAnswered
    <2> DEFINE q == jobs[j]
    <2>1. q \in Jobs /\ JobOk(q, writing)
      BY HandlerKnown
    <2>2. /\ Len(<<>>) = 0
          /\ Len(<<"return">>) = 1 /\ Len(<<"error">>) = 1
          /\ <<"return">> # <<>> /\ <<"error">> # <<>>
          /\ <<"return", "error">> # <<>>
      OBVIOUS
    <2>3. q.pc \in {"running", "opening", "sending", "handed", "writing", "closing", "over"}
      BY <2>1 DEF Jobs
    <2> HIDE DEF q
    <2>4. \/ q.replies = <<>> \/ q.replies = <<"return">> \/ q.replies = <<"error">>
          \/ q.replies = <<"return", "error">> /\ q.call.stream_reply /\ q.broken
      BY <2>1, <2>3 DEF JobOk
    <2>5. q.pc = "over" => q.replies # <<>> \/ writing = "ended"
      BY <2>1, <2>2 DEF JobOk
    <2>6. \/ Len(q.replies) <= 1
          \/ q.replies = <<"return", "error">> /\ q.call.stream_reply /\ q.broken
      <3>1. CASE q.replies = <<>>
        BY <3>1
      <3>2. CASE q.replies = <<"return">>
        BY <3>2
      <3>3. CASE q.replies = <<"error">>
        BY <3>3
      <3>4. QED
        BY <2>4, <3>1, <3>2, <3>3
    <2>7. QED
      BY <2>5, <2>6 DEF q
  <1>4. HandleIsOpen
    <2> SUFFICES ASSUME NEW j \in DOMAIN jobs, jobs[j].call.stream_reply,
                        jobs[j].pc = "sending", jobs[j].reply = "return"
                 PROVE  /\ caller[j].last # None /\ caller[j].last.msg.member = "Open"
                        /\ IsUnique(ReplyTo(jobs[j].call)) /\ caller[j].last.slot.brokered
                           => jobs[j].peer = ReplyTo(jobs[j].call)
      BY DEF HandleIsOpen
    <2>1. HandlerAt(jobs[j], caller[j])
      BY HandlerKnown DEF HandlersOk
    <2>2. QED
      BY <2>1 DEF HandlerAt, Opens
  <1>5. QED
    BY <1>1, <1>2, <1>3, <1>4 DEF AnsweredAsCaptured

LEMMA LinkServes == LinkInv => WaitersServed
  <1> SUFFICES ASSUME LinkInv PROVE WaitersServed
    OBVIOUS
  <1>1. WaitersReachable
    <2> SUFFICES ASSUME NEW c \in Tasks, caller[c].pc = "await", caller[c].slot = None
                 PROVE  caller[c].serial \in DOMAIN pending
      BY DEF WaitersReachable
    <2>1. QED
      BY DEF LinkInv, CallerOk, Listed
  <1>2. SubscribedBeforeRule
    <2> SUFFICES ASSUME NEW c \in Callers, caller[c].last # None
                 PROVE  caller[c].last.owed <= caller[c].last.heard
      BY DEF SubscribedBeforeRule
    <2>1. QED
      BY DEF LinkInv, CallerOk, Answered, Tasks
  <1>3. QED
    BY <1>1, <1>2 DEF WaitersServed, LinkInv

(* Whatever the far end sends, however late, twice or forged, a call that    *)
(* returns a reply returns one from the peer it was captured for before it   *)
(* was sent (`PendingReply::accepts`), and what the outbox holds still asks  *)
(* for the responder its caller asked for.  Each inbound call is answered    *)
(* unless the writer is gone, and twice only if it was streamed and its      *)
(* encoder failed behind the handle (`handle_call`); a handle that is sent   *)
(* is that of a stream its caller accepted (`send_streamed_reply`).          *)
THEOREM AnswersAreCaptured == Spec => []AnsweredAsCaptured
  <1>1. QED
    BY LinkInvariant, LinkAnswers, PTL

(* A call in `timeout(rx)` with an empty slot is in the table, an entry of   *)
(* the table belongs to a call in progress or to one whose future was        *)
(* dropped, and the receiver of `add_match` listens from before its rule     *)
(* left.                                                                     *)
THEOREM WaitersAreServed == Spec => []WaitersServed
  <1>1. QED
    BY LinkInvariant, LinkServes, PTL
=============================================================================
