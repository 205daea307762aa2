----------------------------- MODULE Connection -----------------------------
(***************************************************************************)
(* A peer's end of its link to the broker, connection.rs: concurrent       *)
(* callers, the writer task that owns the outbox, the dispatch task that   *)
(* owns recv, and the spawned handlers of inbound calls.                   *)
(*                                                                         *)
(* A step is what a task does between two awaits.  The far end is the      *)
(* environment: any answer of the set Answers may arrive for any serial    *)
(* ever used, early, late, twice or never; a signal or a call may arrive   *)
(* at any time; the link may close, refuse one frame or break.             *)
(*                                                                         *)
(* A handler whose caller asked for a streamed reply makes calls itself,   *)
(* by the same code and through the same table and outbox as any caller:   *)
(* the tasks that call are the callers and the handlers.                   *)
(***************************************************************************)
EXTENDS Message, Functions, FiniteSets

CONSTANTS
    Callers,         \* tasks using clones of the connection
    Outgoing,        \* messages they hand to call_raw, send and add_match
    Published,       \* signals a synchronous publisher hands to try_send
    Answers,         \* replies the far end may send, to any serial
    Inbound,         \* calls the far end may make
    OutboxCap,       \* OUTBOX_CAPACITY
    MaxSerial,       \* serials ever assigned
    LastBegin,       \* the last serial at which a caller or publisher starts
    MaxSignals,      \* signals dispatched while one call is in progress
    MaxInbound       \* inbound calls ever dispatched

ASSUME CapacityAssumption ==
    /\ OutboxCap \in Nat \ {0} /\ MaxSerial \in Nat
    /\ MaxSignals \in Nat /\ MaxInbound \in Nat

(* Inbound calls, in the order they arrive; each is a task of its own. *)
Handlers == 1..MaxInbound

ASSUME TasksAssumption == Callers \cap Handlers = {}

Tasks == Callers \cup Handlers

VARIABLES
    caller,          \* task -> what its call is doing
    serial,          \* the next serial
    pending,         \* serial -> PendingReply
    outbox,          \* messages waiting for the writer task
    writing,         \* "running" or "ended": the writer task
    reading,         \* "running" or "ended": the dispatch task
    handshaken,      \* whether unique_name is set
    jobs,            \* inbound call -> its handler and the replies it enqueued
    abandoned        \* history: serials of calls whose future was dropped

vars == <<caller, serial, pending, outbox, writing, reading, handshaken,
          jobs, abandoned>>

taskVars == <<writing, reading>>

-----------------------------------------------------------------------------
(* A task's call.  pc is where its future waits:                           *)
(*   idle      no call                                                     *)
(*   register  about to take a serial and insert its pending entry         *)
(*   enqueue   in outbox.send                                              *)
(*   await     in timeout(rx)                                              *)
(*   reclaim   timed out, about to remove its pending entry                *)
(* goal is the call on whose behalf ResolveCallTarget is in flight, pinned  *)
(* whether the broker has named its responder; slot is the oneshot: None   *)
(* while empty, Dropped, or an answer; listens whether the call has a      *)
(* receiver of signals, heard how many reached it.  owed, the signals that *)
(* came since an add_match left, and last, the last call that returned a   *)
(* reply, are history.                                                     *)

Resting == [pc |-> "idle", msg |-> None, goal |-> None, pinned |-> FALSE,
            serial |-> 0, slot |-> None, listens |-> FALSE, heard |-> 0, owed |-> 0, last |-> None]

(* What `accepts` looks at in a reply, and the proof of its delivery. *)
Answer(type, sender, confidential, brokered, body) ==
    [type |-> type, sender |-> sender, confidential |-> confidential,
     brokered |-> brokered, body |-> body]

Dropped == Answer("dropped", None, FALSE, FALSE, None)

Refusal == Answer("error", None, FALSE, FALSE, None)

IsCall(m) == m.type = "method_call"

IsAddMatch(m) == m.destination = BUS /\ m.member = "AddMatch"

(* A call of the stream interface, `call_stream_member_message`. *)
StreamCall(destination, member) ==
    MethodCall(destination, <<"streams">>, "Streams", member, None)

(* A direct link has nobody to stamp the sender; the destination names its
   only peer. *)
ReplyTo(m) == IF m.sender # None THEN m.sender ELSE m.destination

(* Whom streams are opened to, and all the calls of a stream. *)
Destinations == {ReplyTo(m) : m \in Inbound} \cup {a.sender : a \in Answers}

StreamCalls ==
    {StreamCall(p, k) : p \in Destinations, k \in {"Open", "Write", "Close", "Abort"}}

(* Messages are headers without a serial, what try_send publishes expects no
   reply, and neither a message nor an answer is an absent one. *)
ASSUME MessagesAssumption ==
    /\ \A m \in Outgoing : m.serial = 0 /\ m = [f \in DOMAIN BlankHeader |-> m[f]]
    /\ \A m \in Published : ~IsCall(m)
    /\ None \notin Answers \cup {Dropped, Refusal} \cup Outgoing \cup StreamCalls

Move(c, r) == caller' = [caller EXCEPT ![c] = r]

(* A handler.  pc is where its task is:                                    *)
(*   running   in the method                                               *)
(*   opening   in the Open of a stream to its caller                       *)
(*   sending   in outbox.send of `reply`                                   *)
(*   handed    the stream's handle is sent, none of its bytes              *)
(*   writing   in the Write of a chunk                                     *)
(*   closing   in Close                                                    *)
(* peer is who accepted the stream; replies is history: what the outbox    *)
(* took, and broken whether the encoder of the stream failed.              *)
Received(m) ==
    [pc |-> "running", call |-> m, reply |-> None, peer |-> None,
     replies |-> <<>>, broken |-> FALSE]

Step(j, q) == jobs' = [jobs EXCEPT ![j] = q]

Forget(s) == pending' = Restrict(pending, DOMAIN pending \ {s})

(* The call returns the reply in its slot. *)
Reply(c) == Move(c, [Resting EXCEPT !.last = [caller[c] EXCEPT !.last = None]])

(* The call returns an error: closed, timed out, or what the reply said. *)
Error(c) == Move(c, Resting)

(* mpsc: send waits while the channel is full and fails once it is closed. *)
HasRoom == Len(outbox) < OutboxCap

Accept(m) == outbox' = Append(outbox, m)

Init ==
    /\ caller = [t \in Tasks |-> Resting]
    /\ serial = 1                     \* zero means unassigned
    /\ pending = <<>>
    /\ outbox = <<>>
    /\ writing = "running" /\ reading = "running"
    /\ handshaken = FALSE
    /\ jobs = <<>>
    /\ abandoned = {}

-----------------------------------------------------------------------------
(* Calls *)

(* What `call_raw_message` and `send` refuse in the caller's own process. *)
RefusedLocally(m) ==
    \/ ~Validate(m)
    \/ /\ IsCall(m)
       /\ \/ m.confidential /\ m.stream_reply
          \/ (m.confidential \/ m.sensitive) /\ m.body = "stream_ref"

ResolveCallTarget(m) == MethodCall(BUS, <<>>, BUS, "ResolveCallTarget", m.destination)

(* A call by well-known name is pinned to the owner the broker names first. *)
NeedsResolving(m) ==
    /\ IsCall(m) /\ m.destination # BUS /\ ~IsUnique(m.destination)
    /\ handshaken

(* A task starts a call; add_match subscribes its receiver before anything
   else. *)
Start(t, m) ==
    Move(t, [Resting EXCEPT
               !.pc = "register",
               !.msg = IF NeedsResolving(m) THEN ResolveCallTarget(m) ELSE m,
               !.goal = IF NeedsResolving(m) THEN m ELSE None,
               !.listens = IsAddMatch(m)])

(* A caller starts one.  A connection shakes hands once. *)
Begin(c, m) ==
    /\ caller[c].pc = "idle" /\ serial <= LastBegin
    /\ ~RefusedLocally(m)
    /\ m.member = "Hello" => ~handshaken
    /\ Start(c, m)
    /\ UNCHANGED <<serial, pending, outbox, taskVars, handshaken, jobs,
                   abandoned>>

(* Whose answer the call will take, captured before it is sent. *)
Pending(c, m) ==
    [by |-> c,
     expected |-> CASE m.destination = BUS -> None
                    [] IsUnique(m.destination) -> m.destination
                    [] OTHER -> IF caller[c].pinned THEN m.expected_responder
                                ELSE None,
     bus_control |-> m.destination = BUS,
     confidential |-> m.confidential,
     unverified_direct |-> ~handshaken]

(* serial.fetch_add, then the pending entry, before the message can go out. *)
Register(c) ==
    LET m == [caller[c].msg EXCEPT !.serial = serial]
    IN  /\ caller[c].pc = "register"
        /\ serial <= MaxSerial
        /\ serial' = serial + 1
        /\ Move(c, [caller[c] EXCEPT !.pc = "enqueue", !.msg = m, !.serial = serial])
        /\ pending' = IF IsCall(m)
                      THEN [s \in DOMAIN pending \cup {serial} |->
                              IF s = serial THEN Pending(c, m) ELSE pending[s]]
                      ELSE pending
        /\ UNCHANGED <<outbox, taskVars, handshaken, jobs, abandoned>>

(* `enqueue`.  The deadline of the call does not cover this wait. *)
EnqueueCall(c) ==
    /\ caller[c].pc = "enqueue"
    /\ \/ /\ writing = "running" /\ HasRoom
          /\ Accept(caller[c].msg)
          /\ IF IsCall(caller[c].msg)
             THEN Move(c, [caller[c] EXCEPT !.pc = "await"])
             ELSE Move(c, Resting)
          /\ UNCHANGED pending
       \/ /\ writing = "ended"
          /\ Forget(caller[c].serial)
          /\ Error(c)
          /\ UNCHANGED outbox
    /\ UNCHANGED <<serial, taskVars, handshaken, jobs, abandoned>>

(* The broker's answer must be a unique name, and the one the caller asked
   for if it asked for one. *)
OwnerAgrees(goal, owner) ==
    /\ IsUnique(owner)
    /\ goal.expected_responder \in {None, owner}

(* rx is ready: a reply, an error, or the dropped sender of a dead link.  A
   resolved owner is pinned on the call and the call goes on. *)
TakeReply(c) ==
    LET a == caller[c].slot
        g == caller[c].goal
    IN  /\ caller[c].pc = "await" /\ a # None
        /\ \/ a.type \in {"error", "dropped"} /\ Error(c)
           \/ a.type = "method_return" /\ g = None /\ Reply(c)
           \/ /\ a.type = "method_return" /\ g # None
              /\ \/ ~OwnerAgrees(g, a.body) /\ Error(c)
                 \/ /\ OwnerAgrees(g, a.body)
                    /\ Move(c, [Resting EXCEPT
                                  !.pc = "register", !.pinned = TRUE,
                                  !.msg = [g EXCEPT !.expected_responder = a.body]])
        /\ handshaken' = \/ handshaken
                         \/ caller[c].msg.member = "Hello" /\ a.type = "method_return"
        /\ UNCHANGED <<serial, pending, outbox, taskVars, jobs, abandoned>>

(* Mutant: only the negotiation has a deadline. *)
Expire_Negotiation(c) ==
    /\ caller[c].pc = "await" /\ caller[c].slot = None
    /\ caller[c].goal # None
    /\ Move(c, [caller[c] EXCEPT !.pc = "reclaim"])
    /\ UNCHANGED <<serial, pending, outbox, taskVars, handshaken, jobs, abandoned>>

(* The deadline passes with nothing in the slot (timeout polls rx first). *)
Expire(c) ==
    /\ caller[c].pc = "await" /\ caller[c].slot = None
    /\ Move(c, [caller[c] EXCEPT !.pc = "reclaim"])
    /\ UNCHANGED <<serial, pending, outbox, taskVars, handshaken, jobs, abandoned>>

(* The slot is reclaimed; a reply that came in between is lost. *)
Reclaim(c) ==
    /\ caller[c].pc = "reclaim"
    /\ Forget(caller[c].serial)
    /\ Error(c)
    /\ UNCHANGED <<serial, outbox, taskVars, handshaken, jobs, abandoned>>

(* The caller's future is dropped at an await (a select, a failed try_join):
   no code of the call runs any more. *)
Cancel(c) ==
    /\ caller[c].pc # "idle"
    /\ Move(c, Resting)
    /\ abandoned' = abandoned \cup ({caller[c].serial} \cap DOMAIN pending)
    /\ UNCHANGED <<serial, pending, outbox, taskVars, handshaken, jobs>>

(* `try_send`: Backpressure when full, ConnectionClosed when closed; the
   serial is spent either way. *)
TrySend(m) ==
    /\ serial <= MaxSerial /\ serial <= LastBegin
    /\ serial' = serial + 1
    /\ IF writing = "running" /\ HasRoom
       THEN Accept([m EXCEPT !.serial = serial])
       ELSE UNCHANGED outbox
    /\ UNCHANGED <<caller, pending, taskVars, handshaken, jobs, abandoned>>

-----------------------------------------------------------------------------
(* Writer task *)

(* Put an answer into the slot of the caller waiting for serial s; nobody
   may be waiting any more. *)
Deliver(s, answer) ==
    caller' = [t \in Tasks |->
                 IF caller[t].serial = s /\ caller[t].pc \in {"enqueue", "await"}
                 THEN [caller[t] EXCEPT !.slot = answer] ELSE caller[t]]

Write ==
    /\ writing = "running" /\ outbox # <<>>
    /\ outbox' = Tail(outbox)
    /\ UNCHANGED <<caller, serial, pending, taskVars, handshaken, jobs, abandoned>>

(* Mutant: the refused call's entry is dropped and nobody is told. *)
WriteRefused_Silent ==
    /\ writing = "running" /\ outbox # <<>>
    /\ outbox' = Tail(outbox)
    /\ Forget(Head(outbox).serial)
    /\ UNCHANGED <<caller, serial, taskVars, handshaken, jobs, abandoned>>

(* Error::Protocol: this message is refused, the link is sound.  A call that
   still waits is answered with the refusal (`refuse_call`). *)
WriteRefused ==
    LET m == Head(outbox)
        waits == IsCall(m) /\ m.serial \in DOMAIN pending
    IN  /\ writing = "running" /\ outbox # <<>>
        /\ outbox' = Tail(outbox)
        /\ IF waits THEN Forget(m.serial) /\ Deliver(m.serial, Refusal)
                    ELSE UNCHANGED <<pending, caller>>
        /\ UNCHANGED <<serial, taskVars, handshaken, jobs, abandoned>>

(* Any other error ends the writer, and the outbox with it. *)
WriteFailed ==
    /\ writing = "running" /\ outbox # <<>>
    /\ writing' = "ended"
    /\ outbox' = <<>>
    /\ UNCHANGED <<caller, serial, pending, reading, handshaken, jobs, abandoned>>

-----------------------------------------------------------------------------
(* Dispatch task *)

(* Mutant: any peer may answer. *)
Accepts_AnyPeer(p, a) == a.type = "error" \/ (p.confidential => a.confidential)

(* `PendingReply::accepts`. *)
Accepts(p, a) ==
    /\ CASE p.bus_control       -> a.sender \in {None, BUS}
         [] p.expected # None   -> \/ a.sender = p.expected
                                   \/ a.type = "error" /\ a.sender = BUS
                                   \/ /\ p.unverified_direct /\ ~a.brokered
                                      /\ a.sender = None
         [] OTHER               -> ~a.brokered
    /\ a.type = "error" \/ (p.confidential => a.confidential)

(* A reply for serial s: taken if that call waits for it, dropped if not. *)
DispatchReply(s, a) ==
    /\ reading = "running"
    /\ s \in DOMAIN pending
    /\ Accepts(pending[s], a)
    /\ Forget(s)
    /\ Deliver(s, a)
    /\ UNCHANGED <<serial, outbox, taskVars, handshaken, jobs, abandoned>>

(* A signal goes to every receiver of this connection; who has none loses
   it.  A subscription is owed every signal from when its rule left. *)
Owed(r) == r.pc = "await" /\ IsAddMatch(r.msg)

DispatchSignal ==
    /\ reading = "running"
    /\ \E t \in Tasks : caller[t].listens \/ Owed(caller[t])
    /\ \A t \in Tasks : caller[t].heard < MaxSignals /\ caller[t].owed < MaxSignals
    /\ caller' = [t \in Tasks |->
                    [caller[t] EXCEPT
                       !.heard = IF caller[t].listens THEN @ + 1 ELSE @,
                       !.owed = IF Owed(caller[t]) THEN @ + 1 ELSE @]]
    /\ UNCHANGED <<serial, pending, outbox, taskVars, handshaken, jobs, abandoned>>

(* A call is handed to a task of its own. *)
DispatchCall ==
    /\ reading = "running"
    /\ Len(jobs) < MaxInbound
    /\ \E m \in Inbound : jobs' = Append(jobs, Received(m))
    /\ UNCHANGED <<caller, serial, pending, outbox, taskVars, handshaken, abandoned>>

(* End of stream or a read error, after `close`, the last handle dropped or
   the far end hanging up; every waiter is woken. *)
DispatchEnd ==
    /\ reading = "running"
    /\ reading' = "ended"
    /\ pending' = <<>>
    /\ caller' = [t \in Tasks |->
                    IF caller[t].serial \in DOMAIN pending
                    THEN [caller[t] EXCEPT !.slot = Dropped] ELSE caller[t]]
    /\ UNCHANGED <<serial, outbox, writing, handshaken, jobs, abandoned>>

-----------------------------------------------------------------------------
(* Handlers of inbound calls, `handle_call` and `send_streamed_reply`.  A
   call a handler made is over once its task is idle again, and went well if
   it left a reply. *)

WentWell(j) == caller[j].pc = "idle" /\ caller[j].last # None

WentWrong(j) == caller[j].pc = "idle" /\ caller[j].last = None

(* The reply, which takes its serial and waits for the outbox.  Nobody waits
   for an answer to that serial. *)
Compose(j, q, reply) ==
    /\ serial <= MaxSerial
    /\ serial' = serial + 1
    /\ Step(j, [q EXCEPT !.pc = "sending", !.reply = reply])

(* StreamWriter::drop: a writer not finished aborts, in a task of its own. *)
DropWriter(j) == Start(j, StreamCall(jobs[j].peer, "Abort"))

(* The method returns or fails, or the call asked for a stream no secret may
   travel by.  What is to be streamed is measured, and the stream opened. *)
Serve(j) ==
    LET m == jobs[j].call
    IN  /\ jobs[j].pc = "running"
        /\ \/ Compose(j, jobs[j], "error") /\ UNCHANGED caller
           \/ /\ ~m.stream_reply
              /\ Compose(j, jobs[j], "return") /\ UNCHANGED caller
           \/ /\ m.stream_reply /\ ~m.confidential
              /\ Start(j, StreamCall(ReplyTo(m), "Open"))
              /\ Step(j, [jobs[j] EXCEPT !.pc = "opening"])
              /\ UNCHANGED serial
        /\ UNCHANGED <<pending, outbox, taskVars, handshaken, abandoned>>

(* Mutant: the handle goes out before the stream is accepted. *)
Opened_Early(j) ==
    /\ jobs[j].pc = "opening" /\ caller[j].pc = "idle"
    /\ Compose(j, [jobs[j] EXCEPT !.peer = ReplyTo(jobs[j].call)], "return")
    /\ UNCHANGED <<caller, pending, outbox, taskVars, handshaken, abandoned>>

(* The stream belongs to whoever accepted it, and its handle is the reply.
   What Open returned may be no handle. *)
Opened(j) ==
    LET by == caller[j].last.slot.sender
        peer == IF by # None THEN by ELSE ReplyTo(jobs[j].call)
    IN  /\ jobs[j].pc = "opening"
        /\ \/ caller[j].pc = "idle" /\ Compose(j, jobs[j], "error")
           \/ WentWell(j) /\ Compose(j, [jobs[j] EXCEPT !.peer = peer], "return")
        /\ UNCHANGED <<caller, pending, outbox, taskVars, handshaken, abandoned>>

(* `send_reply`: through the same outbox; a closed one drops the reply, and
   with a handle its writer. *)
SendReply(j) ==
    LET q == jobs[j]
        handle == q.reply = "return" /\ q.call.stream_reply
    IN  /\ q.pc = "sending"
        /\ \/ /\ writing = "running" /\ HasRoom
              /\ Accept(IF q.reply = "return" THEN MethodReturn(q.call, TRUE)
                                             ELSE ErrorReply(q.call, "error"))
              /\ Step(j, [q EXCEPT !.pc = IF handle THEN "handed" ELSE "over",
                                   !.replies = Append(@, q.reply)])
              /\ UNCHANGED caller
           \/ /\ writing = "ended"
              /\ Step(j, [q EXCEPT !.pc = "over"])
              /\ IF handle THEN DropWriter(j) ELSE UNCHANGED caller
              /\ UNCHANGED outbox
        /\ UNCHANGED <<serial, pending, taskVars, handshaken, abandoned>>

(* The next chunk: the encoder, which runs beside the handler, never yields
   an empty text. *)
WriteChunk(j) ==
    /\ jobs[j].pc \in {"handed", "writing"} /\ WentWell(j)
    /\ Start(j, StreamCall(jobs[j].peer, "Write"))
    /\ Step(j, [jobs[j] EXCEPT !.pc = "writing"])
    /\ UNCHANGED <<serial, pending, outbox, taskVars, handshaken, abandoned>>

(* Mutant: a chunk the peer did not take fails the reply. *)
ChunkLost_Reported(j) ==
    /\ jobs[j].pc = "writing" /\ WentWrong(j)
    /\ DropWriter(j)
    /\ Compose(j, jobs[j], "error")
    /\ UNCHANGED <<pending, outbox, taskVars, handshaken, abandoned>>

(* A chunk the peer did not take ends the handler: its caller has a handle
   and learns of the failure from the stream. *)
ChunkLost(j) ==
    /\ jobs[j].pc = "writing" /\ WentWrong(j)
    /\ DropWriter(j)
    /\ Step(j, [jobs[j] EXCEPT !.pc = "over"])
    /\ UNCHANGED <<serial, pending, outbox, taskVars, handshaken, abandoned>>

(* The encoder failed, however much was written: an error is replied to a
   call that was answered with a handle. *)
EncoderFailed(j) ==
    /\ jobs[j].pc \in {"handed", "writing"} /\ WentWell(j)
    /\ DropWriter(j)
    /\ Compose(j, [jobs[j] EXCEPT !.broken = TRUE], "error")
    /\ UNCHANGED <<pending, outbox, taskVars, handshaken, abandoned>>

(* All is written. *)
Finish(j) ==
    /\ jobs[j].pc = "writing" /\ WentWell(j)
    /\ Start(j, StreamCall(jobs[j].peer, "Close"))
    /\ Step(j, [jobs[j] EXCEPT !.pc = "closing"])
    /\ UNCHANGED <<serial, pending, outbox, taskVars, handshaken, abandoned>>

(* A stream that could not be closed is aborted. *)
Finished(j) ==
    /\ jobs[j].pc = "closing" /\ caller[j].pc = "idle"
    /\ IF WentWell(j) THEN UNCHANGED caller ELSE DropWriter(j)
    /\ Step(j, [jobs[j] EXCEPT !.pc = "over"])
    /\ UNCHANGED <<serial, pending, outbox, taskVars, handshaken, abandoned>>

-----------------------------------------------------------------------------
CallStep(t) ==
    \/ Register(t) \/ EnqueueCall(t) \/ TakeReply(t) \/ Expire(t) \/ Reclaim(t)

WriterStep == Write \/ WriteRefused \/ WriteFailed

JobStep(j) ==
    \/ Serve(j) \/ Opened(j) \/ SendReply(j)
    \/ WriteChunk(j) \/ ChunkLost(j) \/ EncoderFailed(j)
    \/ Finish(j) \/ Finished(j)

Next ==
    \/ \E c \in Callers :
         \/ \E m \in Outgoing : Begin(c, m)
         \/ Cancel(c)
    \/ \E t \in Tasks : CallStep(t)
    \/ \E m \in Published : TrySend(m)
    \/ WriterStep
    \/ \E s \in DOMAIN pending, a \in Answers : DispatchReply(s, a)
    \/ DispatchSignal \/ DispatchCall \/ DispatchEnd
    \/ \E j \in DOMAIN jobs : JobStep(j)

Spec == Init /\ [][Next]_vars

(* Fairness: tokio polls every ready future and fires every timer, and the
   transport takes a frame, refuses it or fails, so that the outbox drains. *)
Fairness ==
    /\ \A t \in Tasks : WF_vars(CallStep(t))
    /\ WF_vars(WriterStep)
    /\ \A j \in Handlers : WF_vars(j \in DOMAIN jobs /\ JobStep(j))

FairSpec == Spec /\ Fairness

-----------------------------------------------------------------------------
(* Properties *)

(* A reply the broker delivered is accepted only from the connection the
   call was captured for: the bus for a bus call, the peer with that unique
   name, or the owner the broker named before the call went out; never from
   a later owner of the name, however late or forged its reply is.  What
   answers a confidential call is confidential. *)
AnsweredByItsResponder ==
    \A t \in Tasks : caller[t].last # None =>
        LET m == caller[t].last.msg
            a == caller[t].last.slot
        IN  /\ a.brokered =>
                 a.sender \in CASE m.destination = BUS     -> {None, BUS}
                                [] IsUnique(m.destination) -> {m.destination}
                                [] OTHER                   -> {m.expected_responder}
            /\ m.confidential => a.confidential

(* A caller that pinned a call to one responder never has it sent to
   another: negotiation may fill the expectation in, not replace it. *)
CaptureHonoured ==
    \A i \in DOMAIN outbox :
        LET m == outbox[i]
        IN  IsCall(m) /\ m.destination \in WellKnown =>
              \E o \in Outgoing \cup StreamCalls :
                  /\ [m EXCEPT !.serial = 0,
                               !.expected_responder = o.expected_responder] = o
                  /\ o.expected_responder \in {None, m.expected_responder}

(* No pending entry outlives its call: it belongs to a call in progress, or
   to one whose future was dropped. *)
NoSlotLeaked ==
    \A s \in DOMAIN pending :
        \/ \E t \in Tasks : caller[t].serial = s /\ caller[t].pc # "idle"
        \/ s \in abandoned

(* Nobody waits for an answer that can no longer be delivered: while the
   slot of a waiting call is empty its entry is in the table. *)
WaitersReachable ==
    \A t \in Tasks :
        caller[t].pc = "await" /\ caller[t].slot = None =>
            caller[t].serial \in DOMAIN pending

(* A receiver returned by add_match has every signal that came since its rule
   left for the broker. *)
SubscribedBeforeRule ==
    \A c \in Callers :
        caller[c].last # None => caller[c].last.owed <= caller[c].last.heard

(* Every inbound call is answered, unless the writer is gone, and by one
   reply: the only call that gets a second one is a streamed call whose
   encoder failed once the handle was sent, and that one is an error.  No
   other failure behind a handle, of a Write or of a Close, is replied. *)
InboundAnswered ==
    \A j \in DOMAIN jobs :
        LET q == jobs[j]
        IN  /\ q.pc = "over" => q.replies # <<>> \/ writing = "ended"
            /\ \/ Len(q.replies) <= 1
               \/ /\ q.replies = <<"return", "error">>
                  /\ q.call.stream_reply /\ q.broken

(* A handle that is sent, or about to be, is the handle of a stream that was
   accepted, by the connection the reply goes to if the broker delivered the
   acceptance. *)
HandleIsOpen ==
    \A j \in DOMAIN jobs :
        LET q == jobs[j]
            to == ReplyTo(q.call)
            open == caller[j].last
        IN  q.call.stream_reply /\ q.pc = "sending" /\ q.reply = "return" =>
              /\ open # None /\ open.msg.member = "Open"
              /\ IsUnique(to) /\ open.slot.brokered => q.peer = to

(* Every call, made or served, is answered as it was captured, whatever is
   in the outbox between them. *)
AnsweredAsCaptured ==
    /\ AnsweredByItsResponder /\ CaptureHonoured
    /\ InboundAnswered /\ HandleIsOpen

(* Who waits is listed before what it waits for can come, and not after. *)
WaitersServed == WaitersReachable /\ NoSlotLeaked /\ SubscribedBeforeRule

Returned(c) ==
    \/ caller[c].pc = "idle"
    \/ caller[c].pc = "register" /\ serial > MaxSerial

Handled(j) ==
    j \in DOMAIN jobs => \/ jobs[j].pc = "over" /\ caller[j].pc = "idle"
                        \/ serial > MaxSerial

(* Every call of a caller comes back, with an answer, an error or a timeout,
   and every handler ends, with what it calls, as long as the outbox drains:
   no call and no handler is in progress for ever (who has no serial yet may
   find the serials of the instance used up). *)
CallsReturn ==
    /\ \A c \in Callers : []<>Returned(c)
    /\ \A j \in Handlers : []<>Handled(j)
=============================================================================
