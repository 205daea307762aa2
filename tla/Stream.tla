------------------------------- MODULE Stream -------------------------------
(***************************************************************************)
(* Bulk streams (stream/mod.rs): the registry of streams one connection    *)
(* receives, the handler tasks its peers' Open, Write, Close and Abort     *)
(* calls run on, the StreamWriter a sender drives them with and the        *)
(* StreamReader the receiving method drains.                               *)
(*                                                                         *)
(* A chunk is its sequence number and the peer that wrote it, of length 1: *)
(* lengths, totals and caps are counted in chunks.  Time is a choice: of   *)
(* last_activity the model keeps which of two registered streams was the   *)
(* first to fall silent, and an Open finds some of the longest silent idle *)
(* for too long.                                                           *)
(***************************************************************************)
EXTENDS Naturals, Sequences, FiniteSets

CONSTANTS Peers,         \* peers that open streams, as the broker stamps them
          NoPeer,
          Strangers,     \* peers that only guess at others' stream ids
          MaxStreams,    \* bound on the streams ever opened
          MaxCalls,      \* bound on the calls ever made, Open included
          MaxStreamLen,  \* StreamLimits::max_stream_len
          StreamCap,     \* StreamLimits::max_streams_per_peer
          Window,        \* StreamLimits::window_chunks
          Declared,      \* the total_len values senders declare, or NoLen
          NoLen,
          Pipelining     \* whether a sender may write without awaiting replies

ASSUME StreamAssumption ==
    /\ NoPeer \notin Peers /\ Strangers \subseteq Peers
    /\ MaxStreams \in Nat /\ MaxCalls \in Nat /\ MaxStreamLen \in Nat
    /\ StreamCap \in Nat \ {0}
    /\ Window \in Nat
    /\ NoLen \notin Nat
    /\ Declared \subseteq Nat \cup {NoLen}
    /\ Pipelining \in BOOLEAN

VARIABLES
    inbound,    \* id -> the Inbound record
    registry,   \* the registered ids
    older,      \* the pairs <<i, j>> of them where i was active before j was
    opened,     \* how many ids have been minted
    calls,      \* the handler tasks, in the order their calls were sent
    writers,    \* id -> the opening peer's StreamWriter
    got,        \* id -> the chunks the StreamReader has returned
    up     \* whether the receiving connection is still alive

vars == <<inbound, registry, older, opened, calls, writers, got, up>>

Ids == 1..MaxStreams
WindowChunks == IF Window = 0 THEN 1 ELSE Window

NoInbound ==
    [owner |-> NoPeer, declared |-> NoLen, nextSeq |-> 0, received |-> 0,
     sealed |-> FALSE, gate |-> 0, buffer |-> <<>>, reader |-> "unclaimed",
     outcome |-> "none", aborted |-> FALSE]

NewInbound(p, total) == [NoInbound EXCEPT !.owner = p, !.declared = total]

NoWriter == [at |-> "none", seq |-> 0, call |-> 0]

Init ==
    /\ inbound = [s \in Ids |-> NoInbound]
    /\ registry = {}
    /\ older = {}
    /\ opened = 0
    /\ calls = <<>>
    /\ writers = [s \in Ids |-> NoWriter]
    /\ got = [s \in Ids |-> <<>>]
    /\ up = TRUE

-----------------------------------------------------------------------------
(* The Inbound record.                                                     *)

Finished_LastWins(r, verdict) ==
    [r EXCEPT !.outcome = verdict, !.aborted = @ \/ (verdict = "aborted")]

Finished_NoWake(r, verdict) ==
    IF r.outcome # "none" THEN r ELSE [r EXCEPT !.outcome = verdict]

\* Inbound::finish: the first verdict is kept, and only an abort that is the
\* first verdict wakes the writer parked on the window.
Finished(r, verdict) ==
    IF r.outcome # "none" THEN r
    ELSE [r EXCEPT !.outcome = verdict, !.aborted = (verdict = "aborted")]

\* Inbound::seal.
Sealed(r) == [r EXCEPT !.sealed = TRUE]

\* Dropping a reader nobody claimed.
ReaderDropped(r) ==
    IF r.reader = "unclaimed" THEN [r EXCEPT !.reader = "dropped", !.buffer = <<>>]
    ELSE r

\* What kill and the idle reaper leave of a stream.
Killed(r) == ReaderDropped(Sealed(Finished(r, "aborted")))

\* Inbound::touch: the stream is the last to have been active.
Touch(s) ==
    /\ older' = IF s \in registry
                THEN {a \in older : a[1] # s /\ a[2] # s} \cup {<<i, s>> : i \in registry \ {s}}
                ELSE older
    /\ UNCHANGED registry

\* Entries leave the registry.
Forget(S) ==
    /\ registry' = registry \ S
    /\ older' = {a \in older : a[1] \notin S /\ a[2] \notin S}

-----------------------------------------------------------------------------
(* The receiver's handlers.                                                *)

\* The owner's longest silent sealed streams, as many as must go to let one
\* more in.
Evicted(reg, p) ==
    LET sealed == {i \in reg : inbound[i].owner = p /\ inbound[i].sealed}
        Before(i) == {j \in sealed : <<j, i>> \in older}
    IN  {i \in sealed : Cardinality(Before(i)) + StreamCap <= Cardinality(sealed)}

LiveOf_Unclaimed(reg, p) ==
    {i \in reg : inbound[i].owner = p /\ inbound[i].reader = "unclaimed"}

LiveOf(reg, p) == {i \in reg : inbound[i].owner = p /\ ~inbound[i].sealed}

\* Streams that may all have been silent for idle_timeout.
MayBeIdle(S) == \A a \in older : a[2] \in S => a[1] \in S

\* StreamRegistry::open and the sender's open_stream: reap the idle streams,
\* refuse past the live cap, evict the oldest sealed streams, insert.
Open(p, total) ==
    /\ up
    /\ opened < MaxStreams
    /\ opened + Len(calls) < MaxCalls
    /\ total # NoLen => total <= MaxStreamLen
    /\ \E idle \in SUBSET registry :
        LET s == opened + 1
            reg == registry \ idle
            refused == Cardinality(LiveOf(reg, p)) >= StreamCap
            out == IF refused THEN {} ELSE Evicted(reg, p)
            gone == idle \cup out
        IN  /\ MayBeIdle(idle)
            /\ opened' = s
            /\ registry' = (registry \ gone) \cup (IF refused THEN {} ELSE {s})
            /\ older' = {a \in older : a[1] \notin gone /\ a[2] \notin gone}
                         \cup {<<i, s>> : i \in IF refused THEN {} ELSE registry \ gone}
            /\ inbound' = [i \in Ids |->
                 IF i \in idle THEN Killed(inbound[i])
                 ELSE IF i \in out THEN Finished(inbound[i], "aborted")
                 ELSE IF i = s /\ ~refused THEN NewInbound(p, total)
                 ELSE inbound[i]]
            /\ writers' = IF refused THEN writers
                          ELSE [writers EXCEPT ![s].at = "idle"]
    /\ UNCHANGED <<calls, got, up>>

Pc(c, pc) == calls' = [calls EXCEPT ![c].pc = pc]

\* StreamRegistry::lookup: the id is registered and the stamped sender owns it.
Owned(c) ==
    /\ calls[c].s \in registry
    /\ inbound[calls[c].s].owner = calls[c].by

\* Every handler's first step when the lookup fails.
Unknown(c) ==
    /\ calls[c].pc = "start"
    /\ ~Owned(c)
    /\ Pc(c, "err")
    /\ UNCHANGED <<inbound, registry, older, opened, writers, got, up>>

\* write: the lookup and the chunk cap.
WriteLookup(c) ==
    LET s == calls[c].s IN
    /\ calls[c].pc = "start"
    /\ Owned(c)
    /\ \/ /\ calls[c].op = "write"
          /\ Pc(c, "gate")
          /\ UNCHANGED <<inbound, registry, older>>
       \/ /\ calls[c].op = "oversize"
          /\ inbound' = [inbound EXCEPT ![s] = Killed(@)]
          /\ Forget({s})
          /\ Pc(c, "err")
    /\ UNCHANGED <<opened, writers, got, up>>

WriteGate_Open(c) ==
    LET s == calls[c].s IN
    /\ calls[c].pc = "gate"
    /\ Pc(c, IF inbound[s].sealed THEN "err" ELSE "check")
    /\ UNCHANGED <<inbound, registry, older, opened, writers, got, up>>

\* write: the gate is taken and the sending half cloned, if there is one.
WriteGate(c) ==
    LET s == calls[c].s IN
    /\ calls[c].pc = "gate"
    /\ inbound[s].gate = 0
    /\ IF inbound[s].sealed
       THEN Pc(c, "err") /\ UNCHANGED inbound
       ELSE Pc(c, "check") /\ inbound' = [inbound EXCEPT ![s].gate = c]
    /\ UNCHANGED <<registry, older, opened, writers, got, up>>

\* The two checks a chunk must pass under the gate.
InSequence(c) == calls[c].seq = inbound[calls[c].s].nextSeq

Fits(s) ==
    /\ inbound[s].received + 1 <= MaxStreamLen
    /\ inbound[s].declared # NoLen => inbound[s].received + 1 <= inbound[s].declared

\* write: the sequence and length checks and the counters.
WriteCheck(c) ==
    LET s == calls[c].s IN
    /\ calls[c].pc = "check"
    /\ IF InSequence(c) /\ Fits(s)
       THEN /\ inbound' = [inbound EXCEPT ![s].nextSeq = @ + 1, ![s].received = @ + 1,
                                          ![s].gate = IF inbound[s].aborted THEN 0 ELSE @]
            /\ Touch(s)
            /\ Pc(c, IF inbound[s].aborted THEN "err" ELSE "send")
       ELSE /\ inbound' = [inbound EXCEPT ![s] = Killed([@ EXCEPT !.gate = 0])]
            /\ Forget({s})
            /\ Pc(c, "err")
    /\ UNCHANGED <<opened, writers, got, up>>

\* write: the select over the abort signal and the window, then kill when the
\* reader is gone.
WriteSend(c) ==
    LET s == calls[c].s  r == inbound[s] IN
    /\ calls[c].pc = "send"
    /\ \/ /\ r.aborted
          /\ inbound' = [inbound EXCEPT ![s].gate = 0]
          /\ Pc(c, "err")
          /\ UNCHANGED <<registry, older>>
       \/ /\ ~r.aborted
          /\ r.reader = "dropped"
          /\ inbound' = [inbound EXCEPT ![s] = Killed([@ EXCEPT !.gate = 0])]
          /\ Forget({s})
          /\ Pc(c, "err")
       \/ /\ ~r.aborted
          /\ r.reader # "dropped"
          /\ Len(r.buffer) < WindowChunks
          /\ inbound' = [inbound EXCEPT
                ![s].gate = 0,
                ![s].buffer = Append(@, [seq |-> calls[c].seq, by |-> calls[c].by])]
          /\ Touch(s)
          /\ Pc(c, "ok")
    /\ UNCHANGED <<opened, writers, got, up>>

\* close: the lookup and the ungated read of the received total.
CloseLookup(c) ==
    LET s == calls[c].s IN
    /\ calls[c].pc = "start"
    /\ calls[c].op = "close"
    /\ Owned(c)
    /\ Pc(c, IF inbound[s].received = calls[c].seq THEN "whole" ELSE "short")
    /\ Touch(s)
    /\ UNCHANGED <<inbound, opened, writers, got, up>>

\* close: the verdict and the seal; the entry stays registered.
CloseFinish(c) ==
    LET s == calls[c].s
        verdict == IF calls[c].pc = "whole" THEN "complete" ELSE "aborted"
    IN
    /\ calls[c].pc \in {"whole", "short"}
    /\ inbound' = [inbound EXCEPT ![s] = Sealed(Finished(@, verdict))]
    /\ Pc(c, IF verdict = "complete" THEN "ok" ELSE "err")
    /\ UNCHANGED <<registry, older, opened, writers, got, up>>

\* abort: all of it under the registry lock.
AbortStream(c) ==
    LET s == calls[c].s IN
    /\ calls[c].pc = "start"
    /\ calls[c].op = "abort"
    /\ Owned(c)
    /\ inbound' = [inbound EXCEPT ![s] = Sealed(Finished(@, "aborted"))]
    /\ IF inbound[s].reader = "unclaimed" THEN Touch(s) ELSE Forget({s})
    /\ Pc(c, "ok")
    /\ UNCHANGED <<opened, writers, got, up>>

\* take_reader_opened_by: the ownership check, under the lock's first hold.
AcceptLookup(c) ==
    /\ calls[c].pc = "start"
    /\ calls[c].op = "accept"
    /\ Owned(c)
    /\ Pc(c, "take")
    /\ UNCHANGED <<inbound, registry, older, opened, writers, got, up>>

\* take_reader_inner: the second hold; a sealed stream leaves the registry.
AcceptTake(c) ==
    LET s == calls[c].s IN
    /\ calls[c].pc = "take"
    /\ IF s \in registry
       THEN /\ Forget(IF inbound[s].sealed THEN {s} ELSE {})
            /\ inbound' = [inbound EXCEPT ![s].reader = IF @ = "unclaimed" THEN "reading" ELSE @]
            /\ Pc(c, IF inbound[s].reader = "unclaimed" THEN "ok" ELSE "err")
       ELSE /\ Pc(c, "err")
            /\ UNCHANGED <<registry, older, inbound>>
    /\ UNCHANGED <<opened, writers, got, up>>

Handler(c) ==
    \/ Unknown(c)
    \/ WriteLookup(c)
    \/ WriteGate(c)
    \/ WriteCheck(c)
    \/ WriteSend(c)
    \/ CloseLookup(c)
    \/ CloseFinish(c)
    \/ AbortStream(c)
    \/ AcceptLookup(c)
    \/ AcceptTake(c)

-----------------------------------------------------------------------------
(* The StreamReader.                                                       *)

\* The channel has ended: the registry's sending half is gone and no handler
\* still holds a clone of it.
ChannelEnded(s) ==
    /\ inbound[s].sealed
    /\ \A c \in 1..Len(calls) : calls[c].s = s => calls[c].pc \notin {"check", "send"}

\* next_chunk returning a chunk.
NextChunk(s) ==
    /\ inbound[s].reader = "reading"
    /\ inbound[s].buffer # <<>>
    /\ got' = [got EXCEPT ![s] = Append(@, Head(inbound[s].buffer))]
    /\ inbound' = [inbound EXCEPT ![s].buffer = Tail(@)]
    /\ UNCHANGED <<registry, older, opened, calls, writers, up>>

\* next_chunk at the end of the channel: None on Complete, an error otherwise.
NextEnd(s) ==
    /\ inbound[s].reader = "reading"
    /\ inbound[s].buffer = <<>>
    /\ ChannelEnded(s)
    /\ inbound' = [inbound EXCEPT ![s].reader =
                     IF inbound[s].outcome = "complete" THEN "clean" ELSE "broken"]
    /\ UNCHANGED <<registry, older, opened, calls, writers, got, up>>

\* The reader is dropped before the end: its idle deadline passed, a cap of
\* read_to_end_capped was exceeded, or the method gave up.
DropReader(s) ==
    /\ inbound[s].reader = "reading"
    /\ inbound' = [inbound EXCEPT ![s].reader = "dropped", ![s].buffer = <<>>]
    /\ UNCHANGED <<registry, older, opened, calls, writers, got, up>>

-----------------------------------------------------------------------------
(* The StreamWriter, whose calls each run on a handler task of their own.  *)

Send(op, s, p, n) ==
    /\ up
    /\ opened + Len(calls) < MaxCalls
    /\ calls' = Append(calls, [op |-> op, s |-> s, by |-> p, seq |-> n, pc |-> "start"])

\* write_chunk.
WriteChunk(s) ==
    /\ writers[s].at = "idle"
    /\ Send("write", s, inbound[s].owner, writers[s].seq)
    /\ writers' = [writers EXCEPT ![s].at = "writing", ![s].call = Len(calls) + 1]
    /\ UNCHANGED <<inbound, registry, older, opened, got, up>>

\* The reply to a Write: only a success advances seq and sent.
WriteReply(s) ==
    /\ writers[s].at = "writing"
    /\ calls[writers[s].call].pc \in {"ok", "err"}
    /\ writers' = [writers EXCEPT
         ![s].at = "idle",
         ![s].seq = IF calls[writers[s].call].pc = "ok" THEN @ + 1 ELSE @]
    /\ UNCHANGED <<inbound, registry, older, opened, calls, got, up>>

\* The deadline of a Write passes; the handler goes on.  A sender that
\* pipelines takes the chunk for written instead.
WriteTimeout(s) ==
    /\ writers[s].at = "writing"
    /\ writers' = [writers EXCEPT
         ![s].at = "idle", ![s].seq = IF Pipelining THEN @ + 1 ELSE @]
    /\ UNCHANGED <<inbound, registry, older, opened, calls, got, up>>

\* finish: Close with the bytes acknowledged so far.
Finish(s) ==
    /\ writers[s].at = "idle"
    /\ Send("close", s, inbound[s].owner, writers[s].seq)
    /\ writers' = [writers EXCEPT ![s].at = "closing", ![s].call = Len(calls) + 1]
    /\ UNCHANGED <<inbound, registry, older, opened, got, up>>

FinishReply(s) ==
    /\ writers[s].at = "closing"
    /\ calls[writers[s].call].pc = "ok"
    /\ writers' = [writers EXCEPT ![s].at = "done"]
    /\ UNCHANGED <<inbound, registry, older, opened, calls, got, up>>

\* abort, and Drop of an unfinished writer: an explicit abort, a caller that
\* gave up, a Close that failed or timed out (call_with_stream's try_join).
AbortOrDrop(s) ==
    /\ writers[s].at \in {"idle", "writing", "closing"}
    /\ Send("abort", s, inbound[s].owner, 0)
    /\ writers' = [writers EXCEPT ![s].at = "done"]
    /\ UNCHANGED <<inbound, registry, older, opened, got, up>>

\* A bound: a stranger makes one call, while one stream has been opened.
Bounded(p) ==
    p \in Strangers => opened = 1 /\ \A c \in 1..Len(calls) : calls[c].by # p

\* The method call that carries the handle reaches the receiver, from the
\* peer that opened the stream or from another that learned its id.
SendHandle(s, p) ==
    /\ s <= opened
    /\ Bounded(p)
    /\ Send("accept", s, p, 0)
    /\ UNCHANGED <<inbound, registry, older, opened, writers, got, up>>

\* A raw Write that no StreamWriter sends: over the chunk cap, or from a peer
\* that does not own the stream.
RawWrite(s, p, op) ==
    /\ s <= opened
    /\ opened = 1 /\ Bounded(p)
    /\ (op = "oversize") <=> (p = inbound[s].owner)
    /\ Send(op, s, p, inbound[s].nextSeq)
    /\ UNCHANGED <<inbound, registry, older, opened, writers, got, up>>

\* The receiving connection is dropped with its registry, once no handler
\* task holds it: senders and unclaimed readers go with it.
Vanish ==
    /\ up
    /\ \A c \in 1..Len(calls) : calls[c].pc \in {"ok", "err"}
    /\ up' = FALSE
    /\ registry' = {}
    /\ older' = {}
    /\ inbound' = [s \in Ids |-> IF s \in registry THEN ReaderDropped(Sealed(inbound[s]))
                                 ELSE inbound[s]]
    /\ UNCHANGED <<opened, calls, writers, got>>

Next ==
    \/ \E p \in Peers \ Strangers, total \in Declared : Open(p, total)
    \/ \E c \in 1..Len(calls) : Handler(c)
    \/ \E s \in Ids : NextChunk(s) \/ NextEnd(s) \/ DropReader(s)
    \/ \E s \in Ids : WriteChunk(s) \/ WriteReply(s) \/ WriteTimeout(s)
    \/ \E s \in Ids : Finish(s) \/ FinishReply(s) \/ AbortOrDrop(s)
    \/ \E s \in Ids, p \in Peers : SendHandle(s, p)
    \/ \E s \in Ids, p \in Peers, op \in {"write", "oversize"} : RawWrite(s, p, op)
    \/ Vanish

\* Fairness: while there are ready handler tasks the runtime polls some of
\* them, in whatever order, and claimed readers keep calling next_chunk until
\* their streams end.
Fairness ==
    /\ WF_vars(\E c \in 1..Len(calls) : Handler(c))
    /\ WF_vars(\E s \in Ids : NextChunk(s) \/ NextEnd(s))

Spec == Init /\ [][Next]_vars

FairSpec == Spec /\ Fairness

-----------------------------------------------------------------------------
(* Properties.                                                             *)

(* The reader gets the owner's chunks, each once and in the order of their
   sequence numbers, whatever order the handler tasks of pipelined or retried
   writes run in and whoever else writes to the id (the gate, the sequence
   check and lookup of StreamRegistry::write). *)
ChunksInOrder ==
    \A s \in Ids :
        LET seen == got[s] \o inbound[s].buffer
        IN  \A i \in 1..Len(seen) : seen[i] = [seq |-> i - 1, by |-> inbound[s].owner]

(* One peer's registered streams: at most max_streams_per_peer with a sending
   half, and at most that many sealed ones besides the ones that were live
   when the last one opened (the two caps of open).  The second part is for
   the proof: it takes more streams than a small instance has. *)
SlotsBounded ==
    \A p \in Peers :
        /\ Cardinality({s \in registry : inbound[s].owner = p /\ ~inbound[s].sealed})
             <= StreamCap
        /\ Cardinality({s \in registry : inbound[s].owner = p}) <= 2 * StreamCap

(* The total a reader's clean end vouches for: what Close was told. *)
ClosedTotals(s) ==
    {calls[c].seq : c \in {d \in 1..Len(calls) :
        calls[d].op = "close" /\ calls[d].s = s /\ calls[d].pc = "ok"}}

(* A clean end of stream is never a truncated one: the reader has every chunk
   of the total some Close declared, although close reads the received total
   without the gate and a write counts its chunk before it is delivered
   (StreamReader::next_chunk). *)
CleanEndIsWhole ==
    \A s \in Ids :
        inbound[s].reader = "clean" =>
            \E total \in ClosedTotals(s) : Len(got[s]) >= total

(* What a reader is given is what the owner wrote, in order, and all of it
   when it is told so. *)
ReadAsWritten == ChunksInOrder /\ CleanEndIsWhole

(* The writes on their way to a stream that was aborted or whose reader was
   claimed or dropped. *)
Awaiting ==
    {c \in 1..Len(calls) :
        /\ calls[c].op = "write" /\ calls[c].pc \notin {"ok", "err"}
        /\ inbound[calls[c].s].outcome = "aborted" \/ inbound[calls[c].s].reader # "unclaimed"}

(* Each of them is answered, with those that come meanwhile, although one may
   wait for the window and others for its gate: the abort signal, the reader's
   progress and its drop each wake it (the select of StreamRegistry::write). *)
WritesAnswered == Awaiting # {} ~> Awaiting = {}

(* What the streams promise their two ends, see BulkPipe. *)
Pipe == INSTANCE BulkPipe WITH
    accepted <- [s \in Ids |-> inbound[s].received],
    ended <- [s \in Ids |-> inbound[s].outcome],
    read <- [s \in Ids |-> Len(got[s])],
    end <- [s \in Ids |-> inbound[s].reader]

(* The registry, its handlers and both ends implement the pipe. *)
PipeSpec == Pipe!Spec
=============================================================================
