---------------------------- MODULE StreamProofs ----------------------------
(***************************************************************************)
(* Theorems about the bulk streams, for any peers, limits and senders:     *)
(* what a reader is given is what the owner wrote, in order, and all of it *)
(* when it is told so; the registry's slots stay bounded; the registry,    *)
(* its handler tasks and both ends implement BulkPipe.                     *)
(***************************************************************************)
EXTENDS Stream, SequenceTheorems, FiniteSetTheorems, TLAPS

(* The types of the state.                                                 *)
Chunks == [seq : Nat, by : Peers \cup {NoPeer}]

Inbounds ==
    [owner : Peers \cup {NoPeer}, declared : Nat \cup {NoLen}, nextSeq : Nat, received : Nat,
     sealed : BOOLEAN, gate : Nat, buffer : Seq(Chunks),
     reader : {"unclaimed", "reading", "clean", "broken", "dropped"},
     outcome : {"none", "complete", "aborted"}, aborted : BOOLEAN]

Called ==
    [op : {"write", "oversize", "close", "abort", "accept"}, s : Ids,
     by : Peers \cup {NoPeer}, seq : Nat,
     pc : {"start", "gate", "check", "send", "whole", "short", "take", "ok", "err"}]

Writers == [at : {"none", "idle", "writing", "closing", "done"}, seq : Nat, call : Nat]

StreamTypes ==
    /\ inbound \in [Ids -> Inbounds]
    /\ opened \in 0..MaxStreams
    /\ calls \in Seq(Called)
    /\ writers \in [Ids -> Writers]
    /\ got \in [Ids -> Seq(Chunks)]

(* A chunk of the stream was counted and is not delivered yet.             *)
Sending(s) == inbound[s].gate # 0 /\ calls[inbound[s].gate].pc = "send"

(* How many chunks have reached the reader or its window.                  *)
Delivered(s) == Len(got[s]) + Len(inbound[s].buffer)

(* What a handler task knows of its stream at each point: a write past its *)
(* gate holds it, for the owner, and one about to send its chunk has just  *)
(* counted it; a close that found the stream whole read a total that was   *)
(* received.                                                               *)
CallFits(c) ==
    LET s == calls[c].s  r == inbound[s] IN
    /\ s <= opened
    /\ calls[c].pc \in {"check", "send"} => r.gate = c
    /\ calls[c].pc \in {"gate", "check", "send"} => calls[c].by = r.owner
    /\ calls[c].pc = "send" => r.nextSeq = calls[c].seq + 1
    /\ calls[c].pc \in {"whole", "short"} => calls[c].op = "close"
    /\ calls[c].pc = "whole" => calls[c].seq <= r.received

(* Whoever holds the gate is a write of the stream that has yet to send.   *)
GateHeld(s) ==
    inbound[s].gate # 0 =>
        /\ inbound[s].gate \in 1..Len(calls)
        /\ calls[inbound[s].gate].s = s
        /\ calls[inbound[s].gate].pc \in {"check", "send"}

(* The chunks in the reader's hands and in its window are the owner's,     *)
(* numbered on from the first.                                             *)
Ordered(s) ==
    /\ \A i \in 1..Len(got[s]) : got[s][i] = [seq |-> i - 1, by |-> inbound[s].owner]
    /\ \A i \in 1..Len(inbound[s].buffer) :
         inbound[s].buffer[i] = [seq |-> Len(got[s]) + i - 1, by |-> inbound[s].owner]

(* Every chunk that was counted is delivered, but for the one being sent,  *)
(* unless the stream was aborted or its reader dropped.                    *)
Counted(s) ==
    LET r == inbound[s] IN
    /\ r.received = r.nextSeq
    /\ Delivered(s) <= r.nextSeq
    /\ ~r.aborted /\ r.reader # "dropped" =>
         Delivered(s) = IF Sending(s) THEN r.nextSeq - 1 ELSE r.nextSeq

(* A Close succeeded that declared at most n chunks.                       *)
ClosedAt(s, n) ==
    \E c \in 1..Len(calls) :
        calls[c].op = "close" /\ calls[c].s = s /\ calls[c].pc = "ok" /\ calls[c].seq <= n

(* A stream is aborted by an abort only, complete by a Close of what was   *)
(* received; its reader's clean end left no writer behind and nothing      *)
(* unread.                                                                 *)
Verdict(s) ==
    LET r == inbound[s] IN
    /\ r.aborted => r.outcome = "aborted"
    /\ r.outcome = "complete" => ClosedAt(s, r.received)
    /\ r.reader = "clean" =>
         r.sealed /\ r.gate = 0 /\ r.outcome = "complete" /\ Len(got[s]) = r.received

(* An id that was not minted yet stands for nothing.                       *)
Unopened(s) == s > opened => inbound[s] = NoInbound /\ got[s] = <<>>

StreamFits(s) == GateHeld(s) /\ Ordered(s) /\ Counted(s) /\ Verdict(s) /\ Unopened(s)

(* The inductive invariant.  ReadAsWritten alone is not inductive: it says *)
(* nothing of the chunk a handler task holds between its sequence check    *)
(* and its send, nor of the total a Close read before it gave its verdict. *)
StreamInv ==
    /\ StreamTypes
    /\ \A c \in 1..Len(calls) : CallFits(c)
    /\ \A s \in Ids : StreamFits(s)
    /\ \A s \in Ids : writers[s].at # "none" => s <= opened

(* What ending a stream does to its record: no counter moves, nothing that *)
(* was decided is revised, and only an unclaimed reader is dropped.        *)
EndsAs(r, q) ==
    /\ q \in Inbounds
    /\ q.owner = r.owner /\ q.nextSeq = r.nextSeq /\ q.received = r.received
    /\ r.sealed => q.sealed
    /\ r.aborted => q.aborted
    /\ r.outcome # "none" => q.outcome = r.outcome
    /\ q.aborted => q.outcome = "aborted"
    /\ \/ q.buffer = r.buffer /\ q.reader = r.reader
       \/ q.buffer = <<>> /\ q.reader = "dropped" /\ r.reader = "unclaimed"

(* The verdict, the seal and the drop of an unclaimed reader each end a    *)
(* stream in that sense, and so do they one after another.                 *)
LEMMA FinishedEnds ==
    ASSUME NEW r \in Inbounds, r.aborted => r.outcome = "aborted",
           NEW verdict \in {"complete", "aborted"}
    PROVE  /\ EndsAs(r, Finished(r, verdict)) /\ Finished(r, verdict).gate = r.gate
           /\ Finished(r, verdict).outcome = IF r.outcome = "none" THEN verdict ELSE r.outcome
           /\ Finished(r, verdict).reader = r.reader
BY DEF EndsAs, Finished, Inbounds

(* The seal.                                                               *)
LEMMA SealedEnds ==
    ASSUME NEW r \in Inbounds, r.aborted => r.outcome = "aborted"
    PROVE  /\ EndsAs(r, Sealed(r)) /\ Sealed(r).gate = r.gate
           /\ Sealed(r).outcome = r.outcome /\ Sealed(r).reader = r.reader
           /\ Sealed(r).sealed
BY DEF EndsAs, Sealed, Inbounds

(* The drop of a reader nobody claimed.                                    *)
LEMMA DroppedEnds ==
    ASSUME NEW r \in Inbounds, r.aborted => r.outcome = "aborted"
    PROVE  /\ EndsAs(r, ReaderDropped(r)) /\ ReaderDropped(r).gate = r.gate
           /\ ReaderDropped(r).outcome = r.outcome
<1>1. <<>> \in Seq(Chunks)
  OBVIOUS
<1>2. QED
  BY <1>1 DEF EndsAs, ReaderDropped, Inbounds

(* Ends compose.                                                           *)
LEMMA EndedTwice ==
    ASSUME NEW r, NEW q, NEW u, EndsAs(r, q), EndsAs(q, u)
    PROVE  EndsAs(r, u)
BY DEF EndsAs

(* What kill and the idle reaper leave.                                    *)
LEMMA KilledEnds ==
    ASSUME NEW r \in Inbounds, r.aborted => r.outcome = "aborted"
    PROVE  /\ EndsAs(r, Killed(r)) /\ Killed(r).gate = r.gate
           /\ Killed(r).outcome # "none" /\ (Killed(r).outcome = "complete" => r.outcome = "complete")
<1> DEFINE q == Finished(r, "aborted")
           u == Sealed(q)
<1>1. /\ EndsAs(r, q) /\ q.gate = r.gate /\ q.outcome # "none"
      /\ q.outcome = "complete" => r.outcome = "complete"
  BY FinishedEnds
<1>2. q \in Inbounds /\ (q.aborted => q.outcome = "aborted")
  BY <1>1 DEF EndsAs
<1> HIDE DEF q
<1>3. EndsAs(q, u) /\ u.gate = q.gate /\ u.outcome = q.outcome
  BY <1>2, SealedEnds
<1>4. u \in Inbounds /\ (u.aborted => u.outcome = "aborted")
  BY <1>3 DEF EndsAs
<1> HIDE DEF u
<1>5. /\ EndsAs(u, ReaderDropped(u)) /\ ReaderDropped(u).gate = u.gate
      /\ ReaderDropped(u).outcome = u.outcome
  BY <1>4, DroppedEnds
<1>6. QED
  BY <1>1, <1>3, <1>5, EndedTwice DEF Killed, q, u

(* What a Close or an Abort leaves.                                        *)
LEMMA SealFinishedEnds ==
    ASSUME NEW r \in Inbounds, r.aborted => r.outcome = "aborted",
           NEW verdict \in {"complete", "aborted"}
    PROVE  LET q == Sealed(Finished(r, verdict)) IN
           /\ EndsAs(r, q) /\ q.gate = r.gate
           /\ q.outcome = IF r.outcome = "none" THEN verdict ELSE r.outcome
           /\ q.reader = r.reader
<1> DEFINE q == Finished(r, verdict)
<1>1. /\ EndsAs(r, q) /\ q.gate = r.gate
      /\ q.outcome = IF r.outcome = "none" THEN verdict ELSE r.outcome
      /\ q.reader = r.reader
  BY FinishedEnds
<1>2. q \in Inbounds /\ (q.aborted => q.outcome = "aborted")
  BY <1>1 DEF EndsAs
<1> HIDE DEF q
<1>3. EndsAs(q, Sealed(q)) /\ Sealed(q).gate = q.gate /\ Sealed(q).outcome = q.outcome
      /\ Sealed(q).reader = q.reader
  BY <1>2, SealedEnds
<1>4. QED
  BY <1>1, <1>3, EndedTwice DEF q

(* A stream that is ended still fits, when a complete verdict has its      *)
(* Close and its gate is kept or given up by a writer that was not going   *)
(* to deliver.                                                             *)
LEMMA EndKeeps ==
    ASSUME StreamInv, NEW s \in Ids, s <= opened, opened' \in 0..MaxStreams, opened <= opened',
           EndsAs(inbound[s], inbound'[s]), got'[s] = got[s],
           inbound'[s].outcome = "complete" => ClosedAt(s, inbound[s].received)',
           inbound[s].reader = "clean" => inbound'[s].gate = 0,
           GateHeld(s)',
           \/ Sending(s)' <=> Sending(s)
           \/ inbound[s].aborted
           \/ inbound[s].reader = "dropped"
    PROVE  StreamFits(s)'
<1> DEFINE r == inbound[s]
           q == inbound'[s]
<1>1. /\ r \in Inbounds /\ StreamFits(s) /\ got[s] \in Seq(Chunks)
  BY DEF StreamInv, StreamTypes
<1>2. /\ q \in Inbounds
      /\ q.owner = r.owner /\ q.nextSeq = r.nextSeq /\ q.received = r.received
      /\ r.sealed => q.sealed
      /\ r.aborted => q.aborted
      /\ r.outcome # "none" => q.outcome = r.outcome
      /\ q.aborted => q.outcome = "aborted"
      /\ \/ q.buffer = r.buffer /\ q.reader = r.reader
         \/ q.buffer = <<>> /\ q.reader = "dropped" /\ r.reader = "unclaimed"
  BY DEF EndsAs
<1>3. /\ r.buffer \in Seq(Chunks) /\ r.nextSeq \in Nat /\ Len(r.buffer) \in Nat
      /\ Len(got[s]) \in Nat /\ opened \in Nat /\ opened' \in Nat /\ s \in Nat
  BY <1>1 DEF Inbounds, StreamInv, StreamTypes, Ids
<1> HIDE DEF r, q
<1>4. Ordered(s)'
  BY <1>1, <1>2, <1>3 DEF StreamFits, Ordered, r, q
<1>5. Counted(s)'
  <2>1. /\ Delivered(s)' = Len(got[s]) + Len(q.buffer)
        /\ Delivered(s) = Len(got[s]) + Len(r.buffer)
    BY DEF Delivered, r, q
  <2>2. /\ r.received = r.nextSeq /\ Delivered(s) <= r.nextSeq
        /\ ~r.aborted /\ r.reader # "dropped" =>
             Delivered(s) = IF Sending(s) THEN r.nextSeq - 1 ELSE r.nextSeq
    BY <1>1 DEF StreamFits, Counted, r
  <2>3. Delivered(s)' <= q.nextSeq
    <3>1. Len(<<>>) = 0
      OBVIOUS
    <3>2. Len(q.buffer) \in Nat /\ Len(q.buffer) <= Len(r.buffer)
      BY <1>2, <1>3, <3>1
    <3>3. Delivered(s)' <= Delivered(s) /\ Delivered(s) \in Nat /\ Delivered(s)' \in Nat
      <4>1. \A a, b, c \in Nat : c <= b => a + c <= a + b /\ a + b \in Nat /\ a + c \in Nat
        OBVIOUS
      <4>2. Len(got[s]) + Len(q.buffer) <= Len(got[s]) + Len(r.buffer)
            /\ Len(got[s]) + Len(q.buffer) \in Nat /\ Len(got[s]) + Len(r.buffer) \in Nat
        BY <1>3, <3>2, <4>1, Zenon
      <4>3. QED
        BY <2>1, <4>2, Zenon
    <3>4. Delivered(s) <= r.nextSeq /\ q.nextSeq = r.nextSeq /\ r.nextSeq \in Nat
      BY <1>2, <1>3, <2>2
    <3>5. QED
      BY <3>3, <3>4
  <2>4. ASSUME ~q.aborted, q.reader # "dropped"
        PROVE  Delivered(s)' = IF Sending(s)' THEN q.nextSeq - 1 ELSE q.nextSeq
    <3>1. Sending(s)' <=> Sending(s)
      BY <1>2, <2>4 DEF r
    <3>2. Delivered(s)' = Delivered(s)
      BY <1>2, <2>1, <2>4
    <3>3. QED
      BY <1>2, <2>2, <2>4, <3>1, <3>2
  <2>5. QED
    BY <1>2, <2>2, <2>3, <2>4 DEF Counted, q
<1>6. Verdict(s)'
  BY <1>1, <1>2 DEF StreamFits, Verdict, r, q
<1>7. Unopened(s)'
  BY <1>3 DEF Unopened
<1>8. QED
  BY <1>4, <1>5, <1>6, <1>7 DEF StreamFits

(* For leaves that must not do arithmetic on lengths.                      *)
LEMMA NatSum == \A a, b \in Nat : a + b \in Nat
OBVIOUS

(* A stream whose chunks are where they were stays in order.              *)
LEMMA OrderedStays ==
    ASSUME NEW t, Ordered(t), got'[t] = got[t], inbound'[t].buffer = inbound[t].buffer,
           inbound'[t].owner = inbound[t].owner
    PROVE  Ordered(t)'
BY Zenon DEF Ordered

(* A chunk at the end of a queue.                                          *)
LEMMA AppendChunk ==
    ASSUME NEW b \in Seq(Chunks), NEW chunk \in Chunks
    PROVE  /\ Append(b, chunk) \in Seq(Chunks) /\ Len(Append(b, chunk)) = Len(b) + 1
           /\ Len(b) \in Nat
           /\ \A i \in 1..Len(b) : Append(b, chunk)[i] = b[i]
           /\ Append(b, chunk)[Len(b) + 1] = chunk
<1> DEFINE S == Chunks
<1>1. b \in Seq(S) /\ chunk \in S
  OBVIOUS
<1> HIDE DEF S
<1>2. QED
  BY <1>1, AppendProperties DEF S

(* The points of a handler task.                                           *)
Pcs == {"start", "gate", "check", "send", "whole", "short", "take", "ok", "err"}

(* A handler task moves on, and nothing else of the calls changes.         *)
LEMMA PcMoves ==
    ASSUME StreamInv, NEW c \in 1..Len(calls), NEW pc \in Pcs, Pc(c, pc)
    PROVE  /\ calls' \in Seq(Called) /\ Len(calls') = Len(calls)
           /\ calls'[c].pc = pc /\ calls'[c].op = calls[c].op /\ calls'[c].s = calls[c].s
           /\ calls'[c].by = calls[c].by /\ calls'[c].seq = calls[c].seq
           /\ \A d \in (1..Len(calls)) \ {c} : calls'[d] = calls[d]
<1>1. calls \in Seq(Called) /\ calls[c] \in Called /\ Len(calls) \in Nat
  BY DEF StreamInv, StreamTypes
<1> DEFINE new == [calls[c] EXCEPT !.pc = pc]
<1>2. /\ new \in Called /\ new.pc = pc /\ new.op = calls[c].op /\ new.s = calls[c].s
      /\ new.by = calls[c].by /\ new.seq = calls[c].seq
  BY <1>1 DEF Called, Pcs
<1>3. calls' = [calls EXCEPT ![c] = new]
  BY DEF Pc
<1> HIDE DEF new
<1>4. calls' \in Seq(Called) /\ Len(calls') = Len(calls)
  BY <1>1, <1>2, <1>3, ExceptSeq
<1>5. calls'[c] = new /\ \A d \in (1..Len(calls)) \ {c} : calls'[d] = calls[d]
  BY <1>1, <1>3
<1>6. QED
  BY <1>2, <1>4, <1>5

(* What the invariant says of one call and its stream.                     *)
LEMMA CallTyped ==
    ASSUME StreamInv, NEW c \in 1..Len(calls)
    PROVE  /\ calls[c] \in Called /\ calls[c].s \in Ids /\ c \in Nat /\ c # 0
           /\ inbound[calls[c].s] \in Inbounds /\ CallFits(c) /\ StreamFits(calls[c].s)
           /\ (inbound[calls[c].s].aborted => inbound[calls[c].s].outcome = "aborted")
<1>1. calls[c] \in Called
  BY DEF StreamInv, StreamTypes
<1>2. calls[c].s \in Ids
  BY <1>1 DEF Called
<1>3. QED
  BY <1>1, <1>2 DEF StreamInv, StreamTypes, StreamFits, Verdict

(* What a step of one handler must show is about its call and its stream. *)
LEMMA HandlerKeeps ==
    ASSUME StreamInv, NEW c \in 1..Len(calls), NEW s, s = calls[c].s,
           NEW pc \in Pcs, Pc(c, pc),
           calls[c].pc # "ok",
           UNCHANGED <<opened, writers, got>>,
           inbound' \in [Ids -> Inbounds],
           \A t \in Ids \ {s} : inbound'[t] = inbound[t],
           inbound'[s].owner = inbound[s].owner,
           inbound[s].received <= inbound'[s].received,
           inbound[s].gate \in {0, c}
             \/ /\ inbound'[s].gate = inbound[s].gate
                /\ inbound'[s].nextSeq = inbound[s].nextSeq,
           CallFits(c)', StreamFits(s)'
    PROVE  StreamInv'
<1>1. /\ calls' \in Seq(Called) /\ Len(calls') = Len(calls)
      /\ calls'[c].op = calls[c].op /\ calls'[c].s = s
      /\ \A d \in (1..Len(calls)) \ {c} : calls'[d] = calls[d]
  BY PcMoves
<1>2. s \in Ids /\ inbound[s] \in Inbounds /\ inbound'[s] \in Inbounds /\ c # 0
  BY CallTyped
<1>3. \A d \in (1..Len(calls)) \ {c} : CallFits(d)'
  <2> TAKE d \in (1..Len(calls)) \ {c}
  <2>1. CallFits(d) /\ calls'[d] = calls[d] /\ d \in Nat /\ d # 0 /\ calls[d] \in Called
    BY <1>1, CallTyped
  <2>2. CASE calls[d].s = s
    <3>1. calls[d].pc \in {"check", "send"} =>
            inbound'[s].gate = d /\ inbound'[s].nextSeq = inbound[s].nextSeq
      BY <2>1, <2>2, <1>2 DEF CallFits
    <3>2. /\ calls[d].seq \in Nat /\ inbound[s].received \in Nat /\ inbound'[s].received \in Nat
      BY <1>2, <2>1 DEF Called, Inbounds
    <3>3. QED
      BY <2>1, <2>2, <3>1, <3>2 DEF CallFits
  <2>3. CASE calls[d].s # s
    <3>1. inbound'[calls[d].s] = inbound[calls[d].s]
      BY <2>1, <2>3 DEF Called
    <3>2. QED
      BY <2>1, <3>1 DEF CallFits
  <2>4. QED
    BY <2>2, <2>3
<1>4. \A t \in Ids \ {s} : StreamFits(t)'
  <2> TAKE t \in Ids \ {s}
  <2>1. StreamFits(t) /\ inbound'[t] = inbound[t] /\ got'[t] = got[t]
    BY DEF StreamInv
  <2>2. GateHeld(t)' /\ (Sending(t)' <=> Sending(t))
    <3>1. inbound[t].gate # 0 => inbound[t].gate \in (1..Len(calls)) \ {c}
      BY <2>1 DEF StreamFits, GateHeld
    <3>2. QED
      BY <1>1, <2>1, <3>1 DEF StreamFits, GateHeld, Sending
  <2>3. Verdict(t)'
    <3>1. ClosedAt(t, inbound[t].received) => ClosedAt(t, inbound[t].received)'
      BY <1>1, <2>1 DEF ClosedAt
    <3>2. Verdict(t)
      BY <2>1 DEF StreamFits
    <3>3. QED
      BY <2>1, <3>1, <3>2 DEF Verdict
  <2>4. Ordered(t)' /\ Unopened(t)'
    <3>1. Ordered(t) /\ Unopened(t) /\ opened' = opened
      BY <2>1 DEF StreamFits
    <3>2. Ordered(t)'
      BY <2>1, <3>1, Zenon DEF Ordered
    <3>3. Unopened(t)'
      BY <2>1, <3>1, Zenon DEF Unopened
    <3>4. QED
      BY <3>2, <3>3
  <2>5. Counted(t)'
    <3>1. Delivered(t)' = Delivered(t)
      BY <2>1 DEF Delivered
    <3>2. QED
      BY <2>1, <2>2, <3>1 DEF StreamFits, Counted
  <2>6. QED
    BY <2>2, <2>3, <2>4, <2>5 DEF StreamFits
<1>5. StreamTypes'
  BY <1>1 DEF StreamInv, StreamTypes
<1>6. \A t \in Ids : writers'[t].at # "none" => t <= opened'
  BY DEF StreamInv
<1>7. QED
  BY <1>1, <1>3, <1>4, <1>5, <1>6 DEF StreamInv

(* What a step of handler c to pc must show when it ends its stream, or    *)
(* leaves it as it is, with the record q.                                  *)
MayEnd(c, s, pc, q) ==
    /\ EndsAs(inbound[s], q)
    /\ calls[c].pc # "ok"
    /\ \/ /\ q.gate = inbound[s].gate
          /\ calls[c].pc \notin {"check", "send"}
       \/ /\ q.gate = 0
          /\ \/ calls[c].pc = "check"
             \/ calls[c].pc = "send" /\ inbound[s].aborted
             \/ calls[c].pc = "send" /\ inbound[s].reader = "dropped"
    /\ q.outcome = "complete" =>
         \/ inbound[s].outcome = "complete"
         \/ pc = "ok" /\ calls[c].op = "close" /\ calls[c].seq <= inbound[s].received
    /\ pc = "gate" => calls[c].by = inbound[s].owner
    /\ pc \in {"whole", "short"} => calls[c].op = "close"
    /\ pc = "whole" => calls[c].seq <= inbound[s].received

(* Such a step keeps the invariant.                                        *)
LEMMA EndsKeeps ==
    ASSUME StreamInv, NEW c \in 1..Len(calls), NEW s, s = calls[c].s,
           NEW pc \in Pcs \ {"check", "send"}, Pc(c, pc),
           UNCHANGED <<opened, writers, got>>,
           NEW q, inbound' = [inbound EXCEPT ![s] = q], MayEnd(c, s, pc, q)
    PROVE  StreamInv'
<1> DEFINE r == inbound[s]
<1>0. /\ EndsAs(r, q)
      /\ calls[c].pc # "ok"
      /\ \/ /\ q.gate = r.gate
            /\ calls[c].pc \notin {"check", "send"}
         \/ /\ q.gate = 0
            /\ \/ calls[c].pc = "check"
               \/ calls[c].pc = "send" /\ r.aborted
               \/ calls[c].pc = "send" /\ r.reader = "dropped"
      /\ q.outcome = "complete" =>
           \/ r.outcome = "complete"
           \/ pc = "ok" /\ calls[c].op = "close" /\ calls[c].seq <= r.received
      /\ pc = "gate" => calls[c].by = r.owner
      /\ pc \in {"whole", "short"} => calls[c].op = "close"
      /\ pc = "whole" => calls[c].seq <= r.received
  BY DEF MayEnd
<1>1. /\ calls' \in Seq(Called) /\ Len(calls') = Len(calls)
      /\ calls'[c].pc = pc /\ calls'[c].op = calls[c].op /\ calls'[c].s = s
      /\ calls'[c].by = calls[c].by /\ calls'[c].seq = calls[c].seq
      /\ \A d \in (1..Len(calls)) \ {c} : calls'[d] = calls[d]
  BY PcMoves
<1>2. /\ s \in Ids /\ r \in Inbounds /\ CallFits(c) /\ StreamFits(s) /\ c \in Nat /\ c # 0
      /\ s <= opened
  BY CallTyped DEF CallFits
<1>3. /\ inbound' \in [Ids -> Inbounds] /\ inbound'[s] = q
      /\ \A t \in Ids \ {s} : inbound'[t] = inbound[t]
  BY <1>0, <1>2 DEF StreamInv, StreamTypes, EndsAs
<1>4. q.owner = r.owner /\ q.received = r.received /\ q.nextSeq = r.nextSeq
      /\ r.received \in Nat
  BY <1>0, <1>2 DEF EndsAs, Inbounds
<1>5. CallFits(c)'
  BY <1>0, <1>1, <1>2, <1>3, <1>4 DEF CallFits
<1>6. calls[c].pc \in {"check", "send"} => r.gate = c
  BY <1>2 DEF CallFits
<1>7. GateHeld(s)' /\ \/ Sending(s)' <=> Sending(s)
                      \/ r.aborted
                      \/ r.reader = "dropped"
  <2>1. CASE q.gate = r.gate /\ calls[c].pc \notin {"check", "send"}
    <3>1. r.gate # 0 => r.gate \in (1..Len(calls)) \ {c} /\ calls[r.gate].s = s
                        /\ calls[r.gate].pc \in {"check", "send"}
      BY <1>2, <2>1 DEF StreamFits, GateHeld
    <3>2. QED
      BY <1>1, <1>3, <2>1, <3>1 DEF GateHeld, Sending
  <2>2. CASE q.gate = 0 /\ calls[c].pc = "check"
    BY <1>2, <1>3, <1>6, <2>2 DEF GateHeld, Sending
  <2>3. CASE q.gate = 0 /\ (r.aborted \/ r.reader = "dropped")
    BY <1>3, <2>3 DEF GateHeld
  <2>4. QED
    BY <1>0, <2>1, <2>2, <2>3
<1>8. q.outcome = "complete" => ClosedAt(s, inbound[s].received)'
  <2>1. ASSUME ClosedAt(s, r.received)
        PROVE  ClosedAt(s, inbound[s].received)'
    <3>1. PICK d \in 1..Len(calls) : calls[d].op = "close" /\ calls[d].s = s
                                     /\ calls[d].pc = "ok" /\ calls[d].seq <= r.received
      BY <2>1 DEF ClosedAt
    <3>2. calls'[d] = calls[d] /\ d \in 1..Len(calls')
      BY <1>0, <1>1, <3>1
    <3>3. QED
      BY <1>3, <1>4, <3>1, <3>2 DEF ClosedAt
  <2>2. ASSUME pc = "ok", calls[c].op = "close", calls[c].seq <= r.received
        PROVE  ClosedAt(s, inbound[s].received)'
    <3>1. /\ calls'[c].op = "close" /\ calls'[c].s = s /\ calls'[c].pc = "ok"
          /\ calls'[c].seq <= inbound'[s].received /\ c \in 1..Len(calls')
      BY <1>1, <1>3, <1>4, <2>2
    <3>2. QED
      BY <3>1 DEF ClosedAt
  <2>3. QED
    BY <1>0, <1>2, <2>1, <2>2 DEF StreamFits, Verdict
<1>9. r.reader = "clean" => q.gate = 0
  BY <1>0, <1>2 DEF StreamFits, Verdict
<1>10. opened \in 0..MaxStreams /\ opened <= opened
  BY DEF StreamInv, StreamTypes
<1>11. StreamFits(s)'
  BY <1>0, <1>2, <1>3, <1>7, <1>8, <1>9, <1>10, EndKeeps
<1>12. r.gate \in {0, c} \/ (q.gate = r.gate /\ q.nextSeq = r.nextSeq)
  BY <1>0, <1>4, <1>6
<1>13. r.received <= q.received
  BY <1>4
<1> HIDE DEF r
<1>14. QED
  BY <1>0, <1>3, <1>4, <1>5, <1>11, <1>12, <1>13, HandlerKeeps DEF r

(* A step that moves the handler and leaves its stream alone.              *)
LEMMA QuietKeeps ==
    ASSUME StreamInv, NEW c \in 1..Len(calls), NEW pc \in Pcs \ {"check", "send"}, Pc(c, pc),
           calls[c].pc \notin {"ok", "check", "send"},
           UNCHANGED <<opened, writers, got, inbound>>,
           pc = "gate" => calls[c].by = inbound[calls[c].s].owner,
           pc \in {"whole", "short"} => calls[c].op = "close",
           pc = "whole" => calls[c].seq <= inbound[calls[c].s].received
    PROVE  StreamInv'
<1> DEFINE s == calls[c].s
           r == inbound[s]
<1>1. s \in Ids /\ r \in Inbounds /\ (r.aborted => r.outcome = "aborted")
  BY CallTyped
<1>2. EndsAs(r, r)
  BY <1>1 DEF EndsAs
<1>3. inbound' = [inbound EXCEPT ![s] = r]
  BY <1>1 DEF StreamInv, StreamTypes
<1>4. MayEnd(c, s, pc, r) /\ s = calls[c].s
  BY <1>2 DEF MayEnd
<1> HIDE DEF s, r
<1>5. QED
  BY <1>3, <1>4, EndsKeeps

(* A write takes the gate, or finds the stream sealed.                     *)
LEMMA GateKeeps ==
    ASSUME StreamInv, NEW c \in 1..Len(calls), WriteGate(c)
    PROVE  StreamInv'
<1> DEFINE s == calls[c].s
           r == inbound[s]
           q == [r EXCEPT !.gate = c]
<1>1. /\ s \in Ids /\ r \in Inbounds /\ CallFits(c) /\ StreamFits(s) /\ c \in Nat /\ c # 0
  BY CallTyped
<1>2. CASE r.sealed
  BY <1>1, <1>2, QuietKeeps DEF WriteGate, Pcs
<1>3. CASE ~r.sealed
  <2>1. /\ Pc(c, "check") /\ r.gate = 0 /\ calls[c].pc = "gate"
        /\ UNCHANGED <<opened, writers, got>> /\ inbound' = [inbound EXCEPT ![s] = q]
    BY <1>3 DEF WriteGate
  <2>2. /\ calls' \in Seq(Called) /\ Len(calls') = Len(calls)
        /\ calls'[c].pc = "check" /\ calls'[c].op = calls[c].op /\ calls'[c].s = s
        /\ calls'[c].by = calls[c].by /\ calls'[c].seq = calls[c].seq
        /\ \A d \in (1..Len(calls)) \ {c} : calls'[d] = calls[d]
    BY <2>1, PcMoves DEF Pcs
  <2>3. /\ q \in Inbounds /\ q.gate = c
        /\ q.owner = r.owner /\ q.nextSeq = r.nextSeq /\ q.received = r.received
        /\ q.sealed = r.sealed /\ q.aborted = r.aborted /\ q.outcome = r.outcome
        /\ q.buffer = r.buffer /\ q.reader = r.reader
    BY <1>1 DEF Inbounds
  <2> HIDE DEF q
  <2>4. /\ inbound' \in [Ids -> Inbounds] /\ inbound'[s] = q
        /\ \A t \in Ids \ {s} : inbound'[t] = inbound[t]
    BY <1>1, <2>1, <2>3 DEF StreamInv, StreamTypes
  <2>5. CallFits(c)'
    BY <1>1, <2>1, <2>2, <2>3, <2>4 DEF CallFits
  <2> USE <1>1, <2>3
  <2>6. ASSUME NEW t, t = s
        PROVE  StreamFits(t)'
    <3>1. GateHeld(t)' /\ ~Sending(t) /\ ~Sending(t)'
      BY <2>1, <2>2, <2>4, <2>6 DEF GateHeld, Sending
    <3>2. Ordered(t)'
      BY <2>1, <2>4, <2>6 DEF StreamFits, Ordered
    <3>3. Counted(t)'
      BY <2>1, <2>4, <2>6, <3>1 DEF StreamFits, Counted, Delivered
    <3>4. Verdict(t)'
      <4>1. ClosedAt(t, r.received) => ClosedAt(t, inbound[t].received)'
        BY <2>1, <2>2, <2>4, <2>6 DEF ClosedAt
      <4>2. QED
        BY <1>3, <2>1, <2>4, <2>6, <4>1 DEF StreamFits, Verdict
    <3>5. Unopened(t)'
      BY <2>1, <2>6 DEF CallFits, Unopened, Ids, StreamInv, StreamTypes
    <3>6. QED
      BY <3>1, <3>2, <3>3, <3>4, <3>5 DEF StreamFits
  <2>8. /\ r.received <= q.received /\ r.gate \in {0, c} /\ calls[c].pc # "ok"
        /\ "check" \in Pcs /\ s = calls[c].s
    BY <2>1 DEF Inbounds, Pcs
  <2> HIDE DEF s, r
  <2>9. QED
    BY <2>1, <2>3, <2>4, <2>5, <2>6, <2>8, HandlerKeeps, Zenon DEF r
<1>4. QED
  BY <1>2, <1>3

(* The sequence and length checks under the gate.                          *)
LEMMA CheckKeeps ==
    ASSUME StreamInv, NEW c \in 1..Len(calls), WriteCheck(c)
    PROVE  StreamInv'
<1> DEFINE s == calls[c].s
           r == inbound[s]
           free == [r EXCEPT !.gate = 0]
<1>1. /\ s \in Ids /\ r \in Inbounds /\ CallFits(c) /\ StreamFits(s) /\ c \in Nat /\ c # 0
      /\ (r.aborted => r.outcome = "aborted") /\ calls[c] \in Called
  BY CallTyped
<1>2. /\ calls[c].pc = "check" /\ r.gate = c
      /\ UNCHANGED <<opened, writers, got>>
  BY <1>1 DEF WriteCheck, CallFits
<1>3. CASE ~(InSequence(c) /\ Fits(s))
  <2>1. /\ free \in Inbounds /\ free.gate = 0 /\ free.outcome = r.outcome
        /\ (free.aborted => free.outcome = "aborted") /\ EndsAs(r, free)
    BY <1>1 DEF Inbounds, EndsAs
  <2>2. /\ Pc(c, "err") /\ inbound' = [inbound EXCEPT ![s] = Killed(free)]
    BY <1>3 DEF WriteCheck
  <2> HIDE DEF free
  <2>3. /\ EndsAs(r, Killed(free)) /\ Killed(free).gate = 0
        /\ (Killed(free).outcome = "complete" => r.outcome = "complete")
    BY <2>1, KilledEnds, EndedTwice
  <2>4. s = calls[c].s /\ "err" \in Pcs \ {"check", "send"} /\ calls[c].pc # "ok"
    BY <1>2 DEF Pcs
  <2> DEFINE q == Killed(free)
  <2> HIDE DEF s, r, q
  <2>5. MayEnd(c, s, "err", q) /\ inbound' = [inbound EXCEPT ![s] = q]
    BY <1>2, <2>2, <2>3 DEF MayEnd, q, r
  <2>6. QED
    BY <1>2, <2>2, <2>4, <2>5, EndsKeeps
<1>4. CASE InSequence(c) /\ Fits(s)
  <2> DEFINE pc == IF r.aborted THEN "err" ELSE "send"
             g == IF r.aborted THEN 0 ELSE c
             q == [r EXCEPT !.nextSeq = @ + 1, !.received = @ + 1, !.gate = g]
  <2>1. Pc(c, pc) /\ pc \in Pcs /\ inbound' = [inbound EXCEPT ![s] = q]
    BY <1>2, <1>4 DEF WriteCheck, Pcs
  <2>2. /\ calls' \in Seq(Called) /\ Len(calls') = Len(calls)
        /\ calls'[c].pc = pc /\ calls'[c].op = calls[c].op /\ calls'[c].s = s
        /\ calls'[c].by = calls[c].by /\ calls'[c].seq = calls[c].seq
        /\ \A d \in (1..Len(calls)) \ {c} : calls'[d] = calls[d]
    BY <2>1, PcMoves
  <2>3. /\ q \in Inbounds /\ q.gate = g /\ g \in Nat
        /\ q.owner = r.owner /\ q.nextSeq = r.nextSeq + 1 /\ q.received = r.received + 1
        /\ q.sealed = r.sealed /\ q.aborted = r.aborted /\ q.outcome = r.outcome
        /\ q.buffer = r.buffer /\ q.reader = r.reader
        /\ r.nextSeq \in Nat /\ r.received \in Nat /\ calls[c].seq = r.nextSeq
    <3>1. r.nextSeq \in Nat /\ r.received \in Nat /\ g \in Nat
      BY <1>1 DEF Inbounds
    <3>2. r.nextSeq + 1 \in Nat /\ r.received + 1 \in Nat
      BY <3>1
    <3>3. calls[c].seq = r.nextSeq
      BY <1>4 DEF InSequence
    <3>4. q \in Inbounds
      BY <1>1, <3>1, <3>2 DEF Inbounds
    <3>5. /\ q.gate = g /\ q.owner = r.owner
          /\ q.nextSeq = r.nextSeq + 1 /\ q.received = r.received + 1
      BY <1>1 DEF Inbounds
    <3>6. /\ q.sealed = r.sealed /\ q.aborted = r.aborted /\ q.outcome = r.outcome
          /\ q.buffer = r.buffer /\ q.reader = r.reader
      BY <1>1 DEF Inbounds
    <3>7. QED
      BY <3>1, <3>3, <3>4, <3>5, <3>6, Zenon
  <2> HIDE DEF q
  <2>4. /\ inbound' \in [Ids -> Inbounds] /\ inbound'[s] = q
        /\ \A t \in Ids \ {s} : inbound'[t] = inbound[t]
    BY <1>1, <2>1, <2>3 DEF StreamInv, StreamTypes
  <2>5. CallFits(c)'
    BY <1>1, <1>2, <2>2, <2>3, <2>4 DEF CallFits
  <2>6. ASSUME NEW t, t = s
        PROVE  StreamFits(t)'
    <3>1. GateHeld(t)' /\ ~Sending(t) /\ (Sending(t)' <=> ~r.aborted)
      BY <1>1, <1>2, <2>2, <2>3, <2>4, <2>6 DEF GateHeld, Sending
    <3>2. Ordered(t)'
      <4>1. /\ Ordered(t) /\ got'[t] = got[t]
            /\ inbound'[t].buffer = inbound[t].buffer /\ inbound'[t].owner = inbound[t].owner
        BY <1>1, <1>2, <2>3, <2>4, <2>6 DEF StreamFits
      <4>2. QED
        BY <4>1, OrderedStays
    <3>3. Counted(t)'
      <4>1. Delivered(t)' = Delivered(t) /\ Delivered(t) \in Nat
        <5>1. got[t] \in Seq(Chunks) /\ r.buffer \in Seq(Chunks)
          BY <1>1, <2>6 DEF StreamInv, StreamTypes, Inbounds
        <5>2. Delivered(t)' = Len(got[t]) + Len(r.buffer) /\ Delivered(t) = Len(got[t]) + Len(r.buffer)
          BY <1>2, <2>3, <2>4, <2>6 DEF Delivered
        <5>3. Len(got[t]) \in Nat /\ Len(r.buffer) \in Nat
          BY <5>1
        <5>4. Len(got[t]) + Len(r.buffer) \in Nat
          BY <5>3, NatSum, Zenon
        <5>5. QED
          BY <5>2, <5>4, Zenon
      <4>2. /\ r.received = r.nextSeq /\ Delivered(t) <= r.nextSeq
            /\ ~r.aborted /\ r.reader # "dropped" => Delivered(t) = r.nextSeq
        BY <1>1, <2>6, <3>1 DEF StreamFits, Counted
      <4>3. QED
        BY <2>3, <2>4, <2>6, <3>1, <4>1, <4>2 DEF Counted
    <3>4. Verdict(t)'
      <4>1. ClosedAt(t, r.received) => ClosedAt(t, inbound[t].received)'
        <5>1. \A d \in 1..Len(calls) : calls[d].seq \in Nat
          BY CallTyped DEF Called
        <5>2. ASSUME NEW d \in 1..Len(calls), calls[d].op = "close", calls[d].s = t,
                     calls[d].pc = "ok", calls[d].seq <= r.received
              PROVE  /\ calls'[d].op = "close" /\ calls'[d].s = t
                     /\ calls'[d].pc = "ok" /\ calls'[d].seq <= q.received
          BY <1>2, <2>2, <2>3, <5>1, <5>2
        <5>3. QED
          BY <2>2, <2>4, <2>6, <5>2 DEF ClosedAt
      <4>2. r.reader # "clean"
        BY <1>1, <1>2 DEF StreamFits, Verdict
      <4>3. QED
        BY <1>1, <2>3, <2>4, <2>6, <4>1, <4>2 DEF StreamFits, Verdict
    <3>5. Unopened(t)'
      BY <1>1, <1>2, <2>6 DEF CallFits, Unopened, Ids, StreamInv, StreamTypes
    <3>6. QED
      BY <3>1, <3>2, <3>3, <3>4, <3>5 DEF StreamFits
  <2>7. /\ r.received <= q.received /\ r.gate \in {0, c} /\ calls[c].pc # "ok"
        /\ s = calls[c].s
    BY <1>2, <2>3
  <2> HIDE DEF s, r, pc
  <2>8. QED
    BY <1>2, <2>1, <2>3, <2>4, <2>5, <2>6, <2>7, HandlerKeeps, Zenon DEF r
<1>5. QED
  BY <1>3, <1>4

(* The first step of every handler.                                        *)
LEMMA LookupKeeps ==
    ASSUME StreamInv, NEW c \in 1..Len(calls),
           Unknown(c) \/ WriteLookup(c) \/ CloseLookup(c) \/ AcceptLookup(c)
    PROVE  StreamInv'
<1> DEFINE s == calls[c].s
           r == inbound[s]
<1>1. /\ s \in Ids /\ r \in Inbounds /\ calls[c] \in Called
      /\ (r.aborted => r.outcome = "aborted")
  BY CallTyped
<1>2. calls[c].pc = "start" /\ UNCHANGED <<opened, writers, got>>
  BY DEF Unknown, WriteLookup, CloseLookup, AcceptLookup
<1>3. CASE Unknown(c)
  BY <1>2, <1>3, QuietKeeps DEF Unknown, Pcs
<1>4. CASE AcceptLookup(c)
  BY <1>2, <1>4, QuietKeeps DEF AcceptLookup, Pcs
<1>5. CASE CloseLookup(c)
  <2>1. CASE r.received = calls[c].seq
    <3>1. r.received \in Nat /\ calls[c].seq <= inbound[calls[c].s].received
      BY <1>1, <2>1 DEF Inbounds
    <3>2. Pc(c, "whole") /\ UNCHANGED inbound /\ calls[c].op = "close"
      BY <1>5, <2>1 DEF CloseLookup
    <3>3. QED
      BY <1>2, <3>1, <3>2, QuietKeeps DEF Pcs
  <2>2. CASE r.received # calls[c].seq
    <3>2. Pc(c, "short") /\ UNCHANGED inbound /\ calls[c].op = "close"
      BY <1>5, <2>2 DEF CloseLookup
    <3>3. QED
      BY <1>2, <3>2, QuietKeeps DEF Pcs
  <2>3. QED
    BY <2>1, <2>2
<1>6. CASE WriteLookup(c)
  <2>1. CASE Pc(c, "gate") /\ UNCHANGED inbound
    BY <1>2, <1>6, <2>1, QuietKeeps DEF WriteLookup, Owned, Pcs
  <2>2. CASE Pc(c, "err") /\ inbound' = [inbound EXCEPT ![s] = Killed(r)]
    <3> DEFINE q == Killed(r)
    <3>1. /\ EndsAs(r, q) /\ q.gate = r.gate
          /\ q.outcome = "complete" => r.outcome = "complete"
      BY <1>1, KilledEnds
    <3> HIDE DEF q
    <3>2. MayEnd(c, s, "err", q) /\ s = calls[c].s /\ "err" \in Pcs \ {"check", "send"}
      BY <1>2, <3>1 DEF MayEnd, Pcs
    <3>3. inbound' = [inbound EXCEPT ![s] = q]
      BY <2>2 DEF q
    <3> HIDE DEF s, r
    <3>4. QED
      BY <1>2, <2>2, <3>2, <3>3, EndsKeeps
  <2>3. QED
    BY <1>6, <2>1, <2>2 DEF WriteLookup
<1>7. QED
  BY <1>3, <1>4, <1>5, <1>6

(* The verdicts of Close and Abort.                                        *)
LEMMA ConcludeKeeps ==
    ASSUME StreamInv, NEW c \in 1..Len(calls), CloseFinish(c) \/ AbortStream(c)
    PROVE  StreamInv'
<1> DEFINE s == calls[c].s
           r == inbound[s]
<1>1. /\ s \in Ids /\ r \in Inbounds /\ calls[c] \in Called /\ CallFits(c)
      /\ (r.aborted => r.outcome = "aborted")
  BY CallTyped
<1>2. calls[c].pc \in {"start", "whole", "short"} /\ UNCHANGED <<opened, writers, got>>
  BY DEF CloseFinish, AbortStream
<1>3. PICK verdict \in {"complete", "aborted"}, pc \in {"ok", "err"} :
         /\ inbound' = [inbound EXCEPT ![s] = Sealed(Finished(r, verdict))]
         /\ Pc(c, pc)
         /\ verdict = "complete" => calls[c].pc = "whole" /\ pc = "ok"
  <2>1. CASE AbortStream(c)
    BY <2>1 DEF AbortStream
  <2>2. CASE CloseFinish(c)
    BY <2>2 DEF CloseFinish
  <2>3. QED
    BY <2>1, <2>2
<1> DEFINE q == Sealed(Finished(r, verdict))
<1>4. /\ EndsAs(r, q) /\ q.gate = r.gate
      /\ q.outcome = IF r.outcome = "none" THEN verdict ELSE r.outcome
  BY <1>1, SealFinishedEnds
<1> HIDE DEF q
<1>5. MayEnd(c, s, pc, q) /\ s = calls[c].s /\ pc \in Pcs \ {"check", "send"}
  BY <1>1, <1>2, <1>3, <1>4 DEF MayEnd, Pcs, CallFits
<1>6. inbound' = [inbound EXCEPT ![s] = q] /\ Pc(c, pc)
  BY <1>3 DEF q
<1> HIDE DEF s, r
<1>7. QED
  BY <1>2, <1>5, <1>6, EndsKeeps

(* The reader is claimed.                                                  *)
LEMMA TakeKeeps ==
    ASSUME StreamInv, NEW c \in 1..Len(calls), AcceptTake(c)
    PROVE  StreamInv'
<1> DEFINE s == calls[c].s
           r == inbound[s]
<1>1. /\ s \in Ids /\ r \in Inbounds /\ CallFits(c) /\ StreamFits(s) /\ c \in Nat /\ c # 0
  BY CallTyped
<1>2. calls[c].pc = "take" /\ UNCHANGED <<opened, writers, got>>
  BY DEF AcceptTake
<1>3. CASE ~(s \in registry /\ r.reader = "unclaimed")
  <2>0. r = [r EXCEPT !.reader = r.reader] /\ inbound = [inbound EXCEPT ![s] = r]
    BY <1>1 DEF StreamInv, StreamTypes, Inbounds
  <2>1. Pc(c, "err") /\ UNCHANGED inbound
    BY <1>3, <2>0 DEF AcceptTake
  <2>2. QED
    BY <1>2, <2>1, QuietKeeps DEF Pcs
<1>4. CASE s \in registry /\ r.reader = "unclaimed"
  <2> DEFINE q == [r EXCEPT !.reader = "reading"]
  <2>1. Pc(c, "ok") /\ inbound' = [inbound EXCEPT ![s] = q]
    BY <1>4 DEF AcceptTake
  <2>2. /\ calls' \in Seq(Called) /\ Len(calls') = Len(calls)
        /\ calls'[c].pc = "ok" /\ calls'[c].op = calls[c].op /\ calls'[c].s = s
        /\ calls'[c].by = calls[c].by /\ calls'[c].seq = calls[c].seq
        /\ \A d \in (1..Len(calls)) \ {c} : calls'[d] = calls[d]
    BY <2>1, PcMoves DEF Pcs
  <2>3. /\ q \in Inbounds /\ q.gate = r.gate /\ q.reader = "reading"
        /\ q.owner = r.owner /\ q.nextSeq = r.nextSeq /\ q.received = r.received
        /\ q.sealed = r.sealed /\ q.aborted = r.aborted /\ q.outcome = r.outcome
        /\ q.buffer = r.buffer
    BY <1>1 DEF Inbounds
  <2> HIDE DEF q
  <2>4. /\ inbound' \in [Ids -> Inbounds] /\ inbound'[s] = q
        /\ \A t \in Ids \ {s} : inbound'[t] = inbound[t]
    BY <1>1, <2>1, <2>3 DEF StreamInv, StreamTypes
  <2>5. CallFits(c)'
    BY <1>1, <1>2, <2>2, <2>3, <2>4 DEF CallFits
  <2>6. r.gate # 0 => r.gate \in (1..Len(calls)) \ {c} /\ calls[r.gate].s = s
                      /\ calls[r.gate].pc \in {"check", "send"}
    BY <1>1, <1>2 DEF StreamFits, GateHeld
  <2>7. ASSUME NEW t, t = s
        PROVE  StreamFits(t)'
    <3>1. GateHeld(t)' /\ (Sending(t) <=> Sending(t)')
      BY <1>1, <2>2, <2>3, <2>4, <2>6, <2>7 DEF GateHeld, Sending
    <3>2. Ordered(t)'
      <4>1. /\ Ordered(t) /\ got'[t] = got[t]
            /\ inbound'[t].buffer = inbound[t].buffer /\ inbound'[t].owner = inbound[t].owner
        BY <1>1, <1>2, <2>3, <2>4, <2>7 DEF StreamFits
      <4>2. QED
        BY <4>1, OrderedStays
    <3>3. Counted(t)'
      BY <1>1, <1>2, <1>4, <2>3, <2>4, <2>7, <3>1 DEF StreamFits, Counted, Delivered
    <3>4. Verdict(t)'
      <4>1. ClosedAt(t, r.received) => ClosedAt(t, inbound[t].received)'
        BY <1>2, <2>2, <2>3, <2>4, <2>7 DEF ClosedAt
      <4>2. QED
        BY <1>1, <2>3, <2>4, <2>7, <4>1 DEF StreamFits, Verdict
    <3>5. Unopened(t)'
      BY <1>1, <1>2, <2>7 DEF CallFits, Unopened, Ids, StreamInv, StreamTypes
    <3>6. QED
      BY <3>1, <3>2, <3>3, <3>4, <3>5 DEF StreamFits
  <2>8. /\ r.received <= q.received /\ q.gate = r.gate /\ q.nextSeq = r.nextSeq
        /\ calls[c].pc # "ok" /\ s = calls[c].s /\ "ok" \in Pcs
    BY <1>1, <1>2, <2>3 DEF Inbounds, Pcs
  <2>9. /\ inbound'[s].owner = inbound[s].owner
        /\ inbound[s].received <= inbound'[s].received
        /\ inbound[s].gate \in {0, c}
             \/ /\ inbound'[s].gate = inbound[s].gate
                /\ inbound'[s].nextSeq = inbound[s].nextSeq
    BY <2>3, <2>4, <2>8
  <2> HIDE DEF s, r
  <2>10. QED
    BY <1>2, <2>1, <2>4, <2>5, <2>7, <2>8, <2>9, HandlerKeeps, Zenon
<1>5. QED
  BY <1>3, <1>4

(* The send: the chunk goes behind those in the window, whose number is    *)
(* the chunk's because the gate was held since it was counted.             *)
LEMMA SendKeeps ==
    ASSUME StreamInv, NEW c \in 1..Len(calls), WriteSend(c)
    PROVE  StreamInv'
<1> DEFINE s == calls[c].s
           r == inbound[s]
           free == [r EXCEPT !.gate = 0]
<1>1. /\ s \in Ids /\ r \in Inbounds /\ CallFits(c) /\ StreamFits(s) /\ c \in Nat /\ c # 0
      /\ (r.aborted => r.outcome = "aborted") /\ calls[c] \in Called
  BY CallTyped
<1>2. /\ calls[c].pc = "send" /\ r.gate = c /\ r.nextSeq = calls[c].seq + 1
      /\ calls[c].by = r.owner /\ s = calls[c].s
      /\ UNCHANGED <<opened, writers, got>>
  BY <1>1 DEF WriteSend, CallFits
<1>3. /\ free \in Inbounds /\ free.gate = 0 /\ free.outcome = r.outcome
      /\ (free.aborted => free.outcome = "aborted") /\ EndsAs(r, free)
      /\ free.buffer = r.buffer /\ free.owner = r.owner /\ free.nextSeq = r.nextSeq
      /\ free.received = r.received /\ free.sealed = r.sealed /\ free.aborted = r.aborted
      /\ free.reader = r.reader
  BY <1>1 DEF Inbounds, EndsAs
<1>4. "err" \in Pcs \ {"check", "send"} /\ "ok" \in Pcs
  BY DEF Pcs
<1>5. CASE r.aborted
  <2>1. Pc(c, "err") /\ inbound' = [inbound EXCEPT ![s] = free]
    BY <1>5 DEF WriteSend
  <2> HIDE DEF free
  <2>2. MayEnd(c, s, "err", free)
    BY <1>2, <1>3, <1>5 DEF MayEnd
  <2> HIDE DEF s, r
  <2>3. QED
    BY <1>2, <1>4, <2>1, <2>2, EndsKeeps
<1>6. CASE ~r.aborted /\ r.reader = "dropped"
  <2>1. Pc(c, "err") /\ inbound' = [inbound EXCEPT ![s] = Killed(free)]
    BY <1>6 DEF WriteSend
  <2> HIDE DEF free
  <2> DEFINE q == Killed(free)
  <2>2. /\ EndsAs(r, q) /\ q.gate = 0
        /\ (q.outcome = "complete" => r.outcome = "complete")
    BY <1>3, KilledEnds, EndedTwice
  <2>3. inbound' = [inbound EXCEPT ![s] = q]
    BY <2>1
  <2> HIDE DEF q
  <2>4. MayEnd(c, s, "err", q)
    BY <1>2, <1>6, <2>2 DEF MayEnd
  <2> HIDE DEF s, r
  <2>5. QED
    BY <1>2, <1>4, <2>1, <2>3, <2>4, EndsKeeps
<1>7. CASE ~r.aborted /\ r.reader # "dropped"
  <2> DEFINE chunk == [seq |-> calls[c].seq, by |-> calls[c].by]
             buf == Append(r.buffer, chunk)
             q == [free EXCEPT !.buffer = buf]
  <2>1. Pc(c, "ok") /\ inbound' = [inbound EXCEPT ![s] = [r EXCEPT !.gate = 0, !.buffer = buf]]
    BY <1>7 DEF WriteSend
  <2>2. [r EXCEPT !.gate = 0, !.buffer = buf] = q
    BY <1>1 DEF Inbounds
  <2>3. /\ r.buffer \in Seq(Chunks) /\ chunk \in Chunks
        /\ chunk = [seq |-> calls[c].seq, by |-> r.owner]
    BY <1>1, <1>2 DEF Inbounds, Called, Chunks
  <2>4. /\ buf \in Seq(Chunks) /\ Len(buf) = Len(r.buffer) + 1 /\ Len(r.buffer) \in Nat
        /\ \A i \in 1..Len(r.buffer) : buf[i] = r.buffer[i]
        /\ buf[Len(r.buffer) + 1] = chunk
    BY <2>3, AppendChunk
  <2> HIDE DEF buf, free
  <2>5. /\ q \in Inbounds /\ q.gate = 0 /\ q.reader = r.reader
        /\ q.owner = r.owner /\ q.nextSeq = r.nextSeq /\ q.received = r.received
        /\ q.sealed = r.sealed /\ q.aborted = r.aborted /\ q.outcome = r.outcome
        /\ q.buffer = buf
    BY <1>3, <2>4 DEF Inbounds
  <2>6. inbound' = [inbound EXCEPT ![s] = q]
    BY <2>1, <2>2
  <2> HIDE DEF q
  <2>7. /\ calls' \in Seq(Called) /\ Len(calls') = Len(calls)
        /\ calls'[c].pc = "ok" /\ calls'[c].op = calls[c].op /\ calls'[c].s = s
        /\ calls'[c].by = calls[c].by /\ calls'[c].seq = calls[c].seq
        /\ \A d \in (1..Len(calls)) \ {c} : calls'[d] = calls[d]
    BY <1>4, <2>1, PcMoves
  <2>8. /\ inbound' \in [Ids -> Inbounds] /\ inbound'[s] = q
        /\ \A t \in Ids \ {s} : inbound'[t] = inbound[t]
    BY <1>1, <2>6, <2>5 DEF StreamInv, StreamTypes
  <2>9. CallFits(c)'
    BY <1>1, <1>2, <2>7, <2>5, <2>8 DEF CallFits
  <2>10. ASSUME NEW t, t = s
         PROVE  StreamFits(t)'
    <3>1. GateHeld(t)' /\ Sending(t) /\ ~Sending(t)'
      BY <1>1, <1>2, <2>5, <2>8, <2>10 DEF GateHeld, Sending
    <3>2. got[t] \in Seq(Chunks) /\ Len(got[t]) \in Nat /\ calls[c].seq \in Nat /\ got'[t] = got[t]
      BY <1>1, <1>2, <2>10 DEF StreamInv, StreamTypes, Called
    <3>3. r.received = r.nextSeq /\ Len(got[t]) + Len(r.buffer) = r.nextSeq - 1
      BY <1>1, <1>7, <2>10, <3>1 DEF StreamFits, Counted, Delivered
    <3>4. Len(got[t]) + Len(r.buffer) = calls[c].seq
      <4>1. \A k \in Nat : (k + 1) - 1 = k
        OBVIOUS
      <4>2. r.nextSeq - 1 = calls[c].seq
        BY <1>2, <3>2, <4>1, Zenon
      <4>3. QED
        BY <3>3, <4>2, Zenon
    <3>5. Ordered(t)'
      <4>1. \A i \in 1..Len(r.buffer) :
               buf[i] = [seq |-> Len(got[t]) + i - 1, by |-> r.owner]
        BY <1>1, <2>4, <2>10 DEF StreamFits, Ordered
      <4>2. Len(got[t]) + (Len(r.buffer) + 1) - 1 = calls[c].seq
        <5>1. \A a, b \in Nat : a + (b + 1) - 1 = a + b
          OBVIOUS
        <5>2. QED
          BY <2>4, <3>2, <3>4, <5>1, Zenon
      <4>3. \A i \in 1..Len(buf) : buf[i] = [seq |-> Len(got[t]) + i - 1, by |-> r.owner]
        <5> TAKE i \in 1..Len(buf)
        <5>1. i \in 1..Len(r.buffer) \/ i = Len(r.buffer) + 1
          BY <2>4
        <5>2. CASE i \in 1..Len(r.buffer)
          BY <4>1, <5>2, Zenon
        <5>3. CASE i = Len(r.buffer) + 1
          <6>1. buf[i] = [seq |-> calls[c].seq, by |-> r.owner]
            BY <2>3, <2>4, <5>3, Zenon
          <6>2. Len(got[t]) + i - 1 = calls[c].seq
            BY <4>2, <5>3, Zenon
          <6>3. QED
            BY <6>1, <6>2, Zenon
        <5>4. QED
          BY <5>1, <5>2, <5>3, Zenon
      <4>4. \A i \in 1..Len(got[t]) : got[t][i] = [seq |-> i - 1, by |-> r.owner]
        BY <1>1, <2>10 DEF StreamFits, Ordered
      <4>5. got'[t] = got[t] /\ inbound'[t].buffer = buf /\ inbound'[t].owner = r.owner
        BY <2>5, <2>8, <2>10, <3>2
      <4>6. QED
        BY <4>3, <4>4, <4>5, Zenon DEF Ordered
    <3>6. Counted(t)'
      <4>1. Delivered(t)' = Len(got[t]) + Len(buf)
        BY <2>5, <2>8, <2>10, <3>2 DEF Delivered
      <4>2. Len(got[t]) + Len(buf) = r.nextSeq
        <5>1. \A a, b \in Nat : a + (b + 1) = (a + b) + 1
          OBVIOUS
        <5>2. Len(got[t]) + (Len(r.buffer) + 1) = calls[c].seq + 1
          BY <2>4, <3>2, <3>4, <5>1, Zenon
        <5>3. QED
          BY <1>2, <2>4, <5>2, Zenon
      <4>3. r.nextSeq \in Nat
        BY <1>2, <3>2
      <4>4. QED
        BY <2>5, <2>8, <2>10, <3>1, <3>3, <4>1, <4>2, <4>3 DEF Counted
    <3>7. Verdict(t)'
      <4>1. ASSUME ClosedAt(t, r.received)
            PROVE  ClosedAt(t, inbound[t].received)'
        <5>1. PICK d \in 1..Len(calls) : calls[d].op = "close" /\ calls[d].s = t
                                         /\ calls[d].pc = "ok" /\ calls[d].seq <= r.received
          BY <4>1 DEF ClosedAt
        <5>2. calls'[d] = calls[d] /\ d \in 1..Len(calls')
          BY <1>2, <2>7, <5>1
        <5>3. QED
          BY <2>5, <2>8, <2>10, <5>1, <5>2 DEF ClosedAt
      <4>2. r.reader # "clean"
        BY <1>1, <1>2 DEF StreamFits, Verdict
      <4>3. QED
        BY <1>1, <2>5, <2>8, <2>10, <4>1, <4>2 DEF StreamFits, Verdict
    <3>8. Unopened(t)'
      BY <1>1, <1>2, <2>10 DEF CallFits, Unopened, Ids, StreamInv, StreamTypes
    <3>9. QED
      BY <3>1, <3>5, <3>6, <3>7, <3>8 DEF StreamFits
  <2>11. /\ inbound'[s].owner = inbound[s].owner
         /\ inbound[s].received <= inbound'[s].received
         /\ inbound[s].gate \in {0, c}
              \/ /\ inbound'[s].gate = inbound[s].gate
                 /\ inbound'[s].nextSeq = inbound[s].nextSeq
         /\ calls[c].pc # "ok"
    BY <1>1, <1>2, <2>5, <2>8 DEF Inbounds
  <2> HIDE DEF s, r
  <2>12. QED
    BY <1>2, <1>4, <2>1, <2>8, <2>9, <2>10, <2>11, HandlerKeeps, ZenonT(40)
<1>8. QED
  BY <1>5, <1>6, <1>7

(* Every step of a handler task.                                           *)
LEMMA HandlersKeep ==
    ASSUME StreamInv, NEW c \in 1..Len(calls), Handler(c)
    PROVE  StreamInv'
BY LookupKeeps, GateKeeps, CheckKeeps, SendKeeps, ConcludeKeeps, TakeKeeps DEF Handler

(* A stream that a step leaves alone, the calls with it.                   *)
LEMMA SameStream ==
    ASSUME StreamInv, NEW t \in Ids, inbound'[t] = inbound[t], got'[t] = got[t],
           UNCHANGED calls, opened' \in 0..MaxStreams, opened <= opened'
    PROVE  StreamFits(t)'
<1>1. StreamFits(t) /\ opened \in Nat /\ opened' \in Nat /\ t \in Nat
  BY DEF StreamInv, StreamTypes, Ids
<1>2. GateHeld(t)' /\ Ordered(t)' /\ Unopened(t)'
  BY <1>1 DEF StreamFits, GateHeld, Ordered, Unopened
<1>3. Counted(t)'
  <2>1. Delivered(t)' = Delivered(t) /\ (Sending(t)' <=> Sending(t))
    BY DEF Delivered, Sending
  <2>2. QED
    BY <1>1, <2>1 DEF StreamFits, Counted
<1>4. Verdict(t)'
  <2>1. ClosedAt(t, inbound[t].received)' <=> ClosedAt(t, inbound[t].received)
    BY DEF ClosedAt
  <2>2. QED
    BY <1>1, <2>1 DEF StreamFits, Verdict
<1>5. QED
  BY <1>2, <1>3, <1>4 DEF StreamFits

(* What a step of the reader must show.                                    *)
LEMMA ReaderKeeps ==
    ASSUME StreamInv, NEW s \in Ids, UNCHANGED <<opened, calls, writers>>,
           NEW q \in Inbounds, inbound' = [inbound EXCEPT ![s] = q],
           q.owner = inbound[s].owner, q.nextSeq = inbound[s].nextSeq,
           q.received = inbound[s].received, q.gate = inbound[s].gate,
           NEW u \in Seq(Chunks), got' = [got EXCEPT ![s] = u],
           StreamFits(s)'
    PROVE  StreamInv'
<1>1. /\ inbound' \in [Ids -> Inbounds] /\ inbound'[s] = q
      /\ got' \in [Ids -> Seq(Chunks)]
      /\ \A t \in Ids \ {s} : inbound'[t] = inbound[t] /\ got'[t] = got[t]
  BY DEF StreamInv, StreamTypes
<1>2. StreamTypes'
  BY <1>1 DEF StreamInv, StreamTypes
<1>3. opened' \in 0..MaxStreams /\ opened <= opened'
  BY DEF StreamInv, StreamTypes
<1>4. \A t \in Ids : StreamFits(t)'
  BY <1>1, <1>3, SameStream
<1>5. ASSUME NEW c \in 1..Len(calls)
      PROVE  CallFits(c)'
  <2>1. CallFits(c) /\ calls[c].s \in Ids
    BY CallTyped
  <2>2. CASE calls[c].s = s
    BY <1>1, <2>1, <2>2 DEF CallFits
  <2>3. CASE calls[c].s # s
    <3>1. inbound'[calls[c].s] = inbound[calls[c].s]
      BY <1>1, <2>1, <2>3
    <3>2. QED
      BY <2>1, <3>1 DEF CallFits
  <2>4. QED
    BY <2>2, <2>3
<1>6. \A t \in Ids : writers'[t].at # "none" => t <= opened'
  BY DEF StreamInv
<1>7. QED
  BY <1>2, <1>4, <1>5, <1>6 DEF StreamInv

(* next_chunk moves a chunk from the window to the reader.                 *)
LEMMA ChunkKeeps ==
    ASSUME StreamInv, NEW s \in Ids, NextChunk(s)
    PROVE  StreamInv'
<1> DEFINE r == inbound[s]
           first == Head(r.buffer)
           rest == Tail(r.buffer)
           u == Append(got[s], first)
           q == [r EXCEPT !.buffer = rest]
<1>1. /\ r \in Inbounds /\ StreamFits(s) /\ got[s] \in Seq(Chunks)
      /\ r.buffer \in Seq(Chunks) /\ r.buffer # <<>>
      /\ UNCHANGED <<opened, calls, writers>>
      /\ inbound' = [inbound EXCEPT ![s] = q] /\ got' = [got EXCEPT ![s] = u]
      /\ r.reader = "reading"
  BY DEF NextChunk, StreamInv, StreamTypes, Inbounds
<1>2. /\ first \in Chunks /\ first = r.buffer[1] /\ rest \in Seq(Chunks)
      /\ Len(r.buffer) \in Nat /\ Len(r.buffer) >= 1 /\ Len(rest) = Len(r.buffer) - 1
      /\ \A i \in 1..Len(rest) : rest[i] = r.buffer[i + 1] /\ i + 1 \in 1..Len(r.buffer)
  BY <1>1
<1> HIDE DEF first, rest
<1>3. /\ u \in Seq(Chunks) /\ Len(u) = Len(got[s]) + 1 /\ Len(got[s]) \in Nat
      /\ \A i \in 1..Len(got[s]) : u[i] = got[s][i]
      /\ u[Len(got[s]) + 1] = first
  BY <1>1, <1>2, AppendProperties
<1> HIDE DEF u
<1>4. /\ q \in Inbounds /\ q.gate = r.gate /\ q.reader = r.reader
      /\ q.owner = r.owner /\ q.nextSeq = r.nextSeq /\ q.received = r.received
      /\ q.sealed = r.sealed /\ q.aborted = r.aborted /\ q.outcome = r.outcome
      /\ q.buffer = rest
  BY <1>1, <1>2 DEF Inbounds
<1> HIDE DEF q
<1>5. inbound'[s] = q /\ got'[s] = u
  BY <1>1, <1>3, <1>4 DEF StreamInv, StreamTypes
<1>6. Len(got[s]) + Len(r.buffer) = Len(u) + Len(rest)
  <2>1. \A a, b \in Nat : b >= 1 => (a + 1) + (b - 1) = a + b
    OBVIOUS
  <2>2. (Len(got[s]) + 1) + (Len(r.buffer) - 1) = Len(got[s]) + Len(r.buffer)
    BY <1>2, <1>3, <2>1, Zenon
  <2>3. Len(u) = Len(got[s]) + 1 /\ Len(rest) = Len(r.buffer) - 1
    BY <1>2, <1>3
  <2>4. QED
    BY <2>2, <2>3, Zenon
<1>7. ASSUME NEW t, t = s
      PROVE  StreamFits(t)'
  <2>1. GateHeld(t)' /\ (Sending(t)' <=> Sending(t))
    BY <1>1, <1>4, <1>5, <1>7 DEF StreamFits, GateHeld, Sending
  <2>2. Ordered(t)'
    <3>1. /\ \A i \in 1..Len(got[s]) : got[s][i] = [seq |-> i - 1, by |-> r.owner]
          /\ \A i \in 1..Len(r.buffer) :
               r.buffer[i] = [seq |-> Len(got[s]) + i - 1, by |-> r.owner]
      BY <1>1 DEF StreamFits, Ordered
    <3>2. first = [seq |-> Len(got[s]) + 1 - 1, by |-> r.owner]
      <4>1. r.buffer[1] = [seq |-> Len(got[s]) + 1 - 1, by |-> r.owner] /\ 1 \in 1..Len(r.buffer)
        BY <1>2, <3>1
      <4>2. QED
        BY <1>2, <4>1
    <3>3. \A i \in 1..Len(u) : u[i] = [seq |-> i - 1, by |-> r.owner]
      <4>1. \A i \in 1..Len(u) : i \in 1..Len(got[s]) \/ i = Len(got[s]) + 1
        BY <1>3
      <4>2. QED
        BY <1>3, <3>1, <3>2, <4>1
    <3>4. \A i \in 1..Len(rest) : rest[i] = [seq |-> Len(u) + i - 1, by |-> r.owner]
      <4>1. \A a \in Nat, i \in Nat : a + (i + 1) - 1 = (a + 1) + i - 1
        OBVIOUS
      <4>2. TAKE i \in 1..Len(rest)
      <4>3. i \in Nat /\ i + 1 \in 1..Len(r.buffer) /\ rest[i] = r.buffer[i + 1]
        BY <1>2
      <4>4. rest[i] = [seq |-> Len(got[s]) + (i + 1) - 1, by |-> r.owner]
        BY <3>1, <4>3
      <4>5. Len(got[s]) + (i + 1) - 1 = Len(u) + i - 1
        BY <1>3, <4>1, <4>3, Zenon
      <4>6. QED
        BY <4>4, <4>5
    <3>5. QED
      BY <1>4, <1>5, <1>7, <3>3, <3>4 DEF Ordered
  <2>3. Counted(t)'
    <3>1. Delivered(t)' = Delivered(t)
      BY <1>4, <1>5, <1>6, <1>7 DEF Delivered
    <3>2. QED
      BY <1>1, <1>4, <1>5, <1>7, <2>1, <3>1 DEF StreamFits, Counted
  <2>4. Verdict(t)'
    <3>1. ClosedAt(t, r.received) => ClosedAt(t, inbound[t].received)'
      BY <1>1, <1>4, <1>5, <1>7 DEF ClosedAt
    <3>2. QED
      BY <1>1, <1>4, <1>5, <1>7, <3>1 DEF StreamFits, Verdict
  <2>5. Unopened(t)'
    <3>1. ~(s > opened)
      BY <1>1 DEF StreamFits, Unopened, NoInbound
    <3>2. QED
      BY <1>1, <1>7, <3>1 DEF Unopened
  <2>6. QED
    BY <2>1, <2>2, <2>3, <2>4, <2>5 DEF StreamFits
<1>8. /\ q.owner = inbound[s].owner /\ q.nextSeq = inbound[s].nextSeq
      /\ q.received = inbound[s].received /\ q.gate = inbound[s].gate
  BY <1>4
<1> HIDE DEF r
<1>9. QED
  BY <1>1, <1>3, <1>4, <1>7, <1>8, ReaderKeeps, Zenon

(* The end of the channel and the drop of the reader.  When a complete     *)
(* stream ends no writer is left, so everything counted was delivered.     *)
LEMMA ReaderEnds ==
    ASSUME StreamInv, NEW s \in Ids, NextEnd(s) \/ DropReader(s)
    PROVE  StreamInv'
<1> DEFINE r == inbound[s]
<1>1. /\ r \in Inbounds /\ StreamFits(s) /\ got[s] \in Seq(Chunks)
      /\ UNCHANGED <<opened, calls, writers, got>>
      /\ r.reader = "reading"
      /\ got' = [got EXCEPT ![s] = got[s]]
      /\ r.buffer \in Seq(Chunks) /\ <<>> \in Seq(Chunks) /\ Len(<<>>) = 0
  BY DEF NextEnd, DropReader, StreamInv, StreamTypes, Inbounds
<1>2. PICK how \in {"clean", "broken", "dropped"} :
        /\ inbound' = [inbound EXCEPT ![s] = [r EXCEPT !.reader = how, !.buffer = <<>>]]
        /\ how # "dropped" => r.buffer = <<>>
        /\ how = "clean" => ChannelEnded(s) /\ r.outcome = "complete"
  <2>1. CASE DropReader(s)
    BY <2>1 DEF DropReader
  <2>2. CASE NextEnd(s)
    <3> DEFINE how == IF r.outcome = "complete" THEN "clean" ELSE "broken"
    <3>1. [r EXCEPT !.reader = how, !.buffer = <<>>] = [r EXCEPT !.reader = how]
      BY <1>1, <2>2 DEF NextEnd, Inbounds
    <3>2. inbound' = [inbound EXCEPT ![s] = [r EXCEPT !.reader = how]]
      BY <2>2 DEF NextEnd
    <3>3. QED
      BY <2>2, <3>1, <3>2 DEF NextEnd
  <2>3. QED
    BY <2>1, <2>2
<1> DEFINE q == [r EXCEPT !.reader = how, !.buffer = <<>>]
<1>4. /\ q \in Inbounds /\ q.gate = r.gate /\ q.reader = how
      /\ q.owner = r.owner /\ q.nextSeq = r.nextSeq /\ q.received = r.received
      /\ q.sealed = r.sealed /\ q.aborted = r.aborted /\ q.outcome = r.outcome
      /\ q.buffer = <<>>
  BY <1>1 DEF Inbounds
<1>5. inbound' = [inbound EXCEPT ![s] = q]
  BY <1>2
<1> HIDE DEF q
<1>6. inbound'[s] = q
  BY <1>5, <1>4 DEF StreamInv, StreamTypes
<1>7. ASSUME NEW t, t = s
      PROVE  StreamFits(t)'
  <2>1. GateHeld(t)' /\ (Sending(t)' <=> Sending(t))
    BY <1>1, <1>4, <1>6, <1>7 DEF StreamFits, GateHeld, Sending
  <2>2. Ordered(t)'
    <3>1. \A i \in 1..Len(got[s]) : got[s][i] = [seq |-> i - 1, by |-> r.owner]
      BY <1>1 DEF StreamFits, Ordered
    <3>2. QED
      BY <1>1, <1>4, <1>6, <1>7, <3>1 DEF Ordered
  <2>3. /\ Delivered(s) = Len(got[s]) + Len(r.buffer) /\ Len(got[s]) \in Nat
        /\ Delivered(t)' = Len(got[s]) /\ Len(r.buffer) \in Nat /\ r.nextSeq \in Nat
    <3>1. Delivered(t)' = Len(got[s]) + Len(<<>>)
      BY <1>1, <1>4, <1>6, <1>7 DEF Delivered
    <3>2. Len(got[s]) \in Nat /\ Len(r.buffer) \in Nat /\ r.nextSeq \in Nat
      BY <1>1 DEF Inbounds
    <3>3. \A a \in Nat : a + 0 = a
      OBVIOUS
    <3>4. Len(got[s]) + Len(<<>>) = Len(got[s])
      BY <1>1, <3>2, <3>3, Zenon
    <3>5. Delivered(s) = Len(got[s]) + Len(r.buffer)
      BY DEF Delivered
    <3>6. QED
      BY <3>1, <3>2, <3>4, <3>5, Zenon
  <2>4. Delivered(s) = Len(got[s]) \/ how = "dropped"
    <3>1. \A a \in Nat : a + 0 = a
      OBVIOUS
    <3>2. CASE r.buffer = <<>>
      <4>1. Delivered(s) = Len(got[s]) + 0
        BY <1>1, <2>3, <3>2, Zenon
      <4>2. QED
        BY <2>3, <3>1, <4>1, Zenon
    <3>3. QED
      BY <1>2, <3>2
  <2>5. Counted(t)'
    <3>1. Delivered(t)' <= r.nextSeq
      <4>1. \A a, b, n \in Nat : a + b <= n => a <= n
        OBVIOUS
      <4>2. Len(got[s]) + Len(r.buffer) <= r.nextSeq
        BY <1>1, <2>3 DEF StreamFits, Counted
      <4>3. QED
        BY <2>3, <4>1, <4>2, Zenon
    <3>2. ~r.aborted /\ how # "dropped" =>
            Delivered(t)' = IF Sending(s) THEN r.nextSeq - 1 ELSE r.nextSeq
      BY <1>1, <2>3, <2>4 DEF StreamFits, Counted
    <3>3. QED
      BY <1>1, <1>4, <1>6, <1>7, <2>1, <3>1, <3>2 DEF StreamFits, Counted
  <2>6. Verdict(t)'
    <3>1. ClosedAt(t, r.received) => ClosedAt(t, inbound[t].received)'
      BY <1>1, <1>4, <1>6, <1>7 DEF ClosedAt
    <3>2. ASSUME how = "clean"
          PROVE  r.sealed /\ r.gate = 0 /\ Len(got[s]) = r.received
      <4>1. r.gate = 0 /\ r.sealed
        BY <1>1, <1>2, <3>2 DEF StreamFits, GateHeld, ChannelEnded
      <4>2. ~r.aborted
        BY <1>1, <1>2, <3>2 DEF StreamFits, Verdict
      <4>3. QED
        BY <1>1, <2>4, <3>2, <4>1, <4>2 DEF StreamFits, Counted, Sending
    <3>3. QED
      BY <1>1, <1>2, <1>4, <1>6, <1>7, <3>1, <3>2 DEF StreamFits, Verdict
  <2>7. Unopened(t)'
    <3>1. ~(s > opened)
      BY <1>1 DEF StreamFits, Unopened, NoInbound
    <3>2. QED
      BY <1>1, <1>7, <3>1 DEF Unopened
  <2>8. QED
    BY <2>1, <2>2, <2>5, <2>6, <2>7 DEF StreamFits
<1>8. /\ q.owner = inbound[s].owner /\ q.nextSeq = inbound[s].nextSeq
      /\ q.received = inbound[s].received /\ q.gate = inbound[s].gate
  BY <1>4
<1> HIDE DEF r
<1>9. QED
  BY <1>1, <1>4, <1>5, <1>7, <1>8, ReaderKeeps, Zenon

(* A call is sent.                                                         *)
LEMMA CallKeeps ==
    ASSUME StreamInv, NEW op \in {"write", "oversize", "close", "abort", "accept"},
           NEW s \in Ids, s <= opened, NEW p \in Peers \cup {NoPeer}, NEW n \in Nat,
           Send(op, s, p, n), UNCHANGED <<inbound, opened, got>>,
           writers' \in [Ids -> Writers],
           \A t \in Ids : writers'[t].at # "none" => writers[t].at # "none"
    PROVE  StreamInv'
<1> DEFINE call == [op |-> op, s |-> s, by |-> p, seq |-> n, pc |-> "start"]
<1>1. calls \in Seq(Called) /\ call \in Called /\ Len(calls) \in Nat /\ calls' = Append(calls, call)
  BY DEF StreamInv, StreamTypes, Called, Send
<1>2. call.s = s /\ call.pc = "start"
  OBVIOUS
<1> HIDE DEF call
<1>3. /\ calls' \in Seq(Called) /\ Len(calls') = Len(calls) + 1
      /\ \A i \in 1..Len(calls) : calls'[i] = calls[i]
      /\ calls'[Len(calls) + 1] = call
  BY <1>1, AppendProperties
<1>4. \A c \in 1..Len(calls') : c \in 1..Len(calls) \/ (c = Len(calls) + 1 /\ calls'[c] = call)
  BY <1>1, <1>3
<1>5. \A c \in 1..Len(calls) : c \in 1..Len(calls')
  BY <1>1, <1>3
<1>6. ASSUME NEW c \in 1..Len(calls')
      PROVE  CallFits(c)'
  <2>1. CASE c \in 1..Len(calls)
    BY <1>3, <2>1 DEF StreamInv, CallFits
  <2>2. CASE calls'[c] = call
    BY <1>2, <2>2 DEF CallFits
  <2>3. QED
    BY <1>4, <2>1, <2>2
<1>7. ASSUME NEW t \in Ids
      PROVE  StreamFits(t)'
  <2>1. StreamFits(t)
    BY DEF StreamInv
  <2>2. GateHeld(t)' /\ (Sending(t)' <=> Sending(t))
    BY <1>3, <1>5, <2>1 DEF StreamFits, GateHeld, Sending
  <2>3. Ordered(t)' /\ Unopened(t)'
    BY <2>1 DEF StreamFits, Ordered, Unopened
  <2>4. Counted(t)'
    <3>1. Delivered(t)' = Delivered(t)
      BY DEF Delivered
    <3>2. QED
      BY <2>1, <2>2, <3>1 DEF StreamFits, Counted
  <2>5. Verdict(t)'
    <3>1. ASSUME ClosedAt(t, inbound[t].received)
          PROVE  ClosedAt(t, inbound[t].received)'
      <4>1. PICK d \in 1..Len(calls) : calls[d].op = "close" /\ calls[d].s = t
              /\ calls[d].pc = "ok" /\ calls[d].seq <= inbound[t].received
        BY <3>1 DEF ClosedAt
      <4>2. calls'[d] = calls[d] /\ d \in 1..Len(calls')
        BY <1>3, <1>5
      <4>3. QED
        BY <4>1, <4>2 DEF ClosedAt
    <3>2. QED
      BY <2>1, <3>1 DEF StreamFits, Verdict
  <2>6. QED
    BY <2>2, <2>3, <2>4, <2>5 DEF StreamFits
<1>8. StreamTypes' /\ \A t \in Ids : writers'[t].at # "none" => t <= opened'
  BY <1>3 DEF StreamInv, StreamTypes
<1>9. QED
  BY <1>6, <1>7, <1>8 DEF StreamInv

(* A step that only the writer's own state knows of.                       *)
LEMMA WriterKeeps ==
    ASSUME StreamInv, UNCHANGED <<inbound, opened, calls, got>>,
           writers' \in [Ids -> Writers],
           \A t \in Ids : writers'[t].at # "none" => writers[t].at # "none"
    PROVE  StreamInv'
<1>1. opened' \in 0..MaxStreams /\ opened <= opened'
  BY DEF StreamInv, StreamTypes
<1>2. \A t \in Ids : StreamFits(t)'
  BY <1>1, SameStream
<1>3. \A c \in 1..Len(calls) : CallFits(c)'
  BY DEF StreamInv, CallFits
<1>4. StreamTypes' /\ \A t \in Ids : writers'[t].at # "none" => t <= opened'
  BY DEF StreamInv, StreamTypes
<1>5. QED
  BY <1>2, <1>3, <1>4 DEF StreamInv

(* The steps of a StreamWriter.                                            *)
LEMMA WritersKeep ==
    ASSUME StreamInv, NEW s \in Ids,
           \/ WriteChunk(s) \/ WriteReply(s) \/ WriteTimeout(s)
           \/ Finish(s) \/ FinishReply(s) \/ AbortOrDrop(s)
    PROVE  StreamInv'
<1>1. /\ writers[s] \in Writers /\ writers \in [Ids -> Writers]
      /\ writers[s].seq \in Nat /\ writers[s].seq + 1 \in Nat /\ Len(calls) + 1 \in Nat
      /\ inbound[s].owner \in Peers \cup {NoPeer} /\ 0 \in Nat
  BY DEF StreamInv, StreamTypes, Writers, Inbounds
<1>2. writers[s].at # "none" => s <= opened
  BY DEF StreamInv
<1>3. ASSUME NEW w \in Writers, writers' = [writers EXCEPT ![s] = w], writers[s].at # "none"
      PROVE  /\ writers' \in [Ids -> Writers]
             /\ \A t \in Ids : writers'[t].at # "none" => writers[t].at # "none"
  BY <1>1, <1>3
<1>4. CASE WriteChunk(s)
  <2> DEFINE w == [writers[s] EXCEPT !.at = "writing", !.call = Len(calls) + 1]
  <2>1. w \in Writers
    BY <1>1 DEF Writers
  <2>2. writers' = [writers EXCEPT ![s] = w] /\ writers[s].at # "none"
        /\ Send("write", s, inbound[s].owner, writers[s].seq) /\ UNCHANGED <<inbound, opened, got>>
    BY <1>4 DEF WriteChunk
  <2> HIDE DEF w
  <2>3. /\ writers' \in [Ids -> Writers]
        /\ \A t \in Ids : writers'[t].at # "none" => writers[t].at # "none"
    BY <1>3, <2>1, <2>2
  <2>4. QED
    BY <1>1, <1>2, <2>2, <2>3, CallKeeps
<1>5. CASE Finish(s)
  <2> DEFINE w == [writers[s] EXCEPT !.at = "closing", !.call = Len(calls) + 1]
  <2>1. w \in Writers
    BY <1>1 DEF Writers
  <2>2. writers' = [writers EXCEPT ![s] = w] /\ writers[s].at # "none"
        /\ Send("close", s, inbound[s].owner, writers[s].seq) /\ UNCHANGED <<inbound, opened, got>>
    BY <1>5 DEF Finish
  <2> HIDE DEF w
  <2>3. /\ writers' \in [Ids -> Writers]
        /\ \A t \in Ids : writers'[t].at # "none" => writers[t].at # "none"
    BY <1>3, <2>1, <2>2
  <2>4. QED
    BY <1>1, <1>2, <2>2, <2>3, CallKeeps
<1>6. CASE AbortOrDrop(s)
  <2> DEFINE w == [writers[s] EXCEPT !.at = "done"]
  <2>1. w \in Writers
    BY <1>1 DEF Writers
  <2>2. writers' = [writers EXCEPT ![s] = w] /\ writers[s].at # "none"
        /\ Send("abort", s, inbound[s].owner, 0) /\ UNCHANGED <<inbound, opened, got>>
    BY <1>6 DEF AbortOrDrop
  <2> HIDE DEF w
  <2>3. /\ writers' \in [Ids -> Writers]
        /\ \A t \in Ids : writers'[t].at # "none" => writers[t].at # "none"
    BY <1>3, <2>1, <2>2
  <2>4. QED
    BY <1>1, <1>2, <2>2, <2>3, CallKeeps
<1>7. CASE WriteReply(s) \/ WriteTimeout(s) \/ FinishReply(s)
  <2>1. PICK at \in {"idle", "done"}, seq \in {writers[s].seq, writers[s].seq + 1} :
           writers' = [writers EXCEPT ![s] = [writers[s] EXCEPT !.at = at, !.seq = seq]]
    <3>1. [writers[s] EXCEPT !.at = "done", !.seq = writers[s].seq] = [writers[s] EXCEPT !.at = "done"]
      BY <1>1 DEF Writers
    <3>2. CASE FinishReply(s)
      BY <3>1, <3>2 DEF FinishReply
    <3>3. CASE WriteReply(s)
      BY <3>3 DEF WriteReply
    <3>4. CASE WriteTimeout(s)
      BY <3>4 DEF WriteTimeout
    <3>5. QED
      BY <1>7, <3>2, <3>3, <3>4
  <2> DEFINE w == [writers[s] EXCEPT !.at = at, !.seq = seq]
  <2>2. w \in Writers
    BY <1>1 DEF Writers
  <2>3. writers[s].at # "none" /\ UNCHANGED <<inbound, opened, calls, got>>
    BY <1>7 DEF WriteReply, WriteTimeout, FinishReply
  <2> HIDE DEF w
  <2>4. writers' = [writers EXCEPT ![s] = w]
    BY <2>1 DEF w
  <2>5. /\ writers' \in [Ids -> Writers]
        /\ \A t \in Ids : writers'[t].at # "none" => writers[t].at # "none"
    BY <1>3, <2>2, <2>3, <2>4
  <2>6. QED
    BY <2>3, <2>5, WriterKeeps
<1>8. QED
  BY <1>4, <1>5, <1>6, <1>7

(* The calls no StreamWriter makes.                                        *)
LEMMA OtherCallsKeep ==
    ASSUME StreamInv, NEW s \in Ids, NEW p \in Peers,
           \/ SendHandle(s, p)
           \/ \E op \in {"write", "oversize"} : RawWrite(s, p, op)
    PROVE  StreamInv'
<1>1. /\ writers' \in [Ids -> Writers] /\ UNCHANGED <<inbound, opened, got>> /\ s <= opened
      /\ \A t \in Ids : writers'[t].at # "none" => writers[t].at # "none"
      /\ inbound[s].nextSeq \in Nat /\ 0 \in Nat /\ p \in Peers \cup {NoPeer}
  BY DEF StreamInv, StreamTypes, Inbounds, SendHandle, RawWrite
<1>2. CASE SendHandle(s, p)
  <2>1. Send("accept", s, p, 0)
    BY <1>2 DEF SendHandle
  <2>2. QED
    BY <1>1, <2>1, CallKeeps
<1>3. ASSUME NEW op \in {"write", "oversize"}, RawWrite(s, p, op)
      PROVE  StreamInv'
  <2>1. Send(op, s, p, inbound[s].nextSeq)
    BY <1>3 DEF RawWrite
  <2>2. QED
    BY <1>1, <2>1, CallKeeps
<1>4. QED
  BY <1>2, <1>3

(* The registry holds minted ids, and of any two of them last_activity     *)
(* tells which was silent for longer.                                      *)
RegistryOrder ==
    /\ registry \subseteq 1..opened
    /\ older \subseteq registry \X registry
    /\ \A i \in registry : <<i, i>> \notin older
    /\ \A i, j \in registry : i # j => <<i, j>> \in older \/ <<j, i>> \in older
    /\ \A i, j, k \in registry : <<i, j>> \in older /\ <<j, k>> \in older => <<i, k>> \in older

(* A step that ends streams and touches no call.                           *)
LEMMA AllEnd ==
    ASSUME StreamInv, UNCHANGED <<calls, got>>,
           opened' \in 0..MaxStreams, opened <= opened',
           inbound' \in [Ids -> Inbounds], writers' \in [Ids -> Writers],
           \A i \in Ids : writers'[i].at # "none" => i <= opened',
           \A i \in 1..opened : /\ EndsAs(inbound[i], inbound'[i])
                                /\ inbound'[i].gate = inbound[i].gate
                                /\ inbound'[i].outcome = "complete" => inbound[i].outcome = "complete",
           \A i \in Ids \ (1..opened) : StreamFits(i)'
    PROVE  StreamInv'
<1>1. opened \in Nat /\ opened <= MaxStreams /\ opened' \in Nat /\ 1..opened \subseteq Ids
  BY StreamAssumption DEF StreamInv, StreamTypes, Ids, StreamAssumption
<1>2. ASSUME NEW t \in 1..opened
      PROVE  StreamFits(t)'
  <2>1. t \in Ids /\ t <= opened
    BY <1>1
  <2>2. StreamFits(t)
    BY <2>1 DEF StreamInv
  <2>3. /\ EndsAs(inbound[t], inbound'[t]) /\ inbound'[t].gate = inbound[t].gate
        /\ inbound'[t].outcome = "complete" => inbound[t].outcome = "complete"
    OBVIOUS
  <2>4. GateHeld(t)' /\ (Sending(t)' <=> Sending(t)) /\ got'[t] = got[t]
    BY <2>2, <2>3 DEF StreamFits, GateHeld, Sending
  <2>5. ClosedAt(t, inbound[t].received)' <=> ClosedAt(t, inbound[t].received)
    BY <2>3 DEF ClosedAt, EndsAs
  <2>6. inbound'[t].outcome = "complete" => ClosedAt(t, inbound[t].received)'
    BY <2>2, <2>3, <2>5 DEF StreamFits, Verdict
  <2>7. inbound[t].reader = "clean" => inbound'[t].gate = 0
    BY <2>2, <2>3 DEF StreamFits, Verdict
  <2>8. QED
    BY <2>1, <2>3, <2>4, <2>6, <2>7, EndKeeps
<1>3. ASSUME NEW c \in 1..Len(calls)
      PROVE  CallFits(c)'
  <2>1. CallFits(c) /\ calls[c].s \in 1..opened
    BY <1>1, CallTyped DEF CallFits, Ids
  <2>2. /\ EndsAs(inbound[calls[c].s], inbound'[calls[c].s])
        /\ inbound'[calls[c].s].gate = inbound[calls[c].s].gate
    BY <2>1
  <2>3. calls[c].s <= opened'
    BY <1>1, <2>1
  <2>4. QED
    BY <2>1, <2>2, <2>3 DEF CallFits, EndsAs
<1>4. \A t \in Ids : StreamFits(t)'
  BY <1>2
<1>5. StreamTypes'
  BY DEF StreamInv, StreamTypes
<1>6. QED
  BY <1>3, <1>4, <1>5 DEF StreamInv

(* Doing nothing is an end too.                                            *)
LEMMA StaysEnds ==
    ASSUME StreamInv, NEW i \in Ids
    PROVE  /\ EndsAs(inbound[i], inbound[i]) /\ inbound[i] \in Inbounds
           /\ (inbound[i].aborted => inbound[i].outcome = "aborted")
<1>1. inbound[i] \in Inbounds /\ (inbound[i].aborted => inbound[i].outcome = "aborted")
  BY DEF StreamInv, StreamTypes, StreamFits, Verdict
<1>2. QED
  BY <1>1 DEF EndsAs

(* What the registry leaves of its streams when it goes.                   *)
LEMMA VanishEnds ==
    ASSUME StreamInv, Vanish, NEW i \in Ids
    PROVE  /\ EndsAs(inbound[i], inbound'[i]) /\ inbound'[i].gate = inbound[i].gate
           /\ inbound'[i].outcome = inbound[i].outcome
<1> DEFINE r == inbound[i]
           q == Sealed(r)
<1>1. r \in Inbounds /\ (r.aborted => r.outcome = "aborted") /\ EndsAs(r, r)
  BY StaysEnds
<1>2. CASE i \notin registry
  <2>1. inbound'[i] = r
    BY <1>2 DEF Vanish
  <2>2. QED
    BY <1>1, <2>1
<1>3. CASE i \in registry
  <2>1. inbound'[i] = ReaderDropped(q)
    BY <1>3 DEF Vanish
  <2>2. EndsAs(r, q) /\ q.gate = r.gate /\ q.outcome = r.outcome
    BY <1>1, SealedEnds
  <2>3. q \in Inbounds /\ (q.aborted => q.outcome = "aborted")
    BY <2>2 DEF EndsAs
  <2> HIDE DEF q
  <2>4. /\ EndsAs(q, ReaderDropped(q)) /\ ReaderDropped(q).gate = q.gate
        /\ ReaderDropped(q).outcome = q.outcome
    BY <2>3, DroppedEnds
  <2>5. EndsAs(r, ReaderDropped(q))
    BY <2>2, <2>4, EndedTwice
  <2>6. QED
    BY <2>1, <2>2, <2>4, <2>5
<1>4. QED
  BY <1>2, <1>3

(* The receiving connection goes with its registry.                        *)
LEMMA VanishKeeps ==
    ASSUME StreamInv, registry \subseteq 1..opened, Vanish
    PROVE  StreamInv'
<1>1. /\ UNCHANGED <<opened, calls, got, writers>> /\ opened' \in 0..MaxStreams /\ opened <= opened'
      /\ writers' \in [Ids -> Writers] /\ \A i \in Ids : writers'[i].at # "none" => i <= opened'
  BY DEF Vanish, StreamInv, StreamTypes
<1>2. 1..opened \subseteq Ids
  BY StreamAssumption DEF StreamInv, StreamTypes, Ids, StreamAssumption
<1>3. \A i \in Ids : /\ EndsAs(inbound[i], inbound'[i]) /\ inbound'[i].gate = inbound[i].gate
                     /\ inbound'[i].outcome = inbound[i].outcome
  BY VanishEnds
<1>4. inbound' \in [Ids -> Inbounds]
  <2>1. \A i \in Ids : inbound'[i] \in Inbounds
    BY <1>3 DEF EndsAs
  <2>2. inbound' = [i \in Ids |-> inbound'[i]]
    BY DEF Vanish
  <2>3. QED
    BY <2>1, <2>2
<1>5. ASSUME NEW i \in Ids \ (1..opened)
      PROVE  StreamFits(i)'
  <2>1. inbound'[i] = inbound[i] /\ got'[i] = got[i]
    BY <1>1, <1>5 DEF Vanish
  <2>2. QED
    BY <1>1, <2>1, SameStream
<1>6. QED
  BY <1>1, <1>2, <1>3, <1>4, <1>5, AllEnd

(* What an Open does to the streams, whichever of them it reaps and        *)
(* evicts.                                                                 *)
OpenStep(s, p, total, idle, out, refused) ==
    /\ idle \subseteq registry
    /\ out \subseteq registry
    /\ opened' = s
    /\ inbound' = [i \in Ids |->
         IF i \in idle THEN Killed(inbound[i])
         ELSE IF i \in out THEN Finished(inbound[i], "aborted")
         ELSE IF i = s /\ ~refused THEN NewInbound(p, total)
         ELSE inbound[i]]
    /\ writers' = IF refused THEN writers ELSE [writers EXCEPT ![s].at = "idle"]
    /\ UNCHANGED <<calls, got, up>>

(* Every Open is such a step.                                              *)
LEMMA OpenSteps ==
    ASSUME NEW p, NEW total, Open(p, total)
    PROVE  \E idle, out : \E refused \in BOOLEAN :
             OpenStep(opened + 1, p, total, idle, out, refused)
<1> DEFINE Refused(idle) == Cardinality(LiveOf(registry \ idle, p)) >= StreamCap
           Out(idle) == IF Refused(idle) THEN {} ELSE Evicted(registry \ idle, p)
<1>1. PICK idle \in SUBSET registry :
         /\ inbound' = [i \in Ids |->
              IF i \in idle THEN Killed(inbound[i])
              ELSE IF i \in Out(idle) THEN Finished(inbound[i], "aborted")
              ELSE IF i = opened + 1 /\ ~Refused(idle) THEN NewInbound(p, total)
              ELSE inbound[i]]
         /\ writers' = IF Refused(idle) THEN writers ELSE [writers EXCEPT ![opened + 1].at = "idle"]
         /\ opened' = opened + 1
         /\ UNCHANGED <<calls, got, up>>
  BY DEF Open
<1>2. Out(idle) \subseteq registry
  BY DEF Evicted
<1> DEFINE refused == IF Refused(idle) THEN TRUE ELSE FALSE
<1> HIDE DEF Refused, Out
<1>3. refused \in BOOLEAN /\ (refused <=> Refused(idle))
  OBVIOUS
<1> HIDE DEF refused
<1>4. OpenStep(opened + 1, p, total, idle, Out(idle), refused)
  BY <1>1, <1>2, <1>3 DEF OpenStep
<1>5. QED
  BY <1>3, <1>4

(* What an Open leaves of the streams opened before.                       *)
LEMMA OpenEnds ==
    ASSUME StreamInv, NEW p, NEW total, NEW idle, NEW out, NEW refused \in BOOLEAN,
           OpenStep(opened + 1, p, total, idle, out, refused), NEW i \in Ids, i <= opened
    PROVE  /\ EndsAs(inbound[i], inbound'[i]) /\ inbound'[i].gate = inbound[i].gate
           /\ inbound'[i].outcome = "complete" => inbound[i].outcome = "complete"
<1> DEFINE r == inbound[i]
<1>1. r \in Inbounds /\ (r.aborted => r.outcome = "aborted") /\ EndsAs(r, r)
  BY StaysEnds
<1>2. i # opened + 1
  BY DEF StreamInv, StreamTypes, Ids
<1>3. inbound'[i] \in {Killed(r), Finished(r, "aborted"), r}
  BY <1>2 DEF OpenStep
<1>4. CASE inbound'[i] = Killed(r)
  BY <1>1, <1>4, KilledEnds
<1>5. CASE inbound'[i] = Finished(r, "aborted")
  BY <1>1, <1>5, FinishedEnds
<1>6. CASE inbound'[i] = r
  BY <1>1, <1>6
<1>7. QED
  BY <1>3, <1>4, <1>5, <1>6

(* The record of a new stream.                                             *)
LEMMA NewInboundTyped ==
    ASSUME NEW p \in Peers, NEW total \in Nat \cup {NoLen}
    PROVE  /\ NewInbound(p, total) \in Inbounds
           /\ NewInbound(p, total).gate = 0 /\ NewInbound(p, total).buffer = <<>>
           /\ NewInbound(p, total).received = 0 /\ NewInbound(p, total).nextSeq = 0
           /\ ~NewInbound(p, total).aborted /\ NewInbound(p, total).outcome = "none"
           /\ NewInbound(p, total).reader = "unclaimed"
<1>1. <<>> \in Seq(Chunks)
  OBVIOUS
<1>2. QED
  BY <1>1 DEF NewInbound, NoInbound, Inbounds

(* An Open.                                                                *)
LEMMA OpenKeeps ==
    ASSUME StreamInv, registry \subseteq 1..opened,
           NEW p \in Peers, NEW total \in Declared, Open(p, total)
    PROVE  StreamInv'
<1>1. PICK idle, out : \E refused \in BOOLEAN : OpenStep(opened + 1, p, total, idle, out, refused)
  BY OpenSteps
<1>2. PICK refused \in BOOLEAN : OpenStep(opened + 1, p, total, idle, out, refused)
  BY <1>1
<1>3. /\ opened' = opened + 1 /\ opened \in Nat /\ opened' \in 0..MaxStreams /\ opened <= opened'
      /\ 1..opened \subseteq Ids /\ opened + 1 \in Ids /\ UNCHANGED <<calls, got>>
  BY <1>2, StreamAssumption DEF Open, OpenStep, StreamInv, StreamTypes, Ids, StreamAssumption
<1>4. total \in Nat \cup {NoLen}
  BY StreamAssumption DEF StreamAssumption
<1>5. \A i \in 1..opened : /\ EndsAs(inbound[i], inbound'[i]) /\ inbound'[i].gate = inbound[i].gate
                           /\ inbound'[i].outcome = "complete" => inbound[i].outcome = "complete"
  BY <1>2, <1>3, OpenEnds
<1>6. ASSUME NEW i \in Ids \ (1..opened)
      PROVE  StreamFits(i)' /\ inbound'[i] \in Inbounds
  <2>1. i \notin registry /\ i > opened /\ inbound[i] \in Inbounds
    BY <1>3 DEF Ids, StreamInv, StreamTypes
  <2>2. CASE i = opened + 1 /\ ~refused
    <3>1. inbound'[i] = NewInbound(p, total)
      BY <1>2, <2>1, <2>2 DEF OpenStep
    <3>2. got[i] = <<>> /\ got'[i] = <<>>
      BY <1>3, <2>1 DEF StreamInv, StreamFits, Unopened
    <3>3. /\ inbound'[i] \in Inbounds
          /\ inbound'[i].gate = 0 /\ inbound'[i].buffer = <<>>
          /\ inbound'[i].received = 0 /\ inbound'[i].nextSeq = 0
          /\ ~inbound'[i].aborted /\ inbound'[i].outcome = "none"
          /\ inbound'[i].reader = "unclaimed"
      BY <1>4, <3>1, NewInboundTyped
    <3>4. Len(<<>>) = 0 /\ 1..0 = {} /\ 0 + 0 = 0 /\ 0 <= 0
      OBVIOUS
    <3>5. GateHeld(i)' /\ Verdict(i)' /\ ~Sending(i)'
      BY <3>3 DEF GateHeld, Verdict, Sending
    <3>6. Ordered(i)'
      BY <3>2, <3>3, <3>4 DEF Ordered
    <3>7. Counted(i)'
      <4>1. Delivered(i)' = 0
        BY <3>2, <3>3, <3>4 DEF Delivered
      <4>2. QED
        BY <3>3, <3>5, <4>1 DEF Counted
    <3>8. Unopened(i)'
      BY <1>3, <2>2 DEF Unopened
    <3>9. QED
      BY <3>3, <3>5, <3>6, <3>7, <3>8 DEF StreamFits
  <2>3. CASE ~(i = opened + 1 /\ ~refused)
    <3>1. inbound'[i] = inbound[i] /\ got'[i] = got[i]
      BY <1>2, <1>3, <2>1, <2>3 DEF OpenStep
    <3>2. QED
      BY <1>3, <2>1, <3>1, SameStream
  <2>4. QED
    BY <2>2, <2>3
<1>7. inbound' \in [Ids -> Inbounds]
  <2>1. \A i \in 1..opened : inbound'[i] \in Inbounds
    BY <1>5 DEF EndsAs
  <2>2. \A i \in Ids : inbound'[i] \in Inbounds
    BY <1>6, <2>1
  <2>3. inbound' = [i \in Ids |-> inbound'[i]]
    BY <1>2 DEF OpenStep
  <2>4. QED
    BY <2>2, <2>3
<1>8. writers' \in [Ids -> Writers] /\ \A i \in Ids : writers'[i].at # "none" => i <= opened'
  <2>1. writers \in [Ids -> Writers] /\ \A i \in Ids : writers[i].at # "none" => i <= opened
    BY DEF StreamInv, StreamTypes
  <2>2. CASE refused
    BY <1>2, <1>3, <2>1, <2>2 DEF OpenStep, Ids
  <2>3. CASE ~refused
    <3> DEFINE w == [writers[opened + 1] EXCEPT !.at = "idle"]
    <3>1. w \in Writers
      BY <1>3, <2>1 DEF Writers
    <3>2. writers' = [writers EXCEPT ![opened + 1] = w]
      BY <1>2, <2>3 DEF OpenStep
    <3> HIDE DEF w
    <3>3. QED
      BY <1>3, <2>1, <3>1, <3>2 DEF Ids
  <2>4. QED
    BY <2>2, <2>3
<1>9. \A i \in Ids \ (1..opened) : StreamFits(i)'
  BY <1>6
<1>10. QED
  BY <1>3, <1>5, <1>7, <1>8, <1>9, AllEnd

(* The stream touched becomes the last to have been active.                *)
LEMMA TouchOrders ==
    ASSUME RegistryOrder, NEW s, Touch(s), UNCHANGED opened
    PROVE  RegistryOrder'
<1>1. CASE s \notin registry
  BY <1>1 DEF Touch, RegistryOrder
<1>2. CASE s \in registry
  <2>1. /\ older' = {a \in older : a[1] # s /\ a[2] # s} \cup {<<i, s>> : i \in registry \ {s}}
        /\ registry' = registry
    BY <1>2 DEF Touch
  <2>2. \A i, j \in registry :
          <<i, j>> \in older' <=> IF i = s THEN FALSE ELSE j = s \/ <<i, j>> \in older
    BY <2>1
  <2>3. older' \subseteq registry \X registry
    BY <1>2, <2>1 DEF RegistryOrder
  <2>4. /\ \A i \in registry : <<i, i>> \notin older
        /\ \A i, j \in registry : i # j => <<i, j>> \in older \/ <<j, i>> \in older
        /\ \A i, j, k \in registry : <<i, j>> \in older /\ <<j, k>> \in older => <<i, k>> \in older
    BY DEF RegistryOrder
  <2>5. /\ \A i \in registry : <<i, i>> \notin older'
        /\ \A i, j \in registry : i # j => <<i, j>> \in older' \/ <<j, i>> \in older'
        /\ \A i, j, k \in registry : <<i, j>> \in older' /\ <<j, k>> \in older' => <<i, k>> \in older'
    BY <2>2, <2>4
  <2>6. QED
    BY <2>1, <2>3, <2>5 DEF RegistryOrder
<1>3. QED
  BY <1>1, <1>2

(* Entries leave.                                                          *)
LEMMA ForgetOrders ==
    ASSUME RegistryOrder, NEW S, Forget(S), UNCHANGED opened
    PROVE  RegistryOrder'
<1>1. registry' \subseteq registry
  BY DEF Forget
<1>2. \A i, j \in registry' : <<i, j>> \in older' <=> <<i, j>> \in older
  BY DEF Forget
<1>3. older' \subseteq registry' \X registry'
  BY DEF Forget, RegistryOrder
<1>4. QED
  BY <1>1, <1>2, <1>3 DEF RegistryOrder

(* Entries leave and the new stream is the last active.                    *)
LEMMA OpenOrders ==
    ASSUME RegistryOrder, opened \in Nat, NEW p, NEW total, Open(p, total)
    PROVE  RegistryOrder'
<1> DEFINE Refused(idle) == Cardinality(LiveOf(registry \ idle, p)) >= StreamCap
           Out(idle) == IF Refused(idle) THEN {} ELSE Evicted(registry \ idle, p)
           Gone(idle) == idle \cup Out(idle)
<1>1. PICK idle \in SUBSET registry :
         /\ registry' = (registry \ Gone(idle)) \cup (IF Refused(idle) THEN {} ELSE {opened + 1})
         /\ older' = {a \in older : a[1] \notin Gone(idle) /\ a[2] \notin Gone(idle)}
                     \cup {<<i, opened + 1>> : i \in IF Refused(idle) THEN {} ELSE registry \ Gone(idle)}
         /\ opened' = opened + 1
  BY DEF Open
<1> DEFINE kept == registry \ Gone(idle)
<1> HIDE DEF Refused, Gone
<1>2. /\ kept \subseteq registry /\ opened + 1 \notin kept
      /\ \A i \in kept : i \in 1..(opened + 1)
  BY DEF RegistryOrder
<1>3. /\ \A i \in registry : <<i, i>> \notin older
      /\ \A i, j \in registry : i # j => <<i, j>> \in older \/ <<j, i>> \in older
      /\ \A i, j, k \in registry : <<i, j>> \in older /\ <<j, k>> \in older => <<i, k>> \in older
      /\ older \subseteq registry \X registry
  BY DEF RegistryOrder
<1>4. CASE Refused(idle)
  <2>1. registry' = kept /\ older' = {a \in older : a[1] \in kept /\ a[2] \in kept}
    BY <1>1, <1>3, <1>4
  <2>2. \A i, j \in kept : <<i, j>> \in older' <=> <<i, j>> \in older
    BY <2>1
  <2> HIDE DEF kept
  <2>3. older' \subseteq kept \X kept
    BY <1>3, <2>1
  <2>4. QED
    BY <1>1, <1>2, <1>3, <2>1, <2>2, <2>3 DEF RegistryOrder
<1>5. CASE ~Refused(idle)
  <2> DEFINE s == opened + 1
  <2>1. /\ registry' = kept \cup {s}
        /\ older' = {a \in older : a[1] \in kept /\ a[2] \in kept} \cup {<<i, s>> : i \in kept}
    BY <1>1, <1>3, <1>5
  <2> HIDE DEF kept
  <2>2. \A i, j \in kept : <<i, j>> \in older' <=> <<i, j>> \in older
    BY <1>2, <2>1
  <2>3. \A i \in kept : <<i, s>> \in older' /\ <<s, i>> \notin older'
    BY <1>2, <2>1
  <2>4. <<s, s>> \notin older'
    BY <1>2, <2>1
  <2>5. older' \subseteq registry' \X registry'
    BY <1>3, <2>1
  <2>6. registry' \subseteq 1..opened'
    BY <1>1, <1>2, <2>1
  <2> HIDE DEF s
  <2>7. /\ \A i \in registry' : <<i, i>> \notin older'
        /\ \A i, j \in registry' : i # j => <<i, j>> \in older' \/ <<j, i>> \in older'
    BY <1>2, <1>3, <2>1, <2>2, <2>3, <2>4
  <2>8. ASSUME NEW i \in registry', NEW j \in registry', NEW k \in registry',
               <<i, j>> \in older', <<j, k>> \in older'
        PROVE  <<i, k>> \in older'
    <3>1. i \in kept /\ j \in kept
      BY <2>1, <2>3, <2>4, <2>8
    <3>2. CASE k = s
      BY <2>3, <3>1, <3>2
    <3>3. CASE k \in kept
      <4>1. <<i, j>> \in older /\ <<j, k>> \in older
        BY <2>2, <2>8, <3>1, <3>3
      <4>2. i \in registry /\ j \in registry /\ k \in registry
        BY <1>2, <3>1, <3>3
      <4>3. <<i, k>> \in older
        BY <1>3, <4>1, <4>2
      <4>4. QED
        BY <2>2, <3>1, <3>3, <4>3, Zenon
    <3>4. QED
      BY <2>1, <3>2, <3>3
  <2>9. QED
    BY <2>5, <2>6, <2>7, <2>8 DEF RegistryOrder
<1>6. QED
  BY <1>4, <1>5

(* Handler tasks register nothing.                                         *)
LEMMA HandlerOrders ==
    ASSUME RegistryOrder, NEW c, Handler(c)
    PROVE  RegistryOrder' /\ registry' \subseteq registry
<1>1. UNCHANGED opened
  BY Zenon DEF Handler, Unknown, WriteLookup, WriteGate, WriteCheck, WriteSend, CloseLookup,
         CloseFinish, AbortStream, AcceptLookup, AcceptTake
<1>2. \/ UNCHANGED <<registry, older>>
      \/ \E s : Touch(s)
      \/ \E S : Forget(S)
  <2>1. CASE Unknown(c) \/ WriteGate(c)
    BY <2>1 DEF Unknown, WriteGate
  <2>2. CASE CloseFinish(c) \/ AcceptLookup(c)
    BY <2>2 DEF CloseFinish, AcceptLookup
  <2>3. CASE WriteLookup(c) \/ WriteCheck(c) \/ WriteSend(c)
    BY <2>3 DEF WriteLookup, WriteCheck, WriteSend
  <2>4. CASE CloseLookup(c) \/ AbortStream(c) \/ AcceptTake(c)
    BY <2>4 DEF CloseLookup, AbortStream, AcceptTake
  <2>5. QED
    BY <2>1, <2>2, <2>3, <2>4 DEF Handler
<1>3. CASE UNCHANGED <<registry, older>>
  BY <1>1, <1>3 DEF RegistryOrder
<1>4. CASE \E s : Touch(s)
  BY <1>1, <1>4, TouchOrders DEF Touch
<1>5. CASE \E S : Forget(S)
  BY <1>1, <1>5, ForgetOrders DEF Forget
<1>6. QED
  BY <1>2, <1>3, <1>4, <1>5

(* The steps of readers and senders.                                       *)
OtherStep ==
    \/ \E s \in Ids : NextChunk(s) \/ NextEnd(s) \/ DropReader(s)
    \/ \E s \in Ids : WriteChunk(s) \/ WriteReply(s) \/ WriteTimeout(s)
    \/ \E s \in Ids : Finish(s) \/ FinishReply(s) \/ AbortOrDrop(s)
    \/ \E s \in Ids, p \in Peers : SendHandle(s, p)
    \/ \E s \in Ids, p \in Peers, op \in {"write", "oversize"} : RawWrite(s, p, op)

(* They do not reach the registry.                                         *)
LEMMA OtherStepQuiet ==
    ASSUME OtherStep
    PROVE  UNCHANGED <<registry, older, opened>>
BY DEF OtherStep, NextChunk, NextEnd, DropReader, WriteChunk, WriteReply, WriteTimeout, Finish,
       FinishReply, AbortOrDrop, SendHandle, RawWrite

(* The invariant with the order of the registry.                           *)
StreamsInv == StreamInv /\ RegistryOrder

(* It holds at first.                                                      *)
LEMMA StreamsInit == Init => StreamsInv
<1> SUFFICES ASSUME Init PROVE StreamsInv
  OBVIOUS
<1>1. NoInbound \in Inbounds /\ NoWriter \in Writers /\ <<>> \in Seq(Called) /\ <<>> \in Seq(Chunks)
      /\ Len(<<>>) = 0 /\ 1..0 = {} /\ 0 + 0 = 0 /\ 0 <= 0
  BY DEF NoInbound, NoWriter, Inbounds, Writers
<1>2. StreamTypes
  BY <1>1, StreamAssumption DEF Init, StreamTypes, StreamAssumption
<1>3. ASSUME NEW s \in Ids
      PROVE  StreamFits(s)
  <2>1. inbound[s] = NoInbound /\ got[s] = <<>>
    BY DEF Init
  <2>2. Ordered(s) /\ GateHeld(s) /\ Verdict(s) /\ Unopened(s) /\ ~Sending(s)
    BY <1>1, <2>1 DEF Ordered, GateHeld, Verdict, Unopened, Sending, NoInbound
  <2>3. Counted(s)
    <3>1. Delivered(s) = 0
      BY <1>1, <2>1 DEF Delivered, NoInbound
    <3>2. QED
      BY <2>1, <2>2, <3>1 DEF Counted, NoInbound
  <2>4. QED
    BY <2>2, <2>3 DEF StreamFits
<1>4. (\A c \in 1..Len(calls) : CallFits(c)) /\ \A s \in Ids : writers[s].at # "none" => s <= opened
  BY <1>1 DEF Init, NoWriter
<1>5. RegistryOrder
  BY <1>1 DEF Init, RegistryOrder
<1>6. QED
  BY <1>2, <1>3, <1>4, <1>5 DEF StreamInv, StreamsInv

(* The four kinds of steps.                                                *)
LEMMA NextSplits ==
    ASSUME Next
    PROVE  \/ \E p \in Peers \ Strangers, total \in Declared : Open(p, total)
           \/ \E c \in 1..Len(calls) : Handler(c)
           \/ OtherStep
           \/ Vanish
BY DEF Next, OtherStep

(* Every step keeps it.                                                    *)
LEMMA StreamsStep == StreamsInv /\ [Next]_vars => StreamsInv'
<1> SUFFICES ASSUME StreamInv, RegistryOrder, [Next]_vars
             PROVE  StreamInv' /\ RegistryOrder'
  BY DEF StreamsInv
<1>1. registry \subseteq 1..opened /\ opened \in Nat
  BY DEF RegistryOrder, StreamInv, StreamTypes
<1>2. CASE UNCHANGED vars
  <2>1. UNCHANGED <<inbound, registry, older, opened, calls, writers, got>>
    BY <1>2 DEF vars
  <2>2. RegistryOrder'
    BY <2>1 DEF RegistryOrder
  <2>3. writers' \in [Ids -> Writers]
    BY <2>1 DEF StreamInv, StreamTypes
  <2>4. QED
    BY <2>1, <2>2, <2>3, WriterKeeps
<1>3. ASSUME NEW p \in Peers \ Strangers, NEW total \in Declared, Open(p, total)
      PROVE  StreamInv' /\ RegistryOrder'
  BY <1>1, <1>3, OpenKeeps, OpenOrders
<1>4. ASSUME NEW c \in 1..Len(calls), Handler(c)
      PROVE  StreamInv' /\ RegistryOrder'
  BY <1>4, HandlersKeep, HandlerOrders
<1>5. CASE Vanish
  <2>1. StreamInv'
    BY <1>1, <1>5, VanishKeeps
  <2>2. registry' = {} /\ older' = {}
    BY <1>5 DEF Vanish
  <2>3. QED
    BY <2>1, <2>2 DEF RegistryOrder
<1>6. CASE OtherStep
  <2>1. RegistryOrder'
    BY <1>6, OtherStepQuiet DEF RegistryOrder
  <2>2. StreamInv'
    BY <1>6, ChunkKeeps, ReaderEnds, WritersKeep, OtherCallsKeep DEF OtherStep
  <2>3. QED
    BY <2>1, <2>2
<1>7. QED
  BY <1>2, <1>3, <1>4, <1>5, <1>6, NextSplits

(* The inductive invariant holds of the registry and its handler tasks     *)
(* (StreamRegistry), whatever their number.                                *)
THEOREM StreamInvariant == Spec => []StreamsInv
BY StreamsInit, StreamsStep, PTL DEF Spec

(* The invariant implies the promise to the reader.                        *)
LEMMA InvReads == StreamInv => ReadAsWritten
<1> SUFFICES ASSUME StreamInv PROVE ChunksInOrder /\ CleanEndIsWhole
  BY DEF ReadAsWritten
<1>1. ASSUME NEW s \in Ids
      PROVE  \A i \in 1..Len(got[s] \o inbound[s].buffer) :
                (got[s] \o inbound[s].buffer)[i] = [seq |-> i - 1, by |-> inbound[s].owner]
  <2> DEFINE a == got[s]
             b == inbound[s].buffer
  <2>1. a \in Seq(Chunks) /\ b \in Seq(Chunks) /\ Len(a) \in Nat /\ Len(b) \in Nat
    BY DEF StreamInv, StreamTypes, Inbounds
  <2>2. /\ \A i \in 1..Len(a) : a[i] = [seq |-> i - 1, by |-> inbound[s].owner]
        /\ \A i \in 1..Len(b) : b[i] = [seq |-> Len(a) + i - 1, by |-> inbound[s].owner]
    BY DEF StreamInv, StreamFits, Ordered
  <2> HIDE DEF a, b
  <2>3. /\ Len(a \o b) = Len(a) + Len(b)
        /\ \A i \in 1..(Len(a) + Len(b)) :
             (a \o b)[i] = IF i <= Len(a) THEN a[i] ELSE b[i - Len(a)]
    BY <2>1, ConcatProperties
  <2>4. \A m, n \in Nat : \A i \in 1..(m + n) :
           i \in 1..m \/ (~(i <= m) /\ i - m \in 1..n /\ m + (i - m) - 1 = i - 1)
    OBVIOUS
  <2>5. \A i \in 1..Len(a \o b) : (a \o b)[i] = [seq |-> i - 1, by |-> inbound[s].owner]
    <3> TAKE i \in 1..Len(a \o b)
    <3>1. i \in 1..(Len(a) + Len(b))
      BY <2>3, Zenon
    <3>2. \/ i \in 1..Len(a)
          \/ ~(i <= Len(a)) /\ i - Len(a) \in 1..Len(b) /\ Len(a) + (i - Len(a)) - 1 = i - 1
      BY <2>1, <2>4, <3>1, Zenon
    <3>3. CASE i \in 1..Len(a)
      <4>1. i <= Len(a)
        BY <2>1, <3>3
      <4>2. (a \o b)[i] = a[i]
        BY <2>3, <3>1, <4>1, Zenon
      <4>3. QED
        BY <2>2, <3>3, <4>2, Zenon
    <3>4. CASE ~(i <= Len(a)) /\ i - Len(a) \in 1..Len(b) /\ Len(a) + (i - Len(a)) - 1 = i - 1
      <4>1. (a \o b)[i] = b[i - Len(a)]
        BY <2>3, <3>1, <3>4, Zenon
      <4>2. b[i - Len(a)] = [seq |-> Len(a) + (i - Len(a)) - 1, by |-> inbound[s].owner]
        BY <2>2, <3>4, Zenon
      <4>3. QED
        BY <3>4, <4>1, <4>2, Zenon
    <3>5. QED
      BY <3>2, <3>3, <3>4, Zenon
  <2>6. QED
    BY <2>5 DEF a, b
<1>2. ASSUME NEW s \in Ids, inbound[s].reader = "clean"
      PROVE  \E total \in ClosedTotals(s) : Len(got[s]) >= total
  <2>1. ClosedAt(s, inbound[s].received) /\ Len(got[s]) = inbound[s].received
    BY <1>2 DEF StreamInv, StreamFits, Verdict
  <2>2. PICK c \in 1..Len(calls) : calls[c].op = "close" /\ calls[c].s = s /\ calls[c].pc = "ok"
                                   /\ calls[c].seq <= inbound[s].received
    BY <2>1 DEF ClosedAt
  <2>3. calls[c].seq \in Nat /\ inbound[s].received \in Nat /\ Len(got[s]) \in Nat
    <3>1. calls[c] \in Called /\ inbound[s] \in Inbounds /\ got[s] \in Seq(Chunks)
      BY DEF StreamInv, StreamTypes
    <3>2. QED
      BY <3>1 DEF Called, Inbounds
  <2>4. calls[c].seq \in ClosedTotals(s)
    BY <2>2 DEF ClosedTotals
  <2>5. QED
    BY <2>1, <2>2, <2>3, <2>4
<1>3. QED
  BY <1>1, <1>2 DEF ChunksInOrder, CleanEndIsWhole

(* The reader gets the owner's chunks, each once and in order, and its     *)
(* clean end is never a truncated one, however the handler tasks of        *)
(* writes, closes and aborts interleave (StreamRegistry::write and close,  *)
(* StreamReader::next_chunk).                                              *)
THEOREM ReadersAreTold == Spec => []ReadAsWritten
BY StreamInvariant, InvReads, PTL DEF StreamsInv

(* What a handler's step does to its stream, as the reader's end sees it.  *)
Concludes(r, q) ==
    /\ q.received = r.received
    /\ r.outcome # "none" => q.outcome = r.outcome
    /\ q.reader # r.reader => r.reader = "unclaimed" /\ q.reader = "dropped"

(* A chunk is counted, never after a clean end.                            *)
Counts(r, q) ==
    /\ r.reader # "clean"
    /\ q.received = r.received + 1
    /\ q.outcome = r.outcome /\ q.reader = r.reader

(* The reader is claimed.                                                  *)
Claims(r, q) ==
    /\ r.reader = "unclaimed" /\ q.reader = "reading"
    /\ q.received = r.received /\ q.outcome = r.outcome

(* One of the three, by the same owner, and no seal is broken.             *)
Handles(r, q) ==
    /\ q.owner = r.owner
    /\ r.sealed => q.sealed
    /\ Concludes(r, q) \/ Counts(r, q) \/ Claims(r, q)

(* An end is the first.                                                    *)
LEMMA EndsHandle ==
    ASSUME NEW r, NEW q, EndsAs(r, q)
    PROVE  Handles(r, q)
BY DEF EndsAs, Handles, Concludes

(* Every step of a handler task is one of the three on its own stream.     *)
LEMMA HandlerDoes ==
    ASSUME StreamInv, NEW c \in 1..Len(calls), Handler(c)
    PROVE  /\ \E q : inbound' = [inbound EXCEPT ![calls[c].s] = q] /\ Handles(inbound[calls[c].s], q)
           /\ UNCHANGED <<opened, got>>
<1> DEFINE s == calls[c].s
           r == inbound[s]
           free == [r EXCEPT !.gate = 0]
<1>1. /\ s \in Ids /\ r \in Inbounds /\ CallFits(c) /\ StreamFits(s)
      /\ (r.aborted => r.outcome = "aborted") /\ c # 0
  BY CallTyped
<1>2. EndsAs(r, r) /\ inbound = [inbound EXCEPT ![s] = r]
  BY <1>1, StaysEnds DEF StreamInv, StreamTypes
<1>3. /\ free \in Inbounds /\ (free.aborted => free.outcome = "aborted") /\ EndsAs(r, free)
  BY <1>1 DEF Inbounds, EndsAs
<1>4. /\ EndsAs(r, Killed(r)) /\ EndsAs(r, Killed(free))
  BY <1>1, <1>3, KilledEnds, EndedTwice
<1>5. UNCHANGED <<opened, got>>
  BY Zenon DEF Handler, Unknown, WriteLookup, WriteGate, WriteCheck, WriteSend, CloseLookup,
         CloseFinish, AbortStream, AcceptLookup, AcceptTake
<1>6. CASE UNCHANGED inbound
  BY <1>2, <1>5, <1>6, EndsHandle
<1>7. ASSUME NEW q, EndsAs(r, q), inbound' = [inbound EXCEPT ![s] = q]
      PROVE  \E u : inbound' = [inbound EXCEPT ![s] = u] /\ Handles(r, u)
  BY <1>7, EndsHandle
<1>8. CASE WriteLookup(c)
  <2>1. UNCHANGED inbound \/ inbound' = [inbound EXCEPT ![s] = Killed(r)]
    BY <1>8 DEF WriteLookup
  <2>2. QED
    BY <1>4, <1>5, <1>6, <1>7, <2>1
<1>9. CASE WriteGate(c)
  <2> DEFINE q == [r EXCEPT !.gate = c]
  <2>1. UNCHANGED inbound \/ inbound' = [inbound EXCEPT ![s] = q]
    BY <1>9 DEF WriteGate
  <2>2. EndsAs(r, q)
    BY <1>1, SMTT(30) DEF EndsAs, Inbounds
  <2> HIDE DEF q
  <2>3. QED
    BY <1>5, <1>6, <1>7, <2>1, <2>2
<1>10. CASE WriteCheck(c)
  <2> DEFINE g == IF r.aborted THEN 0 ELSE r.gate
             q == [r EXCEPT !.nextSeq = @ + 1, !.received = @ + 1, !.gate = g]
  <2>1. \/ inbound' = [inbound EXCEPT ![s] = Killed(free)]
        \/ inbound' = [inbound EXCEPT ![s] = q]
    BY <1>10 DEF WriteCheck
  <2>2. r.reader # "clean"
    <3>1. r.gate = c
      BY <1>1, <1>10 DEF WriteCheck, CallFits
    <3>2. QED
      BY <1>1, <3>1 DEF StreamFits, Verdict
  <2>3. /\ q.owner = r.owner /\ q.sealed = r.sealed /\ q.received = r.received + 1
        /\ q.outcome = r.outcome /\ q.reader = r.reader
    BY <1>1 DEF Inbounds
  <2> HIDE DEF q
  <2>4. Handles(r, q)
    BY <2>2, <2>3 DEF Handles, Counts
  <2> HIDE DEF free
  <2>5. QED
    BY <1>4, <1>5, <1>7, <2>1, <2>4
<1>11. CASE WriteSend(c)
  <2> DEFINE buf == Append(r.buffer, [seq |-> calls[c].seq, by |-> calls[c].by])
             q == [r EXCEPT !.gate = 0, !.buffer = buf]
  <2>1. \/ inbound' = [inbound EXCEPT ![s] = free]
        \/ inbound' = [inbound EXCEPT ![s] = Killed(free)]
        \/ inbound' = [inbound EXCEPT ![s] = q]
    BY <1>11 DEF WriteSend
  <2> HIDE DEF buf
  <2>2. /\ q.owner = r.owner /\ q.sealed = r.sealed /\ q.received = r.received
        /\ q.outcome = r.outcome /\ q.reader = r.reader
    BY <1>1 DEF Inbounds
  <2> HIDE DEF q
  <2>3. Handles(r, q)
    BY <2>2 DEF Handles, Concludes
  <2> HIDE DEF free
  <2>4. QED
    BY <1>3, <1>4, <1>5, <1>7, <2>1, <2>3
<1>12. CASE CloseFinish(c) \/ AbortStream(c)
  <2>1. PICK verdict \in {"complete", "aborted"} :
           inbound' = [inbound EXCEPT ![s] = Sealed(Finished(r, verdict))]
    <3>1. CASE AbortStream(c)
      BY <3>1 DEF AbortStream
    <3>2. CASE CloseFinish(c)
      BY <3>2 DEF CloseFinish
    <3>3. QED
      BY <1>12, <3>1, <3>2
  <2>2. EndsAs(r, Sealed(Finished(r, verdict)))
    BY <1>1, SealFinishedEnds
  <2>3. QED
    BY <1>5, <1>7, <2>1, <2>2
<1>13. CASE AcceptTake(c)
  <2> DEFINE how == IF r.reader = "unclaimed" THEN "reading" ELSE r.reader
             q == [r EXCEPT !.reader = how]
  <2>1. UNCHANGED inbound \/ inbound' = [inbound EXCEPT ![s] = q]
    BY <1>13 DEF AcceptTake
  <2>2. /\ q.owner = r.owner /\ q.sealed = r.sealed /\ q.received = r.received
        /\ q.outcome = r.outcome /\ q.reader = how
    BY <1>1 DEF Inbounds
  <2> HIDE DEF q
  <2>3. Handles(r, q)
    BY <2>2 DEF Handles, Concludes, Claims
  <2>4. QED
    BY <1>5, <1>6, <2>1, <2>3
<1>14. CASE Unknown(c) \/ CloseLookup(c) \/ AcceptLookup(c)
  BY <1>6, <1>14 DEF Unknown, CloseLookup, AcceptLookup
<1>15. QED
  BY <1>8, <1>9, <1>10, <1>11, <1>12, <1>13, <1>14 DEF Handler

-----------------------------------------------------------------------------

(* Streams that conclude, in the abstract pipe.                            *)
LEMMA PipeQuiet ==
    ASSUME \A s \in Ids : /\ inbound'[s].received = inbound[s].received
                          /\ inbound[s].outcome # "none" => inbound'[s].outcome = inbound[s].outcome
                          /\ inbound'[s].reader # inbound[s].reader =>
                               inbound[s].reader = "unclaimed" /\ inbound'[s].reader = "dropped",
           UNCHANGED got
    PROVE  Pipe!Next
BY DEF Pipe!Next, Pipe!Conclude

(* The steps of handler tasks accept, claim or conclude.                   *)
LEMMA PipeHandler ==
    ASSUME StreamInv, NEW c \in 1..Len(calls), Handler(c)
    PROVE  Pipe!Next
<1>1. PICK s \in Ids : s = calls[c].s
  BY CallTyped
<1> DEFINE r == inbound[s]
<1>2. PICK q : inbound' = [inbound EXCEPT ![s] = q] /\ Handles(r, q)
  BY <1>1, HandlerDoes
<1>3. UNCHANGED got
  BY HandlerDoes
<1>4. inbound'[s] = q /\ \A t \in Ids \ {s} : inbound'[t] = inbound[t]
  BY <1>1, <1>2 DEF StreamInv, StreamTypes
<1>5. CASE Concludes(r, q)
  <2>1. \A t \in Ids : /\ inbound'[t].received = inbound[t].received
                       /\ inbound[t].outcome # "none" => inbound'[t].outcome = inbound[t].outcome
                       /\ inbound'[t].reader # inbound[t].reader =>
                            inbound[t].reader = "unclaimed" /\ inbound'[t].reader = "dropped"
    BY <1>4, <1>5 DEF Concludes
  <2>2. QED
    BY <1>3, <2>1, PipeQuiet
<1>6. CASE Counts(r, q)
  <2>1. Pipe!Accept(s)
    BY <1>1, <1>3, <1>4, <1>6 DEF Pipe!Accept, Counts
  <2>2. QED
    BY <1>1, <2>1 DEF Pipe!Next
<1>7. CASE Claims(r, q)
  <2>1. Pipe!Claim(s)
    BY <1>1, <1>3, <1>4, <1>7 DEF Pipe!Claim, Claims
  <2>2. QED
    BY <1>1, <2>1 DEF Pipe!Next
<1>8. QED
  BY <1>2, <1>5, <1>6, <1>7 DEF Handles

(* The steps of the reader read, end cleanly or give up.                   *)
LEMMA PipeReader ==
    ASSUME StreamInv, NEW s \in Ids, NextChunk(s) \/ NextEnd(s) \/ DropReader(s)
    PROVE  Pipe!Next
<1> DEFINE r == inbound[s]
<1>1. /\ r \in Inbounds /\ StreamFits(s) /\ got[s] \in Seq(Chunks) /\ r.reader = "reading"
      /\ r.buffer \in Seq(Chunks) /\ inbound \in [Ids -> Inbounds] /\ got \in [Ids -> Seq(Chunks)]
      /\ Len(<<>>) = 0
  BY DEF NextChunk, NextEnd, DropReader, StreamInv, StreamTypes, Inbounds
<1>2. CASE NextChunk(s)
  <2> DEFINE rest == Tail(r.buffer)
             q == [r EXCEPT !.buffer = rest]
             u == Append(got[s], Head(r.buffer))
  <2>1. inbound' = [inbound EXCEPT ![s] = q] /\ got' = [got EXCEPT ![s] = u] /\ r.buffer # <<>>
    BY <1>2 DEF NextChunk
  <2>2. Len(u) = Len(got[s]) + 1 /\ Len(got[s]) \in Nat /\ Len(r.buffer) \in Nat
        /\ Len(r.buffer) >= 1
    BY <1>1, <2>1, AppendProperties
  <2>3. /\ q.received = r.received /\ q.outcome = r.outcome /\ q.reader = r.reader
    BY <1>1 DEF Inbounds
  <2> HIDE DEF q, u
  <2>4. /\ inbound'[s] = q /\ \A t \in Ids \ {s} : inbound'[t] = inbound[t]
        /\ got'[s] = u /\ \A t \in Ids \ {s} : got'[t] = got[t]
    BY <1>1, <2>1
  <2>5. Len(got[s]) < r.received
    <3>1. \A a, b, n \in Nat : b >= 1 /\ a + b <= n => a < n
      OBVIOUS
    <3>2. Len(got[s]) + Len(r.buffer) <= r.nextSeq /\ r.nextSeq = r.received
      BY <1>1 DEF StreamFits, Counted, Delivered
    <3>3. r.nextSeq \in Nat
      BY <1>1 DEF Inbounds
    <3>4. Len(got[s]) < r.nextSeq
      BY <2>2, <3>1, <3>2, <3>3, Zenon
    <3>5. QED
      BY <3>2, <3>4
  <2>6. Pipe!Read(s)
    BY <1>1, <2>2, <2>3, <2>4, <2>5 DEF Pipe!Read
  <2>7. QED
    BY <2>6 DEF Pipe!Next
<1>3. CASE NextEnd(s)
  <2> DEFINE how == IF r.outcome = "complete" THEN "clean" ELSE "broken"
             q == [r EXCEPT !.reader = how]
  <2>1. inbound' = [inbound EXCEPT ![s] = q] /\ UNCHANGED got /\ r.buffer = <<>> /\ ChannelEnded(s)
    BY <1>3 DEF NextEnd
  <2>2. /\ q.received = r.received /\ q.outcome = r.outcome /\ q.reader = how
    BY <1>1 DEF Inbounds
  <2> HIDE DEF q
  <2>3. inbound'[s] = q /\ \A t \in Ids \ {s} : inbound'[t] = inbound[t]
    BY <1>1, <2>1
  <2>4. CASE r.outcome = "complete"
    <3>1. r.gate = 0 /\ ~r.aborted
      BY <1>1, <2>1, <2>4 DEF StreamFits, GateHeld, ChannelEnded, Verdict
    <3>2. Len(got[s]) + Len(<<>>) = r.received
      BY <1>1, <2>1, <3>1 DEF StreamFits, Counted, Sending, Delivered
    <3>3. Len(got[s]) = r.received
      <4>1. \A a \in Nat : a + 0 = a
        OBVIOUS
      <4>2. Len(got[s]) \in Nat /\ Len(got[s]) + 0 = r.received
        BY <1>1, <3>2
      <4>3. QED
        BY <4>1, <4>2, Zenon
    <3>4. Pipe!CleanEnd(s)
      BY <1>1, <2>1, <2>2, <2>3, <2>4, <3>3 DEF Pipe!CleanEnd
    <3>5. QED
      BY <3>4 DEF Pipe!Next
  <2>5. CASE r.outcome # "complete"
    <3>1. Pipe!GiveUp(s)
      BY <1>1, <2>1, <2>2, <2>3, <2>5 DEF Pipe!GiveUp
    <3>2. QED
      BY <3>1 DEF Pipe!Next
  <2>6. QED
    BY <2>4, <2>5
<1>4. CASE DropReader(s)
  <2> DEFINE q == [r EXCEPT !.reader = "dropped", !.buffer = <<>>]
  <2>1. inbound' = [inbound EXCEPT ![s] = q] /\ UNCHANGED got
    BY <1>4 DEF DropReader
  <2>2. q.received = r.received /\ q.outcome = r.outcome /\ q.reader = "dropped"
    BY <1>1 DEF Inbounds
  <2> HIDE DEF q
  <2>3. inbound'[s] = q /\ \A t \in Ids \ {s} : inbound'[t] = inbound[t]
    BY <1>1, <2>1
  <2>4. Pipe!GiveUp(s)
    BY <1>1, <2>1, <2>2, <2>3 DEF Pipe!GiveUp
  <2>5. QED
    BY <2>4 DEF Pipe!Next
<1>5. QED
  BY <1>2, <1>3, <1>4

(* An Open concludes the streams it reaps and evicts.                      *)
LEMMA PipeOpen ==
    ASSUME StreamInv, RegistryOrder, NEW p \in Peers, NEW total \in Declared, Open(p, total)
    PROVE  Pipe!Next
<1>1. PICK idle, out : \E refused \in BOOLEAN : OpenStep(opened + 1, p, total, idle, out, refused)
  BY OpenSteps
<1>2. PICK refused \in BOOLEAN : OpenStep(opened + 1, p, total, idle, out, refused)
  BY <1>1
<1>3. total \in Nat \cup {NoLen} /\ opened \in Nat /\ registry \subseteq 1..opened
  BY StreamAssumption DEF StreamAssumption, StreamInv, StreamTypes, RegistryOrder
<1>4. ASSUME NEW i \in Ids
      PROVE  /\ inbound'[i].received = inbound[i].received
             /\ inbound[i].outcome # "none" => inbound'[i].outcome = inbound[i].outcome
             /\ inbound'[i].reader # inbound[i].reader =>
                  inbound[i].reader = "unclaimed" /\ inbound'[i].reader = "dropped"
  <2>1. CASE i <= opened
    BY <1>2, <2>1, OpenEnds DEF EndsAs
  <2>2. CASE ~(i <= opened)
    <3>1. inbound[i] = NoInbound /\ i \notin registry
      BY <1>3, <2>2 DEF StreamInv, StreamFits, Unopened, Ids
    <3>2. inbound'[i] \in {NoInbound, NewInbound(p, total)}
      BY <1>2, <3>1 DEF OpenStep
    <3>3. /\ NewInbound(p, total).received = 0 /\ NewInbound(p, total).outcome = "none"
          /\ NewInbound(p, total).reader = "unclaimed"
      BY <1>3, NewInboundTyped
    <3>4. QED
      BY <3>1, <3>2, <3>3 DEF NoInbound
  <2>3. QED
    BY <2>1, <2>2
<1>5. UNCHANGED got
  BY <1>2 DEF OpenStep
<1>6. QED
  BY <1>4, <1>5, PipeQuiet

(* Every step is one of the pipe or none.                                  *)
LEMMA PipeStep == StreamsInv /\ [Next]_vars => [Pipe!Next]_(Pipe!vars)
<1> SUFFICES ASSUME StreamInv, RegistryOrder, [Next]_vars
             PROVE  Pipe!Next \/ UNCHANGED <<inbound, got>>
  BY DEF StreamsInv, Pipe!vars
<1>1. CASE UNCHANGED vars
  BY <1>1 DEF vars
<1>2. ASSUME NEW p \in Peers \ Strangers, NEW total \in Declared, Open(p, total)
      PROVE  Pipe!Next
  BY <1>2, PipeOpen
<1>3. ASSUME NEW c \in 1..Len(calls), Handler(c)
      PROVE  Pipe!Next
  BY <1>3, PipeHandler
<1>4. CASE Vanish
  <2>1. \A i \in Ids : /\ inbound'[i].received = inbound[i].received
                       /\ inbound[i].outcome # "none" => inbound'[i].outcome = inbound[i].outcome
                       /\ inbound'[i].reader # inbound[i].reader =>
                            inbound[i].reader = "unclaimed" /\ inbound'[i].reader = "dropped"
    BY <1>4, VanishEnds DEF EndsAs
  <2>2. UNCHANGED got
    BY <1>4 DEF Vanish
  <2>3. QED
    BY <2>1, <2>2, PipeQuiet
<1>5. CASE OtherStep
  <2>1. ASSUME NEW s \in Ids, NextChunk(s) \/ NextEnd(s) \/ DropReader(s)
        PROVE  Pipe!Next
    BY <2>1, PipeReader
  <2>2. \/ \E s \in Ids : NextChunk(s) \/ NextEnd(s) \/ DropReader(s)
        \/ UNCHANGED <<inbound, got>>
    BY <1>5 DEF OtherStep, WriteChunk, WriteReply, WriteTimeout, Finish,
                FinishReply, AbortOrDrop, SendHandle, RawWrite
  <2>3. QED
    BY <2>1, <2>2
<1>6. QED
  BY <1>1, <1>2, <1>3, <1>4, <1>5, NextSplits

(* The registry, its handler tasks and both ends implement BulkPipe: a     *)
(* verdict is given once, a clean end comes after a complete one with      *)
(* everything accepted read, and nothing is accepted after it              *)
(* (Inbound::finish, StreamReader::next_chunk).                            *)
THEOREM StreamsArePipes == Spec => PipeSpec
<1>1. Init => Pipe!Init
  <2> SUFFICES ASSUME Init PROVE Pipe!Init
    OBVIOUS
  <2>1. \A s \in Ids : /\ inbound[s].received = 0 /\ inbound[s].outcome = "none"
                       /\ inbound[s].reader = "unclaimed" /\ Len(got[s]) = 0
    <3>1. Len(<<>>) = 0
      OBVIOUS
    <3>2. QED
      BY <3>1 DEF Init, NoInbound
  <2>2. QED
    BY <2>1 DEF Pipe!Init
<1>2. QED
  BY <1>1, StreamsInit, StreamsStep, PipeStep, PTL DEF Spec, PipeSpec, Pipe!Spec

-----------------------------------------------------------------------------

(* Counting a subset.                                                      *)
LEMMA Subcount ==
    ASSUME NEW S, NEW T, IsFiniteSet(T), S \subseteq T, NEW n \in Nat, Cardinality(T) <= n
    PROVE  IsFiniteSet(S) /\ Cardinality(S) \in Nat /\ Cardinality(S) <= n
<1>1. IsFiniteSet(S) /\ Cardinality(S) <= Cardinality(T)
  BY FS_Subset
<1>2. Cardinality(S) \in Nat /\ Cardinality(T) \in Nat
  BY <1>1, FS_CardinalityType
<1>3. QED
  BY <1>1, <1>2

(* So the slots can be counted.                                            *)
LEMMA RegistryFinite ==
    ASSUME RegistryOrder, opened \in Nat
    PROVE  IsFiniteSet(registry)
<1>1. IsFiniteSet(1..opened)
  BY FS_Interval
<1>2. registry \in SUBSET (1..opened)
  BY DEF RegistryOrder
<1>3. QED
  BY <1>1, <1>2, FS_Subset

(* The longest silent sealed streams that an Open evicts leave at most one
   slot less than the cap: those that stay have distinct numbers of sealed
   ones before them, all among the cap's last ones. *)
LEMMA EvictionMakesRoom ==
    ASSUME RegistryOrder, opened \in Nat, NEW reg, reg \subseteq registry, NEW p,
           NEW sealed, sealed = {i \in reg : inbound[i].owner = p /\ inbound[i].sealed}
    PROVE  /\ IsFiniteSet(sealed \ Evicted(reg, p))
           /\ Cardinality(sealed \ Evicted(reg, p)) <= StreamCap - 1
<1> DEFINE Before(i) == {j \in sealed : <<j, i>> \in older}
           kept == sealed \ Evicted(reg, p)
           n == Cardinality(sealed)
           f == [i \in kept |-> Cardinality(Before(i))]
<1>1. sealed \subseteq registry
  OBVIOUS
<1>2. IsFiniteSet(sealed) /\ n \in Nat
  BY <1>1, RegistryFinite, FS_Subset, FS_CardinalityType
<1>3. StreamCap \in Nat \ {0}
  BY StreamAssumption DEF StreamAssumption
<1>4. ASSUME NEW i \in sealed
      PROVE  /\ IsFiniteSet(Before(i)) /\ Cardinality(Before(i)) \in Nat
             /\ Cardinality(Before(i)) < n
  <2>1. Before(i) \in SUBSET sealed /\ Before(i) # sealed
    BY <1>1, <1>4 DEF RegistryOrder
  <2>2. IsFiniteSet(Before(i)) /\ Cardinality(Before(i)) <= n /\ Cardinality(Before(i)) # n
    BY <1>2, <2>1, FS_Subset
  <2>3. Cardinality(Before(i)) \in Nat
    BY <2>2, FS_CardinalityType
  <2>4. QED
    BY <1>2, <2>2, <2>3
<1>5. ASSUME NEW i \in sealed, NEW j \in sealed, <<i, j>> \in older
      PROVE  Cardinality(Before(i)) < Cardinality(Before(j))
  <2>1. Before(i) \in SUBSET Before(j)
    BY <1>1, <1>5 DEF RegistryOrder
  <2>2. i \in Before(j) /\ i \notin Before(i)
    BY <1>1, <1>5 DEF RegistryOrder
  <2>3. Cardinality(Before(i)) <= Cardinality(Before(j)) /\ Cardinality(Before(i)) # Cardinality(Before(j))
    BY <1>4, <2>1, <2>2, FS_Subset
  <2>4. Cardinality(Before(i)) \in Nat /\ Cardinality(Before(j)) \in Nat
    BY <1>4
  <2> HIDE DEF Before
  <2>5. QED
    BY <2>3, <2>4
<1>6. \A i \in kept : i \in sealed /\ Cardinality(Before(i)) + StreamCap > n
  <2>1. Evicted(reg, p) = {i \in sealed : Cardinality(Before(i)) + StreamCap <= n}
    BY DEF Evicted
  <2>2. \A i \in kept : i \in sealed /\ ~(Cardinality(Before(i)) + StreamCap <= n)
    BY <2>1
  <2>3. \A a, b, m \in Nat : ~(a + b <= m) => a + b > m
    OBVIOUS
  <2> HIDE DEF Before, n, kept
  <2>4. QED
    BY <1>2, <1>3, <1>4, <2>2, <2>3
<1> DEFINE lo == n - StreamCap + 1
           hi == n - 1
<1>7. f \in Injection(kept, lo..hi)
  <2>1. \A i \in kept : Cardinality(Before(i)) \in lo..hi
    <3> HIDE DEF Before, n, kept
    <3>1. TAKE i \in kept
    <3>2. Cardinality(Before(i)) \in Nat /\ Cardinality(Before(i)) < n
          /\ Cardinality(Before(i)) + StreamCap > n
      BY <1>4, <1>6
    <3>3. QED
      BY <1>2, <1>3, <3>2
  <2>2. ASSUME NEW i \in kept, NEW j \in kept, i # j
        PROVE  Cardinality(Before(i)) # Cardinality(Before(j))
    <3>1. i \in sealed /\ j \in sealed
      OBVIOUS
    <3>2. <<i, j>> \in older \/ <<j, i>> \in older
      BY <1>1, <2>2, <3>1 DEF RegistryOrder
    <3> HIDE DEF Before
    <3>3. QED
      BY <1>4, <1>5, <3>1, <3>2
  <2> HIDE DEF Before, lo, hi, kept
  <2>3. f \in [kept -> lo..hi]
    BY <2>1
  <2>4. \A i, j \in kept : f[i] = f[j] => i = j
    BY <2>2
  <2> HIDE DEF f
  <2>5. DOMAIN f = kept
    BY <2>3
  <2>6. QED
    BY <2>3, <2>4, <2>5 DEF Injection, IsInjective
<1>8. /\ IsFiniteSet(lo..hi)
      /\ Cardinality(lo..hi) = IF lo > hi THEN 0 ELSE hi - lo + 1
  <2>1. lo \in Int /\ hi \in Int
    <3> HIDE DEF n
    <3>1. QED
      BY <1>2, <1>3
  <2> HIDE DEF lo, hi
  <2>2. QED
    BY <2>1, FS_Interval
<1>9. Cardinality(lo..hi) <= StreamCap - 1
  <2> HIDE DEF n
  <2>1. QED
    BY <1>2, <1>3, <1>8
<1> HIDE DEF f, kept, lo, hi
<1>10. IsFiniteSet(kept) /\ Cardinality(kept) <= Cardinality(lo..hi)
  BY <1>7, <1>8, FS_Injection
<1>11. Cardinality(kept) \in Nat /\ Cardinality(lo..hi) \in Nat
  BY <1>8, <1>10, FS_CardinalityType
<1>12. Cardinality(kept) <= StreamCap - 1
  BY <1>3, <1>9, <1>10, <1>11
<1>13. QED
  BY <1>10, <1>12 DEF kept

(* One peer's live streams and all of its streams.                         *)
LiveBy(p) == {s \in registry : inbound[s].owner = p /\ ~inbound[s].sealed}

AllBy(p) == {s \in registry : inbound[s].owner = p}

(* A step that adds no entry, gives none to another owner and reopens none. *)
LEMMA SlotsKeep ==
    ASSUME RegistryOrder, opened \in Nat, SlotsBounded, registry' \subseteq registry,
           \A i \in registry' : /\ inbound'[i].owner = inbound[i].owner
                                /\ inbound[i].sealed => inbound'[i].sealed
    PROVE  SlotsBounded'
<1>1. StreamCap \in Nat /\ 2 * StreamCap \in Nat
  BY StreamAssumption DEF StreamAssumption
<1>2. ASSUME NEW p \in Peers
      PROVE  /\ Cardinality(LiveBy(p)') <= StreamCap
             /\ Cardinality(AllBy(p)') <= 2 * StreamCap
  <2>1. LiveBy(p)' \subseteq LiveBy(p) /\ AllBy(p)' \subseteq AllBy(p)
    BY DEF LiveBy, AllBy
  <2>2. IsFiniteSet(LiveBy(p)) /\ IsFiniteSet(AllBy(p))
    BY RegistryFinite, FS_Subset DEF LiveBy, AllBy
  <2>3. Cardinality(LiveBy(p)) <= StreamCap /\ Cardinality(AllBy(p)) <= 2 * StreamCap
    BY DEF SlotsBounded, LiveBy, AllBy
  <2>4. QED
    BY <1>1, <2>1, <2>2, <2>3, Subcount
<1>3. QED
  BY <1>2 DEF SlotsBounded, LiveBy, AllBy

(* Handler tasks take no slot.                                             *)
LEMMA HandlerSlots ==
    ASSUME StreamInv, RegistryOrder, SlotsBounded, NEW c \in 1..Len(calls), Handler(c)
    PROVE  SlotsBounded'
<1>1. PICK s \in Ids : s = calls[c].s
  BY CallTyped
<1>2. PICK q : inbound' = [inbound EXCEPT ![s] = q] /\ Handles(inbound[s], q)
  BY <1>1, HandlerDoes
<1>3. \A i \in Ids : /\ inbound'[i].owner = inbound[i].owner
                     /\ inbound[i].sealed => inbound'[i].sealed
  BY <1>2 DEF Handles, StreamInv, StreamTypes
<1>4. registry' \subseteq registry /\ registry \subseteq 1..opened /\ opened \in Nat
      /\ 1..opened \subseteq Ids
  BY HandlerOrders, StreamAssumption
     DEF RegistryOrder, StreamInv, StreamTypes, Ids, StreamAssumption
<1>5. QED
  BY <1>3, <1>4, SlotsKeep

(* Readers and senders take none.                                          *)
LEMMA ReaderSlots ==
    ASSUME StreamInv, RegistryOrder, SlotsBounded, OtherStep
    PROVE  SlotsBounded'
<1>1. UNCHANGED registry /\ opened \in Nat /\ inbound \in [Ids -> Inbounds]
      /\ registry \subseteq 1..opened /\ 1..opened \subseteq Ids
  BY OtherStepQuiet, StreamAssumption
     DEF RegistryOrder, StreamInv, StreamTypes, Ids, StreamAssumption
<1>2. \A i \in Ids : inbound'[i].owner = inbound[i].owner /\ inbound'[i].sealed = inbound[i].sealed
  <2>1. ASSUME NEW s \in Ids, NextChunk(s)
        PROVE  \A i \in Ids : inbound'[i].owner = inbound[i].owner /\ inbound'[i].sealed = inbound[i].sealed
    <3> DEFINE q == [inbound[s] EXCEPT !.buffer = Tail(@)]
    <3>1. q.owner = inbound[s].owner /\ q.sealed = inbound[s].sealed
      BY <1>1 DEF Inbounds
    <3>2. inbound' = [inbound EXCEPT ![s] = q]
      BY <2>1 DEF NextChunk
    <3> HIDE DEF q
    <3>3. QED
      BY <1>1, <3>1, <3>2
  <2>2. ASSUME NEW s \in Ids, NextEnd(s) \/ DropReader(s)
        PROVE  \A i \in Ids : inbound'[i].owner = inbound[i].owner /\ inbound'[i].sealed = inbound[i].sealed
    <3>1. PICK how \in {"clean", "broken", "dropped"}, buf \in {<<>>, inbound[s].buffer} :
             inbound' = [inbound EXCEPT ![s] = [inbound[s] EXCEPT !.reader = how, !.buffer = buf]]
      <4>1. CASE DropReader(s)
        BY <4>1 DEF DropReader
      <4>2. CASE NextEnd(s)
        <5> DEFINE how == IF inbound[s].outcome = "complete" THEN "clean" ELSE "broken"
        <5>1. [inbound[s] EXCEPT !.reader = how, !.buffer = inbound[s].buffer]
                = [inbound[s] EXCEPT !.reader = how]
          BY <1>1 DEF Inbounds
        <5>2. inbound' = [inbound EXCEPT ![s] = [inbound[s] EXCEPT !.reader = how]]
          BY <4>2 DEF NextEnd
        <5>3. QED
          BY <5>1, <5>2
      <4>3. QED
        BY <2>2, <4>1, <4>2
    <3> DEFINE q == [inbound[s] EXCEPT !.reader = how, !.buffer = buf]
    <3>2. q.owner = inbound[s].owner /\ q.sealed = inbound[s].sealed
      BY <1>1 DEF Inbounds
    <3>3. inbound' = [inbound EXCEPT ![s] = q]
      BY <3>1
    <3> HIDE DEF q
    <3>4. QED
      BY <1>1, <3>2, <3>3
  <2>3. CASE UNCHANGED inbound
    BY <2>3
  <2>4. \/ \E s \in Ids : NextChunk(s) \/ NextEnd(s) \/ DropReader(s)
        \/ UNCHANGED inbound
    BY DEF OtherStep, WriteChunk, WriteReply, WriteTimeout, Finish,
           FinishReply, AbortOrDrop, SendHandle, RawWrite
  <2>5. QED
    BY <2>1, <2>2, <2>3, <2>4
<1>3. QED
  BY <1>1, <1>2, SlotsKeep

(* An Open takes one slot, of a peer whose live streams are below the cap  *)
(* and whose sealed streams the eviction brought below it.                 *)
LEMMA OpenSlots ==
    ASSUME StreamInv, RegistryOrder, SlotsBounded,
           NEW p \in Peers, NEW total \in Declared, Open(p, total)
    PROVE  SlotsBounded'
<1> DEFINE Reg(idle) == registry \ idle
           Refused(idle) == Cardinality(LiveOf(Reg(idle), p)) >= StreamCap
           Out(idle) == IF Refused(idle) THEN {} ELSE Evicted(Reg(idle), p)
<1>1. PICK idle \in SUBSET registry :
         /\ registry' = (registry \ (idle \cup Out(idle))) \cup (IF Refused(idle) THEN {} ELSE {opened + 1})
         /\ inbound' = [i \in Ids |->
              IF i \in idle THEN Killed(inbound[i])
              ELSE IF i \in Out(idle) THEN Finished(inbound[i], "aborted")
              ELSE IF i = opened + 1 /\ ~Refused(idle) THEN NewInbound(p, total)
              ELSE inbound[i]]
  BY DEF Open
<1> DEFINE reg == Reg(idle)
           out == Out(idle)
           refused == Refused(idle)
           kept == reg \ out
           s == opened + 1
<1>2. /\ opened \in Nat /\ registry \subseteq 1..opened /\ 1..opened \subseteq Ids
      /\ s \in Ids /\ StreamCap \in Nat \ {0} /\ s \notin registry
  BY StreamAssumption DEF RegistryOrder, StreamInv, StreamTypes, Ids, StreamAssumption, Open
<1>3. kept \subseteq registry /\ \A i \in kept : inbound'[i] = inbound[i]
  <2>1. \A i \in kept : i \in registry /\ i # s /\ i \in Ids /\ i \notin idle /\ i \notin out
    BY <1>2
  <2>2. QED
    BY <1>1, <2>1
<1>4. CASE refused
  <2>1. registry' = kept
    BY <1>1, <1>4
  <2>2. QED
    BY <1>2, <1>3, <2>1, SlotsKeep
<1>5. CASE ~refused
  <2>1. registry' = kept \cup {s} /\ out = Evicted(reg, p)
    BY <1>1, <1>5
  <2>2. inbound'[s].owner = p
    <3>1. s \notin idle /\ s \notin out
      BY <1>2, <2>1 DEF Evicted
    <3>2. inbound'[s] = NewInbound(p, total)
      BY <1>1, <1>2, <1>5, <3>1
    <3>3. QED
      BY <3>2 DEF NewInbound, NoInbound
  <2>3. ASSUME NEW t \in Peers \ {p}
        PROVE  Cardinality(LiveBy(t)') <= StreamCap /\ Cardinality(AllBy(t)') <= 2 * StreamCap
    <3>1. LiveBy(t)' \subseteq LiveBy(t) /\ AllBy(t)' \subseteq AllBy(t)
      BY <1>3, <2>1, <2>2 DEF LiveBy, AllBy
    <3>2. IsFiniteSet(LiveBy(t)) /\ IsFiniteSet(AllBy(t))
      BY <1>2, RegistryFinite, FS_Subset DEF LiveBy, AllBy
    <3>3. Cardinality(LiveBy(t)) <= StreamCap /\ Cardinality(AllBy(t)) <= 2 * StreamCap
      BY DEF SlotsBounded, LiveBy, AllBy
    <3>4. 2 * StreamCap \in Nat
      BY <1>2
    <3>5. QED
      BY <1>2, <3>1, <3>2, <3>3, <3>4, Subcount
  <2>4. Cardinality(LiveBy(p)') <= StreamCap /\ Cardinality(AllBy(p)') <= 2 * StreamCap
    <3> DEFINE live == LiveOf(reg, p)
               sealed == {i \in reg : inbound[i].owner = p /\ inbound[i].sealed}
               stay == sealed \ Evicted(reg, p)
    <3>1. IsFiniteSet(live) /\ Cardinality(live) \in Nat /\ Cardinality(live) < StreamCap
      <4>1. live \subseteq registry
        BY DEF LiveOf
      <4>2. IsFiniteSet(live) /\ Cardinality(live) \in Nat
        BY <1>2, <4>1, RegistryFinite, FS_Subset, FS_CardinalityType
      <4>3. ~(Cardinality(live) >= StreamCap)
        BY <1>5
      <4>4. QED
        BY <1>2, <4>2, <4>3
    <3>2. IsFiniteSet(stay) /\ Cardinality(stay) \in Nat /\ Cardinality(stay) <= StreamCap - 1
      BY <1>2, EvictionMakesRoom, FS_CardinalityType
    <3>3. /\ IsFiniteSet(live \cup {s}) /\ Cardinality(live \cup {s}) <= Cardinality(live) + 1
          /\ Cardinality(live \cup {s}) \in Nat
      <4>1. IsFiniteSet(live \cup {s}) /\ Cardinality(live \cup {s}) =
               IF s \in live THEN Cardinality(live) ELSE Cardinality(live) + 1
        BY <3>1, FS_AddElement
      <4>2. QED
        BY <3>1, <4>1, FS_CardinalityType
    <3>4. LiveBy(p)' \subseteq live \cup {s}
      BY <1>3, <2>1 DEF LiveBy, LiveOf
    <3>5. AllBy(p)' \subseteq (live \cup {s}) \cup stay
      BY <1>3, <2>1 DEF AllBy, LiveOf
    <3> HIDE DEF live, stay, s
    <3>6. /\ IsFiniteSet((live \cup {s}) \cup stay)
          /\ Cardinality((live \cup {s}) \cup stay) <= Cardinality(live) + 1 + Cardinality(stay)
      <4>1. /\ IsFiniteSet((live \cup {s}) \cup stay)
            /\ Cardinality((live \cup {s}) \cup stay)
                 = Cardinality(live \cup {s}) + Cardinality(stay) - Cardinality((live \cup {s}) \cap stay)
        BY <3>2, <3>3, FS_Union
      <4>2. Cardinality((live \cup {s}) \cap stay) \in Nat
        BY <3>3, FS_Intersection, FS_CardinalityType
      <4>3. QED
        BY <3>1, <3>2, <3>3, <4>1, <4>2
    <3>7. Cardinality((live \cup {s}) \cup stay) <= 2 * StreamCap /\ 2 * StreamCap \in Nat
      <4>1. Cardinality((live \cup {s}) \cup stay) \in Nat
        BY <3>6, FS_CardinalityType
      <4>2. QED
        BY <1>2, <3>1, <3>2, <3>6, <4>1
    <3>8. Cardinality(live \cup {s}) <= StreamCap
      BY <1>2, <3>1, <3>3
    <3>9. QED
      BY <1>2, <3>3, <3>4, <3>5, <3>6, <3>7, <3>8, Subcount
  <2>5. \A t \in Peers : Cardinality(LiveBy(t)') <= StreamCap /\ Cardinality(AllBy(t)') <= 2 * StreamCap
    BY <2>3, <2>4
  <2>6. QED
    BY <2>5 DEF SlotsBounded, LiveBy, AllBy
<1>6. QED
  BY <1>4, <1>5

(* One peer holds at most max_streams_per_peer live slots of the registry, *)
(* and at most as many again, however its streams open, end, idle and are  *)
(* evicted (the two caps of StreamRegistry::open).                         *)
THEOREM SlotsStayBounded == Spec => []SlotsBounded
<1>1. Init => SlotsBounded
  <2> SUFFICES ASSUME Init PROVE SlotsBounded
    OBVIOUS
  <2>1. \A p \in Peers : LiveBy(p) = {} /\ AllBy(p) = {}
    BY DEF Init, LiveBy, AllBy
  <2>2. Cardinality({}) = 0 /\ 0 <= StreamCap /\ 0 <= 2 * StreamCap
    BY FS_EmptySet, StreamAssumption DEF StreamAssumption
  <2>3. QED
    BY <2>1, <2>2 DEF SlotsBounded, LiveBy, AllBy
<1>2. StreamsInv /\ SlotsBounded /\ [Next]_vars => SlotsBounded'
  <2> SUFFICES ASSUME StreamInv, RegistryOrder, SlotsBounded, [Next]_vars
               PROVE  SlotsBounded'
    BY DEF StreamsInv
  <2>1. opened \in Nat
    BY DEF StreamInv, StreamTypes
  <2>2. CASE UNCHANGED vars
    BY <2>1, <2>2, SlotsKeep DEF vars
  <2>3. ASSUME NEW p \in Peers \ Strangers, NEW total \in Declared, Open(p, total)
        PROVE  SlotsBounded'
    BY <2>3, OpenSlots
  <2>4. CASE \E c \in 1..Len(calls) : Handler(c)
    BY <2>4, HandlerSlots
  <2>5. CASE OtherStep
    BY <2>5, ReaderSlots
  <2>6. CASE Vanish
    <3>1. registry' = {}
      BY <2>6 DEF Vanish
    <3>2. QED
      BY <2>1, <3>1, SlotsKeep
  <2>7. QED
    BY <2>2, <2>3, <2>4, <2>5, <2>6, NextSplits
<1>3. QED
  BY <1>1, <1>2, StreamInvariant, PTL DEF Spec
=============================================================================
