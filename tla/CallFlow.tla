------------------------------ MODULE CallFlow ------------------------------
(***************************************************************************)
(* Calls and replies end to end: every connection's outbox, transport and  *)
(* dispatch loop (connection.rs, transport/memory.rs) composed with the    *)
(* broker's reader task, queue and writer task for that peer (broker.rs),  *)
(* all of them bounded, and every step waiting for room in the next.       *)
(*                                                                         *)
(* Routing is settled elsewhere (Broker): here a message knows its peer,   *)
(* and what matters is who waits for whom.  A wedged peer has stopped      *)
(* reading its transport without hanging up.  The writers on both sides    *)
(* only move frames from a bounded queue to a bounded transport, so the    *)
(* two are one bounded queue: outbound is an outbox and the transport to   *)
(* the broker, inbound a peer queue and the transport from the broker.     *)
(***************************************************************************)
EXTENDS Naturals, Sequences

CONSTANTS
    Peers,
    Wedged,          \* the peers that do not read
    Topologies,      \* who may call whom: sets of pairs <<caller, callee>>
    Cap,             \* capacity of every queue on the way
    MaxCalls,        \* calls ever made by each pair
    Patient,         \* peers whose deadlines lie beyond the run
    None

ASSUME FlowAssumption ==
    /\ Wedged \subseteq Peers /\ Patient \subseteq Peers
    /\ Topologies \subseteq SUBSET (Peers \X Peers)
    /\ Cap \in Nat \ {0} /\ MaxCalls \in Nat

VARIABLES
    calls,           \* pair -> where each of its calls is, in order
    outbound,        \* peer -> messages between its senders and its reader task
    held,            \* peer -> the message its reader task is delivering
    inbound,         \* peer -> messages between readers and its dispatch loop
    replies,         \* replies that handlers are waiting to enqueue
    replied          \* calls whose reply reached the caller's dispatch loop

Calling == DOMAIN calls

vars == <<calls, outbound, held, inbound, replies, replied>>

(* Call number k of a pair, and its reply. *)
Call(c, k) == [reply |-> FALSE, pair |-> c, k |-> k, from |-> c[1], to |-> c[2]]

Reply(c, k) == [reply |-> TRUE, pair |-> c, k |-> k, from |-> c[2], to |-> c[1]]

Init ==
    /\ \E calling \in Topologies : calls = [c \in calling |-> <<>>]
    /\ outbound = [p \in Peers |-> <<>>]
    /\ held = [p \in Peers |-> None]
    /\ inbound = [p \in Peers |-> <<>>]
    /\ replies = {}
    /\ replied = {}

Room(q) == Len(q) < Cap

Push(q, p, m) == [q EXCEPT ![p] = Append(@, m)]

Pop(q, p) == [q EXCEPT ![p] = Tail(@)]

-----------------------------------------------------------------------------
(* The caller's connection *)

Issued(c, k) == c \in Calling /\ k \in DOMAIN calls[c]

Issue(c) ==
    /\ Len(calls[c]) < MaxCalls
    /\ calls' = [calls EXCEPT ![c] = Append(@, "enqueue")]
    /\ UNCHANGED <<outbound, held, inbound, replies, replied>>

(* `enqueue`, outside the call's deadline.  The channel wakes its waiting
   senders first come, first served. *)
Enqueue(c, k) ==
    /\ calls[c][k] = "enqueue"
    /\ \A j \in 1..(k - 1) : calls[c][j] # "enqueue"
    /\ Room(outbound[c[1]])
    /\ outbound' = Push(outbound, c[1], Call(c, k))
    /\ calls' = [calls EXCEPT ![c][k] = "await"]
    /\ UNCHANGED <<held, inbound, replies, replied>>

(* The deadline of a call that waits for its reply. *)
Expire(c, k) ==
    /\ calls[c][k] = "await"
    /\ c[1] \notin Patient
    /\ calls' = [calls EXCEPT ![c][k] = "expired"]
    /\ UNCHANGED <<outbound, held, inbound, replies, replied>>

(* Mutant: the dispatch loop answers a call before it reads on. *)
Dispatch_Inline(p) ==
    /\ p \notin Wedged /\ inbound[p] # <<>>
    /\ inbound' = Pop(inbound, p)
    /\ LET m == Head(inbound[p])
       IN  IF m.reply
           THEN /\ replied' = replied \cup {<<m.pair, m.k>>}
                /\ calls' = IF calls[m.pair][m.k] = "await"
                            THEN [calls EXCEPT ![m.pair][m.k] = "answered"] ELSE calls
                /\ UNCHANGED outbound
           ELSE /\ Room(outbound[p])
                /\ outbound' = Push(outbound, p, Reply(m.pair, m.k))
                /\ UNCHANGED <<calls, replied>>
    /\ UNCHANGED <<held, replies>>

(* `dispatch_loop`: a reply wakes its caller or comes too late, a call is
   handed to a task of its own. *)
Dispatch(p) ==
    /\ p \notin Wedged /\ inbound[p] # <<>>
    /\ inbound' = Pop(inbound, p)
    /\ LET m == Head(inbound[p])
       IN  IF m.reply
           THEN /\ replied' = replied \cup {<<m.pair, m.k>>}
                /\ calls' = IF calls[m.pair][m.k] = "await"
                            THEN [calls EXCEPT ![m.pair][m.k] = "answered"] ELSE calls
                /\ UNCHANGED replies
           ELSE /\ replies' = replies \cup {Reply(m.pair, m.k)}
                /\ UNCHANGED <<calls, replied>>
    /\ UNCHANGED <<outbound, held>>

(* `send_reply`, by the handler's task. *)
SendReply(r) ==
    /\ Room(outbound[r.from])
    /\ outbound' = Push(outbound, r.from, r)
    /\ replies' = replies \ {r}
    /\ UNCHANGED <<calls, held, inbound, replied>>

-----------------------------------------------------------------------------
(* The broker's tasks for peer p *)

ReaderRecv(p) ==
    /\ held[p] = None /\ outbound[p] # <<>>
    /\ held' = [held EXCEPT ![p] = Head(outbound[p])]
    /\ outbound' = Pop(outbound, p)
    /\ UNCHANGED <<calls, inbound, replies, replied>>

(* `target.send(message).await`: the reader waits for the target's queue. *)
ReaderSend(p) ==
    /\ held[p] # None
    /\ Room(inbound[held[p].to])
    /\ inbound' = Push(inbound, held[p].to, held[p])
    /\ held' = [held EXCEPT ![p] = None]
    /\ UNCHANGED <<calls, outbound, replies, replied>>

-----------------------------------------------------------------------------
PeerStep(p) ==
    Dispatch(p) \/ ReaderRecv(p) \/ ReaderSend(p)

Next ==
    \/ \E c \in Calling :
         \/ Issue(c)
         \/ \E k \in DOMAIN calls[c] : Enqueue(c, k) \/ Expire(c, k)
    \/ \E r \in replies : SendReply(r)
    \/ \E p \in Peers : PeerStep(p)

Spec == Init /\ [][Next]_vars

(* Every task runs when it can, every timer fires; only a wedged peer does
   not read (Dispatch is not enabled for it). *)
Fairness ==
    /\ \A p \in Peers : /\ WF_vars(Dispatch(p))
                        /\ WF_vars(ReaderRecv(p))
                        /\ WF_vars(ReaderSend(p))
    /\ \A c \in UNION Topologies, k \in 1..MaxCalls :
         /\ WF_vars(Issued(c, k) /\ Enqueue(c, k))
         /\ WF_vars(Issued(c, k) /\ Expire(c, k))
         /\ WF_vars(Reply(c, k) \in replies /\ SendReply(Reply(c, k)))

FairSpec == Spec /\ Fairness

-----------------------------------------------------------------------------
(* Properties *)

(* A peer that neither is wedged nor talks to a wedged one. *)
Unconcerned(p) ==
    \A q \in Wedged : p # q /\ <<p, q>> \notin Calling /\ <<q, p>> \notin Calling

(* Nobody waits in a circle, and a wedged peer holds up only those who talk
   to it: the reply to every call between others gets back, also when all
   the queues of two peers calling each other are full, because no dispatch
   loop waits for room. *)
EveryCallReplied ==
    \A c \in UNION Topologies, k \in 1..MaxCalls :
        Issued(c, k) /\ Unconcerned(c[1]) /\ Unconcerned(c[2])
            ~> <<c, k>> \in replied

(* What the documentation promises: every call has a deadline, so a wedged
   peer frees its callers in the end. *)
EveryCallReturns ==
    \A c \in UNION Topologies, k \in 1..MaxCalls :
        Issued(c, k) ~> Issued(c, k) /\ calls[c][k] \in {"answered", "expired"}
=============================================================================
