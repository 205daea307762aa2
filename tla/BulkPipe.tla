------------------------------ MODULE BulkPipe ------------------------------
(***************************************************************************)
(* What a bulk stream promises: a pipe per stream whose reader gets a      *)
(* prefix of what was accepted, whose verdict is given once and never      *)
(* revised, and whose clean end comes after a complete verdict only, with  *)
(* nothing accepted before it left unread.                                 *)
(***************************************************************************)
EXTENDS Naturals

CONSTANTS Ids

VARIABLES accepted,   \* id -> chunks the receiver counted
          ended,      \* id -> "none", "complete" or "aborted"
          read,       \* id -> chunks the reader returned
          end         \* id -> where the reader is

vars == <<accepted, ended, read, end>>

Init ==
    /\ accepted = [s \in Ids |-> 0]
    /\ ended = [s \in Ids |-> "none"]
    /\ read = [s \in Ids |-> 0]
    /\ end = [s \in Ids |-> "unclaimed"]

\* A chunk is counted; never once the reader has seen a clean end.
Accept(s) ==
    /\ end[s] # "clean"
    /\ accepted' = [accepted EXCEPT ![s] = @ + 1]
    /\ UNCHANGED <<ended, read, end>>

\* Verdicts, and readers the receiver drops with them: several streams may be
\* ended by the Open that reaps them.
Conclude ==
    /\ \A s \in Ids :
        /\ ended[s] # "none" => ended'[s] = ended[s]
        /\ end'[s] # end[s] => end[s] = "unclaimed" /\ end'[s] = "dropped"
    /\ UNCHANGED <<accepted, read>>

Claim(s) ==
    /\ end[s] = "unclaimed"
    /\ end' = [end EXCEPT ![s] = "reading"]
    /\ UNCHANGED <<accepted, ended, read>>

Read(s) ==
    /\ end[s] = "reading"
    /\ read[s] < accepted[s]
    /\ read' = [read EXCEPT ![s] = @ + 1]
    /\ UNCHANGED <<accepted, ended, end>>

\* The clean end: a complete verdict and nothing left to read.
CleanEnd(s) ==
    /\ end[s] = "reading"
    /\ ended[s] = "complete"
    /\ read[s] = accepted[s]
    /\ end' = [end EXCEPT ![s] = "clean"]
    /\ UNCHANGED <<accepted, ended, read>>

\* The reader is dropped, or is told that the stream did not complete.
GiveUp(s) ==
    /\ end[s] = "reading"
    /\ \E how \in {"dropped", "broken"} :
        /\ how = "broken" => ended[s] # "complete"
        /\ end' = [end EXCEPT ![s] = how]
    /\ UNCHANGED <<accepted, ended, read>>

Next ==
    \/ Conclude
    \/ \E s \in Ids : Accept(s) \/ Claim(s) \/ Read(s) \/ CleanEnd(s) \/ GiveUp(s)

Spec == Init /\ [][Next]_vars
=============================================================================
