---------------------------- MODULE MCConnection ----------------------------
(* An instance of the connection: what is sent and what may come back. *)
EXTENDS Connection

CONSTANTS n1

Do(destination) == MethodCall(destination, <<>>, "App", "Do", None)

Bus(member) == MethodCall(BUS, <<>>, BUS, member, None)

(* Calls by alias, pinned and secret ones; a subscription. *)
MCOutgoing ==
    {Bus("Hello"), Bus("AddMatch"), Do(n1),
     [Do(n1) EXCEPT !.member = "DoPinned", !.expected_responder = Unique(2)],
     [Do(Unique(2)) EXCEPT !.confidential = TRUE],
     [Do(Unique(2)) EXCEPT !.confidential = TRUE, !.body = "stream_ref"]}

(* A peer calls a method of this one, for a reply or for a streamed one. *)
MCInbound ==
    {[Do(Unique(1)) EXCEPT !.serial = 1, !.sender = Unique(2), !.stream_reply = streamed] :
        streamed \in BOOLEAN}

MCPublished == {Signal(<<>>, "App", "Now", None)}

(* Answers from the owner, from another peer, from the bus and unstamped
   ones. *)
MCAnswers ==
    {Answer("method_return", None, FALSE, TRUE, Unique(2)),
     Answer("method_return", None, FALSE, TRUE, Unique(3)),
     Answer("method_return", None, FALSE, FALSE, None),
     Answer("method_return", Unique(2), TRUE, TRUE, None),
     Answer("method_return", Unique(3), TRUE, TRUE, None),
     Answer("error", BUS, FALSE, TRUE, None)}
=============================================================================
