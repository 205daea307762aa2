------------------------------ MODULE MCBroker ------------------------------
(* Instances of the broker: what the peers send in each run. *)
EXTENDS Broker

CONSTANTS n1, m1

Bus(member, body) == MethodCall(BUS, <<>>, BUS, member, body)

App(destination) == MethodCall(destination, <<>>, "App", "Do", None)

Event == Signal(<<"mail">>, "App", "Did", None)

(* Every announcement of the bus, and an interface. *)
NameRules == {[EmptyRule EXCEPT !["sender"] = BUS],
              [EmptyRule EXCEPT !["interface"] = "App"]}

(* Owners of a name, subscribers, of which one kind unsubscribes again, and
   signals for everybody and for one peer. *)
NameInputs ==
    {Bus("RequestName", n1), Bus("ReleaseName", n1), Event,
     SignalTo(Unique(1), <<>>, "App", "Did", None),
     Bus("RemoveMatch", [EmptyRule EXCEPT !["interface"] = "App"])}
    \cup {Bus("AddMatch", r) : r \in NameRules}

(* Calls by name, calls pinned to a captured owner, and replies, while the
   name is claimed and its owners announce themselves and die. *)
CallInputs ==
    {App(n1), [App(n1) EXCEPT !.expected_responder = Unique(2)],
     Bus("RequestName", n1), Bus("Announce", m1),
     [BlankHeader EXCEPT !.type = "method_return", !.reply_serial = 1,
                         !.destination = Unique(1)]}

(* A module that claims a name, a callback connection and an
   ordinary caller, while the host stages, binds and detaches them. *)
Secret(destination) == ConfidentialCall(destination, <<>>, "App", "Do", None)

TrustInputs ==
    {Secret(n1), Secret(Unique(2)), Bus("RequestName", n1),
     DirectedSignal(Unique(1), <<>>, "App", "Did", None)}
=============================================================================
