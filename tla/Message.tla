------------------------------ MODULE Message ------------------------------
(***************************************************************************)
(* Bus names and message headers: message/mod.rs `Header`, the             *)
(* constructors of `Message`, `validate`, and name.rs `BusName`.           *)
(*                                                                         *)
(* A header carries the fields match rules look at under the names the     *)
(* rules use ("type" is `kind`), and the body, which is an argument the    *)
(* bus understands or None: payloads are opaque to the router.             *)
(***************************************************************************)
EXTENDS MatchRule

CONSTANTS
    WellKnown,       \* the well-known names peers may ask for
    BUS              \* crate::BUS_NAME, reserved

(* `BusName::unique(id)`: the name minted for connection id. *)
Unique(id) == <<"unique", id>>

Uniques == {"unique"} \X Nat

BusNames == WellKnown \cup {BUS} \cup Uniques

(* `BusName::is_unique`. *)
IsUnique(n) == n \notin WellKnown \cup {BUS}

ASSUME NamesAssumption ==
    /\ BUS \notin WellKnown
    /\ \A n \in WellKnown \cup {BUS} : n \notin Uniques
    /\ None \notin WellKnown \cup {BUS} \cup Uniques

-----------------------------------------------------------------------------
(* Constructors.  serial is 0 until the connection assigns it. *)

BlankHeader ==
    [type |-> "signal", serial |-> 0, reply_serial |-> None, sender |-> None,
     expected_responder |-> None, destination |-> None, path |-> None,
     interface |-> None, member |-> None, error_name |-> None,
     confidential |-> FALSE, sensitive |-> FALSE, stream_reply |-> FALSE,
     body |-> None]

MethodCall(destination, path, interface, member, body) ==
    [BlankHeader EXCEPT
        !.type = "method_call", !.destination = destination, !.path = path,
        !.interface = interface, !.member = member, !.body = body]

ConfidentialCall(destination, path, interface, member, body) ==
    [MethodCall(destination, path, interface, member, body) EXCEPT
        !.confidential = TRUE]

SensitiveControlCall(destination, path, interface, member, body) ==
    [MethodCall(destination, path, interface, member, body) EXCEPT
        !.sensitive = TRUE]

StreamingCall(destination, path, interface, member, body) ==
    [MethodCall(destination, path, interface, member, body) EXCEPT
        !.stream_reply = TRUE]

(* Addressed to the unique name the broker stamped, and as confidential as
   the call was. *)
MethodReturn(call, body) ==
    [BlankHeader EXCEPT
        !.type = "method_return", !.reply_serial = call.serial,
        !.destination = call.sender, !.confidential = call.confidential,
        !.body = body]

(* An error carries no secret, so it does not inherit the flag. *)
ErrorReply(call, error) ==
    [BlankHeader EXCEPT
        !.type = "error", !.reply_serial = call.serial,
        !.destination = call.sender, !.error_name = error]

Signal(path, interface, member, body) ==
    [BlankHeader EXCEPT
        !.path = path, !.interface = interface, !.member = member,
        !.body = body]

SignalTo(destination, path, interface, member, body) ==
    [Signal(path, interface, member, body) EXCEPT !.destination = destination]

DirectedSignal(destination, path, interface, member, body) ==
    [SignalTo(destination, path, interface, member, body) EXCEPT
        !.type = "directed_signal"]

-----------------------------------------------------------------------------
(* `validate`: what the router relies on, checked once on ingress. *)

HasMethodFields(h) == h.path # None /\ h.interface # None /\ h.member # None

Validate(h) ==
    /\ h.stream_reply => h.type = "method_call"
    /\ h.expected_responder # None =>
         h.type = "method_call" /\ IsUnique(h.expected_responder)
    /\ h.confidential \/ h.sensitive =>
         /\ h.type \notin {"signal", "directed_signal"}
         /\ h.destination # None
    /\ h.type = "method_call" => h.destination # None /\ HasMethodFields(h)
    /\ h.type \in {"method_return", "error"} => h.reply_serial # None
    /\ h.type = "signal" =>
         /\ h.interface # None /\ h.member # None
         /\ h.destination # None => IsUnique(h.destination)
    /\ h.type = "directed_signal" =>
         /\ h.destination # None /\ IsUnique(h.destination)
         /\ HasMethodFields(h)
         /\ h.reply_serial = None /\ h.error_name = None
=============================================================================
