----------------------------- MODULE MatchRule -----------------------------
(***************************************************************************)
(* Subscription filters: router.rs `MatchRule`, its wire form              *)
(* (connection.rs `rule_to_wire`, router.rs `parse`) and the path prefix   *)
(* test they rest on (name.rs `ObjectPath::starts_with`).                  *)
(*                                                                         *)
(* A rule is a record with one field per key; an unset field is None.      *)
(* A header is a record with the same keys minus path_namespace.  An       *)
(* object path is the sequence of its segments, so "/" is <<>>.  The wire  *)
(* form is a sequence of clauses [key, value], the string "k=v,k=v" being  *)
(* its rendering; values are names, and no name grammar admits a comma.    *)
(***************************************************************************)
EXTENDS Naturals, Sequences

CONSTANT None        \* an absent Option: no value of a field equals it

(* The order `rule_to_wire` writes its clauses in. *)
Keys == <<"type", "sender", "interface", "member", "path", "path_namespace">>

KeySet == {Keys[i] : i \in DOMAIN Keys}

(* `MatchRule::new`: every field unset. *)
EmptyRule == [k \in KeySet |-> None]

(* The builder methods: constrain one field, replacing what it was. *)
Constrain(rule, k, v) == [rule EXCEPT ![k] = v]

(* Whether path is other or lives beneath it, compared segment by segment:
   the code's byte at other.len() must be the separator. *)
StartsWith(path, other) ==
    /\ Len(other) <= Len(path)
    /\ SubSeq(path, 1, Len(other)) = other

(* `MatchRule::matches`: every set field must agree with the header. *)
Matches(rule, h) ==
    /\ \A k \in KeySet \ {"path_namespace"} :
         rule[k] # None => h[k] = rule[k]
    /\ rule["path_namespace"] # None =>
         /\ h["path"] # None
         /\ StartsWith(h["path"], rule["path_namespace"])

(* Mutant: a rule with an exact path forgets its namespace. *)
ToWire_OnePath(rule) ==
    LET IsSet(k) == rule[k] # None /\ (k = "path_namespace" => rule["path"] = None)
        keys == SelectSeq(Keys, IsSet)
    IN  [i \in DOMAIN keys |-> [key |-> keys[i], value |-> rule[keys[i]]]]

(* `rule_to_wire`: one clause per set field, in Keys order. *)
ToWire(rule) ==
    LET IsSet(k) == rule[k] # None
        keys == SelectSeq(Keys, IsSet)
    IN  [i \in DOMAIN keys |-> [key |-> keys[i], value |-> rule[keys[i]]]]

(* `MatchRule::parse` of a wire form: an unknown key is an error, and a key
   given twice keeps its last value. *)
ParseError(wire) == \E i \in DOMAIN wire : wire[i].key \notin KeySet

LastIndex(wire, k) ==
    CHOOSE i \in DOMAIN wire :
        wire[i].key = k /\ \A j \in DOMAIN wire : wire[j].key = k => j <= i

Parse(wire) ==
    [k \in KeySet |->
        IF \E i \in DOMAIN wire : wire[i].key = k
        THEN wire[LastIndex(wire, k)].value
        ELSE None]
=============================================================================
