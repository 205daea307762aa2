----------------------------- MODULE ServiceSlot -----------------------------
(***************************************************************************)
(* One keyed service of a process and its lifecycle                        *)
(* (module/service_slot.rs): operations that open or reuse it, closes in   *)
(* two forms, the shutdown hook, and callers that are cancelled anywhere.  *)
(* The slot's lock is a tokio mutex: it is granted in the order of asking. *)
(***************************************************************************)
EXTENDS Naturals, Sequences, SequencesExt

CONSTANTS
    Users,        \* tasks that use the slot
    SlotKeys,     \* keys of a service
    MaxServices,  \* services opened in all
    MaxUses       \* uses of the slot by one task

NoKey == "no key"

ASSUME SlotAssumption == MaxServices \in Nat /\ MaxUses \in Nat

NoEntry == [key |-> NoKey, id |-> 0]

VARIABLES
    installed,  \* the slot's entry
    services,   \* the services opened: how often their stored closer was
                \* called, whether one runs, and whether they were retired
    turn,       \* tasks that wait for the lock, in order
    holds,      \* the tasks that hold the lock: at most one
    user,       \* task -> where it is and what it asks for
    shutdown    \* "off", or the hook is "registered" or "running"

slotVars == <<installed, services, turn, holds, user, shutdown>>

Uses == [kind : {"with"}, key : SlotKeys] \cup [kind : {"close", "try", "hook"}, key : {NoKey}]

Resting == [pc |-> "idle", use |-> [kind |-> "close", key |-> NoKey], id |-> 0, uses |-> 0]

SlotInit ==
    /\ installed = NoEntry
    /\ services = <<>>
    /\ turn = <<>>
    /\ holds = {}
    /\ user = [t \in Users |-> Resting]
    /\ shutdown = "off"

Goes(t, pc, id) == user' = [user EXCEPT ![t].pc = pc, ![t].id = id]

Reset(t) == shutdown' = IF user[t].use.kind = "hook" THEN "off" ELSE shutdown

\* The call of t is over: its lock and its ShutdownRegistrationReset are dropped.
Ends(t) ==
    /\ holds' = holds \ {t}
    /\ Goes(t, "idle", 0)
    /\ Reset(t)

\* with, close, try_close_with, or the future of a registered hook is polled.
Asks(t) ==
    /\ user[t].pc = "idle" /\ user[t].uses < MaxUses
    /\ \E u \in Uses :
        /\ IF u.kind = "hook" THEN shutdown = "registered" /\ shutdown' = "running"
                              ELSE UNCHANGED shutdown
        /\ user' = [user EXCEPT ![t] = [pc |-> "waiting", use |-> u, id |-> 0, uses |-> @.uses + 1]]
    /\ turn' = Append(turn, t)
    /\ UNCHANGED <<installed, services, holds>>

\* on_shutdown.
OnShutdown ==
    /\ shutdown = "off"
    /\ shutdown' = "registered"
    /\ UNCHANGED <<installed, services, turn, holds, user>>

\* The entry is taken out and its stored closer is called.
Takes ==
    /\ installed' = NoEntry
    /\ services' = [services EXCEPT ![installed.id].closers = @ + 1,
                                    ![installed.id].closing = TRUE]

Granted(t) == turn # <<>> /\ Head(turn) = t /\ holds = {} /\ turn' = Tail(turn)

\* Each enters with the lock granted, and does what comes before its first
\* await.
EnterWith(t) ==
    /\ user[t].use.kind = "with" /\ Granted(t)
    /\ holds' = {t}
    /\ IF installed = NoEntry
       THEN Goes(t, "opening", 0) /\ UNCHANGED <<installed, services>>
       ELSE IF installed.key = user[t].use.key
       THEN Goes(t, "operating", installed.id) /\ UNCHANGED <<installed, services>>
       ELSE Goes(t, "replacing", installed.id) /\ Takes
    /\ UNCHANGED shutdown

EnterEmpty(t) ==
    /\ user[t].use.kind # "with" /\ installed = NoEntry /\ Granted(t)
    /\ Ends(t)
    /\ UNCHANGED <<installed, services>>

EnterClose(t) ==
    /\ user[t].use.kind \in {"close", "hook"} /\ installed # NoEntry /\ Granted(t)
    /\ holds' = {t}
    /\ Goes(t, "closing", installed.id) /\ Takes
    /\ UNCHANGED shutdown

EnterTry(t) ==
    /\ user[t].use.kind = "try" /\ installed # NoEntry /\ Granted(t)
    /\ holds' = {t}
    /\ Goes(t, "trying", installed.id)
    /\ UNCHANGED <<installed, services, shutdown>>

Stops(id) == services' = [services EXCEPT ![id].closing = FALSE]

\* The old service's closer returned; its error is discarded.
Replaces(t) ==
    /\ user[t].pc = "replacing"
    /\ Stops(user[t].id) /\ Goes(t, "opening", 0)
    /\ UNCHANGED <<installed, turn, holds, shutdown>>

Opens(t) ==
    /\ user[t].pc = "opening" /\ Len(services) < MaxServices
    /\ services' = Append(services, [closers |-> 0, closing |-> FALSE, retired |-> FALSE])
    /\ installed' = [key |-> user[t].use.key, id |-> Len(services) + 1]
    /\ Goes(t, "operating", Len(services) + 1)
    /\ UNCHANGED <<turn, holds, shutdown>>

OpenFails(t) ==
    /\ user[t].pc = "opening"
    /\ Ends(t)
    /\ UNCHANGED <<installed, services, turn>>

\* The operation, or the explicit close with an error, returned.
Returns(t) ==
    /\ user[t].pc \in {"operating", "trying"}
    /\ Ends(t)
    /\ UNCHANGED <<installed, services, turn>>

Closed(t) ==
    /\ user[t].pc = "closing"
    /\ Stops(user[t].id) /\ Ends(t)
    /\ UNCHANGED <<installed, turn>>

Retires(t) ==
    /\ user[t].pc = "trying"
    /\ services' = [services EXCEPT ![user[t].id].retired = TRUE]
    /\ installed' = NoEntry
    /\ Ends(t)
    /\ UNCHANGED turn

Cancels_Silently(t) ==
    /\ user[t].pc # "idle"
    /\ IF user[t].pc \in {"replacing", "closing"} THEN Stops(user[t].id) ELSE UNCHANGED services
    /\ turn' = SelectSeq(turn, LAMBDA o : o # t)
    /\ IF user[t].pc = "trying" THEN installed' = NoEntry ELSE UNCHANGED installed
    /\ Ends(t)

\* The caller drops its future: a closer that runs is dropped with it.
Cancels(t) ==
    /\ user[t].pc # "idle"
    /\ IF user[t].pc \in {"replacing", "closing"} THEN Stops(user[t].id) ELSE UNCHANGED services
    /\ turn' = SelectSeq(turn, LAMBDA o : o # t)
    /\ Ends(t)
    /\ UNCHANGED installed

SlotStep(t) ==
    \/ EnterWith(t) \/ EnterEmpty(t) \/ EnterClose(t) \/ EnterTry(t)
    \/ Replaces(t) \/ OpenFails(t) \/ Returns(t) \/ Closed(t)

SlotNext ==
    \/ OnShutdown
    \/ \E t \in Users : Asks(t) \/ SlotStep(t) \/ Opens(t) \/ Retires(t) \/ Cancels(t)

SlotSpec == SlotInit /\ [][SlotNext]_slotVars

-----------------------------------------------------------------------------
(* Properties.                                                             *)

(* No service is lost or closed twice, whoever is cancelled: each one that *)
(* was opened is the slot's entry, or its stored closer was called, once,  *)
(* or an explicit close of it was acknowledged (with, close,               *)
(* try_close_with).                                                        *)
ServicesDisposed ==
    \A s \in DOMAIN services :
        IF installed.id = s THEN services[s].closers = 0 /\ ~services[s].retired
        ELSE services[s].closers = 1 <=> ~services[s].retired

(* An operation, or an explicit close, works on the installed service, of  *)
(* the key it asked for, and while it does, or a replacement is opened, no *)
(* closer of an earlier service is still running.                          *)
ServiceAlone ==
    \A t \in Users :
        /\ user[t].pc \in {"operating", "trying"} =>
               /\ installed.id = user[t].id
               /\ user[t].use.kind = "with" => installed.key = user[t].use.key
        /\ user[t].pc \in {"operating", "trying", "opening"} =>
               \A s \in DOMAIN services : ~services[s].closing

(* A service is the slot's from its opening to its one disposal, and works *)
(* alone.                                                                  *)
ServicesKept == ServicesDisposed /\ ServiceAlone
=============================================================================
