----------------------------- MODULE Reconfigure -----------------------------
(***************************************************************************)
(* Configuration changes of one loaded module (module/reconfigure.rs):     *)
(* callers that want the module with a configuration of theirs, for one    *)
(* proxy or for as long as they hold the guard, the remote operation that  *)
(* changes it, which nobody can call back once it is sent, and what the    *)
(* coordinator believes the module to hold.                                *)
(*                                                                         *)
(* The module is configured through this coordinator only.                 *)
(***************************************************************************)
EXTENDS Naturals, Sequences, SequencesExt

CONSTANTS
    Callers,      \* tasks that use the module
    Configs,      \* configurations they ask for
    Strategies,   \* "lifecycle", "member": how a change is delivered
    RetryAttempts,\* total tries of one change
    MaxCalls      \* proxies asked for by one task

Unknown == "unknown"

ASSUME ReconfigureAssumption ==
    /\ Unknown \notin Callers /\ Unknown \notin Configs
    /\ Strategies \subseteq {"lifecycle", "member"}
    /\ RetryAttempts \in Nat \ {0} /\ MaxCalls \in Nat

VARIABLES
    strategy,
    loadedIn,    \* whether ensure_loaded has loaded the module
    fingerprint, \* what the coordinator believes the module holds, or Unknown
    uncertain,   \* member_uncertain
    held,        \* what the module holds
    sent,        \* calls the module has not handled: [by, config]
    running,     \* configurations of callbacks and handlers still at work
                 \* for nobody
    admits,      \* who waits for the transition lock, in order
    admitted,    \* who holds it: at most one
    caller       \* task -> where it is

configVars == <<strategy, loadedIn, fingerprint, uncertain, held, sent, running, admits,
                admitted, caller>>

Away == [pc |-> "idle", guard |-> FALSE, config |-> Unknown, attempt |-> 0, calls |-> 0]

ConfigInit ==
    /\ strategy \in Strategies
    /\ loadedIn = FALSE
    /\ fingerprint = Unknown
    /\ uncertain = FALSE
    /\ held = Unknown
    /\ sent = <<>>
    /\ running = <<>>
    /\ admits = <<>>
    /\ admitted = {}
    /\ caller = [t \in Callers |-> Away]

At(t, pc) == caller' = [caller EXCEPT ![t].pc = pc]

\* proxy, or exclusive and then its proxy.
Wants(t) ==
    /\ caller[t].pc = "idle" /\ caller[t].calls < MaxCalls
    /\ \E g \in BOOLEAN, c \in Configs :
        caller' = [caller EXCEPT ![t] = [pc |-> "waiting", guard |-> g, config |-> c,
                                         attempt |-> 0, calls |-> @.calls + 1]]
    /\ admits' = Append(admits, t)
    /\ UNCHANGED <<strategy, loadedIn, fingerprint, uncertain, held, sent, running, admitted>>

\* A plain proxy's lock is dropped with its result, a guard is kept.
Gives(t, pc) ==
    IF caller[t].guard THEN At(t, pc) /\ UNCHANGED admitted
                       ELSE At(t, "idle") /\ admitted' = admitted \ {t}

Fenced_Never(t) ==
    /\ At(t, "loading") /\ UNCHANGED admitted

\* proxy_locked up to its first await: the fence, the registry, the gate.
Fenced(t) ==
    \/ ~uncertain /\ At(t, "loading") /\ UNCHANGED admitted
    \/ Gives(t, "guarding")

Admit(t) ==
    /\ admits # <<>> /\ Head(admits) = t /\ admitted = {} /\ caller[t].pc = "waiting"
    /\ admits' = Tail(admits)
    /\ admitted' = {t}
    /\ At(t, "admitted")
    /\ UNCHANGED <<strategy, loadedIn, fingerprint, uncertain, held, sent, running>>

Enters(t) ==
    /\ caller[t].pc = "admitted"
    /\ Fenced(t)
    /\ UNCHANGED <<strategy, loadedIn, fingerprint, uncertain, held, sent, running, admits>>

\* The guard's holder asks for another proxy.
Again(t) ==
    /\ caller[t].pc \in {"guarding", "using"} /\ caller[t].calls < MaxCalls
    /\ \E c \in Configs :
        caller' = [caller EXCEPT ![t].pc = "admitted", ![t].config = c, ![t].attempt = 0,
                                 ![t].calls = @ + 1]
    /\ UNCHANGED <<strategy, loadedIn, fingerprint, uncertain, held, sent, running, admits,
                   admitted>>

\* ensure_loaded; the host may record what a first load was given.
FirstLoad(t) ==
    /\ caller[t].pc = "loading" /\ ~loadedIn
    /\ loadedIn' = TRUE
    /\ held' \in Configs
    /\ fingerprint' \in {held', Unknown}
    /\ UNCHANGED <<strategy, uncertain, sent, running, admits, admitted, caller>>

LoadFails(t) ==
    /\ caller[t].pc = "loading"
    /\ Gives(t, "guarding")
    /\ UNCHANGED <<strategy, loadedIn, fingerprint, uncertain, held, sent, running, admits>>

\* A change forgets the old fingerprint before it begins.
Compares(t) ==
    /\ caller[t].pc = "loading" /\ loadedIn
    /\ IF fingerprint = caller[t].config
       THEN At(t, "proxy") /\ UNCHANGED fingerprint
       ELSE At(t, "sending") /\ fingerprint' = Unknown
    /\ UNCHANGED <<strategy, loadedIn, uncertain, held, sent, running, admits, admitted>>

\* reinitialize, or the member call after the fence is put up.
Sends(t) ==
    /\ caller[t].pc = "sending"
    /\ sent' = Append(sent, [by |-> t, config |-> caller[t].config])
    /\ uncertain' = (strategy = "member" \/ uncertain)
    /\ caller' = [caller EXCEPT ![t].pc = "calling", ![t].attempt = @ + 1]
    /\ UNCHANGED <<strategy, loadedIn, fingerprint, held, running, admits, admitted>>

\* A member call can fail before it is sent.
SendFails(t) ==
    /\ caller[t].pc = "sending" /\ strategy = "member"
    /\ Gives(t, "guarding")
    /\ UNCHANGED <<strategy, loadedIn, fingerprint, uncertain, held, sent, running, admits>>

\* Nobody waits for the call any more; its place on the wire stays.
Forget(t) == [n \in DOMAIN sent |-> IF sent[n].by = t THEN [sent[n] EXCEPT !.by = Unknown] ELSE sent[n]]

Succeeds(t) ==
    /\ fingerprint' = caller[t].config
    /\ uncertain' = FALSE
    /\ At(t, "proxy")
    /\ UNCHANGED admitted

\* An answer: only "initializing" is tried again.
Answered(t, outcome) ==
    \/ outcome = "ok" /\ Succeeds(t)
    \/ outcome = "initializing" /\ caller[t].attempt < RetryAttempts
       /\ At(t, "sending") /\ UNCHANGED <<fingerprint, uncertain, admitted>>
    \/ (outcome = "failed" \/ (outcome = "initializing" /\ caller[t].attempt = RetryAttempts))
       /\ Gives(t, "guarding") /\ UNCHANGED <<fingerprint, uncertain>>

\* The broker handles the calls of one connection in order and refuses one
\* while a callback of the module is still at work; members of the module
\* run side by side.
InTurn == IF strategy = "lifecycle" THEN {n \in DOMAIN sent : n = 1} ELSE DOMAIN sent

Answers(n, outcome) ==
    /\ sent' = RemoveAt(sent, n)
    /\ IF sent[n].by = Unknown THEN UNCHANGED <<fingerprint, uncertain, admitted, caller>>
                               ELSE Answered(sent[n].by, outcome)

Refuses ==
    /\ \E n \in InTurn : \E outcome \in {"initializing", "failed"} : Answers(n, outcome)
    /\ UNCHANGED <<strategy, loadedIn, held, running, admits>>

\* It applies the configuration, or fails on the way and may have.
Handles ==
    /\ strategy = "lifecycle" => running = <<>>
    /\ \E n \in InTurn :
        \/ held' = sent[n].config /\ Answers(n, "ok")
        \/ held' \in {held, sent[n].config, Unknown} /\ Answers(n, "failed")
    /\ UNCHANGED <<strategy, loadedIn, running, admits>>

\* The host's deadline for a callback passes while the callback runs on.
Overruns ==
    /\ strategy = "lifecycle" /\ running = <<>> /\ sent # <<>>
    /\ running' = <<sent[1].config>>
    /\ Answers(1, "failed")
    /\ UNCHANGED <<strategy, loadedIn, held, admits>>

Late ==
    /\ running # <<>>
    /\ held' \in {held, Head(running), Unknown}
    /\ running' = <<>>
    /\ UNCHANGED <<strategy, loadedIn, fingerprint, uncertain, sent, admits, admitted, caller>>

\* The deadline of the call: the caller is told that it failed.
CallTimesOut(t) ==
    /\ caller[t].pc = "calling"
    /\ sent' = Forget(t)
    /\ Gives(t, "guarding")
    /\ UNCHANGED <<strategy, loadedIn, fingerprint, uncertain, held, running, admits>>

\* access.proxy: with a guard the caller goes on under it.
Obtains(t) ==
    /\ caller[t].pc = "proxy"
    /\ Gives(t, "using") \/ Gives(t, "guarding")
    /\ UNCHANGED <<strategy, loadedIn, fingerprint, uncertain, held, sent, running, admits>>

Releases(t) ==
    /\ caller[t].pc \in {"guarding", "using"}
    /\ At(t, "idle") /\ admitted' = admitted \ {t}
    /\ UNCHANGED <<strategy, loadedIn, fingerprint, uncertain, held, sent, running, admits>>

Abandons(t) ==
    /\ caller[t].pc # "idle"
    /\ admits' = Remove(admits, t)
    /\ At(t, "idle") /\ admitted' = admitted \ {t}
    /\ sent' = Forget(t)
    /\ UNCHANGED <<strategy, loadedIn, fingerprint, uncertain, held, running>>

\* invalidate, by the host at any time.
Invalidates ==
    /\ fingerprint' = Unknown
    /\ UNCHANGED <<strategy, loadedIn, uncertain, held, sent, running, admits, admitted, caller>>

ConfigNext ==
    \/ Refuses \/ Handles \/ Overruns \/ Late \/ Invalidates
    \/ \E t \in Callers :
        \/ Wants(t) \/ Admit(t) \/ Enters(t) \/ Again(t) \/ FirstLoad(t) \/ LoadFails(t)
        \/ Compares(t) \/ Sends(t) \/ SendFails(t) \/ CallTimesOut(t) \/ Obtains(t)
        \/ Releases(t) \/ Abandons(t)

ConfigSpec == ConfigInit /\ [][ConfigNext]_configVars

-----------------------------------------------------------------------------
(* Properties.                                                             *)

(* What the coordinator believes is so, and stays so while a guard is used: *)
(* no change that failed, timed out or was abandoned earlier takes effect   *)
(* under a caller that was given the module with its configuration          *)
(* (proxy_locked, member_reconfigure).                                      *)
ConfigurationHeld ==
    /\ fingerprint # Unknown => held = fingerprint
    /\ \A t \in Callers : caller[t].pc = "using" => held = caller[t].config
=============================================================================
