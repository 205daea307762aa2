-------------------------- MODULE ModuleHostProofs --------------------------
(***************************************************************************)
(* Theorems about the module host: for any libraries, callers and          *)
(* scenarios, one operation at a time holds a module, a module listed as   *)
(* stopped has stopped, and what was decided stays decided.  All three     *)
(* follow from one inductive invariant, HostInv.                           *)
(***************************************************************************)
EXTENDS ModuleHost, SequenceTheorems, TLAPS

Transports ==
    [init : {"Deferred", "Scheduled", "Entered", "Valid", "Rejected", "CanceledBeforeEntry"},
     started : BOOLEAN, lock : {"free", "worker", "reinit"},
     cleanup : {"Idle", "Requested", "Executing"} \cup Final,
     job : {"none", "init", "cleanup"}, code : BOOLEAN, closed : BOOLEAN,
     faulted : BOOLEAN, initFailed : BOOLEAN, ready : BOOLEAN, stopped : BOOLEAN,
     inbound : BOOLEAN, spawned : BOOLEAN, drained : BOOLEAN]

(* What a transport shows of its end is so: a cleanup that completed, was  *)
(* not required or answered with a code has stopped the module, and its    *)
(* way back closes only when it stopped or faulted.                        *)
Sound(x) ==
    /\ x.cleanup \in {"Complete", "NoCallbackRequired"} \/ x.code => x.stopped
    /\ ~x.inbound => x.stopped \/ x.faulted

(* A transport never takes back a fault, a stop or a closed way back.      *)
Advances(x, y) ==
    /\ x.faulted => y.faulted
    /\ x.initFailed => y.initFailed
    /\ x.stopped => y.stopped
    /\ ~x.inbound => ~y.inbound

Moves(x, y) == y \in Transports /\ Sound(y) /\ Advances(x, y)

(* What each transport operation leaves is sound and takes nothing back.   *)
LEMMA CommitMoves ==
    ASSUME NEW x \in Transports, Sound(x), NEW fault \in BOOLEAN
    PROVE  /\ Moves(x, CommitTerminal(x, fault))
           /\ CommitTerminal(x, fault).faulted = (x.faulted \/ fault)
<1> DEFINE b == x.faulted \/ fault
           y == [x EXCEPT !.faulted = b, !.closed = TRUE]
<1>1. b \in BOOLEAN /\ (x.faulted => b)
  BY DEF Transports
<1> HIDE DEF b
<1>2. /\ y \in Transports /\ y.faulted = b /\ y.cleanup = x.cleanup /\ y.code = x.code
      /\ y.stopped = x.stopped /\ y.inbound = x.inbound /\ y.initFailed = x.initFailed
  BY <1>1 DEF Transports
<1>3. CommitTerminal(x, fault) = y
  BY DEF CommitTerminal, b
<1> HIDE DEF y
<1>4. Moves(x, y)
  BY <1>1, <1>2 DEF Moves, Sound, Advances
<1>5. QED
  BY <1>2, <1>3, <1>4 DEF b

(* The cleanup request of a stop or a fault.                               *)
LEMMA RequestedMoves ==
    ASSUME NEW x \in Transports, Sound(x)
    PROVE  Moves(x, Requested(x))
BY DEF Transports, Sound, Moves, Advances, Requested, Final

(* What the end of a stop changes.                                         *)
LEMMA FinishFields ==
    ASSUME NEW x \in Transports
    PROVE  /\ FinishStop(x) \in Transports /\ FinishStop(x).stopped
           /\ FinishStop(x).faulted = x.faulted /\ FinishStop(x).initFailed = x.initFailed
           /\ ~FinishStop(x).inbound
BY DEF FinishStop, Transports

(* The end of a stop.                                                      *)
LEMMA FinishMoves ==
    ASSUME NEW x \in Transports, Sound(x)
    PROVE  Moves(x, FinishStop(x)) /\ FinishStop(x).stopped
<1>1. /\ FinishStop(x) \in Transports /\ FinishStop(x).stopped
      /\ FinishStop(x).faulted = x.faulted /\ FinishStop(x).initFailed = x.initFailed
      /\ ~FinishStop(x).inbound
  BY FinishFields
<1>2. QED
  BY <1>1 DEF Moves, Sound, Advances

(* A stop of a module whose initialiser never ran.                         *)
LEMMA CanceledMoves ==
    ASSUME NEW x \in Transports, Sound(x)
    PROVE  /\ Moves(x, Canceled(x)) /\ Canceled(x).stopped
           /\ Canceled(x).faulted = x.faulted
<1> DEFINE z == [x EXCEPT !.init = "CanceledBeforeEntry", !.cleanup = "NoCallbackRequired"]
<1>1. /\ z \in Transports
      /\ z.faulted = x.faulted /\ z.initFailed = x.initFailed
      /\ z.stopped = x.stopped /\ z.inbound = x.inbound
  BY DEF Transports, Final
<1> HIDE DEF z
<1>2. /\ FinishStop(z) \in Transports
      /\ FinishStop(z).faulted = z.faulted /\ FinishStop(z).initFailed = z.initFailed
      /\ FinishStop(z).stopped /\ ~FinishStop(z).inbound
  BY <1>1, FinishFields
<1>3. Canceled(x) = FinishStop(z)
  BY DEF Canceled, z
<1>4. QED
  BY <1>1, <1>2, <1>3 DEF Moves, Sound, Advances

(* request_terminal, which keeps the fault it is given.                    *)
LEMMA TerminalMoves ==
    ASSUME NEW x \in Transports, Sound(x), NEW fault \in BOOLEAN
    PROVE  /\ Moves(x, RequestTerminal(x, fault))
           /\ RequestTerminal(x, fault).faulted = (x.faulted \/ fault)
<1> DEFINE y == CommitTerminal(x, fault)
           r == Requested(y)
<1>1. Moves(x, y) /\ y.faulted = (x.faulted \/ fault)
  BY CommitMoves
<1>2. Moves(y, r) /\ r.faulted = y.faulted
  BY <1>1, RequestedMoves DEF Requested, Transports, Moves
<1>3. Moves(r, Canceled(r)) /\ Canceled(r).faulted = r.faulted
  BY <1>2, CanceledMoves DEF Moves
<1>4. Moves(r, [r EXCEPT !.job = "cleanup"]) /\ [r EXCEPT !.job = "cleanup"].faulted = r.faulted
  BY <1>2 DEF Transports, Moves, Sound, Advances
<1>5. QED
  BY <1>1, <1>2, <1>3, <1>4 DEF RequestTerminal, Moves, Advances

(* The types of the state.                                                 *)
Infos == {"resolved", "initializing", "ready", "disabled"} \cup Terminal

Loading == {"check", "reserve", "publish"}

Targeting == Held \cup {"await", "claim"}

Records == [info : Infos, from : Infos \cup {NONE}, busy : BOOLEAN]

Loads == [pc : Loading \cup {"idle", "loaded", "initializing", "over"},
          tries : Nat, lazy : BOOLEAN]

Operations == [pc : Targeting \cup {"idle", "attaching", "next"},
               f : Files \cup {NONE}, todo : Seq(Files)]

HostTypes ==
    /\ loaded \in Seq(Files)
    /\ rec \in [Files -> Records]
    /\ loads \in [Files -> Loads]
    /\ xp \in [Files -> Transports]
    /\ peers \in [Files -> {"absent", "attached", "gone", "detached"}]
    /\ control \in Callers \cup {"permissive", "unselected", "attaching"}
    /\ ops \in [Actors -> Operations]

(* A file being loaded is not in the list yet: publishing its record takes *)
(* no claim away, and its fresh transport replaces none that is in use.    *)
Pending(f) == loads[f].pc \in Loading => f \notin Loaded

(* What the list and the router show of a module's end follows its         *)
(* transport.                                                              *)
Ended(f) ==
    /\ Sound(xp[f])
    /\ f \in Loaded /\ rec[f].info = "stopped" => xp[f].stopped
    /\ peers[f] = "gone" => f \in Loaded /\ ~xp[f].inbound

(* Operations, and what the host has still to shut down, are about loaded  *)
(* modules.                                                                *)
Targets(c) ==
    /\ ops[c].pc \in Targeting => ops[c].f \in Loaded
    /\ \A i \in 1..Len(ops[c].todo) : ops[c].todo[i] \in Loaded

(* LifecycleExclusive, for one module.                                     *)
Claimed(f) ==
    /\ rec[f].busy <=> HolderOf(f) # {}
    /\ \A c, d \in HolderOf(f) : c = d

(* At most one peer is being made the controller, while nobody is it.      *)
Selecting(c) ==
    ops[c].pc = "attaching" =>
        control = "attaching" /\ \A d \in Actors : ops[d].pc = "attaching" => d = c

HostInv ==
    /\ HostTypes
    /\ \A f \in Files : Pending(f) /\ Ended(f) /\ Claimed(f)
    /\ \A c \in Actors : Targets(c) /\ Selecting(c)

(* What a step may do to what was decided: it may list a module anew only  *)
(* as ended, or while it is listed as not ended.                           *)
Decided ==
    /\ \A f \in Loaded :
        /\ Advances(xp[f], xp'[f])
        /\ \/ rec'[f].info = rec[f].info
           \/ rec'[f].info \in Terminal
           \/ Snapshot(f) \notin Terminal
    /\ control \in Callers => control' = control

(* snapshot lists a module as ended exactly when its record says so or its *)
(* transport failed and it is not disabled.                                *)
LEMMA ListedTerminal ==
    ASSUME NEW info \in Infos, NEW x \in Transports
    PROVE  /\ ListedAs(info, x) \in Infos
           /\ ListedAs(info, x) \in Terminal <=>
                info \in Terminal \/ (info # "disabled" /\ (x.initFailed \/ x.faulted))
BY DEF ListedAs, Infos, Terminal, Transports, IsReady

(* A new transport is sound.                                               *)
LEMMA FreshSound ==
    ASSUME NEW lazy \in BOOLEAN, NEW callbacks \in BOOLEAN
    PROVE  FreshTransport(lazy, callbacks) \in Transports /\ Sound(FreshTransport(lazy, callbacks))
BY DEF FreshTransport, Transports, Sound, Final

(* Nothing is loaded, claimed or selected at first.                        *)
LEMMA HostInvInit == Init => HostInv
<1> SUFFICES ASSUME Init PROVE HostInv
  OBVIOUS
<1>1. scene.control \in {"permissive", "unselected"}
  BY HostAssumption DEF HostAssumption, Init, IsScenario
<1>2. HostTypes
  <2>1. FreshTransport(TRUE, FALSE) \in Transports
    BY FreshSound
  <2>2. <<>> \in Seq(Files)
    OBVIOUS
  <2>3. [pc |-> "idle", f |-> NONE, todo |-> <<>>] \in Operations
    BY <2>2 DEF Operations
  <2>4. FreshRecord("resolved") \in Records
    BY DEF FreshRecord, Records, Infos
  <2>5. [pc |-> "idle", tries |-> 0, lazy |-> FALSE] \in Loads
    BY DEF Loads
  <2>6. QED
    BY <1>1, <2>1, <2>2, <2>3, <2>4, <2>5 DEF Init, HostTypes
<1>3. \A f \in Files : Pending(f) /\ Ended(f) /\ Claimed(f)
  <2>1. Loaded = {}
    BY DEF Init, Loaded, Range
  <2>2. \A f \in Files : HolderOf(f) = {}
    BY DEF Init, HolderOf, Held, Waiting
  <2>3. QED
    BY <2>1, <2>2, FreshSound DEF Init, Pending, Ended, Claimed, FreshRecord
<1>4. \A c \in Actors : Targets(c) /\ Selecting(c)
  BY DEF Init, Targets, Selecting, Targeting, Held, Waiting
<1>5. QED
  BY <1>2, <1>3, <1>4 DEF HostInv

(* The step of one operation.                                              *)
LEMMA GoesTo ==
    ASSUME HostInv, NEW c \in Actors, NEW pc \in Targeting \cup {"idle", "attaching", "next"},
           NEW f \in Files \cup {NONE}, Goes(c, pc, f)
    PROVE  /\ ops' \in [Actors -> Operations]
           /\ ops'[c].pc = pc /\ ops'[c].f = f /\ ops'[c].todo = ops[c].todo
           /\ \A d \in Actors \ {c} : ops'[d] = ops[d]
BY DEF HostInv, HostTypes, Goes, Operations

(* What changes neither the flag nor the holders keeps the claim right.    *)
LEMMA SameClaims ==
    ASSUME HostInv, NEW f \in Files, rec'[f].busy = rec[f].busy, HolderOf(f)' = HolderOf(f)
    PROVE  Claimed(f)'
BY DEF HostInv, Claimed

(* The step of one load.                                                   *)
LEMMA LoadGoes ==
    ASSUME HostInv, NEW f \in Files,
           NEW pc \in Loading \cup {"idle", "loaded", "initializing", "over"}, LoadAt(f, pc)
    PROVE  /\ loads' \in [Files -> Loads]
           /\ loads'[f].pc = pc
           /\ \A g \in Files \ {f} : loads'[g] = loads[g]
BY DEF HostInv, HostTypes, LoadAt, Loads

(* A load before it is published, and the task that announces it.          *)
LEMMA LoadsKeep ==
    ASSUME HostInv, NEW f \in Files, LoadCall(f) \/ LoadCheck(f) \/ LoadReserve(f) \/ Announce(f)
    PROVE  HostInv' /\ Decided
<1>1. UNCHANGED <<loaded, rec, ops, control>>
  BY DEF LoadCall, LoadCheck, LoadReserve, Announce, Refuse
<1>2. \A g \in Files \ {f} : xp'[g] = xp[g] /\ peers'[g] = peers[g] /\ loads'[g] = loads[g]
  BY DEF HostInv, HostTypes, LoadCall, LoadCheck, LoadReserve, Announce, Refuse, LoadAt
<1>3. /\ loads' \in [Files -> Loads]
      /\ loads'[f].pc \in Loading => f \notin Loaded
  <2>1. CASE LoadCall(f)
    BY <2>1 DEF LoadCall, HostInv, HostTypes, Loads, Loading
  <2>2. CASE LoadCheck(f)
    BY <2>2, LoadGoes DEF LoadCheck, Refuse, HostInv, Pending, Loading
  <2>3. CASE LoadReserve(f)
    BY <2>3, LoadGoes DEF LoadReserve, Refuse, HostInv, Pending, Loading
  <2>4. CASE Announce(f)
    BY <2>4, LoadGoes DEF Announce, Loading
  <2>5. QED
    BY <2>1, <2>2, <2>3, <2>4
<1>4. /\ xp' \in [Files -> Transports] /\ peers' \in [Files -> {"absent", "attached", "gone", "detached"}]
      /\ Sound(xp'[f])
      /\ f \in Loaded => xp'[f] = xp[f] /\ peers'[f] = peers[f]
      /\ peers'[f] = "gone" => f \in Loaded
  <2>1. CASE LoadCall(f) \/ Announce(f)
    BY <2>1 DEF LoadCall, Announce, HostInv, HostTypes, Ended
  <2>2. CASE LoadCheck(f)
    <3>1. loads[f].lazy \in BOOLEAN /\ f \notin Loaded
      BY <2>2 DEF LoadCheck, HostInv, HostTypes, Loads, Pending, Loading
    <3>2. QED
      BY <2>2, <3>1, FreshSound DEF LoadCheck, HostInv, HostTypes, Ended
  <2>3. CASE LoadReserve(f)
    <3>1. f \notin Loaded
      BY <2>3 DEF LoadReserve, HostInv, Pending, Loading
    <3>2. Moves(xp[f], RequestTerminal(xp[f], TRUE))
      BY TerminalMoves DEF HostInv, HostTypes, Ended
    <3>3. QED
      BY <2>3, <3>1, <3>2 DEF LoadReserve, HostInv, HostTypes, Ended, Moves
  <2>4. QED
    BY <2>1, <2>2, <2>3
<1>5. HostTypes'
  BY <1>1, <1>3, <1>4 DEF HostInv, HostTypes
<1>6. \A g \in Files : Pending(g)' /\ Ended(g)' /\ Claimed(g)'
  <2>1. \A g \in Files : Pending(g)' /\ Ended(g)'
    BY <1>1, <1>2, <1>3, <1>4 DEF HostInv, Pending, Ended, Loaded
  <2>2. \A g \in Files : Claimed(g)'
    BY <1>1 DEF HostInv, Claimed, HolderOf
  <2>3. QED
    BY <2>1, <2>2
<1>7. \A c \in Actors : Targets(c)' /\ Selecting(c)'
  BY <1>1 DEF HostInv, Targets, Selecting, Loaded
<1>8. Decided
  <2>1. \A g \in Loaded : g \in Files /\ xp'[g] = xp[g]
    BY <1>2, <1>4 DEF HostInv, HostTypes, Loaded, Range
  <2>2. QED
    BY <1>1, <2>1 DEF Decided, Advances
<1>9. QED
  BY <1>5, <1>6, <1>7, <1>8 DEF HostInv

(* A step of one transport, if it is sound and takes nothing back ...      *)
LEMMA TransportKeeps ==
    ASSUME HostInv, NEW f \in Files, NEW x, Transport(f, x), Moves(xp[f], x)
    PROVE  HostInv' /\ Decided
<1>1. UNCHANGED <<loaded, rec, loads, peers, ops, control>>
  BY DEF Transport, hostVars
<1>2. /\ xp' \in [Files -> Transports]
      /\ \A g \in Files : Sound(xp'[g]) /\ Advances(xp[g], xp'[g])
  BY DEF Transport, HostInv, HostTypes, Ended, Moves, Advances
<1>3. \A g \in Files : Pending(g)' /\ Ended(g)' /\ Claimed(g)'
  BY <1>1, <1>2 DEF HostInv, Pending, Ended, Claimed, HolderOf, Loaded, Advances
<1>4. \A c \in Actors : Targets(c)' /\ Selecting(c)'
  BY <1>1 DEF HostInv, Targets, Selecting, Loaded
<1>5. Loaded \subseteq Files
  BY DEF HostInv, HostTypes, Loaded, Range
<1>6. QED
  BY <1>1, <1>2, <1>3, <1>4, <1>5 DEF HostInv, HostTypes, Decided

(* ... as all of them are: the worker, the initialiser's caller,           *)
(* host_ready, host_fault and the callbacks.                               *)
LEMMA TransportStepsKeep ==
    ASSUME HostInv, NEW f \in Files,
           \/ Schedule(f) \/ Worker(f) \/ InitError(f) \/ HostReady(f) \/ HostFault(f)
           \/ CallbacksDrain(f)
    PROVE  HostInv' /\ Decided
<1> DEFINE x == xp[f]
<1>0. x \in Transports /\ Sound(x)
  BY DEF HostInv, HostTypes, Ended
<1>1. CASE Schedule(f)
  <2>1. Moves(x, [x EXCEPT !.init = "Scheduled", !.started = TRUE, !.job = "init"])
    BY <1>0 DEF Moves, Transports, Sound, Advances
  <2>2. QED
    BY <1>1, <2>1, TransportKeeps DEF Schedule
<1>2. CASE Enter(f)
  <2>1. Moves(x, [x EXCEPT !.init = "Entered", !.lock = "worker"])
    BY <1>0 DEF Moves, Transports, Sound, Advances
  <2>2. Moves(x, Canceled(x))
    BY <1>0, CanceledMoves
  <2>3. QED
    BY <1>2, <2>1, <2>2, TransportKeeps DEF Enter
<1>3. CASE CleanupRuns(f)
  <2>1. Moves(x, [x EXCEPT !.cleanup = "Executing", !.closed = TRUE, !.lock = "worker"])
    BY <1>0 DEF Moves, Transports, Sound, Advances, Final
  <2>2. QED
    BY <1>3, <2>1, TransportKeeps DEF CleanupRuns
<1>4. ASSUME NEW ok \in BOOLEAN, Returned(f, ok)
      PROVE  HostInv' /\ Decided
  <2> DEFINE y == [x EXCEPT !.lock = "free"]
             z == CommitTerminal(y, TRUE)
  <2>1. y \in Transports /\ Sound(y) /\ Advances(x, y)
    BY <1>0 DEF Transports, Sound, Advances
  <2>2. Moves(y, z) /\ z.faulted
    BY <2>1, CommitMoves DEF CommitTerminal, Transports
  <2> HIDE DEF y, z
  <2>3. \A job \in {"cleanup", "none"} : Moves(x, [y EXCEPT !.init = "Valid", !.job = job])
    BY <2>1 DEF Moves, Transports, Sound, Advances
  <2>4. Moves(x, [z EXCEPT !.init = "Rejected", !.cleanup = "Uncertain"])
    <3> DEFINE w == [z EXCEPT !.init = "Rejected", !.cleanup = "Uncertain"]
    <3>1. /\ w \in Transports /\ w.cleanup = "Uncertain" /\ w.code = z.code
          /\ w.stopped = z.stopped /\ w.inbound = z.inbound
          /\ w.faulted = z.faulted /\ w.initFailed = z.initFailed
      BY <2>2 DEF Moves, Transports, Final
    <3> HIDE DEF w
    <3>2. Moves(x, w)
      BY <2>1, <2>2, <3>1 DEF Moves, Sound, Advances
    <3>3. QED
      BY <3>2 DEF w
  <2>5. QED
    BY <1>4, <2>3, <2>4, TransportKeeps DEF Returned, y, z
<1>5. ASSUME NEW ok \in BOOLEAN, CleanupEnds(f, ok)
      PROVE  HostInv' /\ Decided
  <2>1. Moves(x, FinishStop(x)) /\ FinishStop(x).stopped
    BY <1>0, FinishMoves
  <2>2. Moves(x, [FinishStop(x) EXCEPT !.lock = "free", !.code = TRUE,
                     !.cleanup = IF ok THEN "Complete" ELSE "Uncertain"])
    BY <2>1 DEF Moves, Transports, Sound, Advances, Final
  <2>3. QED
    BY <1>5, <2>2, TransportKeeps DEF CleanupEnds
<1>6. CASE InitError(f)
  <2> DEFINE y == [x EXCEPT !.initFailed = TRUE]
             z == RequestTerminal(y, TRUE)
  <2>1. y \in Transports /\ Sound(y) /\ Advances(x, y)
    BY <1>0 DEF Transports, Sound, Advances
  <2>2. Moves(y, z) /\ z.faulted
    BY <2>1, TerminalMoves
  <2> HIDE DEF y, z
  <2>3. Moves(x, [z EXCEPT !.inbound = FALSE])
    <3> DEFINE w == [z EXCEPT !.inbound = FALSE]
    <3>1. /\ w \in Transports /\ w.cleanup = z.cleanup /\ w.code = z.code
          /\ w.stopped = z.stopped /\ ~w.inbound
          /\ w.faulted = z.faulted /\ w.initFailed = z.initFailed
      BY <2>2 DEF Moves, Transports
    <3> HIDE DEF w
    <3>2. Moves(x, w)
      BY <2>1, <2>2, <3>1 DEF Moves, Sound, Advances
    <3>3. QED
      BY <3>2 DEF w
  <2>4. QED
    BY <1>6, <2>3, TransportKeeps DEF InitError, y, z
<1>7. CASE HostReady(f)
  <2>1. Moves(x, [x EXCEPT !.ready = TRUE])
    BY <1>0 DEF Moves, Transports, Sound, Advances
  <2>2. QED
    BY <1>7, <2>1, TransportKeeps DEF HostReady
<1>8. CASE HostFault(f)
  <2>1. Moves(x, RequestTerminal(x, TRUE)) /\ RequestTerminal(x, TRUE).faulted
    BY <1>0, TerminalMoves
  <2>2. Moves(x, [RequestTerminal(x, TRUE) EXCEPT !.inbound = FALSE])
    BY <2>1 DEF Moves, Transports, Sound, Advances
  <2>3. QED
    BY <1>8, <2>2, TransportKeeps DEF HostFault
<1>9. CASE CallbacksDrain(f)
  <2>1. Moves(x, [x EXCEPT !.drained = TRUE])
    BY <1>0 DEF Moves, Transports, Sound, Advances
  <2>2. QED
    BY <1>9, <2>1, TransportKeeps DEF CallbacksDrain
<1>10. QED
  BY <1>1, <1>2, <1>3, <1>4, <1>5, <1>6, <1>7, <1>8, <1>9 DEF Worker

(* The record published for a module replaces none that is claimed.        *)
LEMMA PublishKeeps ==
    ASSUME HostInv, NEW f \in Files, LoadPublish(f)
    PROVE  HostInv' /\ Decided
<1> DEFINE state == IF loads[f].lazy THEN "resolved" ELSE "initializing"
<1>1. f \notin Loaded
  BY DEF LoadPublish, HostInv, Pending, Loading
<1>2. Loaded' = Loaded \cup {f} /\ loaded' \in Seq(Files)
  <2>1. loaded \in Seq(Files) /\ loaded' = Append(loaded, f)
    BY DEF LoadPublish, HostInv, HostTypes
  <2>2. /\ loaded' \in Seq(Files) /\ DOMAIN loaded = 1..Len(loaded)
        /\ DOMAIN loaded' = 1..(Len(loaded) + 1) /\ Len(loaded) \in Nat
        /\ \A i \in 1..Len(loaded) : loaded'[i] = loaded[i]
        /\ loaded'[Len(loaded) + 1] = f
    BY <2>1, AppendProperties
  <2>3. QED
    BY <2>2 DEF Loaded, Range
<1>3. UNCHANGED <<xp, peers, ops, control>>
  BY DEF LoadPublish
<1>4. /\ loads' \in [Files -> Loads]
      /\ loads'[f].pc = "loaded"
      /\ \A g \in Files \ {f} : loads'[g] = loads[g]
  BY LoadGoes DEF LoadPublish
<1>5. /\ rec' \in [Files -> Records]
      /\ rec'[f].info \in {"resolved", "initializing"} /\ rec'[f].busy = FALSE
      /\ \A g \in Files \ {f} : rec'[g] = rec[g]
  BY DEF LoadPublish, HostInv, HostTypes, Records, FreshRecord, Infos
<1>6. HostTypes'
  BY <1>2, <1>3, <1>4, <1>5 DEF HostInv, HostTypes
<1>7. \A g \in Files : Pending(g)' /\ Ended(g)'
  BY <1>1, <1>2, <1>3, <1>4, <1>5 DEF HostInv, Pending, Ended, Loading
<1>8. \A g \in Files : Claimed(g)'
  <2>1. \A g \in Files : HolderOf(g)' = HolderOf(g)
    BY <1>3 DEF HolderOf
  <2>2. HolderOf(f) = {}
    BY <1>1 DEF HostInv, Targets, HolderOf, Targeting
  <2>3. Claimed(f)'
    BY <1>5, <2>1, <2>2 DEF Claimed
  <2>4. QED
    BY <1>5, <2>1, <2>3 DEF HostInv, Claimed
<1>9. \A c \in Actors : Targets(c)' /\ Selecting(c)'
  BY <1>2, <1>3 DEF HostInv, Targets, Selecting
<1>10. Decided
  <2>1. \A g \in Loaded : g \in Files \ {f}
    BY <1>1 DEF HostInv, HostTypes, Loaded, Range
  <2>2. QED
    BY <1>3, <1>5, <2>1 DEF Decided, Advances
<1>11. QED
  BY <1>6, <1>7, <1>8, <1>9, <1>10 DEF HostInv

(* A step that changes what one module is listed as. *)
LEMMA ListingKeeps ==
    ASSUME HostInv, NEW f \in Files,
           UNCHANGED <<loaded, loads, xp, ops, control>>,
           rec' \in [Files -> Records],
           peers' \in [Files -> {"absent", "attached", "gone", "detached"}],
           rec'[f].busy = rec[f].busy,
           rec'[f].info = rec[f].info \/ rec'[f].info \in Terminal \/ Snapshot(f) \notin Terminal,
           f \in Loaded /\ rec'[f].info = "stopped" => xp[f].stopped,
           peers'[f] = "gone" => f \in Loaded /\ ~xp[f].inbound,
           \A g \in Files \ {f} : rec'[g] = rec[g] /\ peers'[g] = peers[g]
    PROVE  HostInv' /\ Decided
<1>1. HostTypes'
  BY DEF HostInv, HostTypes
<1>2. \A g \in Files : Pending(g)' /\ Ended(g)'
  BY DEF HostInv, Pending, Ended, Loaded
<1>3. \A g \in Files : Claimed(g)'
  <2>1. \A g \in Files : HolderOf(g)' = HolderOf(g) /\ rec'[g].busy = rec[g].busy
    BY DEF HolderOf
  <2>2. QED
    BY <2>1, SameClaims
<1>4. \A c \in Actors : Targets(c)' /\ Selecting(c)'
  BY DEF HostInv, Targets, Selecting, Loaded
<1>5. Decided
  <2>1. \A g \in Loaded : g \in Files
    BY DEF HostInv, HostTypes, Loaded, Range
  <2>2. QED
    BY <2>1 DEF Decided, Advances
<1>6. QED
  BY <1>1, <1>2, <1>3, <1>4, <1>5 DEF HostInv

(* What peer_detached writes.                                              *)
LEMMA ListedFacts ==
    ASSUME HostInv, NEW f \in Files, NEW state \in Infos, Listed(f, state)
    PROVE  /\ rec' \in [Files -> Records]
           /\ rec'[f].info = state /\ rec'[f].busy = rec[f].busy
           /\ \A g \in Files \ {f} : rec'[g] = rec[g]
BY DEF HostInv, HostTypes, Records, Listed

(* A detached peer: the module it lists as stopped closed its way back     *)
(* without a fault, and so has stopped.                                    *)
LEMMA BrokerKeeps ==
    ASSUME HostInv, NEW f \in Files, Broker(f)
    PROVE  HostInv' /\ Decided
<1> DEFINE States == {"absent", "attached", "gone", "detached"}
<1>1. CASE PeerGone(f)
  <2>1. UNCHANGED <<loaded, loads, xp, ops, control, rec>>
    BY <1>1 DEF PeerGone, hostVars
  <2>2. /\ peers' \in [Files -> States]
        /\ peers'[f] = "gone" /\ f \in Loaded /\ ~xp[f].inbound
        /\ \A g \in Files \ {f} : peers'[g] = peers[g]
    BY <1>1 DEF PeerGone, HostInv, HostTypes
  <2>3. QED
    BY <2>1, <2>2, ListingKeeps DEF HostInv, HostTypes, Ended
<1>2. CASE PeerDetached(f)
  <2>1. UNCHANGED <<loaded, loads, xp, ops, control>>
    BY <1>2 DEF PeerDetached, hostVars
  <2>2. /\ peers' \in [Files -> States]
        /\ peers'[f] = "detached"
        /\ \A g \in Files \ {f} : peers'[g] = peers[g]
    BY <1>2 DEF PeerDetached, HostInv, HostTypes
  <2>3. CASE ~xp[f].faulted /\ Listed(f, "stopped")
    <3>1. xp[f].stopped
      BY <1>2, <2>3 DEF PeerDetached, HostInv, Ended, Sound
    <3>2. QED
      BY <2>1, <2>2, <2>3, <3>1, ListingKeeps, ListedFacts DEF Infos, Terminal
  <2>4. CASE xp[f].faulted /\ Listed(f, Stopped(f))
    <3>1. Stopped(f) \in {"failed", "faulted"}
      BY <2>4 DEF Stopped
    <3>2. QED
      BY <2>1, <2>2, <2>4, <3>1, ListingKeeps, ListedFacts DEF Infos, Terminal
  <2>5. CASE UNCHANGED rec
    BY <2>1, <2>2, <2>5, ListingKeeps DEF HostInv, HostTypes, Ended
  <2>6. QED
    BY <1>2, <2>3, <2>4, <2>5 DEF PeerDetached
<1>3. QED
  BY <1>1, <1>2 DEF Broker

(* EnableModule is refused for a module that is listed as ended.           *)
LEMMA EnableKeeps ==
    ASSUME HostInv, NEW c \in Callers, NEW f \in Files, NEW enabled \in BOOLEAN,
           EnableModule(c, f, enabled)
    PROVE  HostInv' /\ Decided
<1> DEFINE info == IF ~enabled THEN "disabled" ELSE IF IsReady(xp[f]) THEN "ready" ELSE "resolved"
<1>1. UNCHANGED <<loaded, loads, xp, ops, control, peers>> /\ Snapshot(f) \notin Terminal
  BY DEF EnableModule, EnableRefused, hostVars
<1>2. info \in Infos /\ info # "stopped"
  BY DEF Infos
<1>3. rec' = [rec EXCEPT ![f].info = info]
  BY DEF EnableModule
<1> HIDE DEF info
<1>4. /\ rec' \in [Files -> Records]
      /\ rec'[f].busy = rec[f].busy /\ rec'[f].info = info
      /\ \A g \in Files \ {f} : rec'[g] = rec[g]
  BY <1>2, <1>3 DEF HostInv, HostTypes, Records
<1>5. QED
  BY <1>1, <1>2, <1>4, ListingKeeps DEF HostInv, HostTypes, Ended

(* Only the operation of c moves.                                          *)
Others(c) == \A d \in Actors \ {c} : ops'[d] = ops[d]

(* A step of one operation that stays in or outside its claim,             *)
LEMMA ClaimKept ==
    ASSUME HostInv, NEW c \in Actors, Others(c),
           ops[c].pc \in Held <=> ops'[c].pc \in Held,
           ops[c].pc \in Held => ops'[c].f = ops[c].f,
           \A g \in Files : rec'[g].busy = rec[g].busy
    PROVE  \A g \in Files : Claimed(g)'
<1>1. \A g \in Files : HolderOf(g)' = HolderOf(g)
  BY DEF HolderOf, Others
<1>2. QED
  BY <1>1, SameClaims

(* ... one that takes it, of a module nobody holds,                        *)
LEMMA ClaimTaken ==
    ASSUME HostInv, NEW c \in Actors, Others(c), NEW f \in Files,
           ops[c].pc \notin Held, ops'[c].pc \in Held, ops'[c].f = f,
           rec[f].busy = FALSE, rec'[f].busy = TRUE,
           \A g \in Files \ {f} : rec'[g].busy = rec[g].busy
    PROVE  \A g \in Files : Claimed(g)'
<1>1. HolderOf(f) = {}
  BY DEF HostInv, Claimed
<1>2. HolderOf(f)' = {c}
  BY <1>1 DEF HolderOf, Others
<1>3. Claimed(f)'
  BY <1>2 DEF Claimed
<1>4. \A g \in Files \ {f} : HolderOf(g)' = HolderOf(g)
  BY DEF HolderOf, Others
<1>5. QED
  BY <1>3, <1>4, SameClaims

(* ... and one that drops it.                                              *)
LEMMA ClaimDropped ==
    ASSUME HostInv, NEW c \in Actors, Others(c), NEW f \in Files,
           ops[c].pc \in Held, ops[c].f = f, ops'[c].pc \notin Held,
           rec'[f].busy = FALSE,
           \A g \in Files \ {f} : rec'[g].busy = rec[g].busy
    PROVE  \A g \in Files : Claimed(g)'
<1>1. HolderOf(f) = {c}
  BY DEF HostInv, Claimed, HolderOf
<1>2. HolderOf(f)' = {}
  BY <1>1 DEF HolderOf, Others
<1>3. Claimed(f)'
  BY <1>2 DEF Claimed
<1>4. \A g \in Files \ {f} : HolderOf(g)' = HolderOf(g)
  BY DEF HolderOf, Others
<1>5. QED
  BY <1>3, <1>4, SameClaims

(* What a step of one operation must show is about that operation, the     *)
(* transports it moves and what it lists.                                  *)
LEMMA ActorKeeps ==
    ASSUME HostInv, NEW c \in Actors, Others(c), UNCHANGED <<loaded, loads, peers, control>>,
           ops' \in [Actors -> Operations], rec' \in [Files -> Records],
           Targets(c)', ops[c].pc # "attaching", ops'[c].pc # "attaching",
           xp' \in [Files -> Transports],
           \A g \in Files : Moves(xp[g], xp'[g]) \/ xp'[g] = xp[g],
           \A g \in Files :
               \/ rec'[g].info = rec[g].info
               \/ rec'[g].info \in Terminal /\ (rec'[g].info = "stopped" => xp'[g].stopped),
           \A g \in Files : Claimed(g)'
    PROVE  HostInv' /\ Decided
<1>1. HostTypes'
  BY DEF HostInv, HostTypes
<1>2. \A g \in Files : Pending(g)' /\ Ended(g)'
  BY DEF HostInv, Pending, Ended, Loaded, Moves, Advances
<1>3. \A d \in Actors : Targets(d)' /\ Selecting(d)'
  BY DEF HostInv, Targets, Selecting, Loaded, Others
<1>4. Decided
  <2>1. \A g \in Loaded : g \in Files
    BY DEF HostInv, HostTypes, Loaded, Range
  <2>2. QED
    BY <2>1 DEF Decided, Moves, Advances
<1>5. QED
  BY <1>1, <1>2, <1>3, <1>4 DEF HostInv

(* The end of an operation.                                                *)
LEMMA OverFacts ==
    ASSUME HostInv, NEW c \in Actors, Over(c)
    PROVE  /\ ops' \in [Actors -> Operations] /\ Others(c)
           /\ ops'[c].pc \notin Targeting /\ ops'[c].pc # "attaching"
           /\ ops'[c].todo = ops[c].todo
<1> DEFINE pc == IF c = "host" THEN "next" ELSE "idle"
<1>1. pc \in {"next", "idle"}
  OBVIOUS
<1> HIDE DEF pc
<1>2. Goes(c, pc, NONE)
  BY DEF Over, pc
<1>3. QED
  BY <1>1, <1>2, GoesTo DEF Targeting, Held, Waiting, Others

(* stop_inner claims a module that nobody holds, or is refused.            *)
LEMMA StopClaimKeeps ==
    ASSUME HostInv, NEW c \in Actors, NEW f \in Loaded, StopClaim(c, f),
           ops[c].pc \notin Held, ops[c].pc # "attaching",
           UNCHANGED <<loaded, loads, peers, control>>
    PROVE  HostInv' /\ Decided
<1>0. f \in Files
  BY DEF HostInv, HostTypes, Loaded, Range
<1>1. CASE Over(c) /\ UNCHANGED <<rec, xp>>
  <2>1. Targets(c)'
    BY <1>1, OverFacts DEF HostInv, Targets, Loaded
  <2>2. \A g \in Files : Claimed(g)'
    BY <1>1, OverFacts, ClaimKept DEF Targeting
  <2>3. QED
    BY <1>1, <2>1, <2>2, OverFacts, ActorKeeps, Zenon DEF HostInv, HostTypes
<1>2. CASE /\ ~rec[f].busy
           /\ rec' = [rec EXCEPT ![f].busy = TRUE,
                                 ![f].from = IF @ = NONE THEN Snapshot(f) ELSE @]
           /\ xp' = [xp EXCEPT ![f] = CommitTerminal(@, FALSE)]
           /\ Goes(c, "drain", f)
  <2>1. Snapshot(f) \in Infos
    BY <1>0, ListedTerminal DEF HostInv, HostTypes, Records, Snapshot
  <2>2. /\ rec' \in [Files -> Records]
        /\ rec'[f].busy = TRUE /\ rec'[f].info = rec[f].info
        /\ \A g \in Files \ {f} : rec'[g] = rec[g]
    BY <1>0, <1>2, <2>1 DEF HostInv, HostTypes, Records
  <2>3. /\ xp' \in [Files -> Transports]
        /\ Moves(xp[f], xp'[f])
        /\ \A g \in Files \ {f} : xp'[g] = xp[g]
    <3> DEFINE y == CommitTerminal(xp[f], FALSE)
    <3>1. Moves(xp[f], y)
      BY <1>0, CommitMoves DEF HostInv, HostTypes, Ended
    <3>2. y \in Transports /\ xp' = [xp EXCEPT ![f] = y]
      BY <1>2, <3>1 DEF Moves
    <3> HIDE DEF y
    <3>3. QED
      BY <1>0, <3>1, <3>2 DEF HostInv, HostTypes
  <2>4. /\ ops' \in [Actors -> Operations] /\ Others(c)
        /\ ops'[c].pc = "drain" /\ ops'[c].f = f /\ ops'[c].todo = ops[c].todo
    BY <1>0, <1>2, GoesTo DEF Targeting, Held, Waiting, Others
  <2>5. Targets(c)'
    BY <2>4 DEF HostInv, Targets, Loaded
  <2>6. \A g \in Files : Claimed(g)'
    <3>1. rec[f].busy = FALSE
      BY <1>0, <1>2 DEF HostInv, HostTypes, Records
    <3>2. QED
      BY <1>0, <2>2, <2>4, <3>1, ClaimTaken DEF Held, Waiting
  <2>7. /\ \A g \in Files : Moves(xp[g], xp'[g]) \/ xp'[g] = xp[g]
        /\ \A g \in Files : rec'[g].info = rec[g].info
    BY <2>2, <2>3
  <2>8. ops'[c].pc # "attaching"
    BY <2>4
  <2>9. QED
    BY <2>2, <2>3, <2>4, <2>5, <2>6, <2>7, <2>8, ActorKeeps, Zenon
<1>3. QED
  BY <1>1, <1>2 DEF StopClaim, StopRefused

(* Steps of an operation that neither takes nor drops its claim. *)
LEMMA HolderKeeps ==
    ASSUME HostInv, NEW c \in Actors, NEW pc \in Held, ops[c].pc \in Held, At(c, pc),
           UNCHANGED <<loaded, loads, peers, control>>,
           rec' \in [Files -> Records],
           \A g \in Files : rec'[g].busy = rec[g].busy,
           xp' \in [Files -> Transports],
           \A g \in Files : Moves(xp[g], xp'[g]) \/ xp'[g] = xp[g],
           \A g \in Files :
               \/ rec'[g].info = rec[g].info
               \/ rec'[g].info \in Terminal /\ (rec'[g].info = "stopped" => xp'[g].stopped)
    PROVE  HostInv' /\ Decided
<1>1. ops[c].f \in Loaded /\ ops[c].f \in Files
  BY DEF HostInv, HostTypes, Targets, Targeting, Loaded, Range
<1>2. /\ ops' \in [Actors -> Operations] /\ Others(c)
      /\ ops'[c].pc = pc /\ ops'[c].f = ops[c].f /\ ops'[c].todo = ops[c].todo
  BY <1>1, GoesTo DEF At, Targeting, Others
<1>3. Targets(c)'
  BY <1>1, <1>2 DEF HostInv, Targets, Loaded
<1>4. \A g \in Files : Claimed(g)'
  BY <1>2, ClaimKept
<1>5. ops[c].pc # "attaching" /\ ops'[c].pc # "attaching"
  BY <1>2 DEF Held, Waiting
<1>6. QED
  BY <1>2, <1>3, <1>4, <1>5, ActorKeeps, Zenon

(* The steps of a stop and of a reinitialisation, and the drop of their    *)
(* guard.                                                                  *)
LEMMA OperationKeeps ==
    ASSUME HostInv, NEW c \in Actors, Operation(c)
    PROVE  HostInv' /\ Decided
<1> DEFINE f == ops[c].f
           x == xp[f]
<1>0. ops[c].pc \in Held
  BY DEF Operation, StopDrained, StopLocked, StopOk, StopFails, ReinitEnter, GuardDrop, Held, Waiting
<1>1. f \in Loaded /\ f \in Files
  BY <1>0 DEF HostInv, HostTypes, Targets, Targeting, Loaded, Range
<1>2. x \in Transports /\ Sound(x) /\ rec[f] \in Records
  BY <1>1 DEF HostInv, HostTypes, Ended
<1> HIDE DEF f, x
<1>3. CASE StopDrained(c)
  <2>1. At(c, "lock") /\ UNCHANGED <<loaded, loads, peers, control, rec, xp>>
    BY <1>3 DEF StopDrained, hostVars
  <2>2. QED
    BY <1>0, <2>1, HolderKeeps DEF HostInv, HostTypes, Held, Waiting
<1>4. CASE StopLocked(c)
  <2> DEFINE y == CommitTerminal(x, FALSE)
             r == Requested(y)
             mine == r.cleanup = "Requested" /\ r.job = "none"
             handoff == ~r.faulted /\ r.cleanup = "Requested" /\ (mine \/ r.init = "Scheduled")
             z == IF mine /\ r.init = "Deferred" THEN [Canceled(r) EXCEPT !.spawned = handoff]
                  ELSE [r EXCEPT !.job = IF mine THEN "cleanup" ELSE @,
                                 !.lock = IF mine THEN "worker" ELSE @,
                                 !.spawned = @ \/ handoff]
  <2>1. Moves(x, y)
    BY <1>2, CommitMoves
  <2>2. r \in Transports /\ Sound(r) /\ Advances(x, r)
    BY <2>1, RequestedMoves DEF Moves, Advances
  <2>3. Moves(r, Canceled(r))
    BY <2>2, CanceledMoves
  <2>4. mine \in BOOLEAN /\ handoff \in BOOLEAN
    BY <2>2 DEF Transports
  <2>5. xp' = [xp EXCEPT ![f] = z]
    BY <1>4 DEF StopLocked, f, x
  <2> HIDE DEF y, r, handoff
  <2>6. Moves(x, [Canceled(r) EXCEPT !.spawned = handoff])
    BY <2>2, <2>3, <2>4 DEF Moves, Transports, Sound, Advances
  <2>7. ASSUME NEW job \in {"none", "init", "cleanup"}, NEW lock \in {"free", "worker", "reinit"},
               NEW b \in BOOLEAN
        PROVE  Moves(x, [r EXCEPT !.job = job, !.lock = lock, !.spawned = b])
    <3> DEFINE n == [r EXCEPT !.job = job, !.lock = lock, !.spawned = b]
    <3>1. /\ n \in Transports /\ n.faulted = r.faulted /\ n.initFailed = r.initFailed
          /\ n.stopped = r.stopped /\ n.inbound = r.inbound
          /\ n.cleanup = r.cleanup /\ n.code = r.code
      BY <2>2 DEF Transports
    <3> HIDE DEF n
    <3>2. Moves(x, n)
      BY <2>2, <3>1 DEF Moves, Sound, Advances
    <3>3. QED
      BY <3>2 DEF n
  <2>8. Moves(x, z)
    BY <2>2, <2>4, <2>6, <2>7 DEF Transports
  <2> HIDE DEF z
  <2>9. /\ xp' \in [Files -> Transports]
        /\ \A g \in Files : Moves(xp[g], xp'[g]) \/ xp'[g] = xp[g]
    BY <1>1, <2>5, <2>8 DEF HostInv, HostTypes, Moves, x
  <2>10. At(c, "wait") /\ UNCHANGED <<loaded, loads, peers, control, rec>>
    BY <1>4 DEF StopLocked, hostVars
  <2>11. QED
    BY <1>0, <2>9, <2>10, HolderKeeps DEF HostInv, HostTypes, Held, Waiting
<1>5. CASE StopOk(c)
  <2>1. Stopped(f) \in Terminal /\ (Stopped(f) = "stopped" => x.stopped)
    BY <1>2, <1>5 DEF StopOk, Stopped, Terminal, Sound, Final, f, x
  <2>2. rec' = [rec EXCEPT ![f].info = Stopped(f)]
    BY <1>5 DEF StopOk, f
  <2>3. /\ rec' \in [Files -> Records]
        /\ \A g \in Files : rec'[g].busy = rec[g].busy
        /\ rec'[f].info = Stopped(f)
        /\ \A g \in Files \ {f} : rec'[g] = rec[g]
    BY <1>1, <2>1, <2>2 DEF HostInv, HostTypes, Records, Infos
  <2>4. At(c, "drop") /\ UNCHANGED <<loaded, loads, peers, control, xp>>
    BY <1>5 DEF StopOk, hostVars
  <2>5. QED
    BY <1>0, <2>1, <2>3, <2>4, HolderKeeps DEF HostInv, HostTypes, Held, Waiting, x
<1>6. CASE StopFails(c)
  <2>1. /\ rec' = [rec EXCEPT ![f] = rec'[f]]
        /\ rec'[f] = [rec[f] EXCEPT !.from = NONE] \/ rec'[f] = rec[f]
    BY <1>1, <1>6 DEF StopFails, Forgotten, f, HostInv, HostTypes
  <2>2. /\ rec' \in [Files -> Records]
        /\ \A g \in Files : rec'[g].busy = rec[g].busy /\ rec'[g].info = rec[g].info
    <3>1. rec'[f] \in Records /\ rec'[f].busy = rec[f].busy /\ rec'[f].info = rec[f].info
      BY <1>2, <2>1 DEF Records
    <3>2. QED
      BY <1>1, <2>1, <3>1 DEF HostInv, HostTypes
  <2>3. At(c, "drop") /\ UNCHANGED <<loaded, loads, peers, control, xp>>
    BY <1>6 DEF StopFails, hostVars
  <2>4. QED
    BY <1>0, <2>2, <2>3, HolderKeeps DEF HostInv, HostTypes, Held, Waiting
<1>7. CASE ReinitEnter(c)
  <2>1. Moves(x, [x EXCEPT !.lock = "reinit"])
    BY <1>2 DEF Moves, Transports, Sound, Advances
  <2>2. xp' = [xp EXCEPT ![f] = [x EXCEPT !.lock = "reinit"]]
    BY <1>7 DEF ReinitEnter, f, x
  <2>3. /\ xp' \in [Files -> Transports]
        /\ \A g \in Files : Moves(xp[g], xp'[g]) \/ xp'[g] = xp[g]
    BY <1>1, <2>1, <2>2 DEF HostInv, HostTypes, Moves, x
  <2>4. At(c, "native") /\ UNCHANGED <<loaded, loads, peers, control, rec>>
    BY <1>7 DEF ReinitEnter, hostVars
  <2>5. QED
    BY <1>0, <2>3, <2>4, HolderKeeps DEF HostInv, HostTypes, Held, Waiting
<1>8. CASE GuardDrop(c)
  <2>1. /\ rec' = [rec EXCEPT ![f] = rec'[f]]
        /\ \/ rec'[f] = [[rec[f] EXCEPT !.from = NONE] EXCEPT !.busy = FALSE]
           \/ rec'[f] = [rec[f] EXCEPT !.busy = FALSE]
    BY <1>1, <1>8 DEF GuardDrop, Forgotten, f, HostInv, HostTypes
  <2>2. /\ rec' \in [Files -> Records]
        /\ rec'[f].busy = FALSE
        /\ \A g \in Files \ {f} : rec'[g] = rec[g]
        /\ \A g \in Files : rec'[g].info = rec[g].info
    <3>1. rec'[f] \in Records /\ rec'[f].busy = FALSE /\ rec'[f].info = rec[f].info
      BY <1>2, <2>1 DEF Records
    <3>2. QED
      BY <1>1, <2>1, <3>1 DEF HostInv, HostTypes
  <2>3. Over(c) /\ UNCHANGED <<loaded, loads, peers, control, xp>>
    BY <1>8 DEF GuardDrop, hostVars
  <2>4. /\ ops' \in [Actors -> Operations] /\ Others(c)
        /\ ops'[c].pc \notin Targeting /\ ops'[c].pc # "attaching" /\ ops[c].pc # "attaching"
        /\ ops'[c].todo = ops[c].todo
    BY <1>0, <2>3, OverFacts DEF Held, Waiting
  <2>5. Targets(c)'
    BY <2>3, <2>4 DEF HostInv, Targets, Loaded
  <2>6. \A g \in Files : Claimed(g)'
    BY <1>0, <1>1, <2>2, <2>4, ClaimDropped DEF Targeting, f
  <2>7. xp' \in [Files -> Transports]
    BY <2>3 DEF HostInv, HostTypes
  <2>8. QED
    BY <2>2, <2>3, <2>4, <2>5, <2>6, <2>7, ActorKeeps
<1>9. QED
  BY <1>3, <1>4, <1>5, <1>6, <1>7, <1>8 DEF Operation

(* The control calls that claim a module.                                  *)
LEMMA CallsKeep ==
    ASSUME HostInv, NEW c \in Callers, NEW f \in Files, StopModule(c, f) \/ ReinitializeModule(c, f)
    PROVE  HostInv' /\ Decided
<1>0. /\ c \in Actors /\ f \in Loaded
      /\ ops[c].pc \notin Held /\ ops[c].pc # "attaching"
      /\ UNCHANGED <<loaded, loads, peers, control>>
  BY DEF StopModule, ReinitializeModule, Calls, Actors, Held, Waiting, hostVars
<1>1. CASE StopModule(c, f)
  BY <1>0, <1>1, StopClaimKeeps DEF StopModule
<1>2. CASE ReinitializeModule(c, f) /\ Over(c) /\ UNCHANGED rec
  <2>1. Targets(c)'
    BY <1>0, <1>2, OverFacts DEF HostInv, Targets, Loaded
  <2>2. \A g \in Files : Claimed(g)'
    BY <1>0, <1>2, OverFacts, ClaimKept DEF Targeting
  <2>3. UNCHANGED <<rec, xp>>
    BY <1>2 DEF ReinitializeModule
  <2>4. QED
    BY <1>0, <1>2, <2>1, <2>2, <2>3, OverFacts, ActorKeeps, Zenon DEF HostInv, HostTypes
<1>3. CASE /\ ReinitializeModule(c, f) /\ ~rec[f].busy
           /\ Goes(c, "reinit", f) /\ rec' = [rec EXCEPT ![f].busy = TRUE]
  <2>1. /\ rec' \in [Files -> Records]
        /\ rec[f].busy = FALSE /\ rec'[f].busy = TRUE
        /\ \A g \in Files \ {f} : rec'[g] = rec[g]
        /\ \A g \in Files : rec'[g].info = rec[g].info
    BY <1>3 DEF HostInv, HostTypes, Records
  <2>2. /\ ops' \in [Actors -> Operations] /\ Others(c)
        /\ ops'[c].pc = "reinit" /\ ops'[c].f = f /\ ops'[c].todo = ops[c].todo
    BY <1>0, <1>3, GoesTo DEF Targeting, Held, Waiting, Others
  <2>3. Targets(c)'
    BY <1>0, <2>2 DEF HostInv, Targets, Loaded
  <2>4. \A g \in Files : Claimed(g)'
    BY <1>0, <2>1, <2>2, ClaimTaken DEF Held, Waiting
  <2>5. ops'[c].pc # "attaching" /\ UNCHANGED xp
    BY <1>3, <2>2 DEF ReinitializeModule
  <2>6. QED
    BY <1>0, <2>1, <2>2, <2>3, <2>4, <2>5, ActorKeeps, Zenon DEF HostInv, HostTypes
<1>4. QED
  BY <1>1, <1>2, <1>3 DEF ReinitializeModule, ReinitRefused

(* The return of the native callback, with or without its caller.          *)
LEMMA ReinitReturnsKeeps ==
    ASSUME HostInv, NEW f \in Files, ReinitReturns(f)
    PROVE  HostInv' /\ Decided
<1>1. UNCHANGED <<loaded, loads, peers, control, rec>>
  BY DEF ReinitReturns, hostVars
<1>2. /\ xp' \in [Files -> Transports]
      /\ \A g \in Files : Sound(xp'[g]) /\ Advances(xp[g], xp'[g])
  <2>1. xp[f] \in Transports /\ Sound(xp[f])
    BY DEF HostInv, HostTypes, Ended
  <2>2. Moves(xp[f], [xp[f] EXCEPT !.lock = "free"])
    BY <2>1 DEF Moves, Transports, Sound, Advances
  <2>3. xp' = [xp EXCEPT ![f] = [xp[f] EXCEPT !.lock = "free"]]
    BY DEF ReinitReturns
  <2>4. QED
    BY <2>2, <2>3 DEF HostInv, HostTypes, Ended, Moves, Advances
<1>3. /\ ops' \in [Actors -> Operations]
      /\ \A c \in Actors : /\ ops'[c].f = ops[c].f /\ ops'[c].todo = ops[c].todo
                           /\ \/ ops'[c].pc = ops[c].pc
                              \/ ops[c].pc = "native" /\ ops'[c].pc = "drop"
  <2>1. \A c \in Actors : \/ ops'[c] = ops[c]
                          \/ ops[c].pc = "native" /\ ops'[c] = [ops[c] EXCEPT !.pc = "drop"]
    BY DEF ReinitReturns
  <2>2. \A c \in Actors : [ops[c] EXCEPT !.pc = "drop"] \in Operations
    BY DEF HostInv, HostTypes, Operations, Targeting, Held
  <2>3. ops' \in [Actors -> Operations]
    BY <2>2 DEF HostInv, HostTypes, ReinitReturns
  <2>4. \A c \in Actors : ops[c] \in Operations
    BY DEF HostInv, HostTypes
  <2>5. QED
    BY <2>1, <2>3, <2>4 DEF Operations
<1>4. HostTypes'
  BY <1>1, <1>2, <1>3 DEF HostInv, HostTypes
<1>5. \A g \in Files : Pending(g)' /\ Ended(g)'
  BY <1>1, <1>2 DEF HostInv, Pending, Ended, Loaded, Advances
<1>6. \A g \in Files : Claimed(g)'
  <2>1. \A g \in Files : HolderOf(g)' = HolderOf(g)
    BY <1>3 DEF HolderOf, Held, Waiting
  <2>2. QED
    BY <1>1, <2>1, SameClaims
<1>7. \A c \in Actors : Targets(c)'
  BY <1>1, <1>3 DEF HostInv, Targets, Loaded, Targeting, Held, Waiting
<1>8. \A c \in Actors : Selecting(c)'
  BY <1>1, <1>3 DEF HostInv, Selecting
<1>9. Decided
  <2>1. \A g \in Loaded : g \in Files
    BY DEF HostInv, HostTypes, Loaded, Range
  <2>2. QED
    BY <1>1, <1>2, <2>1 DEF Decided
<1>10. QED
  BY <1>4, <1>5, <1>6, <1>7, <1>8, <1>9 DEF HostInv

(* The selection of the controller, in its two steps.                      *)
LEMMA ControllerKeeps ==
    ASSUME HostInv, NEW c \in Callers, AttachController(c) \/ SelectController(c)
    PROVE  HostInv' /\ Decided
<1>0. c \in Actors /\ UNCHANGED <<loaded, loads, peers, rec, xp>>
  BY DEF Actors, AttachController, SelectController, hostVars
<1>1. CASE AttachController(c)
  <2>1. /\ ops' \in [Actors -> Operations] /\ Others(c)
        /\ ops[c].pc = "idle" /\ ops'[c].pc = "attaching" /\ ops'[c].todo = ops[c].todo
    BY <1>0, <1>1 DEF AttachController, HostInv, HostTypes, Operations, Others
  <2>2. control' = "attaching" /\ control = "unselected"
    BY <1>1 DEF AttachController
  <2>3. \A d \in Actors : ops[d].pc # "attaching"
    BY <2>2 DEF HostInv, Selecting
  <2>4. \A d \in Actors : Selecting(d)'
    BY <2>1, <2>2, <2>3 DEF Selecting, Others
  <2>5. control \notin Callers
    BY <2>2, HostAssumption DEF HostAssumption
  <2>6. Targets(c)'
    BY <1>0, <2>1 DEF HostInv, Targets, Loaded, Targeting, Held, Waiting
  <2>7. \A g \in Files : Claimed(g)'
    BY <1>0, <2>1, ClaimKept DEF Held, Waiting
  <2>8. QED
    BY <1>0, <2>1, <2>2, <2>4, <2>5, <2>6, <2>7
       DEF HostInv, HostTypes, Pending, Ended, Targets, Loaded, Others, Decided, Advances
<1>2. CASE SelectController(c)
  <2>1. /\ ops' \in [Actors -> Operations] /\ Others(c)
        /\ ops[c].pc = "attaching" /\ ops'[c].pc = "idle" /\ ops'[c].todo = ops[c].todo
    BY <1>0, <1>2 DEF SelectController, HostInv, HostTypes, Operations, Others
  <2>2. control' = c /\ control = "attaching"
    BY <1>0, <1>2, <2>1 DEF SelectController, HostInv, Selecting
  <2>3. \A d \in Actors : ops'[d].pc # "attaching"
    BY <1>0, <2>1 DEF HostInv, Selecting, Others
  <2>4. \A d \in Actors : Selecting(d)'
    BY <2>3 DEF Selecting
  <2>5. control \notin Callers
    BY <2>2, HostAssumption DEF HostAssumption
  <2>6. Targets(c)'
    BY <1>0, <2>1 DEF HostInv, Targets, Loaded, Targeting, Held, Waiting
  <2>7. \A g \in Files : Claimed(g)'
    BY <1>0, <2>1, ClaimKept DEF Held, Waiting
  <2>8. QED
    BY <1>0, <2>1, <2>2, <2>4, <2>5, <2>6, <2>7
       DEF HostInv, HostTypes, Pending, Ended, Targets, Loaded, Others, Decided, Advances
<1>3. QED
  BY <1>1, <1>2

(* The host's own shutdown, module by module.                              *)
LEMMA ShutdownKeeps ==
    ASSUME HostInv,
           Shutdown \/ ShutdownNext \/ ShutdownStops \/ ShutdownClaims \/ ShutdownDeadline
    PROVE  HostInv' /\ Decided
<1> DEFINE o == ops["host"]
<1>0. /\ "host" \in Actors /\ o \in Operations
      /\ UNCHANGED <<loaded, loads, peers, control>>
      /\ o.pc \notin Held /\ o.pc # "attaching"
  BY DEF Actors, HostInv, HostTypes, Held, Waiting, hostVars,
         Shutdown, ShutdownNext, ShutdownStops, ShutdownClaims, ShutdownDeadline
<1> HIDE DEF o
<1>1. ASSUME UNCHANGED <<rec, xp>>, ops' \in [Actors -> Operations], Others("host"),
             Targets("host")', ops'["host"].pc \notin Held, ops'["host"].pc # "attaching"
      PROVE  HostInv' /\ Decided
  <2>1. \A g \in Files : Claimed(g)'
    BY <1>0, <1>1, ClaimKept DEF o
  <2>2. QED
    BY <1>0, <1>1, <2>1, ActorKeeps, Zenon DEF HostInv, HostTypes, o
<1>2. CASE Shutdown
  <2>1. /\ ops' \in [Actors -> Operations] /\ Others("host")
        /\ ops'["host"].pc = "next" /\ ops'["host"].todo = loaded
    BY <1>0, <1>2 DEF Shutdown, HostInv, HostTypes, Operations, Others
  <2>2. Targets("host")'
    BY <1>0, <2>1 DEF Targets, Targeting, Held, Waiting, Loaded, Range, HostInv, HostTypes
  <2>3. QED
    BY <1>1, <1>2, <2>1, <2>2 DEF Shutdown, Held, Waiting
<1>3. CASE ShutdownNext
  <2> DEFINE n == [pc |-> IF Head(o.todo) \in scene.managed THEN "await" ELSE "next",
                   f |-> Head(o.todo), todo |-> Tail(o.todo)]
  <2>1. o.todo \in Seq(Files) /\ o.todo # <<>>
    BY <1>0, <1>3 DEF ShutdownNext, Operations, o
  <2>2. /\ Head(o.todo) = o.todo[1] /\ 1 \in 1..Len(o.todo) /\ Tail(o.todo) \in Seq(Files)
        /\ Len(Tail(o.todo)) = Len(o.todo) - 1 /\ Len(o.todo) \in Nat
        /\ \A i \in 1..Len(Tail(o.todo)) : i + 1 \in 1..Len(o.todo) /\ Tail(o.todo)[i] = o.todo[i + 1]
    BY <2>1
  <2>3. \A i \in 1..Len(o.todo) : o.todo[i] \in Loaded
    BY <1>0 DEF HostInv, Targets, o
  <2>4. Head(o.todo) \in Loaded /\ \A i \in 1..Len(Tail(o.todo)) : Tail(o.todo)[i] \in Loaded
    BY <2>2, <2>3
  <2>5. Loaded \subseteq Files
    BY DEF HostInv, HostTypes, Loaded, Range
  <2>6. n \in Operations
    BY <2>2, <2>4, <2>5 DEF Operations, Targeting
  <2>7. ops' = [ops EXCEPT !["host"] = n]
    BY <1>3 DEF ShutdownNext, o
  <2>8. ops' \in [Actors -> Operations] /\ Others("host") /\ ops'["host"] = n
    BY <1>0, <2>6, <2>7 DEF HostInv, HostTypes, Others
  <2>9. Targets("host")'
    BY <1>0, <2>4, <2>8 DEF Targets, Loaded
  <2>10. n.pc \notin Held /\ n.pc # "attaching"
    BY DEF Held, Waiting
  <2>11. QED
    BY <1>1, <1>3, <2>8, <2>9, <2>10 DEF ShutdownNext
<1>4. CASE ShutdownStops
  <2>1. o.f \in Loaded /\ o.f \in Files
    BY <1>0, <1>4 DEF ShutdownStops, HostInv, HostTypes, Targets, Targeting, Loaded, Range, o
  <2>2. /\ ops' \in [Actors -> Operations] /\ Others("host")
        /\ ops'["host"].pc = "claim" /\ ops'["host"].f = o.f /\ ops'["host"].todo = o.todo
    BY <1>0, <1>4, <2>1, GoesTo DEF ShutdownStops, At, Targeting, Others, o
  <2>3. Targets("host")'
    BY <1>0, <2>1, <2>2 DEF HostInv, Targets, Loaded, o
  <2>4. QED
    BY <1>1, <1>4, <2>2, <2>3 DEF ShutdownStops, Held, Waiting
<1>5. CASE ShutdownClaims
  <2>1. o.f \in Loaded
    BY <1>0, <1>5 DEF ShutdownClaims, HostInv, Targets, Targeting, o
  <2>2. QED
    BY <1>0, <1>5, <2>1, StopClaimKeeps DEF ShutdownClaims, o
<1>6. CASE ShutdownDeadline
  <2>1. /\ ops' \in [Actors -> Operations] /\ Others("host")
        /\ ops'["host"].pc \notin Targeting /\ ops'["host"].pc # "attaching"
        /\ ops'["host"].todo = o.todo
    BY <1>0, <1>6, OverFacts DEF ShutdownDeadline, o
  <2>2. Targets("host")'
    BY <1>0, <2>1 DEF HostInv, Targets, Loaded, o
  <2>3. QED
    BY <1>1, <1>6, <2>1, <2>2 DEF ShutdownDeadline, Targeting
<1>7. QED
  BY <1>2, <1>3, <1>4, <1>5, <1>6

(* Every step keeps the invariant and what was decided.                    *)
LEMMA HostInvNext == HostInv /\ [Next]_vars => HostInv' /\ (UNCHANGED vars \/ Decided)
<1> SUFFICES ASSUME HostInv, [Next]_vars PROVE HostInv' /\ (UNCHANGED vars \/ Decided)
  OBVIOUS
<1>1. CASE UNCHANGED vars
  BY <1>1 DEF vars, HostInv, HostTypes, Pending, Ended, Claimed, HolderOf, Targets, Selecting, Loaded
<1>2. CASE Next
  BY <1>2, LoadsKeep, PublishKeeps, TransportStepsKeep, BrokerKeeps, EnableKeeps, CallsKeep,
     OperationKeeps, ReinitReturnsKeeps, ControllerKeeps, ShutdownKeeps DEF Next
<1>3. QED
  BY <1>1, <1>2

(* The invariant holds in every behaviour of the host.                     *)
THEOREM HostInvariant == Spec => []HostInv
BY HostInvInit, HostInvNext, PTL DEF Spec

(* LifecycleExclusive holds in every behaviour: however control calls, the *)
(* shutdown, timeouts and cancellations overlap, a module is busy exactly  *)
(* while one operation holds its guard (LifecycleBusyGuard, stop_inner).   *)
THEOREM OneHolder == Spec => []LifecycleExclusive
<1>1. HostInv => LifecycleExclusive
  BY DEF HostInv, Claimed, LifecycleExclusive
<1>2. QED
  BY HostInvariant, <1>1, PTL

(* ListedStoppedIsOver holds in every behaviour: whatever the order of     *)
(* stops, faults and detaches, no module is listed as stopped that has not *)
(* stopped physically (stop_inner, peer_detached).                         *)
THEOREM StoppedIsStopped == Spec => []ListedStoppedIsOver
<1>1. HostInv => ListedStoppedIsOver
  BY DEF HostInv, HostTypes, Ended, ListedStoppedIsOver, Loaded, Range
<1>2. QED
  BY HostInvariant, <1>1, PTL

(* DecisionsStick holds in every behaviour: no stop, fault, detach or      *)
(* EnableModule revises a module listed as ended (snapshot, enable), and   *)
(* no second peer becomes the controller (attach_module_controller).       *)
THEOREM DecisionsAreFinal == Spec => DecisionsStick
<1>1. ASSUME HostInv, HostInv', [Next]_vars
      PROVE  [/\ \A f \in Loaded : Snapshot(f) \in Terminal => Snapshot(f)' \in Terminal
              /\ control \in Callers => control' = control]_vars
  <2>1. CASE UNCHANGED vars
    BY <2>1
  <2>2. CASE Decided
    <3>1. ASSUME NEW f \in Loaded, Snapshot(f) \in Terminal
          PROVE  Snapshot(f)' \in Terminal
      <4>1. /\ f \in Files /\ rec[f].info \in Infos /\ rec'[f].info \in Infos
            /\ xp[f] \in Transports /\ xp'[f] \in Transports
        BY <1>1 DEF HostInv, HostTypes, Records, Loaded, Range
      <4>2. \/ rec'[f].info = rec[f].info
            \/ rec'[f].info \in Terminal
        BY <2>2, <3>1 DEF Decided
      <4>3. Advances(xp[f], xp'[f])
        BY <2>2 DEF Decided
      <4>4. QED
        BY <3>1, <4>1, <4>2, <4>3, ListedTerminal DEF Snapshot, Advances
    <3>2. QED
      BY <2>2, <3>1 DEF Decided
  <2>3. QED
    BY <1>1, <2>1, <2>2, HostInvNext
<1>2. QED
  BY HostInvariant, <1>1, PTL DEF Spec, DecisionsStick
=============================================================================
