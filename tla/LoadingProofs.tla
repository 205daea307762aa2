----------------------------- MODULE LoadingProofs -----------------------------
(***************************************************************************)
(* What is proved of requests for a bus name and their resolution          *)
(* (module/resolve.rs, resolution.rs and host_callbacks.rs), for any       *)
(* number of callers, requests and provisioning attempts: ReadyTheorem,    *)
(* BindingTheorem and FaultTheorem.                                        *)
(*                                                                         *)
(* The invariant ties four things together: the list of loaded modules,    *)
(* of which one at most is live, and then the last (ListInv); the          *)
(* resolution's slot and its task (WorkInv); and where each caller is      *)
(* (CallerOk).  A step of a caller leaves list and task alone              *)
(* (CallerMoveKeeps); a step of the task before it settles leaves the slot *)
(* in flight (LadderKeeps).                                                *)
(*                                                                         *)
(* Then the order of a directory's modules, for any manifests              *)
(* (OrderTheorem), and the choice of a release's artifact, for any places  *)
(* it may be found in (AdmittedTheorem).                                   *)
(***************************************************************************)
EXTENDS Resolution, DirectoryLoad, FirstAdmitted,
        FiniteSetTheorems, SequenceTheorems, TLAPS

\* The callback bindings a module may be loaded under, and none.
Bindings == (Askers \cup {Nil}) \X Int

\* An entry of the list of loaded modules.
Entries ==
    [lib : {"own", "other"},
     st : {"resolved", "initializing", "ready", "faulted", "stopped"},
     lazy : BOOLEAN, by : Bindings, held : Bindings]

\* The list of loaded modules: only a lazy module waits to be started, one entry
\* at most is live and it is the last, and a binding is retained on the first
\* entry, by the caller that loaded it.
ListInv ==
    /\ list \in Seq(Entries)
    /\ \A i \in DOMAIN list : list[i].st = "resolved" => list[i].lazy
    /\ \A i \in DOMAIN list : Live(list[i]) => i = Len(list)
    /\ \A i \in DOMAIN list : list[i].held # Unbound => i = 1 /\ list[i].held = list[i].by

\* What no step but a removal or a retention does to an entry: it stays, with
\* its binding, a fault stays a fault, and only a module that was starting or
\* waiting to be started is starting.
Kept ==
    \A i \in DOMAIN list :
        /\ i \in DOMAIN list'
        /\ list'[i].held = list[i].held /\ list'[i].by = list[i].by
        /\ list'[i].lazy = list[i].lazy
        /\ list[i].st = "faulted" => list'[i].st = "faulted"
        /\ list'[i].st = "initializing" => list[i].st \in {"initializing", "resolved"}

\* attach_transport: an admissible module is listed last.
LEMMA AppendKeeps ==
    ASSUME ListInv, NEW lib \in {"own", "other"}, NEW st \in {"resolved", "initializing"},
           NEW by \in Bindings, Admissible(lib), list' = Listed(lib, st, by)
    PROVE  ListInv' /\ Kept /\ list' # <<>>
<1> DEFINE e == [lib |-> lib, st |-> st, lazy |-> st = "resolved", by |-> by,
                 held |-> Unbound]
<1>1. e \in Entries BY DEF Entries, Bindings, Unbound
<1>2. list' = Append(list, e) BY DEF Listed
<1>3. /\ e.st = st /\ e.lazy = (st = "resolved") /\ e.held = Unbound
  OBVIOUS
<1> HIDE DEF e
<1>4. list \in Seq(Entries) BY DEF ListInv
<1>5. /\ list' \in Seq(Entries) /\ Len(list') = Len(list) + 1 /\ Len(list) \in Nat
      /\ DOMAIN list' = 1 .. Len(list) + 1 /\ DOMAIN list = 1 .. Len(list)
      /\ list'[Len(list) + 1] = e
      /\ \A i \in DOMAIN list : list'[i] = list[i]
  BY <1>1, <1>2, <1>4
<1>6. \A i \in DOMAIN list : ~Live(list[i]) BY DEF Admissible, LiveMatch
<1>7. \A i \in DOMAIN list' : i \in DOMAIN list \/ i = Len(list) + 1 BY <1>5
<1>8. \A i \in DOMAIN list' : list'[i].st = "resolved" => list'[i].lazy
  <2>1. \A i \in DOMAIN list : list[i].st = "resolved" => list[i].lazy BY DEF ListInv
  <2> QED BY <1>3, <1>5, <1>7, <2>1
<1>9. \A i \in DOMAIN list' : Live(list'[i]) => i = Len(list')
  BY <1>5, <1>6, <1>7
<1>10. \A i \in DOMAIN list' : list'[i].held # Unbound => i = 1 /\ list'[i].held = list'[i].by
  BY <1>3, <1>5, <1>7 DEF ListInv
<1>11. Kept BY <1>5 DEF Kept
<1>12. list' # <<>> BY <1>5
<1> QED BY <1>5, <1>8, <1>9, <1>10, <1>11, <1>12 DEF ListInv

\* A module's life goes on; a module that is over is never live again.
LEMMA RunsKeeps ==
    ASSUME ListInv, ModuleRuns
    PROVE  ListInv' /\ Kept
<1>0. PICK k \in DOMAIN list : \E st \in Becomes(list[k].st) :
        list' = [list EXCEPT ![k].st = st]
  BY DEF ModuleRuns
<1>1. PICK st \in Becomes(list[k].st) : list' = [list EXCEPT ![k].st = st]
  BY <1>0
<1>2. list \in Seq(Entries) BY DEF ListInv
<1>3. list[k] \in Entries BY <1>2
<1> DEFINE e == [list[k] EXCEPT !.st = st]
<1>4. st \in {"initializing", "ready", "faulted", "stopped"} BY <1>1 DEF Becomes
<1>5. e \in Entries BY <1>3, <1>4 DEF Entries
<1>6. /\ e.st = st /\ e.lazy = list[k].lazy /\ e.held = list[k].held /\ e.by = list[k].by
  BY <1>3 DEF Entries
<1>7. list' = [list EXCEPT ![k] = e] BY <1>1
<1> HIDE DEF e
<1>8. /\ list' \in Seq(Entries) /\ Len(list') = Len(list) /\ DOMAIN list' = DOMAIN list
      /\ list'[k] = e
      /\ \A i \in DOMAIN list : i # k => list'[i] = list[i]
  BY <1>2, <1>5, <1>7
<1>9. /\ Live(e) => Live(list[k])
      /\ st # "resolved"
      /\ list[k].st # "faulted"
      /\ st = "initializing" => list[k].st \in {"initializing", "resolved"}
  BY <1>1, <1>6 DEF Becomes, Live
<1>10. \A i \in DOMAIN list' : list'[i].st = "resolved" => list'[i].lazy
  BY <1>6, <1>8, <1>9 DEF ListInv
<1>11. \A i \in DOMAIN list' : Live(list'[i]) => i = Len(list')
  BY <1>8, <1>9 DEF ListInv
<1>12. \A i \in DOMAIN list' : list'[i].held # Unbound => i = 1 /\ list'[i].held = list'[i].by
  BY <1>6, <1>8 DEF ListInv
<1>13. Kept BY <1>6, <1>8, <1>9 DEF Kept
<1> QED BY <1>8, <1>10, <1>11, <1>12, <1>13 DEF ListInv

\* What RemoveAt leaves of a sequence.
LEMMA RemoveFacts ==
    ASSUME NEW S, NEW s \in Seq(S), NEW k \in DOMAIN s
    PROVE  /\ RemoveAt(s, k) \in Seq(S)
           /\ Len(RemoveAt(s, k)) = Len(s) - 1
           /\ \A i \in 1 .. Len(s) - 1 :
                RemoveAt(s, k)[i] = IF i < k THEN s[i] ELSE s[i + 1]
<1> DEFINE a == SubSeq(s, 1, k - 1)
           b == SubSeq(s, k + 1, Len(s))
<1>1. k \in 1 .. Len(s) /\ Len(s) \in Nat OBVIOUS
<1>2. /\ a \in Seq(S) /\ Len(a) = k - 1
      /\ \A i \in 1 .. k - 1 : a[i] = s[i]
  BY <1>1
<1>3. /\ b \in Seq(S) /\ Len(b) = Len(s) - k
      /\ \A i \in 1 .. Len(s) - k : b[i] = s[k + i]
  BY <1>1
<1>4. RemoveAt(s, k) = a \o b BY DEF RemoveAt
<1> HIDE DEF a, b
<1>5. /\ a \o b \in Seq(S) /\ Len(a \o b) = Len(a) + Len(b)
      /\ \A i \in 1 .. Len(a) + Len(b) :
            (a \o b)[i] = IF i <= Len(a) THEN a[i] ELSE b[i - Len(a)]
  BY <1>2, <1>3, ConcatProperties
<1>6. Len(a) + Len(b) = Len(s) - 1 BY <1>1, <1>2, <1>3
<1>7. ASSUME NEW i \in 1 .. Len(s) - 1
      PROVE  (a \o b)[i] = IF i < k THEN s[i] ELSE s[i + 1]
  <2>1. CASE i < k
    <3>1. i \in 1 .. k - 1 /\ i <= Len(a) BY <1>1, <1>2, <2>1
    <3> QED BY <1>2, <1>5, <1>6, <2>1, <3>1
  <2>2. CASE ~(i < k)
    <3>1. i - (k - 1) \in 1 .. Len(s) - k /\ ~(i <= Len(a)) BY <1>1, <1>2, <2>2
    <3>2. (a \o b)[i] = b[i - (k - 1)] BY <1>2, <1>5, <1>6, <3>1
    <3>3. b[i - (k - 1)] = s[k + (i - (k - 1))] BY <1>3, <3>1
    <3>4. k + (i - (k - 1)) = i + 1 BY <1>1
    <3> QED BY <2>2, <3>2, <3>3, <3>4
  <2> QED BY <2>1, <2>2
<1> QED BY <1>4, <1>5, <1>6, <1>7

\* The entry of a binding that failed is taken out; the others stay.
LEMMA RemovalKeeps ==
    ASSUME ListInv, NEW k \in DOMAIN list, list' = RemoveAt(list, k)
    PROVE  /\ ListInv'
           /\ \A i \in DOMAIN list : i # k => \E j \in DOMAIN list' : list'[j] = list[i]
<1>1. list \in Seq(Entries) /\ k \in 1 .. Len(list) /\ Len(list) \in Nat BY DEF ListInv
<1>2. /\ list' \in Seq(Entries) /\ Len(list') = Len(list) - 1
      /\ DOMAIN list' = 1 .. Len(list) - 1
      /\ \A i \in DOMAIN list' : list'[i] = IF i < k THEN list[i] ELSE list[i + 1]
  <2>1. /\ list' \in Seq(Entries) /\ Len(list') = Len(list) - 1
        /\ \A i \in 1 .. Len(list) - 1 : list'[i] = IF i < k THEN list[i] ELSE list[i + 1]
    BY <1>1, RemoveFacts
  <2>2. DOMAIN list' = 1 .. Len(list') BY <2>1
  <2>3. DOMAIN list' = 1 .. Len(list) - 1 BY <2>1, <2>2, Zenon
  <2> QED BY <2>1, <2>3, Zenon
<1>3. ASSUME NEW i \in DOMAIN list'
      PROVE  \E j \in DOMAIN list : list'[i] = list[j] /\ (j = i \/ (j = i + 1))
                /\ (j = Len(list) => i = Len(list'))
  <2>1. CASE i < k
    BY <1>1, <1>2, <2>1
  <2>2. CASE ~(i < k)
    BY <1>1, <1>2, <2>2
  <2> QED BY <2>1, <2>2
<1>4. \A i \in DOMAIN list' : list'[i].st = "resolved" => list'[i].lazy
  BY <1>3 DEF ListInv
<1>5. \A i \in DOMAIN list' : Live(list'[i]) => i = Len(list')
  BY <1>3 DEF ListInv
<1>6. \A i \in DOMAIN list' : list'[i].held # Unbound => i = 1 /\ list'[i].held = list'[i].by
  <2> SUFFICES ASSUME NEW i \in DOMAIN list', list'[i].held # Unbound
               PROVE  i = 1 /\ list'[i].held = list'[i].by
    OBVIOUS
  <2>1. PICK j \in DOMAIN list : list'[i] = list[j] /\ (j = i \/ j = i + 1) BY <1>3
  <2>2. j = 1 /\ list[j].held = list[j].by BY <2>1 DEF ListInv
  <2>3. i \in Nat /\ i >= 1 BY <1>2
  <2> QED BY <2>1, <2>2, <2>3
<1>7. ASSUME NEW i \in DOMAIN list, i # k
      PROVE  \E j \in DOMAIN list' : list'[j] = list[i]
  <2>1. CASE i < k
    <3>1. i \in DOMAIN list' BY <1>1, <1>2, <2>1
    <3> QED BY <1>2, <2>1, <3>1
  <2>2. CASE i > k
    <3>1. i - 1 \in DOMAIN list' /\ ~(i - 1 < k) BY <1>1, <1>2, <2>2
    <3>2. list'[i - 1] = list[(i - 1) + 1] BY <1>2, <3>1
    <3>3. (i - 1) + 1 = i BY <1>1
    <3> QED BY <3>1, <3>2, <3>3
  <2> QED BY <1>1, <1>7, <2>1, <2>2
<1> QED BY <1>2, <1>4, <1>5, <1>6, <1>7 DEF ListInv

\* retain_host_callback_binding: the binding of the first entry is written down.
LEMMA HeldKeeps ==
    ASSUME ListInv, list # <<>>, NEW b \in Bindings, Head(list).by = b,
           list' = [list EXCEPT ![1].held = b]
    PROVE  /\ ListInv' /\ list' # <<>> /\ Head(list').held = b
           /\ Head(list').st = Head(list).st /\ Head(list').lazy = Head(list).lazy
           /\ \A i \in DOMAIN list : i \in DOMAIN list' /\ list'[i].st = list[i].st
<1> DEFINE e == [list[1] EXCEPT !.held = b]
<1>1. list \in Seq(Entries) BY DEF ListInv
<1>2. 1 \in DOMAIN list /\ Head(list) = list[1] /\ Len(list) \in Nat BY <1>1
<1>3. list[1] \in Entries BY <1>1, <1>2
<1>4. e \in Entries BY <1>3 DEF Entries
<1>5. /\ e.st = list[1].st /\ e.lazy = list[1].lazy /\ e.held = b /\ e.by = b
  BY <1>2, <1>3 DEF Entries
<1>6. list' = [list EXCEPT ![1] = e] BY <1>2
<1> HIDE DEF e
<1>7. /\ list' \in Seq(Entries) /\ Len(list') = Len(list) /\ DOMAIN list' = DOMAIN list
      /\ list'[1] = e /\ list' # <<>>
      /\ \A i \in DOMAIN list : i # 1 => list'[i] = list[i]
  BY <1>1, <1>2, <1>4, <1>6
<1>8. Head(list') = e BY <1>7
<1>9. \A i \in DOMAIN list : list'[i].st = list[i].st /\ list'[i].lazy = list[i].lazy
  BY <1>5, <1>7
<1>10. \A i \in DOMAIN list' : list'[i].st = "resolved" => list'[i].lazy
  BY <1>7, <1>9 DEF ListInv
<1>11. \A i \in DOMAIN list' : Live(list'[i]) => i = Len(list')
  BY <1>7, <1>9 DEF ListInv, Live
<1>12. \A i \in DOMAIN list' : list'[i].held # Unbound => i = 1 /\ list'[i].held = list'[i].by
  BY <1>5, <1>7 DEF ListInv
<1> QED BY <1>2, <1>5, <1>7, <1>8, <1>9, <1>10, <1>11, <1>12 DEF ListInv

-----------------------------------------------------------------------------
\* The binding b is retained by the module that was loaded under it.
Holds(b) == \E i \in DOMAIN list : list[i].held = b /\ list[i].by = b

\* What the slot "ready" stands for (ReadyIsSettled).
ReadyHead == list # <<>> /\ (Head(list).st = "initializing" => Head(list).lazy)

\* Where the resolution's task is while its slot is in flight.
Busy == {"start", "search", "cache", "load", "bind", "attach", "init", "retain",
         "settle", "finish"}

\* What the variables are, as far as the proofs need it.
ResolutionType ==
    /\ plan \in Scenes
    /\ DOMAIN chan = {"value", "closed"}
    /\ DOMAIN work = {"pc", "cb", "tries", "selected", "result"}
    /\ work.cb \in Askers \cup {Nil} /\ work.tries \in Nat
    /\ DOMAIN req = Askers
    /\ \A c \in Askers : DOMAIN req[c] = {"pc", "asks", "stale", "answer", "got"}

\* The slot and its task: in flight while the task runs, ready only with a module
\* that settled, and a binding is selected only after it was retained.
WorkInv ==
    /\ work.pc \in Busy \cup {"none", "over"}
    /\ slot \in {"free", "flight", "ready", "failed"}
    /\ slot = "free" <=> work.pc = "none"
    /\ work.pc \in Busy => slot = "flight"
    /\ chan.closed => work.pc = "over"
    /\ work.pc = "settle" => list # <<>>
    /\ work.pc = "finish" => work.result \in {"ready", "failed"}
    /\ work.pc = "finish" /\ work.result = "ready" => ReadyHead
    /\ slot = "ready" => ReadyHead
    /\ work.selected # Unbound =>
          /\ work.pc \in {"settle", "finish", "over"}
          /\ list # <<>> /\ Head(list).held = work.selected

\* A caller, and what it has found out: a caller with a callback that goes to
\* the module holds a binding, its own if it insists on that, and one that saw a
\* fault before it asked was not let through to a new module.
CallerOk(c) ==
    /\ req[c].pc = "woken" => Callbacks(c)
    /\ Callbacks(c) =>
        /\ req[c].pc \in {"check", "serving"} => work.pc = "over"
        /\ req[c].pc = "serving" =>
              /\ plan.kind[c] = "single" => req[c].got = Own(c)
              /\ Holds(req[c].got)
        /\ req[c].pc = "prepare" /\ slot = "free" /\ req[c].stale => Faulty
        /\ req[c].pc = "claim" /\ slot = "free" => ~req[c].stale
        /\ req[c].pc \in {"wait", "woken"} => ~req[c].stale

\* The invariant.
ResolutionInv ==
    /\ ResolutionType
    /\ ListInv
    /\ WorkInv
    /\ \A c \in Askers : CallerOk(c)

\* What follows when every entry is kept (Kept).
LEMMA KeptFacts ==
    ASSUME ListInv, ListInv', Kept
    PROVE  /\ list # <<>> => list' # <<>> /\ Head(list').held = Head(list).held
           /\ ReadyHead => ReadyHead'
           /\ Faulty => Faulty'
           /\ \A b : Holds(b) => Holds(b)'
<1>1. list \in Seq(Entries) /\ list' \in Seq(Entries) BY DEF ListInv
<1>2. ASSUME list # <<>>
      PROVE  /\ 1 \in DOMAIN list /\ Head(list) = list[1]
             /\ 1 \in DOMAIN list' /\ Head(list') = list'[1] /\ list' # <<>>
  <2>1. 1 \in DOMAIN list /\ Head(list) = list[1] BY <1>1, <1>2
  <2>2. 1 \in DOMAIN list' BY <2>1 DEF Kept
  <2>3. list' # <<>> /\ Head(list') = list'[1] BY <1>1, <2>2
  <2> QED BY <2>1, <2>2, <2>3
<1>3. list # <<>> => list' # <<>> /\ Head(list').held = Head(list).held
  BY <1>2 DEF Kept
<1>4. ReadyHead => ReadyHead'
  <2> SUFFICES ASSUME ReadyHead PROVE ReadyHead'
    OBVIOUS
  <2>1. list # <<>> BY DEF ReadyHead
  <2>2. /\ list'[1].lazy = list[1].lazy
        /\ list'[1].st = "initializing" => list[1].st \in {"initializing", "resolved"}
    BY <1>2, <2>1 DEF Kept
  <2>3. list[1].st = "resolved" => list[1].lazy BY <1>2, <2>1 DEF ListInv
  <2>4. list[1].st = "initializing" => list[1].lazy BY <1>2, <2>1 DEF ReadyHead
  <2>5. list'[1].st = "initializing" => list'[1].lazy BY <2>2, <2>3, <2>4
  <2> QED BY <1>2, <2>1, <2>5 DEF ReadyHead
<1>5. Faulty => Faulty' BY DEF Faulty, Kept
<1>6. \A b : Holds(b) => Holds(b)' BY DEF Holds, Kept
<1> QED BY <1>3, <1>4, <1>5, <1>6

\* A step that leaves the list alone.
LEMMA SameList ==
    ASSUME ListInv, list' = list
    PROVE  ListInv' /\ Kept
BY DEF ListInv, Kept

\* A retained binding is on a live module, and then nothing is faulted.
LEMMA RetainsMeans ==
    ASSUME ListInv, NEW b, Retains(b)
    PROVE  Holds(b) /\ ~Faulty
<1>1. b # Unbound BY DEF Retains
<1>2. PICK i \in DOMAIN list : list[i].held = b /\ Live(list[i]) BY DEF Retains
<1>3. i = 1 /\ list[i].by = b /\ i = Len(list) BY <1>1, <1>2 DEF ListInv
<1>4. list \in Seq(Entries) BY DEF ListInv
<1>5. \A k \in DOMAIN list : k = i BY <1>3, <1>4
<1>6. ~Faulty BY <1>2, <1>5 DEF Faulty, Live
<1> QED BY <1>2, <1>3, <1>6 DEF Holds

-----------------------------------------------------------------------------
\* Nothing is loaded and nobody has asked.
LEMMA ResolutionInitInv == ASSUME ResolutionInit PROVE ResolutionInv
<1>1. ResolutionType
  <2>1. work.cb \in Askers \cup {Nil} /\ work.tries \in Nat BY DEF ResolutionInit, NoWork
  <2>2. DOMAIN work = {"pc", "cb", "tries", "selected", "result"}
    BY DEF ResolutionInit, NoWork
  <2>3. DOMAIN chan = {"value", "closed"} BY DEF ResolutionInit
  <2>4. \A c \in Askers : DOMAIN req[c] = {"pc", "asks", "stale", "answer", "got"}
    BY DEF ResolutionInit, NoRequest
  <2> QED BY <2>1, <2>2, <2>3, <2>4 DEF ResolutionInit, ResolutionType
<1>2. ListInv BY DEF ResolutionInit, ListInv
<1>3. WorkInv BY DEF ResolutionInit, WorkInv, NoWork, Busy
<1>4. \A c \in Askers : CallerOk(c)
  <2>1. \A c \in Askers : req[c].pc = "idle" BY DEF ResolutionInit, NoRequest
  <2> QED BY <2>1 DEF CallerOk
<1> QED BY <1>1, <1>2, <1>3, <1>4 DEF ResolutionInv

\* The slot as the callers and the host move it: they never free it.
SlotSettles ==
    \/ slot' = slot
    \/ slot = "ready" /\ slot' = "failed"
    \/ slot = "flight" /\ slot' = "failed" /\ chan.closed

\* The slot and its task, when a caller or the host makes the step.
LEMMA WorkKept ==
    ASSUME WorkInv, ListInv, ListInv', Kept, SlotSettles, UNCHANGED <<chan, work>>
    PROVE  WorkInv'
<1>1. /\ list # <<>> => list' # <<>> /\ Head(list').held = Head(list).held
      /\ ReadyHead => ReadyHead'
  BY KeptFacts
<1>2. work' = work /\ chan' = chan OBVIOUS
<1>3. slot' = "ready" => slot = "ready" BY DEF SlotSettles
<1>4. slot' \in {"free", "flight", "ready", "failed"} BY DEF SlotSettles, WorkInv
<1>5. slot' = "free" <=> slot = "free" BY DEF SlotSettles
<1>6. work.pc \in Busy => slot' = "flight" BY DEF SlotSettles, WorkInv, Busy
<1> HIDE DEF ReadyHead
<1>7. /\ work.pc = "settle" => list' # <<>>
      /\ work.pc = "finish" /\ work.result = "ready" => ReadyHead'
      /\ slot' = "ready" => ReadyHead'
  BY <1>1, <1>3 DEF WorkInv
<1>8. work.selected # Unbound =>
          /\ work.pc \in {"settle", "finish", "over"}
          /\ list' # <<>> /\ Head(list').held = work.selected
  BY <1>1 DEF WorkInv
<1> QED BY <1>2, <1>4, <1>5, <1>6, <1>7, <1>8 DEF WorkInv, Busy

\* Another caller's step, or the resolution's, seen from a caller.
LEMMA CallerKept ==
    ASSUME WorkInv, ListInv, ListInv', NEW c \in Askers, CallerOk(c),
           req'[c] = req[c], plan' = plan,
           Kept \/ work.pc \in {"init", "retain"},
           work.pc = "over" => work'.pc = "over",
           slot' = "free" => slot = "free"
    PROVE  CallerOk(c)'
<1>1. Callbacks(c)' = Callbacks(c) /\ Own(c)' = Own(c) BY DEF Callbacks, Own
<1>2. CASE Kept
  <2>1. Faulty => Faulty' BY <1>2, KeptFacts
  <2>2. Holds(req[c].got) => Holds(req[c].got)' BY <1>2, KeptFacts
  <2> HIDE DEF Holds, Faulty, Callbacks, Own
  <2> QED BY <1>1, <2>1, <2>2 DEF CallerOk
<1>3. CASE work.pc \in {"init", "retain"}
  <2>1. slot # "free" /\ work.pc # "over" BY <1>3 DEF WorkInv, Busy
  <2> QED BY <1>1, <2>1 DEF CallerOk
<1> QED BY <1>2, <1>3

-----------------------------------------------------------------------------
(* The callers.                                                            *)

\* A caller asks, or is refused at once.
LEMMA AskKeeps ==
    ASSUME ResolutionInv, NEW c \in Askers, Ask(c) \/ AskRefused(c)
    PROVE  ResolutionInv'
<1> USE DEF ResolutionInv
<1>1. UNCHANGED <<plan, slot, chan, work, list>> BY DEF Ask, AskRefused
<1>2. ListInv' /\ Kept BY <1>1, SameList
<1>3. WorkInv'
  BY <1>1, <1>2, WorkKept DEF SlotSettles
<1>4. ResolutionType'
  BY <1>1 DEF ResolutionType, Ask, AskRefused
<1>5. \A d \in Askers \ {c} : req'[d] = req[d] BY DEF Ask, AskRefused, ResolutionType
<1>6. \A d \in Askers \ {c} : CallerOk(d)'
  BY <1>1, <1>2, <1>5, CallerKept
<1>7. CallerOk(c)'
  <2>1. CASE Ask(c)
    <3>1. /\ req'[c].pc = IF Callbacks(c) THEN "prepare" ELSE "claim"
          /\ req'[c].stale = Faulty
      BY <2>1 DEF Ask, ResolutionType
    <3>2. Faulty' = Faulty BY <1>1 DEF Faulty
    <3>3. Callbacks(c)' = Callbacks(c) BY <1>1 DEF Callbacks
    <3> QED BY <3>1, <3>2, <3>3 DEF CallerOk
  <2>2. CASE AskRefused(c)
    <3>1. req'[c].pc = "idle" BY <2>2 DEF AskRefused, ResolutionType
    <3> QED BY <3>1 DEF CallerOk
  <2> QED BY <2>1, <2>2
<1> QED BY <1>2, <1>3, <1>4, <1>6, <1>7

\* A caller that has its answer is idle.
LEMMA AnswerFacts ==
    ASSUME ResolutionType, NEW c \in Askers, NEW answer, NEW got, Answer(c, answer, got)
    PROVE  /\ req'[c].pc = "idle" /\ req'[c].answer = answer /\ req'[c].got = got
           /\ req'[c].stale = req[c].stale
           /\ \A d \in Askers \ {c} : req'[d] = req[d]
           /\ DOMAIN req' = Askers
           /\ \A d \in Askers : DOMAIN req'[d] = {"pc", "asks", "stale", "answer", "got"}
BY DEF Answer, ResolutionType

\* A caller that only moves on keeps the rest.
LEMMA TurnFacts ==
    ASSUME ResolutionType, NEW c \in Askers, NEW pc, Turn(c, pc)
    PROVE  /\ req'[c].pc = pc /\ req'[c].answer = req[c].answer
           /\ req'[c].stale = req[c].stale
           /\ \A d \in Askers \ {c} : req'[d] = req[d]
           /\ DOMAIN req' = Askers
           /\ \A d \in Askers : DOMAIN req'[d] = {"pc", "asks", "stale", "answer", "got"}
BY DEF Turn, ResolutionType

\* What every step of a caller leaves alone, but for the one that claims.
CallerMoves(c) ==
    /\ UNCHANGED <<plan, chan, work, list>>
    /\ SlotSettles
    /\ \A d \in Askers \ {c} : req'[d] = req[d]
    /\ DOMAIN req' = Askers
    /\ \A d \in Askers : DOMAIN req'[d] = {"pc", "asks", "stale", "answer", "got"}

\* A step of a caller keeps the invariant if it keeps CallerOk of that caller.
LEMMA CallerMoveKeeps ==
    ASSUME ResolutionInv, NEW c \in Askers, CallerMoves(c), CallerOk(c)'
    PROVE  ResolutionInv'
<1> USE DEF ResolutionInv
<1>1. UNCHANGED <<plan, chan, work, list>> BY DEF CallerMoves
<1>2. ListInv' /\ Kept BY <1>1, SameList
<1>3. WorkInv' BY <1>1, <1>2, WorkKept DEF CallerMoves
<1>4. ResolutionType' BY <1>1 DEF ResolutionType, CallerMoves
<1>5. slot' = "free" => slot = "free" BY DEF CallerMoves, SlotSettles
<1>6. \A d \in Askers \ {c} : CallerOk(d)'
  BY <1>1, <1>2, <1>5, CallerKept DEF CallerMoves
<1> QED BY <1>2, <1>3, <1>4, <1>6

\* A caller gets its answer.
LEMMA AnswerKeeps ==
    ASSUME ResolutionInv, NEW c \in Askers, NEW answer, NEW got, Answer(c, answer, got),
           UNCHANGED <<plan, chan, work, list>>, SlotSettles
    PROVE  ResolutionInv'
<1>1. ResolutionType BY DEF ResolutionInv
<1>2. CallerMoves(c) BY <1>1, AnswerFacts DEF CallerMoves
<1>3. req'[c].pc = "idle" BY <1>1, AnswerFacts
<1>4. CallerOk(c)' BY <1>3 DEF CallerOk
<1> QED BY <1>2, <1>4, CallerMoveKeeps

\* A caller moves on, to a place it may be in.
LEMMA TurnKeeps ==
    ASSUME ResolutionInv, NEW c \in Askers, NEW pc, Turn(c, pc),
           UNCHANGED <<plan, chan, work, list>>, slot' = slot,
           \/ pc \in {"serving", "wait"} /\ ~Callbacks(c)
           \/ pc = "claim" /\ ~(Callbacks(c) /\ slot = "free" /\ req[c].stale)
           \/ pc = "check" /\ slot = "ready"
           \/ pc = "woken" /\ req[c].pc = "wait" /\ Callbacks(c)
    PROVE  ResolutionInv'
<1>1. ResolutionType BY DEF ResolutionInv
<1>2. CallerMoves(c) BY <1>1, TurnFacts DEF CallerMoves, SlotSettles
<1>3. req'[c].pc = pc /\ req'[c].stale = req[c].stale BY <1>1, TurnFacts
<1>4. Callbacks(c)' = Callbacks(c) BY DEF Callbacks
<1>5. slot = "ready" => work.pc = "over" BY DEF ResolutionInv, WorkInv
<1>6. CallerOk(c) BY DEF ResolutionInv
<1> HIDE DEF Callbacks
<1>7. CallerOk(c)'
  <2>1. CASE pc \in {"serving", "wait"} /\ ~Callbacks(c) BY <1>3, <1>4, <2>1 DEF CallerOk
  <2>2. CASE pc = "claim" /\ ~(Callbacks(c) /\ slot = "free" /\ req[c].stale)
    BY <1>3, <1>4, <2>2 DEF CallerOk
  <2>3. CASE pc = "check" /\ slot = "ready" BY <1>3, <1>4, <1>5, <2>3 DEF CallerOk
  <2>4. CASE pc = "woken" /\ req[c].pc = "wait" /\ Callbacks(c)
    BY <1>3, <1>4, <1>6, <2>4 DEF CallerOk
  <2> QED BY <2>1, <2>2, <2>3, <2>4
<1> QED BY <1>2, <1>7, CallerMoveKeeps

\* ensure_loaded_inner: the checks of a caller with callbacks before it claims.
LEMMA PrepareKeeps ==
    ASSUME ResolutionInv, NEW c \in Askers, Prepare(c)
    PROVE  ResolutionInv'
<1>1. UNCHANGED <<plan, chan, work, list>> /\ slot' = slot BY DEF Prepare
<1>2. SlotSettles BY <1>1 DEF SlotSettles
<1>3. \/ \E answer, got : Answer(c, answer, got)
      \/ list = <<>> /\ Turn(c, "claim")
  BY DEF Prepare
<1>4. ASSUME list = <<>>, Turn(c, "claim") PROVE ResolutionInv'
  <2>1. ~Faulty BY <1>4 DEF Faulty
  <2>2. req[c].pc = "prepare" BY DEF Prepare
  <2>3. ~(Callbacks(c) /\ slot = "free" /\ req[c].stale)
    BY <2>1, <2>2 DEF ResolutionInv, CallerOk
  <2> QED BY <1>1, <1>4, <2>3, TurnKeeps
<1> QED BY <1>1, <1>2, <1>3, <1>4, AnswerKeeps

\* A caller finds the slot free and starts the resolution.
LEMMA ClaimedKeeps ==
    ASSUME ResolutionInv, NEW c \in Askers, req[c].pc = "claim", slot = "free", Claimed(c),
           UNCHANGED <<plan, chan, list>>
    PROVE  ResolutionInv'
<1> USE DEF ResolutionInv
<1>1. Turn(c, "wait") /\ slot' = "flight" BY DEF Claimed
<1>2. ListInv' /\ Kept BY SameList
<1>3. /\ req'[c].pc = "wait" /\ req'[c].stale = req[c].stale
      /\ \A d \in Askers \ {c} : req'[d] = req[d]
      /\ DOMAIN req' = Askers
      /\ \A d \in Askers : DOMAIN req'[d] = {"pc", "asks", "stale", "answer", "got"}
  BY <1>1, TurnFacts
<1>4. /\ work'.pc = "start" /\ work'.selected = Unbound /\ work'.tries = 0
      /\ work'.cb \in Askers \cup {Nil}
      /\ DOMAIN work' = {"pc", "cb", "tries", "selected", "result"}
  BY DEF Claimed, NoWork
<1>5. work.pc = "none" BY DEF WorkInv
<1>6. WorkInv'
  <2>1. ~chan.closed BY <1>5 DEF WorkInv
  <2>2. chan' = chan OBVIOUS
  <2>3. work'.selected = Unbound' BY <1>4 DEF Unbound
  <2> QED BY <1>1, <1>4, <2>1, <2>2, <2>3 DEF WorkInv, Busy
<1>7. ResolutionType' BY <1>3, <1>4 DEF ResolutionType
<1>8. \A d \in Askers \ {c} : CallerOk(d)'
  BY <1>1, <1>2, <1>3, <1>5, CallerKept
<1>9. CallerOk(c)'
  <2>1. Callbacks(c)' = Callbacks(c) BY DEF Callbacks
  <2>2. Callbacks(c) => ~req[c].stale BY DEF CallerOk
  <2> QED BY <1>3, <2>1, <2>2 DEF CallerOk
<1> QED BY <1>2, <1>6, <1>7, <1>8, <1>9

\* A caller claims, joins, or finds the resolution settled.
LEMMA ClaimKeeps ==
    ASSUME ResolutionInv, NEW c \in Askers, Claim(c)
    PROVE  ResolutionInv'
<1>1. UNCHANGED <<plan, chan, list>> /\ req[c].pc = "claim" BY DEF Claim
<1>2. slot \in {"free", "flight", "ready", "failed"} BY DEF ResolutionInv, WorkInv
<1>3. CASE slot = "free"
  <2>1. Claimed(c) BY <1>3 DEF Claim
  <2> QED BY <1>1, <1>3, <2>1, ClaimedKeeps
<1>4. CASE slot # "free"
  <2>1. UNCHANGED <<slot, work>> BY <1>2, <1>4 DEF Claim
  <2>2. \/ \E answer, got : Answer(c, answer, got)
        \/ Turn(c, "wait") /\ ~Callbacks(c)
        \/ Turn(c, "serving") /\ ~Callbacks(c)
        \/ Turn(c, "check") /\ slot = "ready"
    BY <1>2, <1>4 DEF Claim
  <2>3. SlotSettles BY <2>1 DEF SlotSettles
  <2>4. ASSUME NEW answer, NEW got, Answer(c, answer, got) PROVE ResolutionInv'
    BY <1>1, <2>1, <2>3, <2>4, AnswerKeeps
  <2>5. ASSUME NEW pc, Turn(c, pc),
               \/ pc \in {"serving", "wait"} /\ ~Callbacks(c)
               \/ pc = "check" /\ slot = "ready"
        PROVE  ResolutionInv'
    BY <1>1, <2>1, <2>5, TurnKeeps
  <2> QED BY <2>2, <2>4, <2>5
<1> QED BY <1>3, <1>4

\* A caller finds the module ready and checks what it retains.
LEMMA CheckKeeps ==
    ASSUME ResolutionInv, NEW c \in Askers, CheckRetained(c)
    PROVE  ResolutionInv'
<1> DEFINE b == IF plan.kind[c] = "single" THEN Own(c) ELSE Retained
<1>1. UNCHANGED <<plan, chan, work, list>> /\ slot' = slot BY DEF CheckRetained
<1>2. SlotSettles BY <1>1 DEF SlotSettles
<1>3. req[c].pc = "check" BY DEF CheckRetained
<1>4. \/ Answer(c, "failed", Unbound)
      \/ Retains(b) /\ req' = [req EXCEPT ![c].pc = "serving", ![c].got = b]
  BY DEF CheckRetained
<1>5. ASSUME Retains(b), req' = [req EXCEPT ![c].pc = "serving", ![c].got = b]
      PROVE  ResolutionInv'
  <2>1. Holds(b) BY <1>5, RetainsMeans DEF ResolutionInv
  <2>2. plan.kind[c] = "single" => b = Own(c) OBVIOUS
  <2> HIDE DEF b
  <2>3. ResolutionType BY DEF ResolutionInv
  <2>4. CallerMoves(c) BY <1>1, <1>2, <1>5, <2>3 DEF CallerMoves, ResolutionType
  <2>5. req'[c].pc = "serving" /\ req'[c].got = b BY <1>5, <2>3 DEF ResolutionType
  <2>6. Callbacks(c) => work.pc = "over" BY <1>3 DEF ResolutionInv, CallerOk
  <2>7. Holds(req[c].got)' BY <1>1, <2>1, <2>5 DEF Holds
  <2>8. Callbacks(c)' = Callbacks(c) BY <1>1 DEF Callbacks
  <2>9. (plan.kind[c] = "single" => req[c].got = Own(c))' BY <1>1, <2>2, <2>5 DEF Own
  <2>10. CallerOk(c)' BY <1>1, <2>5, <2>6, <2>7, <2>8, <2>9 DEF CallerOk
  <2> QED BY <2>4, <2>10, CallerMoveKeeps
<1> QED BY <1>1, <1>2, <1>4, <1>5, AnswerKeeps

\* A caller is served, is woken, or gives up.
LEMMA OtherCallsKeep ==
    ASSUME ResolutionInv, NEW c \in Askers,
           \/ Serving(c) \/ Woken(c) \/ WokenRetained(c) \/ Abandoned(c)
           \/ Expires(c) \/ GivesUp(c)
    PROVE  ResolutionInv'
<1>1. UNCHANGED <<plan, chan, work, list>>
  BY DEF Serving, Woken, WokenRetained, Abandoned, Expires, GivesUp
<1>2. SlotSettles
  BY DEF Serving, Woken, WokenRetained, Abandoned, Expires, GivesUp, MarkedFaulted, SlotSettles
<1>3. \/ \E answer, got : Answer(c, answer, got)
      \/ Turn(c, "woken") /\ Callbacks(c) /\ req[c].pc = "wait" /\ slot' = slot
  <2>1. CASE Serving(c) BY <2>1 DEF Serving
  <2>2. CASE Woken(c) BY <2>2 DEF Woken
  <2>3. CASE WokenRetained(c) BY <2>3 DEF WokenRetained
  <2>4. CASE Abandoned(c) BY <2>4 DEF Abandoned
  <2>5. CASE Expires(c) BY <2>5 DEF Expires
  <2>6. CASE GivesUp(c) BY <2>6 DEF GivesUp
  <2> QED BY <2>1, <2>2, <2>3, <2>4, <2>5, <2>6
<1> QED BY <1>1, <1>2, <1>3, AnswerKeeps, TurnKeeps

-----------------------------------------------------------------------------
(* The resolution.                                                         *)

\* A step of the task before it settles: the slot stays in flight.
LEMMA LadderKeeps ==
    ASSUME ResolutionInv, work.pc \in Busy \ {"settle", "finish"},
           UNCHANGED <<plan, slot, chan, req>>, ListInv',
           Kept \/ work.pc \in {"init", "retain"},
           \/ \E p \in {"search", "cache", "load", "bind", "init", "retain"} : Step(p)
           \/ Step("settle") /\ list' # <<>>
           \/ Result("failed")
           \/ work' = [work EXCEPT !.pc = "attach", !.tries = @ + 1]
    PROVE  ResolutionInv'
<1> USE DEF ResolutionInv
<1>1. work.selected = Unbound BY DEF WorkInv, Busy
<1>2. slot = "flight" /\ ~chan.closed BY DEF WorkInv, Busy
<1>3. /\ DOMAIN work' = {"pc", "cb", "tries", "selected", "result"}
      /\ work'.cb \in Askers \cup {Nil} /\ work'.tries \in Nat
      /\ work'.selected = work.selected
      /\ work'.pc \in Busy
      /\ work'.pc = "settle" => list' # <<>>
      /\ work'.pc = "finish" => work'.result = "failed"
  <2>1. /\ DOMAIN work = {"pc", "cb", "tries", "selected", "result"}
        /\ work.cb \in Askers \cup {Nil} /\ work.tries \in Nat
    BY DEF ResolutionType
  <2>2. CASE \E p \in {"search", "cache", "load", "bind", "init", "retain"} : Step(p)
    BY <2>1, <2>2 DEF Step, Busy
  <2>3. CASE Step("settle") /\ list' # <<>> BY <2>1, <2>3 DEF Step, Busy
  <2>4. CASE Result("failed") BY <2>1, <2>4 DEF Result, Busy
  <2>5. CASE work' = [work EXCEPT !.pc = "attach", !.tries = @ + 1]
    BY <2>1, <2>5 DEF Busy
  <2> QED BY <2>2, <2>3, <2>4, <2>5
<1>4. WorkInv' BY <1>1, <1>2, <1>3 DEF WorkInv, Busy, Unbound
<1>5. ResolutionType' BY <1>3 DEF ResolutionType
<1>6. work.pc # "over" /\ req' = req /\ plan' = plan /\ slot' = slot BY DEF Busy
<1>7. \A c \in Askers : CallerOk(c)' BY <1>6, CallerKept
<1> QED BY <1>4, <1>5, <1>7

\* A live match is a listed module.
LEMMA LiveIsListed == ASSUME ListInv, LiveMatch PROVE list # <<>>
BY DEF LiveMatch, ListInv

\* The task starts: at a match that lives, at the search, or with the factory.
LEMMA StartKeeps == ASSUME ResolutionInv, Start PROVE ResolutionInv'
<1>1. UNCHANGED <<plan, slot, chan, list, req>> /\ work.pc = "start" BY DEF Start
<1>2. ListInv' /\ Kept BY <1>1, SameList DEF ResolutionInv
<1>3. \/ \E p \in {"search", "load", "bind"} : Step(p)
      \/ Step("settle") /\ list # <<>>
      \/ Result("failed")
  BY LiveIsListed DEF Start, Found, ResolutionInv
<1> QED BY <1>1, <1>2, <1>3, LadderKeeps DEF Busy

\* The task looks along the search path.
LEMMA SearchKeeps == ASSUME ResolutionInv, Search PROVE ResolutionInv'
<1>1. UNCHANGED <<plan, slot, chan, req>> /\ work.pc = "search" BY DEF Search
<1>2. ListInv /\ Unbound \in Bindings BY DEF ResolutionInv, Bindings, Unbound
<1>3. CASE UNCHANGED list /\ IF LiveMatch THEN Found ELSE Step("cache")
  <2>1. ListInv' /\ Kept BY <1>2, <1>3, SameList
  <2>2. \/ Step("cache") \/ Result("failed") \/ (Step("settle") /\ list' # <<>>)
    BY <1>2, <1>3, LiveIsListed DEF Found
  <2> QED BY <1>1, <2>1, <2>2, LadderKeeps DEF Busy
<1>4. ASSUME Admissible("own"), NEW st \in {"resolved", "initializing"},
             list' = Listed("own", st, Unbound), Found
      PROVE  ResolutionInv'
  <2>1. ListInv' /\ Kept /\ list' # <<>> BY <1>2, <1>4, AppendKeeps
  <2>2. \/ Result("failed") \/ Step("settle") BY <1>4 DEF Found
  <2> QED BY <1>1, <2>1, <2>2, LadderKeeps DEF Busy
<1> QED BY <1>3, <1>4 DEF Search

\* The task looks in the release cache.
LEMMA CacheKeeps == ASSUME ResolutionInv, Cache PROVE ResolutionInv'
<1>1. UNCHANGED <<plan, slot, chan, list, req>> /\ work.pc = "cache" BY DEF Cache
<1>2. ListInv' /\ Kept BY <1>1, SameList DEF ResolutionInv
<1>3. \/ \E p \in {"load", "bind"} : Step(p)
      \/ Step("settle") /\ list # <<>>
      \/ Result("failed")
  BY LiveIsListed DEF Cache, Recovered, ResolutionInv
<1> QED BY <1>1, <1>2, <1>3, LadderKeeps DEF Busy

\* The task loads the module it found.
LEMMA LoadKeeps == ASSUME ResolutionInv, Load PROVE ResolutionInv'
<1>1. UNCHANGED <<plan, slot, chan, req>> /\ work.pc = "load" BY DEF Load
<1>2. ListInv /\ Unbound \in Bindings BY DEF ResolutionInv, Bindings, Unbound
<1>3. CASE UNCHANGED list /\ Recovered
  <2>1. ListInv' /\ Kept BY <1>2, <1>3, SameList
  <2>2. Result("failed") \/ (Step("settle") /\ list' # <<>>)
    BY <1>2, <1>3, LiveIsListed DEF Recovered
  <2> QED BY <1>1, <2>1, <2>2, LadderKeeps DEF Busy
<1>4. ASSUME Admissible("own"), NEW st \in {"resolved", "initializing"},
             list' = Listed("own", st, Unbound), Step("settle")
      PROVE  ResolutionInv'
  <2>1. ListInv' /\ Kept /\ list' # <<>> BY <1>2, <1>4, AppendKeeps
  <2> QED BY <1>1, <1>4, <2>1, LadderKeeps DEF Busy
<1> QED BY <1>3, <1>4 DEF Load

\* The task asks the factory for a binding.
LEMMA BindKeeps == ASSUME ResolutionInv, Bind PROVE ResolutionInv'
<1>1. UNCHANGED <<plan, slot, chan, list, req>> /\ work.pc = "bind" BY DEF Bind
<1>2. ListInv' /\ Kept BY <1>1, SameList DEF ResolutionInv
<1>3. Result("failed") \/ work' = [work EXCEPT !.pc = "attach", !.tries = @ + 1]
  BY DEF Bind
<1> QED BY <1>1, <1>2, <1>3, LadderKeeps DEF Busy

\* The binding of the attempt under way is a binding.
LEMMA BindingType == ASSUME ResolutionType PROVE Binding \in Bindings
BY DEF Binding, Bindings, ResolutionType

\* The task loads a module under the binding.
LEMMA AttachKeeps == ASSUME ResolutionInv, Attach PROVE ResolutionInv'
<1>1. UNCHANGED <<plan, slot, chan, req>> /\ work.pc = "attach" BY DEF Attach
<1>2. ListInv /\ Binding \in Bindings BY BindingType DEF ResolutionInv
<1>3. CASE UNCHANGED list /\ AttemptFails
  <2>1. ListInv' /\ Kept BY <1>2, <1>3, SameList
  <2>2. \/ Result("failed") \/ Step("bind") \/ (Step("settle") /\ list' # <<>>)
    BY <1>2, <1>3, LiveIsListed DEF AttemptFails, Recovered
  <2> QED BY <1>1, <2>1, <2>2, LadderKeeps DEF Busy
<1>4. CASE Admissible("own") /\ list' = Listed("own", "initializing", Binding) /\ Step("init")
  <2>1. ListInv' /\ Kept BY <1>2, <1>4, AppendKeeps
  <2> QED BY <1>1, <1>4, <2>1, LadderKeeps DEF Busy
<1> QED BY <1>3, <1>4 DEF Attach

\* The task learns whether the module became ready.
LEMMA DecideKeeps == ASSUME ResolutionInv, Decide PROVE ResolutionInv'
<1>1. UNCHANGED <<plan, slot, chan, req>> /\ work.pc = "init" BY DEF Decide
<1>2. ListInv BY DEF ResolutionInv
<1>3. CASE Step("retain") /\ UNCHANGED list
  <2>1. ListInv' /\ Kept BY <1>2, <1>3, SameList
  <2> QED BY <1>1, <1>3, <2>1, LadderKeeps DEF Busy
<1>4. ASSUME NEW k \in DOMAIN list, Mine(list[k]), list' = RemoveAt(list, k),
             \/ Step("settle") /\ \E i \in DOMAIN list : ~Mine(list[i]) /\ Live(list[i])
             \/ Result("failed")
             \/ Step("bind")
      PROVE  ResolutionInv'
  <2>1. /\ ListInv'
        /\ \A i \in DOMAIN list : i # k => \E j \in DOMAIN list' : list'[j] = list[i]
    BY <1>2, <1>4, RemovalKeeps
  <2>2. ASSUME NEW i \in DOMAIN list, ~Mine(list[i]) PROVE list' # <<>>
    <3>1. i # k BY <1>4, <2>2
    <3>2. PICK j \in DOMAIN list' : TRUE BY <2>1, <3>1
    <3> QED BY <3>2, <2>1 DEF ListInv
  <2>3. \/ (Step("settle") /\ list' # <<>>) \/ Result("failed") \/ Step("bind")
    BY <1>4, <2>2
  <2> QED BY <1>1, <2>1, <2>3, LadderKeeps DEF Busy
<1> QED BY <1>3, <1>4 DEF Decide

\* The task retains the binding of the module that did.
LEMMA RetainKeeps == ASSUME ResolutionInv, Retain PROVE ResolutionInv'
<1> USE DEF ResolutionInv
<1>1. UNCHANGED <<plan, slot, chan, req>> /\ work.pc = "retain" BY DEF Retain
<1>2. ListInv /\ Binding \in Bindings BY BindingType
<1>3. CASE list # <<>> /\ Mine(Head(list))
  <2>1. /\ list' = [list EXCEPT ![1].held = Binding]
        /\ work' = [work EXCEPT !.pc = "settle",
              !.selected = IF plan.kind[work.cb] = "factory" THEN Binding ELSE Unbound]
    BY <1>3 DEF Retain
  <2>2. ListInv' /\ list' # <<>> /\ Head(list').held = Binding
    BY <1>2, <1>3, <2>1, HeldKeeps DEF Mine
  <2>3. /\ DOMAIN work' = {"pc", "cb", "tries", "selected", "result"}
        /\ work'.cb = work.cb /\ work'.tries = work.tries
        /\ work'.pc = "settle" /\ work'.selected \in {Binding, Unbound}
    BY <2>1 DEF ResolutionType
  <2>4. slot = "flight" /\ ~chan.closed BY <1>1 DEF WorkInv, Busy
  <2>5. Unbound' = Unbound BY DEF Unbound
  <2>6. WorkInv'
    <3> HIDE DEF Binding
    <3> QED BY <1>1, <2>2, <2>3, <2>4, <2>5 DEF WorkInv, Busy
  <2>7. ResolutionType' BY <1>1, <2>3 DEF ResolutionType
  <2>8. \A c \in Askers : CallerOk(c)' BY <1>1, <2>2, CallerKept
  <2> QED BY <2>2, <2>6, <2>7, <2>8
<1>4. CASE ~(list # <<>> /\ Mine(Head(list)))
  <2>1. UNCHANGED list /\ (Recovered \/ Result("failed")) BY <1>4 DEF Retain
  <2>2. ListInv' /\ Kept BY <1>2, <2>1, SameList
  <2>3. Result("failed") \/ (Step("settle") /\ list' # <<>>)
    BY <1>2, <2>1, LiveIsListed DEF Recovered
  <2> QED BY <1>1, <2>2, <2>3, LadderKeeps DEF Busy
<1> QED BY <1>3, <1>4

\* The task looks at the module once more.
LEMMA SettleKeeps == ASSUME ResolutionInv, Settle PROVE ResolutionInv'
<1> USE DEF ResolutionInv
<1>1. UNCHANGED <<plan, slot, chan, list, req>> /\ work.pc = "settle" BY DEF Settle
<1>2. ListInv' /\ Kept BY <1>1, SameList
<1>3. PICK r \in {"ready", "failed"} :
        /\ Result(r)
        /\ r = "ready" => list = <<>> \/ Head(list).st \in {"resolved", "ready"}
  BY DEF Settle
<1>4. r = "ready" => ReadyHead' BY <1>1, <1>3 DEF WorkInv, ReadyHead
<1>5. /\ DOMAIN work' = {"pc", "cb", "tries", "selected", "result"}
      /\ work'.cb = work.cb /\ work'.tries = work.tries
      /\ work'.pc = "finish" /\ work'.result = r /\ work'.selected = work.selected
  BY <1>3 DEF Result, ResolutionType
<1>6. slot' = "flight" /\ ~chan'.closed BY <1>1 DEF WorkInv, Busy
<1>7. work'.selected # Unbound => list' # <<>> /\ Head(list').held = work'.selected
  BY <1>1, <1>5 DEF WorkInv
<1>8. Unbound' = Unbound BY DEF Unbound
<1>9. WorkInv'
  <2> HIDE DEF ReadyHead
  <2> QED BY <1>4, <1>5, <1>6, <1>7, <1>8 DEF WorkInv, Busy
<1>10. ResolutionType' BY <1>1, <1>5 DEF ResolutionType
<1>11. \A c \in Askers : CallerOk(c)' BY <1>1, <1>2, CallerKept
<1> QED BY <1>2, <1>9, <1>10, <1>11

\* complete(): slot and channel are given the result.
LEMMA FinishKeeps == ASSUME ResolutionInv, Finish PROVE ResolutionInv'
<1> USE DEF ResolutionInv
<1>1. UNCHANGED <<plan, list, req>> /\ work.pc = "finish" BY DEF Finish
<1>2. ListInv' /\ Kept BY <1>1, SameList
<1>3. /\ DOMAIN work' = {"pc", "cb", "tries", "selected", "result"}
      /\ work'.cb = work.cb /\ work'.tries = work.tries
      /\ work'.pc = "over" /\ work'.selected = work.selected
  BY DEF Finish, ResolutionType
<1>4. /\ slot' \in {"ready", "failed"} /\ slot' = work.result
      /\ DOMAIN chan' = {"value", "closed"}
  BY <1>1 DEF Finish, Complete, WorkInv
<1>5. slot' = "ready" => ReadyHead' BY <1>1, <1>4 DEF WorkInv, ReadyHead
<1>6. work'.selected # Unbound => list' # <<>> /\ Head(list').held = work'.selected
  BY <1>1, <1>3 DEF WorkInv
<1>7. Unbound' = Unbound BY DEF Unbound
<1>8. WorkInv'
  <2> HIDE DEF ReadyHead
  <2> QED BY <1>3, <1>4, <1>5, <1>6, <1>7 DEF WorkInv, Busy
<1>9. ResolutionType' BY <1>1, <1>3, <1>4 DEF ResolutionType
<1>10. \A c \in Askers : CallerOk(c)' BY <1>1, <1>2, <1>3, <1>4, CallerKept
<1> QED BY <1>2, <1>8, <1>9, <1>10

\* The task is lost: its channel closes, its slot stays in flight.
LEMMA DiesKeeps == ASSUME ResolutionInv, Dies PROVE ResolutionInv'
<1> USE DEF ResolutionInv
<1>1. UNCHANGED <<plan, slot, list, req>> /\ work.pc \in {"start", "load", "cache", "bind"}
  BY DEF Dies
<1>2. ListInv' /\ Kept BY <1>1, SameList
<1>3. /\ DOMAIN work' = {"pc", "cb", "tries", "selected", "result"}
      /\ work'.cb = work.cb /\ work'.tries = work.tries
      /\ work'.pc = "over" /\ work'.selected = work.selected
  BY DEF Dies, Step, ResolutionType
<1>4. slot' = "flight" /\ work.selected = Unbound BY <1>1 DEF WorkInv, Busy
<1>5. DOMAIN chan' = {"value", "closed"} BY DEF Dies, ResolutionType
<1>6. Unbound' = Unbound BY DEF Unbound
<1>7. WorkInv' BY <1>3, <1>4, <1>6 DEF WorkInv, Busy
<1>8. ResolutionType' BY <1>1, <1>3, <1>5 DEF ResolutionType
<1>9. \A c \in Askers : CallerOk(c)' BY <1>1, <1>2, <1>3, CallerKept
<1> QED BY <1>2, <1>7, <1>8, <1>9

\* A module runs, is loaded directly, or the host is reconfigured.
LEMMA HostKeeps ==
    ASSUME ResolutionInv, ModuleRuns \/ DirectLoad \/ Reconfigured
    PROVE  ResolutionInv'
<1> USE DEF ResolutionInv
<1>1. UNCHANGED <<plan, chan, work, req>> /\ SlotSettles
  BY DEF ModuleRuns, DirectLoad, Reconfigured, MarkedFaulted, SlotSettles
<1>2. ListInv' /\ Kept
  <2>1. CASE ModuleRuns BY <2>1, RunsKeeps
  <2>2. CASE DirectLoad
    <3>1. PICK lib \in {"own", "other"}, st \in {"resolved", "initializing"} :
            Admissible(lib) /\ list' = Listed(lib, st, Unbound)
      BY <2>2 DEF DirectLoad
    <3>2. Unbound \in Bindings BY DEF Bindings, Unbound
    <3> QED BY <3>1, <3>2, AppendKeeps
  <2>3. CASE Reconfigured BY <2>3, SameList DEF Reconfigured
  <2> QED BY <2>1, <2>2, <2>3
<1>3. WorkInv' BY <1>1, <1>2, WorkKept
<1>4. ResolutionType' BY <1>1 DEF ResolutionType
<1>5. slot' = "free" => slot = "free" BY <1>1 DEF SlotSettles
<1>6. \A c \in Askers : CallerOk(c)' BY <1>1, <1>2, <1>5, CallerKept
<1> QED BY <1>2, <1>3, <1>4, <1>6

\* A step that changes nothing.
LEMMA StutterKeeps ==
    ASSUME ResolutionInv, UNCHANGED resolutionVars
    PROVE  ResolutionInv'
<1> USE DEF ResolutionInv
<1>1. UNCHANGED <<plan, chan, work, req, slot, list>> BY DEF resolutionVars
<1>2. ListInv' /\ Kept BY <1>1, SameList
<1>3. WorkInv' BY <1>1, <1>2, WorkKept DEF SlotSettles
<1>4. ResolutionType' BY <1>1 DEF ResolutionType
<1>5. \A c \in Askers : CallerOk(c)' BY <1>1, <1>2, CallerKept
<1> QED BY <1>2, <1>3, <1>4, <1>5

\* Every step of the callers, the task and the host keeps the invariant.
LEMMA ResolutionStep ==
    ASSUME ResolutionInv, [ResolutionNext]_resolutionVars
    PROVE  ResolutionInv'
<1>1. CASE UNCHANGED resolutionVars BY <1>1, StutterKeeps
<1>2. CASE ModuleRuns \/ DirectLoad \/ Reconfigured BY <1>2, HostKeeps
<1>3. ASSUME NEW c \in Askers,
             Ask(c) \/ AskRefused(c) \/ CallerStep(c) \/ Expires(c) \/ GivesUp(c)
      PROVE  ResolutionInv'
  BY <1>3, AskKeeps, PrepareKeeps, ClaimKeeps, CheckKeeps, OtherCallsKeep DEF CallerStep
<1>4. CASE ResolverStep
  BY <1>4, StartKeeps, SearchKeeps, CacheKeeps, LoadKeeps, BindKeeps, AttachKeeps,
     DecideKeeps, RetainKeeps, SettleKeeps, FinishKeeps DEF ResolverStep
<1>5. CASE Dies BY <1>5, DiesKeeps
<1> QED BY <1>1, <1>2, <1>3, <1>4, <1>5 DEF ResolutionNext

\* The invariant holds in every state of a resolution, from ResolutionTable::claim
\* to complete (module/resolution.rs): one module at most is live, the slot is in
\* flight exactly while its task runs or was lost, and no caller is further than
\* what it has found out.
THEOREM ResolutionInvTheorem == ResolutionSpec => []ResolutionInv
<1>1. ResolutionInit => ResolutionInv BY ResolutionInitInv
<1>2. ResolutionInv /\ [ResolutionNext]_resolutionVars => ResolutionInv' BY ResolutionStep
<1> QED BY <1>1, <1>2, PTL DEF ResolutionSpec

\* A resolution is remembered as ready only with a module that is set up: its first
\* entry is not initializing any more, unless it was listed lazily and is being used
\* for the first time (ReadyIsSettled, setup_outcome and ResolutionTable::complete).
THEOREM ReadyTheorem == ResolutionSpec => []ReadyIsSettled
<1>1. ResolutionInv => ReadyIsSettled
  BY DEF ResolutionInv, WorkInv, ReadyHead, ReadyIsSettled
<1> QED BY <1>1, ResolutionInvTheorem, PTL

-----------------------------------------------------------------------------
\* Where a request answered "ok" comes from, step by step.
LEMMA OkComesFrom ==
    ASSUME ResolutionInv, [ResolutionNext]_resolutionVars, NEW c \in Askers,
           req'[c].answer = "ok", req[c].answer # "ok"
    PROVE  /\ UNCHANGED <<plan, list>>
           /\ \/ /\ Serving(c) /\ ~Faulty /\ req[c].pc = "serving"
                 /\ req'[c].got = req[c].got
              \/ Woken(c) /\ ~Faulty /\ ~Callbacks(c)
              \/ /\ plan.kind[c] = "single" => req'[c].got = Own(c)
                 /\ Retains(req'[c].got)
              \/ /\ WokenRetained(c) /\ req[c].pc = "woken"
                 /\ plan.kind[c] # "single"
                 /\ work.selected # Unbound /\ req'[c].got = work.selected
<1>1. ResolutionType BY DEF ResolutionInv
<1>2. req'[c] # req[c] OBVIOUS
<1>3. ASSUME NEW d \in Askers, NEW answer, NEW got, Answer(d, answer, got)
      PROVE  d = c /\ answer = "ok" /\ req'[c].got = got
  BY <1>1, <1>2, <1>3, AnswerFacts
<1>4. ASSUME NEW d \in Askers, NEW pc, Turn(d, pc) PROVE FALSE
  BY <1>1, <1>2, <1>4, TurnFacts
<1>5. req' # req BY <1>2
<1>6. PICK d \in Askers :
        Ask(d) \/ AskRefused(d) \/ CallerStep(d) \/ Expires(d) \/ GivesUp(d)
  <2>1. ~UNCHANGED resolutionVars BY <1>5 DEF resolutionVars
  <2>2. ~(ModuleRuns \/ DirectLoad \/ Reconfigured)
    BY <1>5 DEF ModuleRuns, DirectLoad, Reconfigured
  <2>3. ~Dies BY <1>5 DEF Dies
  <2>4. ~ResolverStep
    BY <1>5 DEF ResolverStep, Start, Search, Cache, Load, Bind, Attach, Decide, Retain,
                Settle, Finish
  <2> QED BY <2>1, <2>2, <2>3, <2>4 DEF ResolutionNext
<1>7. ~Ask(d)
  BY <1>1 DEF Ask, ResolutionType, Nil
<1>8. ~AskRefused(d)
  BY <1>1 DEF AskRefused, ResolutionType
<1>9. ~Expires(d) BY <1>3 DEF Expires
<1>10. ~GivesUp(d) BY <1>3 DEF GivesUp, Nil
<1>11. ~Abandoned(d) BY <1>3 DEF Abandoned
<1>12. ~Claim(d)
  <2>1. slot \in {"free", "flight", "ready", "failed"} BY DEF ResolutionInv, WorkInv
  <2>2. SUFFICES ASSUME Claim(d) PROVE FALSE
    OBVIOUS
  <2>3. \/ \E pc : Turn(d, pc)
        \/ Answer(d, "failed", Unbound)
    BY <2>1, <2>2 DEF Claim, Claimed
  <2> QED BY <1>3, <1>4, <2>3
<1>13. ~CheckRetained(d)
  <2> SUFFICES ASSUME CheckRetained(d) PROVE FALSE
    OBVIOUS
  <2>1. \/ Answer(d, "failed", Unbound)
        \/ \E b : req' = [req EXCEPT ![d].pc = "serving", ![d].got = b]
    BY DEF CheckRetained
  <2>2. ~Answer(d, "failed", Unbound) BY <1>3
  <2> QED BY <1>1, <2>1, <2>2 DEF ResolutionType
<1>14. CASE Prepare(d)
  <2>1. PICK got : Answer(d, "ok", got) /\ Retains(got)
                   /\ (plan.kind[d] = "single" => got = Own(d))
    <3> HIDE DEF Answer, Turn
    <3>1. ~Answer(d, "failed", Unbound) BY <1>3
    <3>2. ~Turn(d, "claim") BY <1>4
    <3>3. Retained # Unbound => Retains(Retained) BY DEF Retained
    <3> QED BY <1>14, <3>1, <3>2, <3>3 DEF Prepare
  <2>2. d = c /\ req'[c].got = got BY <1>3, <2>1
  <2>3. UNCHANGED <<plan, list>> BY <1>14 DEF Prepare
  <2> QED BY <2>1, <2>2, <2>3
<1>15. CASE Serving(d)
  <2>1. ~Answer(d, "failed", Unbound) BY <1>3
  <2>2. ~Faulty /\ Answer(d, "ok", req[d].got) /\ req[d].pc = "serving"
    BY <1>15, <2>1 DEF Serving
  <2>3. d = c /\ req'[c].got = req[c].got BY <1>3, <2>2
  <2>4. UNCHANGED <<plan, list>> BY <1>15 DEF Serving
  <2> QED BY <1>15, <2>2, <2>3, <2>4
<1>16. CASE Woken(d)
  <2>1. ~Answer(d, "failed", Unbound) BY <1>3
  <2>2. ~Turn(d, "woken") BY <1>4
  <2>3. ~Faulty /\ ~Callbacks(d) /\ Answer(d, "ok", Unbound)
    BY <1>16, <2>1, <2>2 DEF Woken
  <2>4. d = c BY <1>3, <2>3
  <2>5. UNCHANGED <<plan, list>> BY <1>16 DEF Woken
  <2> QED BY <1>16, <2>3, <2>4, <2>5
<1>17. CASE WokenRetained(d)
  <2> DEFINE b == IF plan.kind[d] = "single"
                  THEN (IF Retains(Own(d)) THEN Own(d) ELSE Unbound)
                  ELSE IF work.selected # Unbound THEN work.selected ELSE Retained
  <2>1. /\ Answer(d, IF b = Unbound THEN "failed" ELSE "ok", b) /\ req[d].pc = "woken"
        /\ UNCHANGED <<plan, list>>
    BY <1>17 DEF WokenRetained
  <2>2. d = c /\ b # Unbound /\ req'[c].got = b BY <1>3, <2>1
  <2>3. Retained # Unbound => Retains(Retained) BY DEF Retained
  <2>4. \/ (plan.kind[d] = "single" => b = Own(d)) /\ Retains(b)
        \/ plan.kind[d] # "single" /\ work.selected # Unbound /\ b = work.selected
    BY <2>2, <2>3
  <2> HIDE DEF b
  <2> QED BY <1>17, <2>1, <2>2, <2>4
<1> QED BY <1>6, <1>7, <1>8, <1>9, <1>10, <1>11, <1>12, <1>13, <1>14, <1>15, <1>16, <1>17
        DEF CallerStep

\* A caller with a callback that is answered "ok" holds a binding that the module
\* was loaded under and retains, its own if it asked for that one (BindingHeld,
\* ensure_loaded_with_host_callback_factory_inner and retained_host_callback_binding
\* in module/).
THEOREM BindingTheorem == ResolutionSpec => BindingHeld
<1>1. ASSUME ResolutionInv, [ResolutionNext]_resolutionVars, NEW c \in Askers,
             req'[c].answer = "ok", req[c].answer # "ok", Callbacks(c)
      PROVE  /\ plan.kind[c] = "single" => req'[c].got = Own(c)
             /\ \E i \in DOMAIN list' : list'[i].held = req'[c].got /\ list'[i].by = req'[c].got
  <2>1. list' = list BY <1>1, OkComesFrom
  <2>2. (plan.kind[c] = "single" => req'[c].got = Own(c)) /\ Holds(req'[c].got)
    <3>1. CASE req[c].pc = "serving" /\ req'[c].got = req[c].got
      BY <1>1, <3>1 DEF ResolutionInv, CallerOk
    <3>2. CASE (plan.kind[c] = "single" => req'[c].got = Own(c)) /\ Retains(req'[c].got)
      BY <1>1, <3>2, RetainsMeans DEF ResolutionInv
    <3>3. CASE plan.kind[c] # "single" /\ work.selected # Unbound /\ req'[c].got = work.selected
      <4>1. list # <<>> /\ Head(list).held = work.selected
        BY <1>1, <3>3 DEF ResolutionInv, WorkInv
      <4>2. list \in Seq(Entries) BY <1>1 DEF ResolutionInv, ListInv
      <4>3. 1 \in DOMAIN list /\ list[1].held = work.selected BY <4>1, <4>2
      <4>4. list[1].by = work.selected BY <1>1, <3>3, <4>3 DEF ResolutionInv, ListInv
      <4> QED BY <3>3, <4>3, <4>4 DEF Holds
    <3> QED BY <1>1, <3>1, <3>2, <3>3, OkComesFrom
  <2> QED BY <2>1, <2>2 DEF Holds
<1>2. ResolutionInv /\ [ResolutionNext]_resolutionVars =>
        \A c \in Askers :
         req'[c].answer = "ok" /\ req[c].answer # "ok" /\ Callbacks(c) =>
             /\ plan.kind[c] = "single" => req'[c].got = Own(c)
             /\ \E i \in DOMAIN list' : list'[i].held = req'[c].got /\ list'[i].by = req'[c].got
  BY <1>1
<1> QED BY <1>2, ResolutionInvTheorem, PTL DEF ResolutionSpec, BindingHeld

\* A request made when the module was faulted, and still is, is never answered
\* "ok": the fault is reported to it (FaultReported,
\* Resolver::still_serving).
THEOREM FaultTheorem == ResolutionSpec => FaultReported
<1>1. ASSUME ResolutionInv, [ResolutionNext]_resolutionVars, NEW c \in Askers,
             req'[c].answer = "ok", req[c].answer # "ok"
      PROVE  ~(req[c].stale /\ Faulty)
  <2>1. CASE ~Faulty BY <2>1
  <2>2. CASE Retains(req'[c].got) BY <1>1, <2>2, RetainsMeans DEF ResolutionInv
  <2>3. CASE req[c].pc = "woken" BY <1>1, <2>3 DEF ResolutionInv, CallerOk
  <2> QED BY <1>1, <2>1, <2>2, <2>3, OkComesFrom
<1>2. ResolutionInv /\ [ResolutionNext]_resolutionVars =>
        \A c \in Askers :
         req'[c].answer = "ok" /\ req[c].answer # "ok" => ~(req[c].stale /\ Faulty)
  BY <1>1
<1> QED BY <1>2, ResolutionInvTheorem, PTL DEF ResolutionSpec, FaultReported

-----------------------------------------------------------------------------
(* The order of a directory (resolve in module/resolve.rs).                *)

\* Every manifest is pending, in the order so far, or has its reason.
Divided ==
    /\ pending \subseteq Eligible /\ Range(order) \subseteq Eligible \ pending
    /\ DOMAIN unresolved = DOMAIN batch \ (pending \cup Range(order))
    /\ \A i \in DOMAIN unresolved :
          unresolved[i] = IF i \in Duplicates(batch) THEN "duplicate" ELSE "no provider"

\* The order so far names no manifest twice.
Once ==
    /\ order \in Seq(DOMAIN batch)
    /\ IsFiniteSet(Range(order)) /\ Len(order) = Cardinality(Range(order))

\* What is in the order so far is there because its needs are met, and any closed
\* set holds it.
Placed ==
    /\ available = present \cup ProvidedBy(Range(order))
    /\ \A i \in Range(order) : Needs(i) \subseteq available
    /\ \A S \in SUBSET Eligible : Closed(S) => Range(order) \subseteq S

\* A manifest refused for want of a provider lacks something that neither the order
\* nor the list can give; no set that sustains itself has such a member.
Refused ==
    /\ \A i \in DOMAIN unresolved \ Duplicates(batch) : Blocked(i)
    /\ \A S \in SUBSET Eligible : Sustained(S) => S \subseteq pending \cup Range(order)

\* The invariant of resolve's loop.
DirectoryInv == phase = "order" => Divided /\ Once /\ Placed /\ Refused

\* What sets of modules provide.
LEMMA UnionOfProvided ==
    /\ ProvidedBy({}) = {}
    /\ \A A, B : ProvidedBy(A \cup B) = ProvidedBy(A) \cup ProvidedBy(B)
    /\ \A A, B : A \subseteq B => ProvidedBy(A) \subseteq ProvidedBy(B)
    /\ \A i : ProvidedBy({i}) = batch[i].provides
BY DEF ProvidedBy

\* Append adds one element at the end, and one to the range.
LEMMA AppendRange ==
    ASSUME NEW D, NEW s \in Seq(D), NEW e \in D
    PROVE  /\ Append(s, e) \in Seq(D)
           /\ Len(Append(s, e)) = Len(s) + 1
           /\ Range(Append(s, e)) = Range(s) \cup {e}
<1>1. Append(s, e) \in Seq(D) /\ Len(Append(s, e)) = Len(s) + 1 OBVIOUS
<1>2. \A x \in Range(Append(s, e)) : x \in Range(s) \cup {e} BY DEF Range
<1>3. \A x \in Range(s) : x \in Range(Append(s, e))
  <2> SUFFICES ASSUME NEW n \in DOMAIN s PROVE s[n] \in Range(Append(s, e)) BY DEF Range
  <2>1. n \in DOMAIN Append(s, e) /\ Append(s, e)[n] = s[n] OBVIOUS
  <2> QED BY <2>1 DEF Range
<1>4. e \in Range(Append(s, e))
  <2>1. Len(s) + 1 \in DOMAIN Append(s, e) /\ Append(s, e)[Len(s) + 1] = e OBVIOUS
  <2> QED BY <2>1 DEF Range
<1> QED BY <1>1, <1>2, <1>3, <1>4

\* Before its loop resolve has set aside the duplicates.
LEMMA DirectoryInitInv == DirectoryInit => DirectoryInv
<1> SUFFICES ASSUME DirectoryInit PROVE Divided /\ Once /\ Placed /\ Refused
  BY DEF DirectoryInv
<1>1. order = <<>> /\ Range(order) = {} BY DEF DirectoryInit, Range
<1>2. Divided BY <1>1 DEF DirectoryInit, Divided, Eligible, Duplicates
<1>3. Once BY <1>1, FS_EmptySet DEF Once
<1>4. Placed BY <1>1, UnionOfProvided DEF DirectoryInit, Placed
<1>5. Refused BY <1>1 DEF DirectoryInit, Refused, Eligible
<1> QED BY <1>2, <1>3, <1>4, <1>5

\* The first ready module is put in the order.
LEMMA PlaceKeeps == DirectoryInv /\ Place => DirectoryInv'
<1> SUFFICES ASSUME Divided, Once, Placed, Refused, Place
    PROVE  Divided' /\ Once' /\ Placed' /\ Refused'
  BY DEF DirectoryInv, Place
<1>0. UNCHANGED <<batch, present, phase, unresolved, loaded>> BY DEF Place
<1>1. PICK i \in pending :
        /\ Needs(i) \subseteq available
        /\ pending' = pending \ {i} /\ order' = Append(order, i)
        /\ available' = available \cup batch[i].provides
  BY DEF Place, FirstOf, Ready, IsReady
<1>2. i \in Eligible /\ i \in DOMAIN batch /\ i \notin Range(order)
  BY <1>1 DEF Divided, Eligible
<1>3. /\ order' \in Seq(DOMAIN batch) /\ Len(order') = Len(order) + 1
      /\ Range(order') = Range(order) \cup {i}
  BY <1>1, <1>2, AppendRange DEF Once
<1>4. /\ Eligible' = Eligible /\ Duplicates(batch)' = Duplicates(batch)
      /\ \A j : Needs(j)' = Needs(j)
      /\ \A S : ProvidedBy(S)' = ProvidedBy(S)
      /\ \A S : Closed(S)' = Closed(S) /\ Sustained(S)' = Sustained(S)
  BY <1>0 DEF Eligible, Needs, ProvidedBy, Closed, Sustained
<1>5. Divided'
  BY <1>0, <1>1, <1>2, <1>3, <1>4 DEF Divided
<1>6. Once'
  BY <1>0, <1>2, <1>3, FS_AddElement DEF Once
<1>7. Placed'
  <2>1. available' = present \cup ProvidedBy(Range(order'))
    <3>1. ProvidedBy(Range(order) \cup {i}) = ProvidedBy(Range(order)) \cup batch[i].provides
      <4>1. ProvidedBy({i}) = batch[i].provides BY UnionOfProvided
      <4>2. ProvidedBy(Range(order) \cup {i}) = ProvidedBy(Range(order)) \cup ProvidedBy({i})
        BY UnionOfProvided, Zenon
      <4> QED BY <4>1, <4>2
    <3> QED BY <1>1, <1>3, <3>1 DEF Placed
  <2>2. \A S \in SUBSET Eligible : Closed(S) => i \in S
    BY <1>1, <1>2, UnionOfProvided DEF Closed, Placed, Needs
  <2> QED BY <1>0, <1>1, <1>3, <1>4, <2>1, <2>2 DEF Placed
<1>8. Refused'
  <2>1. available' \cup ProvidedBy(pending') \subseteq available \cup Declared
    <3>1. batch[i].provides \subseteq Declared BY <1>1 DEF Declared, ProvidedBy
    <3>2. ProvidedBy(pending \ {i}) \subseteq Declared BY DEF Declared, ProvidedBy
    <3> QED BY <1>1, <3>1, <3>2
  <2>2. Declared' = ProvidedBy(pending') BY <1>4 DEF Declared
  <2>3. \A j \in DOMAIN unresolved' \ Duplicates(batch)' : Blocked(j)'
    BY <1>0, <1>4, <2>1, <2>2 DEF Refused, Blocked
  <2>4. pending' \cup Range(order') = pending \cup Range(order) BY <1>1, <1>3
  <2> QED BY <1>4, <2>3, <2>4 DEF Refused
<1> QED BY <1>5, <1>6, <1>7, <1>8

\* The first blocked module is refused; its interfaces no longer count as declared.
LEMMA NoProviderKeeps == DirectoryInv /\ NoProvider => DirectoryInv'
<1> SUFFICES ASSUME Divided, Once, Placed, Refused, NoProvider
    PROVE  Divided' /\ Once' /\ Placed' /\ Refused'
  BY DEF DirectoryInv, NoProvider
<1>0. UNCHANGED <<batch, present, phase, available, order, loaded>> BY DEF NoProvider
<1>1. PICK i \in pending :
        /\ Blocked(i) /\ pending' = pending \ {i} /\ Reason({i}, "no provider")
  BY DEF NoProvider, FirstOf, Stuck
<1>2. i \in Eligible /\ i \in DOMAIN batch /\ i \notin Range(order)
  BY <1>1 DEF Divided, Eligible
<1>3. /\ Eligible' = Eligible /\ Duplicates(batch)' = Duplicates(batch)
      /\ Range(order') = Range(order)
      /\ \A j : Needs(j)' = Needs(j)
      /\ \A S : ProvidedBy(S)' = ProvidedBy(S)
      /\ \A S : Closed(S)' = Closed(S) /\ Sustained(S)' = Sustained(S)
  BY <1>0 DEF Eligible, Needs, ProvidedBy, Closed, Sustained
<1>4. /\ DOMAIN unresolved' = DOMAIN unresolved \cup {i}
      /\ unresolved'[i] = "no provider"
      /\ \A j \in DOMAIN unresolved \ {i} : unresolved'[j] = unresolved[j]
  BY <1>1 DEF Reason
<1>5. Divided'
  <2>1. i \notin Duplicates(batch) BY <1>2 DEF Eligible
  <2> QED BY <1>0, <1>1, <1>2, <1>3, <1>4, <2>1 DEF Divided
<1>6. Once' BY <1>0, <1>3 DEF Once
<1>7. Placed' BY <1>0, <1>3 DEF Placed
<1>8. Refused'
  <2>1. available' \cup Declared' \subseteq available \cup Declared
    BY <1>0, <1>1, <1>3, UnionOfProvided DEF Declared
  <2>2. \A j \in DOMAIN unresolved' \ Duplicates(batch)' : Blocked(j)'
    BY <1>1, <1>3, <1>4, <2>1 DEF Refused, Blocked
  <2>3. ASSUME NEW S \in SUBSET Eligible, Sustained(S) PROVE i \notin S
    <3>1. ProvidedBy(S) \subseteq ProvidedBy(pending) \cup ProvidedBy(Range(order))
      <4>1. S \subseteq pending \cup Range(order) BY <2>3 DEF Refused
      <4>2. ProvidedBy(S) \subseteq ProvidedBy(pending \cup Range(order))
        BY <4>1, UnionOfProvided
      <4> QED BY <4>2, UnionOfProvided
    <3>2. present \cup ProvidedBy(S) \subseteq available \cup Declared
      BY <3>1 DEF Placed, Declared
    <3> QED BY <1>1, <2>3, <3>2 DEF Sustained, Blocked, Needs
  <2>4. \A S \in SUBSET Eligible : Sustained(S) => S \subseteq pending' \cup Range(order)
    BY <1>1, <2>3 DEF Refused
  <2> QED BY <1>3, <2>2, <2>4 DEF Refused
<1> QED BY <1>5, <1>6, <1>7, <1>8

\* Every pass of resolve's loop keeps the invariant; the loads come after it.
LEMMA DirectoryStep == DirectoryInv /\ [DirectoryNext]_directoryVars => DirectoryInv'
<1> SUFFICES ASSUME DirectoryInv, [DirectoryNext]_directoryVars PROVE DirectoryInv'
  OBVIOUS
<1>1. CASE Place BY <1>1, PlaceKeeps
<1>2. CASE NoProvider BY <1>2, NoProviderKeeps
<1>3. CASE Cycle \/ LoadNext \/ Loads
  BY <1>3 DEF DirectoryInv, Cycle, LoadNext, Loads
<1>4. CASE UNCHANGED directoryVars
  <2>0. UNCHANGED <<batch, present, phase, pending, available, order, unresolved>>
    BY <1>4 DEF directoryVars
  <2>1. /\ Eligible' = Eligible /\ Duplicates(batch)' = Duplicates(batch)
        /\ Range(order)' = Range(order) /\ Declared' = Declared
        /\ \A j : Needs(j)' = Needs(j)
        /\ \A S : ProvidedBy(S)' = ProvidedBy(S)
        /\ \A S : Closed(S)' = Closed(S) /\ Sustained(S)' = Sustained(S)
    BY <2>0 DEF Eligible, Needs, ProvidedBy, Closed, Sustained, Declared
  <2>2. Divided' = Divided BY <2>0, <2>1 DEF Divided
  <2>3. Once' = Once BY <2>0, <2>1 DEF Once
  <2>4. Placed' = Placed BY <2>0, <2>1 DEF Placed
  <2>5. Refused' = Refused BY <2>0, <2>1 DEF Refused, Blocked
  <2> QED BY <2>0, <2>2, <2>3, <2>4, <2>5 DEF DirectoryInv
<1> QED BY <1>1, <1>2, <1>3, <1>4 DEF DirectoryNext

\* When nothing is ready or blocked the order is closed, and with the pending
\* modules it sustains itself: the least and the greatest fixed point.
LEMMA OrderedAll ==
    ASSUME DirectoryInv, Cycle
    PROVE  Range(order) = Loadable /\ Range(order) \cup pending = Supported
<1> USE DEF DirectoryInv
<1>0. Divided /\ Once /\ Placed /\ Refused BY DEF Cycle
<1>1. Range(order) \subseteq Loadable
  BY <1>0 DEF Divided, Placed, Loadable
<1>2. Closed(Range(order))
  <2> SUFFICES ASSUME NEW i \in Eligible, Needs(i) \subseteq available, i \notin Range(order)
      PROVE  FALSE
    BY <1>0 DEF Closed, Placed, Needs
  <2>1. i \notin pending BY DEF Cycle, Ready, IsReady
  <2>2. Blocked(i) BY <1>0, <2>1 DEF Divided, Eligible, Refused
  <2> QED BY <2>2 DEF Blocked
<1>3. Loadable \subseteq Range(order)
  BY <1>0, <1>2 DEF Divided, Loadable
<1>4. Sustained(Range(order) \cup pending)
  <2> DEFINE S == Range(order) \cup pending
  <2>1. available \cup Declared = present \cup ProvidedBy(S)
    BY <1>0, UnionOfProvided DEF Placed, Declared
  <2>2. \A i \in Range(order) : Needs(i) \subseteq available BY <1>0 DEF Placed
  <2>3. \A i \in pending : Needs(i) \subseteq available \cup Declared
    BY DEF Cycle, Stuck, Blocked
  <2> QED BY <2>1, <2>2, <2>3 DEF Sustained, Needs
<1>5. Range(order) \cup pending \subseteq Supported
  BY <1>0, <1>4 DEF Divided, Supported
<1>6. Supported \subseteq Range(order) \cup pending
  BY <1>0 DEF Refused, Supported
<1> QED BY <1>1, <1>3, <1>5, <1>6

\* The pass that ends the loop leaves the order and the reasons as declared.
LEMMA OrderStep ==
    ASSUME DirectoryInv, [DirectoryNext]_directoryVars, phase = "order", phase' = "load"
    PROVE  LET Because(why) == {i \in DOMAIN unresolved' : unresolved'[i] = why}
           IN /\ Range(order) = Loadable /\ Len(order) = Cardinality(Loadable)
              /\ Because("cycle") = Supported \ Loadable
              /\ Because("no provider") = Eligible \ Supported
              /\ Because("duplicate") = Duplicates(batch)
<1>0. Divided /\ Once BY DEF DirectoryInv
<1>1. Cycle
  BY DEF DirectoryNext, directoryVars, Place, NoProvider, LoadNext, Loads
<1>2. Range(order) = Loadable /\ Range(order) \cup pending = Supported BY <1>1, OrderedAll
<1>3. Len(order) = Cardinality(Loadable) BY <1>0, <1>2 DEF Once
<1>4. /\ DOMAIN unresolved' = DOMAIN unresolved \cup pending
      /\ \A i \in pending : unresolved'[i] = "cycle"
      /\ \A i \in DOMAIN unresolved \ pending : unresolved'[i] = unresolved[i]
  BY <1>1 DEF Cycle, Reason
<1>5. Duplicates(batch) \subseteq DOMAIN batch BY DEF Duplicates
<1>6. /\ pending = Supported \ Loadable
      /\ DOMAIN unresolved \ pending = DOMAIN unresolved
      /\ Eligible \ Supported = DOMAIN unresolved \ Duplicates(batch)
      /\ Duplicates(batch) \subseteq DOMAIN unresolved
  BY <1>0, <1>2, <1>5 DEF Divided, Eligible
<1>7. \A i \in DOMAIN unresolved :
        unresolved'[i] = IF i \in Duplicates(batch) THEN "duplicate" ELSE "no provider"
  BY <1>0, <1>4, <1>6 DEF Divided
<1>8. {i \in DOMAIN unresolved' : unresolved'[i] = "cycle"} = pending
  BY <1>4, <1>6, <1>7
<1>9. {i \in DOMAIN unresolved' : unresolved'[i] = "no provider"} = Eligible \ Supported
  BY <1>4, <1>6, <1>7
<1>10. {i \in DOMAIN unresolved' : unresolved'[i] = "duplicate"} = Duplicates(batch)
  BY <1>4, <1>6, <1>7
<1> QED BY <1>2, <1>3, <1>6, <1>8, <1>9, <1>10

\* For any manifests, resolve (module/resolve.rs) orders exactly the modules that
\* can be loaded at all, each once, and its reasons for the others are true: a
\* cycle when they lack only each other, no provider when nobody gives what they
\* or those they wait for lack (OrderIsComplete).
THEOREM OrderTheorem == DirectorySpec => OrderIsComplete
<1>1. DirectoryInit => DirectoryInv BY DirectoryInitInv
<1>2. DirectoryInv /\ [DirectoryNext]_directoryVars => DirectoryInv' BY DirectoryStep
<1>3. DirectoryInv /\ [DirectoryNext]_directoryVars =>
        [phase = "order" /\ phase' = "load" =>
         LET Because(why) == {i \in DOMAIN unresolved' : unresolved'[i] = why}
         IN /\ Range(order) = Loadable /\ Len(order) = Cardinality(Loadable)
            /\ Because("cycle") = Supported \ Loadable
            /\ Because("no provider") = Eligible \ Supported
            /\ Because("duplicate") = Duplicates(batch)]_directoryVars
  BY OrderStep
<1> QED BY <1>1, <1>2, <1>3, PTL DEF DirectorySpec, OrderIsComplete

-----------------------------------------------------------------------------
(* The choice of an artifact (module/first_admitted.rs).                   *)

\* Where an artifact may be, and what may be there.
Spots == {"bundle", "cache"} \X (Nat \ {0})
Finds == {"unbuildable", "absent", "admitted", "placement", "refused"}

\* What the variables are.
AdmittedType ==
    /\ bundle \in Seq(Finds) /\ cache \in Seq(Finds \ {"absent", "placement"})
    /\ unprepared \in Nat /\ (unprepared = 0 \/ callbacks)
    /\ at \in Spots /\ attempts \in Seq(Spots)

\* The artifacts that were loaded.
Tried == Range(attempts)

\* They were tried in the order of preference, each with a binding that was there.
InTurn ==
    /\ \A m, n \in DOMAIN attempts : m < n => Precedes(attempts[m], attempts[n])
    /\ unprepared \notin 1 .. Len(attempts)

\* While there is no result: what was tried is what is offered up to here, none of it
\* was admitted, and the flags say what the bundle held.
Looking ==
    /\ Tried = {a \in Offered : Precedes(a, at)}
    /\ \A a \in Tried : PlaceOf(a) # "admitted"
    /\ at[1] = "cache" => Usable
    /\ at[1] = "bundle" =>
          /\ misplaced <=> \A a \in Tried : PlaceOf(a) # "refused"
          /\ found <=> Tried # {}

\* The invariant of the two loops over the artifacts.
AdmittedInv ==
    AdmittedType /\ InTurn /\ (outcome = "none" => Looking) /\ AdmittedAsDeclared

\* The order of preference is a strict and total order of the spots, in which
\* the loops move to the next.
LEMMA PrecedesOrders ==
    /\ \A a \in Spots : ~Precedes(a, a)
    /\ \A a, b \in Spots : Precedes(a, b) \/ Precedes(b, a) \/ a = b
    /\ \A a, b, c \in Spots : Precedes(a, b) /\ Precedes(b, c) => Precedes(a, c)
    /\ \A a \in Spots : \A b \in Spots :
          Precedes(b, <<a[1], a[2] + 1>>) <=> Precedes(b, a) \/ b = a
BY DEF Spots, Precedes

\* What is offered is an artifact in its place.
LEMMA OfferedSpots ==
    ASSUME AdmittedType
    PROVE  /\ Offered \subseteq Spots
           /\ \A a \in Offered : PlaceOf(a) \in {"admitted", "placement", "refused"}
           /\ Held("bundle", bundle) = {a \in Offered : a[1] = "bundle"}
           /\ Usable => Held("cache", cache) = {a \in Offered : a[1] = "cache"}
BY DEF AdmittedType, Offered, Held, Spots, Finds, PlaceOf

\* What the loops leave alone, and what therefore stays.
LEMMA StillFacts ==
    ASSUME Still
    PROVE  /\ UNCHANGED <<bundle, cache, callbacks, unprepared>>
           /\ Offered' = Offered /\ Usable' = Usable /\ Winners' = Winners /\ Due' = Due
           /\ \A a : PlaceOf(a)' = PlaceOf(a)
           /\ Admitted' = Admitted
BY DEF Still, Offered, Usable, Winners, Due, PlaceOf, Admitted

\* Neither a failure nor no result at all is an admission.
LEMMA NoResult == "failed" \notin Admitted /\ "none" \notin Admitted
BY DEF Admitted

\* Nothing was tried, and nothing precedes the first place in the bundle.
LEMMA AdmittedInitInv == AdmittedInit => AdmittedInv
<1> SUFFICES ASSUME AdmittedInit PROVE AdmittedInv OBVIOUS
<1>1. Places \subseteq Finds BY FirstAdmittedAssumption DEF IsPlace, Finds
<1>2. PICK n \in 0 .. MaxAssets :
        /\ cache \in [1 .. n -> Places \ {"absent", "placement"}]
        /\ bundle \in [1 .. n -> Places] \cup {<<>>}
        /\ unprepared \in Nat /\ (unprepared = 0 \/ callbacks)
  BY DEF AdmittedInit
<1>3. n \in Nat BY FirstAdmittedAssumption
<1>4. cache \in Seq(Finds \ {"absent", "placement"}) BY <1>1, <1>2, <1>3
<1>5. bundle \in Seq(Finds)
  <2>1. CASE bundle = <<>> BY <2>1
  <2>2. CASE bundle \in [1 .. n -> Places] BY <1>1, <1>3, <2>2
  <2> QED BY <1>2, <2>1, <2>2
<1>6. AdmittedType BY <1>2, <1>4, <1>5 DEF AdmittedInit, AdmittedType, Spots
<1>7. Tried = {} /\ Len(attempts) = 0 BY DEF AdmittedInit, Tried, Range
<1>8. \A a \in Offered : ~Precedes(a, at)
  BY <1>6, OfferedSpots DEF AdmittedInit, Precedes, Spots
<1>9. Looking BY <1>7, <1>8 DEF AdmittedInit, Looking
<1> QED BY <1>6, <1>7, <1>9 DEF AdmittedInit, AdmittedInv, InTurn, AdmittedAsDeclared

\* A place with nothing to load is passed over.
LEMMA PassKeeps ==
    ASSUME AdmittedInv, Still, outcome = "none", outcome' = "none", at \notin Offered,
           at' = <<at[1], at[2] + 1>>, UNCHANGED <<attempts, misplaced, found>>
    PROVE  AdmittedInv'
<1>1. at \in Spots /\ at' \in Spots /\ at'[1] = at[1] BY DEF AdmittedInv, AdmittedType, Spots
<1>2. AdmittedType' BY <1>1, StillFacts DEF AdmittedInv, AdmittedType
<1>3. InTurn' BY StillFacts DEF AdmittedInv, InTurn, Precedes
<1>4. Tried' = Tried BY DEF Tried
<1>5. \A a \in Offered : Precedes(a, at') <=> Precedes(a, at)
  BY <1>1, OfferedSpots, PrecedesOrders DEF AdmittedInv
<1>6. Looking' BY <1>1, <1>4, <1>5, StillFacts DEF AdmittedInv, Looking
<1> QED BY <1>2, <1>3, <1>6 DEF AdmittedInv, AdmittedAsDeclared

\* What was tried is due, and so is all that is preferred to it.
LEMMA TriedIsDue ==
    ASSUME AdmittedType, Looking
    PROVE  /\ Tried \subseteq Due /\ \A a \in Tried, b \in Due : Precedes(b, a) => b \in Tried
           /\ at \in Offered => at \in Due /\ at \notin Tried
           /\ at \in Offered /\ PlaceOf(at) = "admitted" => Due = Tried \cup {at}
<1>1. Offered \subseteq Spots /\ at \in Spots BY OfferedSpots DEF AdmittedType
<1>2. \A w \in Winners : ~Precedes(w, at) BY DEF Looking, Winners
<1>3. Tried \subseteq Due
  BY <1>1, <1>2, PrecedesOrders DEF Looking, Due, Winners
<1>4. \A a \in Tried, b \in Due : Precedes(b, a) => b \in Tried
  BY <1>1, PrecedesOrders DEF Looking, Due
<1>5. at \in Offered => at \in Due /\ at \notin Tried
  BY <1>1, <1>2, PrecedesOrders DEF Looking, Due
<1>6. ASSUME at \in Offered, PlaceOf(at) = "admitted" PROVE Due \subseteq Tried \cup {at}
  BY <1>1, <1>6, PrecedesOrders DEF Looking, Due, Winners
<1> QED BY <1>3, <1>4, <1>5, <1>6

\* An artifact that is there is loaded, unless its binding is missing.
LEMMA AttemptKeeps ==
    ASSUME AdmittedInv, Still, outcome = "none", at \in Offered, Attempt(PlaceOf(at)),
           at' = <<at[1], at[2] + 1>>, at[1] = "bundle" => found'
    PROVE  AdmittedInv'
<1> DEFINE place == PlaceOf(at)
<1>0. AdmittedType /\ InTurn /\ Looking BY DEF AdmittedInv
<1>1. at \in Spots /\ at' \in Spots /\ at'[1] = at[1] BY <1>0 DEF AdmittedType, Spots
<1>2. Offered \subseteq Spots BY <1>0, OfferedSpots
<1>3. CASE callbacks /\ Len(attempts) + 1 = unprepared
  <2>1. outcome' = "failed" /\ attempts' = attempts BY <1>3 DEF Attempt
  <2>2. AdmittedType' BY <1>0, <1>1, <2>1, StillFacts DEF AdmittedType
  <2>3. InTurn' BY <1>0, <2>1, StillFacts DEF InTurn, Precedes
  <2>4. Tried' = Tried BY <2>1 DEF Tried
  <2>5. AdmittedAsDeclared'
    BY <1>0, <1>3, <2>1, <2>3, <2>4, TriedIsDue, StillFacts, NoResult
    DEF AdmittedAsDeclared, InTurn, Tried
  <2> QED BY <2>1, <2>2, <2>3, <2>5 DEF AdmittedInv
<1>4. CASE ~(callbacks /\ Len(attempts) + 1 = unprepared)
  <2>1. /\ attempts' = Append(attempts, at)
        /\ place = "admitted" => outcome' \in Admitted
        /\ place # "admitted" => outcome' = outcome
        /\ misplaced' = IF at[1] = "bundle" /\ place = "refused" THEN FALSE ELSE misplaced
    BY <1>4 DEF Attempt
  <2>2. /\ attempts' \in Seq(Spots) /\ Len(attempts') = Len(attempts) + 1
        /\ Tried' = Tried \cup {at}
    BY <1>0, <1>1, <2>1, AppendRange DEF AdmittedType, Tried
  <2>3. AdmittedType' BY <1>0, <1>1, <2>2, StillFacts DEF AdmittedType
  <2>4. unprepared' \notin 1 .. Len(attempts')
    BY <1>0, <1>4, <2>2, StillFacts DEF AdmittedType, InTurn
  <2>5. \A m, n \in DOMAIN attempts' : m < n => Precedes(attempts'[m], attempts'[n])
    <3> SUFFICES ASSUME NEW m \in DOMAIN attempts', NEW n \in DOMAIN attempts', m < n
        PROVE  Precedes(attempts'[m], attempts'[n])
      OBVIOUS
    <3>1. m \in DOMAIN attempts /\ attempts'[m] = attempts[m]
      BY <1>0, <2>1, <2>2 DEF AdmittedType
    <3>2. CASE n \in DOMAIN attempts
      <4>1. attempts'[n] = attempts[n] BY <1>0, <2>1, <3>2 DEF AdmittedType
      <4> QED BY <1>0, <3>1, <3>2, <4>1 DEF InTurn
    <3>3. CASE n \notin DOMAIN attempts
      <4>1. attempts'[n] = at BY <1>0, <2>1, <2>2, <3>3 DEF AdmittedType
      <4>2. attempts[m] \in Tried BY <3>1 DEF Tried, Range
      <4> QED BY <1>0, <3>1, <4>1, <4>2 DEF Looking
    <3> QED BY <3>2, <3>3
  <2>6. InTurn' BY <2>4, <2>5 DEF InTurn, Precedes
  <2>7. CASE place = "admitted"
    <3>1. outcome' \in Admitted' BY <2>1, <2>7, StillFacts
    <3>2. Due' = Tried' BY <1>0, <2>2, <2>7, TriedIsDue, StillFacts
    <3>3. Winners' # {} BY <2>7, StillFacts DEF Winners
    <3>4. AdmittedAsDeclared' BY <2>6, <3>1, <3>2, <3>3 DEF AdmittedAsDeclared, InTurn, Tried
    <3> QED BY <2>3, <2>6, <3>1, <3>4, NoResult, StillFacts DEF AdmittedInv
  <2>8. CASE place # "admitted"
    <3>1. outcome' = "none" BY <2>1, <2>8
    <3>2. {a \in Offered : Precedes(a, at')} = Tried \cup {at}
      BY <1>0, <1>1, <1>2, PrecedesOrders DEF Looking
    <3>3. \A a \in Tried' : PlaceOf(a) # "admitted" BY <1>0, <2>2, <2>8 DEF Looking
    <3>4. at[1] = "bundle" =>
            /\ misplaced' <=> \A a \in Tried' : PlaceOf(a) # "refused"
            /\ found' <=> Tried' # {}
      BY <1>0, <2>1, <2>2 DEF Looking
    <3>5. Looking'
      BY <1>0, <1>1, <2>2, <3>2, <3>3, <3>4, StillFacts DEF Looking
    <3> QED BY <2>3, <2>6, <3>1, <3>5 DEF AdmittedInv, AdmittedAsDeclared
  <2> QED BY <2>7, <2>8
<1> QED BY <1>3, <1>4

\* With nothing admitted and all that is offered tried, there is no result.
LEMMA FailKeeps ==
    ASSUME AdmittedInv, Still, outcome = "none", outcome' = "failed", Tried = Offered,
           UNCHANGED <<at, attempts, misplaced, found>>
    PROVE  AdmittedInv'
<1>0. AdmittedType /\ InTurn /\ Looking BY DEF AdmittedInv
<1>1. AdmittedType' BY <1>0, StillFacts DEF AdmittedType
<1>2. InTurn' BY <1>0, StillFacts DEF InTurn, Precedes
<1>3. Winners = {} BY <1>0 DEF Winners, Looking
<1>4. Tried' = Tried BY DEF Tried
<1>5. Due = Offered BY <1>3 DEF Due
<1>6. AdmittedAsDeclared'
  BY <1>2, <1>3, <1>4, <1>5, StillFacts, NoResult DEF AdmittedAsDeclared, InTurn, Tried
<1> QED BY <1>1, <1>2, <1>6 DEF AdmittedInv

\* The loop over the installer's bundle.
LEMMA TryBundleKeeps == AdmittedInv /\ TryBundle => AdmittedInv'
<1> SUFFICES ASSUME AdmittedInv, TryBundle PROVE AdmittedInv' OBVIOUS
<1>1. /\ Still /\ outcome = "none" /\ at \in Spots /\ at[1] = "bundle"
      /\ at[2] \in DOMAIN bundle
      /\ at' = <<at[1], at[2] + 1>> /\ PlaceOf(at) = bundle[at[2]]
  BY DEF TryBundle, PlaceOf, AdmittedInv, AdmittedType
<1>2. at = <<"bundle", at[2]>> BY <1>1 DEF Spots
<1>3. at \in Offered <=> bundle[at[2]] \notin {"unbuildable", "absent"}
  BY <1>1, <1>2 DEF Offered, Held
<1>4. CASE bundle[at[2]] \in {"unbuildable", "absent"}
  BY <1>1, <1>3, <1>4, PassKeeps DEF TryBundle
<1>5. CASE bundle[at[2]] \notin {"unbuildable", "absent"}
  BY <1>1, <1>3, <1>5, AttemptKeeps DEF TryBundle
<1> QED BY <1>4, <1>5

\* The loop over the release cache.
LEMMA TryCacheKeeps == AdmittedInv /\ TryCache => AdmittedInv'
<1> SUFFICES ASSUME AdmittedInv, TryCache PROVE AdmittedInv' OBVIOUS
<1>1. /\ Still /\ outcome = "none" /\ at \in Spots /\ at[1] = "cache"
      /\ at[2] \in DOMAIN cache /\ UNCHANGED found
      /\ at' = <<at[1], at[2] + 1>> /\ PlaceOf(at) = cache[at[2]]
  BY DEF TryCache, PlaceOf, AdmittedInv, AdmittedType
<1>2. at = <<"cache", at[2]>> BY <1>1 DEF Spots
<1>3. cache[at[2]] # "absent" BY <1>1 DEF AdmittedInv, AdmittedType
<1>4. Usable BY <1>1 DEF AdmittedInv, Looking
<1>5. at \in Offered <=> cache[at[2]] # "unbuildable"
  BY <1>1, <1>2, <1>3, <1>4 DEF Offered, Held
<1>6. CASE cache[at[2]] = "unbuildable"
  BY <1>1, <1>5, <1>6, PassKeeps DEF TryCache
<1>7. CASE cache[at[2]] # "unbuildable"
  BY <1>1, <1>5, <1>7, AttemptKeeps DEF TryCache
<1> QED BY <1>6, <1>7

\* The cache is at its end, and so is what is offered.
LEMMA CacheEndsKeeps == AdmittedInv /\ CacheEnds => AdmittedInv'
<1> SUFFICES ASSUME AdmittedInv, CacheEnds PROVE AdmittedInv' OBVIOUS
<1>1. AdmittedType /\ Looking /\ at[1] = "cache" /\ at[2] \notin DOMAIN cache
  BY DEF AdmittedInv, CacheEnds
<1>2. at[2] \in Nat \ {0} /\ at[2] > Len(cache) BY <1>1 DEF AdmittedType, Spots
<1>3. \A a \in Held("cache", cache) : Precedes(a, at)
  BY <1>1, <1>2 DEF Held, Precedes, AdmittedType
<1>4. \A a \in Held("bundle", bundle) : Precedes(a, at) BY <1>1 DEF Held, Precedes
<1>5. Tried = Offered BY <1>1, <1>3, <1>4 DEF Looking, Offered
<1> QED BY <1>5, FailKeeps DEF CacheEnds

\* The bundle is at its end: it was authoritative, or the cache is looked at next.
LEMMA BundleEndsKeeps == AdmittedInv /\ BundleEnds => AdmittedInv'
<1> SUFFICES ASSUME AdmittedInv, BundleEnds PROVE AdmittedInv' OBVIOUS
<1>1. /\ AdmittedType /\ InTurn /\ Looking /\ Still
      /\ at[1] = "bundle" /\ at[2] \notin DOMAIN bundle
      /\ UNCHANGED <<attempts, misplaced, found>>
  BY DEF AdmittedInv, BundleEnds
<1>2. at[2] \in Nat \ {0} /\ at[2] > Len(bundle) BY <1>1 DEF AdmittedType, Spots
<1>3. \A a \in Held("bundle", bundle) : Precedes(a, at)
  BY <1>1, <1>2 DEF Held, Precedes, AdmittedType
<1>4. \A a \in Tried : a \in Held("bundle", bundle)
  BY <1>1, OfferedSpots DEF Looking, Precedes
<1>5. Tried = Held("bundle", bundle) BY <1>1, <1>3, <1>4 DEF Looking, Offered
<1>6. \A a \in Tried : PlaceOf(a) \in {"placement", "refused"}
  BY <1>1, <1>4, OfferedSpots DEF Looking
<1>7. CASE found /\ ~misplaced
  <2>1. ~Usable BY <1>1, <1>5, <1>7 DEF Looking, Usable
  <2>2. Tried = Offered BY <1>5, <2>1 DEF Offered
  <2> QED BY <1>7, <2>2, FailKeeps DEF BundleEnds
<1>8. CASE ~(found /\ ~misplaced)
  <2>1. at' = <<"cache", 1>> /\ UNCHANGED outcome BY <1>8 DEF BundleEnds
  <2>2. Usable BY <1>1, <1>5, <1>6, <1>8 DEF Looking, Usable
  <2>3. {a \in Offered : Precedes(a, <<"cache", 1>>)} = Held("bundle", bundle)
    BY <1>1, OfferedSpots DEF Precedes, Spots
  <2>4. AdmittedType' BY <1>1, <2>1, StillFacts DEF AdmittedType, Spots
  <2>5. InTurn' BY <1>1, StillFacts DEF InTurn, Precedes
  <2>6. Tried' = Tried BY <1>1 DEF Tried
  <2>7. Looking' BY <1>1, <1>5, <2>1, <2>2, <2>3, <2>6, StillFacts DEF Looking
  <2> QED BY <2>1, <2>4, <2>5, <2>7 DEF AdmittedInv, AdmittedAsDeclared, BundleEnds
<1> QED BY <1>7, <1>8

\* A step that changes nothing.
LEMMA AdmittedStutters == AdmittedInv /\ UNCHANGED admittedVars => AdmittedInv'
<1> SUFFICES ASSUME AdmittedInv, UNCHANGED admittedVars PROVE AdmittedInv' OBVIOUS
<1>1. Still /\ UNCHANGED <<at, attempts, misplaced, found, outcome>>
  BY DEF Still, admittedVars
<1>2. Tried' = Tried BY <1>1 DEF Tried
<1>3. AdmittedType' BY <1>1, StillFacts DEF AdmittedInv, AdmittedType
<1>4. InTurn' BY <1>1, StillFacts DEF AdmittedInv, InTurn, Precedes
<1>5. Looking' = Looking BY <1>1, <1>2, StillFacts DEF Looking
<1>6. AdmittedAsDeclared' = AdmittedAsDeclared
  BY <1>1, <1>2, <1>4, StillFacts DEF AdmittedInv, AdmittedAsDeclared, InTurn, Tried
<1> QED BY <1>1, <1>3, <1>4, <1>5, <1>6 DEF AdmittedInv

\* For any release, load_first_admitted and its form with callbacks
\* (module/first_admitted.rs) try what the bundle, then the cache offers in order
\* and once, each with its own binding, and end with the first that the host
\* admits, or with none of them (AdmittedAsDeclared).
THEOREM AdmittedTheorem == AdmittedSpec => []AdmittedAsDeclared
<1>1. AdmittedInit => AdmittedInv BY AdmittedInitInv
<1>2. AdmittedInv /\ [AdmittedNext]_admittedVars => AdmittedInv'
  BY TryBundleKeeps, BundleEndsKeeps, TryCacheKeeps, CacheEndsKeeps, AdmittedStutters
     DEF AdmittedNext
<1>3. AdmittedInv => AdmittedAsDeclared BY DEF AdmittedInv
<1> QED BY <1>1, <1>2, <1>3, PTL DEF AdmittedSpec

================================================================================
