--------------------------- MODULE HostSideProofs ---------------------------
(***************************************************************************)
(* Theorems about what a program keeps of its modules, part by part.       *)
(*                                                                         *)
(* Leases and the registry of the host's objects: for any number of        *)
(* leases, directly served objects and paths, whichever activations,       *)
(* exports and stops fail, time out or are abandoned, the shared bus name  *)
(* follows the use the program makes of it, and a callback stays exported  *)
(* until its lease is stopped.                                             *)
(*                                                                         *)
(* Clients: for any number of handles and peers, a bound client speaks to  *)
(* one peer, and an attested one only to a peer the release vouches for.   *)
(*                                                                         *)
(* The service slot and the configuration of a module, for any number of   *)
(* users, keys, services, callers and configurations: whoever is cancelled *)
(* where, no service is lost, closed twice or used beside the closer of    *)
(* another, and no change that was given up takes effect under a caller    *)
(* that relies on the configuration it was given.                          *)
(***************************************************************************)
EXTENDS RuntimeLease, ClientBinding, ServiceSlot, Reconfigure,
        FiniteSetTheorems, SequenceTheorems, TLAPS

-----------------------------------------------------------------------------
(* Leases.                                                                 *)


Guards == {"absent", "lock", "claimed", "held", "removing", "removed", "failed"}

(* The objects that are counted as users of the name.                      *)
Holding == {r \in Registrants : guards[r] \in {"held", "removing"}}

RegistryTypes ==
    /\ guards \in [Registrants -> Guards]
    /\ names \in [lock : Registrants \cup {NONE}, count : Nat, auto : BOOLEAN,
                  release : BOOLEAN, kept : BOOLEAN]
    /\ owner \in {NONE, "host", "peer"}
    /\ served \in [Paths -> Registrants \cup {NONE}]

(* The registry is locked by the one registration that has claimed the     *)
(* name and not yet exported its object.                                   *)
LockHeld == \A r \in Registrants : guards[r] = "claimed" <=> names.lock = r

Counted == IsFiniteSet(Holding) /\ names.count = Cardinality(Holding)

(* The registry gives the name back with its last object exactly when it   *)
(* was the registry that claimed it; a registration under way knows it.    *)
NameHeld ==
    /\ names.auto <=> ~names.kept /\ names.count > 0
    /\ names.lock = NONE => (owner = "host" <=> names.kept \/ names.count > 0)
    /\ names.lock # NONE => owner = "host" /\ (names.release <=> ~names.kept)

RegistryInv == RegistryTypes /\ LockHeld /\ Counted /\ NameHeld

LeaseStates ==
    [pc : {"idle", "prepare", "export", "start", "leased", "parked", "closing", "over"},
     starter : BOOLEAN, state : {"Open", "Running", "Acknowledged", "Unacknowledged"},
     users : Nat, closer : {"idle", "waiting", "answered"},
     worker : {"off", "check", "stop", "late", "retry", "remove", "parked", "done"},
     attempt : Nat, stopping : Int, starting : BOOLEAN, failed : BOOLEAN]

(* A lease and its guard: the guard is given up by the cleanup worker only, *)
(* which runs once, and waits until the object is gone.                    *)
Sound(x, g) ==
    /\ g = "removing" => x.worker = "remove"
    /\ x.starter => x.worker = "off" /\ x.pc # "idle"
    /\ x.pc \in {"idle", "prepare"} => g = "absent" /\ x.users = 0 /\ x.worker = "off"

WorkerInv ==
    /\ lease \in [Leases -> LeaseStates]
    /\ \A l \in Leases : Sound(lease[l], guards[l])

LeaseInv == RegistryInv /\ WorkerInv

(* The registry's state is left alone.                                     *)
LEMMA RegistryStays ==
    ASSUME RegistryInv, UNCHANGED <<guards, names, owner, served>>
    PROVE  RegistryInv'
<1>1. Holding' = Holding
  BY DEF Holding
<1>2. QED
  BY <1>1 DEF RegistryInv, RegistryTypes, LockHeld, Counted, NameHeld

(* A registrant moves between states that neither hold the lock nor count. *)
LEMMA OutsiderMoves ==
    ASSUME RegistryInv, NEW r \in Registrants, NEW g \in Guards,
           guards' = [guards EXCEPT ![r] = g],
           g # "claimed", guards[r] # "claimed",
           g \in {"held", "removing"} <=> guards[r] \in {"held", "removing"},
           UNCHANGED <<names, owner>>, served' \in [Paths -> Registrants \cup {NONE}]
    PROVE  RegistryInv'
<1>1. guards' \in [Registrants -> Guards] /\ owner' = owner /\ names' = names
  BY DEF RegistryInv, RegistryTypes
<1>2. Holding' = Holding
  BY DEF Holding, RegistryInv, RegistryTypes
<1>3. RegistryTypes' /\ LockHeld'
  BY <1>1 DEF RegistryInv, RegistryTypes, LockHeld
<1>4. QED
  BY <1>1, <1>2, <1>3 DEF RegistryInv, Counted, NameHeld

(* A registrant that moves comes or goes as a user, or neither.            *)
LEMMA UsersChange ==
    ASSUME RegistryInv, NEW r \in Registrants, NEW g \in Guards,
           guards' = [guards EXCEPT ![r] = g]
    PROVE  /\ guards' \in [Registrants -> Guards] /\ guards'[r] = g
           /\ \A o \in Registrants \ {r} : guards'[o] = guards[o]
           /\ Holding' = (Holding \ {r}) \cup (IF g \in {"held", "removing"} THEN {r} ELSE {})
BY DEF RegistryInv, RegistryTypes, Holding

(* The name is claimed.                                                    *)
LEMMA ClaimKeeps ==
    ASSUME RegistryInv, NEW r \in Registrants, Claim(r)
    PROVE  RegistryInv'
<1>1. /\ names.lock = NONE /\ guards[r] = "lock" /\ served' = served
      /\ names.count \in Nat /\ NONE \notin Registrants
  BY LeaseAssumption DEF LeaseAssumption, Claim, RegistryInv, RegistryTypes
<1>2. CASE owner = "peer"
  BY <1>1, <1>2, OutsiderMoves DEF Claim, Guards, RegistryInv, RegistryTypes
<1>3. CASE owner # "peer"
  <2>1. /\ guards' = [guards EXCEPT ![r] = "claimed"] /\ owner' = "host"
        /\ names' = [names EXCEPT !.lock = r, !.release = owner = NONE \/ names.auto]
    BY <1>3 DEF Claim
  <2>2. /\ names' \in [lock : Registrants \cup {NONE}, count : Nat, auto : BOOLEAN,
                        release : BOOLEAN, kept : BOOLEAN]
        /\ names'.lock = r /\ names'.count = names.count /\ names'.auto = names.auto
        /\ names'.kept = names.kept
        /\ names'.release <=> owner = NONE \/ names.auto
        /\ owner' = "host"
    BY <2>1 DEF RegistryInv, RegistryTypes
  <2>3. /\ guards' \in [Registrants -> Guards] /\ guards'[r] = "claimed"
        /\ \A o \in Registrants \ {r} : guards'[o] = guards[o]
        /\ Holding' = Holding
    <3>1. r \notin Holding
      BY <1>1 DEF Holding
    <3>2. /\ guards' \in [Registrants -> Guards] /\ guards'[r] = "claimed"
          /\ \A o \in Registrants \ {r} : guards'[o] = guards[o]
          /\ Holding' = (Holding \ {r}) \cup {}
      BY <2>1, UsersChange DEF Guards
    <3>3. QED
      BY <3>1, <3>2
  <2>4. LockHeld'
    BY <1>1, <2>2, <2>3 DEF RegistryInv, LockHeld
  <2>5. Counted'
    BY <2>2, <2>3 DEF RegistryInv, Counted
  <2>6. /\ owner = "host" <=> names.kept \/ names.count > 0
        /\ names.auto <=> ~names.kept /\ names.count > 0
    BY <1>1 DEF RegistryInv, NameHeld
  <2>7. owner = NONE \/ owner = "host"
    BY <1>3 DEF RegistryInv, RegistryTypes
  <2>8. NameHeld'
    BY <1>1, <1>3, <2>1, <2>2, <2>6, <2>7 DEF RegistryInv, NameHeld, NONE
  <2>9. QED
    BY <1>1, <2>2, <2>3, <2>4, <2>5, <2>8 DEF RegistryInv, RegistryTypes
<1>4. QED
  BY <1>2, <1>3

(* The object is exported and counts.                                      *)
LEMMA RegisterKeeps ==
    ASSUME RegistryInv, NEW r \in Registrants, Register(r)
    PROVE  RegistryInv'
<1>1. /\ names.lock = r /\ guards[r] = "claimed" /\ owner' = owner
      /\ guards' = [guards EXCEPT ![r] = "held"]
      /\ names.count \in Nat /\ r # NONE
  BY LeaseAssumption DEF LeaseAssumption, Register, RegistryInv, RegistryTypes, LockHeld
<1>2. /\ names' \in [lock : Registrants \cup {NONE}, count : Nat, auto : BOOLEAN,
                      release : BOOLEAN, kept : BOOLEAN]
      /\ names'.lock = NONE /\ names'.count = names.count + 1
      /\ names'.auto <=> names.auto \/ names.release
      /\ names'.kept = names.kept
  <2> DEFINE n == names.count + 1
             a == names.auto \/ names.release
  <2>1. names' = [names EXCEPT !.lock = NONE, !.count = n, !.auto = a]
    BY DEF Register
  <2>2. n \in Nat /\ a \in BOOLEAN
    BY <1>1
  <2>3. a <=> names.auto \/ names.release
    OBVIOUS
  <2> HIDE DEF a
  <2>4. QED
    BY <2>1, <2>2, <2>3 DEF RegistryInv, RegistryTypes
<1>3. served' \in [Paths -> Registrants \cup {NONE}]
  BY DEF Register, RegistryInv, RegistryTypes
<1>4. /\ guards' \in [Registrants -> Guards] /\ guards'[r] = "held"
      /\ \A o \in Registrants \ {r} : guards'[o] = guards[o]
      /\ Holding' = (Holding \ {r}) \cup {r}
  BY <1>1, UsersChange DEF Guards
<1>5. Counted'
  <2>1. r \notin Holding /\ IsFiniteSet(Holding) /\ names.count = Cardinality(Holding)
    BY <1>1 DEF Holding, RegistryInv, Counted
  <2>2. Holding' = Holding \cup {r}
    BY <1>4
  <2>3. IsFiniteSet(Holding') /\ Cardinality(Holding') = Cardinality(Holding) + 1
    BY <2>1, <2>2, FS_AddElement
  <2>4. QED
    BY <1>2, <2>1, <2>3 DEF Counted
<1>6. LockHeld'
  BY <1>1, <1>2, <1>4, LeaseAssumption DEF RegistryInv, LockHeld, LeaseAssumption
<1>7. NameHeld'
  BY <1>1, <1>2 DEF RegistryInv, NameHeld
<1>8. QED
  BY <1>1, <1>2, <1>3, <1>4, <1>5, <1>6, <1>7 DEF RegistryInv, RegistryTypes

(* The export fails.                                                       *)
LEMMA RegisterFailsKeeps ==
    ASSUME RegistryInv, NEW r \in Registrants, RegisterFails(r)
    PROVE  RegistryInv'
<1>1. /\ names.lock = r /\ guards[r] = "claimed" /\ served' = served
      /\ guards' = [guards EXCEPT ![r] = "failed"]
      /\ names.count \in Nat /\ r # NONE
      /\ owner' = IF names.release /\ names.count = 0 THEN NONE ELSE owner
  BY LeaseAssumption DEF LeaseAssumption, RegisterFails, RegistryInv, RegistryTypes, LockHeld
<1>2. /\ names' \in [lock : Registrants \cup {NONE}, count : Nat, auto : BOOLEAN,
                      release : BOOLEAN, kept : BOOLEAN]
      /\ names'.lock = NONE /\ names'.count = names.count
      /\ names'.auto <=> names.auto \/ (names.release /\ names.count > 0)
      /\ names'.kept = names.kept
  BY DEF RegisterFails, RegistryInv, RegistryTypes
<1>3. /\ guards' \in [Registrants -> Guards] /\ guards'[r] = "failed"
      /\ \A o \in Registrants \ {r} : guards'[o] = guards[o]
      /\ Holding' = (Holding \ {r}) \cup {}
  BY <1>1, UsersChange DEF Guards
<1>4. Counted'
  <2>1. r \notin Holding
    BY <1>1 DEF Holding
  <2>2. Holding' = Holding
    BY <1>3, <2>1
  <2>3. QED
    BY <1>2, <2>2 DEF RegistryInv, Counted
<1>5. LockHeld'
  BY <1>1, <1>2, <1>3, LeaseAssumption DEF RegistryInv, LockHeld, LeaseAssumption
<1>6. NameHeld'
  <2>1. /\ names.auto <=> ~names.kept /\ names.count > 0
        /\ owner = "host" /\ (names.release <=> ~names.kept)
    BY <1>1 DEF RegistryInv, NameHeld
  <2>2. names.count > 0 \/ names.count = 0
    BY <1>1
  <2>3. QED
    BY <1>1, <1>2, <2>1, <2>2 DEF NameHeld, NONE
<1>7. owner' \in {NONE, "host", "peer"}
  BY <1>1 DEF RegistryInv, RegistryTypes
<1>8. QED
  BY <1>1, <1>2, <1>3, <1>4, <1>5, <1>6, <1>7 DEF RegistryInv, RegistryTypes

(* A guard's object is withdrawn, with the last one the name.              *)
LEMMA RemovesKeeps ==
    ASSUME RegistryInv, NEW r \in Registrants, Removes(r)
    PROVE  RegistryInv'
<1>1. /\ names.lock = NONE /\ guards[r] = "removing"
      /\ guards' = [guards EXCEPT ![r] = "removed"]
      /\ owner' = IF names.count = 1 /\ names.auto THEN NONE ELSE owner
      /\ IsFiniteSet(Holding) /\ names.count = Cardinality(Holding) /\ r \in Holding
  BY DEF Removes, RegistryInv, Counted, Holding
<1>2. Cardinality(Holding) \in Nat /\ Cardinality(Holding) # 0
  <2>1. Cardinality(Holding) \in Nat
    BY <1>1, FS_CardinalityType
  <2>2. QED
    BY <1>1, <2>1, FS_EmptySet
<1>3. names.count \in Nat /\ names.count >= 1 /\ names.count - 1 \in Nat
  BY <1>1, <1>2
<1>4. /\ names' \in [lock : Registrants \cup {NONE}, count : Nat, auto : BOOLEAN,
                      release : BOOLEAN, kept : BOOLEAN]
      /\ names'.lock = NONE /\ names'.count = names.count - 1
      /\ names'.auto <=> names.auto /\ names.count # 1
      /\ names'.kept = names.kept
  BY <1>1, <1>3 DEF Removes, RegistryInv, RegistryTypes
<1>5. /\ guards' \in [Registrants -> Guards] /\ guards'[r] = "removed"
      /\ \A o \in Registrants \ {r} : guards'[o] = guards[o]
      /\ Holding' = (Holding \ {r}) \cup {}
  BY <1>1, UsersChange DEF Guards
<1>6. served' \in [Paths -> Registrants \cup {NONE}]
  BY DEF Removes, Withdrawn, RegistryInv, RegistryTypes
<1>7. Counted'
  <2>1. Holding' = Holding \ {r}
    BY <1>5
  <2>2. IsFiniteSet(Holding') /\ Cardinality(Holding') = Cardinality(Holding) - 1
    BY <1>1, <2>1, FS_RemoveElement
  <2>3. QED
    BY <1>1, <1>4, <2>2 DEF Counted
<1>8. LockHeld'
  BY <1>1, <1>4, <1>5 DEF RegistryInv, LockHeld
<1>9. NameHeld'
  <2>1. /\ names.auto <=> ~names.kept /\ names.count > 0
        /\ owner = "host" <=> names.kept \/ names.count > 0
    BY <1>1 DEF RegistryInv, NameHeld
  <2>2. /\ names.count > 0
        /\ names.count = 1 => ~(names.count - 1 > 0)
        /\ names.count # 1 => names.count - 1 > 0
    BY <1>3
  <2>3. QED
    BY <1>1, <1>4, <2>1, <2>2 DEF NameHeld, NONE
<1>10. owner' \in {NONE, "host", "peer"}
  BY <1>1 DEF RegistryInv, RegistryTypes
<1>11. QED
  BY <1>4, <1>5, <1>6, <1>7, <1>8, <1>9, <1>10 DEF RegistryInv, RegistryTypes

-----------------------------------------------------------------------------
(* One lease moves.                                                        *)
LEMMA LeaseMoves ==
    ASSUME WorkerInv, NEW l \in Leases, NEW x \in LeaseStates,
           lease' = [lease EXCEPT ![l] = x], Sound(x, guards'[l]),
           \A o \in Leases \ {l} : guards'[o] = guards[o]
    PROVE  WorkerInv'
<1>1. lease' \in [Leases -> LeaseStates] /\ lease'[l] = x
      /\ \A o \in Leases \ {l} : lease'[o] = lease[o]
  BY DEF WorkerInv
<1>2. QED
  BY <1>1 DEF WorkerInv

(* The leases stay and the registry goes on with registrations it knows.   *)
LEMMA GuardsMove ==
    ASSUME WorkerInv, lease' = lease,
           \A l \in Leases : \/ guards'[l] = guards[l]
                             \/ guards[l] # "absent" /\ guards'[l] # "removing"
    PROVE  WorkerInv'
BY DEF WorkerInv, Sound

(* The cleanup worker is spawned at most once.                             *)
LEMMA StartedSound ==
    ASSUME NEW x \in LeaseStates, NEW g, Sound(x, g), x.pc \notin {"idle", "prepare"}
    PROVE  /\ Started(x) \in LeaseStates /\ Sound(Started(x), g)
           /\ Started(x).pc = x.pc /\ Started(x).closer = x.closer /\ Started(x).users = x.users
           /\ Started(x).starter = FALSE
<1>1. CASE x.starter
  <2> DEFINE y == [x EXCEPT !.starter = FALSE, !.state = "Running", !.worker = "check"]
  <2>1. /\ y \in LeaseStates /\ y.pc = x.pc /\ y.closer = x.closer /\ y.users = x.users
        /\ y.starter = FALSE /\ y.worker = "check"
    BY DEF LeaseStates
  <2>2. Started(x) = y
    BY <1>1 DEF Started
  <2> HIDE DEF y
  <2>3. x.worker = "off" /\ x.pc # "idle"
    BY <1>1 DEF Sound
  <2>4. QED
    BY <2>1, <2>2, <2>3 DEF Sound
<1>2. CASE ~x.starter
  BY <1>2 DEF Started, LeaseStates
<1>3. QED
  BY <1>1, <1>2

(* A step of a lease that leaves the registry alone.                       *)
LEMMA BecomesKeeps ==
    ASSUME LeaseInv, NEW l \in Leases, NEW x \in LeaseStates, Becomes(l, x),
           Sound(x, guards[l])
    PROVE  LeaseInv'
<1>1. RegistryInv'
  BY RegistryStays DEF Becomes, LeaseInv
<1>2. WorkerInv'
  BY LeaseMoves DEF Becomes, LeaseInv
<1>3. QED
  BY <1>1, <1>2 DEF LeaseInv

(* What the invariant says of one lease.                                   *)
LEMMA LeaseTyped ==
    ASSUME LeaseInv, NEW l \in Leases
    PROVE  lease[l] \in LeaseStates /\ Sound(lease[l], guards[l])
BY DEF LeaseInv, WorkerInv

(* The activation of a lease.                                              *)
LEMMA ActivationKeeps ==
    ASSUME LeaseInv, NEW l \in Leases, NEW ok \in BOOLEAN, NEW outcome,
           \/ Reserve(l, ok) \/ Exported(l) \/ StartReturns(l, outcome) \/ ActivationOver(l)
    PROVE  LeaseInv'
<1> DEFINE x == lease[l]
           g == guards[l]
<1>1. x \in LeaseStates /\ Sound(x, g)
  BY LeaseTyped
<1>2. x.pc \notin {"idle", "prepare"} => /\ Started(x) \in LeaseStates /\ Sound(Started(x), g)
                                        /\ Started(x).pc = x.pc
  BY <1>1, StartedSound
<1>3. CASE Reserve(l, ok)
  <2>1. \E y \in LeaseStates : Becomes(l, y) /\ Sound(y, g)
    <3>1. x.pc = "idle" /\ x.worker = "off"
      BY <1>1, <1>3 DEF Reserve, Sound, LeaseStates
    <3>2. CASE ok
      <4> DEFINE y == [x EXCEPT !.pc = "prepare", !.starter = TRUE]
      <4>1. Becomes(l, y)
        BY <1>3, <3>2 DEF Reserve
      <4>2. y \in LeaseStates /\ Sound(y, g)
        BY <1>1, <3>1 DEF LeaseStates, Sound
      <4>3. QED
        BY <4>1, <4>2
    <3>3. CASE ~ok
      <4> DEFINE y == [x EXCEPT !.pc = "over"]
      <4>1. Becomes(l, y)
        BY <1>3, <3>3 DEF Reserve
      <4>2. y \in LeaseStates /\ Sound(y, g)
        BY <1>1, <3>1 DEF LeaseStates, Sound
      <4>3. QED
        BY <4>1, <4>2
    <3>4. QED
      BY <3>2, <3>3
  <2>2. QED
    BY <2>1, BecomesKeeps
<1>4. CASE Exported(l)
  <2>1. x.pc = "export"
    BY <1>4 DEF Exported
  <2>2. CASE g = "held"
    <3> DEFINE y == [x EXCEPT !.pc = "start", !.starting = TRUE]
    <3>1. Becomes(l, y)
      BY <1>4, <2>2 DEF Exported
    <3>2. y \in LeaseStates /\ Sound(y, g)
      BY <1>1, <2>1 DEF LeaseStates, Sound
    <3>3. QED
      BY <3>1, <3>2, BecomesKeeps
  <2>3. CASE g # "held"
    <3> DEFINE y == [Started(x) EXCEPT !.pc = "closing"]
    <3>1. Becomes(l, y)
      BY <1>4, <2>3 DEF Exported
    <3>2. y \in LeaseStates /\ Sound(y, g)
      BY <1>2, <2>1 DEF LeaseStates, Sound
    <3>3. QED
      BY <3>1, <3>2, BecomesKeeps
  <2>4. QED
    BY <2>2, <2>3
<1>5. CASE StartReturns(l, outcome)
  <2> DEFINE z == [x EXCEPT !.starting = FALSE]
  <2>1. /\ x.pc = "start"
        /\ \/ Becomes(l, [z EXCEPT !.pc = "leased", !.users = 1])
           \/ Becomes(l, [Started(z) EXCEPT !.pc = "closing"])
           \/ Becomes(l, [z EXCEPT !.pc = "parked"])
    BY <1>5 DEF StartReturns
  <2>2. z \in LeaseStates /\ Sound(z, g) /\ z.pc = "start"
    BY <1>1, <2>1 DEF LeaseStates, Sound
  <2> HIDE DEF z
  <2>3. /\ Started(z) \in LeaseStates /\ Sound(Started(z), g) /\ Started(z).pc = "start"
    BY <2>2, StartedSound
  <2>4. /\ [z EXCEPT !.pc = "leased", !.users = 1] \in LeaseStates
        /\ Sound([z EXCEPT !.pc = "leased", !.users = 1], g)
    BY <2>2 DEF LeaseStates, Sound
  <2>5. /\ [Started(z) EXCEPT !.pc = "closing"] \in LeaseStates
        /\ Sound([Started(z) EXCEPT !.pc = "closing"], g)
    BY <2>3 DEF LeaseStates, Sound
  <2>6. /\ [z EXCEPT !.pc = "parked"] \in LeaseStates
        /\ Sound([z EXCEPT !.pc = "parked"], g)
    BY <2>2 DEF LeaseStates, Sound
  <2>7. QED
    BY <2>1, <2>4, <2>5, <2>6, BecomesKeeps
<1>6. CASE ActivationOver(l)
  <2> DEFINE y == [x EXCEPT !.pc = "over"]
  <2>1. Becomes(l, y) /\ x.pc = "closing"
    BY <1>6 DEF ActivationOver
  <2>2. y \in LeaseStates /\ Sound(y, g)
    BY <1>1, <2>1 DEF LeaseStates, Sound
  <2>3. QED
    BY <2>1, <2>2, BecomesKeeps
<1>7. QED
  BY <1>3, <1>4, <1>5, <1>6

(* The handles of a lease.                                                 *)
LEMMA HandlesKeep ==
    ASSUME LeaseInv, NEW l \in Leases,
           Clone(l) \/ DropHandle(l) \/ Close(l) \/ CloseReturns(l)
    PROVE  LeaseInv'
<1> DEFINE x == lease[l]
           g == guards[l]
<1>1. x \in LeaseStates /\ Sound(x, g)
  BY LeaseTyped
<1>2. CASE Clone(l)
  <2> DEFINE y == [x EXCEPT !.users = @ + 1]
  <2>1. Becomes(l, y) /\ x.users \in Nat /\ x.users # 0
    BY <1>1, <1>2 DEF Clone, LeaseStates
  <2>2. y \in LeaseStates /\ Sound(y, g)
    BY <1>1, <2>1 DEF LeaseStates, Sound
  <2>3. QED
    BY <2>1, <2>2, BecomesKeeps
<1>3. CASE DropHandle(l)
  <2>1. x.users > 0 /\ Becomes(l, Dropped(x))
    BY <1>3 DEF DropHandle
  <2>2. CASE x.users = 1
    <3> DEFINE z == [x EXCEPT !.users = 0]
    <3>1. z \in LeaseStates /\ Sound(z, g) /\ z.pc \notin {"idle", "prepare"}
      BY <1>1, <2>1 DEF LeaseStates, Sound
    <3>2. Dropped(x) = Started(z)
      BY <2>2 DEF Dropped
    <3> HIDE DEF z
    <3>3. QED
      BY <2>1, <3>1, <3>2, StartedSound, BecomesKeeps
  <2>3. CASE x.users # 1
    <3> DEFINE y == [x EXCEPT !.users = @ - 1]
    <3>1. x.users - 1 \in Nat
      BY <1>1, <2>1 DEF LeaseStates
    <3>2. y \in LeaseStates /\ Sound(y, g)
      BY <1>1, <3>1 DEF LeaseStates, Sound
    <3>3. Dropped(x) = y
      BY <2>3 DEF Dropped
    <3>4. QED
      BY <2>1, <3>2, <3>3, BecomesKeeps
  <2>4. QED
    BY <2>2, <2>3
<1>4. CASE Close(l)
  <2> DEFINE y == [Started(x) EXCEPT !.closer = "waiting"]
  <2>1. Becomes(l, y) /\ x.users > 0 /\ x.pc \notin {"idle", "prepare"}
    BY <1>1, <1>4 DEF Close, Sound, LeaseStates
  <2>2. Started(x) \in LeaseStates /\ Sound(Started(x), g)
    BY <1>1, <2>1, StartedSound
  <2>3. y \in LeaseStates /\ Sound(y, g)
    BY <2>2 DEF LeaseStates, Sound
  <2>4. QED
    BY <2>1, <2>3, BecomesKeeps
<1>5. CASE CloseReturns(l)
  <2> DEFINE y == [x EXCEPT !.closer = "answered"]
  <2>1. Becomes(l, y)
    BY <1>5 DEF CloseReturns
  <2>2. y \in LeaseStates /\ Sound(y, g)
    BY <1>1 DEF LeaseStates, Sound
  <2>3. QED
    BY <2>1, <2>2, BecomesKeeps
<1>6. QED
  BY <1>2, <1>3, <1>4, <1>5

(* The cleanup worker, until it withdraws the callback.                    *)
LEMMA WorkerKeeps ==
    ASSUME LeaseInv, NEW l \in Leases,
           Attempt(l) \/ Retry(l) \/ AttemptTimeout(l) \/ Acknowledge(l) \/ Fails(l)
    PROVE  LeaseInv'
<1> DEFINE x == lease[l]
           g == guards[l]
<1>1. x \in LeaseStates /\ Sound(x, g)
  BY LeaseTyped
<1>2. CASE Fails(l)
  <2> DEFINE y == [x EXCEPT !.failed = TRUE]
  <2>1. Becomes(l, y)
    BY <1>2 DEF Fails
  <2>2. y \in LeaseStates /\ Sound(y, g)
    BY <1>1 DEF LeaseStates, Sound
  <2>3. QED
    BY <2>1, <2>2, BecomesKeeps
<1>3. CASE ~Fails(l)
  <2>1. x.worker \in {"check", "retry", "stop"} \/ (x.worker = "remove" /\ g # "removing")
    BY <1>3 DEF Attempt, Retry, AttemptTimeout, Acknowledge
  <2>2. ~x.starter /\ x.pc \notin {"idle", "prepare"} /\ g # "removing"
    BY <1>1, <2>1 DEF Sound
  <2>3. \/ Becomes(l, [x EXCEPT !.state = "Unacknowledged", !.worker = "parked"])
        \/ Becomes(l, [x EXCEPT !.worker = "stop", !.stopping = @ + 1])
        \/ Becomes(l, [x EXCEPT !.worker = "check", !.attempt = @ + 1])
        \/ Becomes(l, [x EXCEPT !.state = "Unacknowledged", !.worker = "late"])
        \/ Becomes(l, [x EXCEPT !.state = "Acknowledged", !.worker = "done"])
    BY <1>3 DEF Attempt, Retry, AttemptTimeout, Acknowledge, Park, TimedOut, Unacknowledged
  <2>4. \A y \in LeaseStates : y.worker \notin {"off", "remove"} /\ y.pc = x.pc /\ y.starter = x.starter
                               => Sound(y, g)
    BY <1>1, <2>2 DEF Sound
  <2>5. ASSUME NEW state \in {"Unacknowledged", "Acknowledged"}, NEW w \in {"parked", "late", "done"},
               Becomes(l, [x EXCEPT !.state = state, !.worker = w])
        PROVE  LeaseInv'
    <3> DEFINE y == [x EXCEPT !.state = state, !.worker = w]
    <3>1. y \in LeaseStates /\ y.worker = w /\ y.pc = x.pc /\ y.starter = x.starter
      BY <1>1 DEF LeaseStates
    <3>2. Becomes(l, y)
      BY <2>5
    <3> HIDE DEF y
    <3>3. Sound(y, g)
      BY <2>4, <3>1
    <3>4. QED
      BY <3>1, <3>2, <3>3, BecomesKeeps
  <2>6. CASE Becomes(l, [x EXCEPT !.worker = "stop", !.stopping = @ + 1])
    <3> DEFINE n == x.stopping + 1
               y == [x EXCEPT !.worker = "stop", !.stopping = n]
    <3>0. n \in Int
      BY <1>1 DEF LeaseStates
    <3>1. y \in LeaseStates /\ y.worker = "stop" /\ y.pc = x.pc /\ y.starter = x.starter
      <4> HIDE DEF n
      <4>1. QED
        BY <1>1, <3>0 DEF LeaseStates
    <3>2. Becomes(l, y)
      BY <2>6
    <3> HIDE DEF y
    <3>3. Sound(y, g)
      BY <2>4, <3>1
    <3>4. QED
      BY <3>1, <3>2, <3>3, BecomesKeeps
  <2>7. CASE Becomes(l, [x EXCEPT !.worker = "check", !.attempt = @ + 1])
    <3> DEFINE n == x.attempt + 1
               y == [x EXCEPT !.worker = "check", !.attempt = n]
    <3>0. n \in Nat
      BY <1>1 DEF LeaseStates
    <3>1. y \in LeaseStates /\ y.worker = "check" /\ y.pc = x.pc /\ y.starter = x.starter
      <4> HIDE DEF n
      <4>1. QED
        BY <1>1, <3>0 DEF LeaseStates
    <3>2. Becomes(l, y)
      BY <2>7
    <3> HIDE DEF y
    <3>3. Sound(y, g)
      BY <2>4, <3>1
    <3>4. QED
      BY <3>1, <3>2, <3>3, BecomesKeeps
  <2>8. QED
    BY <2>3, <2>5, <2>6, <2>7
<1>4. QED
  BY <1>2, <1>3

-----------------------------------------------------------------------------
(* The steps that move both: the callback is about to be exported, or is   *)
(* withdrawn after an acknowledged stop.                                   *)
LEMMA PrepareKeeps ==
    ASSUME LeaseInv, NEW l \in Leases, NEW outcome, Prepare(l, outcome)
    PROVE  LeaseInv'
<1> DEFINE x == lease[l]
           g == guards[l]
<1>1. x \in LeaseStates /\ Sound(x, g) /\ x.pc = "prepare" /\ g = "absent"
  BY LeaseTyped DEF Prepare, Sound
<1>2. CASE outcome = "ok"
  <2>1. /\ lease' = [lease EXCEPT ![l] = [x EXCEPT !.pc = "export"]]
        /\ guards' = [guards EXCEPT ![l] = "lock"]
        /\ UNCHANGED <<names, owner, served>>
    BY <1>2 DEF Prepare, LeaseInv, WorkerInv
  <2> DEFINE y == [x EXCEPT !.pc = "export"]
  <2>2. y \in LeaseStates /\ Sound(y, "lock")
    BY <1>1 DEF LeaseStates, Sound
  <2> HIDE DEF y
  <2>3. guards'[l] = "lock" /\ \A o \in Leases \ {l} : guards'[o] = guards[o]
    BY <2>1 DEF LeaseInv, RegistryInv, RegistryTypes, Registrants
  <2>4. WorkerInv'
    BY <2>1, <2>2, <2>3, LeaseMoves DEF LeaseInv, y
  <2>5. RegistryInv'
    BY <1>1, <2>1, OutsiderMoves DEF LeaseInv, RegistryInv, RegistryTypes, Registrants, Guards
  <2>6. QED
    BY <2>4, <2>5 DEF LeaseInv
<1>3. CASE outcome # "ok"
  <2> DEFINE pc == IF outcome = "panic" THEN "over" ELSE "closing"
             y == [Started(x) EXCEPT !.pc = pc]
             z == [x EXCEPT !.pc = pc]
  <2>1. Becomes(l, y)
    BY <1>3 DEF Prepare, Becomes, LeaseInv, WorkerInv
  <2>2. z \in LeaseStates /\ Sound(z, g) /\ z.pc \notin {"idle", "prepare"}
    BY <1>1 DEF LeaseStates, Sound
  <2>3. y = Started(z)
    BY <1>1 DEF Started, LeaseStates
  <2> HIDE DEF y, z
  <2>4. QED
    BY <2>1, <2>2, <2>3, StartedSound, BecomesKeeps
<1>4. QED
  BY <1>2, <1>3

(* A stop returns.                                                         *)
LEMMA StopReturnsKeeps ==
    ASSUME LeaseInv, NEW l \in Leases, NEW outcome, StopReturns(l, outcome)
    PROVE  LeaseInv'
<1> DEFINE x == lease[l]
           z == [x EXCEPT !.stopping = @ - 1]
<1>1. /\ x \in LeaseStates /\ ~x.starter /\ x.pc \notin {"idle", "prepare"}
      /\ guards[l] # "removing"
  <2>1. x \in LeaseStates /\ Sound(x, guards[l])
    BY LeaseTyped
  <2>2. x.worker \in {"stop", "late"}
    BY DEF StopReturns
  <2>3. QED
    BY <2>1, <2>2 DEF Sound
<1>2. /\ z \in LeaseStates /\ ~z.starter /\ z.pc = x.pc
  BY <1>1 DEF LeaseStates
<1>3. PICK y : /\ lease' = [lease EXCEPT ![l] = y]
               /\ \/ y = [z EXCEPT !.worker = "remove"] /\ outcome = "Acknowledged"
                  \/ y = [z EXCEPT !.worker = "retry"] /\ outcome # "Acknowledged"
                  \/ y = Park(z) /\ outcome # "Acknowledged"
  BY DEF StopReturns
<1> HIDE DEF z
<1>4. /\ y \in LeaseStates /\ ~y.starter /\ y.pc = x.pc /\ y.worker # "off"
      /\ outcome = "Acknowledged" => y.worker = "remove"
  BY <1>2, <1>3 DEF Park, Unacknowledged, LeaseStates
<1>5. /\ guards' = IF outcome = "Acknowledged" /\ guards[l] = "held"
                   THEN [guards EXCEPT ![l] = "removing"] ELSE guards
      /\ UNCHANGED <<names, owner, served>>
  BY DEF StopReturns, Withdraw
<1>6. CASE outcome = "Acknowledged" /\ guards[l] = "held"
  <2>1. guards' = [guards EXCEPT ![l] = "removing"]
    BY <1>5, <1>6
  <2>2. guards'[l] = "removing" /\ \A o \in Leases \ {l} : guards'[o] = guards[o]
    BY <2>1 DEF LeaseInv, RegistryInv, RegistryTypes, Registrants
  <2>3. WorkerInv'
    BY <1>1, <1>3, <1>4, <1>6, <2>2, LeaseMoves DEF LeaseInv, Sound
  <2>4. RegistryInv'
    BY <1>5, <1>6, <2>1, OutsiderMoves DEF LeaseInv, RegistryInv, RegistryTypes, Registrants, Guards
  <2>5. QED
    BY <2>3, <2>4 DEF LeaseInv
<1>7. CASE ~(outcome = "Acknowledged" /\ guards[l] = "held")
  <2>1. WorkerInv'
    BY <1>1, <1>3, <1>4, <1>5, <1>7, LeaseMoves DEF LeaseInv, Sound
  <2>2. RegistryInv'
    BY <1>5, <1>7, RegistryStays DEF LeaseInv
  <2>3. QED
    BY <2>1, <2>2 DEF LeaseInv
<1>8. QED
  BY <1>6, <1>7

(* The steps of the registry and of the peers beside it.                   *)
LEMMA RegistryKeeps ==
    ASSUME LeaseInv,
           \/ \E o \in Objects : Serve(o) \/ DropGuard(o)
           \/ \E r \in Registrants : Registry(r) \/ RegisterFails(r)
           \/ PeerOwns
    PROVE  LeaseInv'
<1>1. CASE \E o \in Objects : Serve(o) \/ DropGuard(o)
  <2> PICK o \in Objects : Serve(o) \/ DropGuard(o)
    BY <1>1
  <2>1. o \in Registrants /\ o \notin Leases
    BY LeaseAssumption DEF LeaseAssumption, Registrants
  <2>2. PICK g \in Guards : /\ guards' = [guards EXCEPT ![o] = g]
                            /\ g # "claimed" /\ guards[o] # "claimed"
                            /\ g \in {"held", "removing"} <=> guards[o] \in {"held", "removing"}
    BY DEF Serve, DropGuard, Guards
  <2>3. UNCHANGED <<lease, names, owner, served>>
    BY DEF Serve, DropGuard
  <2>4. RegistryInv'
    BY <2>1, <2>2, <2>3, OutsiderMoves DEF LeaseInv, RegistryInv, RegistryTypes
  <2>5. \A l \in Leases : guards'[l] = guards[l]
    BY <2>1, <2>2 DEF LeaseInv, RegistryInv, RegistryTypes, Registrants
  <2>6. WorkerInv'
    BY <2>3, <2>5, GuardsMove DEF LeaseInv
  <2>7. QED
    BY <2>4, <2>6 DEF LeaseInv
<1>2. CASE \E r \in Registrants : Registry(r) \/ RegisterFails(r)
  <2> PICK r \in Registrants : Registry(r) \/ RegisterFails(r)
    BY <1>2
  <2>1. RegistryInv'
    BY ClaimKeeps, RegisterKeeps, RegisterFailsKeeps, RemovesKeeps DEF Registry, LeaseInv
  <2>2. /\ lease' = lease /\ guards[r] # "absent"
        /\ \E g \in {"failed", "claimed", "held", "removed"} : guards' = [guards EXCEPT ![r] = g]
    BY DEF Registry, Claim, Register, RegisterFails, Removes
  <2>3. \A l \in Leases : \/ guards'[l] = guards[l]
                          \/ guards[l] # "absent" /\ guards'[l] # "removing"
    BY <2>2 DEF LeaseInv, RegistryInv, RegistryTypes, Registrants
  <2>4. WorkerInv'
    BY <2>2, <2>3, GuardsMove DEF LeaseInv
  <2>5. QED
    BY <2>1, <2>4 DEF LeaseInv
<1>3. CASE PeerOwns
  <2>1. /\ UNCHANGED <<lease, guards, names, served>>
        /\ owner # "host" /\ owner' \in {NONE, "peer"}
    BY <1>3 DEF PeerOwns, NONE
  <2>2. Holding' = Holding
    BY <2>1 DEF Holding
  <2>3. NameHeld'
    BY <2>1 DEF LeaseInv, RegistryInv, NameHeld, NONE
  <2>4. RegistryInv'
    BY <2>1, <2>2, <2>3 DEF LeaseInv, RegistryInv, RegistryTypes, LockHeld, Counted
  <2>5. WorkerInv'
    BY <2>1, GuardsMove DEF LeaseInv
  <2>6. QED
    BY <2>4, <2>5 DEF LeaseInv
<1>4. QED
  BY <1>1, <1>2, <1>3

-----------------------------------------------------------------------------
(* The inductive invariant.                                                *)
THEOREM LeaseInvariant == Spec => []LeaseInv
<1>1. Init => LeaseInv
  <2> SUFFICES ASSUME Init PROVE LeaseInv
    OBVIOUS
  <2>1. \A l \in Leases : lease[l] = Unused
    BY DEF Init
  <2>2. Unused \in LeaseStates /\ Sound(Unused, "absent")
    BY DEF Unused, LeaseStates, Sound
  <2>3. WorkerInv
    BY <2>2, LeaseAssumption DEF Init, WorkerInv, Registrants
  <2>4. PICK o \in {NONE, "host", "peer"} :
           /\ owner = o
           /\ names = [lock |-> NONE, count |-> 0, auto |-> FALSE, release |-> FALSE,
                       kept |-> o = "host"]
    BY DEF Init
  <2>5. Holding = {}
    BY DEF Init, Holding
  <2>6. RegistryTypes
    BY <2>4 DEF Init, RegistryTypes, Guards
  <2>7. LockHeld
    BY <2>4, LeaseAssumption DEF Init, LockHeld, LeaseAssumption
  <2>8. Counted
    <3>1. IsFiniteSet({}) /\ Cardinality({}) = 0
      BY FS_EmptySet
    <3>2. names.count = 0
      BY <2>4
    <3>3. QED
      BY <2>5, <3>1, <3>2, Zenon DEF Counted
  <2>9. NameHeld
    <3>1. /\ names.lock = NONE /\ names.count = 0 /\ ~names.auto
          /\ names.kept <=> owner = "host"
      BY <2>4
    <3>2. ~(names.count > 0)
      BY <3>1
    <3>3. QED
      BY <3>1, <3>2, Zenon DEF NameHeld
  <2>10. QED
    BY <2>3, <2>6, <2>7, <2>8, <2>9 DEF LeaseInv, RegistryInv
<1>2. LeaseInv /\ [Next]_vars => LeaseInv'
  <2> SUFFICES ASSUME LeaseInv, [Next]_vars PROVE LeaseInv'
    OBVIOUS
  <2>1. CASE UNCHANGED vars
    <3>1. Holding' = Holding
      BY <2>1 DEF vars, Holding
    <3>2. QED
      BY <2>1, <3>1 DEF vars, LeaseInv, RegistryInv, RegistryTypes, LockHeld, Counted,
                        NameHeld, WorkerInv
  <2>2. CASE \E l \in Leases : Task(l)
    BY <2>2, ActivationKeeps, PrepareKeeps, HandlesKeep, WorkerKeeps DEF Task
  <2>3. CASE \E l \in Leases : \/ \E outcome : StartReturns(l, outcome)
                               \/ \E outcome : StopReturns(l, outcome)
                               \/ Clone(l) \/ DropHandle(l) \/ Close(l) \/ Fails(l)
    BY <2>3, ActivationKeeps, StopReturnsKeeps, HandlesKeep, WorkerKeeps
  <2>4. QED
    BY <2>1, <2>2, <2>3, RegistryKeeps DEF Next
<1>3. QED
  BY <1>1, <1>2, PTL DEF Spec

(* While no registration is under way, the host owns the shared name       *)
(* exactly when the program owned it before or an object still uses it,    *)
(* for any number of objects, whichever exports fail and whenever guards   *)
(* go (serve_host_object_transaction, remove_host_object).                 *)
THEOREM NameFollows == Spec => []NameFollowsUse
<1>1. LeaseInv => NameFollowsUse
  BY DEF LeaseInv, RegistryInv, NameHeld, NameFollowsUse
<1>2. QED
  BY <1>1, LeaseInvariant, PTL

(* A callback stays exported until a stop of its lease is acknowledged, or *)
(* a newer object takes its path, for any number of leases and paths       *)
(* (cleanup_worker, HostObjectGuard, take_if_owned).                       *)
THEOREM CallbackStays == Spec => CallbackKept
<1> DEFINE Kept == \A r \in Registrants :
              served[PathOf[r]] = r /\ served'[PathOf[r]] # r =>
                  \/ served'[PathOf[r]] # NONE /\ guards[served'[PathOf[r]]] = "claimed"
                  \/ guards[r] = "removing" /\ (r \in Leases => lease[r].worker = "remove")
<1>1. LeaseInv /\ [Next]_vars => [Kept]_vars
  <2> SUFFICES ASSUME LeaseInv, Next PROVE Kept
    BY DEF vars
  <2> SUFFICES ASSUME NEW r \in Registrants, served[PathOf[r]] = r, served'[PathOf[r]] # r
               PROVE  \/ served'[PathOf[r]] # NONE /\ guards[served'[PathOf[r]]] = "claimed"
                      \/ guards[r] = "removing" /\ (r \in Leases => lease[r].worker = "remove")
    OBVIOUS
  <2>1. PathOf[r] \in Paths /\ r # NONE
    BY LeaseAssumption DEF LeaseAssumption
  <2>2. served' # served
    BY Zenon
  <2>3. \E o \in Registrants : Register(o) \/ Removes(o)
    BY <2>2 DEF Next, Serve, DropGuard, Registry, Claim, RegisterFails, PeerOwns, Task, Becomes,
                Reserve, Prepare, Exported, ActivationOver, CloseReturns, Attempt, Retry,
                AttemptTimeout, Acknowledge, StartReturns, StopReturns, Clone, DropHandle, Close,
                Fails, Zenon
  <2>4. ASSUME NEW o \in Registrants, Register(o)
        PROVE  served'[PathOf[r]] # NONE /\ guards[served'[PathOf[r]]] = "claimed"
    <3>1. served' = [served EXCEPT ![PathOf[o]] = o] /\ guards[o] = "claimed" /\ o # NONE
      BY <2>4, LeaseAssumption DEF Register, LeaseAssumption
    <3>2. served'[PathOf[r]] = o
      BY <2>1, <3>1 DEF LeaseInv, RegistryInv, RegistryTypes
    <3>3. QED
      BY <3>1, <3>2
  <2>5. ASSUME NEW o \in Registrants, Removes(o)
        PROVE  guards[r] = "removing" /\ (r \in Leases => lease[r].worker = "remove")
    <3>1. served' = Withdrawn(o) /\ guards[o] = "removing"
      BY <2>5 DEF Removes
    <3>2. o = r
      BY <2>1, <3>1 DEF Withdrawn
    <3>3. QED
      BY <3>1, <3>2, LeaseTyped DEF Sound
  <2>6. QED
    BY <2>3, <2>4, <2>5
<1>2. QED
  BY <1>1, LeaseInvariant, PTL DEF Spec, CallbackKept

-----------------------------------------------------------------------------
(* Clients.                                                                *)


HandleStates ==
    [pc : {"idle", "loading", "owner", "attesting", "bound"},
     mode : {"name", "pinned", "attested"},
     to : Peers \cup {Nobody, ByName},
     candidate : Peers \cup {Nobody},
     binds : Nat, sends : Nat]

ClientTypes ==
    /\ fresh \subseteq Peers
    /\ online \subseteq Peers
    /\ ownedBy \in Peers \cup {Nobody}
    /\ handle \in [Clients -> HandleStates]
    /\ outgoing \in [Clients -> Peers \cup {Nobody, ByName}]
    /\ reached \in [Clients -> SUBSET Peers]

(* Until it is bound, a handle that is not by name has called nobody: a    *)
(* call of the handle before it would reach another peer.                  *)
QuietUntilBound(c) ==
    handle[c].mode # "name" /\ handle[c].pc # "bound" =>
        outgoing[c] = Nobody /\ reached[c] = {}

(* Then its destination is a peer, which its calls in flight and those     *)
(* that arrived all name.                                                  *)
BoundToItsPeer(c) ==
    handle[c].mode # "name" /\ handle[c].pc = "bound" =>
        /\ handle[c].to \in Peers
        /\ outgoing[c] \in {Nobody, handle[c].to}
        /\ reached[c] \subseteq {handle[c].to}
        /\ handle[c].mode = "attested" => handle[c].to \in Released

ClientInv == ClientTypes /\ \A c \in Clients : QuietUntilBound(c) /\ BoundToItsPeer(c)

LEMMA ClientInvInit == ClientInit => ClientInv
<1> SUFFICES ASSUME ClientInit PROVE ClientInv
  OBVIOUS
<1>1. Unbound \in HandleStates
  BY DEF Unbound, HandleStates
<1>2. ClientTypes
  BY <1>1 DEF ClientInit, ClientTypes
<1>3. \A c \in Clients : handle[c].mode = "name"
  BY DEF ClientInit, Unbound
<1>4. QED
  BY <1>2, <1>3 DEF ClientInv, QuietUntilBound, BoundToItsPeer

(* The bus changes no handle. *)
LEMMA BusKeeps ==
    ASSUME ClientInv, NEW p \in Peers, Joins(p) \/ Owns(p) \/ Leaves(p)
    PROVE  ClientInv'
<1>1. ClientTypes'
  BY DEF ClientInv, ClientTypes, Joins, Owns, Leaves
<1>2. UNCHANGED <<handle, outgoing, reached>>
  BY DEF Joins, Owns, Leaves
<1>3. QED
  BY <1>1, <1>2 DEF ClientInv, QuietUntilBound, BoundToItsPeer

(* What a step of one handle must show is about that handle alone. *)
LEMMA OneHandle ==
    ASSUME ClientInv, NEW c \in Clients, ClientTypes',
           \A d \in Clients \ {c} : /\ handle'[d] = handle[d] /\ outgoing'[d] = outgoing[d]
                                    /\ reached'[d] = reached[d],
           QuietUntilBound(c)', BoundToItsPeer(c)'
    PROVE  ClientInv'
<1>1. \A d \in Clients \ {c} : QuietUntilBound(d)' /\ BoundToItsPeer(d)'
  BY DEF ClientInv, QuietUntilBound, BoundToItsPeer
<1>2. QED
  BY <1>1 DEF ClientInv

(* Every way of binding starts with nothing in flight. *)
LEMMA BindsKeeps ==
    ASSUME ClientInv, NEW c \in Clients, Binds(c) \/ PinsOwner(c)
    PROVE  ClientInv'
<1> USE DEF ClientInv, ClientTypes
<1>1. CASE Binds(c)
  <2>1. ClientTypes'
    BY <1>1 DEF Binds, HandleStates
  <2>2. QuietUntilBound(c)' /\ BoundToItsPeer(c)'
    BY <1>1 DEF Binds, QuietUntilBound, BoundToItsPeer, HandleStates
  <2>3. QED
    BY <1>1, <2>1, <2>2, OneHandle DEF Binds
<1>2. CASE PinsOwner(c)
  <2>1. ClientTypes'
    BY <1>2 DEF PinsOwner, HandleStates
  <2>2. QuietUntilBound(c)' /\ BoundToItsPeer(c)'
    BY <1>2 DEF PinsOwner, QuietUntilBound, BoundToItsPeer, HandleStates
  <2>3. QED
    BY <1>2, <2>1, <2>2, OneHandle DEF PinsOwner
<1>3. QED
  BY <1>1, <1>2

LEMMA PreparesKeeps ==
    ASSUME ClientInv, NEW c \in Clients, Prepares(c)
    PROVE  ClientInv'
<1>1. ClientTypes'
  BY DEF Prepares, BindFails, Sends_To, ClientInv, ClientTypes, HandleStates
<1>2. QuietUntilBound(c)' /\ BoundToItsPeer(c)'
  BY DEF Prepares, BindFails, Sends_To, QuietUntilBound, BoundToItsPeer, ClientInv, ClientTypes,
     HandleStates
<1>3. QED
  BY <1>1, <1>2, OneHandle DEF Prepares, BindFails, Sends_To, ClientInv, ClientTypes

(* The owner that was found is a peer, whoever owns the name afterwards. *)
LEMMA FindsOwnerKeeps ==
    ASSUME ClientInv, NEW c \in Clients, FindsOwner(c)
    PROVE  ClientInv'
<1>1. ClientTypes'
  BY DEF FindsOwner, BindFails, ClientInv, ClientTypes, HandleStates
<1>2. QuietUntilBound(c)' /\ BoundToItsPeer(c)'
  BY DEF FindsOwner, BindFails, QuietUntilBound, BoundToItsPeer, ClientInv, ClientTypes, HandleStates
<1>3. QED
  BY <1>1, <1>2, OneHandle DEF FindsOwner, BindFails, ClientInv, ClientTypes

(* The candidate is attested, and the candidate becomes the destination. *)
LEMMA AttestsKeeps ==
    ASSUME ClientInv, NEW c \in Clients, Attests(c)
    PROVE  ClientInv'
<1>1. ClientTypes'
  BY DEF Attests, BindFails, Sends_To, ClientInv, ClientTypes, HandleStates
<1>2. QuietUntilBound(c)' /\ BoundToItsPeer(c)'
  BY ClientAssumption DEF ClientAssumption, Attests, BindFails, Sends_To, QuietUntilBound, BoundToItsPeer, ClientInv,
     ClientTypes, HandleStates
<1>3. QED
  BY <1>1, <1>2, OneHandle DEF Attests, BindFails, Sends_To, ClientInv, ClientTypes

(* A call names the destination the handle has, and arrives there. *)
LEMMA CallsKeep ==
    ASSUME ClientInv, NEW c \in Clients, Invokes(c) \/ Routed(c)
    PROVE  ClientInv'
<1>1. CASE Invokes(c)
  <2>1. ClientTypes'
    BY <1>1 DEF Invokes, ClientInv, ClientTypes, HandleStates
  <2>2. QuietUntilBound(c)' /\ BoundToItsPeer(c)'
    BY <1>1 DEF Invokes, QuietUntilBound, BoundToItsPeer, ClientInv, ClientTypes, HandleStates
  <2>3. QED
    BY <1>1, <2>1, <2>2, OneHandle DEF Invokes, ClientInv, ClientTypes
<1>2. CASE Routed(c)
  <2>1. ClientTypes'
    BY <1>2 DEF Routed, ClientInv, ClientTypes
  <2>2. QuietUntilBound(c)' /\ BoundToItsPeer(c)'
    <3>1. handle' = handle /\ outgoing' = [outgoing EXCEPT ![c] = Nobody]
      BY <1>2 DEF Routed
    <3>2. outgoing'[c] = Nobody
      BY <3>1 DEF ClientInv, ClientTypes
    <3>3. CASE handle[c].mode # "name" /\ handle[c].pc = "bound"
      <4>1. outgoing[c] = handle[c].to /\ outgoing[c] # ByName
        BY <1>2, <3>3, ClientAssumption DEF Routed, ClientInv, BoundToItsPeer, ClientAssumption
      <4>2. reached'[c] \subseteq {handle[c].to}
        BY <1>2, <3>3, <4>1 DEF Routed, ClientInv, ClientTypes, BoundToItsPeer
      <4>3. QED
        BY <3>1, <3>2, <3>3, <4>2 DEF ClientInv, QuietUntilBound, BoundToItsPeer
    <3>4. CASE ~(handle[c].mode # "name" /\ handle[c].pc = "bound")
      BY <1>2, <3>1, <3>4 DEF Routed, ClientInv, QuietUntilBound, BoundToItsPeer
    <3>5. QED
      BY <3>3, <3>4
  <2>3. QED
    BY <1>2, <2>1, <2>2, OneHandle DEF Routed, ClientInv, ClientTypes
<1>3. QED
  BY <1>1, <1>2

LEMMA ClientInvNext == ClientInv /\ [ClientNext]_clientVars => ClientInv'
<1> SUFFICES ASSUME ClientInv, [ClientNext]_clientVars PROVE ClientInv'
  OBVIOUS
<1>1. CASE UNCHANGED clientVars
  BY <1>1 DEF ClientInv, ClientTypes, QuietUntilBound, BoundToItsPeer, clientVars
<1>2. CASE ClientNext
  BY <1>2, BusKeeps, BindsKeeps, PreparesKeeps, FindsOwnerKeeps, AttestsKeeps, CallsKeep
     DEF ClientNext
<1>3. QED
  BY <1>1, <1>2

(* BoundToOnePeer holds in every behaviour: however the name moves between *)
(* the lookup, the attestation and the calls (bind, bind_attested,         *)
(* pin_owner), a bound client's calls arrive at one peer, and an attested  *)
(* client's at a peer of the release.                                      *)
THEOREM ClientsBound == ClientSpec => []BoundToOnePeer
<1>1. ClientInv => BoundToOnePeer
  BY DEF ClientInv, BoundToOnePeer, QuietUntilBound, BoundToItsPeer
<1>2. QED
  BY ClientInvInit, ClientInvNext, <1>1, PTL DEF ClientSpec

-----------------------------------------------------------------------------
(* Service slots and configurations.                                       *)


Inside == {"operating", "trying", "opening", "replacing", "closing"}

Tasks ==
    [pc : {"idle", "waiting"} \cup Inside, use : Uses, id : Nat, uses : Nat]

Services == [closers : Nat, closing : BOOLEAN, retired : BOOLEAN]

SlotTypes ==
    /\ installed \in [key : SlotKeys \cup {NoKey}, id : Nat]
    /\ services \in Seq(Services)
    /\ holds \in SUBSET Users
    /\ user \in [Users -> Tasks]

(* Whoever is past waiting holds the lock, and nobody else does. *)
LockKept ==
    /\ \A t \in Users : user[t].pc \in Inside <=> t \in holds
    /\ \A t, o \in holds : t = o

(* The entry is a service that was opened, or nothing. *)
EntryKnown ==
    /\ installed.id \in 0 .. Len(services)
    /\ installed.id = 0 => installed = NoEntry

(* What the holder of the lock has taken in hand. *)
InHand(t) ==
    /\ user[t].pc \in {"operating", "trying"} => installed.id = user[t].id /\ installed.id # 0
    /\ user[t].pc = "operating" => installed.key = user[t].use.key
    /\ user[t].pc = "trying" => user[t].use.kind = "try"
    /\ user[t].pc \in {"opening", "replacing", "closing"} => installed = NoEntry
    /\ user[t].pc \in {"replacing", "closing"} => user[t].id \in DOMAIN services

(* A closer runs on behalf of whoever took the entry out. *)
CloserOwned ==
    \A s \in DOMAIN services : services[s].closing =>
        \E t \in Users : user[t].pc \in {"replacing", "closing"} /\ user[t].id = s

SlotInv ==
    /\ SlotTypes /\ LockKept /\ EntryKnown /\ CloserOwned /\ ServicesDisposed
    /\ \A t \in Users : InHand(t)

(* Changing one service leaves the others and their number alone. *)
LEMMA OneServiceChanged ==
    ASSUME services \in Seq(Services), NEW i \in DOMAIN services, NEW s \in Services,
           services' = [services EXCEPT ![i] = s]
    PROVE  /\ services' \in Seq(Services) /\ DOMAIN services' = DOMAIN services
           /\ Len(services') = Len(services) /\ services'[i] = s
           /\ \A j \in DOMAIN services \ {i} : services'[j] = services[j]
<1>1. DOMAIN services' = DOMAIN services /\ services'[i] = s
      /\ \A j \in DOMAIN services \ {i} : services'[j] = services[j]
  OBVIOUS
<1>2. i \in 1 .. Len(services)
  OBVIOUS
<1>3. services' \in Seq(Services) /\ Len(services') = Len(services)
  BY <1>2, ExceptSeq
<1>4. QED
  BY <1>1, <1>3

LEMMA SlotInvInit == SlotInit => SlotInv
<1> SUFFICES ASSUME SlotInit PROVE SlotInv
  OBVIOUS
<1>1. Resting \in Tasks
  BY DEF Resting, Tasks, Uses
<1>2. SlotTypes
  BY <1>1 DEF SlotInit, SlotTypes, NoEntry
<1>3. QED
  BY <1>2 DEF SlotInit, SlotInv, Resting, LockKept, EntryKnown, InHand, CloserOwned,
     ServicesDisposed, NoEntry, Inside

(* Asking changes nothing but the asker. *)
LEMMA AsksKeeps ==
    ASSUME SlotInv, NEW t \in Users, Asks(t)
    PROVE  SlotInv'
<1>1. SlotTypes'
  BY DEF SlotInv, SlotTypes, Asks, Tasks
<1>2. user'[t].pc = "waiting" /\ \A o \in Users \ {t} : user'[o] = user[o]
  BY DEF SlotInv, SlotTypes, Asks
<1>3. UNCHANGED <<installed, services, holds>> /\ user[t].pc = "idle"
  BY DEF Asks
<1>4. QED
  BY <1>1, <1>2, <1>3 DEF SlotInv, LockKept, EntryKnown, InHand, CloserOwned, ServicesDisposed,
     Inside

(* With the lock granted, nobody is inside and no closer runs. *)
LEMMA GrantedAlone ==
    ASSUME SlotInv, NEW t \in Users, Granted(t)
    PROVE  /\ \A o \in Users : user[o].pc \notin Inside
           /\ \A s \in DOMAIN services : ~services[s].closing
<1>1. holds = {}
  BY DEF Granted
<1>2. \A o \in Users : user[o].pc \notin Inside
  BY <1>1 DEF SlotInv, LockKept
<1>3. QED
  BY <1>2 DEF SlotInv, CloserOwned, Inside

(* A closer that ends, or is dropped, is that of one service. *)
LEMMA StopsOne ==
    ASSUME SlotInv, NEW i \in DOMAIN services, Stops(i)
    PROVE  /\ services' \in Seq(Services) /\ DOMAIN services' = DOMAIN services
           /\ Len(services') = Len(services)
           /\ \A s \in DOMAIN services : /\ services'[s].closers = services[s].closers
                                         /\ services'[s].retired = services[s].retired
           /\ \A s \in DOMAIN services : services'[s].closing => services[s].closing /\ i # s
<1> DEFINE v == [services[i] EXCEPT !.closing = FALSE]
<1>1. services \in Seq(Services) /\ services[i] \in Services
  BY DEF SlotInv, SlotTypes
<1>2. /\ v \in Services /\ v.closing = FALSE
      /\ v.closers = services[i].closers /\ v.retired = services[i].retired
  BY <1>1 DEF Services
<1>3. services' = [services EXCEPT ![i] = v]
  BY DEF Stops
<1> HIDE DEF v
<1>4. QED
  BY <1>1, <1>2, <1>3, OneServiceChanged

(* A step that gives the lock up, without a service changing hands. *)
LEMMA EndsKeeps ==
    ASSUME SlotInv, NEW t \in Users, Ends(t), installed' = installed,
           \/ services' = services /\ user[t].pc \notin {"replacing", "closing"}
           \/ Stops(user[t].id) /\ user[t].pc \in {"replacing", "closing"}
    PROVE  SlotInv'
<1>1. user' = [user EXCEPT ![t].pc = "idle", ![t].id = 0] /\ holds' = holds \ {t}
  BY DEF Ends, Goes
<1>2. user'[t].pc = "idle" /\ \A o \in Users \ {t} : user'[o] = user[o]
  BY <1>1 DEF SlotInv, SlotTypes, Tasks
<1>3. /\ services' \in Seq(Services) /\ DOMAIN services' = DOMAIN services
      /\ Len(services') = Len(services)
      /\ \A s \in DOMAIN services : /\ services'[s].closers = services[s].closers
                                    /\ services'[s].retired = services[s].retired
      /\ \A s \in DOMAIN services : services'[s].closing =>
             services[s].closing /\ (user[t].pc \in {"replacing", "closing"} => user[t].id # s)
  <2>1. CASE services' = services /\ user[t].pc \notin {"replacing", "closing"}
    BY <2>1 DEF SlotInv, SlotTypes
  <2>2. CASE Stops(user[t].id) /\ user[t].pc \in {"replacing", "closing"}
    BY <2>2, StopsOne DEF SlotInv, InHand
  <2>3. QED
    BY <2>1, <2>2
<1>4. SlotTypes'
  BY <1>1, <1>3 DEF SlotInv, SlotTypes, Tasks
<1>5. LockKept'
  BY <1>1, <1>2 DEF SlotInv, LockKept, Inside
<1>6. EntryKnown' /\ ServicesDisposed'
  BY <1>3 DEF SlotInv, EntryKnown, ServicesDisposed
<1>7. CloserOwned'
  BY <1>2, <1>3 DEF SlotInv, CloserOwned
<1>8. \A o \in Users : InHand(o)'
  BY <1>2, <1>3 DEF SlotInv, InHand
<1>9. QED
  BY <1>4, <1>5, <1>6, <1>7, <1>8 DEF SlotInv

(* The lock is granted to t, which then is at pc with a service in hand. *)
LEMMA EnterKeeps ==
    ASSUME SlotInv, NEW t \in Users, Granted(t), holds' = {t},
           NEW pc, NEW id, Goes(t, pc, id),
           \/ /\ pc = "opening" /\ id = 0 /\ installed = NoEntry
              /\ UNCHANGED <<installed, services>>
           \/ /\ pc = "operating" /\ id = installed.id /\ installed # NoEntry
              /\ installed.key = user[t].use.key
              /\ UNCHANGED <<installed, services>>
           \/ /\ pc = "trying" /\ id = installed.id /\ installed # NoEntry
              /\ user[t].use.kind = "try"
              /\ UNCHANGED <<installed, services>>
           \/ pc \in {"replacing", "closing"} /\ id = installed.id /\ installed # NoEntry /\ Takes
    PROVE  SlotInv'
<1>1. id \in Nat /\ pc \in Inside
  BY DEF SlotInv, SlotTypes, Inside
<1>2. SlotTypes /\ user' = [user EXCEPT ![t].pc = pc, ![t].id = id]
  BY DEF SlotInv, Goes
<1>3. /\ user'[t] = [user[t] EXCEPT !.pc = pc, !.id = id]
      /\ \A o \in Users \ {t} : user'[o] = user[o] /\ user[o].pc \notin Inside
  BY <1>2, GrantedAlone DEF SlotTypes
<1>4. user'[t].pc = pc /\ user'[t].id = id /\ user'[t].use = user[t].use /\ user'[t] \in Tasks
  <2>1. user[t] \in Tasks
    BY <1>2 DEF SlotTypes
  <2>2. pc \in {"idle", "waiting"} \cup Inside
    BY <1>1
  <2>3. QED
    BY <1>1, <1>3, <2>1, <2>2 DEF Tasks
<1>5. LockKept'
  BY <1>1, <1>3, <1>4 DEF LockKept
<1>6. user' \in [Users -> Tasks] /\ holds' \in SUBSET Users
  BY <1>2, <1>4 DEF SlotTypes
<1>7. CASE pc \in {"replacing", "closing"}
  <2>1. Takes /\ id = installed.id /\ id \in DOMAIN services
    BY <1>7 DEF SlotInv, SlotTypes, EntryKnown
  <2>2. /\ installed' = NoEntry /\ services' \in Seq(Services)
        /\ DOMAIN services' = DOMAIN services /\ Len(services') = Len(services)
        /\ services'[id] = [services[id] EXCEPT !.closers = @ + 1, !.closing = TRUE]
        /\ \A s \in DOMAIN services \ {id} : services'[s] = services[s]
    <3>1. services \in Seq(Services) /\ services[id] \in Services
      BY <1>2, <2>1 DEF SlotTypes
    <3>2. [services[id] EXCEPT !.closers = @ + 1, !.closing = TRUE] \in Services
      <4>1. services[id].closers + 1 \in Nat
        BY <3>1 DEF Services
      <4>2. QED
        BY <3>1, <4>1, Zenon DEF Services
    <3>3. services' = [services EXCEPT ![id] = [services[id] EXCEPT !.closers = @ + 1,
                                                                   !.closing = TRUE]]
      BY <2>1 DEF Takes
    <3>4. QED
      BY <2>1, <3>1, <3>2, <3>3, OneServiceChanged DEF Takes
  <2>3. /\ services[id].closers = 0 /\ ~services[id].retired /\ services[id] \in Services
    BY <1>2, <2>1 DEF SlotInv, SlotTypes, ServicesDisposed
  <2>4. services'[id].closers = 1 /\ services'[id].retired = FALSE
    BY <2>2, <2>3 DEF Services
  <2>5. ServicesDisposed'
    <3>1. installed'.id = 0 /\ 0 \notin DOMAIN services
      BY <1>2, <2>2 DEF NoEntry, SlotTypes
    <3>2. \A s \in DOMAIN services \ {id} : services[s].closers = 1 <=> ~services[s].retired
      BY <2>1 DEF SlotInv, ServicesDisposed
    <3>3. \A s \in DOMAIN services : services'[s].closers = 1 <=> ~services'[s].retired
      <4>1. services'[id].closers = 1 <=> ~services'[id].retired
        BY <2>4
      <4>2. \A s \in DOMAIN services \ {id} : services'[s].closers = 1 <=> ~services'[s].retired
        BY <2>2, <3>2
      <4>3. QED
        BY <4>1, <4>2
    <3>4. \A s \in DOMAIN services : installed'.id # s
      BY <3>1
    <3>5. QED
      BY <2>2, <3>3, <3>4 DEF ServicesDisposed
  <2>6. CloserOwned'
    BY <1>4, <1>7, <2>2, GrantedAlone DEF CloserOwned
  <2>7. SlotTypes' /\ EntryKnown'
    BY <1>2, <1>6, <2>2 DEF SlotTypes, EntryKnown, NoEntry
  <2>8. \A o \in Users : InHand(o)'
    <3>1. InHand(t)'
      BY <1>4, <1>7, <2>1, <2>2 DEF InHand
    <3>2. \A o \in Users \ {t} : user'[o].pc \notin Inside
      BY <1>3
    <3>3. QED
      BY <3>1, <3>2 DEF InHand, Inside
  <2>9. QED
    BY <1>5, <2>5, <2>6, <2>7, <2>8 DEF SlotInv
<1>8. CASE pc \notin {"replacing", "closing"}
  <2>1. UNCHANGED <<installed, services>>
    BY <1>8
  <2>2. SlotTypes' /\ EntryKnown' /\ ServicesDisposed'
    BY <1>2, <1>6, <2>1 DEF SlotInv, SlotTypes, EntryKnown, ServicesDisposed
  <2>3. CloserOwned'
    BY <2>1, GrantedAlone DEF CloserOwned
  <2>4. installed # NoEntry => installed.id # 0
    BY DEF SlotInv, EntryKnown
  <2>5. InHand(t)'
    BY <1>4, <1>8, <2>1, <2>4 DEF InHand, Inside
  <2>6. ASSUME NEW o \in Users \ {t} PROVE InHand(o)'
    BY <1>3, <2>6 DEF InHand, Inside
  <2>7. QED
    BY <1>5, <2>2, <2>3, <2>5, <2>6 DEF SlotInv
<1>9. QED
  BY <1>7, <1>8

(* Whoever opens or has opened holds the lock, so nobody else is inside. *)
LEMMA HolderAlone ==
    ASSUME SlotInv, NEW t \in Users, user[t].pc \in Inside
    PROVE  \A o \in Users \ {t} : user[o].pc \notin Inside
  BY DEF SlotInv, LockKept

(* The old service is closed; its closer was the one that ran. *)
LEMMA ReplacesKeeps ==
    ASSUME SlotInv, NEW t \in Users, Replaces(t)
    PROVE  SlotInv'
<1>1. /\ user[t].pc = "replacing" /\ installed = NoEntry /\ user[t].id \in DOMAIN services
      /\ \A o \in Users \ {t} : user[o].pc \notin Inside
  BY HolderAlone DEF Replaces, SlotInv, InHand, Inside
<1>2. /\ user'[t].pc = "opening" /\ user'[t] \in Tasks
      /\ \A o \in Users \ {t} : user'[o] = user[o]
      /\ user' \in [Users -> Tasks]
  BY DEF Replaces, Goes, SlotInv, SlotTypes, Tasks, Inside
<1>3. /\ services' \in Seq(Services) /\ DOMAIN services' = DOMAIN services
      /\ Len(services') = Len(services)
      /\ \A s \in DOMAIN services : /\ services'[s].closers = services[s].closers
                                    /\ services'[s].retired = services[s].retired
      /\ \A s \in DOMAIN services : services'[s].closing =>
             services[s].closing /\ user[t].id # s
  BY <1>1, StopsOne DEF Replaces
<1>4. UNCHANGED <<installed, holds>>
  BY DEF Replaces
<1>5. SlotTypes' /\ EntryKnown' /\ ServicesDisposed'
  BY <1>2, <1>3, <1>4 DEF SlotInv, SlotTypes, EntryKnown, ServicesDisposed
<1>6. LockKept'
  BY <1>1, <1>2, <1>4 DEF SlotInv, LockKept, Inside
<1>7. CloserOwned'
  BY <1>1, <1>2, <1>3 DEF SlotInv, CloserOwned, Inside
<1>8. \A o \in Users : InHand(o)'
  BY <1>1, <1>2, <1>4 DEF InHand, Inside
<1>9. QED
  BY <1>5, <1>6, <1>7, <1>8 DEF SlotInv

(* The new service is the entry, and nothing else was. *)
LEMMA OpensKeeps ==
    ASSUME SlotInv, NEW t \in Users, Opens(t)
    PROVE  SlotInv'
<1> DEFINE n == Len(services) + 1
<1>1. /\ user[t].pc = "opening" /\ installed = NoEntry
      /\ \A o \in Users \ {t} : user[o].pc \notin Inside
  BY HolderAlone DEF Opens, SlotInv, InHand, Inside
<1>2. n \in Nat /\ n # 0 /\ Len(services) \in Nat /\ n \notin DOMAIN services
  BY DEF SlotInv, SlotTypes
<1>3. /\ user'[t].pc = "operating" /\ user'[t].id = n /\ user'[t].use = user[t].use
      /\ \A o \in Users \ {t} : user'[o] = user[o]
      /\ user' \in [Users -> Tasks]
  BY <1>2 DEF Opens, Goes, SlotInv, SlotTypes, Tasks, Inside
<1>4. /\ services' \in Seq(Services) /\ Len(services') = n
      /\ DOMAIN services' = DOMAIN services \cup {n}
      /\ \A s \in DOMAIN services : services'[s] = services[s]
      /\ services'[n] = [closers |-> 0, closing |-> FALSE, retired |-> FALSE]
  BY DEF Opens, SlotInv, SlotTypes, Services
<1>5. installed' = [key |-> user[t].use.key, id |-> n] /\ holds' = holds
  BY DEF Opens
<1>6. user[t].use.key \in SlotKeys \cup {NoKey}
  BY DEF SlotInv, SlotTypes, Tasks, Uses
<1>7. SlotTypes' /\ EntryKnown'
  BY <1>2, <1>3, <1>4, <1>5, <1>6 DEF SlotInv, SlotTypes, EntryKnown
<1>8. LockKept'
  BY <1>1, <1>3, <1>5 DEF SlotInv, LockKept, Inside
<1>9. CloserOwned'
  BY <1>1, <1>3, <1>4 DEF SlotInv, CloserOwned, Inside
<1>10. ServicesDisposed'
  BY <1>1, <1>2, <1>4, <1>5 DEF SlotInv, ServicesDisposed, NoEntry
<1>11. \A o \in Users : InHand(o)'
  BY <1>1, <1>2, <1>3, <1>5 DEF InHand, Inside
<1>12. QED
  BY <1>7, <1>8, <1>9, <1>10, <1>11 DEF SlotInv

(* An explicit close that is acknowledged disposes of the entry. *)
LEMMA RetiresKeeps ==
    ASSUME SlotInv, NEW t \in Users, Retires(t)
    PROVE  SlotInv'
<1> DEFINE id == user[t].id
<1>1. /\ user[t].pc = "trying" /\ installed.id = id /\ id \in DOMAIN services
      /\ \A o \in Users \ {t} : user[o].pc \notin Inside
  BY HolderAlone DEF Retires, SlotInv, SlotTypes, EntryKnown, InHand, Inside
<1>2. /\ user'[t].pc = "idle" /\ \A o \in Users \ {t} : user'[o] = user[o]
      /\ user' \in [Users -> Tasks] /\ holds' = holds \ {t}
  BY DEF Retires, Ends, Goes, SlotInv, SlotTypes, Tasks
<1>3. /\ services' \in Seq(Services) /\ DOMAIN services' = DOMAIN services
      /\ Len(services') = Len(services)
      /\ services'[id] = [services[id] EXCEPT !.retired = TRUE]
      /\ \A s \in DOMAIN services \ {id} : services'[s] = services[s]
      /\ installed' = NoEntry
  <2>1. services \in Seq(Services) /\ services[id] \in Services
    BY <1>1 DEF SlotInv, SlotTypes
  <2>2. [services[id] EXCEPT !.retired = TRUE] \in Services
    BY <2>1 DEF Services
  <2>3. services' = [services EXCEPT ![id] = [services[id] EXCEPT !.retired = TRUE]]
    BY DEF Retires
  <2>4. QED
    BY <1>1, <2>1, <2>2, <2>3, OneServiceChanged DEF Retires
<1>4. services'[id].closers = 0 /\ services'[id].retired
      /\ services'[id].closing = services[id].closing
  BY <1>1, <1>3 DEF SlotInv, SlotTypes, Services, ServicesDisposed
<1>5. SlotTypes' /\ EntryKnown'
  BY <1>2, <1>3 DEF SlotInv, SlotTypes, EntryKnown, NoEntry
<1>6. LockKept'
  BY <1>1, <1>2 DEF SlotInv, LockKept, Inside
<1>7. CloserOwned'
  <2>1. \A s \in DOMAIN services : services'[s].closing = services[s].closing
    BY <1>1, <1>3, <1>4
  <2>2. QED
    BY <1>1, <1>2, <1>3, <2>1 DEF SlotInv, CloserOwned, Inside
<1>8. ServicesDisposed'
  <2>1. installed'.id = 0 /\ 0 \notin DOMAIN services
    BY <1>3 DEF NoEntry, SlotInv, SlotTypes
  <2>2. \A s \in DOMAIN services \ {id} : services[s].closers = 1 <=> ~services[s].retired
    BY <1>1 DEF SlotInv, ServicesDisposed
  <2>3. \A s \in DOMAIN services : services'[s].closers = 1 <=> ~services'[s].retired
    <3>1. services'[id].closers = 1 <=> ~services'[id].retired
      BY <1>4
    <3>2. \A s \in DOMAIN services \ {id} : services'[s].closers = 1 <=> ~services'[s].retired
      BY <1>3, <2>2
    <3>3. QED
      BY <3>1, <3>2
  <2>4. \A s \in DOMAIN services : installed'.id # s
    BY <2>1
  <2>5. QED
    BY <1>3, <2>3, <2>4 DEF ServicesDisposed
<1>9. \A o \in Users : InHand(o)'
  BY <1>1, <1>2 DEF InHand, Inside
<1>10. QED
  BY <1>5, <1>6, <1>7, <1>8, <1>9 DEF SlotInv

(* Each form of use, with the lock granted. *)
LEMMA EntersKeep ==
    ASSUME SlotInv, NEW t \in Users,
           EnterWith(t) \/ EnterEmpty(t) \/ EnterClose(t) \/ EnterTry(t)
    PROVE  SlotInv'
<1>1. CASE EnterWith(t)
  <2>1. CASE installed = NoEntry
    BY <1>1, <2>1, EnterKeeps DEF EnterWith
  <2>2. CASE installed # NoEntry /\ installed.key = user[t].use.key
    BY <1>1, <2>2, EnterKeeps DEF EnterWith
  <2>3. CASE installed # NoEntry /\ installed.key # user[t].use.key
    BY <1>1, <2>3, EnterKeeps DEF EnterWith
  <2>4. QED
    BY <2>1, <2>2, <2>3
<1>2. CASE EnterEmpty(t)
  <2>1. user[t].pc \notin {"replacing", "closing"}
    BY <1>2, GrantedAlone DEF EnterEmpty, Inside
  <2>2. QED
    BY <1>2, <2>1, EndsKeeps DEF EnterEmpty
<1>3. CASE EnterClose(t)
  BY <1>3, EnterKeeps DEF EnterClose
<1>4. CASE EnterTry(t)
  BY <1>4, EnterKeeps DEF EnterTry
<1>5. QED
  BY <1>1, <1>2, <1>3, <1>4

(* Each way of leaving, the cancellations among them. *)
LEMMA LeavesKeep ==
    ASSUME SlotInv, NEW t \in Users,
           OpenFails(t) \/ Returns(t) \/ Closed(t) \/ Cancels(t)
    PROVE  SlotInv'
<1>1. CASE OpenFails(t) \/ Returns(t)
  BY <1>1, EndsKeeps DEF OpenFails, Returns
<1>2. CASE Closed(t)
  BY <1>2, EndsKeeps DEF Closed
<1>3. CASE Cancels(t)
  BY <1>3, EndsKeeps DEF Cancels
<1>4. QED
  BY <1>1, <1>2, <1>3

LEMMA SlotInvNext == SlotInv /\ [SlotNext]_slotVars => SlotInv'
<1> SUFFICES ASSUME SlotInv, [SlotNext]_slotVars PROVE SlotInv'
  OBVIOUS
<1>1. CASE UNCHANGED slotVars \/ OnShutdown
  BY <1>1 DEF slotVars, OnShutdown, SlotInv, SlotTypes, LockKept, EntryKnown, InHand, CloserOwned,
     ServicesDisposed
<1>2. CASE \E t \in Users : Asks(t) \/ SlotStep(t) \/ Opens(t) \/ Retires(t) \/ Cancels(t)
  BY <1>2, AsksKeeps, EntersKeep, LeavesKeep, ReplacesKeeps, OpensKeeps, RetiresKeeps DEF SlotStep
<1>3. QED
  BY <1>1, <1>2 DEF SlotNext

(* ServicesKept holds in every behaviour: whichever of the operations of   *)
(* the slot is cancelled, fails or overlaps with another (with, close,     *)
(* try_close_with and the shutdown hook), each service is disposed of once *)
(* and works alone.                                                        *)
THEOREM SlotKeepsServices == SlotSpec => []ServicesKept
<1>1. SlotInv => ServiceAlone
  <2> SUFFICES ASSUME SlotInv, NEW t \in Users
               PROVE  /\ user[t].pc \in {"operating", "trying"} =>
                            /\ installed.id = user[t].id
                            /\ user[t].use.kind = "with" => installed.key = user[t].use.key
                      /\ user[t].pc \in {"operating", "trying", "opening"} =>
                            \A s \in DOMAIN services : ~services[s].closing
    BY DEF ServiceAlone
  <2>1. user[t].pc \in {"operating", "trying", "opening"} =>
            \A s \in DOMAIN services : ~services[s].closing
    BY HolderAlone DEF SlotInv, CloserOwned, Inside
  <2>2. QED
    BY <2>1 DEF SlotInv, InHand
<1>2. SlotInv => ServicesKept
  BY <1>1 DEF SlotInv, ServicesKept
<1>3. QED
  BY SlotInvInit, SlotInvNext, <1>2, PTL DEF SlotSpec

-----------------------------------------------------------------------------
(* The configuration of a module (Reconfigure).                            *)

(* A caller, and a call on its way to the module.                          *)
ConfigTasks ==
    [pc : {"idle", "waiting", "admitted", "loading", "sending", "calling", "proxy", "using",
           "guarding"},
     guard : BOOLEAN, config : Configs \cup {Unknown}, attempt : Nat, calls : Nat]

Requests == [by : Callers \cup {Unknown}, config : Configs]

ConfigTypes ==
    /\ strategy \in {"lifecycle", "member"}
    /\ loadedIn \in BOOLEAN /\ uncertain \in BOOLEAN
    /\ sent \in Seq(Requests)
    /\ running \in Seq(Configs)
    /\ caller \in [Callers -> ConfigTasks]

(* No change is on its way to the module or at work in it.                 *)
Quiet == sent = <<>> /\ running = <<>>

(* The calls on the wire: at most the last one is still waited for.        *)
Wire ==
    \A n \in 1..Len(sent) :
        sent[n].by # Unknown =>
            /\ n = Len(sent)
            /\ caller[sent[n].by].pc = "calling" /\ caller[sent[n].by].config = sent[n].config

(* A member call is alone on its way, behind the fence.                    *)
FenceUp ==
    /\ strategy = "lifecycle" => ~uncertain
    /\ strategy = "member" => /\ running = <<>> /\ Len(sent) <= 1
                              /\ sent # <<>> => uncertain

(* What the coordinator believes is settled.                               *)
Believed ==
    /\ fingerprint # Unknown => Quiet /\ held = fingerprint
    /\ ~loadedIn => Quiet

(* A caller past the lock holds it alone, and is given the module only when *)
(* nothing can change it.                                                  *)
Admitted(t) ==
    LET x == caller[t] IN
    /\ x.pc # "idle" => x.config \in Configs
    /\ x.pc \notin {"idle", "waiting"} => admitted = {t}
    /\ x.pc \in {"sending", "calling"} => fingerprint = Unknown /\ loadedIn
    /\ x.pc = "loading" => ~uncertain
    /\ x.pc = "sending" /\ strategy = "member" => sent = <<>>
    /\ x.pc \in {"proxy", "using"} => Quiet /\ held = x.config

ConfigInv ==
    /\ ConfigTypes /\ Wire /\ FenceUp /\ Believed
    /\ \A t \in Callers : Admitted(t)


LEMMA ConfigInvInit == ConfigInit => ConfigInv
<1> SUFFICES ASSUME ConfigInit PROVE ConfigInv
  OBVIOUS
<1>1. Away \in ConfigTasks
  BY DEF Away, ConfigTasks
<1>2. ConfigTypes
  <2>1. strategy \in {"lifecycle", "member"} /\ loadedIn \in BOOLEAN /\ uncertain \in BOOLEAN
    BY ReconfigureAssumption DEF ConfigInit, ReconfigureAssumption
  <2>2. sent \in Seq(Requests) /\ running \in Seq(Configs)
    BY DEF ConfigInit
  <2>3. caller \in [Callers -> ConfigTasks]
    BY <1>1 DEF ConfigInit
  <2>4. QED
    BY <2>1, <2>2, <2>3 DEF ConfigTypes
<1>3. \A t \in Callers : Admitted(t)
  BY DEF ConfigInit, Admitted, Away
<1>4. Wire /\ FenceUp /\ Believed
  BY DEF ConfigInit, Wire, FenceUp, Believed, Quiet
<1>5. QED
  BY <1>2, <1>3, <1>4 DEF ConfigInv

(* What a step of one caller does to the callers.                          *)
LEMMA OneMoves ==
    ASSUME caller \in [Callers -> ConfigTasks], NEW t \in Callers, NEW y \in ConfigTasks,
           caller' = [caller EXCEPT ![t] = y]
    PROVE  /\ caller' \in [Callers -> ConfigTasks] /\ caller'[t] = y
           /\ \A o \in Callers \ {t} : caller'[o] = caller[o]
  OBVIOUS

LEMMA AtMoves ==
    ASSUME caller \in [Callers -> ConfigTasks], NEW t \in Callers,
           NEW pc \in {"idle", "admitted", "loading", "sending", "proxy", "using", "guarding"},
           At(t, pc)
    PROVE  /\ caller' \in [Callers -> ConfigTasks]
           /\ caller'[t].pc = pc /\ caller'[t].config = caller[t].config
           /\ \A o \in Callers \ {t} : caller'[o] = caller[o]
<1> DEFINE y == [caller[t] EXCEPT !.pc = pc]
<1>1. y \in ConfigTasks /\ y.pc = pc /\ y.config = caller[t].config
  BY DEF ConfigTasks
<1>2. caller' = [caller EXCEPT ![t] = y]
  BY DEF At
<1> HIDE DEF y
<1>3. QED
  BY <1>1, <1>2, OneMoves, Zenon

(* The lock goes back with the caller, or stays with its guard.            *)
LEMMA GivesMoves ==
    ASSUME caller \in [Callers -> ConfigTasks], NEW t \in Callers,
           NEW pc \in {"guarding", "using"}, Gives(t, pc)
    PROVE  /\ caller' \in [Callers -> ConfigTasks]
           /\ caller'[t].config = caller[t].config
           /\ (caller'[t].pc = pc /\ admitted' = admitted) \/ caller'[t].pc = "idle"
           /\ \A o \in Callers \ {t} : caller'[o] = caller[o]
<1>1. (At(t, pc) /\ admitted' = admitted) \/ At(t, "idle")
  BY DEF Gives
<1>2. QED
  BY <1>1, AtMoves

(* A call that is waited for is the last one on the wire.                  *)
LEMMA Awaited ==
    ASSUME ConfigInv, NEW n \in 1..Len(sent), sent[n].by # Unknown
    PROVE  /\ n = Len(sent) /\ sent[n] \in Requests /\ sent[n].by \in Callers
           /\ caller[sent[n].by].pc = "calling" /\ caller[sent[n].by].config = sent[n].config
<1>1. sent[n] \in Requests
  BY DEF ConfigInv, ConfigTypes
<1>2. sent[n].by \in Callers
  BY <1>1 DEF Requests
<1>3. QED
  BY <1>1, <1>2 DEF ConfigInv, Wire

(* Past the lock a caller is alone, and the only one who can be waiting     *)
(* for a call.                                                             *)
LEMMA OthersAway ==
    ASSUME ConfigInv, NEW t \in Callers, caller[t].pc \notin {"idle", "waiting"}
    PROVE  /\ admitted = {t}
           /\ \A o \in Callers \ {t} : caller[o].pc \in {"idle", "waiting"}
           /\ \A n \in 1..Len(sent) : sent[n].by # Unknown =>
                sent[n].by = t /\ caller[t].pc = "calling"
<1>1. admitted = {t}
  BY DEF ConfigInv, Admitted
<1>2. ASSUME NEW o \in Callers \ {t} PROVE caller[o].pc \in {"idle", "waiting"}
  BY <1>1 DEF ConfigInv, Admitted
<1>3. ASSUME NEW n \in 1..Len(sent), sent[n].by # Unknown
      PROVE  sent[n].by = t /\ caller[t].pc = "calling"
  BY <1>2, <1>3, Awaited
<1>4. QED
  BY <1>1, <1>2, <1>3

(* They stay admissible whatever it does with the lock.                    *)
LEMMA OthersAdmitted ==
    ASSUME ConfigInv, NEW t \in Callers, caller[t].pc \notin {"idle", "waiting"},
           \A o \in Callers \ {t} : caller'[o] = caller[o],
           caller'[t].config \in Configs,
           caller'[t].pc = "idle" \/ (admitted' = admitted /\ caller'[t].pc # "waiting"),
           caller'[t].pc \in {"sending", "calling"} => fingerprint' = Unknown /\ loadedIn',
           caller'[t].pc = "loading" => ~uncertain',
           caller'[t].pc = "sending" /\ strategy' = "member" => sent' = <<>>,
           caller'[t].pc \in {"proxy", "using"} =>
                sent' = <<>> /\ running' = <<>> /\ held' = caller'[t].config
    PROVE  \A o \in Callers : Admitted(o)'
<1>1. admitted = {t} /\ \A o \in Callers \ {t} : caller[o].pc \in {"idle", "waiting"}
  BY OthersAway
<1>2. ASSUME NEW o \in Callers \ {t} PROVE Admitted(o)'
  BY <1>1 DEF ConfigInv, Admitted
<1>3. Admitted(t)'
  BY <1>1 DEF Admitted, Quiet
<1>4. QED
  BY <1>2, <1>3

(* The steps that touch neither the wire nor the module.                   *)
LEMMA LocalKeeps ==
    ASSUME ConfigInv, NEW t \in Callers, caller[t].pc \notin {"idle", "waiting", "calling"},
           UNCHANGED <<strategy, loadedIn, uncertain, held, sent, running>>,
           fingerprint' \in {fingerprint, Unknown},
           caller' \in [Callers -> ConfigTasks],
           \A o \in Callers : Admitted(o)'
    PROVE  ConfigInv'
<1>1. \A n \in 1..Len(sent) : sent[n].by = Unknown
  BY OthersAway
<1>2. QED
  BY <1>1 DEF ConfigInv, ConfigTypes, Wire, FenceUp, Believed, Quiet

LEMMA EntersKeeps ==
    ASSUME ConfigInv, NEW t \in Callers, Enters(t)
    PROVE  ConfigInv'
<1>1. caller[t].pc = "admitted" /\ caller \in [Callers -> ConfigTasks]
  BY DEF Enters, ConfigInv, ConfigTypes
<1>2. caller[t].config \in Configs
  BY <1>1 DEF ConfigInv, Admitted
<1>3. \/ ~uncertain /\ At(t, "loading") /\ admitted' = admitted
      \/ Gives(t, "guarding")
  BY DEF Enters, Fenced
<1>4. /\ caller' \in [Callers -> ConfigTasks]
      /\ \A o \in Callers \ {t} : caller'[o] = caller[o]
      /\ caller'[t].config \in Configs
      /\ caller'[t].pc = "idle" \/ (admitted' = admitted /\ caller'[t].pc # "waiting")
      /\ caller'[t].pc \in {"idle", "guarding", "loading"}
      /\ caller'[t].pc = "loading" => ~uncertain
  <2>1. CASE ~uncertain /\ At(t, "loading") /\ admitted' = admitted
    BY <1>1, <1>2, <2>1, AtMoves
  <2>2. CASE Gives(t, "guarding")
    BY <1>1, <1>2, <2>2, GivesMoves
  <2>3. QED
    BY <1>3, <2>1, <2>2
<1>5. UNCHANGED <<strategy, loadedIn, fingerprint, uncertain, held, sent, running>>
  BY DEF Enters
<1>6. \A o \in Callers : Admitted(o)'
  BY <1>1, <1>4, <1>5, OthersAdmitted
<1>7. QED
  BY <1>1, <1>4, <1>5, <1>6, LocalKeeps

(* Failing before the call is sent, or being done with the proxy.          *)
LEMMA GivesKeeps ==
    ASSUME ConfigInv, NEW t \in Callers, LoadFails(t) \/ SendFails(t) \/ Obtains(t)
    PROVE  ConfigInv'
<1>1. caller[t].pc \in {"loading", "sending", "proxy"} /\ caller \in [Callers -> ConfigTasks]
  BY DEF LoadFails, SendFails, Obtains, ConfigInv, ConfigTypes
<1>2. caller[t].config \in Configs
  BY <1>1 DEF ConfigInv, Admitted
<1>3. Gives(t, "guarding") \/ (Gives(t, "using") /\ caller[t].pc = "proxy")
  BY DEF LoadFails, SendFails, Obtains
<1>4. /\ caller' \in [Callers -> ConfigTasks]
      /\ \A o \in Callers \ {t} : caller'[o] = caller[o]
      /\ caller'[t].config = caller[t].config
      /\ caller'[t].pc = "idle" \/ (admitted' = admitted /\ caller'[t].pc # "waiting")
      /\ caller'[t].pc \in {"idle", "guarding", "using"}
      /\ caller'[t].pc = "using" => caller[t].pc = "proxy"
  BY <1>1, <1>3, GivesMoves
<1>5. UNCHANGED <<strategy, loadedIn, fingerprint, uncertain, held, sent, running>>
  BY DEF LoadFails, SendFails, Obtains
<1>6. caller'[t].pc = "using" => sent = <<>> /\ running = <<>> /\ held = caller[t].config
  BY <1>4 DEF ConfigInv, Admitted, Quiet
<1>7. \A o \in Callers : Admitted(o)'
  BY <1>1, <1>2, <1>4, <1>5, <1>6, OthersAdmitted
<1>8. QED
  BY <1>1, <1>4, <1>5, <1>7, LocalKeeps

LEMMA ReleasesKeeps ==
    ASSUME ConfigInv, NEW t \in Callers, Releases(t)
    PROVE  ConfigInv'
<1>1. caller[t].pc \in {"guarding", "using"} /\ caller \in [Callers -> ConfigTasks]
  BY DEF Releases, ConfigInv, ConfigTypes
<1>2. caller[t].config \in Configs
  BY <1>1 DEF ConfigInv, Admitted
<1>3. /\ caller' \in [Callers -> ConfigTasks]
      /\ \A o \in Callers \ {t} : caller'[o] = caller[o]
      /\ caller'[t].config = caller[t].config /\ caller'[t].pc = "idle"
  BY <1>1, AtMoves DEF Releases
<1>4. UNCHANGED <<strategy, loadedIn, fingerprint, uncertain, held, sent, running>>
  BY DEF Releases
<1>5. \A o \in Callers : Admitted(o)'
  BY <1>1, <1>2, <1>3, <1>4, OthersAdmitted
<1>6. QED
  BY <1>1, <1>3, <1>4, <1>5, LocalKeeps

(* The guard's holder goes back behind the fence.                          *)
LEMMA AgainKeeps ==
    ASSUME ConfigInv, NEW t \in Callers, Again(t)
    PROVE  ConfigInv'
<1>1. caller[t].pc \in {"guarding", "using"} /\ caller \in [Callers -> ConfigTasks]
  BY DEF Again, ConfigInv, ConfigTypes
<1>2. PICK c \in Configs :
        caller' = [caller EXCEPT ![t].pc = "admitted", ![t].config = c, ![t].attempt = 0,
                                 ![t].calls = @ + 1]
  BY DEF Again
<1> DEFINE n == caller[t].calls + 1
           y == [caller[t] EXCEPT !.pc = "admitted", !.config = c, !.attempt = 0, !.calls = n]
<1>3. n \in Nat
  BY <1>1 DEF ConfigTasks
<1>4. caller' = [caller EXCEPT ![t] = y]
  BY <1>2
<1> HIDE DEF n
<1>5. y \in ConfigTasks /\ y.pc = "admitted" /\ y.config = c
  BY <1>1, <1>3 DEF ConfigTasks
<1> HIDE DEF y
<1>6. /\ caller' \in [Callers -> ConfigTasks] /\ caller'[t] = y
      /\ \A o \in Callers \ {t} : caller'[o] = caller[o]
  BY <1>1, <1>4, <1>5, OneMoves, Zenon
<1>7. UNCHANGED <<strategy, loadedIn, fingerprint, uncertain, held, sent, running, admitted>>
  BY DEF Again
<1>8. \A o \in Callers : Admitted(o)'
  BY <1>1, <1>5, <1>6, <1>7, OthersAdmitted
<1>9. QED
  BY <1>1, <1>6, <1>7, <1>8, LocalKeeps

(* With the stored configuration the caller is done; otherwise it goes on  *)
(* to change it and nothing is believed any more.                          *)
LEMMA ComparesKeeps ==
    ASSUME ConfigInv, NEW t \in Callers, Compares(t)
    PROVE  ConfigInv'
<1>1. /\ caller[t].pc = "loading" /\ loadedIn /\ caller \in [Callers -> ConfigTasks]
      /\ strategy \in {"lifecycle", "member"}
  BY DEF Compares, ConfigInv, ConfigTypes
<1>2. caller[t].config \in Configs /\ ~uncertain
  BY <1>1 DEF ConfigInv, Admitted
<1>3. UNCHANGED <<strategy, loadedIn, uncertain, held, sent, running, admitted>>
  BY DEF Compares
<1>4. /\ caller' \in [Callers -> ConfigTasks]
      /\ \A o \in Callers \ {t} : caller'[o] = caller[o]
      /\ caller'[t].config = caller[t].config
      /\ \/ /\ caller'[t].pc = "proxy" /\ fingerprint' = fingerprint
            /\ fingerprint = caller[t].config
         \/ caller'[t].pc = "sending" /\ fingerprint' = Unknown
  <2>1. CASE fingerprint = caller[t].config
    BY <1>1, <2>1, AtMoves DEF Compares
  <2>2. CASE fingerprint # caller[t].config
    BY <1>1, <2>2, AtMoves DEF Compares
  <2>3. QED
    BY <2>1, <2>2
<1>5. fingerprint = caller[t].config =>
        sent = <<>> /\ running = <<>> /\ held = caller[t].config
  BY <1>2, ReconfigureAssumption DEF ReconfigureAssumption, ConfigInv, Believed, Quiet
<1>6. strategy = "member" => sent = <<>>
  BY <1>2 DEF ConfigInv, FenceUp
<1>7. \A o \in Callers : Admitted(o)'
  BY <1>1, <1>2, <1>3, <1>4, <1>5, <1>6, OthersAdmitted
<1>8. QED
  BY <1>1, <1>3, <1>4, <1>7, LocalKeeps

(* The first load finds a module that nothing is on its way to.            *)
LEMMA FirstLoadKeeps ==
    ASSUME ConfigInv, NEW t \in Callers, FirstLoad(t)
    PROVE  ConfigInv'
<1>1. /\ caller[t].pc = "loading" /\ ~loadedIn /\ loadedIn' = TRUE /\ caller' = caller
      /\ fingerprint' \in {held', Unknown}
      /\ UNCHANGED <<strategy, uncertain, sent, running, admitted>>
  BY DEF FirstLoad
<1>2. sent = <<>> /\ running = <<>> /\ ~uncertain /\ caller[t].config \in Configs
  BY <1>1 DEF ConfigInv, Believed, Quiet, Admitted
<1>3. \A o \in Callers : Admitted(o)'
  BY <1>1, <1>2, OthersAdmitted
<1>4. QED
  BY <1>1, <1>2, <1>3 DEF ConfigInv, ConfigTypes, Wire, FenceUp, Believed, Quiet

(* A newcomer only waits.                                                  *)
LEMMA WantsKeeps ==
    ASSUME ConfigInv, NEW t \in Callers, Wants(t)
    PROVE  ConfigInv'
<1>1. caller[t].pc = "idle" /\ caller \in [Callers -> ConfigTasks]
  BY DEF Wants, ConfigInv, ConfigTypes
<1>2. PICK g \in BOOLEAN, c \in Configs :
        caller' = [caller EXCEPT ![t] = [pc |-> "waiting", guard |-> g, config |-> c,
                                         attempt |-> 0, calls |-> @.calls + 1]]
  BY DEF Wants
<1> DEFINE n == caller[t].calls + 1
           y == [pc |-> "waiting", guard |-> g, config |-> c, attempt |-> 0, calls |-> n]
<1>3. n \in Nat
  BY <1>1 DEF ConfigTasks
<1>4. caller' = [caller EXCEPT ![t] = y]
  BY <1>2
<1> HIDE DEF n
<1>5. y \in ConfigTasks /\ y.pc = "waiting" /\ y.config = c
  BY <1>3 DEF ConfigTasks
<1> HIDE DEF y
<1>6. /\ caller' \in [Callers -> ConfigTasks] /\ caller'[t] = y
      /\ \A o \in Callers \ {t} : caller'[o] = caller[o]
  BY <1>1, <1>4, <1>5, OneMoves, Zenon
<1>7. UNCHANGED <<strategy, loadedIn, fingerprint, uncertain, held, sent, running, admitted>>
  BY DEF Wants
<1>8. ASSUME NEW o \in Callers PROVE Admitted(o)'
  BY <1>5, <1>6, <1>7 DEF ConfigInv, Admitted, Quiet
<1>9. Wire'
  <2>1. ASSUME NEW i \in 1..Len(sent), sent[i].by # Unknown
        PROVE  /\ i = Len(sent) /\ caller'[sent[i].by].pc = "calling"
               /\ caller'[sent[i].by].config = sent[i].config
    BY <1>1, <1>6, <2>1, Awaited
  <2>2. QED
    BY <1>7, <2>1 DEF Wire
<1>10. QED
  BY <1>6, <1>7, <1>8, <1>9 DEF ConfigInv, ConfigTypes, FenceUp, Believed, Quiet

(* The lock is granted while nobody is past it.                            *)
LEMMA AdmitKeeps ==
    ASSUME ConfigInv, NEW t \in Callers, Admit(t)
    PROVE  ConfigInv'
<1>1. /\ admitted = {} /\ admitted' = {t} /\ At(t, "admitted") /\ caller[t].pc = "waiting"
      /\ caller \in [Callers -> ConfigTasks]
      /\ UNCHANGED <<strategy, loadedIn, fingerprint, uncertain, held, sent, running>>
  BY DEF Admit, ConfigInv, ConfigTypes
<1>2. ASSUME NEW o \in Callers PROVE caller[o].pc \in {"idle", "waiting"}
  BY <1>1 DEF ConfigInv, Admitted
<1>3. /\ caller' \in [Callers -> ConfigTasks]
      /\ \A o \in Callers \ {t} : caller'[o] = caller[o]
      /\ caller'[t].config = caller[t].config /\ caller'[t].pc = "admitted"
  BY <1>1, AtMoves
<1>4. ASSUME NEW o \in Callers PROVE Admitted(o)'
  BY <1>1, <1>2, <1>3 DEF ConfigInv, Admitted, Quiet
<1>5. \A n \in 1..Len(sent) : sent[n].by = Unknown
  BY <1>2, Awaited
<1>6. QED
  BY <1>1, <1>3, <1>4, <1>5 DEF ConfigInv, ConfigTypes, Wire, FenceUp, Believed, Quiet

(* A call goes out behind calls that nobody waits for.                     *)
LEMMA SendsKeeps ==
    ASSUME ConfigInv, NEW t \in Callers, Sends(t)
    PROVE  ConfigInv'
<1>1. /\ caller[t].pc = "sending" /\ caller \in [Callers -> ConfigTasks]
      /\ strategy \in {"lifecycle", "member"} /\ sent \in Seq(Requests)
      /\ caller[t].config \in Configs
  BY DEF Sends, ConfigInv, ConfigTypes, Admitted
<1>2. UNCHANGED <<strategy, loadedIn, fingerprint, held, running, admitted>>
  BY DEF Sends
<1> DEFINE r == [by |-> t, config |-> caller[t].config]
           n == caller[t].attempt + 1
           y == [caller[t] EXCEPT !.pc = "calling", !.attempt = n]
<1>3. n \in Nat
  BY <1>1 DEF ConfigTasks
<1>4. caller' = [caller EXCEPT ![t] = y]
  BY DEF Sends
<1> HIDE DEF n
<1>5. y \in ConfigTasks /\ y.pc = "calling" /\ y.config = caller[t].config
  BY <1>1, <1>3 DEF ConfigTasks
<1> HIDE DEF y
<1>6. /\ caller' \in [Callers -> ConfigTasks] /\ caller'[t] = y
      /\ \A o \in Callers \ {t} : caller'[o] = caller[o]
  BY <1>1, <1>4, <1>5, OneMoves, Zenon
<1>7. r \in Requests /\ r.by = t /\ r.config = caller[t].config
  BY <1>1 DEF Requests
<1>8. sent' = Append(sent, r)
  BY DEF Sends
<1> HIDE DEF r
<1>9. /\ sent' \in Seq(Requests) /\ Len(sent') = Len(sent) + 1
      /\ sent'[Len(sent) + 1] = r
      /\ \A i \in 1..Len(sent) : sent'[i] = sent[i]
  BY <1>1, <1>7, <1>8, AppendProperties
<1>10. fingerprint = Unknown /\ loadedIn
  BY <1>1 DEF ConfigInv, Admitted
<1>10a. strategy = "member" => Len(sent) = 0 /\ running = <<>>
  BY <1>1 DEF ConfigInv, Admitted, FenceUp
<1>11. \A i \in 1..Len(sent) : sent[i].by = Unknown
  BY <1>1, OthersAway
<1>12. \A o \in Callers : Admitted(o)'
  BY <1>1, <1>2, <1>5, <1>6, <1>10, OthersAdmitted
<1>13. Len(sent) \in Nat
  BY <1>1, LenProperties
<1>14. Wire'
  <2>1. ASSUME NEW i \in 1..Len(sent'), sent'[i].by # Unknown
        PROVE  i = Len(sent') /\ sent'[i] = r
    BY <1>9, <1>11, <1>13, <2>1
  <2>2. QED
    BY <2>1, <1>5, <1>6, <1>7 DEF Wire
<1>15. uncertain' = (strategy = "member" \/ uncertain)
  BY DEF Sends
<1>16. FenceUp'
  <2>1. CASE strategy = "lifecycle"
    BY <1>2, <1>15, <2>1 DEF ConfigInv, FenceUp
  <2>2. CASE strategy = "member"
    <3>1. running' = <<>> /\ Len(sent') <= 1
      BY <1>2, <1>9, <1>10a, <2>2
    <3>2. uncertain'
      BY <1>15, <2>2
    <3>3. strategy' # "lifecycle"
      BY <1>2, <2>2
    <3>4. QED
      BY <3>1, <3>2, <3>3 DEF FenceUp
  <2>3. QED
    BY <1>1, <2>1, <2>2
<1>17. Believed' /\ ConfigTypes'
  BY <1>1, <1>2, <1>6, <1>9, <1>10, <1>15 DEF ConfigInv, ConfigTypes, Believed
<1>18. QED
  BY <1>12, <1>14, <1>16, <1>17 DEF ConfigInv

(* A call that is forgotten keeps its place, and is waited for by nobody.  *)
LEMMA Forgotten ==
    ASSUME ConfigInv, NEW t \in Callers, sent' = Forget(t)
    PROVE  /\ sent' \in Seq(Requests) /\ Len(sent') = Len(sent)
           /\ sent = <<>> => sent' = <<>>
           /\ sent' = <<>> => sent = <<>>
           /\ \A n \in 1..Len(sent) :
                /\ sent'[n].by # t /\ sent'[n].config = sent[n].config
                /\ sent'[n].by # Unknown => sent'[n] = sent[n]
<1>1. sent \in Seq(Requests) /\ DOMAIN sent = 1..Len(sent) /\ Len(sent) \in Nat
  BY DEF ConfigInv, ConfigTypes
<1>2. t # Unknown
  BY ReconfigureAssumption DEF ReconfigureAssumption
<1>3. ASSUME NEW n \in 1..Len(sent)
      PROVE  /\ sent'[n] \in Requests /\ sent'[n].by # t /\ sent'[n].config = sent[n].config
             /\ sent'[n].by # Unknown => sent'[n] = sent[n]
  <2>1. sent[n] \in Requests
    BY <1>1
  <2>2. sent'[n] = IF sent[n].by = t THEN [sent[n] EXCEPT !.by = Unknown] ELSE sent[n]
    BY <1>1 DEF Forget
  <2>3. QED
    BY <1>2, <2>1, <2>2 DEF Requests
<1>4. sent' \in [1..Len(sent) -> Requests]
  BY <1>1, <1>3 DEF Forget
<1>5. sent' \in Seq(Requests) /\ Len(sent') = Len(sent)
  BY <1>1, <1>4
<1>6. sent = <<>> <=> Len(sent) = 0
  BY <1>1, EmptySeq
<1>7. sent' = <<>> <=> Len(sent') = 0
  BY <1>5, EmptySeq
<1>8. QED
  BY <1>3, <1>5, <1>6, <1>7

(* Leaving off: at the deadline of the call, or cancelled anywhere.        *)
LEMMA LeavingKeeps ==
    ASSUME ConfigInv, NEW t \in Callers, sent' = Forget(t),
           UNCHANGED <<strategy, loadedIn, fingerprint, uncertain, held, running>>,
           caller' \in [Callers -> ConfigTasks],
           \A o \in Callers \ {t} : caller'[o] = caller[o],
           caller'[t].config \in Configs,
           \/ caller'[t].pc = "idle" /\ admitted' = admitted \ {t}
           \/ caller'[t].pc = "guarding" /\ caller[t].pc = "calling" /\ admitted' = admitted,
           caller[t].pc # "idle"
    PROVE  ConfigInv'
<1>1. /\ sent' \in Seq(Requests) /\ Len(sent') = Len(sent)
      /\ sent = <<>> => sent' = <<>>
      /\ sent' = <<>> => sent = <<>>
      /\ \A n \in 1..Len(sent) :
            /\ sent'[n].by # t /\ sent'[n].config = sent[n].config
            /\ sent'[n].by # Unknown => sent'[n] = sent[n]
  BY Forgotten
<1>2. \A n \in 1..Len(sent) : sent'[n] \in Requests
  BY <1>1
<1>3. Wire'
  BY <1>1, <1>2 DEF ConfigInv, Wire, Requests
<1>4. ASSUME NEW o \in Callers \ {t} PROVE Admitted(o)'
  <2>1. caller[o].pc \notin {"idle", "waiting"} => admitted = {o} /\ admitted' = {o}
    BY DEF ConfigInv, Admitted
  <2>2. QED
    BY <1>1, <2>1 DEF ConfigInv, Admitted, Quiet
<1>5. Admitted(t)'
  BY DEF ConfigInv, Admitted
<1>6. ConfigTypes' /\ FenceUp' /\ Believed'
  BY <1>1 DEF ConfigInv, ConfigTypes, FenceUp, Believed, Quiet
<1>7. QED
  BY <1>3, <1>4, <1>5, <1>6 DEF ConfigInv

LEMMA LeavesKeepIt ==
    ASSUME ConfigInv, NEW t \in Callers, CallTimesOut(t) \/ Abandons(t)
    PROVE  ConfigInv'
<1>1. /\ caller \in [Callers -> ConfigTasks] /\ sent' = Forget(t)
      /\ UNCHANGED <<strategy, loadedIn, fingerprint, uncertain, held, running>>
      /\ caller[t].pc # "idle"
  BY DEF ConfigInv, ConfigTypes, CallTimesOut, Abandons
<1>2. caller[t].config \in Configs
  BY <1>1 DEF ConfigInv, Admitted
<1>3. CASE CallTimesOut(t)
  <2>1. caller[t].pc = "calling" /\ Gives(t, "guarding")
    BY <1>3 DEF CallTimesOut
  <2>2. \/ At(t, "guarding") /\ admitted' = admitted
        \/ At(t, "idle") /\ admitted' = admitted \ {t}
    BY <2>1 DEF Gives
  <2>3. /\ caller' \in [Callers -> ConfigTasks]
        /\ \A o \in Callers \ {t} : caller'[o] = caller[o]
        /\ caller'[t].config = caller[t].config
        /\ \/ caller'[t].pc = "idle" /\ admitted' = admitted \ {t}
           \/ caller'[t].pc = "guarding" /\ admitted' = admitted
    BY <1>1, <2>2, AtMoves
  <2>4. /\ caller'[t].config \in Configs
        /\ \/ caller'[t].pc = "idle" /\ admitted' = admitted \ {t}
           \/ caller'[t].pc = "guarding" /\ caller[t].pc = "calling" /\ admitted' = admitted
    BY <1>2, <2>1, <2>3
  <2>5. QED
    BY <1>1, <2>3, <2>4, LeavingKeeps, Zenon
<1>4. CASE Abandons(t)
  <2>1. At(t, "idle") /\ admitted' = admitted \ {t}
    BY <1>4 DEF Abandons
  <2>2. QED
    BY <1>1, <1>2, <2>1, AtMoves, LeavingKeeps
<1>5. QED
  BY <1>3, <1>4

(* The next call the module handles is the first one, whatever is told of  *)
(* it: a member call travels alone.                                        *)
LEMMA FirstInTurn ==
    ASSUME ConfigInv, NEW n \in InTurn
    PROVE  n = 1 /\ 1 \in 1..Len(sent)
<1>1. DOMAIN sent = 1..Len(sent) /\ Len(sent) \in Nat /\ strategy \in {"lifecycle", "member"}
  BY DEF ConfigInv, ConfigTypes
<1>2. CASE strategy = "lifecycle"
  BY <1>1, <1>2 DEF InTurn
<1>3. CASE strategy = "member"
  <2>1. Len(sent) <= 1
    BY <1>3 DEF ConfigInv, FenceUp
  <2>2. n \in 1..Len(sent)
    BY <1>1, <1>3 DEF InTurn
  <2>3. QED
    BY <1>1, <2>1, <2>2
<1>4. QED
  BY <1>1, <1>2, <1>3

LEMMA RestOfWire ==
    ASSUME NEW s \in Seq(Requests), 1 \in 1..Len(s), NEW z, z = RemoveAt(s, 1)
    PROVE  /\ z \in Seq(Requests) /\ Len(z) = Len(s) - 1
           /\ \A n \in 1..Len(z) : z[n] = s[n + 1]
           /\ Len(s) = 1 => z = <<>>
<1>1. z = SubSeq(s, 1, 0) \o SubSeq(s, 2, Len(s)) /\ Len(s) \in Nat
  BY DEF RemoveAt
<1>2. SubSeq(s, 1, 0) = <<>>
  OBVIOUS
<1>3. SubSeq(s, 2, Len(s)) \in Seq(Requests)
  BY <1>1
<1>4. z = SubSeq(s, 2, Len(s))
  BY <1>1, <1>2, <1>3
<1>5. Len(z) = Len(s) - 1 /\ \A n \in 1..Len(z) : z[n] = s[n + 1]
  BY <1>1, <1>4
<1>6. Len(s) = 1 => z = <<>>
  BY <1>3, <1>4, <1>5, EmptySeq
<1>7. QED
  BY <1>3, <1>4, <1>5, <1>6

(* While a call is on its way, or a callback at work, nothing is believed. *)
LEMMA NotQuiet ==
    ASSUME ConfigInv, ~Quiet
    PROVE  /\ fingerprint = Unknown /\ loadedIn
           /\ \A t \in Callers : caller[t].pc \notin {"proxy", "using"}
  BY DEF ConfigInv, Believed, Admitted

(* A call leaves the wire: its caller is told, if it still waits.          *)
LEMMA AnswerKeeps ==
    ASSUME ConfigInv, 1 \in 1..Len(sent), NEW outcome, Answers(1, outcome),
           UNCHANGED <<strategy, loadedIn>>,
           running' \in Seq(Configs), strategy = "member" => running' = <<>>,
           outcome = "ok" => running' = <<>> /\ held' = sent[1].config
    PROVE  ConfigInv'
<1>1. /\ sent \in Seq(Requests) /\ Len(sent) \in Nat /\ strategy \in {"lifecycle", "member"}
      /\ caller \in [Callers -> ConfigTasks]
  BY DEF ConfigInv, ConfigTypes
<1>2. /\ sent' \in Seq(Requests) /\ Len(sent') = Len(sent) - 1
      /\ \A n \in 1..Len(sent') : sent'[n] = sent[n + 1]
      /\ Len(sent) = 1 => sent' = <<>>
  BY <1>1, RestOfWire DEF Answers
<1>3. /\ fingerprint = Unknown /\ loadedIn
      /\ \A t \in Callers : caller[t].pc \notin {"proxy", "using"}
  <2>1. Len(sent) # 0
    BY <1>1
  <2>2. ~Quiet
    BY <1>1, <2>1, EmptySeq, Zenon DEF Quiet
  <2>3. QED
    BY <2>2, NotQuiet
<1>4. strategy = "member" => sent' = <<>> /\ running' = <<>>
  <2>1. strategy = "member" => Len(sent) <= 1
    BY DEF ConfigInv, FenceUp
  <2>2. 1 <= Len(sent)
    BY <1>1
  <2>3. \A n \in Nat : 1 <= n /\ n <= 1 => n = 1
    OBVIOUS
  <2>4. strategy = "member" => Len(sent) = 1
    BY <1>1, <2>1, <2>2, <2>3, Zenon
  <2>5. QED
    BY <1>2, <2>4
<1>5. CASE sent[1].by = Unknown
  <2>1. UNCHANGED <<fingerprint, uncertain, admitted, caller>>
    BY <1>5 DEF Answers
  <2>2. Wire'
    <3>1. ASSUME NEW n \in 1..Len(sent'), sent'[n].by # Unknown
          PROVE  /\ n = Len(sent') /\ caller'[sent'[n].by].pc = "calling"
                 /\ caller'[sent'[n].by].config = sent'[n].config
      <4>1. n + 1 \in 1..Len(sent) /\ sent'[n] = sent[n + 1]
        BY <1>1, <1>2
      <4>2. /\ n + 1 = Len(sent) /\ caller[sent'[n].by].pc = "calling"
            /\ caller[sent'[n].by].config = sent'[n].config
        BY <3>1, <4>1, Awaited
      <4>3. QED
        BY <1>1, <1>2, <2>1, <4>2
    <3>2. QED
      BY <3>1 DEF Wire
  <2>3. ASSUME NEW o \in Callers PROVE Admitted(o)'
    BY <1>3, <1>4, <2>1 DEF ConfigInv, Admitted
  <2>4. FenceUp'
    BY <1>1, <1>4, <2>1, EmptySeq DEF ConfigInv, FenceUp
  <2>5. ConfigTypes' /\ Believed'
    BY <1>1, <1>2, <1>3, <2>1 DEF ConfigInv, ConfigTypes, Believed
  <2>6. QED
    BY <2>2, <2>3, <2>4, <2>5 DEF ConfigInv
<1>6. CASE sent[1].by # Unknown
  <2> DEFINE by == sent[1].by
  <2>1. PICK t \in Callers : t = by
    BY <1>6, Awaited
  <2>2. /\ 1 = Len(sent) /\ caller[t].pc = "calling" /\ caller[t].config = sent[1].config
        /\ sent[1] \in Requests
    BY <1>6, <2>1, Awaited
  <2>3. sent' = <<>> /\ caller[t].config \in Configs
    BY <1>2, <2>2 DEF Requests
  <2>4. Answered(t, outcome)
    BY <1>6, <2>1 DEF Answers
  <2>5. /\ caller' \in [Callers -> ConfigTasks]
        /\ \A o \in Callers \ {t} : caller'[o] = caller[o]
        /\ caller'[t].config = caller[t].config
        /\ caller'[t].pc = "idle" \/ (admitted' = admitted /\ caller'[t].pc # "waiting")
        /\ \/ caller'[t].pc \in {"idle", "sending", "guarding"}
              /\ UNCHANGED <<fingerprint, uncertain>>
           \/ /\ outcome = "ok" /\ caller'[t].pc = "proxy"
              /\ fingerprint' = caller[t].config /\ uncertain' = FALSE
        /\ caller'[t].pc \notin {"loading", "calling", "using"}
    <3>1. CASE outcome = "ok" /\ Succeeds(t)
      BY <1>1, <3>1, AtMoves DEF Succeeds
    <3>2. CASE At(t, "sending") /\ UNCHANGED <<fingerprint, uncertain, admitted>>
      BY <1>1, <3>2, AtMoves
    <3>3. CASE Gives(t, "guarding") /\ UNCHANGED <<fingerprint, uncertain>>
      BY <1>1, <3>3, GivesMoves
    <3>4. QED
      BY <2>4, <3>1, <3>2, <3>3 DEF Answered
  <2>6. \A o \in Callers : Admitted(o)'
    <3>1. caller'[t].pc \in {"sending", "calling"} => fingerprint' = Unknown /\ loadedIn'
      BY <1>3, <2>5
    <3>2. caller'[t].pc \in {"proxy", "using"} =>
            sent' = <<>> /\ running' = <<>> /\ held' = caller'[t].config
      BY <2>2, <2>3, <2>5
    <3>3. caller'[t].config \in Configs
      BY <2>3, <2>5
    <3>4. QED
      BY <2>2, <2>3, <2>5, <3>1, <3>2, <3>3, OthersAdmitted
  <2>7. Len(sent') = 0
    BY <1>2, <2>2
  <2>8. Wire'
    BY <2>7 DEF Wire
  <2>9. FenceUp'
    BY <1>1, <1>4, <2>3, <2>5, <2>7 DEF ConfigInv, FenceUp
  <2>10. Believed' /\ ConfigTypes'
    BY <1>1, <1>2, <1>3, <2>2, <2>3, <2>5 DEF ConfigInv, ConfigTypes, Believed, Quiet
  <2>11. QED
    BY <2>6, <2>8, <2>9, <2>10 DEF ConfigInv
<1>7. QED
  BY <1>5, <1>6

LEMMA ModuleKeeps ==
    ASSUME ConfigInv, Refuses \/ Handles \/ Overruns
    PROVE  ConfigInv'
<1>1. /\ sent \in Seq(Requests) /\ running \in Seq(Configs)
      /\ strategy = "member" => running = <<>>
      /\ strategy \in {"lifecycle", "member"}
  BY DEF ConfigInv, ConfigTypes, FenceUp
<1>2. CASE Refuses
  <2>1. PICK n \in InTurn, outcome \in {"initializing", "failed"} : Answers(n, outcome)
    BY <1>2 DEF Refuses
  <2>2. UNCHANGED <<strategy, loadedIn, held, running>>
    BY <1>2 DEF Refuses
  <2>3. n = 1 /\ 1 \in 1..Len(sent)
    BY FirstInTurn
  <2>4. Answers(1, outcome) /\ outcome # "ok"
    BY <2>1, <2>3
  <2>5. QED
    BY <1>1, <2>2, <2>3, <2>4, AnswerKeeps
<1>3. CASE Handles
  <2>1. PICK n \in InTurn : \/ held' = sent[n].config /\ Answers(n, "ok")
                            \/ Answers(n, "failed")
    BY <1>3 DEF Handles
  <2>2. UNCHANGED <<strategy, loadedIn, running>> /\ running = <<>>
    BY <1>1, <1>3 DEF Handles
  <2>3. n = 1 /\ 1 \in 1..Len(sent)
    BY FirstInTurn
  <2>4. CASE held' = sent[n].config /\ Answers(n, "ok")
    BY <1>1, <2>2, <2>3, <2>4, AnswerKeeps
  <2>5. CASE Answers(n, "failed")
    BY <1>1, <2>2, <2>3, <2>5, AnswerKeeps
  <2>6. QED
    BY <2>1, <2>4, <2>5
<1>4. CASE Overruns
  <2>1. /\ strategy = "lifecycle" /\ sent # <<>> /\ running' = <<sent[1].config>>
        /\ Answers(1, "failed") /\ UNCHANGED <<strategy, loadedIn>>
    BY <1>4 DEF Overruns
  <2>2. 1 \in 1..Len(sent)
    BY <1>1, <2>1, EmptySeq
  <2>3. sent[1] \in Requests
    BY <1>1, <2>2
  <2>4. sent[1].config \in Configs
    BY <2>3 DEF Requests
  <2>5. running' \in Seq(Configs)
    BY <2>1, <2>4
  <2>6. QED
    BY <2>1, <2>2, <2>5, AnswerKeeps
<1>5. QED
  BY <1>2, <1>3, <1>4

LEMMA AsideKeeps ==
    ASSUME ConfigInv, Late \/ Invalidates \/ UNCHANGED configVars
    PROVE  ConfigInv'
<1>1. CASE Late
  <2>1. ~Quiet /\ running' = <<>>
        /\ UNCHANGED <<strategy, loadedIn, fingerprint, uncertain, sent, admitted, caller>>
    BY <1>1 DEF Late, Quiet
  <2>2. /\ fingerprint = Unknown /\ loadedIn
        /\ \A t \in Callers : caller[t].pc \notin {"proxy", "using"}
    BY <2>1, NotQuiet
  <2>3. ASSUME NEW o \in Callers PROVE Admitted(o)'
    BY <2>1, <2>2 DEF ConfigInv, Admitted
  <2>4. ConfigTypes' /\ Wire' /\ FenceUp' /\ Believed'
    BY <2>1, <2>2 DEF ConfigInv, ConfigTypes, Wire, FenceUp, Believed
  <2>5. QED
    BY <2>3, <2>4 DEF ConfigInv
<1>2. CASE Invalidates
  BY <1>2 DEF Invalidates, ConfigInv, ConfigTypes, Wire, FenceUp, Believed, Admitted, Quiet
<1>3. CASE UNCHANGED configVars
  BY <1>3 DEF configVars, ConfigInv, ConfigTypes, Wire, FenceUp, Believed, Admitted, Quiet
<1>4. QED
  BY <1>1, <1>2, <1>3

LEMMA ConfigInvNext == ConfigInv /\ [ConfigNext]_configVars => ConfigInv'
<1> SUFFICES ASSUME ConfigInv, [ConfigNext]_configVars PROVE ConfigInv'
  OBVIOUS
<1>1. CASE \E t \in Callers :
        \/ Wants(t) \/ Admit(t) \/ Enters(t) \/ Again(t) \/ FirstLoad(t) \/ LoadFails(t)
        \/ Compares(t) \/ Sends(t) \/ SendFails(t) \/ CallTimesOut(t) \/ Obtains(t)
        \/ Releases(t) \/ Abandons(t)
  BY <1>1, WantsKeeps, AdmitKeeps, EntersKeeps, AgainKeeps, FirstLoadKeeps, GivesKeeps,
     ComparesKeeps, SendsKeeps, LeavesKeepIt, ReleasesKeeps
<1>2. CASE Refuses \/ Handles \/ Overruns \/ Late \/ Invalidates \/ UNCHANGED configVars
  BY <1>2, ModuleKeeps, AsideKeeps
<1>3. QED
  BY <1>1, <1>2 DEF ConfigNext

(* ConfigurationHeld holds in every behaviour, for any number of callers   *)
(* and configurations: whatever proxy_locked and member_reconfigure left   *)
(* behind by failing, timing out or being cancelled, the stored            *)
(* fingerprint is what the module holds, and a guard's user keeps the      *)
(* configuration it was given.                                             *)
THEOREM ConfigurationKept == ConfigSpec => []ConfigurationHeld
<1>1. ConfigInv => ConfigurationHeld
  BY DEF ConfigInv, Believed, Admitted, ConfigurationHeld
<1>2. QED
  BY ConfigInvInit, ConfigInvNext, <1>1, PTL DEF ConfigSpec

=============================================================================
