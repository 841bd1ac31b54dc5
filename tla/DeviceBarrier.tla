----------------------------- MODULE DeviceBarrier -----------------------------
(***************************************************************************)
(* The operation barrier of one device (playauth/device_operation_barrier.go) *)
(* with the goroutines that use it: operations that take a lease           *)
(* (BeginEpoch ... Release), ownership transfers (assign/service.go:        *)
(* LockTransfer, the database transaction, Commit, Release) and cleaners    *)
(* that recover what an operation of an earlier epoch left behind           *)
(* (device_operation_rtp_cleanup_work.go: WaitBefore, then a lease of that   *)
(* same epoch).  The device's lane is an object that is allocated on first  *)
(* use, counted, and dropped from the barrier's map with its last           *)
(* reference.  Every step under a mutex, and every database transaction, is *)
(* one action.                                                              *)
(***************************************************************************)
EXTENDS Naturals, FiniteSets

CONSTANTS
    Ops,         \* goroutines of operations
    Transfers,   \* goroutines of ownership transfers
    Cleaners,    \* goroutines that recover an older operation
    Lanes,       \* deviceOperationLane objects that can be allocated
    MaxEpoch,    \* bound on the device's epoch
    None         \* no lane

Procs == Ops \cup Transfers \cup Cleaners

ASSUME LaneAssumption == None \notin Lanes
ASSUME ProcAssumption == /\ Ops \cap Transfers = {}
                         /\ Ops \cap Cleaners = {}
                         /\ Transfers \cap Cleaners = {}
                         /\ IsFiniteSet(Procs)
ASSUME EpochAssumption == MaxEpoch \in Nat \ {0}

VARIABLES
    laneAt,      \* b.lanes[pk], None when the key is absent
    refs,        \* lane.refs
    guardHeld,   \* lanes whose guardHeld is true
    active,      \* active[l]: goroutines with a lease in l
    pc, ref,     \* per goroutine: position, lane of its reference
    want,        \* epoch of the lease that is sought, new epoch of a transfer
    cancelled,   \* goroutines whose lease context was cancelled by a transfer
    access,      \* gb_device.access_epoch
    completed,   \* gb_device.cleanup_completed_epoch
    unseen       \* epochs whose transfer got an error from a commit that took

laneVars == <<laneAt, refs, guardHeld, active>>
deviceVars == <<access, completed, unseen>>
vars == <<laneAt, refs, guardHeld, active, pc, ref, want, cancelled,
          access, completed, unseen>>

Epochs == 1..MaxEpoch

Init ==
    /\ laneAt = None
    /\ refs = [l \in Lanes |-> 0]
    /\ guardHeld = {}
    /\ active = [l \in Lanes |-> {}]
    /\ pc = [p \in Procs |-> "idle"]
    /\ ref = [p \in Procs |-> None]
    /\ want = [p \in Procs |-> 0]
    /\ cancelled = {}
    /\ access = 1
    /\ completed = 1
    /\ unseen = {}

-----------------------------------------------------------------------------
(* Lanes.                                                                  *)

\* A lane object nobody can reach: a new one is indistinguishable from it.
Unreachable(l) == laneAt # l /\ \A p \in Procs : ref[p] # l

\* acquireLane: the map's lane, or a new one, with one more reference.
AcquireLane(p, l) ==
    /\ laneAt' = l
    /\ ref' = [ref EXCEPT ![p] = l]
    /\ \/ /\ laneAt = l
          /\ refs' = [refs EXCEPT ![l] = @ + 1]
          /\ UNCHANGED <<guardHeld, active>>
       \/ /\ laneAt = None
          /\ Unreachable(l)
          /\ refs' = [refs EXCEPT ![l] = 1]
          /\ guardHeld' = guardHeld \ {l}
          /\ active' = [active EXCEPT ![l] = {}]

\* Seeded faults: a lane is dropped when it looks empty, whatever its count;
\* the count is looked at before it is lowered.
MutReleaseRefUncounted(p) ==
    LET l == ref[p]
        returns == pc[p] = "joined"
    IN
    /\ pc[p] \in {"unref", "joined"}
    /\ refs' = [refs EXCEPT ![l] = @ - 1]
    /\ laneAt' = IF /\ laneAt = l
                    /\ l \notin guardHeld /\ active[l] = {}
                 THEN None ELSE laneAt
    /\ pc' = [pc EXCEPT ![p] = IF returns THEN "prepared" ELSE "idle"]
    /\ ref' = [ref EXCEPT ![p] = None]
    /\ want' = IF returns THEN want ELSE [want EXCEPT ![p] = 0]
    /\ cancelled' = cancelled \ {p}
    /\ UNCHANGED <<guardHeld, active, deviceVars>>

MutReleaseRefKeeps(p) ==
    LET l == ref[p]
        returns == pc[p] = "joined"
    IN
    /\ pc[p] \in {"unref", "joined"}
    /\ refs' = [refs EXCEPT ![l] = @ - 1]
    /\ laneAt' = IF /\ refs[l] = 0 /\ laneAt = l
                    /\ l \notin guardHeld /\ active[l] = {}
                 THEN None ELSE laneAt
    /\ pc' = [pc EXCEPT ![p] = IF returns THEN "prepared" ELSE "idle"]
    /\ ref' = [ref EXCEPT ![p] = None]
    /\ want' = IF returns THEN want ELSE [want EXCEPT ![p] = 0]
    /\ cancelled' = cancelled \ {p}
    /\ UNCHANGED <<guardHeld, active, deviceVars>>

\* The goroutine's reference is released: the last one of an empty lane takes
\* the lane out of the map.  WaitBefore returns as its reference goes.
ReleaseRef(p) ==
    LET l == ref[p]
        returns == pc[p] = "joined"
    IN
    /\ pc[p] \in {"unref", "joined"}
    /\ refs' = [refs EXCEPT ![l] = @ - 1]
    /\ laneAt' = IF /\ refs[l] = 1 /\ laneAt = l
                    /\ l \notin guardHeld /\ active[l] = {}
                 THEN None ELSE laneAt
    /\ pc' = [pc EXCEPT ![p] = IF returns THEN "prepared" ELSE "idle"]
    /\ ref' = [ref EXCEPT ![p] = None]
    /\ want' = IF returns THEN want ELSE [want EXCEPT ![p] = 0]
    /\ cancelled' = cancelled \ {p}
    /\ UNCHANGED <<guardHeld, active, deviceVars>>

Woken(q) == IF pc[q] = "asleep" THEN "queue"
            ELSE IF pc[q] = "asleepJoin" THEN "join" ELSE pc[q]

\* p goes to point and the lane's notify channel is closed and replaced: every
\* goroutine that sleeps on it looks again.
Signal(p, point) ==
    pc' = [q \in Procs |-> IF q = p THEN point
                           ELSE IF ref[q] = ref[p] THEN Woken(q) ELSE pc[q]]

Goto(p, point) == pc' = [pc EXCEPT ![p] = point]

\* Seeded fault: the guard is dropped without a signal.
MutDropGuard(p, point) ==
    /\ guardHeld' = guardHeld \ {ref[p]}
    /\ Goto(p, point)

\* Free the lane's guard.
DropGuard(p, point) ==
    /\ guardHeld' = guardHeld \ {ref[p]}
    /\ Signal(p, point)

-----------------------------------------------------------------------------
(* Waiting for the lane.                                                   *)

\* Under the lane's mutex a goroutine that finds the guard held takes the
\* current notify channel before it unlocks and sleeps on it.
Sleep(p) ==
    /\ pc[p] = "queue"
    /\ ref[p] \in guardHeld
    /\ Goto(p, "asleep")
    /\ UNCHANGED <<laneVars, ref, want, cancelled, deviceVars>>

\* Seeded fault: an admission runs its transaction without the guard.
MutTake(p) ==
    /\ pc[p] = "queue"
    /\ ref[p] \notin guardHeld
    /\ guardHeld' = IF p \in Transfers THEN guardHeld \cup {ref[p]} ELSE guardHeld
    /\ Goto(p, IF p \in Transfers THEN "locked" ELSE "tx")
    /\ UNCHANGED <<laneAt, refs, active, ref, want, cancelled, deviceVars>>

Take(p) ==
    /\ pc[p] = "queue"
    /\ ref[p] \notin guardHeld
    /\ guardHeld' = guardHeld \cup {ref[p]}
    /\ Goto(p, IF p \in Transfers THEN "locked" ELSE "tx")
    /\ UNCHANGED <<laneAt, refs, active, ref, want, cancelled, deviceVars>>

\* Seeded fault: a wait that timed out frees the guard of another goroutine.
MutGiveUpFrees(p) ==
    /\ pc[p] \in {"asleep", "asleepJoin"}
    /\ DropGuard(p, "unref")
    /\ UNCHANGED <<laneAt, refs, active, ref, want, cancelled, deviceVars>>

\* The caller's context, or the admission timeout, ends the wait.
GiveUp(p) ==
    /\ \/ pc[p] \in {"asleep", "asleepJoin"}
       \/ pc[p] = "queue" /\ p \in Transfers /\ ref[p] \notin guardHeld
    /\ Goto(p, "unref")
    /\ UNCHANGED <<laneVars, ref, want, cancelled, deviceVars>>

-----------------------------------------------------------------------------
(* Leases: beginOnLane and Release.                                        *)

\* The token of an operation names an epoch the device has or had.
Begin(o, e, l) ==
    /\ pc[o] = "idle"
    /\ e <= access
    /\ AcquireLane(o, l)
    /\ Goto(o, "queue")
    /\ want' = [want EXCEPT ![o] = e]
    /\ UNCHANGED <<cancelled, deviceVars>>

\* Seeded fault: the epoch of the token is not compared with the row's.
MutAdmissible(o) ==
    IF o \in Ops THEN completed = access
    ELSE want[o] < access /\ completed < access /\ completed <= want[o]

\* The row of the device allows an operation of this epoch, or the recovery of
\* one while the device is between owners.
Admissible(o) ==
    IF o \in Ops THEN want[o] = access /\ completed = access
    ELSE want[o] < access /\ completed < access /\ completed <= want[o]

\* The transaction that validates the locked device row.
AdmissionTx(o) ==
    /\ pc[o] = "tx"
    /\ Admissible(o)
    /\ Goto(o, "admitted")
    /\ UNCHANGED <<laneVars, ref, want, cancelled, deviceVars>>

\* The row does not allow the operation, the database or the process
\* authority fails, or the admission timeout is over.
Refuse(o) ==
    /\ pc[o] \in {"tx", "admitted"}
    /\ Goto(o, "refused")
    /\ UNCHANGED <<laneVars, ref, want, cancelled, deviceVars>>

ReleaseAdmissionGate(o) ==
    /\ pc[o] = "refused"
    /\ DropGuard(o, "unref")
    /\ UNCHANGED <<laneAt, refs, active, ref, want, cancelled, deviceVars>>

\* The lease becomes visible in the lane as its guard is dropped.
PublishLease(o) ==
    /\ pc[o] = "admitted"
    /\ active' = [active EXCEPT ![ref[o]] = @ \cup {o}]
    /\ DropGuard(o, "run")
    /\ UNCHANGED <<laneAt, refs, ref, want, cancelled, deviceVars>>

\* Seeded fault: the lease goes without a signal.
MutReleaseLease(o) ==
    /\ pc[o] = "run"
    /\ active' = [active EXCEPT ![ref[o]] = @ \ {o}]
    /\ Goto(o, "unref")
    /\ UNCHANGED <<laneAt, refs, guardHeld, ref, want, cancelled, deviceVars>>

\* lease.Release, once; the reference follows.
ReleaseLease(o) ==
    /\ pc[o] = "run"
    /\ active' = [active EXCEPT ![ref[o]] = @ \ {o}]
    /\ Signal(o, "unref")
    /\ UNCHANGED <<laneAt, refs, guardHeld, ref, want, cancelled, deviceVars>>

-----------------------------------------------------------------------------
(* Transfers: LockTransfer, the assignment transaction, Commit, Release.   *)

LockTransfer(t, l) ==
    /\ pc[t] = "idle"
    /\ AcquireLane(t, l)
    /\ Goto(t, "queue")
    /\ UNCHANGED <<want, cancelled, deviceVars>>

TransferCommitted(t) ==
    /\ pc[t] = "locked"
    /\ access < MaxEpoch
    /\ access' = access + 1
    /\ want' = [want EXCEPT ![t] = access + 1]
    /\ Goto(t, "committed")
    /\ UNCHANGED <<laneVars, ref, cancelled, completed, unseen>>

\* The commit took, and the caller gets an error.
TransferUnknown(t) ==
    /\ pc[t] = "locked"
    /\ access < MaxEpoch
    /\ access' = access + 1
    /\ unseen' = unseen \cup {access + 1}
    /\ Goto(t, "unguard")
    /\ UNCHANGED <<laneVars, ref, want, cancelled, completed>>

\* Refused, already of the target department, or rolled back.
TransferUnchanged(t) ==
    /\ pc[t] = "locked"
    /\ Goto(t, "unguard")
    /\ UNCHANGED <<laneVars, ref, want, cancelled, deviceVars>>

\* Seeded fault: the epoch that was just left is not an older one.
MutCommit(t) ==
    /\ pc[t] = "committed"
    /\ cancelled' = cancelled \cup {o \in active[ref[t]] : want[o] + 1 < want[t]}
    /\ Goto(t, "unguard")
    /\ UNCHANGED <<laneVars, ref, want, deviceVars>>

\* guard.Commit cancels the contexts of older leases; they stay in the lane.
Commit(t) ==
    /\ pc[t] = "committed"
    /\ cancelled' = cancelled \cup {o \in active[ref[t]] : want[o] < want[t]}
    /\ Goto(t, "unguard")
    /\ UNCHANGED <<laneVars, ref, want, deviceVars>>

ReleaseGuard(t) ==
    /\ pc[t] = "unguard"
    /\ DropGuard(t, "unref")
    /\ UNCHANGED <<laneAt, refs, active, ref, want, cancelled, deviceVars>>

\* The cleanup reconciler opens the current epoch.
Complete ==
    /\ completed < access
    /\ completed' = access
    /\ UNCHANGED <<laneVars, pc, ref, want, cancelled, access, unseen>>

-----------------------------------------------------------------------------
(* Cleaners: Prepare joins the original epoch, then takes a lease of it.   *)

\* Seeded fault: the epoch itself is not waited for.
MutOlderActive(c) == {o \in active[ref[c]] : want[o] < want[c]}

OlderActive(c) == {o \in active[ref[c]] : want[o] <= want[c]}

\* What is recovered belongs to an epoch the device has left.
WaitBefore(c, e, l) ==
    /\ pc[c] = "idle"
    /\ e < access
    /\ AcquireLane(c, l)
    /\ Goto(c, "join")
    /\ want' = [want EXCEPT ![c] = e]
    /\ UNCHANGED <<cancelled, deviceVars>>

JoinLook(c) ==
    /\ pc[c] = "join"
    /\ Goto(c, IF OlderActive(c) = {} THEN "joined" ELSE "asleepJoin")
    /\ UNCHANGED <<laneVars, ref, want, cancelled, deviceVars>>

\* The durable recovery record is taken by another owner, or cannot be written.
Abandon(c) ==
    /\ pc[c] = "prepared"
    /\ Goto(c, "idle")
    /\ want' = [want EXCEPT ![c] = 0]
    /\ UNCHANGED <<laneVars, ref, cancelled, deviceVars>>

BeginRTPCleanup(c, l) ==
    /\ pc[c] = "prepared"
    /\ AcquireLane(c, l)
    /\ Goto(c, "queue")
    /\ UNCHANGED <<want, cancelled, deviceVars>>

-----------------------------------------------------------------------------

Steps(p) == Sleep(p) \/ Take(p) \/ ReleaseRef(p)

LeaseSteps(o) ==
    \/ AdmissionTx(o) \/ Refuse(o) \/ ReleaseAdmissionGate(o) \/ PublishLease(o)

TransferSteps(t) ==
    \/ TransferCommitted(t) \/ TransferUnknown(t) \/ TransferUnchanged(t)
    \/ Commit(t) \/ ReleaseGuard(t)

OpNext(o) ==
    \/ \E e \in Epochs, l \in Lanes : Begin(o, e, l)
    \/ LeaseSteps(o) \/ ReleaseLease(o)

TransferNext(t) == TransferSteps(t) \/ \E l \in Lanes : LockTransfer(t, l)

CleanerNext(c) ==
    \/ \E e \in Epochs, l \in Lanes : WaitBefore(c, e, l)
    \/ JoinLook(c) \/ Abandon(c)
    \/ \E l \in Lanes : BeginRTPCleanup(c, l)
    \/ LeaseSteps(c) \/ ReleaseLease(c)

Next ==
    \/ \E p \in Procs : Steps(p) \/ GiveUp(p)
    \/ \E o \in Ops : OpNext(o)
    \/ \E t \in Transfers : TransferNext(t)
    \/ \E c \in Cleaners : CleanerNext(c)
    \/ Complete

Spec == Init /\ [][Next]_vars

\* Goroutines that can run do run, and database calls end by their timeouts.
\* Nothing obliges a goroutine to start, or an operation to end.
Fairness ==
    /\ \A p \in Procs : WF_vars(Steps(p))
    /\ \A o \in Ops \cup Cleaners : WF_vars(LeaseSteps(o))
    /\ \A t \in Transfers : WF_vars(TransferSteps(t))
    /\ \A c \in Cleaners : WF_vars(JoinLook(c))

FairSpec == Spec /\ Fairness

-----------------------------------------------------------------------------
(* Properties.                                                             *)

TypeOK ==
    /\ laneAt \in Lanes \cup {None}
    /\ refs \in [Lanes -> Nat]
    /\ guardHeld \subseteq Lanes
    /\ active \in [Lanes -> SUBSET (Ops \cup Cleaners)]
    /\ pc \in [Procs -> {"idle", "queue", "asleep", "tx", "admitted", "refused", "run",
                         "unref", "locked", "committed", "unguard", "join",
                         "asleepJoin", "joined", "prepared"}]
    /\ ref \in [Procs -> Lanes \cup {None}]
    /\ want \in [Procs -> 0..MaxEpoch]
    /\ cancelled \subseteq Ops \cup Cleaners
    /\ access \in Epochs
    /\ completed \in Epochs
    /\ unseen \subseteq Epochs

\* All goroutines that hold a reference hold it to the one lane of the device
\* in the map, and the count says how many they are: the release of a
\* reference never takes away a lane in use, which would let a transfer and an
\* operation lock different lanes of the same device.
OneLane ==
    /\ \A p \in Procs : ref[p] # None => ref[p] = laneAt
    /\ \A l \in Lanes : laneAt = l =>
            refs[l] = Cardinality({p \in Procs : ref[p] = l})

\* The guard of the device is held by one goroutine at a time: an admission, a
\* transfer, or nobody.
Guarding(p) == pc[p] \in {"tx", "admitted", "refused", "locked", "committed", "unguard"}

GuardHasOneHolder ==
    /\ \A p, q \in Procs : Guarding(p) /\ Guarding(q) => p = q
    /\ \A p \in Procs : Guarding(p) => ref[p] \in guardHeld
    /\ laneAt \in guardHeld => \E p \in Procs : Guarding(p)

\* What the admission transaction read about the device still holds when its
\* lease becomes visible, although the row lock is long gone.
AdmissionIsFresh ==
    \A o \in Ops : pc[o] = "admitted" => want[o] = access /\ completed = access

\* Once a transfer is over, every lease of an earlier epoch has been cancelled,
\* except those that only transfers with an unknown outcome made old.
TransferRevokes ==
    \A o \in Ops : pc[o] = "run" /\ want[o] < access =>
        \/ o \in cancelled
        \/ (want[o] + 1)..access \subseteq unseen
        \/ \E t \in Transfers : pc[t] = "committed"

\* From the return of its WaitBefore on, a cleaner never overlaps with an
\* operation that was admitted under the epoch it recovers, or an earlier one.
CleanerIsAlone ==
    \A c \in Cleaners, o \in Ops :
        /\ pc[c] \in {"joined", "prepared", "tx", "admitted", "run"}
        /\ pc[o] = "run"
        => want[o] > want[c]

\* Nobody sleeps through the signal it waits for.
NoLostWakeup ==
    \A p \in Procs :
        /\ pc[p] = "asleep" => ref[p] \in guardHeld
        /\ pc[p] = "asleepJoin" => OlderActive(p) # {}

\* The lane map does not grow: without a goroutine that uses it the lane goes.
LaneIsReclaimed == (\A p \in Procs : ref[p] = None) => laneAt = None

\* The barrier keeps the promise of DeviceLeases.  A transfer takes place, for
\* the operations, when the leases are cancelled, or when its commit takes.
Leases == INSTANCE DeviceLeases WITH
    epoch <- IF \E t \in Transfers : pc[t] = "committed" THEN access - 1 ELSE access,
    lease <- [o \in Ops |-> IF pc[o] = "run" THEN want[o] ELSE 0],
    revoked <- cancelled \cap {o \in Ops : pc[o] = "run"}

LeasesSpec == Leases!Spec

\* A goroutine that waits for the lane is always woken.
SleepersWake == \A p \in Procs : pc[p] = "asleep" ~> pc[p] # "asleep"

=============================================================================
