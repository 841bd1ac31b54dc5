-------------------------- MODULE DeviceBarrierProofs --------------------------
(***************************************************************************)
(* Proofs about the lanes of DeviceBarrier, for every set of goroutines and *)
(* lane objects and every bound on the epoch.  IInv is the inductive        *)
(* invariant: a goroutine holds a reference exactly while it is inside the  *)
(* barrier, all references are to the lane in the map and are counted       *)
(* there, and the lane's active set is the set of goroutines that run.      *)
(***************************************************************************)
EXTENDS DeviceBarrier, FiniteSetTheorems, TLAPS

Holders(l) == {p \in Procs : ref[p] = l}

\* References: who has one, to which lane, and how many there are.
Referring ==
    /\ \A p \in Procs : pc[p] \in {"idle", "prepared"} <=> ref[p] = None
    /\ \A p \in Procs : ref[p] # None => ref[p] = laneAt

Counted == laneAt # None => refs[laneAt] = Cardinality(Holders(laneAt))

\* The lane's active set and the goroutines that hold a lease.
Running ==
    /\ \A p \in Procs : pc[p] = "run" => p \in active[ref[p]]
    /\ laneAt # None => \A p \in active[laneAt] : pc[p] = "run"

\* Where each kind of goroutine can be.
Kinds ==
    /\ \A o \in Ops : pc[o] \in {"idle", "queue", "asleep", "tx", "admitted", "refused",
                                 "run", "unref"}
    /\ \A t \in Transfers : pc[t] \in {"idle", "queue", "asleep", "locked", "committed",
                                       "unguard", "unref"}
    /\ \A c \in Cleaners : pc[c] \in {"idle", "join", "asleepJoin", "joined", "prepared",
                                      "queue", "asleep", "tx", "admitted", "refused",
                                      "run", "unref"}

LaneInv ==
    /\ Referring /\ Counted /\ Running /\ Kinds
    /\ GuardHasOneHolder /\ NoLostWakeup /\ LaneIsReclaimed

IInv == TypeOK /\ LaneInv

-----------------------------------------------------------------------------
(* Facts about goroutines and their references.                            *)

\* The kinds of goroutine are disjoint.
LEMMA ProcFacts ==
    /\ Ops \subseteq Procs /\ Transfers \subseteq Procs /\ Cleaners \subseteq Procs
    /\ \A o \in Ops : o \notin Transfers /\ o \notin Cleaners
    /\ \A t \in Transfers : t \notin Cleaners
BY ProcAssumption DEF Procs

\* A goroutine with a reference has it to the lane in the map, which counts it.
LEMMA HolderFacts ==
    ASSUME IInv, NEW p \in Procs, pc[p] \notin {"idle", "prepared"}
    PROVE  /\ ref[p] = laneAt /\ ref[p] \in Lanes /\ laneAt # None
           /\ IsFiniteSet(Holders(laneAt)) /\ p \in Holders(laneAt)
           /\ refs[laneAt] = Cardinality(Holders(laneAt))
           /\ refs[laneAt] \in Nat \ {0}
<1>1. ref[p] # None /\ ref[p] = laneAt /\ ref[p] \in Lanes
  BY LaneAssumption DEF IInv, LaneInv, Referring, TypeOK
<1>2. IsFiniteSet(Holders(laneAt))
  <2>1. Holders(laneAt) \subseteq Procs
    BY DEF Holders
  <2> QED
    BY <2>1, ProcAssumption, FS_Subset
<1>3. p \in Holders(laneAt)
  BY <1>1 DEF Holders
<1>4. refs[laneAt] = Cardinality(Holders(laneAt))
  BY <1>1 DEF IInv, LaneInv, Counted
<1>5. Cardinality(Holders(laneAt)) # 0
  BY <1>2, <1>3, FS_EmptySet
<1> QED
  BY <1>1, <1>2, <1>3, <1>4, <1>5 DEF IInv, TypeOK

\* The last reference is the only one.
LEMMA LastReference ==
    ASSUME IInv, NEW p \in Procs, pc[p] \notin {"idle", "prepared"},
           refs[ref[p]] = 1, NEW q \in Procs, ref[q] # None
    PROVE  q = p
<1>1. Cardinality(Holders(laneAt)) = 1 /\ p \in Holders(laneAt) /\ IsFiniteSet(Holders(laneAt))
  BY HolderFacts
<1>2. q \in Holders(laneAt)
  BY DEF IInv, LaneInv, Referring, Holders
<1> QED
  BY <1>1, <1>2, FS_Singleton

LEMMA InitIInv == Init => IInv
<1> SUFFICES ASSUME Init PROVE IInv
  OBVIOUS
<1>1. TypeOK
  BY LaneAssumption, EpochAssumption DEF Init, TypeOK, Epochs
<1>2. LaneInv
  BY ProcFacts DEF Init, LaneInv, Referring, Counted, Running, Kinds, GuardHasOneHolder,
                   Guarding, NoLostWakeup, LaneIsReclaimed
<1> QED
  BY <1>1, <1>2 DEF IInv

-----------------------------------------------------------------------------
(* Entering and leaving the barrier.                                       *)

\* A goroutine without a reference takes one.
LEMMA AcquireKeeps ==
    ASSUME IInv, NEW p \in Procs, NEW l \in Lanes,
           pc[p] \in {"idle", "prepared"},
           AcquireLane(p, l),
           NEW point \in {"queue", "join"}, Goto(p, point),
           point = "join" => p \in Cleaners,
           p \in Transfers \/ p \in Ops => pc[p] = "idle",
           \A q \in Procs : pc[q] = "run" => want'[q] = want[q],
           \A q \in Procs : q # p => want'[q] = want[q]
    PROVE  LaneInv' /\ laneAt' \in Lanes /\ refs' \in [Lanes -> Nat]
           /\ guardHeld' \subseteq Lanes
           /\ active' \in [Lanes -> SUBSET (Ops \cup Cleaners)]
           /\ pc' = [pc EXCEPT ![p] = point] /\ ref' = [ref EXCEPT ![p] = l]
<1>1. pc' = [pc EXCEPT ![p] = point] /\ ref' = [ref EXCEPT ![p] = l] /\ laneAt' = l
  BY DEF Goto, AcquireLane
<1>2. ref[p] = None /\ l # None /\ laneAt \in {l, None}
  BY LaneAssumption DEF IInv, LaneInv, Referring, AcquireLane
<1>3. pc \in [Procs -> {pc[q] : q \in Procs}] /\ ref \in [Procs -> Lanes \cup {None}]
      /\ refs \in [Lanes -> Nat] /\ active \in [Lanes -> SUBSET (Ops \cup Cleaners)]
  BY DEF IInv, TypeOK
<1>4. Referring'
  BY <1>1, <1>2, <1>3 DEF IInv, LaneInv, Referring
<1>5. Holders(l)' = Holders(l) \cup {p} /\ p \notin Holders(l)
  BY <1>1, <1>2, <1>3 DEF Holders
<1>6. IsFiniteSet(Holders(l))
  <2>1. Holders(l) \subseteq Procs
    BY DEF Holders
  <2> QED
    BY <2>1, ProcAssumption, FS_Subset
<1>7. Cardinality(Holders(l)') = Cardinality(Holders(l)) + 1
  BY <1>5, <1>6, FS_AddElement
<1>8. laneAt = None => Holders(l) = {} /\ \A q \in Procs : ref[q] = None
  BY <1>2 DEF IInv, LaneInv, Referring, Holders
<1>9. Counted'
  <2>1. CASE laneAt = l
    BY <2>1, <1>1, <1>2, <1>3, <1>7 DEF IInv, LaneInv, Counted, AcquireLane
  <2>2. CASE laneAt = None
    <3>1. Cardinality(Holders(l)) = 0
      BY <2>2, <1>8, FS_EmptySet
    <3>2. refs'[l] = 1
      BY <2>2, <1>2, <1>3 DEF AcquireLane
    <3> QED
      BY <3>1, <3>2, <1>1, <1>7 DEF Counted
  <2> QED
    BY <1>2, <2>1, <2>2
<1>10. Running'
  <2>1. CASE laneAt = l
    BY <2>1, <1>1, <1>2, <1>3 DEF IInv, LaneInv, Running, AcquireLane
  <2>2. CASE laneAt = None
    BY <2>2, <1>1, <1>2, <1>3, <1>8 DEF IInv, LaneInv, Running, Referring, AcquireLane
  <2> QED
    BY <1>2, <2>1, <2>2
<1>11. Kinds'
  BY <1>1, <1>3, ProcFacts DEF IInv, LaneInv, Kinds
<1>12. GuardHasOneHolder'
  <2>1. \A q \in Procs : Guarding(q)' <=> Guarding(q)
    BY <1>1, <1>3 DEF Guarding
  <2>2. CASE laneAt = l
    BY <2>1, <2>2, <1>1, <1>2, <1>3
       DEF IInv, LaneInv, GuardHasOneHolder, AcquireLane, Guarding
  <2>3. CASE laneAt = None
    <3>1. \A q \in Procs : ~Guarding(q)
      BY <2>3, <1>8 DEF IInv, LaneInv, Referring, Guarding
    <3> QED
      BY <3>1, <2>1, <2>3, <1>1, <1>2 DEF GuardHasOneHolder, AcquireLane
  <2> QED
    BY <1>2, <2>2, <2>3
<1>13. NoLostWakeup'
  <2>1. CASE laneAt = l
    <3>1. ASSUME NEW q \in Procs, pc'[q] = "asleep" PROVE ref'[q] \in guardHeld'
      BY <3>1, <2>1, <1>1, <1>2, <1>3 DEF IInv, LaneInv, NoLostWakeup, AcquireLane
    <3>2. ASSUME NEW q \in Procs, pc'[q] = "asleepJoin" PROVE OlderActive(q)' # {}
      <4>1. q # p /\ pc[q] = "asleepJoin" /\ ref'[q] = l /\ want'[q] = want[q]
            /\ active' = active /\ ref[q] = l
        BY <3>2, <2>1, <1>1, <1>2, <1>3 DEF IInv, LaneInv, Referring, AcquireLane
      <4>2. PICK o \in active[l] : want[o] <= want[q]
        BY <4>1 DEF IInv, LaneInv, NoLostWakeup, OlderActive
      <4>3. o \in Procs /\ pc[o] = "run"
        BY <4>2, <2>1, <1>2, <1>3, ProcFacts DEF IInv, LaneInv, Running
      <4> QED
        BY <4>1, <4>2, <4>3 DEF OlderActive
    <3> QED
      BY <3>1, <3>2 DEF NoLostWakeup
  <2>2. CASE laneAt = None
    BY <2>2, <1>1, <1>2, <1>3, <1>8 DEF IInv, LaneInv, Referring, NoLostWakeup
  <2> QED
    BY <1>2, <2>1, <2>2
<1>14. LaneIsReclaimed'
  BY <1>1, <1>2, <1>3 DEF LaneIsReclaimed
<1>15. refs' \in [Lanes -> Nat] /\ guardHeld' \subseteq Lanes
       /\ active' \in [Lanes -> SUBSET (Ops \cup Cleaners)]
  BY <1>3 DEF IInv, TypeOK, AcquireLane
<1> QED
  BY <1>1, <1>4, <1>9, <1>10, <1>11, <1>12, <1>13, <1>14, <1>15 DEF LaneInv

\* A goroutine gives its reference up, as it leaves or as WaitBefore returns.
LEMMA ReleaseRefKeeps ==
    ASSUME IInv, NEW p \in Procs, ReleaseRef(p)
    PROVE  IInv'
<1>1. /\ pc[p] \in {"unref", "joined"} /\ pc'[p] \in {"idle", "prepared"}
      /\ \A q \in Procs : q # p => pc'[q] = pc[q] /\ ref'[q] = ref[q]
      /\ ref'[p] = None
      /\ guardHeld' = guardHeld /\ active' = active
  BY DEF ReleaseRef, IInv, TypeOK
<1>2. /\ ref[p] = laneAt /\ laneAt \in Lanes /\ laneAt # None
      /\ IsFiniteSet(Holders(laneAt)) /\ p \in Holders(laneAt)
      /\ refs[laneAt] = Cardinality(Holders(laneAt)) /\ refs[laneAt] \in Nat \ {0}
  BY <1>1, HolderFacts
<1>3. refs' = [refs EXCEPT ![laneAt] = @ - 1] /\ laneAt' \in {laneAt, None}
  BY <1>2 DEF ReleaseRef
<1>4. TypeOK'
  <2>1. refs' \in [Lanes -> Nat]
    BY <1>2, <1>3 DEF IInv, TypeOK
  <2>2. pc' \in [Procs -> {"idle", "queue", "asleep", "tx", "admitted", "refused", "run",
                           "unref", "locked", "committed", "unguard", "join",
                           "asleepJoin", "joined", "prepared"}]
    BY DEF ReleaseRef, IInv, TypeOK
  <2>3. ref' \in [Procs -> Lanes \cup {None}] /\ laneAt' \in Lanes \cup {None}
    BY <1>2, <1>3 DEF ReleaseRef, IInv, TypeOK
  <2>4. want' \in [Procs -> 0..MaxEpoch]
    BY EpochAssumption DEF ReleaseRef, IInv, TypeOK
  <2>5. /\ guardHeld' \subseteq Lanes /\ active' \in [Lanes -> SUBSET (Ops \cup Cleaners)]
        /\ cancelled' \subseteq Ops \cup Cleaners /\ access' \in Epochs
        /\ completed' \in Epochs /\ unseen' \subseteq Epochs
    BY DEF ReleaseRef, IInv, TypeOK, deviceVars, Epochs
  <2> QED
    BY <2>1, <2>2, <2>3, <2>4, <2>5 DEF TypeOK
<1>5. laneAt' = None => \A q \in Procs : ref'[q] = None
  <2>1. ASSUME laneAt' = None, NEW q \in Procs, q # p PROVE ref[q] = None
    <3>1. refs[ref[p]] = 1
      BY <2>1, <1>2 DEF ReleaseRef
    <3> QED
      BY <3>1, <2>1, <1>1, LastReference
  <2> QED
    BY <2>1, <1>1
<1>6. Referring'
  BY <1>1, <1>3, <1>5 DEF IInv, LaneInv, Referring
<1>7. Counted'
  <2>2. ASSUME laneAt' = laneAt PROVE Counted'
    <3>1. Holders(laneAt)' = Holders(laneAt) \ {p}
      BY <2>2, <1>1, <1>2, LaneAssumption DEF Holders
    <3>2. Cardinality(Holders(laneAt)') = Cardinality(Holders(laneAt)) - 1
      BY <3>1, <1>2, FS_RemoveElement
    <3>3. refs'[laneAt] = refs[laneAt] - 1
      BY <1>2, <1>3 DEF IInv, TypeOK
    <3> QED
      BY <2>2, <3>2, <3>3, <1>2 DEF Counted
  <2> QED
    BY <2>2, <1>3 DEF Counted
<1>8. Running'
  <2>1. ASSUME NEW q \in Procs, pc'[q] = "run" PROVE q \in active'[ref'[q]]
    BY <2>1, <1>1 DEF IInv, LaneInv, Running
  <2>2. ASSUME laneAt' # None, NEW q \in active'[laneAt'] PROVE pc'[q] = "run"
    <3>1. pc[q] = "run" /\ q \in Procs
      BY <2>2, <1>1, <1>2, <1>3, ProcFacts DEF IInv, LaneInv, Running, TypeOK
    <3> QED
      BY <3>1, <1>1
  <2> QED
    BY <2>1, <2>2 DEF Running
<1>9. Kinds'
  BY <1>1, ProcFacts DEF ReleaseRef, IInv, LaneInv, Kinds, TypeOK
<1>10. GuardHasOneHolder'
  <2>1. \A q \in Procs : Guarding(q)' <=> Guarding(q)
    BY <1>1 DEF Guarding
  <2>2. ASSUME NEW q \in Procs, Guarding(q)' PROVE ref'[q] \in guardHeld'
    BY <2>1, <2>2, <1>1 DEF IInv, LaneInv, GuardHasOneHolder, Guarding
  <2>3. laneAt' \in guardHeld' => \E q \in Procs : Guarding(q)'
    BY <2>1, <1>1, <1>3, LaneAssumption DEF IInv, LaneInv, GuardHasOneHolder, TypeOK
  <2> QED
    BY <2>1, <2>2, <2>3 DEF IInv, LaneInv, GuardHasOneHolder
<1>11. NoLostWakeup'
  <2>1. ASSUME NEW q \in Procs, pc'[q] = "asleep" PROVE ref'[q] \in guardHeld'
    BY <2>1, <1>1 DEF IInv, LaneInv, NoLostWakeup
  <2>2. ASSUME NEW q \in Procs, pc'[q] = "asleepJoin" PROVE OlderActive(q)' # {}
    <3>1. q # p /\ pc[q] = "asleepJoin" /\ ref'[q] = ref[q]
      BY <2>2, <1>1
    <3>2. PICK o \in active[ref[q]] : want[o] <= want[q]
      BY <3>1 DEF IInv, LaneInv, NoLostWakeup, OlderActive
    <3>3. ref[q] = laneAt
      BY <3>1, HolderFacts
    <3>4. o \in Procs /\ pc[o] = "run"
      BY <3>2, <3>3, <1>2, ProcFacts DEF IInv, LaneInv, Running, TypeOK
    <3>5. want'[q] = want[q] /\ want'[o] = want[o]
      BY <3>1, <3>4, <1>1 DEF ReleaseRef, IInv, TypeOK
    <3> QED
      BY <3>1, <3>2, <3>5, <1>1 DEF OlderActive
  <2> QED
    BY <2>1, <2>2 DEF NoLostWakeup
<1>12. LaneIsReclaimed'
  <2>1. ASSUME \A q \in Procs : ref'[q] = None, laneAt' # None PROVE FALSE
    <3>1. Holders(laneAt) = {p}
      BY <2>1, <1>1, <1>2 DEF Holders
    <3>2. refs[laneAt] = 1
      BY <3>1, <1>2, FS_Singleton
    <3>3. laneAt \notin guardHeld
      <4>1. \A q \in Procs : ~Guarding(q)
        BY <2>1, <1>1 DEF IInv, LaneInv, Referring, Guarding
      <4> QED
        BY <4>1 DEF IInv, LaneInv, GuardHasOneHolder
    <3>4. active[laneAt] = {}
      <4>1. ASSUME NEW o \in active[laneAt] PROVE FALSE
        <5>1. o \in Procs /\ pc[o] = "run"
          BY <1>2, ProcFacts DEF IInv, LaneInv, Running, TypeOK
        <5> QED
          BY <5>1, <2>1, <1>1 DEF IInv, LaneInv, Referring
      <4> QED
        BY <4>1
    <3>5. laneAt' = None
      BY <3>2, <3>3, <3>4, <1>2 DEF ReleaseRef
    <3> QED
      BY <3>5, <2>1
  <2> QED
    BY <2>1 DEF LaneIsReclaimed
<1> QED
  BY <1>4, <1>6, <1>7, <1>8, <1>9, <1>10, <1>11, <1>12 DEF IInv, LaneInv

-----------------------------------------------------------------------------
(* Steps inside the barrier.                                               *)

Outside == {"idle", "prepared"}
GuardPoints == {"tx", "admitted", "refused", "locked", "committed", "unguard"}
OpPoints == {"idle", "queue", "asleep", "tx", "admitted", "refused", "run", "unref"}
TransferPoints == {"idle", "queue", "asleep", "locked", "committed", "unguard", "unref"}
CleanerPoints == {"idle", "join", "asleepJoin", "joined", "prepared", "queue", "asleep",
                  "tx", "admitted", "refused", "run", "unref"}

\* A goroutine goes from one point to another and no lane changes.
LEMMA GotoKeeps ==
    ASSUME IInv, NEW p \in Procs, NEW point, Goto(p, point),
           UNCHANGED <<laneVars, ref>>,
           pc[p] # "run", point # "run",
           pc[p] \in Outside <=> point \in Outside,
           pc[p] \in GuardPoints <=> point \in GuardPoints,
           p \in Ops => point \in OpPoints,
           p \in Transfers => point \in TransferPoints,
           p \in Cleaners => point \in CleanerPoints,
           point = "asleep" => ref[p] \in guardHeld,
           point = "asleepJoin" => OlderActive(p) # {} /\ want'[p] = want[p],
           \A q \in Procs : q # p => want'[q] = want[q]
    PROVE  LaneInv' /\ pc' = [pc EXCEPT ![p] = point]
<1>1. /\ pc' = [pc EXCEPT ![p] = point]
      /\ pc'[p] = point
      /\ \A q \in Procs : q # p => pc'[q] = pc[q]
      /\ laneAt' = laneAt /\ refs' = refs /\ guardHeld' = guardHeld
      /\ active' = active /\ ref' = ref
  BY DEF Goto, laneVars, IInv, TypeOK
<1>2. Referring'
  BY <1>1 DEF IInv, LaneInv, Referring, Outside
<1>3. Counted'
  BY <1>1 DEF IInv, LaneInv, Counted, Holders
<1>4. Running'
  <2>1. ASSUME NEW q \in Procs, pc'[q] = "run" PROVE q \in active'[ref'[q]]
    BY <2>1, <1>1 DEF IInv, LaneInv, Running
  <2>2. ASSUME laneAt' # None, NEW q \in active'[laneAt'] PROVE pc'[q] = "run"
    <3>1. laneAt \in Lanes
      BY <2>2, <1>1 DEF IInv, TypeOK
    <3>2. pc[q] = "run" /\ q \in Procs
      BY <3>1, <2>2, <1>1, ProcFacts DEF IInv, LaneInv, Running, TypeOK
    <3> QED
      BY <3>2, <1>1
  <2> QED
    BY <2>1, <2>2 DEF Running
<1>5. Kinds'
  BY <1>1, ProcFacts DEF IInv, LaneInv, Kinds, OpPoints, TransferPoints, CleanerPoints
<1>6. GuardHasOneHolder'
  <2>1. \A q \in Procs : Guarding(q)' <=> Guarding(q)
    BY <1>1 DEF Guarding, GuardPoints
  <2> QED
    BY <2>1, <1>1 DEF IInv, LaneInv, GuardHasOneHolder
<1>7. NoLostWakeup'
  <2>1. ASSUME NEW q \in Procs, pc'[q] = "asleep" PROVE ref'[q] \in guardHeld'
    BY <2>1, <1>1 DEF IInv, LaneInv, NoLostWakeup
  <2>2. ASSUME NEW q \in Procs, pc'[q] = "asleepJoin" PROVE OlderActive(q)' # {}
    <3>1. OlderActive(q) # {} /\ want'[q] = want[q]
      BY <2>2, <1>1 DEF IInv, LaneInv, NoLostWakeup
    <3>2. PICK o \in active[ref[q]] : want[o] <= want[q]
      BY <3>1 DEF OlderActive
    <3>3. ref[q] = laneAt /\ laneAt # None /\ laneAt \in Lanes
      <4>1. pc[q] \notin {"idle", "prepared"}
        BY <2>2, <1>1 DEF Outside
      <4> QED
        BY <4>1, HolderFacts
    <3>4. o \in Procs /\ pc[o] = "run"
      BY <3>2, <3>3, ProcFacts DEF IInv, LaneInv, Running, TypeOK
    <3> QED
      BY <3>1, <3>2, <3>4, <1>1 DEF OlderActive
  <2> QED
    BY <2>1, <2>2 DEF NoLostWakeup
<1>8. LaneIsReclaimed'
  BY <1>1 DEF IInv, LaneInv, LaneIsReclaimed
<1> QED
  BY <1>1, <1>2, <1>3, <1>4, <1>5, <1>6, <1>7, <1>8 DEF LaneInv

\* A signal leaves nobody asleep.
LEMMA SignalFacts ==
    ASSUME IInv, NEW p \in Procs, pc[p] \notin Outside,
           NEW point, point \notin {"asleep", "asleepJoin"}, Signal(p, point)
    PROVE  /\ pc' = [q \in Procs |-> IF q = p THEN point ELSE Woken(q)]
           /\ \A q \in Procs : pc'[q] \notin {"asleep", "asleepJoin"}
<1>1. ref[p] = laneAt /\ laneAt # None
  BY HolderFacts DEF Outside
<1>2. ASSUME NEW q \in Procs, ref[q] # ref[p] PROVE Woken(q) = pc[q]
  BY <1>1, <1>2 DEF IInv, LaneInv, Referring, Woken
<1> QED
  BY <1>2 DEF Signal, Woken

\* The guard is dropped, and perhaps a lease appears.
LEMMA DropGuardKeeps ==
    ASSUME IInv, NEW p \in Procs, Guarding(p), NEW point, DropGuard(p, point),
           UNCHANGED <<laneAt, refs, ref, want>>,
           \/ point = "unref" /\ active' = active
           \/ /\ point = "run" /\ p \notin Transfers
              /\ active' = [active EXCEPT ![ref[p]] = @ \cup {p}]
    PROVE  LaneInv' /\ pc' \in [Procs -> {"idle", "queue", "asleep", "tx", "admitted",
                           "refused", "run", "unref", "locked", "committed", "unguard",
                           "join", "asleepJoin", "joined", "prepared"}]
           /\ guardHeld' \subseteq Lanes
           /\ active' \in [Lanes -> SUBSET (Ops \cup Cleaners)]
<1>1. /\ ref[p] = laneAt /\ laneAt \in Lanes /\ laneAt # None
  BY HolderFacts DEF Guarding
<1>2. /\ pc' = [q \in Procs |-> IF q = p THEN point ELSE Woken(q)]
      /\ \A q \in Procs : pc'[q] \notin {"asleep", "asleepJoin"}
  BY SignalFacts DEF DropGuard, Guarding, Outside
<1>3. /\ laneAt' = laneAt /\ refs' = refs /\ ref' = ref /\ guardHeld' = guardHeld \ {laneAt}
  BY <1>1 DEF DropGuard
<1>4. pc' \in [Procs -> {"idle", "queue", "asleep", "tx", "admitted",
                         "refused", "run", "unref", "locked", "committed", "unguard",
                         "join", "asleepJoin", "joined", "prepared"}]
  BY <1>2 DEF IInv, TypeOK, Woken
<1>5. active' \in [Lanes -> SUBSET (Ops \cup Cleaners)]
  <2>1. active \in [Lanes -> SUBSET (Ops \cup Cleaners)]
    BY DEF IInv, TypeOK
  <2> QED
    BY <2>1, <1>1 DEF Procs
<1>6. Referring'
  BY <1>2, <1>3 DEF IInv, LaneInv, Referring, Woken, Guarding
<1>7. Counted'
  BY <1>3 DEF IInv, LaneInv, Counted, Holders
<1>8. Running'
  <2>1. ASSUME NEW q \in Procs, pc'[q] = "run" PROVE q \in active'[ref'[q]]
    <3>1. CASE q = p
      BY <3>1, <2>1, <1>1, <1>2, <1>3, <1>5
    <3>2. CASE q # p
      <4>1. pc[q] = "run"
        BY <3>2, <2>1, <1>2 DEF Woken
      <4>2. q \in active[ref[q]] /\ ref[q] = laneAt
        BY <4>1, HolderFacts DEF IInv, LaneInv, Running
      <4> QED
        BY <4>2, <1>1, <1>3 DEF IInv, TypeOK
    <3> QED
      BY <3>1, <3>2
  <2>2. ASSUME NEW q \in active'[laneAt'] PROVE pc'[q] = "run"
    <3>1. (q = p /\ point = "run") \/ q \in active[laneAt]
      BY <2>2, <1>1, <1>3 DEF IInv, TypeOK
    <3>2. CASE q \in active[laneAt]
      <4>1. q \in Procs /\ pc[q] = "run"
        BY <3>2, <1>1, ProcFacts DEF IInv, LaneInv, Running, TypeOK
      <4>2. q # p
        BY <4>1 DEF Guarding
      <4> QED
        BY <4>1, <4>2, <1>2 DEF Woken
    <3> QED
      BY <3>1, <3>2, <1>2
  <2> QED
    BY <2>1, <2>2 DEF Running
<1>9. Kinds'
  BY <1>2, ProcFacts DEF IInv, LaneInv, Kinds, Woken
<1>10. GuardHasOneHolder'
  <2>1. \A q \in Procs : ~Guarding(q)'
    BY <1>2 DEF IInv, LaneInv, GuardHasOneHolder, Guarding, Woken
  <2> QED
    BY <2>1, <1>3 DEF GuardHasOneHolder
<1>11. NoLostWakeup'
  BY <1>2 DEF NoLostWakeup
<1>12. LaneIsReclaimed'
  BY <1>1, <1>3 DEF LaneIsReclaimed
<1> QED
  BY <1>3, <1>4, <1>5, <1>6, <1>7, <1>8, <1>9, <1>10, <1>11, <1>12 DEF IInv, LaneInv, TypeOK

\* The guard is taken.
LEMMA TakeKeeps ==
    ASSUME IInv, NEW p \in Procs, Take(p)
    PROVE  IInv'
<1> DEFINE point == IF p \in Transfers THEN "locked" ELSE "tx"
<1>1. /\ pc[p] = "queue" /\ pc' = [pc EXCEPT ![p] = point]
      /\ pc'[p] = point
      /\ \A q \in Procs : q # p => pc'[q] = pc[q]
      /\ laneAt' = laneAt /\ refs' = refs /\ guardHeld' = guardHeld \cup {ref[p]}
      /\ active' = active /\ ref' = ref /\ want' = want /\ cancelled' = cancelled
      /\ access' = access /\ completed' = completed /\ unseen' = unseen
  BY DEF Take, Goto, deviceVars, IInv, TypeOK
<1>2. ref[p] = laneAt /\ laneAt \in Lanes /\ laneAt # None /\ laneAt \notin guardHeld
  BY <1>1, HolderFacts DEF Take
<1>3. \A q \in Procs : ~Guarding(q)
  <2>1. ASSUME NEW q \in Procs, Guarding(q) PROVE FALSE
    <3>1. ref[q] \in guardHeld
      BY <2>1 DEF IInv, LaneInv, GuardHasOneHolder
    <3>2. ref[q] = laneAt
      BY <2>1, HolderFacts DEF Guarding
    <3> QED
      BY <3>1, <3>2, <1>2
  <2> QED
    BY <2>1
<1>4. TypeOK'
  BY <1>1, <1>2 DEF IInv, TypeOK
<1>5. Referring'
  BY <1>1 DEF IInv, LaneInv, Referring
<1>6. Counted'
  BY <1>1 DEF IInv, LaneInv, Counted, Holders
<1>7. Running'
  <2>1. ASSUME NEW q \in Procs, pc'[q] = "run" PROVE q \in active'[ref'[q]]
    BY <2>1, <1>1 DEF IInv, LaneInv, Running
  <2>2. ASSUME NEW q \in active'[laneAt'] PROVE pc'[q] = "run"
    <3>1. pc[q] = "run" /\ q \in Procs
      BY <2>2, <1>1, <1>2, ProcFacts DEF IInv, LaneInv, Running, TypeOK
    <3> QED
      BY <3>1, <1>1
  <2> QED
    BY <2>1, <2>2 DEF Running
<1>8. Kinds'
  BY <1>1, ProcFacts DEF IInv, LaneInv, Kinds, Procs
<1>9. GuardHasOneHolder'
  <2>1. \A q \in Procs : Guarding(q)' <=> q = p
    BY <1>1, <1>3 DEF Guarding
  <2> QED
    BY <2>1, <1>1 DEF GuardHasOneHolder
<1>10. NoLostWakeup'
  <2>1. ASSUME NEW q \in Procs, pc'[q] = "asleep" PROVE ref'[q] \in guardHeld'
    BY <2>1, <1>1 DEF IInv, LaneInv, NoLostWakeup
  <2>2. ASSUME NEW q \in Procs, pc'[q] = "asleepJoin" PROVE OlderActive(q)' # {}
    BY <2>2, <1>1 DEF IInv, LaneInv, NoLostWakeup, OlderActive
  <2> QED
    BY <2>1, <2>2 DEF NoLostWakeup
<1>11. LaneIsReclaimed'
  BY <1>1 DEF IInv, LaneInv, LaneIsReclaimed
<1> QED
  BY <1>4, <1>5, <1>6, <1>7, <1>8, <1>9, <1>10, <1>11 DEF IInv, LaneInv

\* A lease goes.
LEMMA ReleaseLeaseKeeps ==
    ASSUME IInv, NEW o \in Ops \cup Cleaners, ReleaseLease(o)
    PROVE  IInv'
<1>1. o \in Procs /\ o \notin Transfers /\ pc[o] = "run"
  BY ProcFacts DEF ReleaseLease
<1>2. ref[o] = laneAt /\ laneAt \in Lanes /\ laneAt # None
  BY <1>1, HolderFacts
<1>3. /\ laneAt' = laneAt /\ refs' = refs /\ guardHeld' = guardHeld /\ ref' = ref
      /\ active' = [active EXCEPT ![laneAt] = @ \ {o}] /\ want' = want
      /\ cancelled' = cancelled /\ access' = access /\ completed' = completed
      /\ unseen' = unseen
  BY <1>2 DEF ReleaseLease, deviceVars
<1>4. /\ pc' = [q \in Procs |-> IF q = o THEN "unref" ELSE Woken(q)]
      /\ \A q \in Procs : pc'[q] \notin {"asleep", "asleepJoin"}
  BY <1>1, SignalFacts DEF ReleaseLease, Outside
<1>5. TypeOK'
  <2>1. pc' \in [Procs -> {"idle", "queue", "asleep", "tx", "admitted",
                           "refused", "run", "unref", "locked", "committed", "unguard",
                           "join", "asleepJoin", "joined", "prepared"}]
    BY <1>4 DEF IInv, TypeOK, Woken
  <2>2. active' \in [Lanes -> SUBSET (Ops \cup Cleaners)]
    BY <1>3 DEF IInv, TypeOK
  <2> QED
    BY <2>1, <2>2, <1>3 DEF IInv, TypeOK
<1>6. Referring'
  BY <1>1, <1>3, <1>4 DEF IInv, LaneInv, Referring, Woken
<1>7. Counted'
  BY <1>3 DEF IInv, LaneInv, Counted, Holders
<1>8. Running'
  <2>1. ASSUME NEW q \in Procs, pc'[q] = "run" PROVE q \in active'[ref'[q]]
    <3>1. q # o /\ pc[q] = "run"
      BY <2>1, <1>4 DEF Woken
    <3>2. q \in active[ref[q]] /\ ref[q] = laneAt
      BY <3>1, HolderFacts DEF IInv, LaneInv, Running
    <3> QED
      BY <3>1, <3>2, <1>2, <1>3 DEF IInv, TypeOK
  <2>2. ASSUME NEW q \in active'[laneAt'] PROVE pc'[q] = "run"
    <3>1. q # o /\ q \in active[laneAt]
      BY <2>2, <1>2, <1>3 DEF IInv, TypeOK
    <3>2. q \in Procs /\ pc[q] = "run"
      BY <3>1, <1>2, ProcFacts DEF IInv, LaneInv, Running, TypeOK
    <3> QED
      BY <3>1, <3>2, <1>4 DEF Woken
  <2> QED
    BY <2>1, <2>2 DEF Running
<1>9. Kinds'
  BY <1>1, <1>4, ProcFacts DEF IInv, LaneInv, Kinds, Woken
<1>10. GuardHasOneHolder'
  <2>1. \A q \in Procs : Guarding(q)' <=> Guarding(q)
    BY <1>1, <1>4 DEF Guarding, Woken
  <2> QED
    BY <2>1, <1>3 DEF IInv, LaneInv, GuardHasOneHolder
<1>11. NoLostWakeup'
  BY <1>4 DEF NoLostWakeup
<1>12. LaneIsReclaimed'
  BY <1>2, <1>3, <1>1 DEF LaneIsReclaimed
<1> QED
  BY <1>5, <1>6, <1>7, <1>8, <1>9, <1>10, <1>11, <1>12 DEF IInv, LaneInv

-----------------------------------------------------------------------------
(* Every step keeps the invariant.                                         *)

\* Steps of any goroutine.
LEMMA StepsKeep ==
    ASSUME IInv, NEW p \in Procs, Steps(p) \/ GiveUp(p)
    PROVE  IInv'
<1>1. CASE Sleep(p)
  <2>1. LaneInv' /\ pc' = [pc EXCEPT ![p] = "asleep"]
    BY <1>1, GotoKeeps
       DEF Sleep, laneVars, Outside, GuardPoints, OpPoints, TransferPoints, CleanerPoints
  <2> QED
    BY <2>1, <1>1 DEF Sleep, IInv, TypeOK, laneVars, deviceVars
<1>2. CASE Take(p)
  BY <1>2, TakeKeeps
<1>3. CASE ReleaseRef(p)
  BY <1>3, ReleaseRefKeeps
<1>4. CASE GiveUp(p)
  <2>1. LaneInv' /\ pc' = [pc EXCEPT ![p] = "unref"]
    BY <1>4, GotoKeeps
       DEF GiveUp, laneVars, Outside, GuardPoints, OpPoints, TransferPoints, CleanerPoints
  <2> QED
    BY <2>1, <1>4 DEF GiveUp, IInv, TypeOK, laneVars, deviceVars
<1> QED
  BY <1>1, <1>2, <1>3, <1>4 DEF Steps

\* Admissions of operations and cleaners.
LEMMA LeaseStepsKeep ==
    ASSUME IInv, NEW o \in Ops \cup Cleaners, LeaseSteps(o) \/ ReleaseLease(o)
    PROVE  IInv'
<1>1. o \in Procs /\ o \notin Transfers
  BY ProcFacts
<1>2. CASE AdmissionTx(o)
  <2>1. LaneInv' /\ pc' = [pc EXCEPT ![o] = "admitted"]
    BY <1>1, <1>2, GotoKeeps
       DEF AdmissionTx, laneVars, Outside, GuardPoints, OpPoints, TransferPoints, CleanerPoints
  <2> QED
    BY <2>1, <1>2 DEF AdmissionTx, IInv, TypeOK, laneVars, deviceVars
<1>3. CASE Refuse(o)
  <2>1. LaneInv' /\ pc' = [pc EXCEPT ![o] = "refused"]
    BY <1>1, <1>3, GotoKeeps
       DEF Refuse, laneVars, Outside, GuardPoints, OpPoints, TransferPoints, CleanerPoints
  <2> QED
    BY <2>1, <1>3 DEF Refuse, IInv, TypeOK, laneVars, deviceVars
<1>4. CASE ReleaseAdmissionGate(o)
  <2>1. Guarding(o) /\ DropGuard(o, "unref")
    BY <1>4 DEF ReleaseAdmissionGate, Guarding
  <2>2. UNCHANGED <<laneAt, refs, ref, want>> /\ active' = active
    BY <1>4 DEF ReleaseAdmissionGate
  <2>3. LaneInv' /\ TypeOK'
    BY <2>1, <2>2, <1>1, <1>4, DropGuardKeeps DEF ReleaseAdmissionGate, IInv, TypeOK, deviceVars
  <2> QED
    BY <2>3 DEF IInv
<1>5. CASE PublishLease(o)
  <2>1. Guarding(o) /\ DropGuard(o, "run")
    BY <1>5 DEF PublishLease, Guarding
  <2>2. UNCHANGED <<laneAt, refs, ref, want>> /\ active' = [active EXCEPT ![ref[o]] = @ \cup {o}]
    BY <1>5 DEF PublishLease
  <2>3. LaneInv' /\ TypeOK'
    BY <2>1, <2>2, <1>1, <1>5, DropGuardKeeps DEF PublishLease, IInv, TypeOK, deviceVars
  <2> QED
    BY <2>3 DEF IInv
<1>6. CASE ReleaseLease(o)
  BY <1>6, ReleaseLeaseKeeps
<1> QED
  BY <1>2, <1>3, <1>4, <1>5, <1>6 DEF LeaseSteps

\* Transfers.
LEMMA TransferStepsKeep ==
    ASSUME IInv, NEW t \in Transfers, TransferNext(t)
    PROVE  IInv'
<1>1. t \in Procs /\ t \notin Ops /\ t \notin Cleaners
  BY ProcFacts
<1>2. CASE TransferCommitted(t)
  <2>1. LaneInv' /\ pc' = [pc EXCEPT ![t] = "committed"]
    <3>1. \A q \in Procs : q # t => want'[q] = want[q]
      BY <1>2 DEF TransferCommitted, IInv, TypeOK
    <3> QED
      BY <3>1, <1>1, <1>2, GotoKeeps
         DEF TransferCommitted, laneVars, Outside, GuardPoints, TransferPoints
  <2>2. access' \in Epochs /\ want' \in [Procs -> 0..MaxEpoch]
    BY <1>1, <1>2, EpochAssumption DEF TransferCommitted, IInv, TypeOK, Epochs
  <2> QED
    BY <2>1, <2>2, <1>2 DEF TransferCommitted, IInv, TypeOK, laneVars
<1>3. CASE TransferUnknown(t)
  <2>1. LaneInv' /\ pc' = [pc EXCEPT ![t] = "unguard"]
    BY <1>1, <1>3, GotoKeeps
       DEF TransferUnknown, laneVars, Outside, GuardPoints, TransferPoints
  <2>2. access' \in Epochs /\ unseen' \subseteq Epochs
    BY <1>3, EpochAssumption DEF TransferUnknown, IInv, TypeOK, Epochs
  <2> QED
    BY <2>1, <2>2, <1>3 DEF TransferUnknown, IInv, TypeOK, laneVars
<1>4. CASE TransferUnchanged(t)
  <2>1. LaneInv' /\ pc' = [pc EXCEPT ![t] = "unguard"]
    BY <1>1, <1>4, GotoKeeps
       DEF TransferUnchanged, laneVars, Outside, GuardPoints, TransferPoints
  <2> QED
    BY <2>1, <1>4 DEF TransferUnchanged, IInv, TypeOK, laneVars, deviceVars
<1>5. CASE Commit(t)
  <2>1. LaneInv' /\ pc' = [pc EXCEPT ![t] = "unguard"]
    BY <1>1, <1>5, GotoKeeps
       DEF Commit, laneVars, Outside, GuardPoints, TransferPoints
  <2>2. cancelled' \subseteq Ops \cup Cleaners
    <3>1. ref[t] \in Lanes
      BY <1>1, <1>5, HolderFacts DEF Commit
    <3> QED
      BY <3>1, <1>5 DEF Commit, IInv, TypeOK
  <2> QED
    BY <2>1, <2>2, <1>5 DEF Commit, IInv, TypeOK, laneVars, deviceVars
<1>6. CASE ReleaseGuard(t)
  <2>1. Guarding(t) /\ DropGuard(t, "unref")
    BY <1>6 DEF ReleaseGuard, Guarding
  <2>2. UNCHANGED <<laneAt, refs, ref, want>> /\ active' = active
    BY <1>6 DEF ReleaseGuard
  <2>3. LaneInv' /\ TypeOK'
    BY <2>1, <2>2, <1>1, <1>6, DropGuardKeeps DEF ReleaseGuard, IInv, TypeOK, deviceVars
  <2> QED
    BY <2>3 DEF IInv
<1>7. ASSUME NEW l \in Lanes, LockTransfer(t, l) PROVE IInv'
  <2>1. LaneInv' /\ laneAt' \in Lanes /\ refs' \in [Lanes -> Nat]
        /\ guardHeld' \subseteq Lanes
        /\ active' \in [Lanes -> SUBSET (Ops \cup Cleaners)]
        /\ pc' = [pc EXCEPT ![t] = "queue"] /\ ref' = [ref EXCEPT ![t] = l]
    BY <1>1, <1>7, AcquireKeeps DEF LockTransfer
  <2> QED
    BY <2>1, <1>7 DEF LockTransfer, IInv, TypeOK, deviceVars
<1> QED
  BY <1>2, <1>3, <1>4, <1>5, <1>6, <1>7 DEF TransferNext, TransferSteps

\* Operations and cleaners enter the barrier; cleaners join older leases.
LEMMA OpNextKeeps ==
    ASSUME IInv, NEW o \in Ops, OpNext(o)
    PROVE  IInv'
<1>1. o \in Procs /\ o \notin Transfers /\ o \notin Cleaners
  BY ProcFacts
<1>2. ASSUME NEW e \in Epochs, NEW l \in Lanes, Begin(o, e, l) PROVE IInv'
  <2>1. want' = [want EXCEPT ![o] = e] /\ \A q \in Procs : q # o => want'[q] = want[q]
    BY <1>2 DEF Begin, IInv, TypeOK
  <2>2. LaneInv' /\ laneAt' \in Lanes /\ refs' \in [Lanes -> Nat]
        /\ guardHeld' \subseteq Lanes
        /\ active' \in [Lanes -> SUBSET (Ops \cup Cleaners)]
        /\ pc' = [pc EXCEPT ![o] = "queue"] /\ ref' = [ref EXCEPT ![o] = l]
    BY <1>1, <1>2, <2>1, AcquireKeeps DEF Begin
  <2>3. want' \in [Procs -> 0..MaxEpoch]
    BY <1>1, <2>1, EpochAssumption DEF IInv, TypeOK, Epochs
  <2> QED
    BY <2>2, <2>3, <1>2 DEF Begin, IInv, TypeOK, deviceVars
<1> QED
  BY <1>2, LeaseStepsKeep DEF OpNext

LEMMA CleanerNextKeeps ==
    ASSUME IInv, NEW c \in Cleaners, CleanerNext(c)
    PROVE  IInv'
<1>1. c \in Procs /\ c \notin Transfers /\ c \notin Ops
  BY ProcFacts
<1>2. ASSUME NEW e \in Epochs, NEW l \in Lanes, WaitBefore(c, e, l) PROVE IInv'
  <2>1. want' = [want EXCEPT ![c] = e] /\ \A q \in Procs : q # c => want'[q] = want[q]
    BY <1>2 DEF WaitBefore, IInv, TypeOK
  <2>2. LaneInv' /\ laneAt' \in Lanes /\ refs' \in [Lanes -> Nat]
        /\ guardHeld' \subseteq Lanes
        /\ active' \in [Lanes -> SUBSET (Ops \cup Cleaners)]
        /\ pc' = [pc EXCEPT ![c] = "join"] /\ ref' = [ref EXCEPT ![c] = l]
    BY <1>1, <1>2, <2>1, AcquireKeeps DEF WaitBefore
  <2>3. want' \in [Procs -> 0..MaxEpoch]
    BY <1>1, <2>1, EpochAssumption DEF IInv, TypeOK, Epochs
  <2> QED
    BY <2>2, <2>3, <1>2 DEF WaitBefore, IInv, TypeOK, deviceVars
<1>3. ASSUME NEW l \in Lanes, BeginRTPCleanup(c, l) PROVE IInv'
  <2>1. LaneInv' /\ laneAt' \in Lanes /\ refs' \in [Lanes -> Nat]
        /\ guardHeld' \subseteq Lanes
        /\ active' \in [Lanes -> SUBSET (Ops \cup Cleaners)]
        /\ pc' = [pc EXCEPT ![c] = "queue"] /\ ref' = [ref EXCEPT ![c] = l]
    BY <1>1, <1>3, AcquireKeeps DEF BeginRTPCleanup
  <2> QED
    BY <2>1, <1>3 DEF BeginRTPCleanup, IInv, TypeOK, deviceVars
<1>4. CASE JoinLook(c)
  <2> DEFINE point == IF OlderActive(c) = {} THEN "joined" ELSE "asleepJoin"
  <2>1. Goto(c, point) /\ pc[c] = "join" /\ UNCHANGED <<laneVars, ref>> /\ want' = want
    BY <1>4 DEF JoinLook
  <2>2. point \in {"joined", "asleepJoin"} /\ (point = "asleepJoin" => OlderActive(c) # {})
    OBVIOUS
  <2> HIDE DEF point
  <2>3. LaneInv' /\ pc' = [pc EXCEPT ![c] = point]
    BY <2>1, <2>2, <1>1, GotoKeeps DEF Outside, GuardPoints, CleanerPoints
  <2> QED
    BY <2>2, <2>3, <1>4 DEF JoinLook, IInv, TypeOK, laneVars, deviceVars
<1>5. CASE Abandon(c)
  <2>1. \A q \in Procs : q # c => want'[q] = want[q]
    BY <1>5 DEF Abandon, IInv, TypeOK
  <2>2. LaneInv' /\ pc' = [pc EXCEPT ![c] = "idle"]
    BY <1>1, <1>5, <2>1, GotoKeeps DEF Abandon, laneVars, Outside, GuardPoints, CleanerPoints
  <2>3. want' \in [Procs -> 0..MaxEpoch]
    BY <1>1, <1>5, EpochAssumption DEF Abandon, IInv, TypeOK
  <2> QED
    BY <2>2, <2>3, <1>5 DEF Abandon, IInv, TypeOK, laneVars, deviceVars
<1> QED
  BY <1>2, <1>3, <1>4, <1>5, LeaseStepsKeep DEF CleanerNext

LEMMA NextIInv == IInv /\ [Next]_vars => IInv'
<1> SUFFICES ASSUME IInv, [Next]_vars PROVE IInv'
  OBVIOUS
<1>1. CASE Complete
  BY <1>1 DEF Complete, IInv, TypeOK, LaneInv, Referring, Counted, Holders, Running, Kinds,
              GuardHasOneHolder, Guarding, NoLostWakeup, OlderActive, LaneIsReclaimed,
              laneVars
<1>2. CASE UNCHANGED vars
  BY <1>2 DEF vars, IInv, TypeOK, LaneInv, Referring, Counted, Holders, Running, Kinds,
              GuardHasOneHolder, Guarding, NoLostWakeup, OlderActive, LaneIsReclaimed
<1> QED
  BY <1>1, <1>2, StepsKeep, OpNextKeeps, TransferStepsKeep, CleanerNextKeeps DEF Next

\* IInv holds in every reachable state.
THEOREM Invariance == Spec => []IInv
BY InitIInv, NextIInv, PTL DEF Spec

-----------------------------------------------------------------------------
(* The properties that the runs check.                                     *)

\* Every variable keeps its type; in particular no reference count goes below
\* zero, whatever waits time out (playauth/device_operation_barrier.go, release).
THEOREM TypeCorrect == Spec => []TypeOK
BY Invariance, PTL DEF IInv

\* All goroutines inside the barrier use the lane of the map, and its count is
\* their number (acquireLane, release).
THEOREM LaneIsShared == Spec => []OneLane
<1>1. IInv => OneLane
  BY LaneAssumption DEF IInv, LaneInv, Referring, Counted, Holders, OneLane
<1> QED
  BY <1>1, Invariance, PTL

\* One admission or one transfer at a time holds the device's guard (beginOnLane,
\* LockTransfer).
THEOREM GuardIsExclusive == Spec => []GuardHasOneHolder
BY Invariance, PTL DEF IInv, LaneInv

\* A goroutine that sleeps on the lane's notify channel still has what it waits
\* for before it: no signal was missed (waitLaneAvailableLocked, WaitBefore).
THEOREM WakeupsAreKept == Spec => []NoLostWakeup
BY Invariance, PTL DEF IInv, LaneInv

\* The lane leaves the map with its last reference (release).
THEOREM LanesAreReclaimed == Spec => []LaneIsReclaimed
BY Invariance, PTL DEF IInv, LaneInv

=============================================================================
