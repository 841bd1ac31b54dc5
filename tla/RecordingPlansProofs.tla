------------------------- MODULE RecordingPlansProofs -------------------------
(***************************************************************************)
(* Proofs about RecordingPlans, for every number of tellers and events, with  *)
(* failures and without.  SeenInv follows the plan's version from the edit to  *)
(* the round that loses its row to it, HeldInv the source lease through the   *)
(* points of a round.  Debt counts the generations of live media that may      *)
(* still come although nothing happens outside, and Paid that every one so    *)
(* far, and every one owed, is paid for by an event: with it goes the bound   *)
(* on generations and versions that TypeOK needs.                            *)
(***************************************************************************)
EXTENDS RecordingPlans, TLAPS

Rounds == {"idle", "claimed", "starting", "stopping", "gap", "write"}
Decided == {"starting", "stopping", "gap", "write"}
Gaps == {"keep", "open", "close"}

\* The types, with no bound on versions and generations.
RowType == [actual : ActualStates, desired : BOOLEAN, version : Nat, gen : Nat,
            due : BOOLEAN, leased : BOOLEAN]
WorkType == [pc : Rounds, actual : ActualStates, version : Nat, gen : Nat,
             next : ActualStates, desired : BOOLEAN, newVersion : Nat, gap : Gaps]
PlanTyped ==
    /\ plan \in [enabled : BOOLEAN, version : Nat]
    /\ assigning \in [on : BOOLEAN, version : Nat, matched : BOOLEAN]
    /\ matched \in BOOLEAN
MediaTyped ==
    /\ live \in Nat /\ lastGen \in Nat \ {0} /\ active \in Nat
    /\ stale \in BOOLEAN /\ strayed \in BOOLEAN

Typed == row \in RowType /\ work \in WorkType /\ PlanTyped /\ MediaTyped

\* Nobody is ahead of the plan; who has looked at its present version saw it enabled.
VersionInv ==
    /\ 1 <= plan.version
    /\ row.version <= plan.version
    /\ work.version <= plan.version
    /\ work.newVersion <= plan.version
    /\ assigning.version <= plan.version
    /\ assigning.on /\ assigning.version = plan.version => plan.enabled

\* A round that still wants to record for a plan that is disabled by now will not
\* find the version it claimed.
RoundLoses ==
    work.pc \in Decided /\ work.desired /\ Scheduled /\ ~plan.enabled /\ ~stale
        => row.version # work.version

SeenInv == Typed /\ VersionInv /\ RoundLoses /\ PlanChangeIsSeen

-----------------------------------------------------------------------------
LEMMA Names ==
    /\ \A s \in {"idle", "outside", "waiting", "recovering", "recording", "stopping"} :
            s \in ActualStates
    /\ \A pc \in {"idle", "claimed", "starting", "stopping", "gap", "write"} : pc \in Rounds
    /\ \A g \in {"keep", "open", "close"} : g \in Gaps
BY DEF ActualStates, Rounds, Gaps

LEMMA NoWorkType == NoWork \in WorkType
BY Names DEF NoWork, WorkType

\* What an edit does to the row.
LEMMA ResetFacts ==
    ASSUME row \in RowType, NEW v \in Nat, NEW d \in BOOLEAN, Reset(v, d)
    PROVE  /\ row' \in RowType /\ row'.due /\ row'.version = v
           /\ row'.actual = row.actual /\ row'.gen = row.gen
BY DEF Reset, RowType

\* What a decision does to the round.
LEMMA ProceedFacts ==
    ASSUME work \in WorkType, PlanVersion \in Nat, NEW pc \in Rounds, NEW desired \in BOOLEAN,
           NEW next \in ActualStates, NEW to \in Gaps, Proceed(pc, desired, next, to)
    PROVE  /\ work' \in WorkType /\ work'.version = work.version /\ work'.gen = work.gen
           /\ work'.pc = pc /\ work'.desired = desired /\ work'.next = next
           /\ work'.newVersion = PlanVersion
BY DEF Proceed, WorkType

\* What it may be.
DecisionMakes(w) ==
    /\ w \in WorkType /\ w.version = work.version /\ w.gen = work.gen
    /\ w.newVersion = PlanVersion
    /\ w.desired => Wanted
    /\ \/ w.pc = "starting" /\ w.next = "recording"
       \/ w.pc = "stopping" /\ w.next = "stopping"
       \/ w.pc = "gap" /\ w.next \in {"idle", "outside"} /\ ~NeedsStop(Actual)
       \/ w.pc = "gap" /\ w.next = "waiting"
       \/ w.pc = "gap" /\ w.next = "recording" /\ Actual = "recording"

LEMMA PlanVersionType == ASSUME Typed PROVE PlanVersion \in Nat /\ PlanVersion <= plan.version
BY DEF Typed, PlanTyped, PlanVersion

LEMMA DecisionFacts == ASSUME Typed, Decision PROVE DecisionMakes(work')
<1>0. work \in WorkType /\ PlanVersion \in Nat
  BY PlanVersionType DEF Typed
<1>1. ASSUME NEW to \in {"keep", "close"}, Proceed("stopping", FALSE, "stopping", to)
      PROVE  DecisionMakes(work')
  BY <1>0, <1>1, Names, ProceedFacts DEF DecisionMakes
<1>2. CASE Proceed("stopping", TRUE, "stopping", "keep") /\ Wanted
  BY <1>0, <1>2, Names, ProceedFacts DEF DecisionMakes
<1>3. ASSUME ~NeedsStop(Actual), NEW next \in {"outside", "idle"},
             Proceed("gap", FALSE, next, "close")
      PROVE  DecisionMakes(work')
  BY <1>0, <1>3, Names, ProceedFacts DEF DecisionMakes
<1>4. CASE Proceed("gap", TRUE, "waiting", "open") /\ Wanted
  BY <1>0, <1>4, Names, ProceedFacts DEF DecisionMakes
<1>5. CASE Actual = "recording" /\ Proceed("gap", TRUE, "recording", "close") /\ Wanted
  BY <1>0, <1>5, Names, ProceedFacts DEF DecisionMakes
<1>6. CASE Proceed("starting", TRUE, "recording", "close") /\ Wanted
  BY <1>0, <1>6, Names, ProceedFacts DEF DecisionMakes
<1> QED BY <1>1, <1>2, <1>3, <1>4, <1>5, <1>6 DEF Decision

\* A call has been made: where the round is, and what it holds.
CallMakes(pcs) ==
    /\ work' \in WorkType /\ work.pc \in Decided /\ work'.pc \in pcs
    /\ work'.version = work.version /\ work'.newVersion = work.newVersion
    /\ work'.desired = work.desired

\* What EnsureLive leaves: live media, and a counter that has counted at most one more.
LEMMA EnsuredType ==
    ASSUME MediaTyped, EnsureLive
    PROVE  /\ live' \in Nat \ {0} /\ lastGen' \in Nat \ {0}
           /\ lastGen' = lastGen \/ lastGen' = lastGen + 1
           /\ live' = Bare => lastGen' = lastGen
           /\ live <= lastGen => live' <= lastGen'
BY DEF MediaTyped, EnsureLive, Bare

LEMMA StartFacts ==
    ASSUME Typed, StartReused \/ StartFresh
    PROVE  /\ CallMakes({"gap"}) /\ MediaTyped'
           /\ work'.next = work.next /\ work'.gen = active' /\ active' # 0
<1>0. work \in WorkType /\ MediaTyped
  BY DEF Typed
<1>1. CASE StartReused
  BY <1>0, <1>1, Names DEF StartReused, CallMakes, WorkType, MediaTyped, Decided, mediaVars, ghosts
<1>2. CASE StartFresh
  <2>1. live' \in Nat \ {0} /\ lastGen' \in Nat \ {0}
    BY <1>0, <1>2, EnsuredType DEF StartFresh
  <2> QED BY <1>0, <1>2, <2>1, Names DEF StartFresh, CallMakes, WorkType, MediaTyped, Decided, ghosts
<1> QED BY <1>1, <1>2

LEMMA StartMissesFacts ==
    ASSUME Typed, StartRefused \/ StartFails
    PROVE  CallMakes({"gap"}) /\ MediaTyped' /\ work'.next = "recovering" /\ UNCHANGED active
<1>0. work \in WorkType /\ MediaTyped
  BY DEF Typed
<1>1. live' \in Nat /\ lastGen' \in Nat \ {0}
  BY <1>0, EnsuredType DEF StartRefused, StartFails, MediaTyped
<1>2. Recovering /\ work.pc = "starting" /\ UNCHANGED <<active, stale, strayed>>
  BY DEF StartRefused, StartFails, ghosts
<1>3. CallMakes({"gap"}) /\ work'.next = "recovering"
  BY <1>0, <1>2, Names DEF Recovering, CallMakes, WorkType, Decided
<1> QED BY <1>0, <1>1, <1>2, <1>3 DEF MediaTyped

LEMMA StopFacts ==
    ASSUME Typed, StopDone \/ StopFails \/ WriteGap
    PROVE  /\ CallMakes({"gap", "write"}) /\ MediaTyped' /\ work'.gen = work.gen
           /\ StopDone => work'.next = "idle" /\ active' = 0
           /\ StopFails \/ WriteGap => work'.next = work.next
<1>0. work \in WorkType /\ MediaTyped
  BY DEF Typed
<1>1. CASE StopDone
  BY <1>0, <1>1, Names DEF StopDone, CallMakes, WorkType, MediaTyped, Decided, ghosts, StopFails, WriteGap
<1>2. CASE StopFails
  BY <1>0, <1>2, Names DEF StopFails, Adopted, CallMakes, WorkType, MediaTyped, Decided, ghosts,
     mediaVars, StopDone, WriteGap
<1>3. CASE WriteGap
  BY <1>0, <1>3, Names DEF WriteGap, CallMakes, WorkType, MediaTyped, Decided, ghosts, mediaVars,
     StopDone, StopFails
<1> QED BY <1>1, <1>2, <1>3

\* The row has been written, or not.
LEMMA WriteFacts ==
    ASSUME Typed, WriteRow
    PROVE  /\ row' \in RowType /\ work' = NoWork /\ work.pc = "write" /\ strayed' \in BOOLEAN
           /\ \/ /\ row.version = work.version /\ strayed' = strayed
                 /\ row'.actual = work.next /\ row'.gen = work.gen
                 /\ row'.desired = work.desired /\ row'.version = work.newVersion
              \/ row' = row /\ strayed'
<1>0. work \in WorkType /\ row \in RowType /\ strayed \in BOOLEAN
  BY DEF Typed, MediaTyped
<1>1. CASE row.version = work.version
  <2>1. /\ row' = [actual |-> work.next, desired |-> work.desired, version |-> work.newVersion,
                   gen |-> work.gen, due |-> FALSE, leased |-> FALSE]
        /\ work.pc = "write" /\ work' = NoWork /\ strayed' = strayed
    BY <1>1 DEF WriteRow
  <2>2. row' \in RowType
    BY <1>0, <2>1 DEF WorkType, RowType
  <2> QED BY <1>0, <1>1, <2>1, <2>2
<1>2. CASE row.version # work.version
  BY <1>0, <1>2 DEF WriteRow
<1> QED BY <1>1, <1>2

LEMMA ClaimFacts ==
    ASSUME Typed, Claim
    PROVE  /\ row' \in RowType /\ work' \in WorkType
           /\ row'.version = row.version /\ row'.desired = row.desired /\ row.due /\ row'.due
           /\ work.pc = "idle" /\ work'.pc = "claimed" /\ work'.version = row.version
           /\ work'.actual = row.actual /\ work'.gen = row.gen /\ work'.newVersion = 0
<1>0. row \in RowType
  BY DEF Typed
<1>1. row' \in RowType /\ row'.version = row.version /\ row'.desired = row.desired /\ row.due /\ row'.due
  BY <1>0 DEF Claim, RowType
<1> QED BY <1>0, <1>1, Names DEF Claim, NoWork, WorkType, RowType

\* What the outside does to the row.
LEMMA NudgeFacts ==
    ASSUME Typed, BecomesDue \/ LeaseExpires \/ \E t \in Tellers : Notice(t)
    PROVE  /\ row' \in RowType /\ row'.version = row.version /\ row'.desired = row.desired
           /\ row'.due = row.due \/ row'.due
           /\ UNCHANGED <<mode, plan, matched, assigning, work, live, lastGen, active, stale>>
           /\ strayed' \in BOOLEAN
           /\ \/ row'.actual = row.actual /\ row'.gen = row.gen /\ strayed' = strayed
              \/ row'.actual = "waiting" /\ (~strayed' => ~strayed /\ active = 0)
<1> USE DEF planVars, rowVars, mediaVars, ghosts
<1>0. row \in RowType /\ strayed \in BOOLEAN
  BY DEF Typed, MediaTyped
<1>1. CASE BecomesDue
  BY <1>0, <1>1 DEF BecomesDue, RowType
<1>2. CASE LeaseExpires
  BY <1>0, <1>2 DEF LeaseExpires, RowType
<1>3. ASSUME NEW t \in Tellers, NoticeOpensGap(t)
      PROVE  row' = row /\ strayed' = strayed
             /\ UNCHANGED <<mode, plan, matched, assigning, work, live, lastGen, active, stale>>
  BY <1>3 DEF NoticeOpensGap
<1>4. ASSUME NEW t \in Tellers, NoticeNudges(t)
      PROVE  row' = [row EXCEPT !.due = TRUE] /\ strayed' = strayed
             /\ UNCHANGED <<mode, plan, matched, assigning, work, live, lastGen, active, stale>>
  BY <1>4 DEF NoticeNudges
<1>5. ASSUME NEW t \in Tellers, NoticeMarksRow(t)
      PROVE  /\ row' = [row EXCEPT !.actual = "waiting", !.due = TRUE]
             /\ strayed' = (strayed \/ active # 0)
             /\ UNCHANGED <<mode, plan, matched, assigning, work, live, lastGen, active, stale>>
  BY <1>5 DEF NoticeMarksRow
<1>6. CASE \E t \in Tellers : NoticeOpensGap(t)
  BY <1>0, <1>3, <1>6
<1>7. CASE \E t \in Tellers : NoticeNudges(t)
  BY <1>0, <1>4, <1>7 DEF RowType
<1>8. CASE \E t \in Tellers : NoticeMarksRow(t)
  BY <1>0, <1>5, <1>8, Names DEF RowType
<1> QED BY <1>1, <1>2, <1>6, <1>7, <1>8 DEF Notice

LEMMA UpdateFacts ==
    ASSUME Typed, UpdatePlan
    PROVE  /\ PlanTyped' /\ row' \in RowType
           /\ plan'.version = plan.version + 1
           /\ UNCHANGED <<mode, assigning, work, live, lastGen, active, stale, strayed>>
           /\ Scheduled => row'.due /\ row'.version = plan.version + 1
           /\ ~Scheduled => row' = row
           /\ row'.actual = row.actual /\ row'.gen = row.gen
<1>1. PlanTyped' /\ plan'.version = plan.version + 1 /\ plan.version + 1 \in Nat
  BY DEF UpdatePlan, Typed, PlanTyped
<1>2. row \in RowType /\ row.desired \in BOOLEAN
  BY DEF Typed, RowType
<1>3. CASE Scheduled
  <2>1. Reset(plan.version + 1, row.desired)
    BY <1>3 DEF UpdatePlan
  <2>2. /\ row' \in RowType /\ row'.due /\ row'.version = plan.version + 1
        /\ row'.actual = row.actual /\ row'.gen = row.gen
    BY <1>1, <1>2, <2>1, ResetFacts
  <2> QED BY <1>1, <1>3, <2>2 DEF UpdatePlan, mediaVars, ghosts
<1>4. CASE ~Scheduled
  BY <1>1, <1>2, <1>4 DEF UpdatePlan, mediaVars, ghosts
<1> QED BY <1>3, <1>4

LEMMA SetModeFacts ==
    ASSUME Typed, NEW m \in {"off", "continuous", "scheduled"}, SetMode(m)
    PROVE  /\ row' \in RowType /\ row'.due /\ row'.actual = row.actual /\ row'.gen = row.gen
           /\ row'.version = IF m = "scheduled" THEN plan.version ELSE 0
           /\ mode' = m /\ (m = "scheduled" => plan.enabled)
           /\ UNCHANGED <<plan, matched, assigning, work, live, lastGen, active, stale, strayed>>
<1>1. /\ row \in RowType
      /\ (IF m = "scheduled" THEN plan.version ELSE 0) \in Nat
      /\ (m = "continuous" \/ (m = "scheduled" /\ matched)) \in BOOLEAN
  BY DEF Typed, PlanTyped
<1>2. /\ row' \in RowType /\ row'.due /\ row'.actual = row.actual /\ row'.gen = row.gen
      /\ row'.version = IF m = "scheduled" THEN plan.version ELSE 0
  BY <1>1, ResetFacts DEF SetMode
<1> QED BY <1>2 DEF SetMode, mediaVars, ghosts

LEMMA BindsFacts ==
    ASSUME Typed, AssignBinds
    PROVE  /\ row' \in RowType /\ row'.actual = row.actual /\ row'.gen = row.gen
           /\ assigning.on /\ assigning' = NoAssign
           /\ UNCHANGED <<plan, matched, work, live, lastGen, active, strayed>>
           /\ Scheduled => UNCHANGED <<mode, row, stale>>
           /\ ~Scheduled => /\ row'.due /\ row'.version = assigning.version
                            /\ stale' = (assigning.version # plan.version)
<1>0. row \in RowType /\ assigning.version \in Nat /\ assigning.matched \in BOOLEAN
  BY DEF Typed, PlanTyped
<1>1. CASE Scheduled
  BY <1>0, <1>1 DEF AssignBinds, mediaVars
<1>2. CASE ~Scheduled
  <2>1. Reset(assigning.version, assigning.matched)
    BY <1>2 DEF AssignBinds
  <2>2. /\ row' \in RowType /\ row'.due /\ row'.version = assigning.version
        /\ row'.actual = row.actual /\ row'.gen = row.gen
    BY <1>0, <2>1, ResetFacts
  <2> QED BY <1>2, <2>2 DEF AssignBinds, mediaVars
<1> QED BY <1>1, <1>2

-----------------------------------------------------------------------------
(* Edits are seen.                                                         *)

\* Steps of the world: nothing of the plan, and of the row only that it becomes due.
Outside ==
    /\ UNCHANGED <<mode, plan, assigning, work, stale>>
    /\ row'.version = row.version /\ row'.desired = row.desired
    /\ row'.due = row.due \/ row'.due

LEMMA OutsideKeeps == ASSUME SeenInv, Typed', Outside PROVE SeenInv'
BY DEF SeenInv, VersionInv, RoundLoses, PlanChangeIsSeen, Outside, Scheduled

\* A step of a round that leaves the row alone.
Inside ==
    /\ UNCHANGED <<mode, plan, assigning, row, stale>>
    /\ work'.version = work.version /\ work'.newVersion = work.newVersion
    /\ work'.desired = work.desired /\ work.pc \in Decided

LEMMA InsideKeeps == ASSUME SeenInv, Typed', Inside PROVE SeenInv'
BY DEF SeenInv, VersionInv, RoundLoses, PlanChangeIsSeen, Inside, Scheduled

LEMMA TypedStep == ASSUME Typed, Next PROVE Typed'
<1> USE DEF planVars, rowVars, mediaVars, ghosts
<1>0. row \in RowType /\ work \in WorkType /\ PlanTyped /\ MediaTyped
  BY DEF Typed
<1>1. CASE Claim
  BY <1>0, <1>1, ClaimFacts DEF Claim, Typed, PlanTyped, MediaTyped
<1>2. CASE Decide
  <2>1. DecisionMakes(work') /\ UNCHANGED <<row, mode, plan, matched, assigning, live, lastGen, active, stale>>
        /\ strayed' \in BOOLEAN
    BY <1>2, DecisionFacts DEF Decide
  <2> QED BY <1>0, <2>1 DEF DecisionMakes, Typed, PlanTyped, MediaTyped
<1>3. CASE StartReused \/ StartFresh \/ StartRefused \/ StartFails
  <2>1. UNCHANGED <<row, plan, matched, assigning>>
    BY <1>3 DEF StartReused, StartFresh, StartRefused, StartFails
  <2> QED BY <1>0, <1>3, <2>1, StartFacts, StartMissesFacts DEF CallMakes, Typed, PlanTyped
<1>4. CASE StopDone \/ StopFails \/ WriteGap
  <2>1. UNCHANGED <<row, plan, matched, assigning>>
    BY <1>4 DEF StopDone, StopFails, WriteGap
  <2> QED BY <1>0, <1>4, <2>1, StopFacts DEF CallMakes, Typed, PlanTyped
<1>5. CASE WriteRow
  <2>1. UNCHANGED <<plan, matched, assigning, live, lastGen, active, stale>>
    BY <1>5 DEF WriteRow
  <2> QED BY <1>0, <1>5, <2>1, WriteFacts, NoWorkType DEF Typed, PlanTyped, MediaTyped
<1>6. CASE Abort
  BY <1>0, <1>6, NoWorkType DEF Abort, Typed, PlanTyped, MediaTyped
<1>7. CASE BecomesDue \/ LeaseExpires \/ \E t \in Tellers : Notice(t)
  BY <1>0, <1>7, NudgeFacts DEF Typed, PlanTyped, MediaTyped
<1>8. CASE UpdatePlan
  BY <1>0, <1>8, UpdateFacts DEF Typed, MediaTyped
<1>9. ASSUME NEW m \in {"off", "continuous", "scheduled"}, SetMode(m) PROVE Typed'
  BY <1>0, <1>9, SetModeFacts DEF Typed, PlanTyped, MediaTyped
<1>10. CASE AssignLooks
  BY <1>0, <1>10 DEF AssignLooks, Typed, PlanTyped, MediaTyped
<1>11. CASE AssignBinds
  <2>1. stale' \in BOOLEAN
    BY <1>0, <1>11, BindsFacts DEF MediaTyped
  <2>2. PlanTyped'
    <3>1. UNCHANGED <<plan, matched>> /\ assigning' = [on |-> FALSE, version |-> 0, matched |-> FALSE]
      BY <1>11, BindsFacts DEF NoAssign
    <3> QED BY <1>0, <3>1 DEF PlanTyped
  <2> QED BY <1>0, <1>11, <2>1, <2>2, BindsFacts DEF Typed, MediaTyped
<1>12. CASE ScheduleTurns \/ DeviceChanges
  BY <1>0, <1>12 DEF ScheduleTurns, DeviceChanges, Typed, PlanTyped, MediaTyped
<1>13. CASE MediaLost \/ ViewerComes \/ ViewerGoes \/ NoneReader
  <2>1. live' \in Nat /\ lastGen' \in Nat \ {0}
    BY <1>0, <1>13, EnsuredType DEF MediaLost, ViewerComes, ViewerGoes, NoneReader, MediaTyped
  <2>2. UNCHANGED <<row, work, plan, matched, assigning, active, stale, strayed>>
    BY <1>13 DEF MediaLost, ViewerComes, ViewerGoes, NoneReader
  <2> QED BY <1>0, <2>1, <2>2 DEF Typed, PlanTyped, MediaTyped
<1>14. CASE Crash
  <2>1. live' \in Nat /\ lastGen' \in Nat \ {0} /\ active' = 0
    BY <1>0, <1>14 DEF Crash, Bare, MediaTyped
  <2>2. work' = NoWork /\ assigning' = NoAssign /\ strayed' = TRUE /\ UNCHANGED <<row, plan, matched, stale>>
    BY <1>14 DEF Crash
  <2> QED BY <1>0, <2>1, <2>2, NoWorkType DEF NoAssign, Typed, PlanTyped, MediaTyped
<1> QED
  BY <1>1, <1>2, <1>3, <1>4, <1>5, <1>6, <1>7, <1>8, <1>9, <1>10, <1>11, <1>12, <1>13, <1>14
  DEF Next, Round

LEMMA Numbers ==
    ASSUME Typed
    PROVE  /\ plan.version \in Nat /\ row.version \in Nat /\ work.version \in Nat
           /\ work.newVersion \in Nat /\ assigning.version \in Nat
BY DEF Typed, RowType, WorkType, PlanTyped

LEMMA SeenStep == ASSUME SeenInv, [Next]_vars PROVE SeenInv'
<1>1. CASE UNCHANGED vars
  BY <1>1 DEF vars, SeenInv, Typed, PlanTyped, MediaTyped, VersionInv, RoundLoses, PlanChangeIsSeen, Scheduled
<1>2. CASE Next
  <2> USE DEF planVars, ghosts, rowVars, mediaVars
  <2>0. /\ Typed /\ Typed' /\ VersionInv /\ RoundLoses /\ PlanChangeIsSeen
        /\ plan.version \in Nat /\ row.version \in Nat /\ work.version \in Nat
        /\ work.newVersion \in Nat /\ assigning.version \in Nat
    BY <1>2, TypedStep, Numbers DEF SeenInv
  <2>1. CASE Claim
    <3>1. UNCHANGED <<mode, plan, assigning>>
      BY <2>1 DEF Claim
    <3> QED BY <2>0, <2>1, <3>1, ClaimFacts DEF SeenInv, VersionInv, RoundLoses, PlanChangeIsSeen,
            Scheduled, Decided
  <2>2. CASE Decide
    <3>1. /\ work'.version = work.version /\ work'.newVersion = PlanVersion
          /\ work'.desired => Wanted
          /\ UNCHANGED <<mode, plan, assigning, row, stale>>
      BY <2>0, <2>2, DecisionFacts DEF Decide, DecisionMakes
    <3>2. PlanVersion <= plan.version
      BY <2>0, PlanVersionType
    <3>3. VersionInv'
      BY <2>0, <3>1, <3>2 DEF VersionInv
    <3>4. work'.desired /\ Scheduled => plan.enabled
      BY <3>1 DEF Wanted, Scheduled
    <3> QED BY <2>0, <3>1, <3>3, <3>4 DEF SeenInv, RoundLoses, PlanChangeIsSeen, Scheduled
  <2>3. CASE StartReused \/ StartFresh \/ StartRefused \/ StartFails \/ StopDone \/ StopFails \/ WriteGap
    <3>1. UNCHANGED <<mode, plan, assigning, row, stale>>
      BY <2>3 DEF StartReused, StartFresh, StartRefused, StartFails, StopDone, StopFails, WriteGap
    <3>2. Inside
      BY <2>0, <2>3, <3>1, StartFacts, StartMissesFacts, StopFacts DEF CallMakes, Inside
    <3> QED BY <2>0, <3>2, InsideKeeps DEF SeenInv
  <2>4. CASE WriteRow
    <3>1. UNCHANGED <<mode, plan, assigning, stale>> /\ work' = NoWork /\ work.pc = "write"
      BY <2>4 DEF WriteRow
    <3>2. RoundLoses'
      BY <3>1 DEF RoundLoses, NoWork, Decided
    <3>3. VersionInv'
      BY <2>0, <2>4, <3>1, WriteFacts DEF VersionInv, NoWork
    <3>4. PlanChangeIsSeen'
      BY <2>0, <2>4, <3>1, WriteFacts DEF RoundLoses, PlanChangeIsSeen, Scheduled, Decided
    <3> QED BY <2>0, <3>2, <3>3, <3>4 DEF SeenInv
  <2>5. CASE Abort
    <3>1. UNCHANGED <<mode, plan, assigning, row, stale>> /\ work' = NoWork
      BY <2>5 DEF Abort
    <3> QED BY <2>0, <3>1 DEF NoWork, SeenInv, VersionInv, RoundLoses, PlanChangeIsSeen, Scheduled, Decided
  <2>6. CASE BecomesDue \/ LeaseExpires \/ \E t \in Tellers : Notice(t)
    <3>1. Outside
      BY <2>0, <2>6, NudgeFacts DEF Outside
    <3> QED BY <2>0, <3>1, OutsideKeeps DEF SeenInv
  <2>7. CASE UpdatePlan
    <3>1. CASE Scheduled
      BY <2>0, <2>7, <3>1, UpdateFacts DEF SeenInv, VersionInv, RoundLoses, PlanChangeIsSeen, Scheduled
    <3>2. CASE ~Scheduled
      BY <2>0, <2>7, <3>2, UpdateFacts DEF SeenInv, VersionInv, RoundLoses, PlanChangeIsSeen, Scheduled
    <3> QED BY <3>1, <3>2
  <2>8. CASE ScheduleTurns \/ DeviceChanges \/ MediaLost \/ ViewerComes \/ ViewerGoes \/ NoneReader
    <3>1. Outside
      BY <2>8 DEF ScheduleTurns, DeviceChanges, MediaLost, ViewerComes, ViewerGoes, NoneReader,
         Outside
    <3> QED BY <2>0, <3>1, OutsideKeeps DEF SeenInv
  <2>9. ASSUME NEW m \in {"off", "continuous", "scheduled"}, SetMode(m) PROVE SeenInv'
    BY <2>0, <2>9, SetModeFacts DEF SeenInv, VersionInv, RoundLoses, PlanChangeIsSeen, Scheduled
  <2>10. CASE AssignLooks
    <3>1. /\ UNCHANGED <<mode, plan, row, work, stale>> /\ plan.enabled
          /\ assigning'.version = plan.version
      BY <2>10 DEF AssignLooks
    <3> QED BY <2>0, <3>1 DEF SeenInv, VersionInv, RoundLoses, PlanChangeIsSeen, Scheduled
  <2>11. CASE AssignBinds
    <3>1. /\ assigning.on /\ ~assigning'.on /\ assigning'.version = 0 /\ UNCHANGED <<plan, work>>
      BY <2>0, <2>11, BindsFacts DEF NoAssign
    <3>2. CASE Scheduled
      BY <2>0, <2>11, <3>1, <3>2, BindsFacts DEF SeenInv, VersionInv, RoundLoses, PlanChangeIsSeen, Scheduled
    <3>3. CASE ~Scheduled
      <4>1. row'.due /\ row'.version = assigning.version
            /\ (~stale' => assigning.version = plan.version)
        BY <2>0, <2>11, <3>3, BindsFacts
      <4>2. ~stale' => plan.enabled
        BY <2>0, <3>1, <4>1 DEF VersionInv
      <4> QED BY <2>0, <3>1, <4>1, <4>2 DEF SeenInv, VersionInv, RoundLoses, PlanChangeIsSeen
    <3> QED BY <3>2, <3>3
  <2>12. CASE Crash
    <3>1. UNCHANGED <<mode, plan, row, stale>> /\ work' = NoWork /\ assigning' = NoAssign
      BY <2>12 DEF Crash
    <3> QED BY <2>0, <3>1 DEF NoWork, NoAssign, SeenInv, VersionInv, RoundLoses, PlanChangeIsSeen,
       Scheduled, Decided
  <2> QED
    BY <1>2, <2>1, <2>2, <2>3, <2>4, <2>5, <2>6, <2>7, <2>8, <2>9, <2>10, <2>11, <2>12
    DEF Next, Round
<1> QED BY <1>1, <1>2

LEMMA SeenInit == Init => SeenInv
<1> SUFFICES ASSUME Init PROVE SeenInv
  OBVIOUS
<1>1. PlanVersion \in 0..1 /\ Wanted \in BOOLEAN
  BY DEF Init, PlanVersion, Wanted
<1>2. row \in RowType /\ work \in WorkType
  BY <1>1, Names, NoWorkType DEF Init, RowType
<1>3. PlanTyped /\ MediaTyped
  <2>1. live = 0 /\ lastGen = 1 /\ active = 0 /\ stale = FALSE /\ strayed = FALSE
    BY DEF Init, Bare
  <2>2. PlanTyped
    BY DEF Init, PlanTyped, NoAssign
  <2>3. live \in Nat /\ lastGen \in Nat \ {0} /\ active \in Nat
    BY <2>1
  <2>4. stale \in BOOLEAN /\ strayed \in BOOLEAN
    BY <2>1
  <2> QED BY <2>2, <2>3, <2>4 DEF MediaTyped
<1>4. VersionInv
  BY <1>1 DEF Init, VersionInv, NoWork, NoAssign
<1> QED BY <1>2, <1>3, <1>4 DEF Init, SeenInv, Typed, RoundLoses, PlanChangeIsSeen, NoWork, Decided

LEMMA Invariance == Spec => []SeenInv
BY SeenInit, SeenStep, PTL DEF Spec

\* A plan that has been disabled is never overwritten by a round that had seen it enabled
\* (repository.go UpdateStateCAS, engine.go:366), except as Assign breaks it.
THEOREM EditsAreSeen == Spec => []PlanChangeIsSeen
<1>1. SeenInv => PlanChangeIsSeen
  BY DEF SeenInv
<1> QED BY <1>1, Invariance, PTL

-----------------------------------------------------------------------------
(* The source lease.                                                       *)

\* What a state and a generation say about the orchestrator's lease.
Accounts(actual, gen) ==
    /\ actual = "recording" => active = gen /\ active # 0
    /\ actual \in {"idle", "outside", "waiting"} => active = 0

\* At every point of a round the lease is where the row, or the round, has it.
HeldInv ==
    ~strayed =>
        /\ work.pc = "idle" => Accounts(row.actual, row.gen)
        /\ work.pc = "claimed" => Accounts(work.actual, work.gen)
        /\ work.pc = "starting" => work.next = "recording"
        /\ work.pc = "stopping" => work.next = "stopping"
        /\ work.pc \in {"gap", "write"} => Accounts(work.next, work.gen)

LEMMA HeldStep == ASSUME Typed, HeldInv, [Next]_vars PROVE HeldInv'
<1> USE DEF planVars, ghosts, rowVars, mediaVars
<1>1. CASE UNCHANGED vars
  BY <1>1 DEF vars, HeldInv, Accounts
<1>2. CASE Claim
  <2>1. UNCHANGED <<active, strayed>>
    BY <1>2 DEF Claim
  <2> QED BY <1>2, <2>1, ClaimFacts DEF HeldInv, Accounts
<1>3. CASE Decide
  <2> SUFFICES ASSUME ~strayed' PROVE HeldInv'
    BY DEF HeldInv
  <2>1. /\ DecisionMakes(work') /\ work.pc = "claimed" /\ UNCHANGED active
        /\ ~strayed /\ (MediaGone \/ work'.next = "waiting" => active = 0)
    BY <1>3, DecisionFacts DEF Decide, Typed, MediaTyped
  <2>2. Accounts(work.actual, work.gen)
    BY <2>1 DEF HeldInv
  <2>3. ~NeedsStop(Actual) => active = 0 \/ work.actual = "recovering"
    <3>1. CASE MediaGone
      BY <2>1, <3>1
    <3>2. CASE ~MediaGone
      BY <2>2, <3>2 DEF Actual, NeedsStop, Accounts, Typed, WorkType, ActualStates
    <3> QED BY <3>1, <3>2
  <2>4. ~NeedsStop(Actual) => active = 0
    BY <2>3 DEF Actual, NeedsStop, MediaGone
  <2>5. Actual = "recording" => work.actual = "recording"
    BY DEF Actual
  <2>6. work'.pc = "gap" => Accounts(work.next, work.gen)'
    BY <2>1, <2>2, <2>4, <2>5 DEF DecisionMakes, Accounts
  <2> QED BY <2>1, <2>6 DEF DecisionMakes, HeldInv
<1>4. CASE StartReused \/ StartFresh \/ StartRefused \/ StartFails
  <2>1. work.pc = "starting" /\ UNCHANGED strayed
    BY <1>4 DEF StartReused, StartFresh, StartRefused, StartFails
  <2> QED BY <1>4, <2>1, StartFacts, StartMissesFacts DEF CallMakes, HeldInv, Accounts
<1>5. CASE StopDone
  <2>1. work.pc = "stopping" /\ UNCHANGED strayed
    BY <1>5 DEF StopDone
  <2> QED BY <1>5, <2>1, StopFacts DEF CallMakes, HeldInv, Accounts
<1>6. CASE StopFails
  <2>1. work.pc = "stopping" /\ UNCHANGED strayed
    BY <1>6 DEF StopFails
  <2> QED BY <1>6, <2>1, StopFacts DEF CallMakes, HeldInv, Accounts
<1>7. CASE WriteGap
  <2>1. work.pc = "gap" /\ UNCHANGED <<active, strayed>>
    BY <1>7 DEF WriteGap
  <2> QED BY <1>7, <2>1, StopFacts DEF CallMakes, HeldInv, Accounts
<1>8. CASE WriteRow
  <2>1. UNCHANGED active /\ work'.pc = "idle"
    BY <1>8 DEF WriteRow, NoWork
  <2> QED BY <1>8, <2>1, WriteFacts DEF HeldInv, Accounts
<1>9. CASE Abort \/ Crash
  BY <1>9 DEF Abort, Crash, HeldInv
<1>10. CASE UpdatePlan \/ AssignBinds \/ \E m \in {"off", "continuous", "scheduled"} : SetMode(m)
  <2>1. row'.actual = row.actual /\ row'.gen = row.gen /\ UNCHANGED <<work, active, strayed>>
    BY <1>10, UpdateFacts, BindsFacts, SetModeFacts
  <2> QED BY <2>1 DEF HeldInv, Accounts
<1>11. CASE BecomesDue \/ LeaseExpires \/ \E t \in Tellers : Notice(t)
  BY <1>11, NudgeFacts DEF HeldInv, Accounts
<1>12. CASE ScheduleTurns \/ AssignLooks \/ DeviceChanges \/ MediaLost \/ ViewerComes \/ ViewerGoes
                \/ NoneReader
  <2>1. UNCHANGED <<row, work, active, strayed>>
    BY <1>12 DEF ScheduleTurns, AssignLooks, DeviceChanges, MediaLost, ViewerComes, ViewerGoes,
       NoneReader
  <2> QED BY <2>1 DEF HeldInv, Accounts
<1> QED
  BY <1>1, <1>2, <1>3, <1>4, <1>5, <1>6, <1>7, <1>8, <1>9, <1>10, <1>11, <1>12 DEF Next, Round

\* Between rounds the row and the orchestrator agree on the source lease, unless one of the
\* named ways to lose sight of each other was taken (orchestrator.go:80, state_machine.go:64).
THEOREM LeaseIsAccounted == Spec => []SourceAccounted
<1>1. Init => HeldInv
  BY DEF Init, HeldInv, Accounts, NoWork
<1>2. SeenInv => Typed
  BY DEF SeenInv
<1>3. HeldInv => SourceAccounted
  BY DEF HeldInv, SourceAccounted, Accounts, Quiet
<1> QED BY <1>1, <1>2, <1>3, HeldStep, Invariance, PTL DEF Spec

-----------------------------------------------------------------------------
(* Generations are paid for.                                               *)

\* A version a round would take for an edit it has not seen.
Old(version) == Scheduled /\ version # 0 /\ version # plan.version

\* The row a round that is under way leaves behind: what it writes, or, when it has
\* lost the row, what is there.
Outdated ==
    \/ row.version = work.version /\ Old(work.newVersion)
    \/ row.version # work.version /\ Old(row.version)

\* What can happen without anything more from outside: recording that is wanted is
\* stopped (and begins again), recording begins, the channel is bound, and bound to a
\* version that is over.
StopAhead ==
    \/ work.pc = "claimed" /\ row.version # work.version /\ Old(row.version)
    \/ Wanted /\ work.pc = "starting" /\ Outdated
    \/ Wanted /\ active # 0 /\ work.pc = "idle" /\ (row.actual = "stopping" \/ Old(row.version))
    \/ Wanted /\ active # 0 /\ work.pc = "claimed" /\ (work.actual = "stopping" \/ Old(work.version))
    \/ Wanted /\ active # 0 /\ work.pc = "stopping"
    \/ Wanted /\ active # 0 /\ work.pc \in {"gap", "write"} /\ (work.next = "stopping" \/ Outdated)
StartAhead == active = 0 /\ (Wanted \/ work.pc = "starting")
BindAhead == assigning.on
BindsOld == assigning.on /\ mode = "off" /\ assigning.version # plan.version

Modes == {"off", "continuous", "scheduled"}

One(b) == IF b THEN 1 ELSE 0

\* The generations that may still come although nothing happens outside.
Debt == One(StartAhead) + One(StopAhead) + One(BindAhead) + One(BindsOld)

\* The row a round works on moves only to "waiting" under it; a round that found a stop
\* unfinished takes it up.
RoundInv ==
    /\ work.pc # "idle" => row.actual \in {work.actual, "waiting"}
    /\ work.pc = "starting" => work.actual # "stopping" /\ work.next = "recording"
    /\ work.pc = "stopping" => work.next = "stopping"
    /\ work.pc \in {"gap", "write"} /\ work.actual = "stopping"
           => work.next = "stopping" \/ active = 0

Paid == events \in Nat /\ lastGen + Debt <= events + 2

PaidInv == SeenInv /\ RoundInv /\ Paid

\* The types of what the outside has its hand in.
WorldTyped ==
    /\ mode \in Modes /\ gap \in BOOLEAN /\ watched \in BOOLEAN /\ orphan \in BOOLEAN
    /\ events \in 0..MaxEvents

\* Steps by what they cost: nothing, an event, an event that brings media up.
Free == lastGen' = lastGen /\ events' = events
Charged == lastGen' = lastGen /\ events' = events + 1
Brings == lastGen' = lastGen + 1 /\ events' = events + 1

\* Steps that leave no more to come, and start no more than they pay for.
LEMMA Settle ==
    ASSUME Typed, Typed', Paid,
           Free \/ Charged \/ Brings,
           StartAhead' => StartAhead,
           StopAhead' => StopAhead,
           BindAhead' => BindAhead,
           BindsOld' => BindsOld
    PROVE  Paid'
<1>1. events \in Nat /\ lastGen \in Nat /\ lastGen + Debt <= events + 2
  BY DEF Typed, MediaTyped, Paid
<1>2. lastGen' + Debt' <= events' + 2 /\ events' \in Nat
  BY <1>1 DEF Free, Charged, Brings, Debt, One
<1> QED BY <1>2 DEF Paid

\* The step that starts what was to come.
LEMMA Spend ==
    ASSUME Typed, Typed', Paid,
           events' = events,
           lastGen' = lastGen \/ lastGen' = lastGen + 1,
           StartAhead, ~StartAhead',
           StopAhead' => StopAhead,
           BindAhead' => BindAhead,
           BindsOld' => BindsOld
    PROVE  Paid'
<1>1. events \in Nat /\ lastGen \in Nat /\ lastGen + Debt <= events + 2
  BY DEF Typed, MediaTyped, Paid
<1>2. lastGen' + Debt' <= events' + 2 /\ events' \in Nat
  BY <1>1 DEF Free, Charged, Brings, Debt, One
<1> QED BY <1>2 DEF Paid

\* The step that leaves recording to begin where it was to be stopped.
LEMMA Trade ==
    ASSUME Typed, Typed', Paid,
           Free,
           StartAhead' => StartAhead \/ StopAhead, ~StopAhead',
           BindAhead' => BindAhead,
           BindsOld' => BindsOld
    PROVE  Paid'
<1>1. events \in Nat /\ lastGen \in Nat /\ lastGen + Debt <= events + 2
  BY DEF Typed, MediaTyped, Paid
<1>2. lastGen' + Debt' <= events' + 2 /\ events' \in Nat
  BY <1>1 DEF Free, Charged, Brings, Debt, One
<1> QED BY <1>2 DEF Paid

\* The step that makes a binding that was to come: what it lets come it has paid for.
LEMMA Redeem ==
    ASSUME Typed, Typed', Paid,
           Free,
           BindAhead, ~BindAhead', ~BindsOld',
           BindsOld \/ (StartAhead' => StartAhead) \/ (StopAhead' => StopAhead) \/ (StartAhead' => ~StopAhead')
    PROVE  Paid'
<1>1. events \in Nat /\ lastGen \in Nat /\ lastGen + Debt <= events + 2
  BY DEF Typed, MediaTyped, Paid
<1>2. lastGen' + Debt' <= events' + 2 /\ events' \in Nat
  BY <1>1 DEF Free, Charged, Brings, Debt, One
<1> QED BY <1>2 DEF Paid

\* Steps that are paid for, and leave one thing more to come: a stop ...
LEMMA ChargeStop ==
    ASSUME Typed, Typed', Paid,
           Charged,
           StartAhead' => StartAhead,
           BindAhead' => BindAhead,
           BindsOld' => BindsOld
    PROVE  Paid'
<1>1. events \in Nat /\ lastGen \in Nat /\ lastGen + Debt <= events + 2
  BY DEF Typed, MediaTyped, Paid
<1>2. lastGen' + Debt' <= events' + 2 /\ events' \in Nat
  BY <1>1 DEF Free, Charged, Brings, Debt, One
<1> QED BY <1>2 DEF Paid

\* ... a beginning ...
LEMMA ChargeStart ==
    ASSUME Typed, Typed', Paid,
           Charged,
           StopAhead' => StopAhead,
           BindAhead' => BindAhead,
           BindsOld' => BindsOld
    PROVE  Paid'
<1>1. events \in Nat /\ lastGen \in Nat /\ lastGen + Debt <= events + 2
  BY DEF Typed, MediaTyped, Paid
<1>2. lastGen' + Debt' <= events' + 2 /\ events' \in Nat
  BY <1>1 DEF Free, Charged, Brings, Debt, One
<1> QED BY <1>2 DEF Paid

\* ... one or the other ...
LEMMA ChargeEither ==
    ASSUME Typed, Typed', Paid,
           Charged,
           StartAhead' => ~StopAhead',
           BindAhead' => BindAhead,
           BindsOld' => BindsOld
    PROVE  Paid'
<1>1. events \in Nat /\ lastGen \in Nat /\ lastGen + Debt <= events + 2
  BY DEF Typed, MediaTyped, Paid
<1>2. lastGen' + Debt' <= events' + 2 /\ events' \in Nat
  BY <1>1 DEF Free, Charged, Brings, Debt, One
<1> QED BY <1>2 DEF Paid

\* ... a binding ...
LEMMA ChargeBind ==
    ASSUME Typed, Typed', Paid,
           Charged,
           StartAhead' => StartAhead,
           StopAhead' => StopAhead,
           BindsOld' => BindsOld
    PROVE  Paid'
<1>1. events \in Nat /\ lastGen \in Nat /\ lastGen + Debt <= events + 2
  BY DEF Typed, MediaTyped, Paid
<1>2. lastGen' + Debt' <= events' + 2 /\ events' \in Nat
  BY <1>1 DEF Free, Charged, Brings, Debt, One
<1> QED BY <1>2 DEF Paid

\* ... or one to an old version.
LEMMA ChargeOld ==
    ASSUME Typed, Typed', Paid,
           Charged,
           StartAhead' => StartAhead,
           StopAhead' => StopAhead,
           BindAhead' => BindAhead
    PROVE  Paid'
<1>1. events \in Nat /\ lastGen \in Nat /\ lastGen + Debt <= events + 2
  BY DEF Typed, MediaTyped, Paid
<1>2. lastGen' + Debt' <= events' + 2 /\ events' \in Nat
  BY <1>1 DEF Free, Charged, Brings, Debt, One
<1> QED BY <1>2 DEF Paid

\* Where a decision comes from.
LEMMA DecisionReasons ==
    ASSUME Typed, Decision
    PROVE  /\ work'.actual = work.actual /\ work'.version = work.version
           /\ work'.newVersion = PlanVersion
           /\ \/ work'.pc = "starting" /\ work'.next = "recording" /\ Wanted /\ work.actual # "stopping"
              \/ /\ work'.pc = "stopping" /\ work'.next = "stopping"
                 /\ Wanted => work.actual = "stopping" \/ Old(work.version)
              \/ work'.pc = "gap" /\ work.actual # "stopping" /\ work'.next # "stopping"
<1>0. work \in WorkType
  BY DEF Typed
<1>1. ASSUME NEW pc, NEW desired, NEW next, NEW to, Proceed(pc, desired, next, to)
      PROVE  /\ work'.actual = work.actual /\ work'.version = work.version
             /\ work'.newVersion = PlanVersion /\ work'.pc = pc /\ work'.next = next
  BY <1>0, <1>1 DEF Proceed, WorkType
<1>2. Actual = "stopping" <=> work.actual = "stopping"
  BY DEF Actual, MediaGone
<1>3. CASE PlanChanged /\ NeedsStop(Actual) /\ Proceed("stopping", FALSE, "stopping", "keep")
  BY <1>1, <1>3 DEF PlanChanged, Old
<1>4. CASE ~Wanted /\ NeedsStop(Actual) /\ Proceed("stopping", FALSE, "stopping", "close")
  BY <1>1, <1>4
<1>5. CASE /\ ~NeedsStop(Actual)
           /\ Proceed("gap", FALSE, IF Scheduled /\ plan.enabled THEN "outside" ELSE "idle", "close")
  <2>1. work.actual # "stopping"
    BY <1>2, <1>5 DEF NeedsStop
  <2>2. /\ work'.actual = work.actual /\ work'.version = work.version
        /\ work'.newVersion = PlanVersion /\ work'.pc = "gap"
        /\ work'.next = IF Scheduled /\ plan.enabled THEN "outside" ELSE "idle"
    BY <1>1, <1>5
  <2> QED BY <2>1, <2>2
<1>6. CASE Wanted /\ Actual = "stopping" /\ Proceed("stopping", TRUE, "stopping", "keep")
  BY <1>1, <1>2, <1>6
<1>7. CASE Wanted /\ Actual # "stopping" /\ ~lit /\ Proceed("gap", TRUE, "waiting", "open")
  <2>1. /\ work'.actual = work.actual /\ work'.version = work.version
        /\ work'.newVersion = PlanVersion /\ work'.pc = "gap" /\ work'.next = "waiting"
    BY <1>1, <1>7
  <2> QED BY <1>2, <1>7, <2>1
<1>8. CASE Wanted /\ Actual = "recording" /\ lit /\ Proceed("gap", TRUE, "recording", "close")
  BY <1>1, <1>2, <1>8
<1>9. CASE /\ Wanted /\ Actual \notin {"stopping", "recording"} /\ lit
           /\ Proceed("starting", TRUE, "recording", "close")
  BY <1>1, <1>2, <1>9
<1> QED BY <1>3, <1>4, <1>5, <1>6, <1>7, <1>8, <1>9 DEF Decision

\* What a call leaves in the round.
LEMMA CallKeeps ==
    ASSUME Typed, StartReused \/ StartFresh \/ StartRefused \/ StartFails \/ StopDone \/ StopFails \/ WriteGap
    PROVE  /\ work'.actual = work.actual /\ work'.version = work.version
           /\ work'.newVersion = work.newVersion
           /\ UNCHANGED <<mode, plan, matched, assigning, row>>
BY DEF Typed, WorkType, StartReused, StartFresh, StartRefused, StartFails, Recovering, StopDone,
   StopFails, WriteGap, planVars, rowVars

\* A step that leaves the plan, the round and the lease alone.
Still ==
    /\ UNCHANGED <<mode, plan, matched, assigning, work, active>>
    /\ row'.version = row.version /\ row'.actual \in {row.actual, "waiting"}

LEMMA StillAhead ==
    ASSUME Still
    PROVE  /\ StartAhead' => StartAhead
           /\ StopAhead' => StopAhead
           /\ BindAhead' => BindAhead
           /\ BindsOld' => BindsOld
<1>1. Wanted' = Wanted /\ \A v : Old(v)' = Old(v)
  BY DEF Still, Wanted, Scheduled, Old
<1> QED BY <1>1 DEF Still, StartAhead, StopAhead, BindAhead, BindsOld, Outdated, Old, Scheduled

LEMMA RoundStep == ASSUME Typed, RoundInv, Next PROVE RoundInv'
<1> USE DEF planVars, rowVars, mediaVars, ghosts
<1>1. CASE Claim
  BY <1>1, ClaimFacts DEF Claim, RoundInv
<1>2. CASE Decide
  <2>1. UNCHANGED row /\ work.pc = "claimed"
    BY <1>2 DEF Decide
  <2> QED BY <1>2, <2>1, DecisionReasons DEF Decide, RoundInv
<1>3. CASE StartReused \/ StartFresh \/ StartRefused \/ StartFails
  <2>1. work.pc = "starting" /\ work'.pc = "gap"
    BY <1>3, StartFacts, StartMissesFacts DEF StartReused, StartFresh, StartRefused, StartFails, CallMakes
  <2> QED BY <1>3, <2>1, CallKeeps DEF RoundInv
<1>4. CASE StopDone
  <2>1. /\ work.pc = "stopping" /\ work'.pc \in {"gap", "write"} /\ active' = 0
        /\ work'.actual = work.actual /\ UNCHANGED row
    BY <1>4, StopFacts, CallKeeps DEF StopDone, CallMakes
  <2> QED BY <2>1 DEF RoundInv
<1>5. CASE StopFails
  <2>1. /\ work.pc = "stopping" /\ work'.pc \in {"gap", "write"} /\ work'.next = work.next
        /\ work'.actual = work.actual /\ UNCHANGED row
    BY <1>5, StopFacts, CallKeeps DEF StopFails, CallMakes
  <2> QED BY <2>1 DEF RoundInv
<1>6. CASE WriteGap
  <2>1. /\ work.pc = "gap" /\ work'.pc \in {"gap", "write"} /\ work'.next = work.next
        /\ work'.actual = work.actual /\ UNCHANGED <<row, active>>
    BY <1>6, StopFacts, CallKeeps DEF WriteGap, CallMakes
  <2> QED BY <2>1 DEF RoundInv
<1>7. CASE WriteRow \/ Abort \/ Crash
  <2>1. work' = NoWork
    BY <1>7 DEF WriteRow, Abort, Crash
  <2>2. work'.pc = "idle"
    BY <2>1 DEF NoWork
  <2> QED BY <2>2 DEF RoundInv
<1>8. CASE UpdatePlan \/ AssignBinds \/ \E m \in {"off", "continuous", "scheduled"} : SetMode(m)
  <2>1. row'.actual = row.actual /\ UNCHANGED <<work, active>>
    BY <1>8, UpdateFacts, BindsFacts, SetModeFacts
  <2> QED BY <2>1 DEF RoundInv
<1>9. CASE BecomesDue \/ LeaseExpires \/ \E t \in Tellers : Notice(t)
  <2>1. row'.actual \in {row.actual, "waiting"} /\ UNCHANGED <<work, active>>
    BY <1>9, NudgeFacts
  <2> QED BY <2>1 DEF RoundInv
<1>10. CASE ScheduleTurns \/ AssignLooks \/ DeviceChanges \/ MediaLost \/ ViewerComes \/ ViewerGoes
                \/ NoneReader
  <2>1. UNCHANGED <<row, work, active>>
    BY <1>10 DEF ScheduleTurns, AssignLooks, DeviceChanges, MediaLost, ViewerComes, ViewerGoes,
       NoneReader
  <2> QED BY <2>1 DEF RoundInv
<1> QED
  BY <1>1, <1>2, <1>3, <1>4, <1>5, <1>6, <1>7, <1>8, <1>9, <1>10 DEF Next, Round

LEMMA PaidStep == ASSUME SeenInv, RoundInv, Paid, WorldTyped, Next PROVE Paid'
<1> USE DEF planVars, rowVars, mediaVars, ghosts
<1>0. /\ Typed /\ Typed' /\ VersionInv
      /\ lastGen \in Nat /\ lastGen' \in Nat /\ events \in Nat
  BY TypedStep DEF SeenInv, Typed, MediaTyped, Paid
<1>1. CASE BecomesDue \/ LeaseExpires \/ \E t \in Tellers : Notice(t)
  <2>1. Still /\ UNCHANGED lastGen
    BY <1>0, <1>1, NudgeFacts DEF Still
  <2>2. UNCHANGED events
    BY <1>1 DEF BecomesDue, LeaseExpires, Notice, NoticeOpensGap, NoticeMarksRow, NoticeNudges
  <2>3. Free
    BY <2>1, <2>2 DEF Free
  <2> QED BY <1>0, <2>1, <2>3, StillAhead, Settle
<1>2. CASE DeviceChanges \/ MediaLost \/ ViewerGoes \/ NoneReader
  <2>1. Still /\ (Free \/ Charged)
    BY <1>2 DEF DeviceChanges, MediaLost, ViewerGoes, NoneReader, Event, Still, Free, Charged
  <2> QED BY <1>0, <2>1, StillAhead, Settle
<1>3. CASE ViewerComes
  <2>1. Still /\ (Charged \/ Brings)
    BY <1>0, <1>3, EnsuredType DEF ViewerComes, Event, Still, Charged, Brings, Typed
  <2> QED BY <1>0, <2>1, StillAhead, Settle
<1>4. CASE Claim
  <2>1. /\ UNCHANGED <<mode, plan, matched, assigning, active, lastGen, events>>
        /\ work.pc = "idle" /\ work'.pc = "claimed" /\ work'.version = row.version
        /\ row'.version = row.version /\ work'.actual = row.actual
    BY <1>0, <1>4, ClaimFacts DEF Claim
  <2>2. Wanted' = Wanted /\ Old(row.version)' = Old(row.version) /\ Old(work.version)' = Old(row.version)
    BY <2>1 DEF Wanted, Old, Scheduled
  <2>3. StopAhead' => StopAhead
    BY <2>1, <2>2 DEF StopAhead
  <2>4. StartAhead' => StartAhead
    BY <2>1, <2>2 DEF StartAhead
  <2>5. (BindAhead' => BindAhead) /\ (BindsOld' => BindsOld) /\ Free
    BY <2>1 DEF BindAhead, BindsOld, Free
  <2> QED BY <1>0, <2>3, <2>4, <2>5, Settle
<1>5. CASE Decide
  <2>1. /\ UNCHANGED <<mode, plan, matched, assigning, active, row, lastGen, events>>
        /\ work.pc = "claimed"
    BY <1>5 DEF Decide
  <2>2. /\ Wanted' = Wanted /\ Old(row.version)' = Old(row.version)
        /\ ~Old(work.newVersion)'
    BY <1>0, <1>5, <2>1, DecisionReasons DEF Decide, Wanted, Old, Scheduled, PlanVersion
  <2>3. Decision
    BY <1>5 DEF Decide
  <2>4. (BindAhead' => BindAhead) /\ (BindsOld' => BindsOld) /\ Free
    BY <2>1 DEF BindAhead, BindsOld, Free
  <2>5. StartAhead' => StartAhead
    BY <1>0, <2>1, <2>2, <2>3, DecisionReasons DEF StartAhead
  <2>6. StopAhead' => StopAhead
    <3>1. CASE work'.pc = "starting"
      BY <1>0, <2>1, <2>2, <2>3, <3>1, DecisionReasons DEF StopAhead, Outdated
    <3>2. CASE work'.pc = "stopping"
      BY <1>0, <2>1, <2>2, <2>3, <3>2, DecisionReasons DEF StopAhead
    <3>3. CASE work'.pc = "gap"
      BY <1>0, <2>1, <2>2, <2>3, <3>3, DecisionReasons DEF StopAhead, Outdated
    <3> QED BY <1>0, <2>3, <3>1, <3>2, <3>3, DecisionReasons
  <2> QED BY <1>0, <2>4, <2>5, <2>6, Settle
<1>6. CASE StartReused \/ StartFresh \/ StartRefused \/ StartFails \/ StopDone \/ StopFails \/ WriteGap
  <2>1. /\ UNCHANGED <<mode, plan, matched, assigning, row>>
        /\ work'.version = work.version /\ work'.newVersion = work.newVersion
    BY <1>0, <1>6, CallKeeps
  <2>2. Wanted' = Wanted /\ Outdated' = Outdated
    BY <2>1 DEF Wanted, Old, Outdated, Scheduled
  <2>3. (BindAhead' => BindAhead) /\ (BindsOld' => BindsOld)
    BY <2>1 DEF BindAhead, BindsOld
  <2>4. CASE StartReused
    <3>1. /\ work.pc = "starting" /\ work'.pc = "gap" /\ work'.next = work.next /\ active # 0
          /\ UNCHANGED <<active, lastGen, events>>
      BY <1>0, <2>4, StartFacts DEF StartReused, CallMakes
    <3>2. StopAhead' => StopAhead
      BY <2>2, <3>1 DEF StopAhead, RoundInv
    <3>3. StartAhead' => StartAhead
      BY <3>1 DEF StartAhead
    <3>4. Free
      BY <3>1 DEF Free
    <3> QED BY <1>0, <2>3, <3>2, <3>3, <3>4, Settle
  <2>5. CASE StartFresh
    <3>1. /\ work.pc = "starting" /\ work'.pc = "gap" /\ work'.next = work.next
          /\ active = 0 /\ active' # 0 /\ UNCHANGED events
      BY <1>0, <2>5, StartFacts DEF StartFresh, CallMakes
    <3>2. lastGen' = lastGen \/ lastGen' = lastGen + 1
      BY <1>0, <2>5, EnsuredType DEF StartFresh, Typed
    <3>3. StopAhead' => StopAhead
      BY <2>2, <3>1 DEF StopAhead, RoundInv
    <3>4. StartAhead /\ ~StartAhead'
      BY <3>1 DEF StartAhead
    <3>5. events' = events
      BY <3>1
    <3> QED BY <1>0, <2>3, <3>2, <3>3, <3>4, <3>5, Spend
  <2>6. CASE StartFails
    <3>1. /\ work.pc = "starting" /\ work'.pc = "gap" /\ active = 0 /\ UNCHANGED active
          /\ events' = events + 1
      BY <1>0, <2>6, StartMissesFacts DEF StartFails, CallMakes, Failure, Event
    <3>2. Charged \/ Brings
      BY <1>0, <2>6, <3>1, EnsuredType DEF StartFails, Charged, Brings, Typed
    <3>3. StopAhead' => StopAhead
      BY <3>1 DEF StopAhead
    <3>4. StartAhead' => StartAhead
      BY <2>2, <3>1 DEF StartAhead
    <3> QED BY <1>0, <2>3, <3>2, <3>3, <3>4, Settle
  <2>10. CASE StartRefused
    <3>1. /\ work.pc = "starting" /\ work'.pc = "gap" /\ active = 0 /\ UNCHANGED <<active, events>>
      BY <1>0, <2>10, StartMissesFacts DEF StartRefused, CallMakes
    <3>2. Free
      BY <1>0, <2>10, EnsuredType DEF StartRefused, Free, Typed
    <3>3. StopAhead' => StopAhead
      BY <3>1 DEF StopAhead
    <3>4. StartAhead' => StartAhead
      BY <2>2, <3>1 DEF StartAhead
    <3> QED BY <1>0, <2>3, <3>2, <3>3, <3>4, Settle
  <2>7. CASE StopDone
    <3>1. /\ work.pc = "stopping" /\ work'.pc \in {"gap", "write"} /\ active' = 0
          /\ UNCHANGED <<events, lastGen>>
      BY <1>0, <2>7, StopFacts DEF StopDone, CallMakes
    <3>2. StartAhead' => StartAhead \/ StopAhead
      BY <2>2, <3>1 DEF StartAhead, StopAhead
    <3>3. ~StopAhead' /\ Free
      BY <3>1 DEF StopAhead, Free
    <3> QED BY <1>0, <2>3, <3>2, <3>3, Trade
  <2>8. CASE StopFails
    <3>1. /\ work.pc = "stopping" /\ work'.pc \in {"gap", "write"} /\ events' = events + 1
          /\ UNCHANGED lastGen /\ active' \in {active, Adopted}
      BY <1>0, <2>8, StopFacts DEF StopFails, CallMakes, Failure, Event
    <3>2. StartAhead' => StartAhead
      BY <2>2, <3>1 DEF StartAhead, Adopted
    <3>3. Charged
      BY <3>1 DEF Charged
    <3> QED BY <1>0, <2>3, <3>2, <3>3, ChargeStop
  <2>9. CASE WriteGap
    <3>1. /\ work.pc = "gap" /\ work'.pc = "write" /\ work'.next = work.next
          /\ UNCHANGED <<active, lastGen, events>>
      BY <1>0, <2>9, StopFacts DEF WriteGap, Typed, WorkType
    <3>2. StopAhead' => StopAhead
      BY <2>2, <3>1 DEF StopAhead
    <3>3. StartAhead' => StartAhead
      BY <2>2, <3>1 DEF StartAhead
    <3>4. Free
      BY <3>1 DEF Free
    <3> QED BY <1>0, <2>3, <3>2, <3>3, <3>4, Settle
  <2> QED BY <1>6, <2>4, <2>5, <2>6, <2>7, <2>8, <2>9, <2>10
<1>7. CASE WriteRow
  <2>1. /\ UNCHANGED <<mode, plan, matched, assigning, active, lastGen, events>>
        /\ work.pc = "write" /\ work'.pc = "idle"
    BY <1>7 DEF WriteRow, NoWork
  <2>2. Wanted' = Wanted /\ \A v : Old(v)' = Old(v)
    BY <2>1 DEF Wanted, Scheduled, Old
  <2>3. StopAhead' => StopAhead
    <3>1. CASE /\ row.version = work.version /\ row'.actual = work.next
               /\ row'.version = work.newVersion
      <4>1. Old(row.version)' = Old(work.newVersion)
        BY <2>1, <3>1 DEF Old, Scheduled
      <4> QED BY <2>1, <2>2, <3>1, <4>1 DEF StopAhead, Outdated
    <3>2. CASE row' = row /\ row.version # work.version
      <4>1. Old(row.version)' = Old(row.version)
        BY <2>1, <3>2 DEF Old, Scheduled
      <4> QED BY <2>1, <2>2, <3>2, <4>1 DEF StopAhead, Outdated, RoundInv
    <3> QED BY <1>0, <1>7, <3>1, <3>2, WriteFacts DEF WriteRow
  <2>4. StartAhead' => StartAhead
    BY <2>1, <2>2 DEF StartAhead
  <2>5. (BindAhead' => BindAhead) /\ (BindsOld' => BindsOld) /\ Free
    BY <2>1 DEF BindAhead, BindsOld, Free
  <2> QED BY <1>0, <2>3, <2>4, <2>5, Settle
<1>8. CASE Abort
  <2>1. /\ UNCHANGED <<mode, plan, matched, assigning, active, row, lastGen>>
        /\ work'.pc = "idle" /\ events' = events + 1
    BY <1>8 DEF Abort, NoWork, Failure, Event
  <2>2. Wanted' = Wanted
    BY <2>1 DEF Wanted, Scheduled
  <2>3. StartAhead' => StartAhead
    BY <2>1, <2>2 DEF StartAhead
  <2>4. (BindAhead' => BindAhead) /\ (BindsOld' => BindsOld) /\ Charged
    BY <2>1 DEF BindAhead, BindsOld, Charged
  <2> QED BY <1>0, <2>3, <2>4, ChargeStop
<1>9. CASE Crash
  <2>1. /\ active' = 0 /\ work'.pc = "idle" /\ ~assigning'.on /\ events' = events + 1
        /\ lastGen' \in {1, 2}
    BY <1>9 DEF Crash, Bare, NoWork, NoAssign, Failure, Event
  <2>2. ~StopAhead' /\ ~BindAhead' /\ ~BindsOld'
    BY <2>1 DEF StopAhead, BindAhead, BindsOld
  <2>3. Debt' = 0 \/ Debt' = 1
    BY <2>2 DEF Debt, One
  <2>4. lastGen' + Debt' <= events' + 2 /\ events' \in Nat
    BY <1>0, <2>1, <2>3
  <2> QED BY <2>4 DEF Paid
<1>10. CASE UpdatePlan
  <2>1. /\ UNCHANGED <<mode, assigning, work, active, lastGen>> /\ events' = events + 1
        /\ plan'.version = plan.version + 1
        /\ Scheduled => row'.version = plan.version + 1
        /\ ~Scheduled => row' = row
    BY <1>0, <1>10, UpdateFacts DEF UpdatePlan, Event
  <2>2. (BindAhead' => BindAhead) /\ Charged
    BY <2>1 DEF BindAhead, Charged
  <2>3. CASE mode = "scheduled"
    <3>1. row'.version = plan'.version /\ row'.version # work.version /\ ~Old(row.version)'
      BY <1>0, <2>1, <2>3, Numbers DEF VersionInv, Scheduled, Old
    <3>2. StartAhead' => ~StopAhead'
      BY <2>1, <3>1 DEF StartAhead, StopAhead, Outdated
    <3>3. BindsOld' => BindsOld
      BY <2>1, <2>3 DEF BindsOld
    <3> QED BY <1>0, <2>2, <3>2, <3>3, ChargeEither
  <2>4. CASE mode # "scheduled"
    <3>1. Wanted' = Wanted /\ row' = row /\ \A v : ~Old(v) /\ ~Old(v)'
      BY <2>1, <2>4 DEF Wanted, Scheduled, Old
    <3>2. StartAhead' => StartAhead
      BY <2>1, <3>1 DEF StartAhead
    <3>3. ~Old(row.version)' /\ ~Old(work.version)' /\ ~Old(work.newVersion)'
      BY <2>1, <2>4 DEF Scheduled, Old
    <3>4. StopAhead' => StopAhead
      BY <2>1, <3>1, <3>3 DEF StopAhead, Outdated
    <3> QED BY <1>0, <2>2, <3>2, <3>4, ChargeOld
  <2> QED BY <2>3, <2>4
<1>11. CASE ScheduleTurns
  <2>1. /\ UNCHANGED <<mode, plan, assigning, row, work, active, lastGen>> /\ events' = events + 1
    BY <1>11 DEF ScheduleTurns, Event
  <2>2. (BindAhead' => BindAhead) /\ (BindsOld' => BindsOld) /\ Charged
    BY <2>1 DEF BindAhead, BindsOld, Charged
  <2>3. Outdated' = Outdated /\ Old(row.version)' = Old(row.version)
    BY <2>1 DEF Outdated, Old, Scheduled
  <2>4. CASE active # 0
    <3>1. StartAhead' => ~StopAhead'
      BY <2>1, <2>4 DEF StartAhead
    <3> QED BY <1>0, <2>2, <3>1, ChargeEither
  <2>5. CASE active = 0
    <3>1. CASE work.pc = "starting"
      <4>1. StartAhead' => StartAhead
        BY <2>1, <2>5, <3>1 DEF StartAhead
      <4> QED BY <1>0, <2>2, <4>1, ChargeStop
    <3>2. CASE work.pc # "starting"
      <4>1. StopAhead' => StopAhead
        BY <2>1, <2>3, <2>5, <3>2 DEF StopAhead
      <4> QED BY <1>0, <2>2, <4>1, ChargeStart
    <3> QED BY <3>1, <3>2
  <2> QED BY <2>4, <2>5
<1>12. ASSUME NEW m \in {"off", "continuous", "scheduled"}, SetMode(m) PROVE Paid'
  <2>1. /\ UNCHANGED <<plan, matched, assigning, work, active, lastGen>> /\ events' = events + 1
        /\ mode' = m /\ row'.version = IF m = "scheduled" THEN plan.version ELSE 0
        /\ m = "scheduled" => mode = "scheduled"
    BY <1>0, <1>12, SetModeFacts DEF SetMode, Event, Scheduled
  <2>2. (BindAhead' => BindAhead) /\ Charged /\ ~Old(row.version)'
    BY <2>1 DEF BindAhead, Charged, Old, Scheduled
  <2>3. CASE m = "off"
    <3>1. ~Wanted'
      BY <2>1, <2>3 DEF Wanted, Scheduled
    <3>2. StartAhead' => StartAhead
      BY <2>1, <3>1 DEF StartAhead
    <3>3. StopAhead' => StopAhead
      BY <2>1, <2>2, <3>1 DEF StopAhead
    <3> QED BY <1>0, <2>2, <3>2, <3>3, ChargeOld
  <2>4. CASE m = "continuous"
    <3>1. ~Old(work.version)' /\ ~Old(work.newVersion)' /\ ~BindsOld'
      BY <2>1, <2>4 DEF Old, Scheduled, BindsOld
    <3>2. StartAhead' => ~StopAhead'
      BY <2>1, <2>2, <3>1 DEF StartAhead, StopAhead, Outdated
    <3> QED BY <1>0, <2>2, <3>1, <3>2, ChargeEither
  <2>5. CASE m = "scheduled"
    <3>1. Wanted' = Wanted /\ ~BindsOld'
      BY <2>1, <2>5 DEF Wanted, Scheduled, BindsOld
    <3>2. StartAhead' => StartAhead
      BY <2>1, <3>1 DEF StartAhead
    <3> QED BY <1>0, <2>2, <3>1, <3>2, ChargeStop
  <2> QED BY <2>3, <2>4, <2>5
<1>13. CASE AssignLooks
  <2>1. /\ UNCHANGED <<mode, plan, matched, row, work, active, lastGen>> /\ events' = events + 1
        /\ assigning'.version = plan.version
    BY <1>13 DEF AssignLooks, Event
  <2>2. Wanted' = Wanted /\ Outdated' = Outdated /\ Old(row.version)' = Old(row.version)
        /\ Old(work.version)' = Old(work.version)
    BY <2>1 DEF Wanted, Outdated, Old, Scheduled
  <2>3. StartAhead' => StartAhead
    BY <2>1, <2>2 DEF StartAhead
  <2>4. StopAhead' => StopAhead
    BY <2>1, <2>2 DEF StopAhead
  <2>5. (BindsOld' => BindsOld) /\ Charged
    BY <2>1 DEF BindsOld, Charged
  <2> QED BY <1>0, <2>3, <2>4, <2>5, ChargeBind
<1>14. CASE AssignBinds
  <2>1. /\ UNCHANGED <<plan, matched, work, active, lastGen>> /\ assigning.on /\ ~assigning'.on
        /\ Scheduled => UNCHANGED <<mode, row>>
        /\ ~Scheduled => row'.version = assigning.version
    BY <1>0, <1>14, BindsFacts DEF NoAssign
  <2>2. Free /\ BindAhead /\ ~BindAhead' /\ ~BindsOld'
    BY <1>14, <2>1 DEF AssignBinds, Free, BindAhead, BindsOld
  <2>3. CASE mode = "scheduled"
    <3>1. UNCHANGED <<mode, row>>
      BY <2>1, <2>3 DEF Scheduled
    <3>2. StartAhead' => StartAhead
      BY <2>1, <3>1 DEF StartAhead, Wanted, Scheduled
    <3> QED BY <1>0, <2>2, <3>2, Redeem
  <2>4. CASE mode = "continuous"
    <3>1. StartAhead' => StartAhead
      BY <2>1, <2>4 DEF StartAhead, Wanted
    <3> QED BY <1>0, <2>2, <3>1, Redeem
  <2>5. CASE mode \notin {"scheduled", "continuous"}
    <3>1. row'.version = assigning.version
      BY <2>1, <2>5 DEF Scheduled
    <3>2. CASE BindsOld
      BY <1>0, <2>2, <3>2, Redeem
    <3>3. CASE assigning.version = plan.version
      <4>1. ~Old(row.version)'
        BY <2>1, <3>1, <3>3 DEF Old
      <4>2. CASE work.pc = "starting"
        <5>1. StartAhead' => StartAhead
          BY <2>1, <4>2 DEF StartAhead
        <5> QED BY <1>0, <2>2, <5>1, Redeem
      <4>3. CASE work.pc # "starting"
        <5>1. StartAhead' => ~StopAhead'
          BY <2>1, <4>1, <4>3 DEF StartAhead, StopAhead
        <5> QED BY <1>0, <2>2, <5>1, Redeem
      <4> QED BY <4>2, <4>3
    <3>4. BindsOld \/ assigning.version = plan.version
      BY <2>1, <2>5 DEF WorldTyped, Modes, BindsOld
    <3> QED BY <3>2, <3>3, <3>4
  <2> QED BY <2>3, <2>4, <2>5
<1> QED
  BY <1>1, <1>2, <1>3, <1>4, <1>5, <1>6, <1>7, <1>8, <1>9, <1>10, <1>11, <1>12, <1>13, <1>14
  DEF Next, Round

-----------------------------------------------------------------------------
(* Types.                                                                  *)

DeviceTyped ==
    /\ online \in BOOLEAN /\ lit \in BOOLEAN
    /\ telling \in [Tellers -> {"none", "on", "off"}] /\ marking \subseteq Tellers

LEMMA DeviceStep == ASSUME DeviceTyped, Next PROVE DeviceTyped'
<1> USE DEF DeviceTyped, deviceVars
<1>1. CASE Round \/ StartFails \/ StopFails \/ Abort \/ BecomesDue \/ LeaseExpires \/ UpdatePlan
           \/ ScheduleTurns \/ AssignLooks \/ AssignBinds \/ MediaLost \/ ViewerComes \/ ViewerGoes
           \/ NoneReader \/ \E m \in {"off", "continuous", "scheduled"} : SetMode(m)
  <2>1. UNCHANGED deviceVars
    BY <1>1 DEF Round, Claim, Decide, StartReused, StartFresh, StartRefused, StopDone, WriteGap, WriteRow,
       StartFails, StopFails, Abort, BecomesDue, LeaseExpires, UpdatePlan, ScheduleTurns, AssignLooks,
       AssignBinds, MediaLost, ViewerComes, ViewerGoes, NoneReader, SetMode
  <2> QED BY <2>1
<1>2. ASSUME NEW t \in Tellers, Notice(t) PROVE DeviceTyped'
  BY <1>2 DEF Notice, NoticeOpensGap, NoticeMarksRow, NoticeNudges, Device!Told, Device!Says
<1>3. CASE DeviceChanges
  <2>1. UNCHANGED marking
    BY <1>3 DEF DeviceChanges
  <2>2. ASSUME NEW t \in Tellers, Device!Change(t) PROVE DeviceTyped'
    BY <2>1, <2>2 DEF Device!Change, Device!GoOnline, Device!GoOffline, Device!TellAgain, Device!Says
  <2>3. CASE Device!GoOnlineUntold \/ Device!GoOfflineUntold \/ Device!CatalogArrives
    BY <2>1, <2>3 DEF Device!GoOnlineUntold, Device!GoOfflineUntold, Device!CatalogArrives
  <2> QED BY <1>3, <2>2, <2>3 DEF DeviceChanges
<1>4. CASE Crash
  BY <1>4 DEF Crash, Device!Restart
<1> QED BY <1>1, <1>2, <1>3, <1>4 DEF Next

LEMMA WorldStep == ASSUME Typed, WorldTyped, Next PROVE WorldTyped' /\ events <= events'
<1> USE DEF WorldTyped, planVars, rowVars, mediaVars, ghosts
<1>1. events' \in 0..MaxEvents /\ events <= events'
  <2>1. CASE UNCHANGED events
    BY <2>1
  <2>2. CASE Event
    BY <2>2, EventAssumption DEF Event
  <2>3. UNCHANGED events \/ Event
    BY DEF Next, Round, Claim, Decide, StartReused, StartFresh, StartRefused, StopDone, WriteGap, WriteRow,
       StartFails, StopFails, Abort, BecomesDue, LeaseExpires, UpdatePlan, ScheduleTurns, AssignLooks,
       AssignBinds, MediaLost, ViewerComes, ViewerGoes, NoneReader, SetMode, Crash, DeviceChanges,
       Notice, NoticeOpensGap, NoticeMarksRow, NoticeNudges, Failure
  <2> QED BY <2>1, <2>2, <2>3
<1>2. mode' \in Modes
  <2>1. CASE AssignBinds
    BY <2>1 DEF AssignBinds, Modes
  <2>2. CASE \E m \in {"off", "continuous", "scheduled"} : SetMode(m)
    BY <2>2 DEF SetMode, Modes
  <2>3. UNCHANGED mode \/ AssignBinds \/ \E m \in {"off", "continuous", "scheduled"} : SetMode(m)
    BY DEF Next, Round, Claim, Decide, StartReused, StartFresh, StartRefused, StopDone, WriteGap, WriteRow,
       StartFails, StopFails, Abort, BecomesDue, LeaseExpires, UpdatePlan, ScheduleTurns, AssignLooks,
       MediaLost, ViewerComes, ViewerGoes, NoneReader, Crash, DeviceChanges,
       Notice, NoticeOpensGap, NoticeMarksRow, NoticeNudges
  <2> QED BY <2>1, <2>2, <2>3
<1>3. gap' \in BOOLEAN
  <2>1. CASE Decide
    BY <2>1 DEF Decide, MediaGone
  <2>2. CASE WriteGap
    BY <2>2 DEF WriteGap, Typed, WorkType, Gaps
  <2>3. CASE \E t \in Tellers : Notice(t)
    BY <2>3 DEF Notice, NoticeOpensGap, NoticeMarksRow, NoticeNudges
  <2>4. UNCHANGED gap \/ Decide \/ WriteGap \/ \E t \in Tellers : Notice(t)
    BY DEF Next, Round, Claim, StartReused, StartFresh, StartRefused, StopDone, WriteRow, AssignBinds, SetMode,
       StartFails, StopFails, Abort, BecomesDue, LeaseExpires, UpdatePlan, ScheduleTurns, AssignLooks,
       MediaLost, ViewerComes, ViewerGoes, NoneReader, Crash, DeviceChanges
  <2> QED BY <2>1, <2>2, <2>3, <2>4
<1>4. watched' \in BOOLEAN
  <2>1. CASE MediaLost \/ ViewerComes \/ ViewerGoes \/ Crash
    BY <2>1 DEF MediaLost, ViewerComes, ViewerGoes, Crash
  <2>2. UNCHANGED watched \/ MediaLost \/ ViewerComes \/ ViewerGoes \/ Crash
    BY DEF Next, Round, Claim, Decide, StartReused, StartFresh, StartRefused, StopDone, WriteGap, WriteRow,
       StartFails, StopFails, Abort, BecomesDue, LeaseExpires, UpdatePlan, ScheduleTurns, AssignLooks,
       AssignBinds, NoneReader, SetMode, DeviceChanges,
       Notice, NoticeOpensGap, NoticeMarksRow, NoticeNudges
  <2> QED BY <2>1, <2>2
<1>5. orphan' \in BOOLEAN
  <2>1. CASE EnsureLive
    BY <2>1 DEF EnsureLive
  <2>2. CASE MediaLost \/ NoneReader \/ Crash
    BY <2>2 DEF MediaLost, NoneReader, Crash
  <2>3. UNCHANGED orphan \/ EnsureLive \/ MediaLost \/ NoneReader \/ Crash
    BY DEF Next, Round, Claim, Decide, StartReused, StartFresh, StartRefused, StopDone, WriteGap,
       WriteRow, StartFails, StopFails, Abort, BecomesDue, LeaseExpires, UpdatePlan, ScheduleTurns,
       AssignLooks, AssignBinds, ViewerComes, ViewerGoes, SetMode, DeviceChanges,
       Notice, NoticeOpensGap, NoticeMarksRow, NoticeNudges
  <2> QED BY <2>1, <2>2, <2>3
<1> QED BY <1>1, <1>2, <1>3, <1>4, <1>5

\* Versions and generations are counted by what happens outside.
Bounded ==
    /\ plan.version <= events + 1
    /\ live <= lastGen
    /\ active <= events + 2 /\ work.gen <= events + 2 /\ row.gen <= events + 2

LEMMA Orders ==
    /\ \A a, b, c \in Nat : a <= b /\ b <= c + 2 => a <= c + 2
    /\ \A a, b, c \in Nat : a <= b + 1 /\ b <= c => a <= c + 1
    /\ \A a, b, c \in Nat : a <= b + 2 /\ b <= c => a <= c + 2
    /\ \A c \in Nat : 0 <= c + 2
OBVIOUS

LEMMA BoundedStep ==
    ASSUME Typed, WorldTyped, Paid, Paid', Bounded, Next
    PROVE  Bounded'
<1> USE DEF planVars, rowVars, mediaVars, ghosts
<1>0. /\ Typed' /\ events \in Nat /\ events' \in Nat /\ events <= events'
      /\ lastGen <= events + 2 /\ lastGen' <= events' + 2
  BY TypedStep, WorldStep DEF Paid, Debt, One, Typed, MediaTyped
<1>1. plan'.version <= events' + 1
  <2>1. CASE UpdatePlan
    BY <1>0, <2>1, UpdateFacts, Numbers DEF Bounded, UpdatePlan, Event
  <2>2. UNCHANGED plan \/ UpdatePlan
    BY DEF Next, Round, Claim, Decide, StartReused, StartFresh, StartRefused, StopDone, WriteGap, WriteRow,
       StartFails, StopFails, Abort, BecomesDue, LeaseExpires, ScheduleTurns, AssignLooks,
       AssignBinds, MediaLost, ViewerComes, ViewerGoes, NoneReader, SetMode, Crash, DeviceChanges,
       Notice, NoticeOpensGap, NoticeMarksRow, NoticeNudges
  <2>3. plan.version \in Nat
    BY <1>0, Numbers
  <2> QED BY <1>0, <2>1, <2>2, <2>3 DEF Bounded
<1>2. live' <= lastGen'
  <2>1. live \in Nat /\ lastGen \in Nat /\ live <= lastGen
    BY <1>0 DEF Typed, MediaTyped, Bounded
  <2>2. CASE EnsureLive
    BY <1>0, <2>1, <2>2, EnsuredType DEF Typed
  <2>4. CASE StopDone \/ MediaLost \/ NoneReader
    BY <2>1, <2>4 DEF StopDone, MediaLost, NoneReader
  <2>5. CASE Crash
    <3>1. lastGen' = IF live' = 0 THEN Bare ELSE live'
      BY <2>5 DEF Crash
    <3>2. live' \in Nat
      BY <1>0 DEF Typed, MediaTyped
    <3> QED BY <3>1, <3>2 DEF Bare
  <2>3. \/ UNCHANGED <<live, lastGen>>
        \/ EnsureLive \/ StopDone \/ MediaLost \/ NoneReader \/ Crash
    BY DEF Next, Round, Claim, Decide, StartReused, WriteGap, WriteRow,
       StartFresh, StartRefused, StartFails, ViewerComes,
       StopFails, Abort, BecomesDue, LeaseExpires, UpdatePlan, ScheduleTurns, AssignLooks,
       AssignBinds, ViewerGoes, SetMode, DeviceChanges,
       Notice, NoticeOpensGap, NoticeMarksRow, NoticeNudges
  <2> QED BY <2>1, <2>2, <2>3, <2>4, <2>5
<1>3. active' <= events' + 2
  <2>1. /\ live \in Nat /\ lastGen \in Nat /\ live <= lastGen /\ active \in Nat /\ active <= events + 2
        /\ live' \in Nat /\ lastGen' \in Nat
    BY <1>0 DEF Typed, MediaTyped, Bounded
  <2>2. live <= events + 2
    BY <1>0, <2>1
  <2>3. /\ live <= events' + 2 /\ live' <= events' + 2
        /\ active <= events' + 2 /\ 0 <= events' + 2
    BY <1>0, <1>2, <2>1, <2>2, Orders
  <2>4. active' \in {active, live, live', 0}
    <3>1. CASE StartFresh \/ StopDone \/ StopFails \/ Crash
      BY <3>1 DEF StartFresh, StopDone, StopFails, Crash, Adopted
    <3>2. UNCHANGED active \/ StartFresh \/ StopDone \/ StopFails \/ Crash
      BY DEF Next, Round, Claim, Decide, StartReused, StartRefused, WriteGap, WriteRow, StartFails,
         Abort, BecomesDue, LeaseExpires, UpdatePlan, ScheduleTurns, AssignLooks,
         AssignBinds, MediaLost, ViewerComes, ViewerGoes, NoneReader, SetMode, DeviceChanges,
         Notice, NoticeOpensGap, NoticeMarksRow, NoticeNudges
    <3> QED BY <3>1, <3>2
  <2> QED BY <2>3, <2>4
<1>4. work'.gen \in {0, work.gen, row.gen, active, active'}
  <2>1. CASE Claim
    BY <1>0, <2>1, ClaimFacts
  <2>2. CASE Decide
    <3>1. Decision
      BY <2>2 DEF Decide
    <3> QED BY <1>0, <3>1, DecisionFacts DEF DecisionMakes
  <2>3. CASE StartReused \/ StartFresh
    BY <1>0, <2>3, StartFacts
  <2>4. CASE StartRefused \/ StartFails
    BY <1>0, <2>4 DEF StartRefused, StartFails, Recovering, Typed, WorkType
  <2>5. CASE StopDone \/ StopFails \/ WriteGap
    BY <1>0, <2>5, StopFacts
  <2>6. CASE WriteRow \/ Abort \/ Crash
    <3>1. work' = NoWork
      BY <2>6 DEF WriteRow, Abort, Crash
    <3> QED BY <3>1 DEF NoWork
  <2>7. \/ UNCHANGED work
        \/ Claim \/ Decide \/ StartReused \/ StartFresh \/ StartRefused \/ StartFails \/ StopDone \/ StopFails
        \/ WriteGap \/ WriteRow \/ Abort \/ Crash
    BY DEF Next, Round, BecomesDue, LeaseExpires, UpdatePlan, ScheduleTurns, AssignLooks,
       AssignBinds, MediaLost, ViewerComes, ViewerGoes, NoneReader, SetMode, DeviceChanges,
       Notice, NoticeOpensGap, NoticeMarksRow, NoticeNudges
  <2> QED BY <2>1, <2>2, <2>3, <2>4, <2>5, <2>6, <2>7
<1>5. row'.gen \in {row.gen, work.gen}
  <2>1. CASE WriteRow
    BY <1>0, <2>1, WriteFacts
  <2>2. CASE UpdatePlan \/ AssignBinds \/ \E m \in {"off", "continuous", "scheduled"} : SetMode(m)
    BY <1>0, <2>2, UpdateFacts, BindsFacts, SetModeFacts
  <2>3. CASE Claim \/ BecomesDue \/ LeaseExpires \/ \E t \in Tellers : Notice(t)
    BY <1>0, <2>3 DEF Claim, BecomesDue, LeaseExpires, Notice, NoticeOpensGap, NoticeMarksRow,
       NoticeNudges, Typed, RowType
  <2>4. \/ UNCHANGED row
        \/ WriteRow \/ UpdatePlan \/ AssignBinds \/ \E m \in {"off", "continuous", "scheduled"} : SetMode(m)
        \/ Claim \/ BecomesDue \/ LeaseExpires \/ \E t \in Tellers : Notice(t)
    BY DEF Next, Round, Decide, StartReused, StartFresh, StartRefused, StopDone, WriteGap,
       StartFails, StopFails, Abort, ScheduleTurns, AssignLooks,
       MediaLost, ViewerComes, ViewerGoes, NoneReader, Crash, DeviceChanges
  <2> QED BY <2>1, <2>2, <2>3, <2>4
<1>6. work'.gen <= events' + 2 /\ row'.gen <= events' + 2
  <2>1. /\ work.gen \in Nat /\ row.gen \in Nat /\ active \in Nat
        /\ work.gen <= events + 2 /\ row.gen <= events + 2 /\ active <= events + 2
    BY DEF Typed, WorkType, RowType, MediaTyped, Bounded
  <2> QED BY <1>0, <1>3, <1>4, <1>5, <2>1
<1> QED BY <1>1, <1>2, <1>3, <1>6 DEF Bounded

TypeInv == SeenInv /\ RoundInv /\ Paid /\ DeviceTyped /\ WorldTyped /\ Bounded

LEMMA TypeInit == Init => TypeInv
<1> SUFFICES ASSUME Init PROVE TypeInv
  OBVIOUS
<1>1. SeenInv
  BY SeenInit
<1>2. RoundInv /\ DeviceTyped /\ Bounded
  <2>1. RoundInv /\ DeviceTyped
    BY DEF Init, RoundInv, DeviceTyped, NoWork
  <2>2. /\ plan.version = 1 /\ live = 0 /\ lastGen = 1 /\ active = 0 /\ events = 0
        /\ work.gen = 0 /\ row.gen = 0
    BY DEF Init, Bare, NoWork
  <2> QED BY <2>1, <2>2 DEF Bounded
<1>3. WorldTyped
  <2>1. /\ mode \in Modes /\ gap \in BOOLEAN /\ watched \in BOOLEAN /\ orphan \in BOOLEAN
        /\ events = 0
    BY DEF Init, Modes
  <2> QED BY <2>1, EventAssumption DEF WorldTyped
<1>4. Paid
  <2>1. StopAhead = FALSE /\ BindAhead = FALSE /\ BindsOld = FALSE
    BY DEF Init, StopAhead, BindAhead, BindsOld, NoWork, NoAssign
  <2>2. events = 0 /\ lastGen = 1
    BY DEF Init, Bare
  <2>3. Debt = 0 \/ Debt = 1
    BY <2>1 DEF Debt, One
  <2> QED BY <2>2, <2>3 DEF Paid
<1> QED BY <1>1, <1>2, <1>3, <1>4 DEF TypeInv

LEMMA TypeStep == ASSUME TypeInv, [Next]_vars PROVE TypeInv'
<1>1. CASE UNCHANGED vars
  <2>1. SeenInv'
    BY SeenStep DEF TypeInv
  <2>2. RoundInv' /\ DeviceTyped' /\ WorldTyped' /\ Bounded'
    BY <1>1 DEF TypeInv, vars, RoundInv, DeviceTyped, WorldTyped, Bounded
  <2>3. Paid'
    <3>1. Still
      BY <1>1 DEF vars, Still
    <3>2. Free
      BY <1>1 DEF vars, Free
    <3>3. Typed /\ Typed' /\ Paid
      BY <2>1 DEF TypeInv, SeenInv
    <3> QED BY <3>1, <3>2, <3>3, StillAhead, Settle
  <2> QED BY <2>1, <2>2, <2>3 DEF TypeInv
<1>2. CASE Next
  <2>1. SeenInv /\ RoundInv /\ Paid /\ DeviceTyped /\ WorldTyped /\ Bounded /\ Typed
    BY DEF TypeInv, SeenInv
  <2>2. SeenInv'
    BY <2>1, SeenStep
  <2>3. RoundInv' /\ Paid' /\ DeviceTyped' /\ WorldTyped'
    BY <1>2, <2>1, RoundStep, PaidStep, DeviceStep, WorldStep
  <2>4. Bounded'
    BY <1>2, <2>1, <2>3, BoundedStep
  <2> QED BY <2>2, <2>3, <2>4 DEF TypeInv
<1> QED BY <1>1, <1>2

LEMMA TypeInvariance == Spec => []TypeInv
BY TypeInit, TypeStep, PTL DEF Spec

\* No more generations of live media than the outside asked for: the engine never stops
\* and starts a recording again by itself, whatever it reads late, loses to an edit or
\* finds half done (state_machine.go DecideReconcile, engine.go:379, orchestrator.go:80).
THEOREM NoFlapping == Spec => []StartsAreAsked
<1>1. TypeInv => StartsAreAsked
  BY DEF StartsAreAsked, Bare, TypeInv, SeenInv, Typed, MediaTyped, Paid, Debt, One
<1> QED BY <1>1, TypeInvariance, PTL

\* Every variable has its type; versions and generations keep within the bound that the
\* number of outside events sets them (repository.go, state_machine.go, orchestrator.go).
THEOREM TypeCorrect == Spec => []TypeOK
<1>1. TypeInv => TypeOK
  <2> SUFFICES ASSUME TypeInv PROVE TypeOK
    OBVIOUS
  <2>1. /\ SeenInv /\ Typed /\ VersionInv /\ DeviceTyped /\ WorldTyped /\ Bounded
        /\ events \in Nat /\ MaxEvents \in Nat /\ events <= MaxEvents /\ lastGen <= events + 2
    BY EventAssumption DEF TypeInv, SeenInv, WorldTyped, Typed, MediaTyped, Paid, Debt, One
  <2>2. /\ \A n \in Nat : n <= events + 1 => n \in Versions
        /\ \A n \in Nat : n <= events + 2 => n \in Generations
    BY <2>1 DEF Versions, Generations
  <2>3. plan.version \in Versions /\ assigning.version \in Versions
    BY <2>1, <2>2, Numbers DEF VersionInv, Bounded
  <2>4. row.version \in Versions /\ work.version \in Versions /\ work.newVersion \in Versions
    BY <2>1, <2>2, Numbers DEF VersionInv, Bounded
  <2>5. row.gen \in Generations /\ work.gen \in Generations
    BY <2>1, <2>2 DEF Bounded, Typed, RowType, WorkType
  <2>6. live \in Generations /\ lastGen \in Generations /\ active \in Generations
    <3>1. live \in Nat /\ lastGen \in Nat /\ active \in Nat /\ live <= events + 2
      BY <2>1 DEF Typed, MediaTyped, Bounded
    <3> QED BY <2>1, <2>2, <3>1 DEF Bounded
  <2>7. row \in [actual : ActualStates, desired : BOOLEAN, version : Versions, gen : Generations,
                 due : BOOLEAN, leased : BOOLEAN]
    BY <2>1, <2>4, <2>5 DEF Typed, RowType
  <2>8. work \in [pc : {"idle", "claimed", "starting", "stopping", "gap", "write"},
                  actual : ActualStates, version : Versions, gen : Generations,
                  next : ActualStates, desired : BOOLEAN, newVersion : Versions,
                  gap : {"keep", "open", "close"}]
    BY <2>1, <2>4, <2>5 DEF Typed, WorkType, Rounds, Gaps
  <2>9. /\ plan \in [enabled : BOOLEAN, version : Versions]
        /\ assigning \in [on : BOOLEAN, version : Versions, matched : BOOLEAN]
        /\ matched \in BOOLEAN /\ stale \in BOOLEAN /\ strayed \in BOOLEAN
    BY <2>1, <2>3 DEF Typed, PlanTyped, MediaTyped
  <2> QED BY <2>1, <2>6, <2>7, <2>8, <2>9 DEF DeviceTyped, WorldTyped, Modes, TypeOK
<1> QED BY <1>1, TypeInvariance, PTL
===============================================================================
