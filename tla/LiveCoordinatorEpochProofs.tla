---------------------- MODULE LiveCoordinatorEpochProofs ----------------------
(***************************************************************************)
(* Proofs about recovery and device transfers in LiveCoordinator, on top of *)
(* its inductive invariant IInv: no start is in flight while recovery is    *)
(* under way, a device cleanup only ever stops a generation that was        *)
(* admitted under an earlier epoch than the device's current one, and each  *)
(* candidate of a running job has a goroutine that concludes it.            *)
(***************************************************************************)
EXTENDS LiveCoordinatorProofs

\* Goroutine q neither starts to move nor becomes a stopper.
Bystander(q) ==
    /\ pc'[q] = "stopping" => pc[q] = "stopping"
    /\ pc'[q] # "idle" => pc[q] # "idle"

\* What every step but a few leaves alone.
Frame ==
    /\ \A q \in Closers \cup Sweeps : Bystander(q)
    /\ \A e \in Entries : state[e] = "Starting" \/ epoch'[e] = epoch[e]
    /\ epochNow' = epochNow

LEMMA CallFrame ==
    ASSUME IInv, NEW c \in Callers, CallerStep(c) PROVE Frame
BY ProcFacts DEF CallerStep, EnsureCall, StopCall, StopStream, StopIfCurrent, Call, BeginStop,
   Frame, Bystander, IInv, TypeOK, mapVars, envVars

LEMMA StayFrame ==
    ASSUME IInv, NEW p \in Requesters, NEW e, NEW point,
           Return(p) \/ Serve(p, e) \/ WaitFor(p, e, point),
           UNCHANGED <<mapVars, envVars>>
    PROVE  Frame
BY ProcFacts DEF Return, Serve, WaitFor, Frame, Bystander, IInv, TypeOK, mapVars, envVars

LEMMA StopFrame ==
    ASSUME IInv, NEW p \in Requesters, NEW e, BeginStop(p, e),
           pc' = [pc EXCEPT ![p] = "stopping"]
    PROVE  Frame
BY ProcFacts DEF BeginStop, Frame, Bystander, IInv, TypeOK, envVars

LEMMA CloseFrame ==
    ASSUME IInv, NEW p \in Requesters, NEW e, NEW point, NEW go \in SUBSET Requesters,
           CloseDone(p, e, point, go), UNCHANGED <<epoch, epochNow>>
    PROVE  Frame
<1>1. \A q \in Closers \cup Sweeps : q \in Procs /\ pc'[q] = Woken(e, q)
  BY ProcFacts DEF CloseDone
<1>2. \A q \in Closers \cup Sweeps : Bystander(q)
  BY <1>1, WokenFacts DEF Bystander, IInv
<1> QED BY <1>2 DEF Frame

LEMMA RequesterFrame ==
    ASSUME IInv, NEW p \in Requesters,
           Proceed(p) \/ StartReturns(p) \/ CancelWait(p)
               \/ \E out \in StopOutcomes : StopReturns(p, out)
    PROVE  Frame
<1>1. ASSUME NEW e \in Entries, EnsureCreate(p, e) PROVE Frame
  BY <1>1, ProcFacts DEF EnsureCreate, Allocate, WaitFor, Frame, Bystander, IInv, TypeOK, envVars
<1>2. CASE EnsureFind(p)
  BY <1>2, StayFrame, StopFrame DEF EnsureFind
<1>3. CASE EnsureWoken(p)
  BY <1>3, StayFrame DEF EnsureWoken
<1>4. CASE Admit(p)
  BY <1>4, ProcFacts DEF Admit, Frame, Bystander, IInv, TypeOK, mapVars
<1>5. CASE Publish(p)
  <2>1. p \in Procs /\ on[p] \in Entries /\ state[on[p]] = "Starting"
    BY <1>5, ProcFacts DEF Publish, IInv, ActorsMatch, Starters
  <2>2. \A e \in Entries : state[e] = "Starting" \/ epoch'[e] = epoch[e]
    BY <1>5, <2>1 DEF Publish, IInv, TypeOK
  <2> QED BY <1>5, <2>2, ProcFacts DEF Publish, Frame, Bystander, IInv, TypeOK
<1>6. CASE StopFind(p)
  BY <1>6, StayFrame, StopFrame DEF StopFind
<1>7. CASE StopWoken(p)
  BY <1>7, StayFrame DEF StopWoken
<1>8. ASSUME NEW m \in Nodes \cup {None}, StartReady(p, m) PROVE Frame
  BY <1>8, CloseFrame DEF StartReady, envVars
<1>9. CASE StartFailed(p)
  BY <1>9, CloseFrame DEF StartFailed
<1>10. CASE StartPending(p)
  <2>1. on[p] \in Entries
    BY <1>10, ProcFacts DEF StartPending, IInv, ActorsMatch, Starters
  <2>2. {Retry(on[p])} \in SUBSET Requesters
    BY <2>1, ProcFacts
  <2> QED BY <1>10, <2>2, CloseFrame DEF StartPending, envVars
<1>11. CASE CancelWait(p)
  BY <1>11, StayFrame DEF CancelWait
<1>12. ASSUME NEW out \in StopOutcomes, StopReturns(p, out) PROVE Frame
  BY <1>12, CloseFrame DEF StopReturns, FinishStop
<1> QED BY <1>1, <1>2, <1>3, <1>4, <1>5, <1>6, <1>7, <1>8, <1>9, <1>10, <1>11, <1>12
        DEF Proceed, StartReturns

LEMMA ConcludeFrame ==
    ASSUME IInv, NEW t \in Targets, NEW l \in Lanes, NEW v, Conclude(t, l, v) PROVE Frame
BY ProcFacts DEF Conclude, Frame, Bystander, IInv, TypeOK, mapVars, envVars

LEMMA CloserFrame ==
    ASSUME IInv, NEW e \in Entries, NEW out \in StopOutcomes, CloserReturns(e, out) PROVE Frame
BY ProcFacts, WokenFacts DEF CloserReturns, FinishStop, Frame, Bystander, IInv

-----------------------------------------------------------------------------
(* Device transfers.                                                       *)

\* A cleanup job runs for an epoch the device has reached, and stops only
\* generations of an earlier one.
EpochInv ==
    /\ \A e \in Entries : pc[Closer(e)] = "stopping" => 0 < epoch[e] /\ epoch[e] < epochNow
    /\ \A t \in Targets, l \in Lanes : pc[Sweep(t, l)] # "idle" => t <= epochNow

LEMMA FrameKeepsEpochs == ASSUME IInv, EpochInv, Frame PROVE EpochInv'
<1>1. \A e \in Entries : pc[Closer(e)] = "stopping" => state[e] = "Stopping"
  BY ProcFacts DEF IInv, Kinds, ActorsMatch
<1>2. \A e \in Entries : pc'[Closer(e)] = "stopping" => 0 < epoch'[e] /\ epoch'[e] < epochNow'
  BY <1>1, ProcFacts DEF Frame, Bystander, EpochInv
<1>3. \A t \in Targets, l \in Lanes : pc'[Sweep(t, l)] # "idle" => t <= epochNow'
  BY ProcFacts DEF Frame, Bystander, EpochInv
<1> QED BY <1>2, <1>3 DEF EpochInv

LEMMA ClearKeepsEpochs ==
    ASSUME IInv, EpochInv, NEW t \in Targets, ClearDeviceBefore(t) PROVE EpochInv'
<1>1. UNCHANGED <<epoch, epochNow>> /\ t <= epochNow
  BY DEF ClearDeviceBefore, mapVars, envVars
<1>2. \A e \in Entries : pc'[Closer(e)] = pc[Closer(e)]
  BY ProcFacts DEF ClearDeviceBefore
<1>3. \A u \in Targets, l \in Lanes : u # t => Sweep(u, l) # Sweep(t, l)
  BY DEF Sweep
<1>4. ASSUME NEW u \in Targets, NEW l \in Lanes, pc'[Sweep(u, l)] # "idle"
      PROVE  u <= epochNow'
  <2>1. CASE u = t
    BY <1>1, <2>1
  <2>2. CASE u # t
    <3>1. \A m \in Lanes : Sweep(u, l) # Sweep(t, m)
      BY <2>2 DEF Sweep
    <3>2. pc'[Sweep(u, l)] = pc[Sweep(u, l)]
      BY <3>1, ProcFacts DEF ClearDeviceBefore
    <3> QED BY <1>1, <1>4, <3>2 DEF EpochInv
  <2> QED BY <2>1, <2>2
<1> QED BY <1>1, <1>2, <1>4 DEF EpochInv

LEMMA LookKeepsEpochs ==
    ASSUME IInv, EpochInv, NEW t \in Targets, NEW l \in Lanes, SweepLook(t, l) PROVE EpochInv'
<1> DEFINE p == Sweep(t, l)
           e == on[p]
<1>1. p \in Procs /\ p \in Sweeps /\ pc[p] # "idle" /\ e \in Entries /\ t <= epochNow
  BY ProcFacts DEF IInv, Kinds, SweepLook, EpochInv
<1>2. ASSUME NEW v, Conclude(t, l, v) PROVE EpochInv'
  BY <1>2, ConcludeFrame, FrameKeepsEpochs
<1>3. ASSUME NEW f, NEW point \in {"waitStart", "waitStop"}, WaitFor(p, f, point),
             UNCHANGED <<mapVars, envVars>>
      PROVE  EpochInv'
  <2>1. Frame
    BY <1>1, <1>3 DEF WaitFor, Frame, Bystander, IInv, TypeOK, mapVars, envVars
  <2> QED BY <2>1, FrameKeepsEpochs
<1>4. ASSUME SweepVerdict(t, l) = "open", BeginStop(Closer(e), e),
             pc' = [pc EXCEPT ![p] = "await", ![Closer(e)] = "stopping"]
      PROVE  EpochInv'
  <2>1. UNCHANGED <<epoch, epochNow>> /\ state[e] # "Starting"
    BY <1>4 DEF BeginStop, envVars, Stoppable
  <2>2. epoch[e] \in Nat /\ t \in Nat /\ epochNow \in Nat
    BY <1>1, EpochAssumption DEF IInv, TypeOK, Epochs
  <2>3. 0 < epoch[e] /\ epoch[e] < t
    BY <1>4, <2>1, <2>2 DEF SweepVerdict
  <2>4. ASSUME NEW f \in Entries, pc'[Closer(f)] = "stopping"
        PROVE  0 < epoch'[f] /\ epoch'[f] < epochNow'
    <3>1. CASE f = e
      BY <1>1, <2>1, <2>2, <2>3, <3>1
    <3>2. CASE f # e
      <4>1. Closer(f) # Closer(e) /\ Closer(f) # p /\ Closer(f) \in Procs
        BY <1>1, <3>2, ProcFacts
      <4>2. pc[Closer(f)] = "stopping"
        BY <1>4, <2>4, <4>1 DEF IInv, TypeOK
      <4> QED BY <2>1, <4>2 DEF EpochInv
    <3> QED BY <3>1, <3>2
  <2>5. ASSUME NEW u \in Targets, NEW m \in Lanes, pc'[Sweep(u, m)] # "idle"
        PROVE  u <= epochNow'
    <3>1. Sweep(u, m) \in Procs /\ Sweep(u, m) # Closer(e)
      BY <1>1, ProcFacts
    <3>2. pc[Sweep(u, m)] # "idle"
      BY <1>1, <1>4, <2>5, <3>1 DEF IInv, TypeOK
    <3> QED BY <2>1, <3>2 DEF EpochInv
  <2> QED BY <2>4, <2>5 DEF EpochInv
<1> QED BY <1>2, <1>3, <1>4 DEF SweepLook

LEMMA NextKeepsEpochs == ASSUME IInv, EpochInv, Next PROVE EpochInv'
<1>1. ASSUME NEW t \in Targets, ClearDeviceBefore(t) \/ Cleanup(t) PROVE EpochInv'
  <2>1. ASSUME FinishJob(t) PROVE Frame
    BY <2>1 DEF FinishJob, Frame, Bystander, mapVars, envVars, procVars
  <2> QED BY <1>1, <2>1, ClearKeepsEpochs, LookKeepsEpochs, ConcludeFrame, FrameKeepsEpochs
          DEF Cleanup, SweepTimeout
<1>2. ASSUME NEW e \in Entries, NEW l \in Lanes, NEW n \in Nodes \cup {None}, Restore(e, l, n)
      PROVE  Frame
  BY <1>2 DEF Restore, Allocate, Frame, Bystander, procVars
<1>3. CASE BeginRecovery \/ FinishRecovery
  <2>1. Frame
    BY <1>3 DEF BeginRecovery, FinishRecovery, Frame, Bystander, envVars, procVars
  <2> QED BY <2>1, FrameKeepsEpochs
<1>4. CASE Transfer
  <2>1. /\ epochNow' = epochNow + 1 /\ epochNow \in Nat
        /\ UNCHANGED <<epoch, pc>>
    BY <1>4 DEF Transfer, mapVars, procVars, IInv, TypeOK, Epochs
  <2>2. \A e \in Entries : epoch[e] \in Nat
    BY EpochAssumption DEF IInv, TypeOK
  <2>3. \A t \in Targets : t \in Nat
    BY EpochAssumption
  <2> QED BY <2>1, <2>2, <2>3 DEF EpochInv
<1> QED BY <1>1, <1>2, <1>3, <1>4, CallFrame, RequesterFrame, CloserFrame, FrameKeepsEpochs
        DEF Next

\* A device cleanup never stops a generation of the device's current owner,
\* nor one whose epoch is unknown, whatever transfers happen meanwhile.
THEOREM CleanupSpares == Spec => []CleanupSparesNewer
<1>1. Init => EpochInv
  BY ProcFacts DEF Init, EpochInv
<1>2. IInv /\ EpochInv /\ [Next]_vars => EpochInv'
  <2>1. ASSUME EpochInv, UNCHANGED vars PROVE EpochInv'
    BY <2>1 DEF EpochInv, vars
  <2> QED BY <2>1, NextKeepsEpochs
<1>3. EpochInv => CleanupSparesNewer
  BY DEF EpochInv, CleanupSparesNewer
<1> QED BY <1>1, <1>2, <1>3, Invariance, PTL DEF Spec

-----------------------------------------------------------------------------
(* Recovery.                                                               *)

\* No start begins in this step, and the recovery gate does not close.
StartsNothing ==
    /\ \A e \in Entries : state'[e] = "Starting" => state[e] = "Starting"
    /\ recoveryPending' => recoveryPending

LEMMA StopStartsNothing ==
    ASSUME IInv, NEW p, NEW e, BeginStop(p, e) PROVE StartsNothing
BY DEF BeginStop, StartsNothing, IInv, TypeOK

LEMMA FinishStartsNothing ==
    ASSUME IInv, NEW e, NEW s \in Stoppable, NEW out, FinishStop(e, s, out) PROVE StartsNothing
BY DEF FinishStop, StartsNothing, IInv, TypeOK, Stoppable

LEMMA RequesterStarts ==
    ASSUME IInv, NEW p \in Requesters,
           Proceed(p) \/ StartReturns(p) \/ CancelWait(p)
               \/ \E out \in StopOutcomes : StopReturns(p, out)
    PROVE  StartsNothing \/ ~recoveryPending'
<1>1. CASE \E e \in Entries : EnsureCreate(p, e)
  BY <1>1 DEF EnsureCreate
<1>2. CASE \/ EnsureFind(p) \/ EnsureWoken(p) \/ Admit(p) \/ Publish(p)
           \/ StopFind(p) \/ StopWoken(p) \/ CancelWait(p)
  BY <1>2, StopStartsNothing DEF EnsureFind, EnsureWoken, Admit, Publish, StopFind, StopWoken,
     CancelWait, StartsNothing, mapVars
<1>3. CASE StartReturns(p)
  BY <1>3 DEF StartReturns, StartReady, StartFailed, StartPending, StartsNothing, IInv, TypeOK
<1>4. ASSUME NEW out \in StopOutcomes, StopReturns(p, out) PROVE StartsNothing
  <2>1. back[p] \in Stoppable
    BY ProcFacts DEF IInv, TypeOK
  <2> QED BY <1>4, <2>1, FinishStartsNothing DEF StopReturns
<1> QED BY <1>1, <1>2, <1>3, <1>4 DEF Proceed

LEMMA NextStarts ==
    ASSUME IInv, Next
    PROVE  StartsNothing \/ ~recoveryPending' \/ \A e \in Entries : state'[e] = "Unborn"
<1>1. ASSUME NEW c \in Callers, CallerStep(c) PROVE StartsNothing
  BY <1>1, StopStartsNothing DEF CallerStep, EnsureCall, StopCall, StopStream, StopIfCurrent,
     Call, StartsNothing, mapVars
<1>2. ASSUME NEW e \in Entries, NEW out \in StopOutcomes, CloserReturns(e, out)
      PROVE  StartsNothing
  <2>1. back[Closer(e)] \in Stoppable
    BY ProcFacts DEF IInv, TypeOK
  <2> QED BY <1>2, <2>1, FinishStartsNothing DEF CloserReturns
<1>3. ASSUME NEW e \in Entries, NEW l \in Lanes, NEW n \in Nodes \cup {None}, Restore(e, l, n)
      PROVE  StartsNothing
  BY <1>3 DEF Restore, Allocate, StartsNothing, IInv, TypeOK
<1>4. ASSUME NEW t \in Targets, ClearDeviceBefore(t) \/ Cleanup(t) PROVE StartsNothing
  BY <1>4, StopStartsNothing DEF ClearDeviceBefore, Cleanup, SweepLook, SweepTimeout, Conclude,
     FinishJob, StartsNothing, mapVars
<1>5. CASE BeginRecovery \/ FinishRecovery \/ Transfer
  BY <1>5 DEF BeginRecovery, FinishRecovery, Transfer, StartsNothing, mapVars
<1> QED BY <1>1, <1>2, <1>3, <1>4, <1>5, RequesterStarts DEF Next

\* While persisted ownership is being recovered no start is in flight.
THEOREM RecoveryExcludes == Spec => []RecoveryExcludesStarts
<1>1. Init => RecoveryExcludesStarts
  BY DEF Init, RecoveryExcludesStarts
<1>2. IInv /\ RecoveryExcludesStarts /\ [Next]_vars => RecoveryExcludesStarts'
  <2>1. ASSUME RecoveryExcludesStarts, UNCHANGED vars PROVE RecoveryExcludesStarts'
    BY <2>1 DEF RecoveryExcludesStarts, vars
  <2>2. ASSUME IInv, RecoveryExcludesStarts, Next PROVE RecoveryExcludesStarts'
    BY <2>2, NextStarts DEF RecoveryExcludesStarts, StartsNothing
  <2> QED BY <2>1, <2>2
<1> QED BY <1>1, <1>2, Invariance, PTL DEF Spec
-----------------------------------------------------------------------------
(* Reports of device cleanups.                                             *)

\* Generation e is tracked and was admitted before epoch t.
Old(e, t) == 0 < granted[e] /\ granted[e] < t /\ state[e] \in Held
Good == {"settled", "no-tracked-evidence"}

\* While a job runs, the lane of an older generation has a verdict that says so,
\* and what a report proves stays true.
CleanInv ==
    /\ \A e \in Entries : state[e] = "Unborn" => granted[e] = 0
    /\ \A t \in running : t <= epochNow
    /\ \A t \in Targets, l \in Lanes : pc[Sweep(t, l)] # "idle" =>
           lane[on[Sweep(t, l)]] = l /\ state[on[Sweep(t, l)]] # "Unborn"
    /\ \A t \in running, e \in Entries :
           Old(e, t) => verdict[t][lane[e]] \notin {"settled", "none"}
    /\ \A t \in Targets : report[t] \in Good => t <= epochNow /\ \A e \in Entries : ~Old(e, t)

\* What every step leaves alone but those of the job and the transfer.
Keeps ==
    /\ UNCHANGED <<running, report, epochNow>>
    /\ \A e \in Entries : granted'[e] = granted[e]
                             \/ (granted'[e] = epochNow /\ state[e] # "Unborn")
    /\ \A e \in Entries : state'[e] \in Held => state[e] \in Held \/ state[e] = "Unborn"
    /\ \A e \in Entries : state'[e] = "Unborn" => state[e] = "Unborn"
    /\ \A e \in Entries : lane'[e] = lane[e] \/ state[e] = "Unborn"
    /\ \A q \in Sweeps : pc'[q] # "idle" => pc[q] # "idle" /\ on'[q] = on[q]
    /\ \A t \in Targets, l \in Lanes : verdict'[t][l] \in {"settled", "none"} =>
           verdict'[t][l] = verdict[t][l] \/ slot'[l] = None

LEMMA KeepsClean == ASSUME IInv, IInv', CleanInv, Keeps PROVE CleanInv'
<1>1. \A e \in Entries : state'[e] = "Unborn" => granted'[e] = 0
  BY DEF Keeps, CleanInv
<1>2. \A t \in running' : t <= epochNow' /\ t \in running
  BY DEF Keeps, CleanInv
<1>3. \A t \in Targets, l \in Lanes : pc'[Sweep(t, l)] # "idle" =>
          lane'[on'[Sweep(t, l)]] = l /\ state'[on'[Sweep(t, l)]] # "Unborn"
  <2> TAKE t \in Targets, l \in Lanes
  <2> DEFINE q == Sweep(t, l)
  <2> HAVE pc'[q] # "idle"
  <2>1. q \in Sweeps /\ pc[q] # "idle" /\ on'[q] = on[q]
    BY ProcFacts DEF Keeps
  <2>2. on[q] \in Entries
    BY <2>1 DEF IInv, Kinds
  <2>3. lane[on[q]] = l /\ state[on[q]] # "Unborn"
    BY <2>1 DEF CleanInv
  <2> QED BY <2>1, <2>2, <2>3 DEF Keeps
<1>4. ASSUME NEW e \in Entries, NEW t \in Targets, t <= epochNow, Old(e, t)'
      PROVE  Old(e, t) /\ lane'[e] = lane[e]
  <2>1. granted[e] \in Nat /\ granted'[e] \in Nat /\ t \in Nat /\ epochNow \in Nat
    BY EpochAssumption DEF IInv, TypeOK, Epochs
  <2>2. granted'[e] = granted[e]
    BY <1>4, <2>1 DEF Keeps, Old
  <2>3. state[e] # "Unborn"
    BY <1>4, <2>2 DEF CleanInv, Old
  <2> QED BY <1>4, <2>2, <2>3 DEF Keeps, Old
<1>5. running \subseteq Targets
  BY DEF IInv, TypeOK
<1>6. ASSUME NEW t \in running', NEW e \in Entries, Old(e, t)',
             verdict'[t][lane'[e]] \in {"settled", "none"}
      PROVE  FALSE
  <2>1. Old(e, t) /\ lane'[e] = lane[e] /\ t \in running /\ t \in Targets
    BY <1>2, <1>4, <1>5, <1>6 DEF CleanInv
  <2>2. lane'[e] \in Lanes /\ slot'[lane'[e]] = e /\ e # None
    BY <1>6, NoneAssumption DEF IInv, SlotsHeld, Old
  <2>3. verdict[t][lane[e]] \in {"settled", "none"}
    BY <1>6, <2>1, <2>2 DEF Keeps
  <2> QED BY <2>1, <2>3 DEF CleanInv
<1>7. \A t \in Targets : report'[t] \in Good =>
          t <= epochNow' /\ \A e \in Entries : ~Old(e, t)'
  BY <1>4 DEF Keeps, CleanInv
<1> HIDE DEF Old
<1> QED BY <1>1, <1>2, <1>3, <1>6, <1>7 DEF CleanInv

LEMMA CallKeeps == ASSUME IInv, NEW c \in Callers, CallerStep(c) PROVE Keeps
BY ProcFacts DEF CallerStep, EnsureCall, StopCall, StopStream, StopIfCurrent, Call, BeginStop,
   Keeps, IInv, TypeOK, mapVars, envVars, jobVars, Held, Stoppable

LEMMA StayKeeps ==
    ASSUME IInv, NEW p \in Requesters, NEW e, NEW point,
           Return(p) \/ Serve(p, e) \/ WaitFor(p, e, point),
           UNCHANGED <<mapVars, envVars, jobVars>>
    PROVE  Keeps
BY ProcFacts DEF Return, Serve, WaitFor, Keeps, IInv, TypeOK, mapVars, envVars, jobVars

LEMMA StopKeeps ==
    ASSUME IInv, NEW p \in Requesters, NEW e, BeginStop(p, e),
           pc' = [pc EXCEPT ![p] = "stopping"], on' = [on EXCEPT ![p] = e],
           UNCHANGED jobVars
    PROVE  Keeps
BY ProcFacts DEF BeginStop, Keeps, IInv, TypeOK, envVars, jobVars, Held, Stoppable

\* A start or a stop that ends wakes no sweep that is idle.
LEMMA CloseWakes ==
    ASSUME IInv, NEW p \in Requesters, NEW e, NEW point, NEW go \in SUBSET Requesters,
           CloseDone(p, e, point, go)
    PROVE  \A q \in Sweeps : pc'[q] # "idle" => pc[q] # "idle"
<1>1. \A q \in Sweeps : q \in Procs /\ pc'[q] = Woken(e, q)
  BY ProcFacts DEF CloseDone
<1> QED BY <1>1, WokenFacts DEF IInv

LEMMA CloseKeeps ==
    ASSUME IInv, \A q \in Sweeps : on'[q] = on[q] /\ (pc'[q] # "idle" => pc[q] # "idle"),
           UNCHANGED <<lane, granted, epochNow, verdict, running, report>>,
           NEW f \in Entries, state[f] # "Unborn", NEW s, s # "Unborn",
           s \in Held => state[f] \in Held,
           state' = [state EXCEPT ![f] = s]
    PROVE  Keeps
BY DEF Keeps, IInv, TypeOK

LEMMA RequesterKeeps ==
    ASSUME IInv, NEW p \in Requesters,
           Proceed(p) \/ StartReturns(p) \/ CancelWait(p)
               \/ \E out \in StopOutcomes : StopReturns(p, out)
    PROVE  Keeps
<1> DEFINE e == on[p]
<1>0. p \in Procs /\ \A q \in Sweeps : q # p /\ q \in Procs
  BY ProcFacts
<1>1. ASSUME NEW f \in Entries, EnsureCreate(p, f) PROVE Keeps
  BY <1>1, ProcFacts DEF EnsureCreate, Allocate, WaitFor, Keeps, IInv, TypeOK, envVars, jobVars, Held
<1>2. CASE EnsureFind(p)
  BY <1>2, StayKeeps, StopKeeps DEF EnsureFind
<1>3. CASE EnsureWoken(p)
  BY <1>3, StayKeeps DEF EnsureWoken
<1>4. ASSUME Admit(p) \/ Publish(p) \/ StartReturns(p)
      PROVE  e \in Entries /\ state[e] = "Starting"
  BY <1>0, <1>4 DEF Admit, Publish, StartReturns, StartReady, StartFailed, StartPending, IInv,
     ActorsMatch, Starters
<1>5. CASE Admit(p)
  BY <1>0, <1>4, <1>5 DEF Admit, Keeps, IInv, TypeOK, mapVars, jobVars
<1>6. CASE Publish(p)
  BY <1>0, <1>6 DEF Publish, Keeps, IInv, TypeOK, jobVars
<1>7. CASE StopFind(p)
  BY <1>7, StayKeeps, StopKeeps DEF StopFind
<1>8. CASE StopWoken(p)
  BY <1>8, StayKeeps DEF StopWoken
<1>9. CASE StartReturns(p)
  <2>1. e \in Entries /\ state[e] = "Starting" /\ state[e] \in Held
    BY <1>4, <1>9 DEF Held
  <2>2. {Retry(e)} \in SUBSET Requesters
    BY <2>1, ProcFacts
  <2>3. ASSUME NEW m \in Nodes \cup {None}, StartReady(p, m) PROVE Keeps
    <3>1. state' = [state EXCEPT ![e] = "Ready"]
          /\ CloseDone(p, e, "served", {}) /\ UNCHANGED <<lane, granted, epochNow, jobVars, on>>
      BY <2>3 DEF StartReady, envVars
    <3>2. \A q \in Sweeps : on'[q] = on[q] /\ (pc'[q] # "idle" => pc[q] # "idle")
      BY <3>1, CloseWakes
    <3> QED BY <2>1, <3>1, <3>2, CloseKeeps DEF jobVars
  <2>4. CASE StartFailed(p)
    <3>1. /\ state' = [state EXCEPT ![e] = "Idle"]
          /\ CloseDone(p, e, "idle", {}) /\ UNCHANGED <<lane, granted, epochNow, jobVars>>
          /\ on' = [on EXCEPT ![p] = None]
      BY <2>4 DEF StartFailed
    <3>2. \A q \in Sweeps : on'[q] = on[q]
      BY <1>0, <3>1 DEF IInv, TypeOK
    <3>3. \A q \in Sweeps : pc'[q] # "idle" => pc[q] # "idle"
      BY <3>1, CloseWakes
    <3> QED BY <2>1, <3>1, <3>2, <3>3, CloseKeeps DEF jobVars
  <2>5. CASE StartPending(p)
    <3>1. /\ state' = [state EXCEPT ![e] = "CleanupPending"]
          /\ CloseDone(p, e, "idle", {Retry(e)}) /\ UNCHANGED <<lane, granted, epochNow, jobVars>>
          /\ on' = [on EXCEPT ![p] = None]
      BY <2>5 DEF StartPending, envVars
    <3>2. \A q \in Sweeps : on'[q] = on[q]
      BY <1>0, <3>1 DEF IInv, TypeOK
    <3>3. \A q \in Sweeps : pc'[q] # "idle" => pc[q] # "idle"
      BY <2>2, <3>1, CloseWakes
    <3> QED BY <2>1, <3>1, <3>2, <3>3, CloseKeeps DEF jobVars
  <2> QED BY <1>9, <2>3, <2>4, <2>5 DEF StartReturns
<1>10. CASE CancelWait(p)
  BY <1>10, StayKeeps DEF CancelWait
<1>11. ASSUME NEW out \in StopOutcomes, StopReturns(p, out) PROVE Keeps
  <2> DEFINE s == IF Terminal(out) THEN "Idle" ELSE back[p]
             point == IF req[p].op = "ensure" /\ out = "ok" THEN "look" ELSE "idle"
  <2>1. e \in Entries /\ state[e] = "Stopping" /\ state[e] \in Held
    BY <1>0, <1>11 DEF StopReturns, IInv, ActorsMatch, Held
  <2>2. back[p] \in Stoppable
    BY <1>0 DEF IInv, TypeOK
  <2>3. s # "Unborn"
    BY <2>2 DEF Stoppable
  <2>4. /\ state' = [state EXCEPT ![e] = s]
        /\ CloseDone(p, e, point, {}) /\ UNCHANGED <<lane, granted, epochNow, jobVars>>
        /\ on' = [on EXCEPT ![p] = None]
    BY <1>11 DEF StopReturns, FinishStop
  <2>5. \A q \in Sweeps : on'[q] = on[q]
    BY <1>0, <2>4 DEF IInv, TypeOK
  <2> HIDE DEF s, point
  <2>6. \A q \in Sweeps : pc'[q] # "idle" => pc[q] # "idle"
    BY <2>4, CloseWakes
  <2> QED BY <2>1, <2>3, <2>4, <2>5, <2>6, CloseKeeps DEF jobVars
<1> QED BY <1>1, <1>2, <1>3, <1>5, <1>6, <1>7, <1>8, <1>9, <1>10, <1>11 DEF Proceed

LEMMA ConcludeKeeps ==
    ASSUME IInv, NEW t \in Targets, NEW l \in Lanes, NEW v \in Verdicts \ {"settled", "none"},
           Conclude(t, l, v) \/ (Conclude(t, l, "settled") /\ slot[l] = None)
    PROVE  Keeps
<1>1. Sweep(t, l) \in Procs
  BY ProcFacts
<1>2. \A q \in Sweeps : pc'[q] # "idle" => pc[q] # "idle" /\ on'[q] = on[q]
  BY <1>1, ProcFacts DEF Conclude, IInv, TypeOK
<1>3. \A u \in Targets, m \in Lanes : verdict'[u][m] \in {"settled", "none"} =>
          verdict'[u][m] = verdict[u][m] \/ slot'[m] = None
  BY DEF Conclude, IInv, TypeOK, mapVars
<1> QED BY <1>2, <1>3 DEF Conclude, Keeps, mapVars, envVars

LEMMA LookKeeps ==
    ASSUME IInv, NEW t \in Targets, NEW l \in Lanes, SweepLook(t, l) \/ SweepTimeout(t, l)
    PROVE  Keeps
<1> DEFINE p == Sweep(t, l)
           e == on[p]
           v == SweepVerdict(t, l)
<1>1. p \in Procs /\ p \in Sweeps /\ e \in Entries /\ Closer(e) \in Procs
      /\ \A q \in Sweeps : q # Closer(e)
  BY ProcFacts DEF IInv, Kinds, SweepLook, SweepTimeout
<1>2. CASE SweepTimeout(t, l)
  BY <1>2, ConcludeKeeps DEF SweepTimeout, Verdicts
<1>3. CASE v # "open" /\ Conclude(t, l, v)
  <2>1. v = "settled" => slot[l] = None
    BY DEF SweepVerdict
  <2>2. v \in Verdicts \ {"none"}
    BY DEF SweepVerdict, Verdicts
  <2> HIDE DEF v
  <2> QED BY <1>3, <2>1, <2>2, ConcludeKeeps DEF Verdicts
<1>4. ASSUME NEW point \in {"waitStart", "waitStop"}, WaitFor(p, e, point),
             UNCHANGED <<mapVars, envVars, jobVars>>, pc[p] # "idle"
      PROVE  Keeps
  BY <1>1, <1>4 DEF WaitFor, Keeps, IInv, TypeOK, mapVars, envVars, jobVars
<1>5. ASSUME BeginStop(Closer(e), e), pc[p] # "idle",
             pc' = [pc EXCEPT ![p] = "await", ![Closer(e)] = "stopping"],
             on' = [on EXCEPT ![Closer(e)] = e], UNCHANGED jobVars
      PROVE  Keeps
  <2>1. \A q \in Sweeps : q \in Procs
    BY ProcFacts
  <2>2. \A q \in Sweeps : on'[q] = on[q] /\ (pc'[q] # "idle" => pc[q] # "idle")
    BY <1>1, <1>5, <2>1 DEF IInv, TypeOK
  <2>3. state[e] \in Held /\ state[e] # "Unborn" /\ state' = [state EXCEPT ![e] = "Stopping"]
        /\ UNCHANGED <<lane, granted, epochNow, verdict, running, report>>
    BY <1>5 DEF BeginStop, envVars, jobVars, Held, Stoppable
  <2> QED BY <1>1, <2>2, <2>3, CloseKeeps
<1>6. CASE SweepLook(t, l)
  BY <1>3, <1>4, <1>5, <1>6 DEF SweepLook
<1> QED BY <1>2, <1>6

LEMMA CloserKeeps ==
    ASSUME IInv, CleanInv, NEW e \in Entries, NEW out \in StopOutcomes, CloserReturns(e, out)
    PROVE  Keeps
<1> DEFINE p == Closer(e)
           s == IF Terminal(out) THEN "Idle" ELSE back[p]
           waiting == {q \in Sweeps : pc[q] = "await" /\ on[q] = e}
<1>1. p \in Procs /\ pc[p] = "stopping" /\ on[p] = e /\ \A q \in Sweeps : q # p /\ q \in Procs
  BY ProcFacts DEF CloserReturns, IInv, Kinds
<1>2. state[e] = "Stopping" /\ state[e] \in Held /\ back[p] \in Stoppable
  BY <1>1 DEF IInv, ActorsMatch, TypeOK, Held
<1>3. lane[e] \in Lanes /\ slot[lane[e]] = e
  BY <1>2 DEF IInv, SlotsHeld
<1>4. state' = [state EXCEPT ![e] = s]
      /\ UNCHANGED <<lane, granted, epochNow, running, report>>
  BY DEF CloserReturns, FinishStop
<1>5. s # "Unborn"
  BY <1>2 DEF Stoppable
<1>6. \A q \in Sweeps : pc'[q] # "idle" => pc[q] # "idle" /\ on'[q] = on[q]
  BY <1>1, WokenFacts DEF CloserReturns, IInv
<1>7. ASSUME NEW t \in Targets, NEW l \in Lanes, verdict'[t][l] \in {"settled", "none"},
             verdict'[t][l] # verdict[t][l]
      PROVE  slot'[l] = None
  <2>1. Sweep(t, l) \in waiting /\ Terminal(out)
    BY <1>7 DEF CloserReturns
  <2>2. lane[e] = l
    BY <2>1, ProcFacts DEF CleanInv
  <2>3. slot' = Drop(e)
    BY <2>1 DEF CloserReturns, FinishStop
  <2> QED BY <1>3, <2>2, <2>3 DEF Drop, IInv, TypeOK
<1> HIDE DEF s
<1> QED BY <1>2, <1>4, <1>5, <1>6, <1>7 DEF Keeps, IInv, TypeOK

\* A job begins: every tracked lane is a candidate.
LEMMA ClearKeepsClean ==
    ASSUME IInv, IInv', CleanInv, NEW t \in Targets, ClearDeviceBefore(t) PROVE CleanInv'
<1>1. UNCHANGED <<slot, state, lane, granted, epochNow, report>>
      /\ t <= epochNow /\ running' = running \cup {t}
  BY DEF ClearDeviceBefore, mapVars, envVars
<1>2. \A e \in Entries, u \in Targets : Old(e, u)' <=> Old(e, u)
  BY <1>1 DEF Old
<1>3. \A u \in Targets \ {t} : verdict'[u] = verdict[u]
  BY DEF ClearDeviceBefore, IInv, TypeOK
<1>4. \A l \in Lanes : verdict'[t][l] = IF slot[l] = None THEN "none" ELSE "open"
  BY DEF ClearDeviceBefore, IInv, TypeOK
<1>5. ASSUME NEW u \in Targets, NEW l \in Lanes, pc'[Sweep(u, l)] # "idle"
      PROVE  lane'[on'[Sweep(u, l)]] = l /\ state'[on'[Sweep(u, l)]] # "Unborn"
  <2> DEFINE q == Sweep(u, l)
  <2>0. q \in Procs /\ q[2][2] = l
    BY ProcFacts DEF Sweep
  <2>1. CASE \E m \in Lanes : slot[m] # None /\ q = Sweep(t, m)
    <3>1. PICK m \in Lanes : slot[m] # None /\ q = Sweep(t, m)
      BY <2>1
    <3>2. m = l /\ slot[l] # None
      BY <3>1 DEF Sweep
    <3>3. on'[q] = slot[l]
      BY <2>0, <2>1 DEF ClearDeviceBefore
    <3> QED BY <1>1, <3>2, <3>3 DEF IInv, SlotsHeld, Held
  <2>2. CASE ~\E m \in Lanes : slot[m] # None /\ q = Sweep(t, m)
    <3>1. pc'[q] = pc[q] /\ on'[q] = on[q]
      BY <2>0, <2>2 DEF ClearDeviceBefore
    <3> QED BY <1>1, <1>5, <3>1 DEF CleanInv
  <2> QED BY <2>1, <2>2
<1>6. ASSUME NEW u \in running', NEW e \in Entries, Old(e, u)'
      PROVE  verdict'[u][lane'[e]] \notin {"settled", "none"}
  <2>1. u \in Targets /\ Old(e, u)
    BY <1>1, <1>2, <1>6 DEF IInv, TypeOK
  <2>2. lane[e] \in Lanes /\ slot[lane[e]] = e /\ e # None
    BY <2>1, NoneAssumption DEF IInv, SlotsHeld, Old
  <2>3. CASE u = t
    BY <1>1, <1>4, <2>2, <2>3
  <2>4. CASE u # t
    BY <1>1, <1>3, <2>1, <2>4 DEF CleanInv
  <2> QED BY <2>3, <2>4
<1>7. \A u \in Targets : report'[u] \in Good => u <= epochNow' /\ \A e \in Entries : ~Old(e, u)'
  BY <1>1, <1>2 DEF CleanInv
<1>8. \A u \in running' : u <= epochNow'
  BY <1>1 DEF CleanInv
<1>9. \A e \in Entries : state'[e] = "Unborn" => granted'[e] = 0
  BY <1>1 DEF CleanInv
<1> QED BY <1>5, <1>6, <1>7, <1>8, <1>9 DEF CleanInv

\* A job reports.
LEMMA FinishKeepsClean ==
    ASSUME IInv, CleanInv, NEW t \in Targets, FinishJob(t) PROVE CleanInv'
<1>1. /\ t \in running /\ running' = running \ {t}
      /\ UNCHANGED <<slot, state, lane, granted, epochNow, pc, on>>
      /\ \A u \in Targets \ {t} : verdict'[u] = verdict[u] /\ report'[u] = report[u]
      /\ report'[t] = DeviceCleanupStatus(t)
  BY DEF FinishJob, mapVars, envVars, procVars, IInv, TypeOK
<1>2. \A e \in Entries, u \in Targets : Old(e, u)' <=> Old(e, u)
  BY <1>1 DEF Old
<1>3. ASSUME report'[t] \in Good, NEW e \in Entries, Old(e, t) PROVE FALSE
  <2>1. lane[e] \in Lanes /\ verdict[t][lane[e]] \notin {"settled", "none"}
    BY <1>1, <1>3 DEF CleanInv, IInv, SlotsHeld, Old
  <2>2. verdict[t][lane[e]] \in Verdicts \ {"settled", "none", "open"}
    BY <2>1 DEF IInv, TypeOK, FinishJob
  <2> QED BY <1>1, <1>3, <2>1, <2>2 DEF DeviceCleanupStatus, Good, Verdicts
<1>4. running' \subseteq Targets
  BY <1>1 DEF IInv, TypeOK
<1>5. \A u \in running', e \in Entries :
          Old(e, u)' => verdict'[u][lane'[e]] \notin {"settled", "none"}
  BY <1>1, <1>2, <1>4 DEF CleanInv
<1>6. \A u \in Targets : report'[u] \in Good => u <= epochNow' /\ \A e \in Entries : ~Old(e, u)'
  BY <1>1, <1>2, <1>3 DEF CleanInv
<1>7. \A u \in Targets, l \in Lanes : pc'[Sweep(u, l)] # "idle" =>
           lane'[on'[Sweep(u, l)]] = l /\ state'[on'[Sweep(u, l)]] # "Unborn"
  BY <1>1 DEF CleanInv
<1> QED BY <1>1, <1>5, <1>6, <1>7 DEF CleanInv

LEMMA NextKeepsClean == ASSUME IInv, IInv', CleanInv, Next PROVE CleanInv'
<1>1. ASSUME NEW t \in Targets, ClearDeviceBefore(t) \/ Cleanup(t) PROVE CleanInv'
  BY <1>1, ClearKeepsClean, FinishKeepsClean, LookKeeps, KeepsClean DEF Cleanup
<1>2. ASSUME NEW e \in Entries, NEW l \in Lanes, NEW n \in Nodes \cup {None}, Restore(e, l, n)
      PROVE  Keeps
  BY <1>2 DEF Restore, Allocate, Keeps, procVars, jobVars, IInv, TypeOK, Held
<1>3. CASE BeginRecovery \/ FinishRecovery
  <2>1. Keeps
    BY <1>3 DEF BeginRecovery, FinishRecovery, Keeps, envVars, procVars, jobVars
  <2> QED BY <2>1, KeepsClean
<1>4. CASE Transfer
  <2>1. /\ epochNow' = epochNow + 1 /\ epochNow \in Nat
        /\ UNCHANGED <<granted, state, lane, pc, on, running, report, verdict>>
    BY <1>4 DEF Transfer, mapVars, procVars, jobVars, IInv, TypeOK, Epochs
  <2>2. \A t \in Targets : t \in Nat
    BY EpochAssumption
  <2>3. running \subseteq Targets
    BY DEF IInv, TypeOK
  <2> QED BY <2>1, <2>2, <2>3 DEF CleanInv, Old
<1> QED BY <1>1, <1>2, <1>3, <1>4, CallKeeps, RequesterKeeps, CloserKeeps, KeepsClean DEF Next

\* A cleanup that reports "settled" or "no tracked evidence" proves that no generation
\* admitted under an earlier epoch is tracked, then or later.
THEOREM ClearedIsGone == Spec => []ClearedMeansGone
<1>1. Init => CleanInv
  BY ProcFacts DEF Init, CleanInv, Good, Held, Old
<1>2. IInv /\ IInv' /\ CleanInv /\ [Next]_vars => CleanInv'
  <2>1. ASSUME CleanInv, UNCHANGED vars PROVE CleanInv'
    BY <2>1 DEF CleanInv, Old, vars
  <2> QED BY <2>1, NextKeepsClean
<1>3. CleanInv => ClearedMeansGone
  BY DEF CleanInv, ClearedMeansGone, Good, Old
<1> QED BY <1>1, <1>2, <1>3, Invariance, PTL DEF Spec

-----------------------------------------------------------------------------
(* Candidates of device cleanups.                                          *)

\* A candidate without a verdict has a goroutine of its own, and no goroutine
\* survives its job; one that awaits a stop does so while that stop runs.
CandidatesAreAttended ==
    /\ \A t \in Targets, l \in Lanes :
           pc[Sweep(t, l)] # "idle" <=> t \in running /\ verdict[t][l] = "open"
    /\ \A t \in Targets \ running, l \in Lanes : verdict[t][l] = "none"
    /\ \A p \in Sweeps : pc[p] = "await" => pc[Closer(on[p])] = "stopping"

\* What the steps of requests leave alone of a cleanup's goroutines.
JobFrame ==
    /\ UNCHANGED <<verdict, running>>
    /\ \A q \in Closers \cup Sweeps :
           /\ on'[q] = on[q]
           /\ pc'[q] = pc[q] \/ (pc[q] = "waitStart" /\ pc'[q] = "wokeStart")
                             \/ (pc[q] = "waitStop" /\ pc'[q] = "wokeStop")

LEMMA FrameAttends == ASSUME IInv, CandidatesAreAttended, JobFrame PROVE CandidatesAreAttended'
<1>1. \A t \in Targets, l \in Lanes : pc'[Sweep(t, l)] # "idle" <=> pc[Sweep(t, l)] # "idle"
  BY ProcFacts DEF JobFrame
<1>2. ASSUME NEW p \in Sweeps, pc'[p] = "await" PROVE pc'[Closer(on'[p])] = "stopping"
  <2>1. pc[p] = "await" /\ on'[p] = on[p]
    BY <1>2 DEF JobFrame
  <2>2. on[p] \in Entries /\ pc[Closer(on[p])] = "stopping"
    BY <2>1 DEF IInv, Kinds, CandidatesAreAttended
  <2> QED BY <2>1, <2>2, ProcFacts DEF JobFrame
<1> QED BY <1>1, <1>2 DEF CandidatesAreAttended, JobFrame

\* p alone moves.
LEMMA MoveFrames ==
    ASSUME IInv, NEW p \in Requesters, NEW n, NEW x, NEW y,
           pc' = pc \/ pc' = [pc EXCEPT ![p] = n], on' = on \/ on' = [on EXCEPT ![p] = x],
           UNCHANGED jobVars
    PROVE  JobFrame
BY ProcFacts DEF JobFrame, IInv, TypeOK, jobVars

\* p closes a done channel.
LEMMA CloseFrames ==
    ASSUME IInv, NEW p \in Requesters, NEW e, NEW point, NEW go \in SUBSET Requesters, NEW x,
           CloseDone(p, e, point, go), on' = on \/ on' = [on EXCEPT ![p] = x], UNCHANGED jobVars
    PROVE  JobFrame
<1>1. \A q \in Closers \cup Sweeps : q \in Procs /\ pc'[q] = Woken(e, q)
  BY ProcFacts DEF CloseDone
<1>2. \A q \in Closers \cup Sweeps : on'[q] = on[q]
  BY ProcFacts DEF IInv, TypeOK
<1> QED BY <1>1, <1>2, WokenFacts DEF JobFrame, IInv, jobVars

LEMMA RequesterFrames ==
    ASSUME IInv, NEW p \in Requesters,
           Proceed(p) \/ StartReturns(p) \/ CancelWait(p)
               \/ \E out \in StopOutcomes : StopReturns(p, out)
    PROVE  JobFrame
<1>1. CASE Proceed(p) \/ CancelWait(p)
  <2>1. UNCHANGED jobVars
    BY <1>1 DEF Proceed, CancelWait, EnsureCreate, EnsureFind, EnsureWoken, Admit, Publish,
       StopFind, StopWoken
  <2>2. /\ pc' = pc \/ \E n : pc' = [pc EXCEPT ![p] = n]
        /\ on' = on \/ \E x : on' = [on EXCEPT ![p] = x]
    BY <1>1 DEF Proceed, CancelWait, EnsureCreate, EnsureFind, EnsureWoken, Admit, Publish,
       StopFind, StopWoken, Return, Serve, WaitFor
  <2> QED BY <2>1, <2>2, MoveFrames
<1>2. ASSUME NEW m \in Nodes \cup {None}, StartReady(p, m) PROVE JobFrame
  BY <1>2, CloseFrames DEF StartReady
<1>3. CASE StartFailed(p)
  BY <1>3, CloseFrames DEF StartFailed
<1>4. CASE StartPending(p)
  <2>1. {Retry(on[p])} \in SUBSET Requesters
    BY <1>4, ProcFacts DEF StartPending, IInv, ActorsMatch, Starters
  <2> QED BY <1>4, <2>1, CloseFrames DEF StartPending
<1>5. ASSUME NEW out \in StopOutcomes, StopReturns(p, out) PROVE JobFrame
  BY <1>5, CloseFrames DEF StopReturns
<1> QED BY <1>1, <1>2, <1>3, <1>4, <1>5 DEF StartReturns

LEMMA OtherFrames ==
    ASSUME IInv,
           \/ \E c \in Callers : CallerStep(c)
           \/ \E e \in Entries, l \in Lanes, n \in Nodes \cup {None} : Restore(e, l, n)
           \/ BeginRecovery \/ FinishRecovery \/ Transfer
    PROVE  JobFrame
<1>1. ASSUME NEW c \in Callers, CallerStep(c) PROVE JobFrame
  <2>1. UNCHANGED jobVars
    BY <1>1 DEF CallerStep, EnsureCall, StopCall, StopStream, StopIfCurrent, Call
  <2>2. \E n, x : pc' = [pc EXCEPT ![Caller(c)] = n] /\ on' = [on EXCEPT ![Caller(c)] = x]
    BY <1>1 DEF CallerStep, EnsureCall, StopCall, StopStream, StopIfCurrent, Call
  <2> QED BY <2>1, <2>2, ProcFacts, MoveFrames
<1>2. ASSUME UNCHANGED <<procVars, jobVars>> PROVE JobFrame
  BY <1>2 DEF procVars, jobVars, JobFrame
<1> QED BY <1>1, <1>2 DEF Restore, BeginRecovery, FinishRecovery, Transfer

LEMMA ClearAttends ==
    ASSUME IInv, CandidatesAreAttended, NEW t \in Targets, ClearDeviceBefore(t)
    PROVE  CandidatesAreAttended'
<1>1. /\ t \notin running /\ running' = running \cup {t}
      /\ \A u \in Targets \ {t} : verdict'[u] = verdict[u]
      /\ \A l \in Lanes : verdict'[t][l] = IF slot[l] = None THEN "none" ELSE "open"
  BY DEF ClearDeviceBefore, IInv, TypeOK
<1>2. \A u \in Targets, l \in Lanes, m \in Lanes : Sweep(u, l) = Sweep(t, m) => u = t /\ l = m
  BY DEF Sweep
<1>3. \A l \in Lanes : pc[Sweep(t, l)] = "idle"
  BY <1>1 DEF CandidatesAreAttended
<1>4. \A l \in Lanes : pc'[Sweep(t, l)] = IF slot[l] = None THEN "idle" ELSE "look"
  BY <1>2, <1>3, ProcFacts DEF ClearDeviceBefore
<1>5. \A u \in Targets \ {t}, l \in Lanes :
          pc'[Sweep(u, l)] = pc[Sweep(u, l)] /\ on'[Sweep(u, l)] = on[Sweep(u, l)]
  BY <1>2, ProcFacts DEF ClearDeviceBefore
<1>6. \A e \in Entries : pc'[Closer(e)] = pc[Closer(e)]
  BY ProcFacts DEF ClearDeviceBefore
<1>7. ASSUME NEW p \in Sweeps, pc'[p] = "await" PROVE pc'[Closer(on'[p])] = "stopping"
  <2>1. PICK u \in Targets, l \in Lanes : p = Sweep(u, l)
    BY DEF Sweeps
  <2>2. u # t
    BY <1>4, <1>7, <2>1
  <2>3. pc[p] = "await" /\ on'[p] = on[p]
    BY <1>5, <1>7, <2>1, <2>2
  <2>4. on[p] \in Entries
    BY <2>3 DEF IInv, Kinds
  <2> QED BY <1>6, <2>3, <2>4 DEF CandidatesAreAttended
<1>8. ASSUME NEW u \in Targets, NEW l \in Lanes
      PROVE  pc'[Sweep(u, l)] # "idle" <=> u \in running' /\ verdict'[u][l] = "open"
  <2>1. CASE u = t
    BY <1>1, <1>4, <2>1
  <2>2. CASE u # t
    BY <1>1, <1>5, <2>2 DEF CandidatesAreAttended
  <2> QED BY <2>1, <2>2
<1>9. \A u \in Targets \ running', l \in Lanes : verdict'[u][l] = "none"
  BY <1>1 DEF CandidatesAreAttended
<1> QED BY <1>7, <1>8, <1>9 DEF CandidatesAreAttended

LEMMA ConcludeAttends ==
    ASSUME IInv, CandidatesAreAttended, NEW t \in Targets, NEW l \in Lanes,
           NEW v, v # "open", pc[Sweep(t, l)] # "idle", Conclude(t, l, v)
    PROVE  CandidatesAreAttended'
<1>1. /\ t \in running /\ running' = running
      /\ verdict'[t][l] = v
      /\ \A u \in Targets, m \in Lanes : (u # t \/ m # l) => verdict'[u][m] = verdict[u][m]
  BY DEF Conclude, IInv, TypeOK, CandidatesAreAttended
<1>2. \A u \in Targets, m \in Lanes : Sweep(u, m) = Sweep(t, l) => u = t /\ m = l
  BY DEF Sweep
<1>3. /\ pc'[Sweep(t, l)] = "idle"
      /\ \A q \in Procs \ {Sweep(t, l)} : pc'[q] = pc[q] /\ on'[q] = on[q]
  BY ProcFacts DEF Conclude, IInv, TypeOK
<1>4. ASSUME NEW p \in Sweeps, pc'[p] = "await" PROVE pc'[Closer(on'[p])] = "stopping"
  <2>1. p \in Procs \ {Sweep(t, l)}
    BY <1>3, <1>4, ProcFacts
  <2>2. pc[p] = "await" /\ on'[p] = on[p]
    BY <1>3, <1>4, <2>1
  <2>3. on[p] \in Entries /\ pc[Closer(on[p])] = "stopping"
    BY <2>2 DEF IInv, Kinds, CandidatesAreAttended
  <2>4. Closer(on[p]) \in Procs \ {Sweep(t, l)}
    BY <2>3, ProcFacts
  <2> QED BY <1>3, <2>2, <2>3, <2>4
<1>5. ASSUME NEW u \in Targets, NEW m \in Lanes
      PROVE  pc'[Sweep(u, m)] # "idle" <=> u \in running' /\ verdict'[u][m] = "open"
  <2>1. CASE u = t /\ m = l
    BY <1>1, <1>3, <2>1
  <2>2. CASE u # t \/ m # l
    <3>1. Sweep(u, m) \in Procs \ {Sweep(t, l)}
      BY <1>2, <2>2, ProcFacts
    <3> QED BY <1>1, <1>3, <2>2, <3>1 DEF CandidatesAreAttended
  <2> QED BY <2>1, <2>2
<1>6. \A u \in Targets \ running', m \in Lanes : verdict'[u][m] = "none"
  BY <1>1 DEF CandidatesAreAttended
<1> QED BY <1>4, <1>5, <1>6 DEF CandidatesAreAttended

LEMMA LookAttends ==
    ASSUME IInv, CandidatesAreAttended, NEW t \in Targets, NEW l \in Lanes,
           SweepLook(t, l) \/ SweepTimeout(t, l)
    PROVE  CandidatesAreAttended'
<1> DEFINE p == Sweep(t, l)
           e == on[p]
<1>1. p \in Procs /\ p \in Sweeps /\ pc[p] # "idle" /\ e \in Entries
      /\ Closer(e) \in Procs /\ Closer(e) # p
  BY ProcFacts DEF IInv, Kinds, SweepLook, SweepTimeout
<1>2. CASE SweepTimeout(t, l)
  BY <1>1, <1>2, ConcludeAttends DEF SweepTimeout
<1>3. ASSUME NEW v, v # "open", Conclude(t, l, v) PROVE CandidatesAreAttended'
  BY <1>1, <1>3, ConcludeAttends
<1>4. ASSUME NEW n, n # "idle",
             pc' = [pc EXCEPT ![p] = n] \/ pc' = [pc EXCEPT ![p] = n, ![Closer(e)] = "stopping"],
             n = "await" => pc'[Closer(e)] = "stopping",
             \A q \in Sweeps : on'[q] = on[q], UNCHANGED jobVars
      PROVE  CandidatesAreAttended'
  <2>1. pc'[p] = n /\ \A q \in Procs \ {p} : pc'[q] = pc[q] \/ (q = Closer(e) /\ pc'[q] = "stopping")
    BY <1>1, <1>4 DEF IInv, TypeOK
  <2>2. \A q \in Sweeps : pc'[q] # "idle" <=> pc[q] # "idle"
    BY <1>1, <1>4, <2>1, ProcFacts
  <2>3. ASSUME NEW q \in Sweeps, pc'[q] = "await" PROVE pc'[Closer(on'[q])] = "stopping"
    <3>1. CASE q = p
      BY <1>1, <1>4, <2>1, <2>3, <3>1
    <3>2. CASE q # p
      <4>1. pc[q] = "await" /\ on'[q] = on[q] /\ on[q] \in Entries
        BY <1>1, <1>4, <2>1, <2>3, <3>2, ProcFacts DEF IInv, Kinds
      <4>2. pc[Closer(on[q])] = "stopping" /\ Closer(on[q]) \in Procs \ {p}
        BY <1>1, <4>1, ProcFacts DEF CandidatesAreAttended
      <4> QED BY <2>1, <4>1, <4>2
    <3> QED BY <3>1, <3>2
  <2>4. \A u \in Targets, m \in Lanes : Sweep(u, m) \in Sweeps
    BY ProcFacts
  <2> QED BY <1>4, <2>2, <2>3, <2>4 DEF CandidatesAreAttended, jobVars
<1>5. ASSUME NEW point \in {"waitStart", "waitStop"}, WaitFor(p, e, point), UNCHANGED jobVars
      PROVE  CandidatesAreAttended'
  <2>1. \A q \in Sweeps : on'[q] = on[q]
    BY <1>5, ProcFacts DEF WaitFor, IInv, TypeOK
  <2> QED BY <1>4, <1>5, <2>1 DEF WaitFor
<1>6. ASSUME pc' = [pc EXCEPT ![p] = "await", ![Closer(e)] = "stopping"],
             on' = [on EXCEPT ![Closer(e)] = e], UNCHANGED jobVars
      PROVE  CandidatesAreAttended'
  <2>1. \A q \in Sweeps : on'[q] = on[q]
    BY <1>1, <1>6, ProcFacts DEF IInv, TypeOK
  <2>2. pc'[Closer(e)] = "stopping"
    BY <1>1, <1>6 DEF IInv, TypeOK
  <2> QED BY <1>4, <1>6, <2>1, <2>2
<1> QED BY <1>2, <1>3, <1>5, <1>6 DEF SweepLook

LEMMA CloserAttends ==
    ASSUME IInv, CandidatesAreAttended, NEW e \in Entries, NEW out \in StopOutcomes,
           CloserReturns(e, out)
    PROVE  CandidatesAreAttended'
<1> DEFINE p == Closer(e)
           waiting == {s \in Sweeps : pc[s] = "await" /\ on[s] = e}
<1>1. p \in Procs /\ pc[p] = "stopping" /\ \A q \in Sweeps : q # p /\ q \in Procs
  BY ProcFacts DEF CloserReturns
<1>2. /\ \A q \in Procs \ {p} : q \in waiting \/ (pc'[q] = Woken(e, q) /\ on'[q] = on[q])
      /\ \A q \in waiting : pc'[q] = "idle"
      /\ UNCHANGED running
  BY <1>1, ProcFacts DEF CloserReturns
<1>3. \A t \in Targets, l \in Lanes :
          verdict'[t][l] = IF Sweep(t, l) \in waiting
                           THEN IF Terminal(out) THEN "settled" ELSE "pending"
                           ELSE verdict[t][l]
  BY DEF CloserReturns
<1>4. \A q \in Sweeps \ waiting : pc'[q] # "idle" <=> pc[q] # "idle"
  BY <1>1, <1>2, WokenFacts DEF IInv
<1>5. ASSUME NEW t \in Targets, NEW l \in Lanes
      PROVE  pc'[Sweep(t, l)] # "idle" <=> t \in running' /\ verdict'[t][l] = "open"
  <2>1. Sweep(t, l) \in Sweeps
    BY ProcFacts
  <2>2. CASE Sweep(t, l) \in waiting
    BY <1>2, <1>3, <2>2
  <2>3. CASE Sweep(t, l) \notin waiting
    BY <1>2, <1>3, <1>4, <2>1, <2>3 DEF CandidatesAreAttended
  <2> QED BY <2>2, <2>3
<1>6. ASSUME NEW q \in Sweeps, pc'[q] = "await" PROVE pc'[Closer(on'[q])] = "stopping"
  <2>1. q \notin waiting /\ pc'[q] = Woken(e, q) /\ on'[q] = on[q]
    BY <1>1, <1>2, <1>6
  <2>2. pc[q] = "await" /\ on[q] # e /\ on[q] \in Entries
    BY <1>1, <1>6, <2>1, WokenFacts DEF IInv, Kinds
  <2>3. pc[Closer(on[q])] = "stopping" /\ Closer(on[q]) \in Procs \ {p}
        /\ Closer(on[q]) \notin waiting
    BY <2>2, ProcFacts DEF CandidatesAreAttended
  <2>4. Woken(e, Closer(on[q])) = "stopping"
    BY <2>3 DEF Woken
  <2> QED BY <1>2, <2>1, <2>3, <2>4
<1>7. ASSUME NEW t \in Targets \ running', NEW l \in Lanes PROVE verdict'[t][l] = "none"
  <2>1. pc[Sweep(t, l)] = "idle" /\ verdict[t][l] = "none"
    BY <1>2, <1>7 DEF CandidatesAreAttended
  <2> QED BY <1>3, <2>1
<1> QED BY <1>5, <1>6, <1>7 DEF CandidatesAreAttended

LEMMA FinishAttends ==
    ASSUME IInv, CandidatesAreAttended, NEW t \in Targets, FinishJob(t)
    PROVE  CandidatesAreAttended'
<1>1. /\ running' = running \ {t} /\ UNCHANGED <<pc, on>>
      /\ \A u \in Targets \ {t} : verdict'[u] = verdict[u]
      /\ \A l \in Lanes : verdict[t][l] # "open" /\ verdict'[t][l] = "none"
  BY DEF FinishJob, procVars, IInv, TypeOK
<1> QED BY <1>1 DEF CandidatesAreAttended

LEMMA NextAttends ==
    ASSUME IInv, CandidatesAreAttended, [Next]_vars PROVE CandidatesAreAttended'
<1>1. CASE UNCHANGED vars
  BY <1>1 DEF vars, CandidatesAreAttended
<1> QED BY <1>1, FrameAttends, RequesterFrames, OtherFrames, ClearAttends, LookAttends,
           CloserAttends, FinishAttends DEF Next, Cleanup

\* While a cleanup job runs, each candidate it has no verdict for has a goroutine that will
\* conclude it, and once it has reported none of its goroutines is left (the safety half of
\* JobReports: ClearDeviceBefore in device_cleanup.go waits for every candidate it launched).
THEOREM CandidatesAttended == Spec => []CandidatesAreAttended
<1>1. Init => CandidatesAreAttended
  BY ProcFacts DEF Init, CandidatesAreAttended
<1> QED BY <1>1, NextAttends, Invariance, PTL DEF Spec
===============================================================================
