--------------------------- MODULE LiveCoordinator ---------------------------
(***************************************************************************)
(* The per-channel coordinator of live playback (play/coordinator.go,      *)
(* coordinator_condition.go, device_cleanup.go) for the channels of one    *)
(* device.  An entry of the coordinator's map is one generation: a start,  *)
(* at most one published result, and the stops that end it.  Goroutines    *)
(* are processes: callers of EnsureLive, Stop, StopStream and StopIfCurrent *)
(* the background retry of a failed start, the candidate goroutines of a   *)
(* device cleanup job and the goroutine that runs a cleanup's stop.        *)
(* Every step between a lock and its unlock is one action.                 *)
(***************************************************************************)
EXTENDS Naturals, FiniteSets

CONSTANTS
    Lanes,       \* channels of the device
    Entries,     \* coordinatorEntry objects that can be allocated
    Callers,     \* request goroutines
    Nodes,       \* media nodes
    MaxEpoch,    \* bound on the device's transfer epoch
    Targets,     \* target epochs of the device cleanups
    None         \* nil, node 0, the zero of every reference

ASSUME NoneAssumption == None \notin Entries \cup Nodes \cup Lanes
ASSUME EpochAssumption == MaxEpoch \in Nat \ {0} /\ Targets \subseteq 1..MaxEpoch

VARIABLES
    slot,       \* slot[l]: c.entries[lane], None when the key is absent
    state,      \* entry.state; "Unborn" until the entry is allocated
    lane,       \* the key under which the entry was stored
    err,        \* entry.err: "nil", "pending" (ErrLiveCleanupPending), "failed"
    owner,      \* entry.ownerNode
    epoch,      \* entry.operationEpoch
    doneOpen,   \* entries whose done channel has been made and not closed
    recoveryPending,
    granted,    \* epoch of the admission lease the start holds
    epochNow,   \* device epoch of the operation barrier
    media,      \* ghost: generations whose media side effects may be in place
    pc, on, back, req,      \* per goroutine: position, entry, failureState, request
    verdict,    \* verdict[t][l]: a cleanup job's result for its candidate
    running,    \* c.cleanupJobs: the targets with a registered job
    report      \* report[t]: status of the last finished job of target t

mapVars == <<slot, state, lane, err, owner, epoch, doneOpen, recoveryPending>>
envVars == <<granted, epochNow, media>>
procVars == <<pc, on, back, req>>
jobVars == <<verdict, running, report>>
vars == <<slot, state, lane, err, owner, epoch, doneOpen, recoveryPending,
          granted, epochNow, media, pc, on, back, req, verdict, running, report>>

Epochs == 1..MaxEpoch

Caller(c) == <<"caller", c>>
Retry(e) == <<"retry", e>>
Closer(e) == <<"closer", e>>
Sweep(t, l) == <<"sweep", <<t, l>>>>

Requesters == {Caller(c) : c \in Callers} \cup {Retry(e) : e \in Entries}
Closers == {Closer(e) : e \in Entries}
Sweeps == {Sweep(t, l) : t \in Targets, l \in Lanes}
Procs == Requesters \cup Closers \cup Sweeps

Held == {"Starting", "Ready", "CleanupPending", "Stopping"}
Stoppable == {"Ready", "CleanupPending"}
Verdicts == {"none", "open", "settled", "pending", "unknown", "newer"}
Reports == {"none", "settled", "pending", "unknown", "no-tracked-evidence"}
Requests == [op : {"ensure", "stop", "hook", "none"}, lane : Lanes \cup {None},
             node : Nodes \cup {None}, strict : BOOLEAN]
NoRequest == [op |-> "none", lane |-> None, node |-> None, strict |-> FALSE]

Init ==
    /\ slot = [l \in Lanes |-> None]
    /\ state = [e \in Entries |-> "Unborn"]
    /\ lane = [e \in Entries |-> None]
    /\ err = [e \in Entries |-> "nil"]
    /\ owner = [e \in Entries |-> None]
    /\ epoch = [e \in Entries |-> 0]
    /\ doneOpen = {}
    /\ recoveryPending = FALSE
    /\ granted = [e \in Entries |-> 0]
    /\ epochNow = 1
    /\ media = {}
    /\ pc = [p \in Procs |-> "idle"]
    /\ on = [p \in Procs |-> None]
    /\ back = [p \in Procs |-> "Ready"]
    /\ req = [p \in Procs |-> NoRequest]
    /\ verdict = [t \in Targets |-> [l \in Lanes |-> "none"]]
    /\ running = {}
    /\ report = [t \in Targets |-> "none"]

-----------------------------------------------------------------------------
(* Goroutine bookkeeping.                                                  *)

\* Both operations loop back to the lock after waiting for a stop.
AtLoop(p, op) == pc[p] \in {"look", "wokeStop"} /\ req[p].op = op

\* The goroutine's call returns without a result.
Return(p) ==
    /\ pc' = [pc EXCEPT ![p] = "idle"]
    /\ on' = [on EXCEPT ![p] = None]
    /\ req' = [req EXCEPT ![p] = NoRequest]
    /\ UNCHANGED back

\* EnsureLive returns the result of entry e.
Serve(p, e) ==
    /\ pc' = [pc EXCEPT ![p] = "served"]
    /\ on' = [on EXCEPT ![p] = e]
    /\ UNCHANGED <<back, req>>

WaitFor(p, e, point) ==
    /\ pc' = [pc EXCEPT ![p] = point]
    /\ on' = [on EXCEPT ![p] = e]
    /\ UNCHANGED <<back, req>>

\* Seeded fault: finishStop leaves the stop's channel open.
MutWoken(e, q) ==
    IF on[q] = e /\ pc[q] = "waitStart" THEN "wokeStart" ELSE pc[q]

\* close(entry.done): every goroutine that waits on e can run again.
Woken(e, q) ==
    IF on[q] # e \/ pc[q] \notin {"waitStart", "waitStop"} THEN pc[q]
    ELSE IF pc[q] = "waitStart" THEN "wokeStart" ELSE "wokeStop"

\* p closes e.done and goes to point; the goroutines in go start a loop.
CloseDone(p, e, point, go) ==
    /\ doneOpen' = doneOpen \ {e}
    /\ pc' = [q \in Procs |-> IF q = p THEN point
                              ELSE IF q \in go THEN "look" ELSE Woken(e, q)]

Drop(e) == [slot EXCEPT ![lane[e]] = IF @ = e THEN None ELSE @]

\* ownerNodeConflict: only two known and different nodes conflict.
OwnerNodeConflict(n, e) == n # None /\ owner[e] # None /\ n # owner[e]

-----------------------------------------------------------------------------
(* Calls.                                                                  *)

Free(c) == pc[Caller(c)] \in {"idle", "served"}

Ensuring == {p \in Requesters : /\ req[p].op = "ensure"
                                /\ pc[p] \notin {"idle", "served"}}
Unborn == {e \in Entries : state[e] = "Unborn"}

Call(c, op, l, n, strict) ==
    /\ Free(c)
    /\ pc' = [pc EXCEPT ![Caller(c)] = "look"]
    /\ on' = [on EXCEPT ![Caller(c)] = None]
    /\ req' = [req EXCEPT ![Caller(c)] =
                  [op |-> op, lane |-> l, node |-> n, strict |-> strict]]
    /\ UNCHANGED <<back, mapVars, envVars, jobVars>>

\* Bound: a call is made only while an entry is left for it to allocate.
EnsureCall(c, l, n, strict) ==
    /\ Cardinality(Ensuring) < Cardinality(Unborn)
    /\ Call(c, "ensure", l, n, strict)

StopCall(c, l, n) == Call(c, "stop", l, n, FALSE)

\* StopStream: the stream names the lane, the owner is read under the lock.
StopStream(c, l) ==
    /\ slot[l] # None
    /\ state[slot[l]] # "Starting"
    /\ Call(c, "stop", l, owner[slot[l]], FALSE)

\* A goroutine gives up waiting: its own context ended.
CancelWait(p) ==
    /\ p \in Requesters
    /\ pc[p] \in {"waitStart", "waitStop", "wokeStart", "wokeStop"}
    /\ Return(p)
    /\ UNCHANGED <<mapVars, envVars, jobVars>>

-----------------------------------------------------------------------------
(* ensureLive and runStart.                                                *)

Allocate(e, l, st, n) ==
    /\ state[e] = "Unborn"
    /\ slot[l] = None
    /\ slot' = [slot EXCEPT ![l] = e]
    /\ state' = [state EXCEPT ![e] = st]
    /\ lane' = [lane EXCEPT ![e] = l]
    /\ owner' = [owner EXCEPT ![e] = n]
    /\ UNCHANGED <<err, epoch>>

\* Seeded fault: the recovery gate is not looked at.
MutEnsureCreate(p, e) ==
    /\ AtLoop(p, "ensure")
    /\ Allocate(e, req[p].lane, "Starting", req[p].node)
    /\ doneOpen' = doneOpen \cup {e}
    /\ WaitFor(p, e, "admit")
    /\ UNCHANGED <<recoveryPending, envVars, jobVars>>

EnsureCreate(p, e) ==
    /\ AtLoop(p, "ensure")
    /\ ~recoveryPending
    /\ Allocate(e, req[p].lane, "Starting", req[p].node)
    /\ doneOpen' = doneOpen \cup {e}
    /\ WaitFor(p, e, "admit")
    /\ UNCHANGED <<recoveryPending, envVars, jobVars>>

\* Seeded fault: a second stop does not join the first.
MutBeginStopTwice(p, e) ==
    /\ state[e] \in Stoppable \cup {"Stopping"}
    /\ state' = [state EXCEPT ![e] = "Stopping"]
    /\ doneOpen' = doneOpen \cup {e}
    /\ back' = [back EXCEPT ![p] = "Ready"]
    /\ UNCHANGED <<slot, lane, err, owner, epoch, recoveryPending, envVars>>

\* A stop begins: Stopping is published with a channel of its own.
BeginStop(p, e) ==
    /\ state[e] \in Stoppable
    /\ state' = [state EXCEPT ![e] = "Stopping"]
    /\ doneOpen' = doneOpen \cup {e}
    /\ back' = [back EXCEPT ![p] = state[e]]
    /\ UNCHANGED <<slot, lane, err, owner, epoch, recoveryPending, envVars>>

\* What ensureLive does with the entry it finds.
EnsureFind(p) ==
    /\ AtLoop(p, "ensure")
    /\ LET e == slot[req[p].lane]
           clash == OwnerNodeConflict(req[p].node, e)
       IN
       \/ /\ recoveryPending
          /\ Return(p)
          /\ UNCHANGED <<mapVars, envVars>>
       \/ /\ ~recoveryPending
          /\ e # None
          /\ \/ /\ state[e] # "Stopping"
                /\ clash \/ (state[e] = "CleanupPending" /\ req[p].strict)
                /\ Return(p)
                /\ UNCHANGED <<mapVars, envVars>>
             \/ /\ state[e] = "Ready" /\ ~clash
                /\ Serve(p, e)
                /\ UNCHANGED <<mapVars, envVars>>
             \/ /\ state[e] = "Starting" /\ ~clash
                /\ WaitFor(p, e, "waitStart")
                /\ UNCHANGED <<mapVars, envVars>>
             \/ /\ state[e] = "Stopping"
                /\ WaitFor(p, e, "waitStop")
                /\ UNCHANGED <<mapVars, envVars>>
             \/ /\ state[e] = "CleanupPending" /\ ~clash /\ ~req[p].strict
                /\ BeginStop(p, e)
                /\ pc' = [pc EXCEPT ![p] = "stopping"]
                /\ on' = [on EXCEPT ![p] = e]
                /\ UNCHANGED req
    /\ UNCHANGED jobVars

\* Seeded fault: the owner is compared before the wait only.
MutEnsureWoken(p) ==
    /\ pc[p] = "wokeStart" /\ req[p].op = "ensure"
    /\ IF err[on[p]] # "nil" THEN Return(p) ELSE Serve(p, on[p])
    /\ UNCHANGED <<mapVars, envVars, jobVars>>

\* A waiter of a start reads the entry without the lock.
EnsureWoken(p) ==
    /\ pc[p] = "wokeStart" /\ req[p].op = "ensure"
    /\ IF OwnerNodeConflict(req[p].node, on[p]) \/ err[on[p]] # "nil"
       THEN Return(p)
       ELSE Serve(p, on[p])
    /\ UNCHANGED <<mapVars, envVars, jobVars>>

\* beginOperation admits the start under the device's current epoch.
Admit(p) ==
    /\ pc[p] = "admit"
    /\ granted' = [granted EXCEPT ![on[p]] = epochNow]
    /\ pc' = [pc EXCEPT ![p] = "publish"]
    /\ UNCHANGED <<on, back, req, mapVars, epochNow, media, jobVars>>

\* The lease's epoch is published, then the start function runs.
Publish(p) ==
    /\ pc[p] = "publish"
    /\ epoch' = [epoch EXCEPT ![on[p]] = IF slot[lane[on[p]]] = on[p]
                                         THEN granted[on[p]] ELSE @]
    /\ pc' = [pc EXCEPT ![p] = "starting"]
    /\ media' = media \cup {on[p]}
    /\ UNCHANGED <<slot, state, lane, err, owner, doneOpen, recoveryPending,
                   granted, epochNow, on, back, req, jobVars>>

\* The start returns a result on node m; another owner discards the result.
StartReady(p, m) ==
    /\ pc[p] = "starting"
    /\ LET e == on[p] IN
       /\ ~OwnerNodeConflict(m, e)
       /\ state' = [state EXCEPT ![e] = "Ready"]
       /\ owner' = [owner EXCEPT ![e] = IF @ = None THEN m ELSE @]
       /\ CloseDone(p, e, "served", {})
    /\ UNCHANGED <<slot, lane, err, epoch, recoveryPending, envVars,
                   on, back, req, jobVars>>

\* Refused admission, a revoked lease, a nil result, a result of another
\* owner or a compensated failure: the entry leaves the map.
StartFailed(p) ==
    /\ pc[p] \in {"admit", "publish", "starting"}
    /\ LET e == on[p] IN
       /\ state' = [state EXCEPT ![e] = "Idle"]
       /\ err' = [err EXCEPT ![e] = "failed"]
       /\ slot' = Drop(e)
       /\ media' = media \ {e}
       /\ CloseDone(p, e, "idle", {})
    /\ on' = [on EXCEPT ![p] = None]
    /\ req' = [req EXCEPT ![p] = NoRequest]
    /\ UNCHANGED <<lane, owner, epoch, recoveryPending, granted, epochNow,
                   back, jobVars>>

\* The compensation failed too: the entry stays, and one background Stop of
\* the same lane is launched.
StartPending(p) ==
    /\ pc[p] = "starting"
    /\ LET e == on[p] IN
       /\ state' = [state EXCEPT ![e] = "CleanupPending"]
       /\ err' = [err EXCEPT ![e] = "pending"]
       /\ CloseDone(p, e, "idle", {Retry(e)})
       /\ req' = [req EXCEPT ![p] = NoRequest,
                             ![Retry(e)] = [op |-> "stop", lane |-> lane[e],
                                            node |-> owner[e], strict |-> FALSE]]
    /\ on' = [on EXCEPT ![p] = None]
    /\ UNCHANGED <<slot, lane, owner, epoch, recoveryPending, envVars,
                   back, jobVars>>

-----------------------------------------------------------------------------
(* Stop, StopIfCurrent and finishStop.                                     *)

StopFind(p) ==
    /\ AtLoop(p, "stop")
    /\ LET e == slot[req[p].lane] IN
       \/ /\ IF e = None THEN TRUE
             ELSE state[e] \in Stoppable /\ OwnerNodeConflict(req[p].node, e)
          /\ Return(p)
          /\ UNCHANGED <<mapVars, envVars>>
       \/ /\ e # None /\ state[e] = "Starting"
          /\ WaitFor(p, e, "waitStart")
          /\ UNCHANGED <<mapVars, envVars>>
       \/ /\ e # None /\ state[e] = "Stopping"
          /\ WaitFor(p, e, "waitStop")
          /\ UNCHANGED <<mapVars, envVars>>
       \/ /\ e # None
          /\ ~OwnerNodeConflict(req[p].node, e)
          /\ BeginStop(p, e)
          /\ pc' = [pc EXCEPT ![p] = "stopping"]
          /\ on' = [on EXCEPT ![p] = e]
          /\ UNCHANGED req
    /\ UNCHANGED jobVars

\* Stop waited for a start: a plain failure ends it, otherwise it looks again.
StopWoken(p) ==
    /\ pc[p] = "wokeStart" /\ req[p].op = "stop"
    /\ IF err[on[p]] = "failed"
       THEN Return(p)
       ELSE WaitFor(p, None, "look")
    /\ UNCHANGED <<mapVars, envVars, jobVars>>

\* StopIfCurrent: the stream and the exact generation of the reference are
\* those of the lane's entry; any other reference changes nothing.
StopIfCurrent(c, e) ==
    /\ Free(c)
    /\ state[e] \in Stoppable /\ slot[lane[e]] = e
    /\ BeginStop(Caller(c), e)
    /\ pc' = [pc EXCEPT ![Caller(c)] = "stopping"]
    /\ on' = [on EXCEPT ![Caller(c)] = e]
    /\ req' = [req EXCEPT ![Caller(c)] = [NoRequest EXCEPT !.op = "hook"]]
    /\ UNCHANGED jobVars

\* Media is known to be gone: the stop succeeded or only its tail failed.
Terminal(out) == out \in {"ok", "warning"}
StopOutcomes == {"ok", "warning", "failed"}

\* Seeded faults: a failed stop forgets the entry, or calls it healthy.
MutFinishStopForgets(e, failureState, out) ==
    /\ state' = [state EXCEPT ![e] = IF Terminal(out) THEN "Idle" ELSE failureState]
    /\ slot' = Drop(e)
    /\ media' = IF Terminal(out) THEN media \ {e} ELSE media
    /\ UNCHANGED <<lane, err, owner, epoch, recoveryPending, granted, epochNow>>

MutFinishStopHeals(e, failureState, out) ==
    /\ state' = [state EXCEPT ![e] = IF Terminal(out) THEN "Idle" ELSE "Ready"]
    /\ slot' = IF Terminal(out) THEN Drop(e) ELSE slot
    /\ media' = IF Terminal(out) THEN media \ {e} ELSE media
    /\ UNCHANGED <<lane, err, owner, epoch, recoveryPending, granted, epochNow>>

FinishStop(e, failureState, out) ==
    /\ state' = [state EXCEPT ![e] = IF Terminal(out) THEN "Idle" ELSE failureState]
    /\ slot' = IF Terminal(out) THEN Drop(e) ELSE slot
    /\ media' = IF Terminal(out) THEN media \ {e} ELSE media
    /\ UNCHANGED <<lane, err, owner, epoch, recoveryPending, granted, epochNow>>

StopReturns(p, out) ==
    /\ p \in Requesters
    /\ pc[p] = "stopping"
    /\ LET again == req[p].op = "ensure" /\ out = "ok" IN
       /\ FinishStop(on[p], back[p], out)
       /\ CloseDone(p, on[p], IF again THEN "look" ELSE "idle", {})
       /\ req' = IF again THEN req ELSE [req EXCEPT ![p] = NoRequest]
    /\ on' = [on EXCEPT ![p] = None]
    /\ back' = [back EXCEPT ![p] = "Ready"]
    /\ UNCHANGED jobVars

-----------------------------------------------------------------------------
(* Recovery and the device's epoch.                                        *)

\* Bootstrap begins recovery before the service is published.
BeginRecovery ==
    /\ \A l \in Lanes : slot[l] = None
    /\ \A e \in Entries : state[e] = "Unborn"
    /\ recoveryPending' = TRUE
    /\ UNCHANGED <<slot, state, lane, err, owner, epoch, doneOpen,
                   envVars, procVars, jobVars>>

\* RecoverLiveSessions, between BeginRecovery and FinishRecovery, restores a
\* persisted generation whose admission epoch is unknown.
Restore(e, l, n) ==
    /\ recoveryPending
    /\ Allocate(e, l, "Ready", n)
    /\ media' = media \cup {e}
    /\ UNCHANGED <<doneOpen, recoveryPending, granted, epochNow, procVars, jobVars>>

FinishRecovery ==
    /\ recoveryPending' = FALSE
    /\ UNCHANGED <<slot, state, lane, err, owner, epoch, doneOpen,
                   envVars, procVars, jobVars>>

\* playauth commits a device transfer.
Transfer ==
    /\ epochNow < MaxEpoch
    /\ epochNow' = epochNow + 1
    /\ UNCHANGED <<granted, media, mapVars, procVars, jobVars>>

-----------------------------------------------------------------------------
(* ClearDeviceBefore.                                                      *)

\* A caller that finds no job of this target registers one, whose goroutine
\* snapshots the device's entries; the reconciler's targets are past epochs.
ClearDeviceBefore(t) ==
    /\ t <= epochNow
    /\ t \notin running
    /\ running' = running \cup {t}
    /\ verdict' = [verdict EXCEPT ![t] =
                      [l \in Lanes |-> IF slot[l] = None THEN "none" ELSE "open"]]
    /\ LET candidate == {l \in Lanes : slot[l] # None} IN
       /\ pc' = [p \in Procs |-> IF \E l \in candidate : p = Sweep(t, l)
                                 THEN "look" ELSE pc[p]]
       /\ on' = [p \in Procs |-> IF \E l \in candidate : p = Sweep(t, l)
                                 THEN slot[p[2][2]] ELSE on[p]]
    /\ UNCHANGED <<back, req, report, mapVars, envVars>>

Conclude(t, l, v) ==
    /\ verdict' = [verdict EXCEPT ![t][l] = v]
    /\ pc' = [pc EXCEPT ![Sweep(t, l)] = "idle"]
    /\ on' = [on EXCEPT ![Sweep(t, l)] = None]
    /\ UNCHANGED <<back, req, running, report, mapVars, envVars>>

\* Seeded fault: the target epoch itself counts as an earlier one.
MutSweepVerdict(t, l) ==
    LET p == Sweep(t, l)
        e == on[p]
        joined == pc[p] = "wokeStop"
    IN  IF slot[l] # e
        THEN IF slot[l] = None /\ joined THEN "settled" ELSE "unknown"
        ELSE IF epoch[e] > t THEN "newer"
        ELSE IF epoch[e] = 0 /\ state[e] # "Starting" THEN "unknown"
        ELSE IF joined /\ state[e] # "Stopping" THEN "pending"
        ELSE "open"

\* The loop head of clearDeviceCandidate; joined is wasStopping.
SweepVerdict(t, l) ==
    LET p == Sweep(t, l)
        e == on[p]
        joined == pc[p] = "wokeStop"
    IN  IF slot[l] # e
        THEN IF /\ slot[l] = None /\ joined /\ state[e] = "Idle"
                /\ epoch[e] > 0 /\ epoch[e] < t /\ err[e] = "nil"
             THEN "settled" ELSE "unknown"
        ELSE IF epoch[e] >= t THEN "newer"
        ELSE IF epoch[e] = 0 /\ state[e] # "Starting" THEN "unknown"
        ELSE IF joined /\ state[e] # "Stopping" THEN "pending"
        ELSE "open"

SweepLook(t, l) ==
    LET p == Sweep(t, l)
        e == on[p]
        v == SweepVerdict(t, l)
    IN  /\ pc[p] \in {"look", "wokeStart", "wokeStop"}
        /\ \/ /\ v # "open"
              /\ Conclude(t, l, v)
           \/ /\ v = "open" /\ state[e] = "Starting"
              /\ WaitFor(p, e, "waitStart")
              /\ UNCHANGED <<mapVars, envVars, jobVars>>
           \/ /\ v = "open" /\ state[e] = "Stopping"
              /\ WaitFor(p, e, "waitStop")
              /\ UNCHANGED <<mapVars, envVars, jobVars>>
           \/ /\ v = "open"
              /\ BeginStop(Closer(e), e)
              /\ pc' = [pc EXCEPT ![p] = "await", ![Closer(e)] = "stopping"]
              /\ on' = [on EXCEPT ![Closer(e)] = e]
              /\ UNCHANGED <<req, jobVars>>

\* Seeded fault: the deadline does not bound the wait for a stop.
MutSweepTimeout(t, l) ==
    /\ pc[Sweep(t, l)] \in {"waitStart", "waitStop", "wokeStart", "wokeStop"}
    /\ Conclude(t, l, "pending")

\* The job's five seconds are over; a stop it launched goes on by itself.
SweepTimeout(t, l) ==
    /\ pc[Sweep(t, l)] \in {"waitStart", "waitStop", "wokeStart", "wokeStop", "await"}
    /\ Conclude(t, l, "pending")

\* The stop goroutine returns to the candidate that still waits for it, or
\* finishes the stop on its own.
CloserReturns(e, out) ==
    LET p == Closer(e)
        waiting == {s \in Sweeps : pc[s] = "await" /\ on[s] = e}
    IN  /\ pc[p] = "stopping"
        /\ FinishStop(e, back[p], out)
        /\ doneOpen' = doneOpen \ {e}
        /\ pc' = [q \in Procs |-> IF q = p \/ q \in waiting THEN "idle" ELSE Woken(e, q)]
        /\ on' = [q \in Procs |-> IF q = p \/ q \in waiting THEN None ELSE on[q]]
        /\ verdict' = [t \in Targets |-> [l \in Lanes |->
                          IF Sweep(t, l) \in waiting
                          THEN IF Terminal(out) THEN "settled" ELSE "pending"
                          ELSE verdict[t][l]]]
        /\ back' = [back EXCEPT ![p] = "Ready"]
        /\ UNCHANGED <<req, running, report>>

\* Seeded fault: a candidate that is still pending is passed over.
MutDeviceCleanupStatus(t) ==
    LET some(v) == \E l \in Lanes : verdict[t][l] = v
    IN  IF some("unknown") \/ some("newer") THEN "unknown"
        ELSE IF some("settled") THEN "settled"
        ELSE "no-tracked-evidence"

DeviceCleanupStatus(t) ==
    LET some(v) == \E l \in Lanes : verdict[t][l] = v
    IN  IF some("pending") THEN "pending"
        ELSE IF some("unknown") \/ some("newer") THEN "unknown"
        ELSE IF ~some("settled") THEN "no-tracked-evidence"
        ELSE "settled"

\* Every candidate has reported: the job is published and unregistered.
FinishJob(t) ==
    /\ t \in running
    /\ \A l \in Lanes : verdict[t][l] # "open"
    /\ report' = [report EXCEPT ![t] = DeviceCleanupStatus(t)]
    /\ running' = running \ {t}
    /\ verdict' = [verdict EXCEPT ![t] = [l \in Lanes |-> "none"]]
    /\ UNCHANGED <<mapVars, envVars, procVars>>

-----------------------------------------------------------------------------

CallerStep(c) ==
    \/ \E l \in Lanes, n \in Nodes \cup {None} :
        \/ \E strict \in BOOLEAN : EnsureCall(c, l, n, strict)
        \/ StopCall(c, l, n)
    \/ \E l \in Lanes : StopStream(c, l)
    \/ \E e \in Entries : StopIfCurrent(c, e)

\* What a goroutine does on its own once its call is made.
Proceed(p) ==
    \/ \E e \in Entries : EnsureCreate(p, e)
    \/ EnsureFind(p) \/ EnsureWoken(p)
    \/ Admit(p) \/ Publish(p)
    \/ StopFind(p) \/ StopWoken(p)

StartReturns(p) ==
    \/ \E m \in Nodes \cup {None} : StartReady(p, m)
    \/ StartFailed(p) \/ StartPending(p)

Cleanup(t) ==
    \/ \E l \in Lanes : SweepLook(t, l) \/ SweepTimeout(t, l)
    \/ FinishJob(t)

Next ==
    \/ \E c \in Callers : CallerStep(c)
    \/ \E p \in Requesters :
        \/ Proceed(p) \/ StartReturns(p) \/ CancelWait(p)
        \/ \E out \in StopOutcomes : StopReturns(p, out)
    \/ \E e \in Entries, out \in StopOutcomes : CloserReturns(e, out)
    \/ \E e \in Entries, l \in Lanes, n \in Nodes \cup {None} : Restore(e, l, n)
    \/ BeginRecovery \/ FinishRecovery \/ Transfer
    \/ \E t \in Targets : ClearDeviceBefore(t) \/ Cleanup(t)

Spec == Init /\ [][Next]_vars

\* The calls behind a start and a stop are bounded by their own timeouts
\* (SIP transactions, media node HTTP), so they return, and a cleanup job's
\* context ends.  Nothing obliges a caller to call, its context to end,
\* recovery to finish, or the stop launched by a cleanup job to return.
Fairness ==
    /\ \A p \in Requesters :
        /\ WF_vars(Proceed(p))
        /\ WF_vars(StartReturns(p))
        /\ WF_vars(\E out \in StopOutcomes : StopReturns(p, out))
    /\ \A t \in Targets :
        /\ \A l \in Lanes : WF_vars(SweepLook(t, l)) /\ WF_vars(SweepTimeout(t, l))
        /\ WF_vars(FinishJob(t))

FairSpec == Spec /\ Fairness

-----------------------------------------------------------------------------
(* Properties.                                                             *)

\* The goroutines that owe entry e the end of its start or of its stop.
Acting(p, e) == on[p] = e /\ pc[p] \in {"admit", "publish", "starting", "stopping"}

TypeOK ==
    /\ slot \in [Lanes -> Entries \cup {None}]
    /\ state \in [Entries -> Held \cup {"Unborn", "Idle"}]
    /\ lane \in [Entries -> Lanes \cup {None}]
    /\ err \in [Entries -> {"nil", "pending", "failed"}]
    /\ owner \in [Entries -> Nodes \cup {None}]
    /\ epoch \in [Entries -> 0..MaxEpoch]
    /\ doneOpen \subseteq Entries
    /\ recoveryPending \in BOOLEAN
    /\ granted \in [Entries -> 0..MaxEpoch]
    /\ epochNow \in Epochs
    /\ media \subseteq Entries
    /\ pc \in [Procs -> {"idle", "look", "admit", "publish", "starting", "served",
                         "waitStart", "waitStop", "wokeStart", "wokeStop",
                         "stopping", "await"}]
    /\ on \in [Procs -> Entries \cup {None}]
    /\ back \in [Procs -> Stoppable]
    /\ req \in [Procs -> Requests]
    /\ verdict \in [Targets -> [Lanes -> Verdicts]]
    /\ running \subseteq Targets
    /\ report \in [Targets -> Reports]

\* A channel never has two generations whose media side effects may be in
\* place: a new start waits until the previous one has reached its media
\* terminal (the serialization Coordinator promises, coordinator.go:192).
OneGenerationPerLane ==
    \A e, f \in media : lane[e] = lane[f] => e = f

\* An entry is Starting or Stopping exactly while one goroutine owes it the
\* end of that phase, and exactly then its done channel is open: nobody closes
\* it twice (a panic) and nobody waits on a channel that no one will close.
BarrierHasOneActor ==
    \A e \in Entries :
        LET actors == {p \in Procs : Acting(p, e)}
            busy == state[e] \in {"Starting", "Stopping"}
        IN  /\ Cardinality(actors) = IF busy THEN 1 ELSE 0
            /\ \A p \in actors : (pc[p] = "stopping") <=> (state[e] = "Stopping")
            /\ (e \in doneOpen) <=> busy

\* Whatever a caller waited for, the generation it is handed is of its lane,
\* was started without failure, and is not owned by another node than the
\* caller requires, although the owner may become known during the wait.
ServedByOwner ==
    \A p \in Requesters : pc[p] = "served" =>
        /\ lane[on[p]] = req[p].lane
        /\ err[on[p]] = "nil"
        /\ state[on[p]] \notin {"Unborn", "Starting"}
        /\ ~OwnerNodeConflict(req[p].node, on[p])

\* The caller of ClearDeviceBefore takes "settled" and "no tracked evidence"
\* as proof (device_cleanup_wiring.go:44): no generation that was admitted
\* under an earlier epoch than the target is tracked then, or ever after.
ClearedMeansGone ==
    \A t \in Targets : report[t] \in {"settled", "no-tracked-evidence"} =>
        \A e \in Entries : 0 < granted[e] /\ granted[e] < t => state[e] \notin Held

\* A device cleanup never stops a generation of the device's current owner,
\* nor one whose epoch is unknown.
CleanupSparesNewer ==
    \A e \in Entries : pc[Closer(e)] = "stopping" =>
        0 < epoch[e] /\ epoch[e] < epochNow

\* While persisted ownership is being recovered no start is in flight, so a
\* restored generation never meets a started one.
RecoveryExcludesStarts ==
    recoveryPending => \A e \in Entries : state[e] # "Starting"

\* coordinator.go:411 gives "a failed start one bounded retry": the background
\* retry of a generation ends that generation and no other.
RetryStopsOnlyItsGeneration ==
    \A e \in Entries : pc[Retry(e)] = "stopping" => on[Retry(e)] = e

\* The coordinator keeps the promise of LiveLanes.
Phase(e) == CASE state[e] = "Starting" -> "starting"
              [] state[e] = "Ready" -> "live"
              [] state[e] = "CleanupPending" -> "dirty"
              [] state[e] = "Stopping" -> "ending"
              [] OTHER -> "absent"

Lane == INSTANCE LiveLanes WITH
    Gens <- Entries,
    phase <- [l \in Lanes |-> IF slot[l] = None THEN "absent" ELSE Phase(slot[l])],
    gen <- slot,
    clean <- [l \in Lanes |-> IF slot[l] = None THEN TRUE ELSE err[slot[l]] = "nil"],
    spent <- {e \in Entries : state[e] = "Idle"},
    open <- ~recoveryPending

LaneSpec == Lane!Spec

\* Every goroutine that waits for a start or a stop is woken, unless the stop
\* is that of a cleanup job and hangs.
Waiting(p) == pc[p] \in {"waitStart", "waitStop"}

WaitersWake ==
    \A p \in Requesters :
        Waiting(p) ~> ~Waiting(p) \/ pc[Closer(on[p])] = "stopping"

\* A device cleanup reports within its deadline even if the stop it launched
\* never returns.
JobReports == \A t \in Targets : t \in running ~> t \notin running

=============================================================================
