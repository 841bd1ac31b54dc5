------------------------ MODULE LiveCoordinatorProofs ------------------------
(***************************************************************************)
(* Proofs about LiveCoordinator, for every set of lanes, entries, callers  *)
(* and nodes.  IInv is the inductive invariant: besides the types it says   *)
(* how the map's slots and the entries' states match (SlotsHeld), who acts  *)
(* on a busy entry (ActorsMatch), and which kind of goroutine can be where  *)
(* (Kinds).  ServeInv adds what a goroutine still knows of the entry it     *)
(* holds after it has let go of the lock, and from both it follows that     *)
(* every step is one LiveLanes promises.                                   *)
(***************************************************************************)
EXTENDS LiveCoordinator, FiniteSetTheorems, TLAPS

Starters == {"admit", "publish", "starting"}
Busy == {"Starting", "Stopping"}
Active(p) == pc[p] \in {"admit", "publish", "starting", "stopping"}

\* The map and the entries agree, and media belongs to an entry of the map.
SlotsHeld ==
    /\ \A l \in Lanes : slot[l] # None =>
           slot[l] \in Entries /\ lane[slot[l]] = l /\ state[slot[l]] \in Held
    /\ \A e \in Entries : state[e] \in Held => lane[e] \in Lanes /\ slot[lane[e]] = e
    /\ \A e \in media : state[e] \in Held

\* A busy entry has one actor, and an actor's entry is in the actor's phase.
ActorsMatch ==
    /\ \A p \in Procs : pc[p] \in Starters =>
           on[p] \in Entries /\ state[on[p]] = "Starting"
    /\ \A p \in Procs : pc[p] = "stopping" =>
           on[p] \in Entries /\ state[on[p]] = "Stopping"
    /\ \A p, q \in Procs : Active(p) /\ Active(q) /\ on[p] = on[q] => p = q
    /\ \A e \in Entries : state[e] \in Busy => \E p \in Procs : Active(p) /\ on[p] = e
    /\ \A e \in Entries : e \in doneOpen <=> state[e] \in Busy

\* Where each kind of goroutine can be.
Kinds ==
    /\ \A e \in Entries : pc[Closer(e)] \in {"idle", "stopping"}
    /\ \A e \in Entries : pc[Closer(e)] # "idle" => on[Closer(e)] = e
    /\ \A p \in Sweeps : pc[p] \notin {"admit", "publish", "starting", "stopping"}
    /\ \A p \in Sweeps : pc[p] # "idle" => on[p] \in Entries
    /\ \A p \in Requesters : pc[p] # "await"
    /\ \A e \in Entries : pc[Retry(e)] # "idle" => state[e] \notin {"Unborn", "Starting"}
    /\ \A p \in Requesters : req[p].op \in {"ensure", "stop"} => req[p].lane \in Lanes

IInv == TypeOK /\ SlotsHeld /\ ActorsMatch /\ Kinds

-----------------------------------------------------------------------------
(* Process identities.                                                     *)

\* The kinds of goroutine are disjoint and their names are one to one.
LEMMA ProcFacts ==
    /\ \A c \in Callers : Caller(c) \in Requesters
    /\ \A e \in Entries : Retry(e) \in Requesters /\ Closer(e) \in Closers
    /\ \A t \in Targets, l \in Lanes : Sweep(t, l) \in Sweeps
    /\ Requesters \subseteq Procs /\ Closers \subseteq Procs /\ Sweeps \subseteq Procs
    /\ \A p \in Requesters : p \notin Closers /\ p \notin Sweeps
    /\ \A p \in Closers : p \notin Sweeps
    /\ \A e, f \in Entries : Closer(e) = Closer(f) => e = f
    /\ \A e, f \in Entries : Retry(e) = Retry(f) => e = f
    /\ \A c \in Callers, e \in Entries : Caller(c) # Retry(e)
BY DEF Requesters, Closers, Sweeps, Procs, Caller, Retry, Closer, Sweep

LEMMA InitIInv == Init => IInv
<1> SUFFICES ASSUME Init PROVE IInv
  OBVIOUS
<1>1. TypeOK
  <2>1. NoRequest \in Requests
    BY DEF NoRequest, Requests
  <2>2. epoch \in [Entries -> 0..MaxEpoch] /\ granted \in [Entries -> 0..MaxEpoch]
        /\ epochNow \in Epochs
    BY EpochAssumption DEF Init, Epochs
  <2>3. /\ recoveryPending \in BOOLEAN
        /\ doneOpen \subseteq Entries
        /\ media \subseteq Entries
        /\ running \subseteq Targets
    BY DEF Init
  <2>4. /\ slot \in [Lanes -> Entries \cup {None}]
        /\ state \in [Entries -> Held \cup {"Unborn", "Idle"}]
        /\ lane \in [Entries -> Lanes \cup {None}]
        /\ err \in [Entries -> {"nil", "pending", "failed"}]
        /\ owner \in [Entries -> Nodes \cup {None}]
    BY DEF Init
  <2>5. /\ on \in [Procs -> Entries \cup {None}]
        /\ back \in [Procs -> Stoppable]
        /\ req \in [Procs -> Requests]
    BY <2>1 DEF Init, Stoppable
  <2>6. /\ verdict \in [Targets -> [Lanes -> Verdicts]]
        /\ report \in [Targets -> Reports]
    BY DEF Init, Verdicts, Reports
  <2>7. pc \in [Procs -> {"idle", "look", "admit", "publish", "starting", "served",
                         "waitStart", "waitStop", "wokeStart", "wokeStop",
                         "stopping", "await"}]
    BY DEF Init
  <2> QED BY <2>2, <2>3, <2>4, <2>5, <2>6, <2>7 DEF TypeOK
<1>2. SlotsHeld /\ ActorsMatch
  BY DEF Init, SlotsHeld, ActorsMatch, Held, Starters, Busy, Active
<1>3. Kinds
  BY ProcFacts DEF Init, Kinds, NoRequest
<1> QED BY <1>1, <1>2, <1>3 DEF IInv

-----------------------------------------------------------------------------
(* What a step does to the map and to the actors.                          *)

\* q is not, and does not become, an actor; or it goes on as the same actor.
Steady(q) == Active(q) \/ Active(q)' => pc'[q] = pc[q] /\ on'[q] = on[q]

\* A step that leaves the map, the entries' states and every actor alone.
LEMMA Quiet ==
    ASSUME IInv, UNCHANGED <<slot, state, lane, doneOpen, media>>,
           \A q \in Procs : Steady(q)
    PROVE  SlotsHeld' /\ ActorsMatch'
<1>1. SlotsHeld'
  BY DEF IInv, SlotsHeld
<1>2. \A q \in Procs : Active(q)' <=> Active(q)
  BY DEF Steady, Active
<1>3. ActorsMatch'
  BY <1>2 DEF IInv, ActorsMatch, Steady, Active, Starters
<1> QED BY <1>1, <1>3

\* p begins the stop of e.
LEMMA StopBegins ==
    ASSUME IInv, NEW p \in Procs, NEW e \in Entries, BeginStop(p, e),
           ~Active(p), pc'[p] = "stopping", on'[p] = e,
           \A q \in Procs \ {p} : Steady(q)
    PROVE  SlotsHeld' /\ ActorsMatch'
<1>1. /\ state[e] \in Stoppable /\ state' = [state EXCEPT ![e] = "Stopping"]
      /\ doneOpen' = doneOpen \cup {e}
      /\ UNCHANGED <<slot, lane, media>>
  BY DEF BeginStop, envVars
<1>2. state \in [Entries -> Held \cup {"Unborn", "Idle"}]
  BY DEF IInv, TypeOK
<1>3. SlotsHeld'
  BY <1>1, <1>2 DEF IInv, SlotsHeld, Held, Stoppable
<1>4. \A q \in Procs : Active(q) => on[q] # e /\ q # p
  BY <1>1 DEF IInv, ActorsMatch, Active, Starters, Stoppable
<1>5. \A q \in Procs \ {p} : Active(q)' <=> Active(q)
  BY DEF Steady, Active
<1>6. ActorsMatch'
  <2>1. \A q \in Procs : pc'[q] \in Starters => on'[q] \in Entries /\ state'[on'[q]] = "Starting"
    BY <1>1, <1>2, <1>4 DEF IInv, ActorsMatch, Steady, Active, Starters
  <2>2. \A q \in Procs : pc'[q] = "stopping" => on'[q] \in Entries /\ state'[on'[q]] = "Stopping"
    BY <1>1, <1>2, <1>4 DEF IInv, ActorsMatch, Steady, Active, Starters
  <2>3. \A q, r \in Procs : Active(q)' /\ Active(r)' /\ on'[q] = on'[r] => q = r
    BY <1>4, <1>5 DEF IInv, ActorsMatch, Steady
  <2>4. ASSUME NEW f \in Entries, state'[f] \in Busy
        PROVE  \E q \in Procs : Active(q)' /\ on'[q] = f
    <3>1. CASE f = e
      BY <3>1 DEF Active
    <3>2. CASE f # e
      <4>1. PICK q \in Procs : Active(q) /\ on[q] = f
        BY <2>4, <3>2, <1>1, <1>2 DEF IInv, ActorsMatch
      <4> QED BY <4>1, <1>4, <1>5 DEF Steady
    <3> QED BY <3>1, <3>2
  <2>5. \A f \in Entries : f \in doneOpen' <=> state'[f] \in Busy
    BY <1>1, <1>2 DEF IInv, ActorsMatch, Busy, Stoppable
  <2> QED BY <2>1, <2>2, <2>3, <2>4, <2>5 DEF ActorsMatch
<1> QED BY <1>3, <1>6

\* The actor p ends the phase of its entry, which is then in state s.
LEMMA ActorLeaves ==
    ASSUME IInv, NEW p \in Procs, Active(p), ~Active(p)',
           NEW e \in Entries, on[p] = e,
           NEW s \in {"Ready", "CleanupPending", "Idle"},
           state' = [state EXCEPT ![e] = s],
           slot' = IF s = "Idle" THEN Drop(e) ELSE slot,
           media' = IF s = "Idle" THEN media \ {e} ELSE media,
           doneOpen' = doneOpen \ {e}, UNCHANGED lane,
           \A q \in Procs \ {p} : Steady(q)
    PROVE  SlotsHeld' /\ ActorsMatch'
<1>1. /\ state \in [Entries -> Held \cup {"Unborn", "Idle"}]
      /\ slot \in [Lanes -> Entries \cup {None}]
  BY DEF IInv, TypeOK
<1>2. state[e] \in Held /\ lane[e] \in Lanes /\ slot[lane[e]] = e
  BY DEF IInv, ActorsMatch, SlotsHeld, Active, Starters, Held
<1>3. SlotsHeld'
  <2>1. CASE s = "Idle"
    <3>1. slot' = [slot EXCEPT ![lane[e]] = None]
      BY <2>1, <1>1, <1>2 DEF Drop
    <3> QED BY <2>1, <3>1, <1>1, <1>2, NoneAssumption DEF IInv, SlotsHeld, Held
  <2>2. CASE s # "Idle"
    BY <2>2, <1>1, <1>2 DEF IInv, SlotsHeld, Held
  <2> QED BY <2>1, <2>2
<1>4. \A q \in Procs \ {p} : Active(q) => on[q] # e
  BY DEF IInv, ActorsMatch
<1>5. \A q \in Procs \ {p} : Active(q)' <=> Active(q)
  BY DEF Steady, Active
<1>6. ActorsMatch'
  <2>1. \A q \in Procs : pc'[q] \in Starters => on'[q] \in Entries /\ state'[on'[q]] = "Starting"
    BY <1>1, <1>4 DEF IInv, ActorsMatch, Steady, Active, Starters
  <2>2. \A q \in Procs : pc'[q] = "stopping" => on'[q] \in Entries /\ state'[on'[q]] = "Stopping"
    BY <1>1, <1>4 DEF IInv, ActorsMatch, Steady, Active, Starters
  <2>3. \A q, r \in Procs : Active(q)' /\ Active(r)' /\ on'[q] = on'[r] => q = r
    BY <1>5 DEF IInv, ActorsMatch, Steady
  <2>4. ASSUME NEW f \in Entries, state'[f] \in Busy
        PROVE  \E q \in Procs : Active(q)' /\ on'[q] = f
    <3>1. f # e /\ state[f] \in Busy
      BY <2>4, <1>1 DEF Busy
    <3>2. PICK q \in Procs : Active(q) /\ on[q] = f
      BY <3>1 DEF IInv, ActorsMatch
    <3> QED BY <3>1, <3>2, <1>5 DEF Steady
  <2>5. \A f \in Entries : f \in doneOpen' <=> state'[f] \in Busy
    BY <1>1 DEF IInv, ActorsMatch, Busy
  <2> QED BY <2>1, <2>2, <2>3, <2>4, <2>5 DEF ActorsMatch
<1> QED BY <1>3, <1>6

-----------------------------------------------------------------------------
(* The actions.                                                            *)

LEMMA CallStep == ASSUME IInv, NEW c \in Callers, NEW op \in {"ensure", "stop"}, NEW l \in Lanes,
    NEW n \in Nodes \cup {None}, NEW strict \in BOOLEAN, Call(c, op, l, n, strict) PROVE IInv'
<1>1. TypeOK'
  BY ProcFacts DEF IInv, TypeOK, Call, Free, Requests, mapVars, envVars, jobVars
<1>2. SlotsHeld' /\ ActorsMatch'
  <2>1. \A q \in Procs : Steady(q)
    BY ProcFacts DEF IInv, TypeOK, Kinds, Steady, Active, Call, Free, Requests, mapVars, envVars, jobVars
  <2> QED BY <2>1, Quiet DEF Call, Free, Requests, mapVars, envVars, jobVars
<1>3. Kinds'
  BY ProcFacts DEF IInv, TypeOK, Kinds, Call, Free, Requests, mapVars, envVars, jobVars
<1> QED BY <1>1, <1>2, <1>3 DEF IInv

\* A request goroutine that acts on no entry returns, is served or waits.
LEMMA Returns ==
    ASSUME IInv, NEW p \in Requesters, Return(p),
           ~Active(p), UNCHANGED <<mapVars, envVars, jobVars>>
    PROVE  IInv'
<1>1. TypeOK'
  BY ProcFacts DEF IInv, TypeOK, Return, NoRequest, Requests, mapVars, envVars, jobVars
<1>2. \A q \in Procs : Steady(q)
  BY ProcFacts DEF IInv, TypeOK, Kinds, Steady, Active, Return, NoRequest, Requests, mapVars
<1>3. SlotsHeld' /\ ActorsMatch'
  BY <1>2, Quiet DEF mapVars, envVars
<1>4. Kinds'
  BY ProcFacts DEF IInv, TypeOK, Kinds, Return, NoRequest, Requests, mapVars
<1> QED BY <1>1, <1>3, <1>4 DEF IInv

LEMMA IsServed ==
    ASSUME IInv, NEW p \in Requesters, pc[p] # "idle", NEW e \in Entries \cup {None}, Serve(p, e),
           ~Active(p), UNCHANGED <<mapVars, envVars, jobVars>>
    PROVE  IInv'
<1>1. TypeOK'
  BY ProcFacts DEF IInv, TypeOK, Serve, mapVars, envVars, jobVars
<1>2. \A q \in Procs : Steady(q)
  BY ProcFacts DEF IInv, TypeOK, Kinds, Steady, Active, Serve, mapVars
<1>3. SlotsHeld' /\ ActorsMatch'
  BY <1>2, Quiet DEF mapVars, envVars
<1>4. Kinds'
  BY ProcFacts DEF IInv, TypeOK, Kinds, Serve, mapVars
<1> QED BY <1>1, <1>3, <1>4 DEF IInv

LEMMA Waits ==
    ASSUME IInv, NEW p \in Requesters \cup Sweeps, pc[p] # "idle",
           NEW e \in Entries \cup {None}, p \in Requesters \/ e \in Entries,
           NEW point \in {"look", "waitStart", "waitStop"}, WaitFor(p, e, point),
           ~Active(p), UNCHANGED <<mapVars, envVars, jobVars>>
    PROVE  IInv'
<1>1. TypeOK'
  BY ProcFacts DEF IInv, TypeOK, WaitFor, mapVars, envVars, jobVars
<1>2. \A q \in Procs : Steady(q)
  BY ProcFacts DEF IInv, TypeOK, Kinds, Steady, Active, WaitFor, mapVars
<1>3. SlotsHeld' /\ ActorsMatch'
  BY <1>2, Quiet DEF mapVars, envVars
<1>4. Kinds'
  BY ProcFacts DEF IInv, TypeOK, Kinds, WaitFor, mapVars
<1> QED BY <1>1, <1>3, <1>4 DEF IInv

LEMMA CancelWaitStep == ASSUME IInv, NEW p, CancelWait(p) PROVE IInv'
BY Returns DEF CancelWait, Active

LEMMA ConcludeStep ==
    ASSUME IInv, NEW t \in Targets, NEW l \in Lanes, NEW v \in Verdicts, Conclude(t, l, v)
    PROVE  IInv'
<1>1. TypeOK'
  BY ProcFacts DEF IInv, TypeOK, Conclude, mapVars, envVars
<1>2. SlotsHeld' /\ ActorsMatch'
  <2>1. \A q \in Procs : Steady(q)
    BY ProcFacts DEF IInv, TypeOK, Kinds, Steady, Active, Conclude, mapVars, envVars
  <2> QED BY <2>1, Quiet DEF Conclude, mapVars, envVars
<1>3. Kinds'
  BY ProcFacts DEF IInv, TypeOK, Kinds, Conclude, mapVars, envVars
<1> QED BY <1>1, <1>2, <1>3 DEF IInv

LEMMA FinishJobStep == ASSUME IInv, NEW t \in Targets, FinishJob(t) PROVE IInv'
<1>1. TypeOK'
  BY ProcFacts DEF IInv, TypeOK, FinishJob, procVars, mapVars, envVars, DeviceCleanupStatus, Reports, Verdicts
<1>2. SlotsHeld' /\ ActorsMatch'
  <2>1. \A q \in Procs : Steady(q)
    BY ProcFacts
       DEF IInv, TypeOK, Kinds, Steady, Active, FinishJob, procVars, mapVars, envVars,
           DeviceCleanupStatus, Reports, Verdicts
  <2> QED BY <2>1, Quiet DEF FinishJob, procVars, mapVars, envVars, DeviceCleanupStatus, Reports, Verdicts
<1>3. Kinds'
  BY ProcFacts
     DEF IInv, TypeOK, Kinds, FinishJob, procVars, mapVars, envVars, DeviceCleanupStatus,
         Reports, Verdicts
<1> QED BY <1>1, <1>2, <1>3 DEF IInv

\* A request goroutine begins a stop.
LEMMA Stops ==
    ASSUME IInv, NEW p \in Requesters, ~Active(p),
           pc[p] # "idle" \/ \E c \in Callers : p = Caller(c),
           NEW e \in Entries, BeginStop(p, e),
           pc' = [pc EXCEPT ![p] = "stopping"], on' = [on EXCEPT ![p] = e],
           req' = req \/ req' = [req EXCEPT ![p] = [NoRequest EXCEPT !.op = "hook"]],
           UNCHANGED jobVars
    PROVE  IInv'
<1>1. TypeOK'
  <2>1. req' \in [Procs -> Requests]
    <3>1. [NoRequest EXCEPT !.op = "hook"] \in Requests
      BY DEF NoRequest, Requests
    <3> QED BY <3>1, ProcFacts DEF IInv, TypeOK
  <2> QED BY <2>1, ProcFacts DEF IInv, TypeOK, BeginStop, Held, Stoppable, envVars, jobVars
<1>2. \A q \in Procs \ {p} : Steady(q)
  BY DEF IInv, TypeOK, Steady, Active
<1>3. SlotsHeld' /\ ActorsMatch'
  <2>1. pc'[p] = "stopping" /\ on'[p] = e /\ p \in Procs
    BY ProcFacts DEF IInv, TypeOK
  <2> QED BY <1>2, <2>1, StopBegins
<1>4. Kinds'
  BY ProcFacts DEF IInv, TypeOK, Kinds, BeginStop, NoRequest
<1> QED BY <1>1, <1>3, <1>4 DEF IInv

LEMMA EnsureWokenStep == ASSUME IInv, NEW p \in Requesters, EnsureWoken(p) PROVE IInv'
<1>1. pc[p] = "wokeStart" /\ ~Active(p) /\ UNCHANGED <<mapVars, envVars, jobVars>>
  BY DEF EnsureWoken, Active
<1>2. CASE Return(p)
  BY <1>1, <1>2, Returns
<1>3. CASE Serve(p, on[p])
  <2>1. on[p] \in Entries \cup {None}
    BY ProcFacts DEF IInv, TypeOK
  <2> QED BY <1>1, <1>3, <2>1, IsServed
<1> QED BY <1>2, <1>3 DEF EnsureWoken

LEMMA StopWokenStep == ASSUME IInv, NEW p \in Requesters, StopWoken(p) PROVE IInv'
<1>1. pc[p] = "wokeStart" /\ ~Active(p) /\ UNCHANGED <<mapVars, envVars, jobVars>>
  BY DEF StopWoken, Active
<1>2. CASE Return(p)
  BY <1>1, <1>2, Returns
<1>3. CASE WaitFor(p, None, "look")
  BY <1>1, <1>3, Waits
<1> QED BY <1>2, <1>3 DEF StopWoken

LEMMA EnsureFindStep == ASSUME IInv, NEW p \in Requesters, EnsureFind(p) PROVE IInv'
<1> DEFINE e == slot[req[p].lane]
<1>1. pc[p] # "idle" /\ ~Active(p) /\ UNCHANGED jobVars
  BY DEF EnsureFind, AtLoop, Active
<1>2. e \in Entries \cup {None}
  BY ProcFacts DEF IInv, TypeOK, Kinds, EnsureFind, AtLoop
<1>3. CASE Return(p) /\ UNCHANGED <<mapVars, envVars>>
  BY <1>1, <1>3, Returns
<1>4. CASE e # None /\ Serve(p, e) /\ UNCHANGED <<mapVars, envVars>>
  BY <1>1, <1>2, <1>4, IsServed
<1>5. CASE WaitFor(p, e, "waitStart") /\ UNCHANGED <<mapVars, envVars>>
  BY <1>1, <1>2, <1>5, Waits
<1>6. CASE WaitFor(p, e, "waitStop") /\ UNCHANGED <<mapVars, envVars>>
  BY <1>1, <1>2, <1>6, Waits
<1>7. CASE /\ e # None /\ BeginStop(p, e) /\ UNCHANGED req
           /\ pc' = [pc EXCEPT ![p] = "stopping"] /\ on' = [on EXCEPT ![p] = e]
  BY <1>1, <1>2, <1>7, Stops
<1> QED BY <1>3, <1>4, <1>5, <1>6, <1>7 DEF EnsureFind

LEMMA StopFindStep == ASSUME IInv, NEW p \in Requesters, StopFind(p) PROVE IInv'
<1> DEFINE e == slot[req[p].lane]
<1>1. pc[p] # "idle" /\ ~Active(p) /\ UNCHANGED jobVars
  BY DEF StopFind, AtLoop, Active
<1>2. e \in Entries \cup {None}
  BY ProcFacts DEF IInv, TypeOK, Kinds, StopFind, AtLoop
<1>3. CASE Return(p) /\ UNCHANGED <<mapVars, envVars>>
  BY <1>1, <1>3, Returns
<1>5. CASE WaitFor(p, e, "waitStart") /\ UNCHANGED <<mapVars, envVars>>
  BY <1>1, <1>2, <1>5, Waits
<1>6. CASE WaitFor(p, e, "waitStop") /\ UNCHANGED <<mapVars, envVars>>
  BY <1>1, <1>2, <1>6, Waits
<1>7. CASE /\ e # None /\ BeginStop(p, e) /\ UNCHANGED req
           /\ pc' = [pc EXCEPT ![p] = "stopping"] /\ on' = [on EXCEPT ![p] = e]
  BY <1>1, <1>2, <1>7, Stops
<1> QED BY <1>3, <1>5, <1>6, <1>7 DEF StopFind

LEMMA StopIfCurrentStep ==
    ASSUME IInv, NEW c \in Callers, NEW e \in Entries, StopIfCurrent(c, e) PROVE IInv'
BY Stops, ProcFacts DEF StopIfCurrent, Free, Active

LEMMA EnsureCreateStep ==
    ASSUME IInv, NEW p \in Requesters, NEW e \in Entries, EnsureCreate(p, e) PROVE IInv'
<1> DEFINE l == req[p].lane
<1>1. /\ state[e] = "Unborn" /\ slot[l] = None /\ pc[p] \in {"look", "wokeStop"}
      /\ slot' = [slot EXCEPT ![l] = e] /\ state' = [state EXCEPT ![e] = "Starting"]
      /\ lane' = [lane EXCEPT ![e] = l] /\ owner' = [owner EXCEPT ![e] = req[p].node]
      /\ pc' = [pc EXCEPT ![p] = "admit"] /\ on' = [on EXCEPT ![p] = e]
      /\ doneOpen' = doneOpen \cup {e}
      /\ UNCHANGED <<err, epoch, recoveryPending, back, req, envVars, jobVars>>
  BY DEF EnsureCreate, Allocate, AtLoop, WaitFor
<1>2. l \in Lanes /\ p \in Procs /\ req[p].node \in Nodes \cup {None}
  BY ProcFacts DEF IInv, TypeOK, Kinds, EnsureCreate, AtLoop, Requests
<1>3. TypeOK'
  BY <1>1, <1>2 DEF IInv, TypeOK, Held, envVars, jobVars
<1>4. \A q \in Procs \ {p} : Steady(q)
  BY <1>1, <1>2 DEF IInv, TypeOK, Steady, Active
<1>5. \A f \in Entries : state'[f] = IF f = e THEN "Starting" ELSE state[f]
  BY <1>1 DEF IInv, TypeOK
<1>6. SlotsHeld'
  BY <1>1, <1>2, <1>5, NoneAssumption DEF IInv, TypeOK, SlotsHeld, Held, envVars
<1>7. \A q \in Procs : Active(q) => q # p /\ on[q] # e
  BY <1>1 DEF IInv, ActorsMatch, Active, Starters
<1>8. Active(p)' /\ pc'[p] = "admit" /\ on'[p] = e
  BY <1>1, <1>2 DEF IInv, TypeOK, Active
<1>9. \A q \in Procs \ {p} : Active(q)' <=> Active(q)
  BY <1>4 DEF Steady, Active
<1>10. ActorsMatch'
  <2>1. \A q \in Procs : pc'[q] \in Starters => on'[q] \in Entries /\ state'[on'[q]] = "Starting"
    BY <1>4, <1>5, <1>7, <1>8 DEF IInv, ActorsMatch, Steady, Active, Starters
  <2>2. \A q \in Procs : pc'[q] = "stopping" => on'[q] \in Entries /\ state'[on'[q]] = "Stopping"
    BY <1>4, <1>5, <1>7, <1>8 DEF IInv, ActorsMatch, Steady, Active, Starters
  <2>3. \A q, r \in Procs : Active(q)' /\ Active(r)' /\ on'[q] = on'[r] => q = r
    BY <1>4, <1>7, <1>8, <1>9 DEF IInv, ActorsMatch, Steady
  <2>4. \A f \in Entries : state'[f] \in Busy => \E q \in Procs : Active(q)' /\ on'[q] = f
    BY <1>2, <1>4, <1>5, <1>7, <1>8, <1>9 DEF IInv, ActorsMatch, Steady
  <2>5. \A f \in Entries : f \in doneOpen' <=> state'[f] \in Busy
    BY <1>1, <1>5 DEF IInv, ActorsMatch, Busy
  <2> QED BY <2>1, <2>2, <2>3, <2>4, <2>5 DEF ActorsMatch
<1>11. Kinds'
  BY <1>1, <1>2, <1>5, ProcFacts DEF IInv, TypeOK, Kinds
<1> QED BY <1>3, <1>6, <1>10, <1>11 DEF IInv

\* A start in progress moves on.
LEMMA AdmitStep == ASSUME IInv, NEW p \in Requesters, Admit(p) PROVE IInv'
<1>1. p \in Procs /\ on[p] \in Entries /\ pc[p] = "admit" /\ state[on[p]] = "Starting"
  BY ProcFacts DEF IInv, ActorsMatch, Starters, Admit
<1>2. /\ granted' = [granted EXCEPT ![on[p]] = epochNow]
      /\ pc' = [pc EXCEPT ![p] = "publish"]
      /\ UNCHANGED <<on, back, req, mapVars, epochNow, media, jobVars>>
  BY DEF Admit
<1>3. TypeOK'
  BY <1>1, <1>2 DEF IInv, TypeOK, Epochs, mapVars, jobVars
<1>4. SlotsHeld' /\ ActorsMatch'
  BY <1>1, <1>2 DEF IInv, TypeOK, SlotsHeld, ActorsMatch, Active, Starters, mapVars
<1>5. Kinds'
  BY <1>1, <1>2, ProcFacts DEF IInv, TypeOK, Kinds, mapVars
<1> QED BY <1>3, <1>4, <1>5 DEF IInv

LEMMA PublishStep == ASSUME IInv, NEW p \in Requesters, Publish(p) PROVE IInv'
<1>1. p \in Procs /\ on[p] \in Entries /\ pc[p] = "publish" /\ state[on[p]] = "Starting"
  BY ProcFacts DEF IInv, ActorsMatch, Starters, Publish
<1>2. /\ pc' = [pc EXCEPT ![p] = "starting"]
      /\ media' = media \cup {on[p]}
      /\ UNCHANGED <<slot, state, lane, err, owner, doneOpen, recoveryPending,
                     granted, epochNow, on, back, req, jobVars>>
  BY DEF Publish
<1>3. TypeOK'
  <2>1. epoch' \in [Entries -> 0..MaxEpoch]
    BY <1>1 DEF Publish, IInv, TypeOK
  <2> QED BY <1>1, <1>2, <2>1 DEF IInv, TypeOK, Epochs, jobVars
<1>4. SlotsHeld' /\ ActorsMatch'
  BY <1>1, <1>2 DEF IInv, TypeOK, SlotsHeld, ActorsMatch, Active, Starters, Held
<1>5. Kinds'
  BY <1>1, <1>2, ProcFacts DEF IInv, TypeOK, Kinds
<1> QED BY <1>3, <1>4, <1>5 DEF IInv

-----------------------------------------------------------------------------
(* Steps that close a done channel.                                        *)

\* Waking a goroutine never makes it, or stops it being, an actor.
LEMMA WokenFacts ==
    ASSUME TypeOK, NEW e, NEW q \in Procs
    PROVE  /\ Woken(e, q) = pc[q] \/ (pc[q] = "waitStart" /\ Woken(e, q) = "wokeStart")
              \/ (pc[q] = "waitStop" /\ Woken(e, q) = "wokeStop")
           /\ Woken(e, q) \in {"idle", "look", "admit", "publish", "starting", "served",
                               "waitStart", "waitStop", "wokeStart", "wokeStop",
                               "stopping", "await"}
BY DEF Woken, TypeOK

\* The actor p, a request goroutine, ends the phase of e and leaves for point;
\* the goroutines in go are idle background retries of e.
LEMMA Leaves ==
    ASSUME IInv, NEW p \in Requesters, Active(p), NEW e \in Entries, on[p] = e,
           NEW point \in {"idle", "look", "served"}, NEW go \in {{}, {Retry(e)}},
           CloseDone(p, e, point, go),
           NEW s \in {"Ready", "CleanupPending", "Idle"},
           go # {} => state[e] = "Starting",
           state' = [state EXCEPT ![e] = s],
           slot' = IF s = "Idle" THEN Drop(e) ELSE slot,
           media' = IF s = "Idle" THEN media \ {e} ELSE media, UNCHANGED lane,
           \A q \in Procs \ {p} : on'[q] = on[q],
           \A q \in Requesters :
               req'[q].op \in {"ensure", "stop"} => req'[q].lane \in Lanes
    PROVE  SlotsHeld' /\ ActorsMatch' /\ Kinds' /\ doneOpen' \subseteq Entries
           /\ pc' \in [Procs -> {"idle", "look", "admit", "publish", "starting", "served",
                               "waitStart", "waitStop", "wokeStart", "wokeStop",
                               "stopping", "await"}]
<1>1. p \in Procs /\ Retry(e) \in Requesters /\ go \subseteq Requesters
      /\ (Retry(e) \in go => pc[Retry(e)] = "idle")
      /\ (\A q \in Procs \ {p} : q \in go => q = Retry(e))
  BY ProcFacts DEF IInv, Kinds
<1>2. doneOpen' = doneOpen \ {e} /\ pc'[p] = point
  BY <1>1 DEF CloseDone
<1>3. \A q \in Procs \ {p} : pc'[q] = IF q \in go THEN "look" ELSE Woken(e, q)
  BY <1>1 DEF CloseDone
<1>4. \A q \in Procs \ {p} : Steady(q)
  BY <1>1, <1>3, WokenFacts DEF IInv, Steady, Active
<1>5. ~Active(p)'
  BY <1>2 DEF Active
<1>6. SlotsHeld' /\ ActorsMatch'
  BY <1>1, <1>2, <1>4, <1>5, ActorLeaves
<1>7. Kinds'
  <2>1. \A f \in Entries : pc'[Closer(f)] \in {"idle", "stopping"}
    BY <1>1, <1>3, ProcFacts DEF IInv, Kinds, Woken
  <2>7. \A f \in Entries : pc'[Closer(f)] # "idle" => on'[Closer(f)] = f
    BY <1>1, <1>3, ProcFacts DEF IInv, Kinds, Woken
  <2>2. \A q \in Sweeps : pc'[q] \notin {"admit", "publish", "starting", "stopping"}
    BY <1>1, <1>3, ProcFacts, WokenFacts DEF IInv, Kinds
  <2>3. \A q \in Requesters : pc'[q] # "await"
    BY <1>1, <1>2, <1>3, ProcFacts, WokenFacts DEF IInv, Kinds
  <2>4. ASSUME NEW f \in Entries, pc'[Retry(f)] # "idle"
        PROVE  state'[f] \notin {"Unborn", "Starting"}
    <3>1. CASE f = e
      BY <3>1 DEF IInv, TypeOK
    <3>2. CASE f # e
      <4>1. Retry(f) # Retry(e) /\ Retry(f) \in Procs
        BY <3>2, ProcFacts
      <4>2. pc[Retry(f)] # "idle"
        <5>1. CASE Retry(f) = p
          BY <5>1 DEF Active
        <5>2. CASE Retry(f) # p
          <6>1. pc'[Retry(f)] = Woken(e, Retry(f))
            <7>1. Retry(f) \in Procs \ {p} /\ Retry(f) \notin go
              BY <1>1, <4>1, <5>2
            <7> QED BY <7>1, <1>3
          <6> QED BY <6>1, <4>1, <2>4, WokenFacts DEF IInv
        <5> QED BY <5>1, <5>2
      <4> QED BY <3>2, <4>2 DEF IInv, Kinds, TypeOK
    <3> QED BY <3>1, <3>2
  <2>5. \A q \in Requesters :
            req'[q].op \in {"ensure", "stop"} => req'[q].lane \in Lanes
    OBVIOUS
  <2>6. \A f \in Entries : pc'[Retry(f)] # "idle" => state'[f] \notin {"Unborn", "Starting"}
    BY <2>4
  <2>8. \A q \in Sweeps : pc'[q] # "idle" => on'[q] \in Entries
    BY <1>1, <1>3, ProcFacts DEF IInv, Kinds, Woken
  <2> QED BY <2>1, <2>2, <2>3, <2>5, <2>6, <2>7, <2>8 DEF Kinds
<1>8. doneOpen' \subseteq Entries
  BY <1>2 DEF IInv, TypeOK
<1>9. pc' \in [Procs -> {"idle", "look", "admit", "publish", "starting", "served",
                        "waitStart", "waitStop", "wokeStart", "wokeStop",
                        "stopping", "await"}]
  BY <1>2, <1>3, <1>1, WokenFacts DEF IInv, CloseDone
<1> QED BY <1>6, <1>7, <1>8, <1>9

LEMMA StartReadyStep ==
    ASSUME IInv, NEW p \in Requesters, NEW m \in Nodes \cup {None}, StartReady(p, m)
    PROVE  IInv'
<1> DEFINE e == on[p]
<1>1. p \in Procs /\ e \in Entries /\ pc[p] = "starting" /\ Active(p)
  BY ProcFacts DEF IInv, ActorsMatch, Starters, StartReady, Active
<1>2. /\ state' = [state EXCEPT ![e] = "Ready"]
      /\ owner' = [owner EXCEPT ![e] = IF @ = None THEN m ELSE @]
      /\ CloseDone(p, e, "served", {})
      /\ UNCHANGED <<slot, lane, err, epoch, recoveryPending, granted, epochNow, media,
                     on, back, req, jobVars>>
  BY DEF StartReady, envVars
<1>3. \A q \in Requesters : req'[q].op \in {"ensure", "stop"} => req'[q].lane \in Lanes
  BY <1>2 DEF IInv, Kinds
<1>4. SlotsHeld' /\ ActorsMatch' /\ Kinds' /\ doneOpen' \subseteq Entries
      /\ pc' \in [Procs -> {"idle", "look", "admit", "publish", "starting", "served",
                           "waitStart", "waitStop", "wokeStart", "wokeStop",
                           "stopping", "await"}]
  BY <1>1, <1>2, <1>3, Leaves
<1>5. TypeOK'
  BY <1>1, <1>2, <1>4 DEF IInv, TypeOK, Held, jobVars
<1> QED BY <1>4, <1>5 DEF IInv

LEMMA StartFailedStep == ASSUME IInv, NEW p \in Requesters, StartFailed(p) PROVE IInv'
<1> DEFINE e == on[p]
<1>1. p \in Procs /\ e \in Entries /\ pc[p] \in Starters /\ Active(p)
  BY ProcFacts DEF IInv, ActorsMatch, Starters, StartFailed, Active
<1>2. /\ state' = [state EXCEPT ![e] = "Idle"]
      /\ err' = [err EXCEPT ![e] = "failed"]
      /\ slot' = Drop(e) /\ media' = media \ {e}
      /\ CloseDone(p, e, "idle", {})
      /\ on' = [on EXCEPT ![p] = None] /\ req' = [req EXCEPT ![p] = NoRequest]
      /\ UNCHANGED <<lane, owner, epoch, recoveryPending, granted, epochNow, back, jobVars>>
  BY DEF StartFailed
<1>3. \A q \in Requesters : req'[q].op \in {"ensure", "stop"} => req'[q].lane \in Lanes
  BY <1>2, ProcFacts DEF IInv, TypeOK, Kinds, NoRequest
<1>4. SlotsHeld' /\ ActorsMatch' /\ Kinds' /\ doneOpen' \subseteq Entries
      /\ pc' \in [Procs -> {"idle", "look", "admit", "publish", "starting", "served",
                           "waitStart", "waitStop", "wokeStart", "wokeStop",
                           "stopping", "await"}]
  <2>1. \A q \in Procs \ {p} : on'[q] = on[q]
    BY <1>2 DEF IInv, TypeOK
  <2> QED BY <1>1, <1>2, <1>3, <2>1, Leaves
<1>5. slot' \in [Lanes -> Entries \cup {None}]
  BY <1>2 DEF IInv, TypeOK, Drop
<1>6. req' \in [Procs -> Requests]
  BY <1>2 DEF IInv, TypeOK, NoRequest, Requests
<1>7. TypeOK'
  BY <1>1, <1>2, <1>4, <1>5, <1>6 DEF IInv, TypeOK, jobVars
<1> QED BY <1>4, <1>7 DEF IInv

LEMMA StartPendingStep == ASSUME IInv, NEW p \in Requesters, StartPending(p) PROVE IInv'
<1> DEFINE e == on[p]
<1>1. p \in Procs /\ e \in Entries /\ pc[p] = "starting" /\ Active(p) /\ state[e] = "Starting"
  BY ProcFacts DEF IInv, ActorsMatch, Starters, StartPending, Active
<1>2. /\ state' = [state EXCEPT ![e] = "CleanupPending"]
      /\ err' = [err EXCEPT ![e] = "pending"]
      /\ CloseDone(p, e, "idle", {Retry(e)})
      /\ req' = [req EXCEPT ![p] = NoRequest,
                            ![Retry(e)] = [op |-> "stop", lane |-> lane[e],
                                           node |-> owner[e], strict |-> FALSE]]
      /\ on' = [on EXCEPT ![p] = None]
      /\ UNCHANGED <<slot, lane, owner, epoch, recoveryPending, granted, epochNow, media,
                     back, jobVars>>
  BY DEF StartPending, envVars
<1>3. lane[e] \in Lanes /\ owner[e] \in Nodes \cup {None} /\ Retry(e) \in Procs
  BY <1>1, ProcFacts DEF IInv, TypeOK, SlotsHeld, Held
<1>4. \A q \in Requesters : req'[q].op \in {"ensure", "stop"} => req'[q].lane \in Lanes
  BY <1>1, <1>2, <1>3, ProcFacts DEF IInv, TypeOK, Kinds, NoRequest
<1>5. SlotsHeld' /\ ActorsMatch' /\ Kinds' /\ doneOpen' \subseteq Entries
      /\ pc' \in [Procs -> {"idle", "look", "admit", "publish", "starting", "served",
                           "waitStart", "waitStop", "wokeStart", "wokeStop",
                           "stopping", "await"}]
  <2>1. \A q \in Procs \ {p} : on'[q] = on[q]
    BY <1>2 DEF IInv, TypeOK
  <2> QED BY <1>1, <1>2, <1>4, <2>1, Leaves
<1>6. req' \in [Procs -> Requests]
  <2>1. NoRequest \in Requests /\ [op |-> "stop", lane |-> lane[e], node |-> owner[e],
                                    strict |-> FALSE] \in Requests
    BY <1>3 DEF NoRequest, Requests
  <2> QED BY <1>2, <2>1 DEF IInv, TypeOK
<1>7. TypeOK'
  BY <1>1, <1>2, <1>5, <1>6 DEF IInv, TypeOK, Held, jobVars
<1> QED BY <1>5, <1>7 DEF IInv

LEMMA StopReturnsStep ==
    ASSUME IInv, NEW p, NEW out \in StopOutcomes, StopReturns(p, out) PROVE IInv'
<1> DEFINE e == on[p]
           s == IF Terminal(out) THEN "Idle" ELSE back[p]
           point == IF req[p].op = "ensure" /\ out = "ok" THEN "look" ELSE "idle"
<1>1. p \in Requesters /\ p \in Procs /\ e \in Entries /\ pc[p] = "stopping" /\ Active(p)
  BY ProcFacts DEF IInv, ActorsMatch, StopReturns, Active
<1>2. /\ state' = [state EXCEPT ![e] = s]
      /\ slot' = IF Terminal(out) THEN Drop(e) ELSE slot
      /\ media' = IF Terminal(out) THEN media \ {e} ELSE media
      /\ CloseDone(p, e, point, {})
      /\ req' = req \/ req' = [req EXCEPT ![p] = NoRequest]
      /\ on' = [on EXCEPT ![p] = None]
      /\ back' = [back EXCEPT ![p] = "Ready"]
      /\ UNCHANGED <<lane, err, owner, epoch, recoveryPending, granted, epochNow, jobVars>>
  BY DEF StopReturns, FinishStop
<1>3. s \in {"Ready", "CleanupPending", "Idle"} /\ (Terminal(out) <=> s = "Idle")
      /\ point \in {"idle", "look", "served"}
  BY <1>1 DEF IInv, TypeOK, Stoppable
<1>4. \A q \in Requesters : req'[q].op \in {"ensure", "stop"} => req'[q].lane \in Lanes
  BY <1>2, ProcFacts DEF IInv, TypeOK, Kinds, NoRequest
<1>5. SlotsHeld' /\ ActorsMatch' /\ Kinds' /\ doneOpen' \subseteq Entries
      /\ pc' \in [Procs -> {"idle", "look", "admit", "publish", "starting", "served",
                           "waitStart", "waitStop", "wokeStart", "wokeStop",
                           "stopping", "await"}]
  <2>1. \A q \in Procs \ {p} : on'[q] = on[q]
    BY <1>2 DEF IInv, TypeOK
  <2> HIDE DEF s, point
  <2> QED BY <1>1, <1>2, <1>3, <1>4, <2>1, Leaves
<1>6. slot' \in [Lanes -> Entries \cup {None}]
  BY <1>2 DEF IInv, TypeOK, Drop
<1>7. req' \in [Procs -> Requests]
  <2>1. NoRequest \in Requests
    BY DEF NoRequest, Requests
  <2> QED BY <1>2, <2>1 DEF IInv, TypeOK
<1>8. TypeOK'
  <2>1. state' \in [Entries -> Held \cup {"Unborn", "Idle"}]
    BY <1>1, <1>2, <1>3 DEF IInv, TypeOK, Held
  <2>2. media' \subseteq Entries
    BY <1>2 DEF IInv, TypeOK
  <2> HIDE DEF s, point
  <2> QED BY <1>2, <1>5, <1>6, <1>7, <2>1, <2>2 DEF IInv, TypeOK, Stoppable, jobVars
<1> QED BY <1>5, <1>8 DEF IInv

LEMMA CloserReturnsStep ==
    ASSUME IInv, NEW e \in Entries, NEW out \in StopOutcomes, CloserReturns(e, out)
    PROVE  IInv'
<1> DEFINE p == Closer(e)
           s == IF Terminal(out) THEN "Idle" ELSE back[p]
           waiting == {w \in Sweeps : pc[w] = "await" /\ on[w] = e}
<1>1. p \in Procs /\ p \in Closers /\ pc[p] = "stopping" /\ Active(p) /\ on[p] = e
  BY ProcFacts DEF IInv, Kinds, CloserReturns, Active
<1>2. /\ state' = [state EXCEPT ![e] = s]
      /\ slot' = IF Terminal(out) THEN Drop(e) ELSE slot
      /\ media' = IF Terminal(out) THEN media \ {e} ELSE media
      /\ doneOpen' = doneOpen \ {e}
      /\ pc' = [q \in Procs |-> IF q = p \/ q \in waiting THEN "idle" ELSE Woken(e, q)]
      /\ on' = [q \in Procs |-> IF q = p \/ q \in waiting THEN None ELSE on[q]]
      /\ back' = [back EXCEPT ![p] = "Ready"]
      /\ UNCHANGED <<lane, err, owner, epoch, recoveryPending, granted, epochNow,
                     req, running, report>>
  BY DEF CloserReturns, FinishStop
<1>3. s \in {"Ready", "CleanupPending", "Idle"} /\ (Terminal(out) <=> s = "Idle")
  BY <1>1 DEF IInv, TypeOK, Stoppable
<1>4. ~Active(p)' /\ \A q \in Procs \ {p} : Steady(q)
  BY <1>1, <1>2, ProcFacts, WokenFacts DEF IInv, Kinds, Steady, Active
<1>5. SlotsHeld' /\ ActorsMatch'
  <2> HIDE DEF s, p
  <2> QED BY <1>1, <1>2, <1>3, <1>4, ActorLeaves
<1>6. TypeOK'
  <2>1. verdict' \in [Targets -> [Lanes -> Verdicts]]
    BY DEF CloserReturns, IInv, TypeOK, Verdicts
  <2>2. slot' \in [Lanes -> Entries \cup {None}] /\ media' \subseteq Entries
    BY <1>2 DEF IInv, TypeOK, Drop
  <2>3. state' \in [Entries -> Held \cup {"Unborn", "Idle"}]
    BY <1>2, <1>3 DEF IInv, TypeOK, Held
  <2>4. pc' \in [Procs -> {"idle", "look", "admit", "publish", "starting", "served",
                          "waitStart", "waitStop", "wokeStart", "wokeStop",
                          "stopping", "await"}]
    BY <1>2, WokenFacts DEF IInv
  <2>5. on' \in [Procs -> Entries \cup {None}]
    BY <1>2 DEF IInv, TypeOK
  <2> HIDE DEF s, p
  <2> QED BY <1>2, <2>1, <2>2, <2>3, <2>4, <2>5 DEF IInv, TypeOK, Stoppable
<1>7. Kinds'
  <2>1. \A f \in Entries : pc'[Closer(f)] \in {"idle", "stopping"}
    BY <1>2, ProcFacts DEF IInv, Kinds, Woken
  <2>2. \A f \in Entries : pc'[Closer(f)] # "idle" => on'[Closer(f)] = f
    BY <1>2, ProcFacts DEF IInv, Kinds, Woken
  <2>3. \A q \in Sweeps : pc'[q] \notin {"admit", "publish", "starting", "stopping"}
    BY <1>2, ProcFacts, WokenFacts DEF IInv, Kinds
  <2>4. \A q \in Requesters : pc'[q] = Woken(e, q) /\ pc'[q] # "await"
    BY <1>1, <1>2, ProcFacts, WokenFacts DEF IInv, Kinds
  <2>5. ASSUME NEW f \in Entries, pc'[Retry(f)] # "idle"
        PROVE  state'[f] \notin {"Unborn", "Starting"}
    <3>1. pc[Retry(f)] # "idle"
      BY <2>4, <2>5, ProcFacts, WokenFacts DEF IInv
    <3>2. state[f] \notin {"Unborn", "Starting"}
      BY <3>1 DEF IInv, Kinds
    <3> QED BY <3>2, <1>2, <1>3 DEF IInv, TypeOK
  <2>6. \A q \in Requesters : req'[q].op \in {"ensure", "stop"} => req'[q].lane \in Lanes
    BY <1>2 DEF IInv, Kinds
  <2>7. \A q \in Sweeps : pc'[q] # "idle" => on'[q] \in Entries
    <3>1. \A q \in Sweeps : pc'[q] # "idle" => q \notin waiting /\ pc[q] # "idle" /\ on'[q] = on[q]
      BY <1>1, <1>2, ProcFacts DEF Woken
    <3> QED BY <3>1 DEF IInv, Kinds
  <2> QED BY <2>1, <2>2, <2>3, <2>4, <2>5, <2>6, <2>7 DEF Kinds
<1> QED BY <1>5, <1>6, <1>7 DEF IInv

-----------------------------------------------------------------------------
(* Recovery and device cleanup.                                            *)

LEMMA BeginRecoveryStep == ASSUME IInv, BeginRecovery PROVE IInv'
BY DEF BeginRecovery, IInv, TypeOK, SlotsHeld, ActorsMatch, Kinds, Active,
       envVars, procVars, jobVars

LEMMA FinishRecoveryStep == ASSUME IInv, FinishRecovery PROVE IInv'
<1>1. /\ recoveryPending' = FALSE
      /\ UNCHANGED <<slot, state, lane, err, owner, epoch, doneOpen, granted,
                     epochNow, media, pc, on, back, req, verdict, running, report>>
  BY DEF FinishRecovery, envVars, procVars, jobVars
<1>2. TypeOK'
  BY <1>1 DEF IInv, TypeOK
<1>3. SlotsHeld' /\ ActorsMatch'
  BY <1>1, Quiet DEF Steady
<1>4. Kinds'
  BY <1>1 DEF IInv, Kinds
<1> QED BY <1>2, <1>3, <1>4 DEF IInv

LEMMA TransferStep == ASSUME IInv, Transfer PROVE IInv'
BY EpochAssumption DEF Transfer, IInv, TypeOK, SlotsHeld, ActorsMatch, Kinds, Active,
       Epochs, mapVars, procVars, jobVars

LEMMA RestoreStep ==
    ASSUME IInv, NEW e \in Entries, NEW l \in Lanes, NEW n \in Nodes \cup {None},
           Restore(e, l, n)
    PROVE  IInv'
<1>1. /\ state[e] = "Unborn" /\ slot[l] = None
      /\ slot' = [slot EXCEPT ![l] = e] /\ state' = [state EXCEPT ![e] = "Ready"]
      /\ lane' = [lane EXCEPT ![e] = l] /\ owner' = [owner EXCEPT ![e] = n]
      /\ media' = media \cup {e}
      /\ UNCHANGED <<err, epoch, doneOpen, recoveryPending, granted, epochNow,
                     pc, on, back, req, verdict, running, report>>
  BY DEF Restore, Allocate, procVars, jobVars
<1>2. TypeOK'
  BY <1>1 DEF IInv, TypeOK, Held
<1>3. SlotsHeld'
  BY <1>1, NoneAssumption DEF IInv, TypeOK, SlotsHeld, Held
<1>4. ActorsMatch'
  BY <1>1 DEF IInv, TypeOK, ActorsMatch, Active, Starters, Busy
<1>5. Kinds'
  BY <1>1 DEF IInv, TypeOK, Kinds
<1> QED BY <1>2, <1>3, <1>4, <1>5 DEF IInv

LEMMA ClearDeviceBeforeStep ==
    ASSUME IInv, NEW t \in Targets, ClearDeviceBefore(t) PROVE IInv'
<1>1. \A q \in Procs : \/ pc'[q] = pc[q] /\ on'[q] = on[q]
                       \/ q \in Sweeps /\ pc'[q] = "look" /\ on'[q] \in Entries
  <2> SUFFICES ASSUME NEW q \in Procs
               PROVE  \/ pc'[q] = pc[q] /\ on'[q] = on[q]
                      \/ q \in Sweeps /\ pc'[q] = "look" /\ on'[q] \in Entries
    OBVIOUS
  <2> DEFINE hit == \E l \in Lanes : slot[l] # None /\ q = Sweep(t, l)
  <2>1. pc'[q] = (IF hit THEN "look" ELSE pc[q]) /\ on'[q] = IF hit THEN slot[q[2][2]] ELSE on[q]
    BY DEF ClearDeviceBefore
  <2>2. CASE hit
    <3>1. PICK l \in Lanes : slot[l] # None /\ q = Sweep(t, l)
      BY <2>2
    <3>2. q[2][2] = l
      BY <3>1 DEF Sweep
    <3>3. slot[l] \in Entries /\ q \in Sweeps
      BY <3>1, ProcFacts DEF IInv, TypeOK
    <3> QED BY <2>1, <2>2, <3>2, <3>3
  <2>3. CASE ~hit
    BY <2>1, <2>3
  <2> QED BY <2>2, <2>3
<1>2. \A q \in Procs : Steady(q)
  BY <1>1, ProcFacts DEF IInv, Kinds, Steady, Active
<1>3. UNCHANGED <<slot, state, lane, doneOpen, media>>
  BY DEF ClearDeviceBefore, mapVars, envVars
<1>4. SlotsHeld' /\ ActorsMatch'
  BY <1>2, <1>3, Quiet
<1>5. TypeOK'
  <2>1. on' \in [Procs -> Entries \cup {None}]
    BY <1>1 DEF IInv, TypeOK, ClearDeviceBefore
  <2>2. pc' \in [Procs -> {"idle", "look", "admit", "publish", "starting", "served",
                          "waitStart", "waitStop", "wokeStart", "wokeStop",
                          "stopping", "await"}]
    BY <1>1 DEF IInv, TypeOK, ClearDeviceBefore
  <2>3. verdict' \in [Targets -> [Lanes -> Verdicts]] /\ running' \subseteq Targets
    BY DEF IInv, TypeOK, ClearDeviceBefore, Verdicts
  <2> QED BY <2>1, <2>2, <2>3 DEF IInv, TypeOK, ClearDeviceBefore, mapVars, envVars
<1>6. Kinds'
  BY <1>1, <1>3, ProcFacts DEF IInv, Kinds, ClearDeviceBefore
<1> QED BY <1>4, <1>5, <1>6 DEF IInv

LEMMA SweepLookStep ==
    ASSUME IInv, NEW t \in Targets, NEW l \in Lanes, SweepLook(t, l) PROVE IInv'
<1> DEFINE p == Sweep(t, l)
           e == on[p]
<1>1. p \in Procs /\ p \in Sweeps /\ pc[p] # "idle" /\ ~Active(p)
      /\ e \in Entries
  BY ProcFacts DEF IInv, Kinds, SweepLook, Active
<1>2. CASE \E v \in Verdicts : Conclude(t, l, v)
  BY <1>2, ConcludeStep
<1>3. CASE WaitFor(p, e, "waitStart") /\ UNCHANGED <<mapVars, envVars, jobVars>>
  BY <1>1, <1>3, Waits
<1>4. CASE WaitFor(p, e, "waitStop") /\ UNCHANGED <<mapVars, envVars, jobVars>>
  BY <1>1, <1>4, Waits
<1>5. ASSUME e \in Entries, BeginStop(Closer(e), e),
             pc' = [pc EXCEPT ![p] = "await", ![Closer(e)] = "stopping"],
             on' = [on EXCEPT ![Closer(e)] = e], UNCHANGED <<req, jobVars>>
      PROVE  IInv'
  <2>1. Closer(e) \in Procs /\ Closer(e) \in Closers /\ Closer(e) # p
    BY <1>1, <1>5, ProcFacts
  <2>2. ~Active(Closer(e))
    <3>1. state[e] # "Stopping" /\ e \in Entries
      BY <1>5 DEF BeginStop, Stoppable
    <3>2. pc[Closer(e)] # "stopping"
      BY <2>1, <3>1 DEF IInv, Kinds, ActorsMatch
    <3>3. pc[Closer(e)] \in {"idle", "stopping"}
      BY <1>1 DEF IInv, Kinds
    <3> QED BY <3>2, <3>3 DEF Active
  <2>3. pc'[Closer(e)] = "stopping" /\ on'[Closer(e)] = e /\ pc'[p] = "await"
    BY <1>1, <1>5, <2>1 DEF IInv, TypeOK
  <2>4. \A q \in Procs \ {Closer(e)} : on'[q] = on[q] /\ (q # p => pc'[q] = pc[q])
    BY <1>5 DEF IInv, TypeOK
  <2>5. \A q \in Procs \ {Closer(e)} : Steady(q)
    BY <1>1, <2>3, <2>4 DEF Steady, Active
  <2>6. SlotsHeld' /\ ActorsMatch'
    BY <1>5, <2>1, <2>2, <2>3, <2>5, StopBegins
  <2>7. TypeOK'
    <3>1. state' \in [Entries -> Held \cup {"Unborn", "Idle"}] /\ doneOpen' \subseteq Entries
      BY <1>5 DEF IInv, TypeOK, BeginStop, Held
    <3>2. back' \in [Procs -> Stoppable]
      BY <1>5, <2>1 DEF IInv, TypeOK, BeginStop
    <3>3. pc' \in [Procs -> {"idle", "look", "admit", "publish", "starting", "served",
                             "waitStart", "waitStop", "wokeStart", "wokeStop",
                             "stopping", "await"}]
      BY <1>1, <1>5, <2>1 DEF IInv, TypeOK
    <3>4. on' \in [Procs -> Entries \cup {None}]
      BY <1>5, <2>1 DEF IInv, TypeOK
    <3>5. UNCHANGED <<slot, lane, err, owner, epoch, recoveryPending, granted, epochNow,
                      media, req, verdict, running, report>>
      BY <1>5 DEF BeginStop, envVars, jobVars
    <3> QED BY <3>1, <3>2, <3>3, <3>4, <3>5 DEF IInv, TypeOK
  <2>8. Kinds'
    <3>1. \A f \in Entries : pc'[Closer(f)] \in {"idle", "stopping"}
      BY <1>1, <1>5, <2>3, <2>4, ProcFacts DEF IInv, Kinds
    <3>2. \A f \in Entries : pc'[Closer(f)] # "idle" => on'[Closer(f)] = f
      BY <1>1, <1>5, <2>3, <2>4, ProcFacts DEF IInv, Kinds
    <3>3. \A q \in Sweeps : pc'[q] \notin {"admit", "publish", "starting", "stopping"}
      BY <2>1, <2>3, <2>4, ProcFacts DEF IInv, Kinds
    <3>4. \A q \in Requesters : pc'[q] = pc[q] /\ req'[q] = req[q]
      BY <1>1, <1>5, <2>1, <2>4, ProcFacts
    <3>5. \A f \in Entries : state'[f] = state[f] \/ state'[f] = "Stopping"
      BY <1>5 DEF IInv, TypeOK, BeginStop
    <3>6. \A f \in Entries : pc'[Retry(f)] # "idle" => state'[f] \notin {"Unborn", "Starting"}
      BY <3>4, <3>5, ProcFacts DEF IInv, Kinds
    <3>7. \A q \in Sweeps : pc'[q] # "idle" => on'[q] \in Entries
      BY <1>1, <2>1, <2>4, ProcFacts DEF IInv, Kinds
    <3> QED BY <3>1, <3>2, <3>3, <3>4, <3>6, <3>7 DEF IInv, Kinds
  <2> QED BY <2>6, <2>7, <2>8 DEF IInv
<1>6. SweepVerdict(t, l) \in Verdicts
  BY DEF SweepVerdict, Verdicts
<1> QED BY <1>1, <1>2, <1>3, <1>4, <1>5, <1>6 DEF SweepLook

LEMMA SweepTimeoutStep ==
    ASSUME IInv, NEW t \in Targets, NEW l \in Lanes, SweepTimeout(t, l) PROVE IInv'
BY ConcludeStep DEF SweepTimeout, Verdicts

LEMMA CallerStepStep == ASSUME IInv, NEW c \in Callers, CallerStep(c) PROVE IInv'
<1>1. ASSUME NEW l \in Lanes, NEW n \in Nodes \cup {None}, NEW strict \in BOOLEAN,
             EnsureCall(c, l, n, strict)
      PROVE  IInv'
  BY <1>1, CallStep DEF EnsureCall
<1>2. ASSUME NEW l \in Lanes, NEW n \in Nodes \cup {None}, StopCall(c, l, n) PROVE IInv'
  BY <1>2, CallStep DEF StopCall
<1>3. ASSUME NEW l \in Lanes, StopStream(c, l) PROVE IInv'
  <2>1. owner[slot[l]] \in Nodes \cup {None}
    BY <1>3 DEF IInv, TypeOK, StopStream
  <2> QED BY <1>3, <2>1, CallStep DEF StopStream
<1> QED BY <1>1, <1>2, <1>3, StopIfCurrentStep DEF CallerStep

LEMMA RequesterStep ==
    ASSUME IInv, NEW p \in Requesters,
           Proceed(p) \/ StartReturns(p) \/ CancelWait(p)
               \/ \E out \in StopOutcomes : StopReturns(p, out)
    PROVE  IInv'
<1>1. CASE Proceed(p)
  BY <1>1, EnsureCreateStep, EnsureFindStep, EnsureWokenStep, AdmitStep, PublishStep,
     StopFindStep, StopWokenStep DEF Proceed
<1>2. CASE StartReturns(p)
  BY <1>2, StartReadyStep, StartFailedStep, StartPendingStep DEF StartReturns
<1> QED BY <1>1, <1>2, CancelWaitStep, StopReturnsStep

LEMMA NextIInv == ASSUME IInv, Next PROVE IInv'
<1>1. ASSUME NEW t \in Targets, ClearDeviceBefore(t) \/ Cleanup(t) PROVE IInv'
  BY <1>1, ClearDeviceBeforeStep, SweepLookStep, SweepTimeoutStep, FinishJobStep DEF Cleanup
<1> QED BY <1>1, CallerStepStep, RequesterStep, CloserReturnsStep, RestoreStep,
           BeginRecoveryStep, FinishRecoveryStep, TransferStep DEF Next

LEMMA StutterIInv == ASSUME IInv, UNCHANGED vars PROVE IInv'
BY DEF IInv, TypeOK, SlotsHeld, ActorsMatch, Kinds, Active, vars

\* Every behaviour keeps the inductive invariant.
THEOREM Invariance == Spec => []IInv
<1>1. IInv /\ [Next]_vars => IInv'
  BY NextIInv, StutterIInv
<1> QED BY <1>1, InitIInv, PTL DEF Spec

\* Every variable keeps its type in every behaviour.
THEOREM TypeCorrect == Spec => []TypeOK
BY Invariance, PTL DEF IInv

-----------------------------------------------------------------------------
(* What the invariant says to a reader of the coordinator.                 *)

\* A channel never has two generations whose media may be in place (ensureLive creates an
\* entry only where the map has none, coordinator.go).
THEOREM OneGeneration == Spec => []OneGenerationPerLane
<1>1. IInv => OneGenerationPerLane
  BY DEF IInv, TypeOK, SlotsHeld, OneGenerationPerLane
<1> QED BY <1>1, Invariance, PTL

\* A busy entry has exactly one goroutine that ends its phase, and its done
\* channel is open exactly then (runStart, coordinator.go:401; finishStop, :488).
THEOREM OneActor == Spec => []BarrierHasOneActor
<1>1. ASSUME IInv PROVE BarrierHasOneActor
  <2> SUFFICES ASSUME NEW e \in Entries
               PROVE  LET actors == {p \in Procs : Acting(p, e)}
                          busy == state[e] \in {"Starting", "Stopping"}
                      IN  /\ Cardinality(actors) = IF busy THEN 1 ELSE 0
                          /\ \A p \in actors : (pc[p] = "stopping") <=> (state[e] = "Stopping")
                          /\ (e \in doneOpen) <=> busy
    BY DEF BarrierHasOneActor
  <2> DEFINE actors == {p \in Procs : Acting(p, e)}
  <2>1. \A p \in actors : Active(p) /\ on[p] = e
    BY DEF Acting, Active
  <2>2. Cardinality(actors) = IF state[e] \in Busy THEN 1 ELSE 0
    <3>1. CASE state[e] \in Busy
      <4>1. PICK p \in Procs : Active(p) /\ on[p] = e
        BY <1>1, <3>1 DEF IInv, ActorsMatch
      <4>2. actors = {p}
        BY <1>1, <4>1, <2>1 DEF IInv, ActorsMatch, Acting, Active
      <4> HIDE DEF actors
      <4> QED BY <3>1, <4>2, FS_Singleton
    <3>2. CASE state[e] \notin Busy
      <4>1. actors = {}
        BY <1>1, <2>1, <3>2 DEF IInv, ActorsMatch, Active, Starters, Busy
      <4> HIDE DEF actors
      <4> QED BY <3>2, <4>1, FS_EmptySet
    <3> QED BY <3>1, <3>2
  <2>5. \A p \in actors : (pc[p] = "stopping") <=> (state[e] = "Stopping")
    BY <1>1, <2>1 DEF IInv, ActorsMatch, Active, Starters
  <2>6. (e \in doneOpen) <=> (state[e] \in {"Starting", "Stopping"})
    BY <1>1 DEF IInv, ActorsMatch, Busy
  <2> QED BY <2>2, <2>5, <2>6 DEF Busy
<1> QED BY <1>1, Invariance, PTL

-----------------------------------------------------------------------------
(* What callers and waiters can rely on.                                   *)

\* An entry that has not failed to start carries no error, one whose cleanup
\* is pending does.
Errors ==
    /\ \A e \in Entries : state[e] \in {"Unborn", "Starting", "Ready"} => err[e] = "nil"
    /\ \A e \in Entries : state[e] = "CleanupPending" => err[e] # "nil"

\* A stop remembers the state that belongs to the entry's error; a waiter
\* waits for a phase that is still going on; a start works on the entry its
\* caller asked for; what a waiter or a served caller holds has left Starting.
ProcOK(q) ==
    /\ pc[q] = "stopping" => (back[q] = "Ready" <=> err[on[q]] = "nil")
    /\ pc[q] = "waitStart" => on[q] \in Entries /\ state[on[q]] = "Starting"
    /\ pc[q] = "waitStop" => on[q] \in Entries /\ state[on[q]] = "Stopping"
    /\ q \in Requesters =>
        /\ pc[q] \in Starters => lane[on[q]] = req[q].lane /\ owner[on[q]] = req[q].node
        /\ pc[q] \in {"waitStart", "wokeStart", "served"} =>
               on[q] \in Entries /\ lane[on[q]] = req[q].lane
        /\ pc[q] \in {"wokeStart", "served"} => state[on[q]] \notin {"Unborn", "Starting"}
        /\ pc[q] = "served" => err[on[q]] = "nil" /\ ~OwnerNodeConflict(req[q].node, on[q])

ServeInv == Errors /\ \A q \in Procs : ProcOK(q)

\* A generation never goes back: its lane is final once it is born, its owner
\* and its error once its start has returned.
Matures ==
    /\ \A e \in Entries : state[e] # "Unborn" => lane'[e] = lane[e] /\ state'[e] # "Unborn"
    /\ \A e \in Entries : state[e] \notin {"Unborn", "Starting"} =>
           state'[e] # "Starting" /\ owner'[e] = owner[e] /\ err'[e] = err[e]

SameEntry(e) ==
    state'[e] = state[e] /\ lane'[e] = lane[e] /\ err'[e] = err[e] /\ owner'[e] = owner[e]
SameProc(q) == on'[q] = on[q] /\ req'[q] = req[q] /\ back'[q] = back[q]

\* A goroutine whose entry is as it was keeps what it relies on.
LEMMA Unmoved ==
    ASSUME IInv, ServeInv, NEW q \in Procs, SameProc(q), pc'[q] = pc[q],
           on[q] \in Entries => SameEntry(on[q])
    PROVE  ProcOK(q)'
<1>1. ProcOK(q)
  BY DEF ServeInv
<1>2. pc[q] \in Starters \cup {"stopping"} => on[q] \in Entries
  BY DEF IInv, ActorsMatch
<1> QED BY <1>1, <1>2 DEF ProcOK, SameProc, SameEntry, Starters, OwnerNodeConflict

\* A step that leaves the entries alone.
LEMMA EntriesStay ==
    ASSUME IInv, ServeInv, UNCHANGED <<state, lane, err, owner>>,
           \A q \in Procs : (SameProc(q) /\ pc'[q] = pc[q]) \/ ProcOK(q)'
    PROVE  ServeInv' /\ Matures
<1>1. Errors'
  BY DEF ServeInv, Errors
<1>2. \A q \in Procs : ProcOK(q)'
  BY Unmoved DEF SameEntry
<1>3. Matures
  BY DEF Matures
<1> QED BY <1>1, <1>2, <1>3 DEF ServeInv

\* A step that changes entry f alone, when nobody acts on f or waits for it.
LEMMA EntryMoves ==
    ASSUME IInv, ServeInv, NEW f \in Entries, \A e \in Entries \ {f} : SameEntry(e),
           Errors', Matures, state[f] \notin Busy,
           \A q \in Procs : (SameProc(q) /\ pc'[q] = pc[q]) \/ ProcOK(q)'
    PROVE  ServeInv'
<1> SUFFICES ASSUME NEW q \in Procs, SameProc(q), pc'[q] = pc[q] PROVE ProcOK(q)'
  BY DEF ServeInv
<1>1. ProcOK(q) /\ SameProc(q) /\ pc'[q] = pc[q]
  BY DEF ServeInv
<1>2. CASE on[q] # f \/ on[q] \notin Entries
  BY <1>1, <1>2, Unmoved
<1>3. CASE on[q] = f
  <2>1. pc[q] \notin Starters \cup {"stopping", "waitStart", "waitStop"}
    BY <1>1, <1>3 DEF IInv, ActorsMatch, Busy, ProcOK
  <2> QED BY <1>1, <1>3, <2>1 DEF ProcOK, SameProc, Matures, Starters, OwnerNodeConflict
<1> QED BY <1>2, <1>3

\* The actor p ends the phase of its entry f and wakes those who wait for it.
LEMMA PhaseEnds ==
    ASSUME IInv, ServeInv, NEW p \in Procs, ProcOK(p)', NEW f \in Entries,
           Active(p), on[p] = f, state'[f] \notin Busy,
           \A e \in Entries \ {f} : SameEntry(e),
           Errors', Matures,
           \A q \in Procs \ {p} : (SameProc(q) /\ pc'[q] = Woken(f, q)) \/ ProcOK(q)'
    PROVE  ServeInv'
<1> SUFFICES ASSUME NEW q \in Procs \ {p}, SameProc(q), pc'[q] = Woken(f, q) PROVE ProcOK(q)'
  BY DEF ServeInv
<1>0. ProcOK(q)
  BY DEF ServeInv
<1>1. CASE on[q] # f \/ on[q] \notin Entries
  <2>1. pc'[q] = pc[q]
    BY <1>1 DEF Woken
  <2> QED BY <1>1, <2>1, Unmoved
<1>2. CASE on[q] = f
  <2>1. pc[q] \notin Starters \cup {"stopping"}
    BY <1>2 DEF IInv, ActorsMatch, Active, Starters
  <2>2. pc'[q] = IF pc[q] = "waitStart" THEN "wokeStart"
                 ELSE IF pc[q] = "waitStop" THEN "wokeStop" ELSE pc[q]
    BY <1>2 DEF Woken
  <2>3. pc'[q] \notin Starters \cup {"stopping", "waitStart", "waitStop"}
    BY <2>1, <2>2 DEF Starters
  <2>4. state'[f] # "Unborn" /\ state'[f] # "Starting" /\ lane'[f] = lane[f]
    <3>1. state[f] # "Unborn"
      BY DEF IInv, ActorsMatch, Active, Starters
    <3> QED BY <3>1 DEF Matures, Busy
  <2>5. ASSUME q \in Requesters, pc'[q] = "served"
        PROVE  err'[f] = "nil" /\ ~OwnerNodeConflict(req[q].node, f)'
    <3>1. pc[q] = "served"
      BY <2>2, <2>5
    <3>2. state[f] \notin {"Unborn", "Starting"} /\ err[f] = "nil"
          /\ ~OwnerNodeConflict(req[q].node, f) /\ req'[q] = req[q]
      BY <1>0, <1>2, <2>5, <3>1 DEF ProcOK, SameProc
    <3> QED BY <3>2 DEF Matures, OwnerNodeConflict
  <2>6. ASSUME q \in Requesters, pc'[q] \in {"wokeStart", "served"}
        PROVE  lane[f] = req[q].lane
    BY <1>0, <1>2, <2>2, <2>6 DEF ProcOK
  <2> QED BY <1>2, <2>3, <2>4, <2>5, <2>6 DEF ProcOK, SameProc, OwnerNodeConflict
<1> QED BY <1>1, <1>2

LEMMA InitServe == Init => ServeInv
BY DEF Init, ServeInv, Errors, ProcOK, Starters

LEMMA StayServes ==
    ASSUME IInv, ServeInv, NEW p \in Procs, ProcOK(p)',
           UNCHANGED mapVars, NEW n, NEW x, NEW r,
           pc' = [pc EXCEPT ![p] = n], on' = [on EXCEPT ![p] = x],
           req' = [req EXCEPT ![p] = r], UNCHANGED back
    PROVE  ServeInv' /\ Matures
<1>1. \A q \in Procs \ {p} : SameProc(q) /\ pc'[q] = pc[q]
  BY DEF SameProc, IInv, TypeOK
<1> QED BY <1>1, EntriesStay DEF mapVars

LEMMA IdleOK == ASSUME NEW q \in Procs, pc'[q] \in {"idle", "look", "wokeStop", "await"} PROVE ProcOK(q)'
BY DEF ProcOK, Starters

LEMMA ReturnServes ==
    ASSUME IInv, ServeInv, NEW p \in Requesters, Return(p), UNCHANGED mapVars
    PROVE  ServeInv' /\ Matures
<1>1. p \in Procs
  BY ProcFacts
<1>2. ProcOK(p)'
  BY <1>1, IdleOK DEF Return, IInv, TypeOK
<1> QED BY <1>1, <1>2, StayServes DEF Return

LEMMA ServeServes ==
    ASSUME IInv, ServeInv, NEW p \in Requesters, NEW e \in Entries, Serve(p, e),
           UNCHANGED mapVars, lane[e] = req[p].lane, err[e] = "nil",
           state[e] \notin {"Unborn", "Starting"}, ~OwnerNodeConflict(req[p].node, e)
    PROVE  ServeInv' /\ Matures
<1>1. p \in Procs
  BY ProcFacts
<1>2. pc'[p] = "served" /\ on'[p] = e /\ req'[p] = req[p]
  BY <1>1 DEF Serve, IInv, TypeOK
<1>3. ProcOK(p)'
  BY <1>2 DEF ProcOK, mapVars, Starters, OwnerNodeConflict
<1>4. req' = [req EXCEPT ![p] = req[p]]
  BY DEF Serve, IInv, TypeOK
<1> QED BY <1>1, <1>3, <1>4, StayServes DEF Serve

LEMMA WaitServes ==
    ASSUME IInv, ServeInv, NEW p \in Procs, NEW e, NEW point, WaitFor(p, e, point),
           UNCHANGED mapVars,
           \/ point = "look"
           \/ point = "waitStop" /\ e \in Entries /\ state[e] = "Stopping"
           \/ /\ point = "waitStart" /\ e \in Entries /\ state[e] = "Starting"
              /\ p \in Requesters => lane[e] = req[p].lane
    PROVE  ServeInv' /\ Matures
<1>1. pc'[p] = point /\ on'[p] = e /\ req'[p] = req[p]
  BY DEF WaitFor, IInv, TypeOK
<1>2. ProcOK(p)'
  BY <1>1 DEF ProcOK, mapVars, Starters
<1>3. req' = [req EXCEPT ![p] = req[p]]
  BY DEF WaitFor, IInv, TypeOK
<1> QED BY <1>2, <1>3, StayServes DEF WaitFor

\* Goroutine p begins the stop of e.
LEMMA StopServes ==
    ASSUME IInv, ServeInv, NEW p \in Procs, NEW e \in Entries, BeginStop(p, e),
           pc'[p] = "stopping", on'[p] = e,
           \A q \in Procs \ {p} : \/ on'[q] = on[q] /\ req'[q] = req[q] /\ pc'[q] = pc[q]
                                  \/ ProcOK(q)'
    PROVE  ServeInv' /\ Matures
<1>1. /\ state[e] \in Stoppable /\ state' = [state EXCEPT ![e] = "Stopping"]
      /\ back' = [back EXCEPT ![p] = state[e]]
      /\ UNCHANGED <<lane, err, owner>>
  BY DEF BeginStop
<1>2. \A f \in Entries \ {e} : SameEntry(f)
  BY <1>1 DEF SameEntry, IInv, TypeOK
<1>3. state'[e] = "Stopping" /\ back'[p] = state[e]
  BY <1>1 DEF IInv, TypeOK
<1>4. Errors'
  BY <1>1, <1>2, <1>3 DEF ServeInv, Errors, SameEntry
<1>5. Matures
  BY <1>1, <1>2, <1>3 DEF Matures, SameEntry
<1>6. ProcOK(p)'
  BY <1>1, <1>3 DEF ProcOK, Starters, ServeInv, Errors, Stoppable
<1>7. \A q \in Procs \ {p} : (SameProc(q) /\ pc'[q] = pc[q]) \/ ProcOK(q)'
  BY <1>1 DEF SameProc, IInv, TypeOK
<1>8. state[e] \notin Busy
  BY <1>1 DEF Busy, Stoppable
<1> QED BY <1>2, <1>4, <1>5, <1>6, <1>7, <1>8, EntryMoves

LEMMA FindServes ==
    ASSUME IInv, ServeInv, NEW p \in Requesters, EnsureFind(p) \/ StopFind(p)
    PROVE  ServeInv' /\ Matures
<1> DEFINE e == slot[req[p].lane]
<1>1. p \in Procs /\ req[p].lane \in Lanes /\ e \in Entries \cup {None}
  BY ProcFacts DEF IInv, TypeOK, Kinds, EnsureFind, StopFind, AtLoop
<1>2. e # None => e \in Entries /\ lane[e] = req[p].lane
  BY <1>1 DEF IInv, SlotsHeld
<1>3. CASE Return(p) /\ UNCHANGED <<mapVars, envVars>>
  BY <1>3, ReturnServes
<1>4. CASE /\ e # None /\ state[e] = "Ready" /\ ~OwnerNodeConflict(req[p].node, e)
           /\ Serve(p, e) /\ UNCHANGED <<mapVars, envVars>>
  <2>1. err[e] = "nil"
    BY <1>2, <1>4 DEF ServeInv, Errors
  <2> QED BY <1>2, <1>4, <2>1, ServeServes
<1>5. CASE e # None /\ state[e] = "Starting" /\ WaitFor(p, e, "waitStart") /\ UNCHANGED <<mapVars, envVars>>
  BY <1>1, <1>2, <1>5, WaitServes
<1>6. CASE e # None /\ state[e] = "Stopping" /\ WaitFor(p, e, "waitStop") /\ UNCHANGED <<mapVars, envVars>>
  BY <1>1, <1>2, <1>6, WaitServes
<1>7. CASE /\ e # None /\ BeginStop(p, e) /\ UNCHANGED req
           /\ pc' = [pc EXCEPT ![p] = "stopping"] /\ on' = [on EXCEPT ![p] = e]
  <2>1. /\ pc'[p] = "stopping" /\ on'[p] = e
        /\ \A q \in Procs \ {p} : on'[q] = on[q] /\ req'[q] = req[q] /\ pc'[q] = pc[q]
    BY <1>1, <1>7 DEF IInv, TypeOK
  <2> QED BY <1>1, <1>2, <1>7, <2>1, StopServes
<1> QED BY <1>3, <1>4, <1>5, <1>6, <1>7 DEF EnsureFind, StopFind

\* A waiter of a start is woken: its entry is what it asked for, and the owner,
\* which the start may have found out, is compared again.
LEMMA WokenServes ==
    ASSUME IInv, ServeInv, NEW p \in Requesters, EnsureWoken(p) \/ StopWoken(p)
    PROVE  ServeInv' /\ Matures
<1> DEFINE e == on[p]
<1>1. p \in Procs /\ UNCHANGED mapVars /\ pc[p] = "wokeStart"
  BY ProcFacts DEF EnsureWoken, StopWoken
<1>2. e \in Entries /\ lane[e] = req[p].lane /\ state[e] \notin {"Unborn", "Starting"}
  BY <1>1 DEF ServeInv, ProcOK
<1>3. CASE Return(p)
  BY <1>1, <1>3, ReturnServes
<1>4. CASE err[e] = "nil" /\ ~OwnerNodeConflict(req[p].node, e) /\ Serve(p, e)
  BY <1>1, <1>2, <1>4, ServeServes
<1>5. CASE WaitFor(p, None, "look")
  BY <1>1, <1>5, WaitServes
<1>6. err[e] \in {"nil", "pending", "failed"}
  BY <1>2 DEF IInv, TypeOK
<1> QED BY <1>3, <1>4, <1>5 DEF EnsureWoken, StopWoken

LEMMA CallServes == ASSUME IInv, ServeInv, NEW c \in Callers, CallerStep(c) PROVE ServeInv' /\ Matures
<1> DEFINE p == Caller(c)
<1>1. p \in Procs /\ p \in Requesters
  BY ProcFacts
<1>2. ASSUME NEW op, NEW l, NEW n, NEW strict, Call(c, op, l, n, strict) PROVE ServeInv' /\ Matures
  <2>1. ProcOK(p)'
    BY <1>1, <1>2, IdleOK DEF Call, IInv, TypeOK
  <2> QED BY <1>1, <1>2, <2>1, StayServes DEF Call
<1>3. ASSUME NEW e \in Entries, StopIfCurrent(c, e) PROVE ServeInv' /\ Matures
  <2>1. /\ BeginStop(p, e) /\ pc'[p] = "stopping" /\ on'[p] = e
        /\ \A q \in Procs \ {p} : on'[q] = on[q] /\ req'[q] = req[q] /\ pc'[q] = pc[q]
    BY <1>1, <1>3 DEF StopIfCurrent, IInv, TypeOK
  <2> QED BY <1>1, <2>1, StopServes
<1> QED BY <1>2, <1>3 DEF CallerStep, EnsureCall, StopCall, StopStream

LEMMA CreateServes ==
    ASSUME IInv, ServeInv, NEW p \in Requesters, NEW e \in Entries, EnsureCreate(p, e)
    PROVE  ServeInv' /\ Matures
<1>1. p \in Procs /\ state[e] = "Unborn" /\ state[e] \notin Busy
  BY ProcFacts DEF EnsureCreate, Allocate, Busy
<1>2. /\ state' = [state EXCEPT ![e] = "Starting"] /\ lane' = [lane EXCEPT ![e] = req[p].lane]
      /\ owner' = [owner EXCEPT ![e] = req[p].node] /\ UNCHANGED <<err, back, req>>
      /\ pc' = [pc EXCEPT ![p] = "admit"] /\ on' = [on EXCEPT ![p] = e]
  BY DEF EnsureCreate, Allocate, WaitFor
<1>3. /\ \A f \in Entries \ {e} : SameEntry(f)
      /\ state'[e] = "Starting" /\ lane'[e] = req[p].lane /\ owner'[e] = req[p].node
      /\ err'[e] = "nil"
  BY <1>1, <1>2 DEF SameEntry, IInv, TypeOK, ServeInv, Errors
<1>4. Errors' /\ Matures
  BY <1>1, <1>3 DEF ServeInv, Errors, Matures, SameEntry
<1>5. ProcOK(p)'
  BY <1>1, <1>2, <1>3 DEF ProcOK, IInv, TypeOK
<1>6. \A q \in Procs \ {p} : SameProc(q) /\ pc'[q] = pc[q]
  BY <1>1, <1>2 DEF SameProc, IInv, TypeOK
<1> QED BY <1>1, <1>3, <1>4, <1>5, <1>6, EntryMoves

LEMMA RestoreServes ==
    ASSUME IInv, ServeInv, NEW e \in Entries, NEW l \in Lanes, NEW n \in Nodes \cup {None},
           Restore(e, l, n)
    PROVE  ServeInv' /\ Matures
<1>1. state[e] = "Unborn" /\ state[e] \notin Busy
  BY DEF Restore, Allocate, Busy
<1>2. /\ state' = [state EXCEPT ![e] = "Ready"] /\ lane' = [lane EXCEPT ![e] = l]
      /\ owner' = [owner EXCEPT ![e] = n] /\ UNCHANGED <<err, back, req, pc, on>>
  BY DEF Restore, Allocate, procVars
<1>3. /\ \A f \in Entries \ {e} : SameEntry(f)
      /\ state'[e] = "Ready" /\ err'[e] = "nil"
  BY <1>1, <1>2 DEF SameEntry, IInv, TypeOK, ServeInv, Errors
<1>4. Errors' /\ Matures
  BY <1>1, <1>3 DEF ServeInv, Errors, Matures, SameEntry
<1>5. \A q \in Procs : SameProc(q) /\ pc'[q] = pc[q]
  BY <1>2 DEF SameProc
<1> QED BY <1>1, <1>3, <1>4, <1>5, EntryMoves
\* A start that moves on keeps its entry.
LEMMA ProgressServes ==
    ASSUME IInv, ServeInv, NEW p \in Requesters, Admit(p) \/ Publish(p)
    PROVE  ServeInv' /\ Matures
<1>1. p \in Procs /\ pc[p] \in Starters /\ UNCHANGED <<state, lane, err, owner, on, req, back>>
  BY ProcFacts DEF Admit, Publish, Starters, mapVars
<1>2. pc'[p] \in Starters /\ \A q \in Procs \ {p} : pc'[q] = pc[q]
  BY <1>1 DEF Admit, Publish, Starters, IInv, TypeOK
<1>3. ProcOK(p)'
  BY <1>1, <1>2 DEF ServeInv, ProcOK, Starters
<1> QED BY <1>1, <1>2, <1>3, EntriesStay DEF SameProc

\* A start that returns leaves Starting; a failed one leaves its error.
LEMMA StartEnds ==
    ASSUME IInv, ServeInv, NEW f \in Entries, state[f] = "Starting",
           NEW s \in {"Ready", "CleanupPending", "Idle"}, state' = [state EXCEPT ![f] = s],
           s = "Ready" => err' = err, s = "CleanupPending" => err'[f] # "nil",
           UNCHANGED lane, \A e \in Entries \ {f} : err'[e] = err[e] /\ owner'[e] = owner[e]
    PROVE  Errors' /\ Matures /\ state'[f] = s /\ \A e \in Entries \ {f} : SameEntry(e)
<1>1. state'[f] = s /\ \A e \in Entries \ {f} : SameEntry(e)
  BY DEF SameEntry, IInv, TypeOK
<1>2. Errors'
  BY <1>1 DEF ServeInv, Errors, SameEntry
<1>3. Matures
  BY <1>1 DEF Matures, SameEntry
<1> QED BY <1>1, <1>2, <1>3

LEMMA StartReturnsServes ==
    ASSUME IInv, ServeInv, NEW p \in Requesters, StartReturns(p)
    PROVE  ServeInv' /\ Matures
<1> DEFINE e == on[p]
<1>1. p \in Procs /\ e \in Entries /\ pc[p] \in Starters /\ Active(p) /\ state[e] = "Starting"
      /\ lane[e] = req[p].lane /\ owner[e] = req[p].node /\ err[e] = "nil"
  <2>1. p \in Procs /\ pc[p] \in Starters /\ Active(p)
    BY ProcFacts DEF StartReturns, StartReady, StartFailed, StartPending, Starters, Active
  <2>2. e \in Entries /\ state[e] = "Starting"
    BY <2>1 DEF IInv, ActorsMatch
  <2> QED BY <2>1, <2>2 DEF ServeInv, ProcOK, Errors
<1>2. ASSUME NEW m \in Nodes \cup {None}, StartReady(p, m) PROVE ServeInv' /\ Matures
  <2>1. /\ state' = [state EXCEPT ![e] = "Ready"]
        /\ owner' = [owner EXCEPT ![e] = IF @ = None THEN m ELSE @]
        /\ CloseDone(p, e, "served", {})
        /\ UNCHANGED <<lane, err, on, back, req>>
    BY <1>2 DEF StartReady
  <2>2. \A f \in Entries \ {e} : owner'[f] = owner[f]
    BY <1>1, <2>1 DEF IInv, TypeOK
  <2>3. Errors' /\ Matures /\ state'[e] = "Ready" /\ \A f \in Entries \ {e} : SameEntry(f)
    BY <1>1, <2>1, <2>2, StartEnds
  <2>4. owner'[e] = IF owner[e] = None THEN m ELSE owner[e]
    BY <1>1, <2>1 DEF IInv, TypeOK
  <2>5. pc'[p] = "served" /\ \A q \in Procs \ {p} : pc'[q] = Woken(e, q)
    BY <1>1, <2>1 DEF CloseDone
  <2>6. ProcOK(p)'
    BY <1>1, <2>1, <2>3, <2>4, <2>5 DEF ProcOK, Starters, OwnerNodeConflict
  <2>7. state'[e] \notin Busy
    BY <2>3 DEF Busy
  <2> QED BY <1>1, <2>1, <2>3, <2>5, <2>6, <2>7, PhaseEnds DEF SameProc
<1>3. CASE StartFailed(p)
  <2>1. /\ state' = [state EXCEPT ![e] = "Idle"] /\ err' = [err EXCEPT ![e] = "failed"]
        /\ CloseDone(p, e, "idle", {}) /\ on' = [on EXCEPT ![p] = None]
        /\ req' = [req EXCEPT ![p] = NoRequest] /\ UNCHANGED <<lane, owner, back>>
    BY <1>3 DEF StartFailed
  <2>2. \A f \in Entries \ {e} : err'[f] = err[f]
    BY <1>1, <2>1 DEF IInv, TypeOK
  <2>3. Errors' /\ Matures /\ state'[e] = "Idle" /\ \A f \in Entries \ {e} : SameEntry(f)
    BY <1>1, <2>1, <2>2, StartEnds
  <2>4. pc'[p] = "idle" /\ \A q \in Procs \ {p} : pc'[q] = Woken(e, q)
    BY <1>1, <2>1 DEF CloseDone
  <2>5. \A q \in Procs \ {p} : SameProc(q)
    BY <2>1 DEF SameProc, IInv, TypeOK
  <2>6. ProcOK(p)' /\ state'[e] \notin Busy
    BY <1>1, <2>3, <2>4, IdleOK DEF Busy
  <2> QED BY <1>1, <2>3, <2>4, <2>5, <2>6, PhaseEnds
<1>4. CASE StartPending(p)
  <2>1. /\ state' = [state EXCEPT ![e] = "CleanupPending"] /\ err' = [err EXCEPT ![e] = "pending"]
        /\ CloseDone(p, e, "idle", {Retry(e)}) /\ on' = [on EXCEPT ![p] = None]
        /\ UNCHANGED <<lane, owner, back>>
    BY <1>4 DEF StartPending
  <2>2. err'[e] = "pending" /\ \A f \in Entries \ {e} : err'[f] = err[f]
    BY <1>1, <2>1 DEF IInv, TypeOK
  <2>3. Errors' /\ Matures /\ state'[e] = "CleanupPending"
        /\ \A f \in Entries \ {e} : SameEntry(f)
    BY <1>1, <2>1, <2>2, StartEnds
  <2>4. pc'[p] = "idle" /\ \A q \in Procs \ {p} :
            pc'[q] = IF q = Retry(e) THEN "look" ELSE Woken(e, q)
    BY <1>1, <2>1 DEF CloseDone
  <2>5. \A q \in Procs \ {p, Retry(e)} : SameProc(q)
    BY <1>4, <2>1 DEF SameProc, StartPending, IInv, TypeOK
  <2>6. ProcOK(p)' /\ state'[e] \notin Busy
    BY <1>1, <2>3, <2>4, IdleOK DEF Busy
  <2>7. \A q \in Procs \ {p} : (SameProc(q) /\ pc'[q] = Woken(e, q)) \/ ProcOK(q)'
    BY <2>4, <2>5, IdleOK
  <2> QED BY <1>1, <2>3, <2>6, <2>7, PhaseEnds
<1> QED BY <1>2, <1>3, <1>4 DEF StartReturns

\* A stop that returns gives the entry back the state its error belongs to.
LEMMA StopEnds ==
    ASSUME IInv, ServeInv, NEW p \in Procs, pc[p] = "stopping", NEW out,
           FinishStop(on[p], back[p], out)
    PROVE  /\ Active(p) /\ on[p] \in Entries /\ state'[on[p]] \notin Busy
           /\ Errors' /\ Matures /\ \A e \in Entries \ {on[p]} : SameEntry(e)
<1> DEFINE f == on[p]
           s == IF Terminal(out) THEN "Idle" ELSE back[p]
<1>1. Active(p) /\ f \in Entries /\ state[f] = "Stopping" /\ back[p] \in Stoppable
      /\ (back[p] = "Ready" <=> err[f] = "nil")
  BY DEF Active, IInv, TypeOK, ActorsMatch, ServeInv, ProcOK
<1>2. state' = [state EXCEPT ![f] = s] /\ UNCHANGED <<lane, err, owner>>
  BY DEF FinishStop
<1>3. s = "Idle" \/ (s = "Ready" /\ err[f] = "nil") \/ (s = "CleanupPending" /\ err[f] # "nil")
  BY <1>1 DEF Stoppable
<1> HIDE DEF s
<1>4. state'[f] = s /\ \A e \in Entries \ {f} : SameEntry(e)
  BY <1>1, <1>2 DEF SameEntry, IInv, TypeOK
<1>5. Errors'
  BY <1>2, <1>3, <1>4 DEF ServeInv, Errors, SameEntry
<1>6. Matures
  BY <1>1, <1>2, <1>3, <1>4 DEF Matures, SameEntry
<1>7. state'[f] \notin Busy
  BY <1>3, <1>4 DEF Busy
<1> QED BY <1>1, <1>4, <1>5, <1>6, <1>7

LEMMA StopReturnsServes ==
    ASSUME IInv, ServeInv, NEW p, NEW out \in StopOutcomes, StopReturns(p, out)
    PROVE  ServeInv' /\ Matures
<1> DEFINE e == on[p]
           again == req[p].op = "ensure" /\ out = "ok"
<1>1. p \in Procs /\ pc[p] = "stopping" /\ FinishStop(on[p], back[p], out)
  BY ProcFacts DEF StopReturns
<1>2. /\ Active(p) /\ e \in Entries /\ state'[e] \notin Busy
      /\ Errors' /\ Matures /\ \A f \in Entries \ {e} : SameEntry(f)
  BY <1>1, StopEnds
<1>3. pc'[p] \in {"idle", "look"} /\ \A q \in Procs \ {p} : pc'[q] = Woken(e, q)
  BY <1>1 DEF StopReturns, CloseDone
<1>4. \A q \in Procs \ {p} : SameProc(q)
  BY <1>1 DEF StopReturns, SameProc, IInv, TypeOK
<1>5. ProcOK(p)'
  BY <1>1, <1>3, IdleOK
<1> QED BY <1>1, <1>2, <1>3, <1>4, <1>5, PhaseEnds

LEMMA CloserServes ==
    ASSUME IInv, ServeInv, NEW e \in Entries, NEW out \in StopOutcomes, CloserReturns(e, out)
    PROVE  ServeInv' /\ Matures
<1> DEFINE p == Closer(e)
           waiting == {s \in Sweeps : pc[s] = "await" /\ on[s] = e}
<1>1. p \in Procs /\ pc[p] = "stopping" /\ on[p] = e /\ FinishStop(on[p], back[p], out)
  BY ProcFacts DEF CloserReturns, IInv, Kinds
<1>2. /\ Active(p) /\ state'[e] \notin Busy
      /\ Errors' /\ Matures /\ \A f \in Entries \ {e} : SameEntry(f)
  BY <1>1, StopEnds
<1>3. /\ pc' = [q \in Procs |-> IF q = p \/ q \in waiting THEN "idle" ELSE Woken(e, q)]
      /\ on' = [q \in Procs |-> IF q = p \/ q \in waiting THEN None ELSE on[q]]
      /\ back' = [back EXCEPT ![p] = "Ready"] /\ UNCHANGED req
  BY DEF CloserReturns
<1>4. ASSUME NEW q \in Procs \ {p} PROVE (SameProc(q) /\ pc'[q] = Woken(e, q)) \/ ProcOK(q)'
  <2>1. CASE q \in waiting
    BY <1>3, <2>1, IdleOK
  <2>2. CASE q \notin waiting
    BY <1>3, <2>2 DEF SameProc, IInv, TypeOK
  <2> QED BY <2>1, <2>2
<1>5. ProcOK(p)'
  BY <1>1, <1>3, IdleOK
<1> QED BY <1>1, <1>2, <1>4, <1>5, PhaseEnds

\* A step that leaves the requests alone and moves no goroutine but idle ones
\* and those of cleanup jobs.
LEMMA SweepServes ==
    ASSUME IInv, ServeInv, NEW t \in Targets, ClearDeviceBefore(t) \/ Cleanup(t)
    PROVE  ServeInv' /\ Matures
<1>1. ASSUME NEW l \in Lanes, NEW v, Conclude(t, l, v) PROVE ServeInv' /\ Matures
  <2>1. \A q \in Procs : (SameProc(q) /\ pc'[q] = pc[q]) \/ pc'[q] = "idle"
    BY <1>1 DEF Conclude, SameProc, IInv, TypeOK
  <2>2. \A q \in Procs : (SameProc(q) /\ pc'[q] = pc[q]) \/ ProcOK(q)'
    BY <2>1, IdleOK
  <2> QED BY <1>1, <2>2, EntriesStay DEF Conclude, mapVars
<1>2. ASSUME NEW l \in Lanes, SweepLook(t, l) PROVE ServeInv' /\ Matures
  <2> DEFINE p == Sweep(t, l)
             e == on[p]
  <2>1. p \in Procs /\ p \in Sweeps /\ p \notin Requesters /\ e \in Entries
        /\ Closer(e) \in Procs /\ Closer(e) # p
    BY <1>2, ProcFacts DEF IInv, Kinds, SweepLook
  <2>2. ASSUME state[e] = "Starting", WaitFor(p, e, "waitStart"), UNCHANGED mapVars
        PROVE  ServeInv' /\ Matures
    BY <2>1, <2>2, WaitServes
  <2>3. ASSUME state[e] = "Stopping", WaitFor(p, e, "waitStop"), UNCHANGED mapVars
        PROVE  ServeInv' /\ Matures
    BY <2>1, <2>3, WaitServes
  <2>4. ASSUME BeginStop(Closer(e), e), UNCHANGED req,
               pc' = [pc EXCEPT ![p] = "await", ![Closer(e)] = "stopping"],
               on' = [on EXCEPT ![Closer(e)] = e]
        PROVE  ServeInv' /\ Matures
    <3>1. pc'[p] = "await" /\ pc'[Closer(e)] = "stopping" /\ on'[Closer(e)] = e
          /\ \A q \in Procs \ {Closer(e)} : on'[q] = on[q] /\ req'[q] = req[q]
                                            /\ (pc'[q] = pc[q] \/ q = p)
      BY <2>1, <2>4 DEF IInv, TypeOK
    <3>2. ProcOK(p)'
      BY <2>1, <3>1, IdleOK
    <3> QED BY <2>1, <2>4, <3>1, <3>2, StopServes
  <2> QED BY <1>1, <1>2, <2>2, <2>3, <2>4 DEF SweepLook
<1>3. CASE FinishJob(t)
  BY <1>3, EntriesStay DEF FinishJob, mapVars, procVars, SameProc
<1>4. CASE ClearDeviceBefore(t)
  <2>1. \A q \in Procs : (SameProc(q) /\ pc'[q] = pc[q]) \/ pc'[q] = "look"
    BY <1>4 DEF ClearDeviceBefore, SameProc
  <2>2. \A q \in Procs : (SameProc(q) /\ pc'[q] = pc[q]) \/ ProcOK(q)'
    BY <2>1, IdleOK
  <2> QED BY <1>4, <2>2, EntriesStay DEF ClearDeviceBefore, mapVars
<1> QED BY <1>1, <1>2, <1>3, <1>4 DEF Cleanup, SweepTimeout

LEMMA NextServes == ASSUME IInv, ServeInv, [Next]_vars PROVE ServeInv' /\ Matures
<1>1. ASSUME UNCHANGED <<mapVars, procVars>> PROVE ServeInv' /\ Matures
  BY <1>1, EntriesStay DEF mapVars, procVars, SameProc
<1>2. CASE UNCHANGED vars
  BY <1>1, <1>2 DEF vars, mapVars, procVars
<1>3. CASE BeginRecovery \/ FinishRecovery \/ Transfer
  <2>1. UNCHANGED <<state, lane, err, owner, pc, on, req, back>>
    BY <1>3 DEF BeginRecovery, FinishRecovery, Transfer, mapVars, procVars
  <2> QED BY <2>1, EntriesStay DEF SameProc
<1>4. ASSUME NEW p \in Requesters, Proceed(p) PROVE ServeInv' /\ Matures
  BY <1>4, CreateServes, FindServes, WokenServes, ProgressServes DEF Proceed
<1>5. ASSUME NEW p \in Requesters, CancelWait(p) PROVE ServeInv' /\ Matures
  BY <1>5, ReturnServes DEF CancelWait
<1> QED BY <1>2, <1>3, <1>4, <1>5, CallServes, StartReturnsServes, StopReturnsServes,
           CloserServes, RestoreServes, SweepServes DEF Next

THEOREM ServeInvariance == Spec => []ServeInv
BY InitServe, NextServes, Invariance, PTL DEF Spec

\* Whatever a caller waited for, the generation it is handed is of its lane,
\* started without failure, and not owned by another node than it requires
\* (ensureLive reads the entry again after it was woken; ownerNodeConflict,
\* coordinator.go:510).
THEOREM ServedIsOwned == Spec => []ServedByOwner
<1>1. ASSUME IInv, ServeInv PROVE ServedByOwner
  BY <1>1, ProcFacts DEF ServeInv, ProcOK, ServedByOwner
<1> QED BY <1>1, Invariance, ServeInvariance, PTL

\* A generation never goes back: its lane is final once it is born, its owner
\* and its error once its start has returned; so what a waiter reads of it after
\* its done channel was closed is what runStart left (coordinator.go:321).
THEOREM GenerationsMature == Spec => [][Matures]_vars
BY NextServes, Invariance, ServeInvariance, PTL DEF Spec

\* Nobody waits on a channel that no one will close: who waits for a start or a
\* stop waits on an open done channel, which one goroutine is bound to close.
WaitersHaveActors ==
    \A p \in Procs : Waiting(p) =>
        on[p] \in doneOpen /\ \E q \in Procs : Acting(q, on[p]) /\ q # p

\* No wakeup is lost: whoever waits does so on an open done channel that
\* another goroutine owes it to close (the safety half of WaitersWake; waitFor,
\* coordinator.go:520, is only called after the lock was left).
THEOREM NoLostWakeup == Spec => []WaitersHaveActors
<1>1. ASSUME IInv, ServeInv PROVE WaitersHaveActors
  <2> SUFFICES ASSUME NEW p \in Procs, Waiting(p)
               PROVE  on[p] \in doneOpen /\ \E q \in Procs : Acting(q, on[p]) /\ q # p
    BY DEF WaitersHaveActors
  <2>1. on[p] \in Entries /\ state[on[p]] \in Busy
    BY <1>1 DEF ServeInv, ProcOK, Waiting, Busy
  <2>2. PICK q \in Procs : Active(q) /\ on[q] = on[p]
    BY <1>1, <2>1 DEF IInv, ActorsMatch
  <2> QED BY <1>1, <2>1, <2>2 DEF IInv, ActorsMatch, Acting, Active, Waiting
<1> QED BY <1>1, Invariance, ServeInvariance, PTL

-----------------------------------------------------------------------------
(* The coordinator implements LiveLanes.                                   *)

PhaseOf == [l \in Lanes |-> IF slot[l] = None THEN "absent" ELSE Phase(slot[l])]
CleanOf == [l \in Lanes |-> IF slot[l] = None THEN TRUE ELSE err[slot[l]] = "nil"]
Spent == {e \in Entries : state[e] = "Idle"}

LaneStep == [Lane!Next]_(Lane!laneVars)

\* A step that changes neither the map nor the phase of an entry stutters.
LEMMA LanesStay ==
    ASSUME UNCHANGED <<slot, state, err, recoveryPending>> PROVE LaneStep
BY DEF LaneStep, Lane!laneVars, Phase

\* The lane of a held entry, and what the mapping says of every other lane.
LEMMA LaneOf ==
    ASSUME IInv, NEW e \in Entries, state[e] \in Held
    PROVE  /\ lane[e] \in Lanes /\ slot[lane[e]] = e /\ e # None
           /\ \A l \in Lanes \ {lane[e]} : slot[l] # e
BY NoneAssumption DEF IInv, SlotsHeld

\* The phases that the mapping gives to the states of an entry.
LEMMA Phases ==
    ASSUME NEW e
    PROVE  /\ state[e] = "Starting" => Phase(e) = "starting"
           /\ state[e] = "Ready" => Phase(e) = "live"
           /\ state[e] = "CleanupPending" => Phase(e) = "dirty"
           /\ state[e] = "Stopping" => Phase(e) = "ending"
BY DEF Phase

LEMMA LaneFuns ==
    /\ PhaseOf = [l \in Lanes |-> PhaseOf[l]] /\ CleanOf = [l \in Lanes |-> CleanOf[l]]
    /\ PhaseOf' = [l \in Lanes |-> PhaseOf'[l]] /\ CleanOf' = [l \in Lanes |-> CleanOf'[l]]
BY DEF PhaseOf, CleanOf

\* Entry e of lane l changes its phase in place.
LEMMA LaneMoves ==
    ASSUME IInv, NEW e \in Entries, state[e] \in Held, NEW l \in Lanes, l = lane[e],
           NEW s \in Held, state' = [state EXCEPT ![e] = s],
           UNCHANGED <<slot, recoveryPending>>, \A f \in Entries \ {e} : err'[f] = err[f]
    PROVE  /\ slot[l] = e /\ e # None /\ state'[e] = s
           /\ PhaseOf' = [PhaseOf EXCEPT ![l] = Phase(e)']
           /\ CleanOf' = [CleanOf EXCEPT ![l] = err'[e] = "nil"]
           /\ Spent' = Spent
<1>1. slot[l] = e /\ e # None /\ \A m \in Lanes \ {l} : slot[m] # e
  BY LaneOf
<1>2. state'[e] = s /\ \A f \in Entries \ {e} : state'[f] = state[f]
  BY DEF IInv, TypeOK
<1>3. \A m \in Lanes : slot[m] \in Entries \cup {None}
  BY DEF IInv, TypeOK
<1>4. \A m \in Lanes \ {l} : slot[m] # None =>
          state'[slot'[m]] = state[slot[m]] /\ err'[slot'[m]] = err[slot[m]]
  BY <1>1, <1>2, <1>3
<1>5. \A m \in Lanes \ {l} : PhaseOf'[m] = PhaseOf[m] /\ CleanOf'[m] = CleanOf[m]
  BY <1>4 DEF PhaseOf, CleanOf, Phase
<1>6. PhaseOf'[l] = Phase(e)' /\ CleanOf'[l] = (err'[e] = "nil")
  BY <1>1 DEF PhaseOf, CleanOf, Phase
<1>7. PhaseOf' = [PhaseOf EXCEPT ![l] = Phase(e)']
      /\ CleanOf' = [CleanOf EXCEPT ![l] = err'[e] = "nil"]
  BY <1>5, <1>6, LaneFuns
<1>8. Spent' = Spent
  BY <1>2 DEF Spent, Held
<1> QED BY <1>1, <1>2, <1>7, <1>8

\* Entry e gives its lane up.
LEMMA LaneVacates ==
    ASSUME IInv, NEW e \in Entries, state[e] \in Held, NEW l \in Lanes, l = lane[e],
           state' = [state EXCEPT ![e] = "Idle"], slot' = Drop(e),
           UNCHANGED recoveryPending, \A f \in Entries \ {e} : err'[f] = err[f]
    PROVE  Lane!Vacate(l)
<1>1. slot[l] = e /\ e # None /\ \A m \in Lanes \ {l} : slot[m] # e
  BY LaneOf
<1>2. state'[e] = "Idle" /\ \A f \in Entries \ {e} : state'[f] = state[f]
  BY DEF IInv, TypeOK
<1>3. \A m \in Lanes : slot[m] \in Entries \cup {None}
  BY DEF IInv, TypeOK
<1>4. slot' = [slot EXCEPT ![l] = None] /\ slot'[l] = None /\ \A m \in Lanes \ {l} : slot'[m] = slot[m]
  BY <1>1 DEF Drop, IInv, TypeOK
<1>5. \A m \in Lanes \ {l} : slot[m] # None =>
          state'[slot'[m]] = state[slot[m]] /\ err'[slot'[m]] = err[slot[m]]
  BY <1>1, <1>2, <1>3, <1>4
<1>6. \A m \in Lanes \ {l} : PhaseOf'[m] = PhaseOf[m] /\ CleanOf'[m] = CleanOf[m]
  BY <1>4, <1>5 DEF PhaseOf, CleanOf, Phase
<1>7. PhaseOf'[l] = "absent" /\ CleanOf'[l] = TRUE
  BY <1>4 DEF PhaseOf, CleanOf
<1>8. PhaseOf' = [PhaseOf EXCEPT ![l] = "absent"] /\ CleanOf' = [CleanOf EXCEPT ![l] = TRUE]
  BY <1>6, <1>7, LaneFuns
<1>9. Spent' = Spent \cup {slot[l]}
  BY <1>1, <1>2 DEF Spent
<1> QED BY <1>4, <1>8, <1>9 DEF Lane!Vacate, PhaseOf, CleanOf, Spent

\* A new entry e takes lane l.
LEMMA LaneTaken ==
    ASSUME IInv, ServeInv, NEW e \in Entries, NEW l \in Lanes, NEW n, NEW s \in {"Starting", "Ready"},
           Allocate(e, l, s, n), UNCHANGED recoveryPending
    PROVE  Lane!Take(l, e, IF s = "Starting" THEN "starting" ELSE "live")
<1>1. /\ state[e] = "Unborn" /\ slot[l] = None /\ e # None /\ err[e] = "nil"
      /\ slot' = [slot EXCEPT ![l] = e] /\ state' = [state EXCEPT ![e] = s] /\ err' = err
  BY NoneAssumption DEF Allocate, ServeInv, Errors
<1>2. \A m \in Lanes : slot[m] # e
  BY <1>1 DEF IInv, SlotsHeld, Held
<1>3. state'[e] = s /\ \A f \in Entries \ {e} : state'[f] = state[f]
  BY <1>1 DEF IInv, TypeOK
<1>4. \A m \in Lanes : slot[m] \in Entries \cup {None}
  BY DEF IInv, TypeOK
<1>5. slot'[l] = e /\ \A m \in Lanes \ {l} : slot'[m] = slot[m]
  BY <1>1 DEF IInv, TypeOK
<1>6. \A m \in Lanes \ {l} : slot[m] # None => state'[slot'[m]] = state[slot[m]]
  BY <1>2, <1>3, <1>4, <1>5
<1>7. \A m \in Lanes \ {l} : PhaseOf'[m] = PhaseOf[m] /\ CleanOf'[m] = CleanOf[m]
  BY <1>1, <1>5, <1>6 DEF PhaseOf, CleanOf, Phase
<1>8. PhaseOf'[l] = Phase(e)' /\ CleanOf'[l] = TRUE /\ PhaseOf[l] = "absent" /\ CleanOf[l] = TRUE
  BY <1>1, <1>5 DEF PhaseOf, CleanOf, Phase
<1>9. Phase(e)' = IF s = "Starting" THEN "starting" ELSE "live"
  BY <1>3 DEF Phase
<1>10. /\ PhaseOf' = [PhaseOf EXCEPT ![l] = IF s = "Starting" THEN "starting" ELSE "live"]
       /\ CleanOf' = CleanOf
  BY <1>7, <1>8, <1>9 DEF PhaseOf, CleanOf
<1>11. Spent' = Spent /\ e \notin Spent
  BY <1>1, <1>3 DEF Spent
<1> QED BY <1>1, <1>2, <1>8, <1>10, <1>11 DEF Lane!Take, Lane!Unused, PhaseOf, CleanOf, Spent

LEMMA StopIsEnding ==
    ASSUME IInv, NEW p, NEW e \in Entries, BeginStop(p, e)
    PROVE  LaneStep
<1>1. state[e] \in Stoppable /\ state[e] \in Held /\ UNCHANGED <<slot, err, recoveryPending>>
      /\ state' = [state EXCEPT ![e] = "Stopping"] /\ "Stopping" \in Held
  BY DEF BeginStop, Stoppable, Held
<1>2. PICK l \in Lanes : l = lane[e]
  BY <1>1, LaneOf
<1>3. slot[l] = e /\ e # None /\ state'[e] = "Stopping" /\ Spent' = Spent
      /\ PhaseOf' = [PhaseOf EXCEPT ![l] = Phase(e)']
  BY <1>1, <1>2, LaneMoves
<1>4. Phase(e)' = "ending" /\ Phase(e) \in {"live", "dirty"}
  BY <1>1, <1>3 DEF Phase, Stoppable
<1>5. PhaseOf[l] \in {"live", "dirty"} /\ CleanOf' = CleanOf
  BY <1>1, <1>3, <1>4 DEF PhaseOf, CleanOf
<1>6. Lane!BeginEnd(l)
  BY <1>1, <1>3, <1>4, <1>5 DEF Lane!BeginEnd, PhaseOf, CleanOf, Spent
<1> QED BY <1>6 DEF LaneStep, Lane!Next

LEMMA StopReturnsEnds ==
    ASSUME IInv, ServeInv, NEW p \in Procs, pc[p] = "stopping", NEW out,
           FinishStop(on[p], back[p], out)
    PROVE  LaneStep
<1>1. PICK e \in Entries : e = on[p]
  BY DEF IInv, ActorsMatch
<1>2. state[e] = "Stopping" /\ state[e] \in Held /\ back[p] \in Stoppable /\ back[p] \in Held
      /\ (back[p] = "Ready" <=> err[e] = "nil") /\ UNCHANGED <<err, recoveryPending>>
  BY <1>1 DEF IInv, TypeOK, ActorsMatch, ServeInv, ProcOK, Held, FinishStop, Stoppable
<1>3. PICK l \in Lanes : l = lane[e] /\ slot[l] = e /\ e # None
  BY <1>2, LaneOf
<1>4. PhaseOf[l] = "ending" /\ CleanOf[l] = (err[e] = "nil")
  BY <1>2, <1>3, Phases DEF PhaseOf, CleanOf
<1>5. CASE Terminal(out)
  <2>1. state' = [state EXCEPT ![e] = "Idle"] /\ slot' = Drop(e)
    BY <1>1, <1>5 DEF FinishStop
  <2>2. Lane!Vacate(l)
    BY <1>2, <1>3, <2>1, LaneVacates
  <2>3. Lane!Ended(l)
    BY <1>4, <2>2 DEF Lane!Ended, PhaseOf
  <2> QED BY <2>3 DEF LaneStep, Lane!Next
<1>6. CASE ~Terminal(out)
  <2>1. PICK s \in Held : s = back[p]
    BY <1>2
  <2>2. state' = [state EXCEPT ![e] = s] /\ slot' = slot
    BY <1>1, <1>6, <2>1 DEF FinishStop
  <2>3. state'[e] = s /\ PhaseOf' = [PhaseOf EXCEPT ![l] = Phase(e)']
        /\ CleanOf' = [CleanOf EXCEPT ![l] = err'[e] = "nil"] /\ Spent' = Spent
    BY <1>2, <1>3, <2>2, LaneMoves
  <2>4. Phase(e)' = IF CleanOf[l] THEN "live" ELSE "dirty"
    BY <1>2, <1>4, <2>1, <2>3 DEF Phase, Stoppable
  <2>5. CleanOf' = CleanOf
    BY <1>2, <2>2 DEF CleanOf
  <2>6. Lane!EndFailed(l)
    BY <1>2, <1>4, <2>2, <2>3, <2>4, <2>5 DEF Lane!EndFailed, PhaseOf, CleanOf, Spent
  <2> QED BY <2>6 DEF LaneStep, Lane!Next
<1> QED BY <1>5, <1>6

LEMMA StartReturnsLane ==
    ASSUME IInv, ServeInv, NEW p \in Requesters, StartReturns(p)
    PROVE  LaneStep
<1>1. PICK e \in Entries : e = on[p] /\ state[e] = "Starting"
  <2>1. p \in Procs /\ pc[p] \in Starters
    BY ProcFacts DEF StartReturns, StartReady, StartFailed, StartPending, Starters
  <2> QED BY <2>1 DEF IInv, ActorsMatch
<1>2. state[e] \in Held /\ UNCHANGED recoveryPending
  BY <1>1 DEF StartReturns, StartReady, StartFailed, StartPending, Held
<1>3. PICK l \in Lanes : l = lane[e] /\ slot[l] = e /\ e # None
  BY <1>2, LaneOf
<1>4. PhaseOf[l] = "starting"
  BY <1>1, <1>3, Phases DEF PhaseOf
<1>5. ASSUME NEW m \in Nodes \cup {None}, StartReady(p, m) PROVE LaneStep
  <2>1. state' = [state EXCEPT ![e] = "Ready"] /\ UNCHANGED <<slot, err>> /\ "Ready" \in Held
    BY <1>1, <1>5 DEF StartReady, Held
  <2>2. state'[e] = "Ready" /\ PhaseOf' = [PhaseOf EXCEPT ![l] = Phase(e)'] /\ Spent' = Spent
    BY <1>2, <1>3, <2>1, LaneMoves
  <2>3. Phase(e)' = "live" /\ CleanOf' = CleanOf
    BY <2>1, <2>2 DEF CleanOf, Phase
  <2>4. Lane!Started(l)
    BY <1>2, <1>4, <2>1, <2>2, <2>3 DEF Lane!Started, PhaseOf, CleanOf, Spent
  <2> QED BY <2>4 DEF LaneStep, Lane!Next
<1>6. CASE StartFailed(p)
  <2>1. state' = [state EXCEPT ![e] = "Idle"] /\ slot' = Drop(e)
        /\ \A f \in Entries \ {e} : err'[f] = err[f]
    BY <1>1, <1>6 DEF StartFailed, IInv, TypeOK
  <2>2. Lane!Vacate(l)
    BY <1>2, <1>3, <2>1, LaneVacates
  <2>3. Lane!NeverStarted(l)
    BY <1>4, <2>2 DEF Lane!NeverStarted, PhaseOf
  <2> QED BY <2>3 DEF LaneStep, Lane!Next
<1>7. CASE StartPending(p)
  <2>1. state' = [state EXCEPT ![e] = "CleanupPending"] /\ slot' = slot /\ "CleanupPending" \in Held
        /\ err'[e] = "pending" /\ \A f \in Entries \ {e} : err'[f] = err[f]
    BY <1>1, <1>7 DEF StartPending, IInv, TypeOK, Held
  <2>2. state'[e] = "CleanupPending" /\ PhaseOf' = [PhaseOf EXCEPT ![l] = Phase(e)']
        /\ CleanOf' = [CleanOf EXCEPT ![l] = FALSE] /\ Spent' = Spent
    BY <1>2, <1>3, <2>1, LaneMoves
  <2>3. Phase(e)' = "dirty"
    BY <2>2 DEF Phase
  <2>4. Lane!StartedDirty(l)
    BY <1>2, <1>4, <2>1, <2>2, <2>3 DEF Lane!StartedDirty, PhaseOf, CleanOf, Spent
  <2> QED BY <2>4 DEF LaneStep, Lane!Next
<1> QED BY <1>5, <1>6, <1>7 DEF StartReturns

LEMMA NextLane == ASSUME IInv, ServeInv, [Next]_vars PROVE LaneStep
<1>1. ASSUME UNCHANGED mapVars PROVE LaneStep
  BY <1>1, LanesStay DEF mapVars
<1>2. ASSUME NEW c \in Callers, CallerStep(c) PROVE LaneStep
  BY <1>1, <1>2, StopIsEnding DEF CallerStep, EnsureCall, StopCall, StopStream, StopIfCurrent, Call
<1>3. ASSUME NEW p \in Requesters, Proceed(p) PROVE LaneStep
  <2>1. ASSUME NEW e \in Entries, EnsureCreate(p, e) PROVE LaneStep
    <3>1. req[p].lane \in Lanes /\ ~recoveryPending
      BY <2>1 DEF EnsureCreate, AtLoop, IInv, Kinds
    <3>2. Lane!Take(req[p].lane, e, "starting")
      BY <2>1, <3>1, LaneTaken DEF EnsureCreate
    <3> QED BY <3>1, <3>2 DEF LaneStep, Lane!Next, Lane!Begin
  <2>2. CASE EnsureFind(p) \/ StopFind(p)
    <3>1. req[p].lane \in Lanes /\ slot[req[p].lane] \in Entries \cup {None}
      BY <2>2 DEF EnsureFind, StopFind, AtLoop, IInv, Kinds, TypeOK
    <3> QED BY <1>1, <2>2, <3>1, StopIsEnding DEF EnsureFind, StopFind
  <2>3. CASE EnsureWoken(p) \/ StopWoken(p) \/ Admit(p)
    BY <1>1, <2>3 DEF EnsureWoken, StopWoken, Admit
  <2>4. CASE Publish(p)
    BY <2>4, LanesStay DEF Publish
  <2> QED BY <1>3, <2>1, <2>2, <2>3, <2>4 DEF Proceed
<1>4. ASSUME NEW p \in Requesters, CancelWait(p) PROVE LaneStep
  BY <1>1, <1>4 DEF CancelWait
<1>5. ASSUME NEW p \in Requesters, NEW out \in StopOutcomes, StopReturns(p, out) PROVE LaneStep
  BY <1>5, ProcFacts, StopReturnsEnds DEF StopReturns
<1>6. ASSUME NEW e \in Entries, NEW out \in StopOutcomes, CloserReturns(e, out) PROVE LaneStep
  <2>1. Closer(e) \in Procs /\ on[Closer(e)] = e
    BY <1>6, ProcFacts DEF CloserReturns, IInv, Kinds
  <2> QED BY <1>6, <2>1, StopReturnsEnds DEF CloserReturns
<1>7. ASSUME NEW e \in Entries, NEW l \in Lanes, NEW n \in Nodes \cup {None}, Restore(e, l, n)
      PROVE  LaneStep
  <2>1. recoveryPending /\ Lane!Take(l, e, "live")
    BY <1>7, LaneTaken DEF Restore
  <2> QED BY <2>1 DEF LaneStep, Lane!Next, Lane!Recover
<1>8. CASE BeginRecovery
  BY <1>8 DEF BeginRecovery, LaneStep, Lane!Next, Lane!Close, Phase
<1>9. CASE FinishRecovery
  BY <1>9 DEF FinishRecovery, LaneStep, Lane!Next, Lane!Reopen, Phase
<1>10. CASE Transfer
  BY <1>1, <1>10 DEF Transfer
<1>11. ASSUME NEW t \in Targets, ClearDeviceBefore(t) \/ Cleanup(t) PROVE LaneStep
  <2>1. ASSUME NEW l \in Lanes, SweepLook(t, l) PROVE on[Sweep(t, l)] \in Entries
    BY <2>1, ProcFacts DEF SweepLook, IInv, Kinds
  <2> QED BY <1>1, <1>11, <2>1, StopIsEnding DEF ClearDeviceBefore, Cleanup, SweepLook, SweepTimeout,
             Conclude, FinishJob
<1>12. CASE UNCHANGED vars
  BY <1>1, <1>12 DEF vars, mapVars
<1> QED BY <1>2, <1>3, <1>4, <1>5, <1>6, <1>7, <1>8, <1>9, <1>10, <1>11, <1>12, StartReturnsLane
        DEF Next

\* The coordinator implements the promise of LiveLanes: one generation per lane, which goes
\* through its phases in one direction, and none starts during recovery (coordinator.go).
THEOREM CoordinatorImplementsLanes == Spec => LaneSpec
<1>1. Init => Lane!Init
  BY DEF Init, Lane!Init
<1>2. IInv /\ ServeInv /\ [Next]_vars => [Lane!Next]_(Lane!laneVars)
  BY NextLane DEF LaneStep
<1> QED BY <1>1, <1>2, Invariance, ServeInvariance, PTL DEF Spec, LaneSpec, Lane!Spec
==============================================================================
