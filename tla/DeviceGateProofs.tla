--------------------------- MODULE DeviceGateProofs ---------------------------
(***************************************************************************)
(* Proofs about DeviceGate, for every set of devices and operations, every  *)
(* length of the reconciler's page and any number of epochs and restarts.   *)
(* GInv is the inductive invariant: an unsettled intent and a session hold   *)
(* the watermark back (OpInv, LiveInv), and what the reconciler has found    *)
(* of its current device stays true until it completes it (RecInv).         *)
(***************************************************************************)
EXTENDS DeviceGate, FiniteSetTheorems, WellFoundedInduction, TLAPS

Open == {"reserved", "dispatched"}
Up == {"starting", "ready", "stopping"}

\* What is known of an operation at the different points of its life.
OpInv ==
    /\ \A o \in Ops : intent[o] = "none" => pc[o] = "idle" /\ id[o].dev = 0
    /\ \A o \in Ops : intent[o] # "none" =>
            id[o] \in Identities /\ id[o].epoch <= access[id[o].dev]
    /\ \A o \in Ops : pc[o] \in {"claimed", "effects"} => intent[o] = "dispatched"
    /\ \A o \in Ops : intent[o] \in Open => completed[id[o].dev] <= id[o].epoch

\* The watermark never passes the epoch of media that is up.
LiveInv == \A d \in Devices : live[d].phase \in Up => completed[d] <= live[d].epoch

\* The device a tick has looked at stays closed, and what the tick has found of
\* it stays true.
RecInv ==
    /\ \A r \in page : r.epoch <= access[r.dev]
    /\ rpc \notin {"list", "check"} => completed[Current.dev] < Current.epoch
    /\ rpc \in {"project", "recheck", "complete"} =>
            live[Current.dev].phase \in {"none", "entry"}
    /\ rpc \in {"recheck", "complete"} => Current.dev \notin playing
    /\ rpc = "complete" => ~Unsettled(Current.dev, Current.epoch)

GInv == TypeOK /\ OpInv /\ LiveInv /\ RecInv

-----------------------------------------------------------------------------
(* The device a tick is at.                                                *)

Less == {ss \in Nat \X Nat : ss[1] < ss[2]}

LEMMA LessIsWellFounded == IsWellFoundedOn(Less, Nat)
BY NatLessThanWellFounded DEF OpToRel, Less

\* A set of naturals that is not empty has a least member.
LEMMA LeastKey ==
    ASSUME NEW keys, keys \subseteq Nat, keys # {}
    PROVE  \E x \in keys : \A y \in keys : x <= y
<1>1. \E x \in keys : \A y \in keys : <<y, x>> \notin Less
  BY LessIsWellFounded, WFMin
<1>2. \A x, y \in Nat : <<y, x>> \notin Less => x <= y
  BY DEF Less
<1> QED
  BY <1>1, <1>2

\* A page that is not empty has a device with the least key.
LEMMA CurrentInPage ==
    ASSUME page \subseteq Identities, page # {}
    PROVE  Current \in page /\ Current.dev \in Devices /\ Current.epoch \in Epochs
<1> DEFINE keys == {r.dev : r \in page}
<1>1. keys \subseteq Nat /\ keys # {}
  BY DeviceAssumption DEF Identities
<1>2. \E r \in page : \A q \in page : r.dev <= q.dev
  <2>1. \E x \in keys : \A y \in keys : x <= y
    <3> HIDE DEF keys
    <3> QED
      BY <1>1, LeastKey
  <2> QED
    BY <2>1
<1>3. Current \in page
  BY <1>2 DEF Current
<1> QED
  BY <1>3 DEF Identities

LEMMA InitGInv == Init => GInv
<1> SUFFICES ASSUME Init PROVE GInv
  OBVIOUS
<1>1. TypeOK
  BY BoundAssumption DEF Init, TypeOK, Epochs, NoLive
<1>2. OpInv /\ LiveInv /\ RecInv
  BY DEF Init, OpInv, LiveInv, RecInv, NoLive, Open, Up
<1> QED
  BY <1>1, <1>2 DEF GInv

-----------------------------------------------------------------------------
(* Operations.  None of their steps touches what the reconciler has read,   *)
(* and none makes an older intent unsettled.                               *)

\* What a step of operation o may do.
OpMoves(o) ==
    /\ intent' \in [Ops -> {"none", "reserved", "dispatched", "cancelled"}]
    /\ id' \in [Ops -> Identities \cup {[dev |-> 0, epoch |-> 0]}]
    /\ pc' \in [Ops -> {"idle", "reserved", "leased", "claimed", "effects", "done"}]
    /\ \A q \in Ops : q # o => intent'[q] = intent[q] /\ id'[q] = id[q] /\ pc'[q] = pc[q]
    /\ intent'[o] # "none" /\ id'[o] \in Identities
    /\ pc'[o] \in {"claimed", "effects"} => intent'[o] = "dispatched"
    /\ \/ id'[o] = id[o] /\ intent[o] # "none"
          /\ (intent'[o] \in Open => intent[o] \in Open)
       \/ id'[o].epoch = access[id'[o].dev] /\ completed[id'[o].dev] = access[id'[o].dev]
    /\ UNCHANGED <<deviceVars, liveVars, recVars, crashes>>

LEMMA OpMoveKeeps ==
    ASSUME GInv, NEW o \in Ops, OpMoves(o)
    PROVE  GInv'
<1>1. TypeOK'
  BY DEF GInv, TypeOK, OpMoves, deviceVars, liveVars, recVars
<1>2. access \in [Devices -> Nat] /\ completed \in [Devices -> Nat]
      /\ \A d \in Devices : completed[d] <= access[d]
  BY BoundAssumption DEF GInv, TypeOK, Epochs
<1>3. \A r \in Identities : r.dev \in Devices /\ r.epoch \in Nat
  BY DEF Identities, Epochs
<1>4. OpInv'
  <2>1. \A q \in Ops : intent'[q] = "none" => pc'[q] = "idle" /\ id'[q].dev = 0
    BY DEF OpMoves, GInv, OpInv
  <2>2. \A q \in Ops : intent'[q] # "none" =>
            id'[q] \in Identities /\ id'[q].epoch <= access[id'[q].dev]
    BY <1>2, <1>3 DEF OpMoves, GInv, OpInv
  <2>3. \A q \in Ops : pc'[q] \in {"claimed", "effects"} => intent'[q] = "dispatched"
    BY DEF OpMoves, GInv, OpInv
  <2>4. \A q \in Ops : intent'[q] \in Open => completed[id'[q].dev] <= id'[q].epoch
    BY <1>2, <1>3 DEF OpMoves, GInv, OpInv
  <2> QED
    BY <2>1, <2>2, <2>3, <2>4 DEF OpInv, OpMoves, deviceVars
<1>5. LiveInv'
  BY DEF OpMoves, GInv, LiveInv, deviceVars, liveVars
<1>6. RecInv'
  <2>1. Current' = Current
    BY DEF Current, OpMoves, recVars
  <2>2. ASSUME rpc = "complete", Unsettled(Current.dev, Current.epoch)' PROVE FALSE
    <3>1. Current.dev \in Devices /\ Current.epoch \in Nat /\ Current \in page
      BY <2>2, CurrentInPage DEF GInv, TypeOK, Epochs
    <3>2. Current.epoch <= access[Current.dev]
      BY <3>1 DEF GInv, RecInv
    <3>3. PICK q \in Ops : id'[q].dev = Current.dev /\ id'[q].epoch < Current.epoch
                           /\ intent'[q] \in Open
      BY <2>1, <2>2 DEF Unsettled, Open
    <3>4. ~(id[q].dev = Current.dev /\ id[q].epoch < Current.epoch /\ intent[q] \in Open)
      BY <2>2 DEF GInv, RecInv, Unsettled, Open
    <3> QED
      BY <3>1, <3>2, <3>3, <3>4, <1>2, <1>3 DEF OpMoves
  <2> QED
    BY <2>1, <2>2 DEF OpMoves, GInv, RecInv, deviceVars, liveVars, recVars
<1> QED
  BY <1>1, <1>4, <1>5, <1>6 DEF GInv

\* Every step of an operation is such a move.
LEMMA OpNextMoves ==
    ASSUME GInv, NEW o \in Ops, OpNext(o)
    PROVE  OpMoves(o)
<1>1. /\ intent \in [Ops -> {"none", "reserved", "dispatched", "cancelled"}]
      /\ id \in [Ops -> Identities \cup {[dev |-> 0, epoch |-> 0]}]
      /\ pc \in [Ops -> {"idle", "reserved", "leased", "claimed", "effects", "done"}]
  BY DEF GInv, TypeOK
<1>2. /\ pc[o] # "idle" => intent[o] # "none" /\ id[o] \in Identities
      /\ pc[o] \in {"claimed", "effects"} => intent[o] = "dispatched"
  BY DEF GInv, OpInv
<1>3. ASSUME NEW d \in Devices, NEW e \in Epochs, Reserve(o, d, e) PROVE OpMoves(o)
  <2>1. [dev |-> d, epoch |-> e] \in Identities
    BY DEF Identities
  <2> QED
    BY <1>1, <1>3, <2>1 DEF Reserve, Authorized, Gated, Goto, OpMoves
<1>4. CASE BeginEpoch(o)
  BY <1>1, <1>2, <1>4, OpAssumption DEF BeginEpoch, Goto, OpMoves, Open
<1>5. CASE Dispatch(o)
  BY <1>1, <1>2, <1>5 DEF Dispatch, Goto, OpMoves, Open
<1>6. CASE ClaimPTZAttempt(o)
  BY <1>1, <1>2, <1>6 DEF ClaimPTZAttempt, Goto, OpMoves, Open
<1>7. CASE ExpirePTZReservation(o)
  BY <1>1, <1>2, <1>7 DEF ExpirePTZReservation, Goto, OpMoves, Open
<1>8. CASE Abandon(o)
  BY <1>1, <1>2, <1>8 DEF Abandon, Goto, OpMoves, Open
<1>9. CASE EndEffects(o)
  BY <1>1, <1>2, <1>9 DEF EndEffects, Goto, OpMoves, Open
<1> QED
  BY <1>3, <1>4, <1>5, <1>6, <1>7, <1>8, <1>9 DEF OpNext

-----------------------------------------------------------------------------
(* The owner and the restart.                                              *)

LEMMA TransferKeeps ==
    ASSUME GInv, NEW d \in Devices, Transfer(d)
    PROVE  GInv'
<1>1. /\ access' = [access EXCEPT ![d] = @ + 1] /\ access[d] < MaxEpoch
      /\ intent' = [o \in Ops |-> IF id[o].dev = d /\ intent[o] = "reserved"
                                  THEN "cancelled" ELSE intent[o]]
      /\ UNCHANGED <<completed, id, pc, live, playing, page, rpc, crashes>>
  BY DEF Transfer, liveVars, recVars
<1>2. access \in [Devices -> Epochs] /\ access[d] + 1 \in Epochs
  BY <1>1, BoundAssumption DEF GInv, TypeOK, Epochs
<1>3. /\ access' \in [Devices -> Epochs]
      /\ \A c \in Devices : access[c] <= access'[c]
      /\ \A c \in Devices : access[c] \in Nat /\ access'[c] \in Nat /\ completed[c] \in Nat
  BY <1>1, <1>2, BoundAssumption DEF GInv, TypeOK, Epochs
<1>4. TypeOK'
  <2>1. \A c \in Devices : completed'[c] <= access'[c]
    BY <1>1, <1>3 DEF GInv, TypeOK
  <2>2. intent' \in [Ops -> {"none", "reserved", "dispatched", "cancelled"}]
    BY <1>1 DEF GInv, TypeOK
  <2> QED
    BY <2>1, <2>2, <1>1, <1>3 DEF GInv, TypeOK
<1>5. \A r \in Identities : r.dev \in Devices /\ r.epoch \in Nat
  BY DEF Identities, Epochs
<1>6. OpInv'
  <2>1. \A o \in Ops : /\ intent'[o] = "none" <=> intent[o] = "none"
                       /\ intent'[o] \in Open => intent[o] \in Open
                       /\ intent[o] = "dispatched" => intent'[o] = "dispatched"
    BY <1>1 DEF Open
  <2>2. \A o \in Ops : intent'[o] # "none" =>
            id'[o] \in Identities /\ id'[o].epoch <= access'[id'[o].dev]
    BY <2>1, <1>1, <1>3, <1>5 DEF GInv, OpInv
  <2> QED
    BY <2>1, <2>2, <1>1 DEF GInv, OpInv
<1>7. LiveInv'
  BY <1>1 DEF GInv, LiveInv
<1>8. RecInv'
  <2>1. Current' = Current
    BY <1>1 DEF Current
  <2>2. \A r \in page' : r.epoch <= access'[r.dev]
    BY <1>1, <1>3, <1>5 DEF GInv, TypeOK, RecInv
  <2>3. rpc = "complete" => ~Unsettled(Current.dev, Current.epoch)'
    BY <1>1, <2>1 DEF GInv, RecInv, Unsettled
  <2> QED
    BY <1>1, <2>1, <2>2, <2>3 DEF GInv, RecInv
<1> QED
  BY <1>4, <1>6, <1>7, <1>8 DEF GInv

LEMMA CrashKeeps ==
    ASSUME GInv, Crash
    PROVE  GInv'
<1>1. /\ pc' = [o \in Ops |-> IF pc[o] = "idle" THEN "idle" ELSE "done"]
      /\ page' = {} /\ rpc' = "list" /\ crashes' = crashes + 1 /\ crashes < MaxCrashes
      /\ UNCHANGED <<access, completed, intent, id, playing>>
  BY DEF Crash, deviceVars
<1>2. PICK restored \in SUBSET {d \in playing : live[d].phase \in {"ready", "stopping"}} :
          live' = [d \in Devices |->
                      IF d \in restored
                      THEN [live[d] EXCEPT !.phase = "ready", !.known = FALSE]
                      ELSE NoLive]
  BY DEF Crash
<1>3. \A d \in Devices :
        live[d] \in [phase : {"none", "entry", "starting", "ready", "stopping"},
                     epoch : Epochs \cup {0}, known : BOOLEAN]
  BY DEF GInv, TypeOK
<1>4. TypeOK'
  <2>1. \A d \in Devices :
          live'[d] \in [phase : {"none", "entry", "starting", "ready", "stopping"},
                        epoch : Epochs \cup {0}, known : BOOLEAN]
    BY <1>2, <1>3 DEF NoLive
  <2>2. live' \in [Devices -> [phase : {"none", "entry", "starting", "ready", "stopping"},
                               epoch : Epochs \cup {0}, known : BOOLEAN]]
    BY <1>2, <2>1
  <2>3. pc' \in [Ops -> {"idle", "reserved", "leased", "claimed", "effects", "done"}]
    BY <1>1
  <2>4. crashes' \in 0..MaxCrashes
    BY <1>1, BoundAssumption DEF GInv, TypeOK
  <2> QED
    BY <1>1, <2>2, <2>3, <2>4 DEF GInv, TypeOK
<1>5. OpInv'
  BY <1>1 DEF GInv, OpInv
<1>6. LiveInv'
  <2>1. \A d \in Devices : live'[d].phase \in Up =>
            live[d].phase \in Up /\ live'[d].epoch = live[d].epoch
    BY <1>2, <1>3 DEF NoLive, Up
  <2> QED
    BY <1>1, <2>1 DEF GInv, LiveInv
<1>7. RecInv'
  BY <1>1 DEF RecInv
<1> QED
  BY <1>4, <1>5, <1>6, <1>7 DEF GInv

-----------------------------------------------------------------------------
(* Live media.                                                             *)

\* What a step of the lane of device d may do.
LaneMoves(d) ==
    /\ live' \in [Devices -> [phase : {"none", "entry", "starting", "ready", "stopping"},
                              epoch : Epochs \cup {0}, known : BOOLEAN]]
    /\ playing' \subseteq Devices
    /\ \A c \in Devices : c # d => live'[c] = live[c]
    /\ playing' \subseteq playing \cup {d}
    /\ live[d].phase \in {"none", "entry"} => d \notin playing' \/ d \in playing
    /\ live'[d].phase \in Up =>
        \/ live[d].phase \in Up /\ live'[d].epoch = live[d].epoch
        \/ ~Gated(d) /\ live'[d].epoch = access[d]
    /\ UNCHANGED <<deviceVars, opVars, recVars, crashes>>

LEMMA LaneMoveKeeps ==
    ASSUME GInv, NEW d \in Devices, LaneMoves(d)
    PROVE  GInv'
<1>1. UNCHANGED <<access, completed, intent, id, pc, page, rpc, crashes>>
  BY DEF LaneMoves, deviceVars, opVars, recVars
<1>2. \A c \in Devices : access[c] \in Nat /\ completed[c] \in Nat /\ completed[c] <= access[c]
  BY BoundAssumption DEF GInv, TypeOK, Epochs
<1>3. TypeOK'
  BY <1>1 DEF GInv, TypeOK, LaneMoves
<1>4. OpInv'
  BY <1>1 DEF GInv, OpInv
<1>5. LiveInv'
  <2> SUFFICES ASSUME NEW c \in Devices, live'[c].phase \in Up
               PROVE  completed[c] <= live'[c].epoch
    BY <1>1 DEF LiveInv
  <2>1. CASE c # d
    BY <2>1 DEF LaneMoves, GInv, LiveInv
  <2>2. CASE c = d
    BY <2>2, <1>2 DEF LaneMoves, GInv, LiveInv, Gated
  <2> QED
    BY <2>1, <2>2
<1>6. RecInv'
  <2>1. Current' = Current
    BY <1>1 DEF Current
  <2>2. rpc # "list" => Current.dev \in Devices /\ Current.epoch \in Nat
                        /\ Current.epoch <= access[Current.dev]
    BY CurrentInPage DEF GInv, TypeOK, RecInv, Epochs
  <2>3. ASSUME rpc \in {"project", "recheck", "complete"}
        PROVE  live'[Current.dev].phase \in {"none", "entry"}
    <3>1. completed[Current.dev] < Current.epoch /\ live[Current.dev].phase \in {"none", "entry"}
      BY <2>3 DEF GInv, RecInv
    <3>2. Gated(Current.dev)
      BY <3>1, <2>2, <2>3, <1>2 DEF Gated
    <3>3. live[Current.dev].phase \notin Up
      BY <3>1 DEF Up
    <3>4. live'[Current.dev].phase \notin Up
      BY <3>2, <3>3, <2>2, <2>3 DEF LaneMoves
    <3> QED
      BY <3>4, <2>2, <2>3 DEF LaneMoves, Up
  <2>4. ASSUME rpc \in {"recheck", "complete"} PROVE Current.dev \notin playing'
    <3>1. live[Current.dev].phase \in {"none", "entry"} /\ Current.dev \notin playing
      BY <2>4 DEF GInv, RecInv
    <3> QED
      BY <3>1 DEF LaneMoves
  <2>5. Unsettled(Current.dev, Current.epoch)' <=> Unsettled(Current.dev, Current.epoch)
    BY <1>1, <2>1 DEF Unsettled
  <2> QED
    BY <1>1, <2>1, <2>3, <2>4, <2>5 DEF GInv, RecInv
<1> QED
  BY <1>3, <1>4, <1>5, <1>6 DEF GInv

\* A change of the lane of device d to a session s.
LEMMA SessionFacts ==
    ASSUME GInv, NEW d \in Devices,
           NEW s \in [phase : {"none", "entry", "starting", "ready", "stopping"},
                      epoch : Epochs \cup {0}, known : BOOLEAN],
           live' = [live EXCEPT ![d] = s]
    PROVE  /\ live' \in [Devices -> [phase : {"none", "entry", "starting", "ready", "stopping"},
                                     epoch : Epochs \cup {0}, known : BOOLEAN]]
           /\ \A c \in Devices : c # d => live'[c] = live[c]
           /\ live'[d] = s
BY DEF GInv, TypeOK

\* A change of the phase is one to a session of the same epoch.
LEMMA PhaseFacts ==
    ASSUME GInv, NEW d \in Devices, NEW phase \in {"none", "entry", "starting", "ready", "stopping"},
           SetLive(d, phase)
    PROVE  /\ live' \in [Devices -> [phase : {"none", "entry", "starting", "ready", "stopping"},
                                     epoch : Epochs \cup {0}, known : BOOLEAN]]
           /\ \A c \in Devices : c # d => live'[c] = live[c]
           /\ live'[d].phase = phase /\ live'[d].epoch = live[d].epoch
BY DEF GInv, TypeOK, SetLive

\* Every step of a lane is such a move.
LEMMA LiveNextMoves ==
    ASSUME GInv, NEW d \in Devices, LiveNext(d)
    PROVE  LaneMoves(d)
<1>1. playing \subseteq Devices /\ d \in Devices
  BY DEF GInv, TypeOK
<1>2. NoLive \in [phase : {"none", "entry", "starting", "ready", "stopping"},
                  epoch : Epochs \cup {0}, known : BOOLEAN]
  BY DEF NoLive
<1>3. ASSUME NEW e \in Epochs, LiveCall(d, e) PROVE LaneMoves(d)
  <2>1. [phase |-> "entry", epoch |-> e, known |-> TRUE]
          \in [phase : {"none", "entry", "starting", "ready", "stopping"},
               epoch : Epochs \cup {0}, known : BOOLEAN]
    OBVIOUS
  <2> QED
    BY <1>1, <1>3, <2>1, SessionFacts DEF LiveCall, LaneMoves, Up
<1>4. CASE LiveAdmit(d)
  <2>1. CASE Authorized(d, live[d].epoch)
    BY <1>1, <1>4, <2>1, PhaseFacts DEF LiveAdmit, LaneMoves, Authorized, Up
  <2>2. CASE ~Authorized(d, live[d].epoch)
    BY <1>1, <1>2, <1>4, <2>2, SessionFacts DEF LiveAdmit, LaneMoves, NoLive, Up
  <2> QED
    BY <2>1, <2>2
<1>5. CASE LiveStarted(d)
  <2>1. CASE SetLive(d, "ready")
    BY <1>1, <1>5, <2>1, PhaseFacts DEF LiveStarted, LaneMoves, Up
  <2>2. CASE live' = [live EXCEPT ![d] = NoLive] /\ playing' = playing
    BY <1>1, <1>2, <1>5, <2>2, SessionFacts DEF LiveStarted, LaneMoves, NoLive, Up
  <2> QED
    BY <1>5, <2>1, <2>2 DEF LiveStarted
<1>6. CASE LiveStop(d)
  BY <1>1, <1>6, PhaseFacts DEF LiveStop, LaneMoves, Up
<1>7. CASE LiveStopped(d)
  BY <1>1, <1>2, <1>7, SessionFacts DEF LiveStopped, LaneMoves, NoLive, Up
<1>8. CASE LiveStopFailed(d)
  BY <1>1, <1>8, PhaseFacts DEF LiveStopFailed, LaneMoves, Up
<1>9. CASE ClearRow(d)
  BY <1>1, <1>9 DEF ClearRow, LaneMoves, GInv, TypeOK, Up
<1> QED
  BY <1>3, <1>4, <1>5, <1>6, <1>7, <1>8, <1>9 DEF LiveNext

-----------------------------------------------------------------------------
(* The reconciler.                                                         *)

PassPoints == {"list", "check", "settle", "joinStart", "joinStop",
               "project", "recheck", "complete"}

\* The tick goes on with the next device and forgets what it has found.
LEMMA NextDeviceFacts ==
    ASSUME GInv, NextDevice, access' = access
    PROVE  /\ page' \subseteq Identities /\ rpc' \in PassPoints
           /\ (rpc' = "list") <=> (page' = {})
           /\ RecInv'
BY DEF GInv, TypeOK, NextDevice, RecInv, PassPoints

\* What is known of the device a tick is at.
LEMMA CurrentFacts ==
    ASSUME GInv, rpc # "list"
    PROVE  /\ Current \in page /\ Current.dev \in Devices /\ Current.epoch \in Nat
           /\ Current.epoch <= access[Current.dev]
           /\ access[Current.dev] \in Nat /\ completed[Current.dev] \in Nat
BY CurrentInPage, BoundAssumption DEF GInv, TypeOK, RecInv, Epochs

\* A step of the pass that leaves the devices and the operations alone.
LEMMA PassKeeps ==
    ASSUME GInv, UNCHANGED <<deviceVars, opVars, playing, crashes>>,
           live' \in [Devices -> [phase : {"none", "entry", "starting", "ready", "stopping"},
                                  epoch : Epochs \cup {0}, known : BOOLEAN]],
           \A d \in Devices : live'[d].phase \in Up =>
                live[d].phase \in Up /\ live'[d].epoch = live[d].epoch,
           page' \subseteq Identities, rpc' \in PassPoints,
           (rpc' = "list") <=> (page' = {}),
           RecInv'
    PROVE  GInv'
<1>1. TypeOK'
  BY DEF GInv, TypeOK, PassPoints, deviceVars, opVars
<1>2. OpInv'
  BY DEF GInv, OpInv, deviceVars, opVars
<1>3. LiveInv'
  BY DEF GInv, LiveInv, deviceVars
<1> QED
  BY <1>1, <1>2, <1>3 DEF GInv

\* The same, with the lanes left alone too and the tick at a later point of the
\* same device.
LEMMA SamePageKeeps ==
    ASSUME GInv, UNCHANGED <<deviceVars, opVars, liveVars, crashes>>, page' = page,
           rpc # "list", rpc' \in PassPoints \ {"list"},
           rpc' # "check" => completed[Current.dev] < Current.epoch,
           rpc' \in {"project", "recheck", "complete"} =>
                live[Current.dev].phase \in {"none", "entry"},
           rpc' \in {"recheck", "complete"} => Current.dev \notin playing,
           rpc' = "complete" => ~Unsettled(Current.dev, Current.epoch)
    PROVE  GInv'
<1>1. Current' = Current
  BY DEF Current
<1>2. RecInv'
  BY <1>1 DEF GInv, RecInv, Unsettled, PassPoints, deviceVars, opVars, liveVars
<1>3. page' \subseteq Identities /\ ((rpc' = "list") <=> (page' = {}))
  BY DEF GInv, TypeOK
<1>4. UNCHANGED <<playing, live>>
  BY DEF liveVars
<1>5. live' \in [Devices -> [phase : {"none", "entry", "starting", "ready", "stopping"},
                             epoch : Epochs \cup {0}, known : BOOLEAN]]
  BY <1>4 DEF GInv, TypeOK
<1> QED
  BY <1>2, <1>3, <1>4, <1>5, PassKeeps

LEMMA NextDeviceKeeps ==
    ASSUME GInv, NextDevice, UNCHANGED <<deviceVars, opVars, liveVars, crashes>>
    PROVE  GInv'
<1>1. UNCHANGED <<playing, live>> /\ access' = access
  BY DEF liveVars, deviceVars
<1>2. live' \in [Devices -> [phase : {"none", "entry", "starting", "ready", "stopping"},
                             epoch : Epochs \cup {0}, known : BOOLEAN]]
  BY <1>1 DEF GInv, TypeOK
<1> QED
  BY <1>1, <1>2, NextDeviceFacts, PassKeeps

LEMMA ReconcileKeeps ==
    ASSUME GInv, Reconcile
    PROVE  GInv'
<1>1. CASE ListPending
  <2>1. /\ page' = {[dev |-> d, epoch |-> access[d]] : d \in FirstPending} /\ rpc' = "check"
        /\ UNCHANGED <<deviceVars, opVars, liveVars, crashes>> /\ Pending # {}
    BY <1>1 DEF ListPending
  <2>2. page' \subseteq Identities
    <3>1. \A d \in FirstPending : d \in Devices /\ access[d] \in Epochs
      BY DEF FirstPending, Pending, GInv, TypeOK
    <3> QED
      BY <2>1, <3>1 DEF Identities
  <2>3. page' # {}
    <3>1. Pending \subseteq Nat /\ Pending \subseteq Devices
      BY DeviceAssumption DEF Pending
    <3>2. PICK d \in Pending : \A c \in Pending : d <= c
      BY <2>1, <3>1, LeastKey
    <3>3. {c \in Pending : c < d} = {}
      <4>1. ASSUME NEW c \in Pending PROVE ~(c < d)
        <5>1. c \in Nat /\ d \in Nat /\ d <= c
          BY <3>1, <3>2
        <5> QED
          BY <5>1
      <4> QED
        BY <4>1
    <3>4. Cardinality({c \in Pending : c < d}) = 0
      <4>1. Cardinality({}) = 0
        BY FS_EmptySet
      <4> QED
        BY <3>3, <4>1
    <3>5. Cardinality({c \in Pending : c < d}) < Batch
      BY <3>4, BoundAssumption
    <3>6. d \in FirstPending
      BY <3>2, <3>5 DEF FirstPending
    <3> QED
      BY <3>6, <2>1
  <2>4. RecInv'
    <3>1. \A d \in Devices : access[d] \in Nat
      BY BoundAssumption DEF GInv, TypeOK, Epochs
    <3>2. \A r \in page' : r.epoch <= access'[r.dev]
      <4>1. \A d \in FirstPending : d \in Devices
        BY DEF FirstPending, Pending
      <4> QED
        BY <2>1, <3>1, <4>1 DEF deviceVars
    <3> QED
      BY <2>1, <3>2 DEF RecInv
  <2>5. UNCHANGED <<playing, live>>
    BY <2>1 DEF liveVars
  <2>6. live' \in [Devices -> [phase : {"none", "entry", "starting", "ready", "stopping"},
                               epoch : Epochs \cup {0}, known : BOOLEAN]]
    BY <2>5 DEF GInv, TypeOK
  <2> QED
    BY <2>1, <2>2, <2>3, <2>4, <2>5, <2>6, PassKeeps DEF PassPoints
<1>2. CASE Check
  <2>1. rpc \in {"check", "recheck"} /\ UNCHANGED <<deviceVars, opVars, liveVars, crashes>>
    BY <1>2 DEF Check
  <2>2. CASE ProvenSettled(Current)
    <3>1. page' = page /\ rpc' = IF rpc = "check" THEN "settle" ELSE "complete"
      BY <1>2, <2>2 DEF Check
    <3>2. completed[Current.dev] < Current.epoch /\ ~Unsettled(Current.dev, Current.epoch)
      BY <2>2 DEF ProvenSettled
    <3>3. rpc = "recheck" => live[Current.dev].phase \in {"none", "entry"}
                             /\ Current.dev \notin playing
      BY DEF GInv, RecInv
    <3> QED
      BY <2>1, <3>1, <3>2, <3>3, SamePageKeeps DEF PassPoints
  <2>3. CASE ~ProvenSettled(Current)
    BY <1>2, <2>1, <2>3, NextDeviceKeeps DEF Check
  <2> QED
    BY <2>2, <2>3
<1>3. CASE Settle
  <2> DEFINE s == live[Current.dev]
  <2>1. rpc = "settle" /\ UNCHANGED <<deviceVars, opVars, playing, crashes>>
        /\ completed[Current.dev] < Current.epoch
    BY <1>3 DEF Settle, GInv, RecInv
  <2>2. CASE s.phase = "none" /\ rpc' = "project" /\ UNCHANGED <<page, live>>
    BY <2>1, <2>2, SamePageKeeps DEF PassPoints, liveVars
  <2>3. CASE rpc' = "joinStart" /\ UNCHANGED <<page, live>>
    BY <2>1, <2>3, SamePageKeeps DEF PassPoints, liveVars
  <2>4. CASE s.phase \in {"ready", "stopping"} /\ SetLive(Current.dev, "stopping")
             /\ rpc' = "joinStop" /\ UNCHANGED page
    <3>1. Current' = Current
      BY <2>4 DEF Current
    <3>2. RecInv'
      BY <2>1, <2>4, <3>1 DEF GInv, RecInv, deviceVars
    <3>3. page' \subseteq Identities /\ page # {}
      BY <2>1, <2>4 DEF GInv, TypeOK
    <3>4. /\ live' \in [Devices -> [phase : {"none", "entry", "starting", "ready", "stopping"},
                                    epoch : Epochs \cup {0}, known : BOOLEAN]]
          /\ \A d \in Devices : live'[d].phase \in Up =>
                live[d].phase \in Up /\ live'[d].epoch = live[d].epoch
      BY <2>1, <2>4, CurrentFacts, PhaseFacts DEF Up
    <3> QED
      BY <2>1, <2>4, <3>2, <3>3, <3>4, PassKeeps DEF PassPoints
  <2>5. CASE NextDevice /\ UNCHANGED live
    BY <2>1, <2>5, NextDeviceKeeps DEF liveVars
  <2> QED
    BY <1>3, <2>2, <2>3, <2>4, <2>5 DEF Settle
<1>4. CASE Join
  <2>1. UNCHANGED <<deviceVars, opVars, liveVars, crashes>> /\ rpc \in {"joinStart", "joinStop"}
        /\ completed[Current.dev] < Current.epoch
    BY <1>4 DEF Join, GInv, RecInv
  <2>2. CASE rpc' = "settle" /\ UNCHANGED page
    BY <2>1, <2>2, SamePageKeeps DEF PassPoints
  <2>3. CASE live[Current.dev].phase \in {"none", "entry"} /\ rpc' = "project" /\ UNCHANGED page
    BY <2>1, <2>3, SamePageKeeps DEF PassPoints
  <2>4. CASE NextDevice
    BY <2>1, <2>4, NextDeviceKeeps
  <2> QED
    BY <1>4, <2>2, <2>3, <2>4 DEF Join
<1>5. CASE Project
  <2>1. UNCHANGED <<deviceVars, opVars, liveVars, crashes>> /\ rpc = "project"
        /\ completed[Current.dev] < Current.epoch
        /\ live[Current.dev].phase \in {"none", "entry"}
    BY <1>5 DEF Project, GInv, RecInv
  <2>2. CASE Current.dev \in playing
    BY <1>5, <2>1, <2>2, NextDeviceKeeps DEF Project
  <2>3. CASE Current.dev \notin playing
    BY <1>5, <2>1, <2>3, SamePageKeeps DEF Project, PassPoints
  <2> QED
    BY <2>2, <2>3
<1>6. CASE Complete
  <2>1. /\ rpc = "complete" /\ NextDevice
        /\ UNCHANGED <<access, intent, id, pc, live, playing, crashes>>
        /\ completed' = IF Current.epoch = access[Current.dev]
                        THEN [completed EXCEPT ![Current.dev] = Current.epoch]
                        ELSE completed
    BY <1>6 DEF Complete, opVars, liveVars
  <2>2. /\ \A d \in Devices : completed'[d] = completed[d]
                              \/ (d = Current.dev /\ completed'[d] = Current.epoch
                                  /\ Current.epoch = access[d])
        /\ completed' \in [Devices -> Epochs]
    BY <2>1, CurrentFacts, CurrentInPage DEF GInv, TypeOK
  <2>3. TypeOK'
    <3>1. \A d \in Devices : completed'[d] <= access[d]
      BY <2>1, <2>2, CurrentFacts DEF GInv, TypeOK
    <3> QED
      BY <2>1, <2>2, <3>1, NextDeviceFacts DEF GInv, TypeOK, PassPoints
  <2>4. OpInv'
    <3>1. ASSUME NEW o \in Ops, intent[o] \in Open PROVE completed'[id[o].dev] <= id[o].epoch
      <4>1. id[o].dev \in Devices /\ id[o].epoch \in Nat
        BY <3>1 DEF GInv, OpInv, Open, Identities, Epochs
      <4>2. CASE completed'[id[o].dev] = completed[id[o].dev]
        BY <3>1, <4>2 DEF GInv, OpInv
      <4>3. CASE id[o].dev = Current.dev /\ completed'[id[o].dev] = Current.epoch
        BY <2>1, <3>1, <4>1, <4>3, CurrentFacts DEF GInv, RecInv, Unsettled, Open
      <4> QED
        BY <2>2, <4>1, <4>2, <4>3
    <3> QED
      BY <2>1, <3>1 DEF GInv, OpInv
  <2>5. LiveInv'
    <3>1. live[Current.dev].phase \notin Up
      BY <2>1 DEF GInv, RecInv, Up
    <3> QED
      BY <2>1, <2>2, <3>1 DEF GInv, LiveInv
  <2> QED
    BY <2>1, <2>3, <2>4, <2>5, NextDeviceFacts DEF GInv
<1> QED
  BY <1>1, <1>2, <1>3, <1>4, <1>5, <1>6 DEF Reconcile

LEMMA NextGInv == GInv /\ [Next]_vars => GInv'
<1> SUFFICES ASSUME GInv, [Next]_vars PROVE GInv'
  OBVIOUS
<1>1. CASE UNCHANGED vars
  BY <1>1 DEF vars, GInv, TypeOK, OpInv, LiveInv, RecInv, Current, Unsettled
<1> QED
  BY <1>1, OpNextMoves, OpMoveKeeps, TransferKeeps, LiveNextMoves, LaneMoveKeeps,
     CrashKeeps, ReconcileKeeps DEF Next

\* GInv holds in every reachable state.
THEOREM Invariance == Spec => []GInv
BY InitGInv, NextGInv, PTL DEF Spec

-----------------------------------------------------------------------------
(* The properties that the runs check.                                     *)

\* Every variable keeps its type, and no watermark passes its device's epoch
\* (Complete, playauth/device_cleanup_store.go).
THEOREM TypeCorrect == Spec => []TypeOK
BY Invariance, PTL DEF GInv

\* Whatever runs has a dispatched intent, so what the reconciler reads as
\* cancelled never ran (Dispatch, ClaimPTZAttempt, ExpirePTZReservation).
THEOREM OnlyDispatchedRuns == Spec => []OnlyDispatchedRun
<1>1. GInv => OnlyDispatchedRun
  BY DEF GInv, OpInv, OnlyDispatchedRun
<1> QED
  BY <1>1, Invariance, PTL

\* A device that admits anything has no operation and no media of an older owner.
THEOREM OpenGateIsClean == Spec => []GateOpenMeansClean
<1>1. GInv => GateOpenMeansClean
  <2> SUFFICES ASSUME GInv, NEW d \in Devices, ~Gated(d)
               PROVE  /\ ~OldMedia(d)
                      /\ \A o \in OldOps(d) : intent[o] = "cancelled" /\ pc[o] # "effects"
    BY DEF GateOpenMeansClean
  <2>1. completed[d] = access[d] /\ access[d] \in Nat /\ d # 0
    BY DeviceAssumption, BoundAssumption DEF Gated, GInv, TypeOK, Epochs
  <2>2. ~OldMedia(d)
    <3>1. live[d].epoch \in Nat
      BY BoundAssumption DEF GInv, TypeOK, Epochs
    <3>2. live[d].phase \in {"starting", "ready", "stopping"} => access[d] <= live[d].epoch
      BY <2>1 DEF GInv, LiveInv, Up
    <3> QED
      BY <2>1, <3>1, <3>2 DEF OldMedia
  <2>3. ASSUME NEW o \in OldOps(d) PROVE intent[o] = "cancelled" /\ pc[o] # "effects"
    <3>1. o \in Ops /\ id[o].dev = d /\ id[o].epoch < access[d]
      BY DEF OldOps
    <3>2. intent[o] # "none"
      BY <2>1, <3>1 DEF GInv, OpInv
    <3>3. id[o].epoch \in Nat
      BY <3>1, <3>2 DEF GInv, OpInv, Identities, Epochs
    <3>4. intent[o] \notin Open
      BY <2>1, <3>1, <3>3 DEF GInv, OpInv
    <3>5. intent[o] = "cancelled"
      BY <3>1, <3>2, <3>4 DEF GInv, TypeOK, Open
    <3> QED
      BY <3>1, <3>5 DEF GInv, OpInv
  <2> QED
    BY <2>2, <2>3
<1> QED
  BY <1>1, Invariance, PTL

\* Only the reconciler's last step moves a watermark.
LEMMA OnlyCompleteCompletes ==
    ASSUME GInv, [Next]_vars, completed' # completed
    PROVE  Complete
<1>1. \A o \in Ops : OpNext(o) => completed' = completed
  BY OpNextMoves DEF OpMoves, deviceVars
<1>2. \A d \in Devices : LiveNext(d) => completed' = completed
  BY LiveNextMoves DEF LaneMoves, deviceVars
<1>3. Crash \/ (\E d \in Devices : Transfer(d)) \/ UNCHANGED vars => completed' = completed
  BY DEF Crash, Transfer, vars, deviceVars
<1>4. ListPending \/ Check \/ Settle \/ Join \/ Project => completed' = completed
  BY DEF ListPending, Check, Settle, Join, Project, deviceVars
<1> QED
  BY <1>1, <1>2, <1>3, <1>4 DEF Next, Reconcile

\* What a pass of the reconciler has found, step by step and over other calls, is
\* true when it moves the watermark (reconcileDevice).
THEOREM CompletionsAreProven == Spec => CompletionIsProven
<1>1. ASSUME GInv, [Next]_vars, NEW d \in Devices, completed'[d] # completed[d]
      PROVE  /\ completed'[d] = access[d]
             /\ ~Unsettled(d, access[d]) /\ ~OldMedia(d) /\ d \notin playing
  <2>1. Complete
    BY <1>1, OnlyCompleteCompletes
  <2>2. d = Current.dev /\ Current.epoch = access[d] /\ rpc = "complete"
        /\ completed'[d] = Current.epoch
    BY <1>1, <2>1, CurrentFacts DEF Complete, GInv, TypeOK
  <2>3. live[d].phase \in {"none", "entry"} /\ d \notin playing /\ ~Unsettled(d, access[d])
    BY <1>1, <2>2 DEF GInv, RecInv
  <2> QED
    BY <2>2, <2>3 DEF OldMedia
<1>2. GInv /\ [Next]_vars =>
        [\A d \in Devices : completed'[d] # completed[d] =>
            /\ completed'[d] = access[d]
            /\ ~Unsettled(d, access[d])
            /\ ~OldMedia(d)
            /\ d \notin playing]_vars
  BY <1>1
<1> QED
  BY <1>2, Invariance, PTL DEF Spec, CompletionIsProven

\* The steps of others leave an operation's intent and identity alone.
LEMMA IntentsStay ==
    ASSUME GInv, [Next]_vars, \A o \in Ops : ~OpNext(o), NEW o \in Ops, intent'[o] \in Open
    PROVE  id'[o] = id[o] /\ intent[o] \in Open
<1>1. \A d \in Devices : LiveNext(d) => intent' = intent /\ id' = id
  BY LiveNextMoves DEF LaneMoves, opVars
<1>2. Crash \/ UNCHANGED vars => intent' = intent /\ id' = id
  BY DEF Crash, vars
<1>3. Reconcile => intent' = intent /\ id' = id
  BY DEF Reconcile, ListPending, Check, Settle, Join, Project, Complete, opVars
<1>4. \A d \in Devices : Transfer(d) => id' = id /\ (intent'[o] \in Open => intent[o] \in Open)
  BY DEF Transfer, Open
<1> QED
  BY <1>1, <1>2, <1>3, <1>4 DEF Next

\* As long as the device keeps its epoch no older intent becomes unsettled
\* (HasUnsettledBefore).
THEOREM UnsettledOnlyShrinks == Spec => OldUnsettledOnlyShrinks
<1>1. ASSUME GInv, [Next]_vars, NEW d \in Devices, access'[d] = access[d], NEW o \in Ops,
             id'[o].dev = d, id'[o].epoch < access[d], intent'[o] \in {"reserved", "dispatched"}
      PROVE  id[o] = id'[o] /\ intent[o] \in {"reserved", "dispatched"}
  <2>1. ASSUME NEW q \in Ops, OpNext(q) PROVE id[o] = id'[o] /\ intent[o] \in Open
    <3>1. OpMoves(q)
      BY <1>1, <2>1, OpNextMoves
    <3>2. access[d] \in Nat
      BY <1>1, BoundAssumption DEF GInv, TypeOK, Epochs
    <3> QED
      BY <1>1, <3>1, <3>2 DEF OpMoves, Open
  <2>2. CASE \A q \in Ops : ~OpNext(q)
    BY <1>1, <2>2, IntentsStay DEF Open
  <2> QED
    BY <2>1, <2>2 DEF Open
<1>2. GInv /\ [Next]_vars =>
        [\A d \in Devices : access'[d] = access[d] =>
            \A o \in Ops :
              (id'[o].dev = d /\ id'[o].epoch < access[d] /\ intent'[o] \in {"reserved", "dispatched"})
              => (id[o] = id'[o] /\ intent[o] \in {"reserved", "dispatched"})]_vars
  BY <1>1
<1> QED
  BY <1>2, Invariance, PTL DEF Spec, OldUnsettledOnlyShrinks

=============================================================================
