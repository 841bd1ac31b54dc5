----------------------- MODULE DeviceBarrierEpochProofs -----------------------
(***************************************************************************)
(* Proofs about epochs in DeviceBarrier: a lease is published under the     *)
(* epoch its admission read, a transfer revokes what is older, a cleaner is  *)
(* alone with the epoch it recovers, and the barrier implements             *)
(* DeviceLeases.  They rest on the lane invariant of DeviceBarrierProofs.   *)
(***************************************************************************)
EXTENDS DeviceBarrierProofs

\* Where the epoch of each goroutine is relative to the device's.
Bounds ==
    /\ \A o \in Ops : want[o] <= access
    /\ \A o \in Ops : pc[o] # "idle" => want[o] >= 1
    /\ \A c \in Cleaners : pc[c] # "idle" => want[c] < access
    /\ \A t \in Transfers : pc[t] = "committed" => want[t] = access

\* Only leases are cancelled, and every running operation is older than a
\* transfer that has committed and not yet revoked.
Revoking ==
    /\ \A o \in cancelled : pc[o] \in {"run", "unref"}
    /\ \A t \in Transfers, o \in Ops :
            pc[t] = "committed" /\ pc[o] = "run" => want[o] < access

\* Where a cleaner can be after its WaitBefore has looked.
Joined == {"joined", "prepared", "queue", "asleep", "tx", "admitted", "run"}

Alone == \A c \in Cleaners, o \in Ops :
            pc[c] \in Joined /\ pc[o] = "run" => want[o] > want[c]

EInv == Bounds /\ Revoking /\ Alone /\ AdmissionIsFresh /\ TransferRevokes

LEMMA InitEInv == Init => EInv
BY ProcFacts DEF Init, EInv, Bounds, Revoking, Alone, Joined, AdmissionIsFresh, TransferRevokes

-----------------------------------------------------------------------------
(* A goroutine moves and may wake others; the device's row stays.          *)

Moves(p, point) ==
    /\ pc'[p] = point
    /\ \A q \in Procs : q # p => pc'[q] \in {pc[q], Woken(q)}
    /\ \A q \in Procs : q # p => want'[q] = want[q]
    /\ want'[p] \in 0..MaxEpoch
    /\ access' = access /\ completed' = completed /\ unseen' = unseen
    /\ cancelled \ {p} \subseteq cancelled'
    /\ cancelled' \subseteq cancelled
    /\ p \in cancelled' => point \in {"run", "unref"}

\* What the move of an operation, a transfer or a cleaner has to respect.
OpMoves(o, point) ==
    /\ want'[o] <= access
    /\ point # "idle" => want'[o] >= 1
    /\ point = "admitted" => want'[o] = access /\ completed = access
    /\ point = "run" => pc[o] = "admitted" /\ want'[o] = want[o]

TransferMoves(t, point) == point # "committed" /\ pc[t] # "committed"

CleanerMoves(c, point) ==
    /\ point # "idle" => want'[c] < access
    /\ point \in Joined =>
        \/ pc[c] \in Joined /\ want'[c] = want[c]
        \/ \A o \in Ops : pc[o] = "run" => want[o] > want'[c]

LEMMA MoveKeepsEpochs ==
    ASSUME IInv, EInv, NEW p \in Procs, NEW point, Moves(p, point),
           p \in Ops => OpMoves(p, point),
           p \in Transfers => TransferMoves(p, point),
           p \in Cleaners => CleanerMoves(p, point)
    PROVE  EInv'
<1>1. /\ pc'[p] = point /\ access' = access /\ completed' = completed /\ unseen' = unseen
      /\ cancelled \ {p} \subseteq cancelled' /\ cancelled' \subseteq cancelled
      /\ p \in cancelled' => point \in {"run", "unref"}
  BY DEF Moves
<1>2. \A q \in Procs : q # p =>
        /\ want'[q] = want[q]
        /\ pc'[q] = "idle" <=> pc[q] = "idle"
        /\ pc'[q] = "committed" <=> pc[q] = "committed"
        /\ pc'[q] = "run" <=> pc[q] = "run"
        /\ pc'[q] = "unref" <=> pc[q] = "unref"
        /\ pc'[q] = "admitted" <=> pc[q] = "admitted"
        /\ pc'[q] \in Joined <=> pc[q] \in Joined
  BY DEF Moves, Woken, Joined
<1>3. access \in Nat /\ completed \in Nat /\ want \in [Procs -> Nat]
      /\ cancelled \subseteq Procs
  BY EpochAssumption, ProcFacts DEF IInv, TypeOK, Epochs
<1>4. want'[p] \in Nat
  BY EpochAssumption DEF Moves
<1>5. p \in Ops /\ point = "run" =>
        want'[p] = access /\ \A t \in Transfers : pc[t] # "committed"
  <2> SUFFICES ASSUME p \in Ops, point = "run"
               PROVE  want'[p] = access /\ \A t \in Transfers : pc[t] # "committed"
    OBVIOUS
  <2>1. pc[p] = "admitted" /\ want'[p] = access
    BY DEF OpMoves, EInv, AdmissionIsFresh
  <2>2. ASSUME NEW t \in Transfers, pc[t] = "committed" PROVE FALSE
    BY <2>1, <2>2, ProcFacts DEF IInv, LaneInv, GuardHasOneHolder, Guarding
  <2> QED
    BY <2>1, <2>2
<1>6. Bounds'
  <2>1. \A o \in Ops : want'[o] <= access
    BY <1>2, ProcFacts DEF OpMoves, EInv, Bounds
  <2>2. \A o \in Ops : pc'[o] # "idle" => want'[o] >= 1
    BY <1>1, <1>2, ProcFacts DEF OpMoves, EInv, Bounds
  <2>3. \A c \in Cleaners : pc'[c] # "idle" => want'[c] < access
    BY <1>1, <1>2, ProcFacts DEF CleanerMoves, EInv, Bounds
  <2>4. \A t \in Transfers : pc'[t] = "committed" => want'[t] = access
    BY <1>1, <1>2, ProcFacts DEF TransferMoves, EInv, Bounds
  <2> QED
    BY <1>1, <2>1, <2>2, <2>3, <2>4 DEF Bounds
<1>7. Revoking'
  <2>1. \A o \in cancelled' : pc'[o] \in {"run", "unref"}
    BY <1>1, <1>2, <1>3 DEF EInv, Revoking
  <2>2. ASSUME NEW t \in Transfers, NEW o \in Ops, pc'[t] = "committed", pc'[o] = "run"
        PROVE  want'[o] < access
    <3>1. t # p /\ t \in Procs /\ o \in Procs /\ pc[t] = "committed"
      BY <2>2, <1>1, <1>2, ProcFacts DEF TransferMoves
    <3>2. o # p
      BY <3>1, <2>2, <1>1, <1>5
    <3> QED
      BY <3>1, <3>2, <2>2, <1>2 DEF EInv, Revoking
  <2> QED
    BY <1>1, <2>1, <2>2 DEF Revoking
<1>8. Alone'
  <2> SUFFICES ASSUME NEW c \in Cleaners, NEW o \in Ops, pc'[c] \in Joined, pc'[o] = "run"
               PROVE  want'[o] > want'[c]
    BY DEF Alone
  <2>1. c \in Procs /\ o \in Procs /\ c # o /\ o \notin Cleaners /\ c \notin Ops
    BY ProcFacts
  <2>2. CASE o = p
    <3>1. want'[o] = access /\ c # p
      BY <2>1, <2>2, <1>1, <1>5
    <3>2. pc[c] # "idle" /\ want'[c] = want[c]
      BY <3>1, <2>1, <1>2 DEF Joined
    <3> QED
      BY <3>1, <3>2, <2>1, <1>3 DEF EInv, Bounds
  <2>3. CASE c = p
    <3>1. pc[o] = "run" /\ want'[o] = want[o]
      BY <2>1, <2>3, <1>2
    <3> QED
      BY <3>1, <2>3, <1>1 DEF CleanerMoves, EInv, Alone
  <2>4. CASE o # p /\ c # p
    BY <2>1, <2>4, <1>2 DEF EInv, Alone
  <2> QED
    BY <2>2, <2>3, <2>4
<1>9. AdmissionIsFresh'
  BY <1>1, <1>2, ProcFacts DEF OpMoves, EInv, AdmissionIsFresh
<1>10. TransferRevokes'
  <2> SUFFICES ASSUME NEW o \in Ops, pc'[o] = "run", want'[o] < access
               PROVE  \/ o \in cancelled'
                      \/ (want'[o] + 1)..access \subseteq unseen
                      \/ \E t \in Transfers : pc'[t] = "committed"
    BY <1>1 DEF TransferRevokes
  <2>1. o \in Procs /\ o # p
    BY <1>1, <1>3, <1>5, ProcFacts
  <2>2. pc[o] = "run" /\ want'[o] = want[o]
    BY <2>1, <1>2
  <2>3. ASSUME NEW t \in Transfers, pc[t] = "committed" PROVE pc'[t] = "committed"
    BY <2>3, <1>2, ProcFacts DEF TransferMoves
  <2> QED
    BY <2>1, <2>2, <2>3, <1>1 DEF EInv, TransferRevokes
<1> QED
  BY <1>6, <1>7, <1>8, <1>9, <1>10 DEF EInv

\* A step of the barrier is a step of DeviceLeases, or changes nothing there.
LeasesStep == [Leases!Next]_(Leases!leaseVars)

\* An operation that begins to run is admitted, one that stops running ends its
\* lease, and any other move is invisible.
LEMMA MoveMaps ==
    ASSUME IInv, EInv, NEW p \in Procs, NEW point, Moves(p, point),
           p \in Ops => OpMoves(p, point),
           p \in Transfers => TransferMoves(p, point)
    PROVE  LeasesStep
<1>1. /\ pc'[p] = point /\ access' = access
      /\ cancelled \ {p} \subseteq cancelled' /\ cancelled' \subseteq cancelled
  BY DEF Moves
<1>2. \A q \in Procs : q # p =>
        /\ want'[q] = want[q]
        /\ pc'[q] = "run" <=> pc[q] = "run"
        /\ pc'[q] = "committed" <=> pc[q] = "committed"
  BY DEF Moves, Woken
<1>3. \A t \in Transfers : pc'[t] = "committed" <=> pc[t] = "committed"
  BY <1>1, <1>2, ProcFacts DEF TransferMoves
<1>4. CASE p \in Ops /\ point = "run"
  <2>1. pc[p] = "admitted" /\ want'[p] = access /\ p \notin cancelled
    BY <1>4 DEF OpMoves, EInv, AdmissionIsFresh, Revoking
  <2>2. \A t \in Transfers : pc[t] # "committed"
    BY <2>1, <1>4, ProcFacts DEF IInv, LaneInv, GuardHasOneHolder, Guarding
  <2>3. [o \in Ops |-> IF pc'[o] = "run" THEN want'[o] ELSE 0]
          = [[o \in Ops |-> IF pc[o] = "run" THEN want[o] ELSE 0] EXCEPT ![p] = access]
    BY <2>1, <1>1, <1>2, <1>4, ProcFacts
  <2>4. cancelled' \cap {o \in Ops : pc'[o] = "run"} = cancelled \cap {o \in Ops : pc[o] = "run"}
    BY <2>1, <1>1, <1>2, ProcFacts
  <2>5. Leases!Admit(p)
    BY <2>1, <2>2, <2>3, <2>4, <1>1, <1>3, <1>4 DEF Leases!Admit
  <2> QED
    BY <2>5, <1>4 DEF LeasesStep, Leases!Next
<1>5. CASE p \in Ops /\ pc[p] = "run"
  <2>1. point # "run" /\ want[p] # 0
    BY <1>5 DEF OpMoves, EInv, Bounds
  <2>2. [o \in Ops |-> IF pc'[o] = "run" THEN want'[o] ELSE 0]
          = [[o \in Ops |-> IF pc[o] = "run" THEN want[o] ELSE 0] EXCEPT ![p] = 0]
    BY <2>1, <1>1, <1>2, <1>5, ProcFacts
  <2>3. cancelled' \cap {o \in Ops : pc'[o] = "run"}
          = (cancelled \cap {o \in Ops : pc[o] = "run"}) \ {p}
    BY <2>1, <1>1, <1>2, ProcFacts
  <2>4. Leases!End(p)
    BY <2>1, <2>2, <2>3, <1>1, <1>3, <1>5 DEF Leases!End
  <2> QED
    BY <2>4, <1>5 DEF LeasesStep, Leases!Next
<1>6. CASE p \in Ops => point # "run" /\ pc[p] # "run"
  <2>1. \A o \in Ops : (pc'[o] = "run" <=> pc[o] = "run")
                       /\ (pc[o] = "run" => want'[o] = want[o])
    BY <1>1, <1>2, <1>6, ProcFacts
  <2>2. [o \in Ops |-> IF pc'[o] = "run" THEN want'[o] ELSE 0]
          = [o \in Ops |-> IF pc[o] = "run" THEN want[o] ELSE 0]
    BY <2>1
  <2>3. cancelled' \cap {o \in Ops : pc'[o] = "run"} = cancelled \cap {o \in Ops : pc[o] = "run"}
    BY <2>1, <1>1, <1>6
  <2> QED
    BY <2>2, <2>3, <1>1, <1>3 DEF LeasesStep, Leases!leaseVars
<1> QED
  BY <1>4, <1>5, <1>6

LEMMA MoveKeeps ==
    ASSUME IInv, EInv, NEW p \in Procs, NEW point, Moves(p, point),
           p \in Ops => OpMoves(p, point),
           p \in Transfers => TransferMoves(p, point),
           p \in Cleaners => CleanerMoves(p, point)
    PROVE  EInv' /\ LeasesStep
BY MoveKeepsEpochs, MoveMaps

\* The two ways a step moves its goroutine.
LEMMA GotoMoves ==
    ASSUME IInv, NEW p \in Procs, NEW point, Goto(p, point)
    PROVE  /\ pc'[p] = point
           /\ \A q \in Procs : q # p => pc'[q] \in {pc[q], Woken(q)}
BY DEF Goto, IInv, TypeOK

LEMMA SignalMoves ==
    ASSUME IInv, NEW p \in Procs, NEW point, Signal(p, point)
    PROVE  /\ pc'[p] = point
           /\ \A q \in Procs : q # p => pc'[q] \in {pc[q], Woken(q)}
BY DEF Signal

\* A move in which the device's row, the goroutine's epoch and the cancelled
\* leases stay.
LEMMA StillMoves ==
    ASSUME IInv, NEW p \in Procs, NEW point, Goto(p, point) \/ Signal(p, point),
           want' = want, cancelled' = cancelled, UNCHANGED deviceVars,
           p \in cancelled => point \in {"run", "unref"}
    PROVE  Moves(p, point)
<1>1. /\ pc'[p] = point
      /\ \A q \in Procs : q # p => pc'[q] \in {pc[q], Woken(q)}
  BY GotoMoves, SignalMoves
<1>2. want'[p] \in 0..MaxEpoch
  BY DEF IInv, TypeOK
<1> QED
  BY <1>1, <1>2 DEF Moves, deviceVars

-----------------------------------------------------------------------------
(* Every step keeps EInv.                                                  *)

\* Steps of any goroutine.
LEMMA StepsKeepEpochs ==
    ASSUME IInv, EInv, NEW p \in Procs, Steps(p) \/ GiveUp(p)
    PROVE  EInv' /\ LeasesStep
<1>1. /\ p \in Ops => want[p] <= access /\ (pc[p] # "idle" => want[p] >= 1)
      /\ p \in Cleaners /\ pc[p] # "idle" => want[p] < access
      /\ p \in cancelled => pc[p] \in {"run", "unref"}
  BY DEF EInv, Bounds, Revoking
<1>2. CASE Sleep(p)
  <2>1. Goto(p, "asleep") /\ pc[p] = "queue" /\ want' = want /\ cancelled' = cancelled
        /\ UNCHANGED deviceVars
    BY <1>2 DEF Sleep
  <2>2. Moves(p, "asleep")
    BY <2>1, <1>1, StillMoves
  <2> QED
    BY <2>1, <2>2, <1>1, MoveKeeps DEF OpMoves, TransferMoves, CleanerMoves, Joined
<1>3. CASE Take(p)
  <2> DEFINE point == IF p \in Transfers THEN "locked" ELSE "tx"
  <2>1. Goto(p, point) /\ pc[p] = "queue" /\ want' = want /\ cancelled' = cancelled
        /\ UNCHANGED deviceVars
    BY <1>3 DEF Take
  <2>2. point \in {"locked", "tx"}
    OBVIOUS
  <2> HIDE DEF point
  <2>3. Moves(p, point)
    BY <2>1, <1>1, StillMoves
  <2> QED
    BY <2>1, <2>2, <2>3, <1>1, MoveKeeps DEF OpMoves, TransferMoves, CleanerMoves, Joined
<1>4. CASE GiveUp(p)
  <2>1. Goto(p, "unref") /\ pc[p] \in {"queue", "asleep", "asleepJoin"}
        /\ want' = want /\ cancelled' = cancelled /\ UNCHANGED deviceVars
    BY <1>4 DEF GiveUp
  <2>2. Moves(p, "unref")
    BY <2>1, <1>1, StillMoves
  <2> QED
    BY <2>1, <2>2, <1>1, MoveKeeps DEF OpMoves, TransferMoves, CleanerMoves, Joined
<1>5. CASE ReleaseRef(p)
  <2> DEFINE point == IF pc[p] = "joined" THEN "prepared" ELSE "idle"
  <2>1. Goto(p, point)
    BY <1>5 DEF ReleaseRef, Goto
  <2>2. /\ pc[p] \in {"unref", "joined"} /\ UNCHANGED deviceVars
        /\ cancelled' = cancelled \ {p}
        /\ want' = IF pc[p] = "joined" THEN want ELSE [want EXCEPT ![p] = 0]
    BY <1>5 DEF ReleaseRef
  <2>3. /\ point \in {"prepared", "idle"}
        /\ point = "prepared" => pc[p] = "joined" /\ want' = want
        /\ point = "idle" => want' = [want EXCEPT ![p] = 0]
    BY <2>2
  <2> HIDE DEF point
  <2>4. /\ want'[p] \in {0, want[p]} /\ want'[p] \in 0..MaxEpoch
        /\ \A q \in Procs : q # p => want'[q] = want[q]
    BY <2>3, EpochAssumption DEF IInv, TypeOK
  <2>5. Moves(p, point)
    BY <2>1, <2>2, <2>4, GotoMoves DEF Moves, deviceVars
  <2>6. ASSUME p \in Ops PROVE OpMoves(p, point)
    <3>1. point = "idle"
      BY <2>6, <2>2, <2>3, ProcFacts DEF IInv, LaneInv, Kinds
    <3>2. want'[p] <= access
      BY <2>4, <2>6, <1>1, EpochAssumption DEF IInv, TypeOK, Epochs
    <3> QED
      BY <3>1, <3>2 DEF OpMoves
  <2>7. p \in Transfers => TransferMoves(p, point)
    BY <2>2, <2>3 DEF TransferMoves
  <2>8. p \in Cleaners => CleanerMoves(p, point)
    BY <2>2, <2>3, <1>1 DEF CleanerMoves, Joined
  <2> QED
    BY <2>5, <2>6, <2>7, <2>8, MoveKeeps
<1> QED
  BY <1>2, <1>3, <1>4, <1>5 DEF Steps

\* Admissions and leases of operations and cleaners.
LEMMA LeaseStepsKeepEpochs ==
    ASSUME IInv, EInv, NEW o \in Ops \cup Cleaners, LeaseSteps(o) \/ ReleaseLease(o)
    PROVE  EInv' /\ LeasesStep
<1>1. /\ o \in Procs /\ o \notin Transfers
      /\ o \in Ops => want[o] <= access /\ (pc[o] # "idle" => want[o] >= 1)
      /\ o \in Cleaners /\ pc[o] # "idle" => want[o] < access
      /\ o \in cancelled => pc[o] \in {"run", "unref"}
  BY ProcFacts DEF EInv, Bounds, Revoking
<1>2. CASE AdmissionTx(o)
  <2>1. Goto(o, "admitted") /\ pc[o] = "tx" /\ want' = want /\ cancelled' = cancelled
        /\ UNCHANGED deviceVars /\ (o \in Ops => want[o] = access /\ completed = access)
    BY <1>2 DEF AdmissionTx, Admissible
  <2>2. Moves(o, "admitted")
    BY <2>1, <1>1, StillMoves
  <2> QED
    BY <2>1, <2>2, <1>1, MoveKeeps DEF OpMoves, CleanerMoves, Joined
<1>3. CASE Refuse(o)
  <2>1. Goto(o, "refused") /\ pc[o] \in {"tx", "admitted"} /\ want' = want
        /\ cancelled' = cancelled /\ UNCHANGED deviceVars
    BY <1>3 DEF Refuse
  <2>2. Moves(o, "refused")
    BY <2>1, <1>1, StillMoves
  <2> QED
    BY <2>1, <2>2, <1>1, MoveKeeps DEF OpMoves, CleanerMoves, Joined
<1>4. CASE ReleaseAdmissionGate(o)
  <2>1. Signal(o, "unref") /\ pc[o] = "refused" /\ want' = want
        /\ cancelled' = cancelled /\ UNCHANGED deviceVars
    BY <1>4 DEF ReleaseAdmissionGate, DropGuard
  <2>2. Moves(o, "unref")
    BY <2>1, <1>1, StillMoves
  <2> QED
    BY <2>1, <2>2, <1>1, MoveKeeps DEF OpMoves, CleanerMoves, Joined
<1>5. CASE PublishLease(o)
  <2>1. Signal(o, "run") /\ pc[o] = "admitted" /\ want' = want
        /\ cancelled' = cancelled /\ UNCHANGED deviceVars
    BY <1>5 DEF PublishLease, DropGuard
  <2>2. Moves(o, "run")
    BY <2>1, <1>1, StillMoves
  <2> QED
    BY <2>1, <2>2, <1>1, MoveKeeps DEF OpMoves, CleanerMoves, Joined
<1>6. CASE ReleaseLease(o)
  <2>1. Signal(o, "unref") /\ pc[o] = "run" /\ want' = want
        /\ cancelled' = cancelled /\ UNCHANGED deviceVars
    BY <1>6 DEF ReleaseLease
  <2>2. Moves(o, "unref")
    BY <2>1, <1>1, StillMoves
  <2> QED
    BY <2>1, <2>2, <1>1, MoveKeeps DEF OpMoves, CleanerMoves, Joined
<1> QED
  BY <1>2, <1>3, <1>4, <1>5, <1>6 DEF LeaseSteps

\* Operations and cleaners enter the barrier.
LEMMA OpNextKeepsEpochs ==
    ASSUME IInv, EInv, NEW o \in Ops, OpNext(o)
    PROVE  EInv' /\ LeasesStep
<1>1. o \in Procs /\ o \notin Transfers /\ o \notin Cleaners
  BY ProcFacts
<1>2. ASSUME NEW e \in Epochs, NEW l \in Lanes, Begin(o, e, l) PROVE EInv' /\ LeasesStep
  <2>1. Goto(o, "queue") /\ pc[o] = "idle" /\ e <= access /\ cancelled' = cancelled
        /\ want' = [want EXCEPT ![o] = e] /\ UNCHANGED deviceVars
    BY <1>2 DEF Begin
  <2>2. want'[o] = e /\ e \in 0..MaxEpoch /\ e >= 1
        /\ \A q \in Procs : q # o => want'[q] = want[q]
    BY <2>1, <1>1, EpochAssumption DEF IInv, TypeOK, Epochs
  <2>3. o \notin cancelled
    BY <2>1 DEF EInv, Revoking
  <2>4. Moves(o, "queue")
    BY <2>1, <2>2, <2>3, <1>1, GotoMoves DEF Moves, deviceVars
  <2> QED
    BY <2>1, <2>2, <2>4, <1>1, MoveKeeps DEF OpMoves
<1> QED
  BY <1>2, LeaseStepsKeepEpochs DEF OpNext

LEMMA CleanerNextKeepsEpochs ==
    ASSUME IInv, EInv, NEW c \in Cleaners, CleanerNext(c)
    PROVE  EInv' /\ LeasesStep
<1>1. c \in Procs /\ c \notin Transfers /\ c \notin Ops
  BY ProcFacts
<1>2. /\ pc[c] # "idle" => want[c] < access
      /\ c \in cancelled => pc[c] \in {"run", "unref"}
  BY DEF EInv, Bounds, Revoking
<1>3. ASSUME NEW e \in Epochs, NEW l \in Lanes, WaitBefore(c, e, l) PROVE EInv' /\ LeasesStep
  <2>1. Goto(c, "join") /\ pc[c] = "idle" /\ e < access /\ cancelled' = cancelled
        /\ want' = [want EXCEPT ![c] = e] /\ UNCHANGED deviceVars
    BY <1>3 DEF WaitBefore
  <2>2. want'[c] = e /\ e \in 0..MaxEpoch
        /\ \A q \in Procs : q # c => want'[q] = want[q]
    BY <2>1, <1>1, EpochAssumption DEF IInv, TypeOK, Epochs
  <2>3. Moves(c, "join")
    BY <2>1, <2>2, <1>1, <1>2, GotoMoves DEF Moves, deviceVars
  <2> QED
    BY <2>1, <2>2, <2>3, <1>1, MoveKeeps DEF CleanerMoves, Joined
<1>4. CASE JoinLook(c)
  <2> DEFINE point == IF OlderActive(c) = {} THEN "joined" ELSE "asleepJoin"
  <2>1. Goto(c, point) /\ pc[c] = "join" /\ want' = want /\ cancelled' = cancelled
        /\ UNCHANGED deviceVars
    BY <1>4 DEF JoinLook
  <2>2. point \in {"joined", "asleepJoin"} /\ (point = "joined" => OlderActive(c) = {})
    OBVIOUS
  <2> HIDE DEF point
  <2>3. ASSUME point = "joined", NEW o \in Ops, pc[o] = "run" PROVE want[o] > want[c]
    <3>1. ref[o] = laneAt /\ ref[c] = laneAt
      BY <2>1, <2>3, <1>1, HolderFacts, ProcFacts
    <3>2. o \in active[ref[c]]
      BY <2>3, <3>1, ProcFacts DEF IInv, LaneInv, Running
    <3>3. ~(want[o] <= want[c])
      BY <3>2, <2>2, <2>3 DEF OlderActive
    <3> QED
      BY <3>3, <1>1, ProcFacts, EpochAssumption DEF IInv, TypeOK
  <2>4. Moves(c, point)
    BY <2>1, <1>1, <1>2, StillMoves
  <2> QED
    BY <2>1, <2>2, <2>3, <2>4, <1>1, <1>2, MoveKeeps DEF CleanerMoves, Joined
<1>5. CASE Abandon(c)
  <2>1. Goto(c, "idle") /\ pc[c] = "prepared" /\ cancelled' = cancelled
        /\ want' = [want EXCEPT ![c] = 0] /\ UNCHANGED deviceVars
    BY <1>5 DEF Abandon
  <2>2. want'[c] \in 0..MaxEpoch /\ \A q \in Procs : q # c => want'[q] = want[q]
    BY <2>1, <1>1, EpochAssumption DEF IInv, TypeOK
  <2>3. Moves(c, "idle")
    BY <2>1, <2>2, <1>1, <1>2, GotoMoves DEF Moves, deviceVars
  <2> QED
    BY <2>3, <1>1, MoveKeeps DEF CleanerMoves, Joined
<1>6. ASSUME NEW l \in Lanes, BeginRTPCleanup(c, l) PROVE EInv' /\ LeasesStep
  <2>1. Goto(c, "queue") /\ pc[c] = "prepared" /\ want' = want /\ cancelled' = cancelled
        /\ UNCHANGED deviceVars
    BY <1>6 DEF BeginRTPCleanup
  <2>2. Moves(c, "queue")
    BY <2>1, <1>1, <1>2, StillMoves
  <2> QED
    BY <2>1, <2>2, <1>1, <1>2, MoveKeeps DEF CleanerMoves, Joined
<1> QED
  BY <1>3, <1>4, <1>5, <1>6, LeaseStepsKeepEpochs DEF CleanerNext

\* While a transfer holds the guard, nothing is admitted and no other transfer
\* has committed.
LEMMA TransferIsAlone ==
    ASSUME IInv, NEW t \in Transfers, pc[t] \in {"locked", "committed"}
    PROVE  /\ \A o \in Ops : pc[o] # "admitted"
           /\ \A u \in Transfers : u # t => pc[u] # "committed"
BY ProcFacts DEF IInv, LaneInv, GuardHasOneHolder, Guarding

\* Transfers.
LEMMA TransferNextKeepsEpochs ==
    ASSUME IInv, EInv, NEW t \in Transfers, TransferNext(t)
    PROVE  EInv' /\ LeasesStep
<1>1. t \in Procs /\ t \notin Ops /\ t \notin Cleaners
  BY ProcFacts
<1>2. t \in cancelled => pc[t] \in {"run", "unref"}
  BY DEF EInv, Revoking
<1>3. access \in Nat /\ completed \in Nat /\ want \in [Procs -> Nat] /\ pc \in [Procs -> {pc[q] : q \in Procs}]
  BY EpochAssumption DEF IInv, TypeOK, Epochs
<1>4. CASE TransferCommitted(t)
  <2>1. /\ pc[t] = "locked" /\ pc' = [pc EXCEPT ![t] = "committed"]
        /\ access' = access + 1 /\ want' = [want EXCEPT ![t] = access + 1]
        /\ cancelled' = cancelled /\ completed' = completed /\ unseen' = unseen
    BY <1>4 DEF TransferCommitted, Goto
  <2>2. \A q \in Procs : q # t => pc'[q] = pc[q] /\ want'[q] = want[q]
    BY <2>1, <1>3
  <2>3. pc'[t] = "committed" /\ want'[t] = access'
    BY <2>1, <1>1, <1>3
  <2>4. Bounds'
    <3>1. \A o \in Ops : want'[o] <= access' /\ (pc'[o] # "idle" => want'[o] >= 1)
      BY <2>1, <2>2, <1>1, <1>3, ProcFacts DEF EInv, Bounds
    <3>2. \A c \in Cleaners : pc'[c] # "idle" => want'[c] < access'
      BY <2>1, <2>2, <1>1, <1>3, ProcFacts DEF EInv, Bounds
    <3>3. \A u \in Transfers : pc'[u] = "committed" => want'[u] = access'
      BY <2>1, <2>2, <2>3, TransferIsAlone, ProcFacts
    <3> QED
      BY <3>1, <3>2, <3>3 DEF Bounds
  <2>5. Revoking'
    <3>1. \A o \in cancelled' : pc'[o] \in {"run", "unref"}
      BY <2>1, <2>2, <1>2, ProcFacts DEF EInv, Revoking, IInv, TypeOK
    <3>2. \A u \in Transfers, o \in Ops :
            pc'[u] = "committed" /\ pc'[o] = "run" => want'[o] < access'
      BY <2>1, <2>2, <1>1, <1>3, ProcFacts DEF EInv, Bounds
    <3> QED
      BY <3>1, <3>2 DEF Revoking
  <2>6. Alone'
    BY <2>2, <1>1, ProcFacts DEF EInv, Alone
  <2>7. AdmissionIsFresh'
    BY <2>1, <2>2, <1>1, TransferIsAlone, ProcFacts DEF AdmissionIsFresh
  <2>8. TransferRevokes'
    BY <2>3 DEF TransferRevokes
  <2>9. LeasesStep
    <3>1. \A u \in Transfers : pc[u] # "committed"
      BY <2>1, TransferIsAlone
    <3>2. \E u \in Transfers : pc'[u] = "committed"
      BY <2>3
    <3>3. \A o \in Ops : pc'[o] = pc[o] /\ want'[o] = want[o]
      BY <2>2, <1>1, ProcFacts
    <3>4. (access + 1) - 1 = access
      BY <1>3
    <3> QED
      BY <3>1, <3>2, <3>3, <3>4, <2>1 DEF LeasesStep, Leases!leaseVars
  <2> QED
    BY <2>4, <2>5, <2>6, <2>7, <2>8, <2>9 DEF EInv
<1>5. CASE TransferUnknown(t)
  <2>1. /\ pc[t] = "locked" /\ pc' = [pc EXCEPT ![t] = "unguard"]
        /\ access' = access + 1 /\ want' = want
        /\ cancelled' = cancelled /\ completed' = completed
        /\ unseen' = unseen \cup {access + 1}
    BY <1>5 DEF TransferUnknown, Goto
  <2>2. \A q \in Procs : q # t => pc'[q] = pc[q]
    BY <2>1, <1>3
  <2>3. \A u \in Transfers : pc'[u] # "committed"
    BY <2>1, <2>2, <1>1, <1>3, TransferIsAlone, ProcFacts
  <2>4. Bounds'
    <3>1. \A o \in Ops : want'[o] <= access' /\ (pc'[o] # "idle" => want'[o] >= 1)
      BY <2>1, <2>2, <1>1, <1>3, ProcFacts DEF EInv, Bounds
    <3>2. \A c \in Cleaners : pc'[c] # "idle" => want'[c] < access'
      BY <2>1, <2>2, <1>1, <1>3, ProcFacts DEF EInv, Bounds
    <3> QED
      BY <3>1, <3>2, <2>3 DEF Bounds
  <2>5. Revoking'
    <3>1. \A o \in cancelled' : pc'[o] \in {"run", "unref"}
      BY <2>1, <2>2, <1>2, ProcFacts DEF EInv, Revoking, IInv, TypeOK
    <3> QED
      BY <3>1, <2>3 DEF Revoking
  <2>6. Alone'
    BY <2>1, <2>2, <1>1, ProcFacts DEF EInv, Alone
  <2>7. AdmissionIsFresh'
    BY <2>1, <2>2, <1>1, TransferIsAlone, ProcFacts DEF AdmissionIsFresh
  <2>8. TransferRevokes'
    <3> SUFFICES ASSUME NEW o \in Ops, pc'[o] = "run", want'[o] < access'
                 PROVE  o \in cancelled' \/ (want'[o] + 1)..access' \subseteq unseen'
      BY DEF TransferRevokes
    <3>1. pc[o] = "run" /\ want'[o] = want[o] /\ want[o] <= access /\ want[o] \in Nat
      BY <2>1, <2>2, <1>1, <1>3, ProcFacts DEF EInv, Bounds
    <3>2. CASE want[o] = access
      BY <3>1, <3>2, <2>1, <1>3
    <3>3. CASE want[o] < access
      <4>1. o \in cancelled \/ (want[o] + 1)..access \subseteq unseen
        BY <3>1, <3>3, <2>1, TransferIsAlone DEF EInv, TransferRevokes
      <4>2. (want[o] + 1)..(access + 1) = ((want[o] + 1)..access) \cup {access + 1}
        BY <3>1, <1>3
      <4> QED
        BY <4>1, <4>2, <3>1, <2>1
    <3> QED
      BY <3>1, <3>2, <3>3, <1>3
  <2>9. Leases!TransferUnseen
    <3>1. \A u \in Transfers : pc[u] # "committed"
      BY <2>1, TransferIsAlone
    <3>2. \A o \in Ops : pc'[o] = pc[o]
      BY <2>2, <1>1, ProcFacts
    <3> QED
      BY <3>1, <3>2, <2>1, <2>3 DEF Leases!TransferUnseen
  <2> QED
    BY <2>4, <2>5, <2>6, <2>7, <2>8, <2>9 DEF EInv, LeasesStep, Leases!Next
<1>6. CASE TransferUnchanged(t)
  <2>1. Goto(t, "unguard") /\ pc[t] = "locked" /\ want' = want /\ cancelled' = cancelled
        /\ UNCHANGED deviceVars
    BY <1>6 DEF TransferUnchanged
  <2>2. Moves(t, "unguard")
    BY <2>1, <1>1, <1>2, StillMoves
  <2> QED
    BY <2>1, <2>2, <1>1, MoveKeeps DEF TransferMoves
<1>7. CASE ReleaseGuard(t)
  <2>1. Signal(t, "unref") /\ pc[t] = "unguard" /\ want' = want /\ cancelled' = cancelled
        /\ UNCHANGED deviceVars
    BY <1>7 DEF ReleaseGuard, DropGuard
  <2>2. Moves(t, "unref")
    BY <2>1, <1>1, <1>2, StillMoves
  <2> QED
    BY <2>1, <2>2, <1>1, MoveKeeps DEF TransferMoves
<1>8. ASSUME NEW l \in Lanes, LockTransfer(t, l) PROVE EInv' /\ LeasesStep
  <2>1. Goto(t, "queue") /\ pc[t] = "idle" /\ want' = want /\ cancelled' = cancelled
        /\ UNCHANGED deviceVars
    BY <1>8 DEF LockTransfer
  <2>2. Moves(t, "queue")
    BY <2>1, <1>1, <1>2, StillMoves
  <2> QED
    BY <2>1, <2>2, <1>1, MoveKeeps DEF TransferMoves
<1>9. CASE Commit(t)
  <2>1. /\ pc[t] = "committed" /\ pc' = [pc EXCEPT ![t] = "unguard"]
        /\ cancelled' = cancelled \cup {o \in active[ref[t]] : want[o] < want[t]}
        /\ want' = want /\ access' = access /\ completed' = completed /\ unseen' = unseen
    BY <1>9 DEF Commit, Goto, deviceVars
  <2>2. \A q \in Procs : q # t => pc'[q] = pc[q]
    BY <2>1, <1>3
  <2>3. \A u \in Transfers : pc'[u] # "committed"
    BY <2>1, <2>2, <1>1, <1>3, TransferIsAlone, ProcFacts
  <2>4. Bounds'
    BY <2>1, <2>2, <2>3, <1>1, ProcFacts DEF EInv, Bounds
  <2>5. ref[t] = laneAt /\ laneAt # None /\ want[t] = access
    BY <2>1, <1>1, HolderFacts DEF EInv, Bounds
  <2>6. Revoking'
    <3>1. \A o \in cancelled : pc'[o] \in {"run", "unref"}
      BY <2>1, <2>2, <1>2, ProcFacts DEF EInv, Revoking, IInv, TypeOK
    <3>2. \A o \in active[laneAt] : pc[o] = "run"
      BY <2>5 DEF IInv, LaneInv, Running
    <3>3. \A o \in active[laneAt] : o \in Procs /\ o # t
      BY <2>1, <2>5, <3>2, <1>1, HolderFacts, ProcFacts DEF IInv, TypeOK
    <3>4. \A o \in cancelled' : pc'[o] \in {"run", "unref"}
      BY <3>1, <3>2, <3>3, <2>1, <2>2, <2>5
    <3> QED
      BY <3>4, <2>3 DEF Revoking
  <2>7. Alone' /\ AdmissionIsFresh'
    BY <2>1, <2>2, <1>1, ProcFacts DEF EInv, Alone, AdmissionIsFresh
  <2>8. TransferRevokes'
    <3> SUFFICES ASSUME NEW o \in Ops, pc'[o] = "run", want'[o] < access'
                 PROVE  o \in cancelled'
      BY DEF TransferRevokes
    <3>1. o \in Procs /\ pc[o] = "run" /\ want[o] < want[t]
      BY <2>1, <2>2, <2>5, <1>1, ProcFacts
    <3>2. o \in active[laneAt]
      BY <3>1, HolderFacts DEF IInv, LaneInv, Running
    <3> QED
      BY <3>1, <3>2, <2>1, <2>5
  <2>9. Leases!Transfer
    <3>1. \A o \in Ops : pc'[o] = pc[o]
      BY <2>2, <1>1, ProcFacts
    <3>2. ASSUME NEW o \in Ops, pc[o] = "run"
          PROVE  want[o] < want[t] /\ want[o] # 0 /\ o \in active[ref[t]]
      <4>1. want[o] < access /\ want[o] >= 1
        BY <3>2, <2>1 DEF EInv, Revoking, Bounds
      <4>2. o \in active[laneAt]
        BY <3>2, HolderFacts, ProcFacts DEF IInv, LaneInv, Running
      <4> QED
        BY <4>1, <4>2, <2>5
    <3>3. cancelled' \cap {o \in Ops : pc'[o] = "run"}
            = {o \in Ops : (IF pc[o] = "run" THEN want[o] ELSE 0) # 0}
      BY <3>1, <3>2, <2>1
    <3>4. access = (access - 1) + 1
      BY <1>3
    <3> QED
      BY <3>1, <3>3, <3>4, <2>1, <2>3 DEF Leases!Transfer
  <2> QED
    BY <2>4, <2>6, <2>7, <2>8, <2>9 DEF EInv, LeasesStep, Leases!Next
<1> QED
  BY <1>4, <1>5, <1>6, <1>7, <1>8, <1>9 DEF TransferNext, TransferSteps

\* Only a device without an admission under way is reopened.
LEMMA CompleteKeepsEpochs ==
    ASSUME IInv, EInv, Complete
    PROVE  EInv' /\ LeasesStep
<1>1. /\ pc' = pc /\ want' = want /\ access' = access /\ cancelled' = cancelled
      /\ unseen' = unseen /\ completed < access
  BY DEF Complete
<1>2. completed \in Nat /\ access \in Nat
  BY EpochAssumption DEF IInv, TypeOK, Epochs
<1>3. \A o \in Ops : pc[o] # "admitted"
  BY <1>1, <1>2 DEF EInv, AdmissionIsFresh
<1>4. EInv'
  BY <1>1, <1>3 DEF EInv, Bounds, Revoking, Alone, AdmissionIsFresh, TransferRevokes
<1> QED
  BY <1>1, <1>4 DEF LeasesStep, Leases!leaseVars

LEMMA NextEInv == IInv /\ EInv /\ [Next]_vars => EInv' /\ LeasesStep
<1> SUFFICES ASSUME IInv, EInv, [Next]_vars PROVE EInv' /\ LeasesStep
  OBVIOUS
<1>1. CASE UNCHANGED vars
  BY <1>1 DEF vars, EInv, Bounds, Revoking, Alone, AdmissionIsFresh, TransferRevokes,
              LeasesStep, Leases!leaseVars
<1> QED
  BY <1>1, StepsKeepEpochs, OpNextKeepsEpochs, TransferNextKeepsEpochs,
     CleanerNextKeepsEpochs, CompleteKeepsEpochs DEF Next

\* EInv holds in every reachable state.
THEOREM EpochInvariance == Spec => []EInv
BY Invariance, InitEInv, NextEInv, PTL DEF Spec

-----------------------------------------------------------------------------
(* The properties that the runs check.                                     *)

\* Nothing changes the device's row between the admission transaction and the
\* publication of the lease (beginOnLane).
THEOREM AdmissionStaysFresh == Spec => []AdmissionIsFresh
BY EpochInvariance, PTL DEF EInv

\* A transfer leaves no older lease uncancelled, unless its own commit was
\* reported as failed (Commit).
THEOREM TransfersRevoke == Spec => []TransferRevokes
BY EpochInvariance, PTL DEF EInv

\* What WaitBefore has joined stays joined until the cleaner is done
\* (WaitBefore, beginOnLane).
THEOREM CleanersAreAlone == Spec => []CleanerIsAlone
<1>1. EInv => CleanerIsAlone
  BY DEF EInv, Alone, Joined, CleanerIsAlone
<1> QED
  BY <1>1, EpochInvariance, PTL

\* The barrier implements the promise of DeviceLeases: a transfer revokes every
\* older lease in one step.
THEOREM BarrierImplementsLeases == Spec => LeasesSpec
<1>1. Init => Leases!Init
  <2> SUFFICES ASSUME Init PROVE Leases!Init
    OBVIOUS
  <2>1. \A p \in Ops \cup Transfers : pc[p] = "idle"
    BY ProcFacts DEF Init
  <2> QED
    BY <2>1 DEF Init, Leases!Init
<1>2. IInv /\ EInv /\ [Next]_vars => [Leases!Next]_(Leases!leaseVars)
  BY NextEInv DEF LeasesStep
<1> QED
  BY <1>1, <1>2, Invariance, EpochInvariance, PTL DEF Spec, LeasesSpec, Leases!Spec

=============================================================================
