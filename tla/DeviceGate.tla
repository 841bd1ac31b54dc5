------------------------------ MODULE DeviceGate ------------------------------
(***************************************************************************)
(* The gate a device passes between owners.  A transfer raises the          *)
(* device's access epoch; until cleanup_completed_epoch has caught up        *)
(* nothing is admitted on it.  The reconciler of devicecleanup/ advances     *)
(* that watermark when one pass has proved that nothing of an earlier        *)
(* epoch is left: no unsettled intent, no live media of this process, no     *)
(* channel in the stream projection.                                        *)
(*                                                                         *)
(* The operation barrier enters with what it promises (DeviceLeases): an     *)
(* admission reads the device's row and happens in one step.  The live       *)
(* coordinator enters as one lane per device.  Every database transaction   *)
(* is one action.                                                          *)
(***************************************************************************)
EXTENDS Naturals, FiniteSets

CONSTANTS
    Devices,     \* primary keys of devices
    Plays,       \* playback operations (playback/intent_owner.go)
    Ptzs,        \* PTZ operations (ptz/scheduler.go)
    MaxEpoch,    \* bound on the epoch of a device
    MaxCrashes,  \* bound on the restarts of the process
    Batch        \* devices the reconciler looks at per tick

Ops == Plays \cup Ptzs
Epochs == 1..MaxEpoch

ASSUME DeviceAssumption == Devices \subseteq Nat \ {0} /\ IsFiniteSet(Devices)
ASSUME OpAssumption == Plays \cap Ptzs = {}
ASSUME BoundAssumption == MaxEpoch \in Nat \ {0} /\ MaxCrashes \in Nat /\ Batch \in Nat \ {0}

VARIABLES
    access,      \* gb_device.access_epoch
    completed,   \* gb_device.cleanup_completed_epoch
    intent,      \* state of the operation's durable intent
    id,          \* id[o]: device and epoch the intent names
    pc,          \* position of the operation's goroutine
    live,        \* live[d]: the channel's entry in the coordinator
    playing,     \* devices with a row in the stream projection
    page, rpc,   \* reconciler: rest of its page, position in it
    crashes      \* restarts so far

deviceVars == <<access, completed>>
opVars == <<intent, id, pc>>
liveVars == <<live, playing>>
recVars == <<page, rpc>>
vars == <<access, completed, intent, id, pc, live, playing, page, rpc, crashes>>

\* A lane: its phase, the epoch its media was admitted under, and whether the
\* coordinator knows that epoch (it does not for a restored session).
NoLive == [phase |-> "none", epoch |-> 0, known |-> TRUE]

Init ==
    /\ access = [d \in Devices |-> 1]
    /\ completed = [d \in Devices |-> 1]
    /\ intent = [o \in Ops |-> "none"]
    /\ id = [o \in Ops |-> [dev |-> 0, epoch |-> 0]]
    /\ pc = [o \in Ops |-> "idle"]
    /\ live = [d \in Devices |-> NoLive]
    /\ playing = {}
    /\ page = {}
    /\ rpc = "list"
    /\ crashes = 0

Goto(o, point) == pc' = [pc EXCEPT ![o] = point]

-----------------------------------------------------------------------------
(* Intents and the operations that own them.                               *)

Gated(d) == completed[d] # access[d]

\* authorizeIntentDevice, and the check of the barrier's admission.
Authorized(d, e) == access[d] = e /\ ~Gated(d)

\* Seeded fault: a token of an earlier epoch is enough to reserve.
MutReserve(o, d, e) ==
    /\ pc[o] = "idle"
    /\ e <= access[d]
    /\ intent' = [intent EXCEPT ![o] = "reserved"]
    /\ id' = [id EXCEPT ![o] = [dev |-> d, epoch |-> e]]
    /\ Goto(o, "reserved") \/ Goto(o, "done")
    /\ UNCHANGED <<deviceVars, liveVars, recVars, crashes>>

\* The row is created; the reply of the commit may get lost.
Reserve(o, d, e) ==
    /\ pc[o] = "idle"
    /\ Authorized(d, e)
    /\ intent' = [intent EXCEPT ![o] = "reserved"]
    /\ id' = [id EXCEPT ![o] = [dev |-> d, epoch |-> e]]
    /\ \/ Goto(o, "reserved")
       \/ Goto(o, "done")
    /\ UNCHANGED <<deviceVars, liveVars, recVars, crashes>>

\* BeginEpoch: a playback asks for its lease before it dispatches its intent, a
\* PTZ attempt after it has claimed it.
BeginEpoch(o) ==
    /\ \/ o \in Plays /\ pc[o] = "reserved"
       \/ o \in Ptzs /\ pc[o] = "claimed"
    /\ Goto(o, IF ~Authorized(id[o].dev, id[o].epoch) THEN "done"
               ELSE IF o \in Plays THEN "leased" ELSE "effects")
    /\ UNCHANGED <<deviceVars, intent, id, liveVars, recVars, crashes>>

\* Dispatch, the CAS reserved -> dispatched; a lost reply permits nothing.
Dispatch(o) ==
    /\ o \in Plays /\ pc[o] = "leased"
    /\ IF Authorized(id[o].dev, id[o].epoch) /\ intent[o] = "reserved"
       THEN /\ intent' = [intent EXCEPT ![o] = "dispatched"]
            /\ \/ Goto(o, "effects")
               \/ Goto(o, "done")
       ELSE /\ Goto(o, "done")
            /\ UNCHANGED intent
    /\ UNCHANGED <<deviceVars, id, liveVars, recVars, crashes>>

\* ClaimPTZAttempt: the first attempt dispatches the intent, a retry finds it
\* dispatched.
ClaimPTZAttempt(o) ==
    /\ o \in Ptzs
    /\ pc[o] \in {"reserved", "done"}
    /\ intent[o] \in {"reserved", "dispatched"}
    /\ Authorized(id[o].dev, id[o].epoch)
    /\ intent' = [intent EXCEPT ![o] = "dispatched"]
    /\ \/ Goto(o, "claimed")
       \/ Goto(o, "done")
    /\ UNCHANGED <<deviceVars, id, liveVars, recVars, crashes>>

\* Seeded fault: the expiry does not look at the state of the intent.
MutExpirePTZReservation(o) ==
    /\ o \in Ptzs /\ pc[o] \in {"reserved", "claimed", "effects", "done"}
    /\ intent[o] \in {"reserved", "dispatched"}
    /\ intent' = [intent EXCEPT ![o] = "cancelled"]
    /\ pc' = [pc EXCEPT ![o] = IF @ = "reserved" THEN "done" ELSE @]
    /\ UNCHANGED <<deviceVars, id, liveVars, recVars, crashes>>

\* The queue deadline of a PTZ operation is over before its first attempt.
ExpirePTZReservation(o) ==
    /\ o \in Ptzs /\ pc[o] \in {"reserved", "done"}
    /\ intent[o] = "reserved"
    /\ intent' = [intent EXCEPT ![o] = "cancelled"]
    /\ Goto(o, "done")
    /\ UNCHANGED <<deviceVars, id, liveVars, recVars, crashes>>

\* The goroutine gives up on its reserved intent: its transfer, its caller.
Abandon(o) ==
    /\ pc[o] \in {"reserved", "leased", "claimed"}
    /\ Goto(o, "done")
    /\ UNCHANGED <<deviceVars, intent, id, liveVars, recVars, crashes>>

\* The effects end and the lease is released; the intent stays as it is.
EndEffects(o) ==
    /\ pc[o] = "effects"
    /\ Goto(o, "done")
    /\ UNCHANGED <<deviceVars, intent, id, liveVars, recVars, crashes>>

-----------------------------------------------------------------------------
(* The owner.                                                              *)

\* Seeded fault: reserved intents survive the transfer.
MutTransfer(d) ==
    /\ access[d] < MaxEpoch
    /\ access' = [access EXCEPT ![d] = @ + 1]
    /\ UNCHANGED <<completed, intent, id, pc, liveVars, recVars, crashes>>

\* The transfer's transaction raises the epoch and cancels what is reserved.
Transfer(d) ==
    /\ access[d] < MaxEpoch
    /\ access' = [access EXCEPT ![d] = @ + 1]
    /\ intent' = [o \in Ops |-> IF id[o].dev = d /\ intent[o] = "reserved"
                                THEN "cancelled" ELSE intent[o]]
    /\ UNCHANGED <<completed, id, pc, liveVars, recVars, crashes>>

-----------------------------------------------------------------------------
(* Live media: one lane per device.                                        *)

SetLive(d, phase) == live' = [live EXCEPT ![d].phase = phase]

\* EnsureLive creates the entry, then asks for a lease of the request's epoch.
LiveCall(d, e) ==
    /\ live[d].phase = "none"
    /\ e <= access[d]
    /\ live' = [live EXCEPT ![d] = [phase |-> "entry", epoch |-> e, known |-> TRUE]]
    /\ UNCHANGED <<deviceVars, opVars, playing, recVars, crashes>>

LiveAdmit(d) ==
    /\ live[d].phase = "entry"
    /\ IF Authorized(d, live[d].epoch)
       THEN SetLive(d, "starting")
       ELSE live' = [live EXCEPT ![d] = NoLive]
    /\ UNCHANGED <<deviceVars, opVars, playing, recVars, crashes>>

\* The start sets the channel's row and returns; or it fails and rolls back; or
\* the rollback fails too and leaves the session for a later cleanup.
LiveStarted(d) ==
    /\ live[d].phase = "starting"
    /\ \/ SetLive(d, "ready") /\ playing' = playing \cup {d}
       \/ live' = [live EXCEPT ![d] = NoLive] /\ UNCHANGED playing
       \/ SetLive(d, "ready") /\ UNCHANGED playing
    /\ UNCHANGED <<deviceVars, opVars, recVars, crashes>>

LiveStop(d) ==
    /\ live[d].phase = "ready"
    /\ SetLive(d, "stopping")
    /\ UNCHANGED <<deviceVars, opVars, playing, recVars, crashes>>

\* The media is closed; the row is cleared, or that write fails.
LiveStopped(d) ==
    /\ live[d].phase = "stopping"
    /\ live' = [live EXCEPT ![d] = NoLive]
    /\ playing' \in {playing, playing \ {d}}
    /\ UNCHANGED <<deviceVars, opVars, recVars, crashes>>

LiveStopFailed(d) ==
    /\ live[d].phase = "stopping"
    /\ SetLive(d, "ready")
    /\ UNCHANGED <<deviceVars, opVars, playing, recVars, crashes>>

\* The periodic stream reconciler clears a row without a session.
ClearRow(d) ==
    /\ d \in playing
    /\ live[d].phase = "none"
    /\ playing' = playing \ {d}
    /\ UNCHANGED <<deviceVars, opVars, live, recVars, crashes>>

\* The process restarts: rows whose media a node still has are restored as sessions
\* of unknown epoch, except those recovery skips or fails to restore.
Crash ==
    /\ crashes < MaxCrashes
    /\ crashes' = crashes + 1
    /\ pc' = [o \in Ops |-> IF pc[o] = "idle" THEN "idle" ELSE "done"]
    /\ \E restored \in SUBSET {d \in playing : live[d].phase \in {"ready", "stopping"}} :
          live' = [d \in Devices |->
                      IF d \in restored
                      THEN [live[d] EXCEPT !.phase = "ready", !.known = FALSE]
                      ELSE NoLive]
    /\ page' = {}
    /\ rpc' = "list"
    /\ UNCHANGED <<deviceVars, intent, id, playing>>

-----------------------------------------------------------------------------
(* The reconciler.                                                         *)

Pending == {d \in Devices : completed[d] < access[d]}

\* The first Batch pending devices in the order of their keys.
FirstPending == {d \in Pending : Cardinality({c \in Pending : c < d}) < Batch}

\* The device a tick is at.
Current == CHOOSE r \in page : \A q \in page : r.dev <= q.dev

ListPending ==
    /\ rpc = "list"
    /\ Pending # {}
    /\ page' = {[dev |-> d, epoch |-> access[d]] : d \in FirstPending}
    /\ rpc' = "check"
    /\ UNCHANGED <<deviceVars, opVars, liveVars, crashes>>

\* A verdict about the current device: the tick goes on with the next one.
NextDevice ==
    /\ page' = page \ {Current}
    /\ rpc' = IF page' = {} THEN "list" ELSE "check"

Unsettled(d, e) ==
    \E o \in Ops : id[o].dev = d /\ id[o].epoch < e /\ intent[o] \in {"reserved", "dispatched"}

\* Seeded fault: an operation that was dispatched counts as settled.
MutProvenSettled(r) ==
    /\ completed[r.dev] < r.epoch
    /\ ~ \E o \in Ops : /\ id[o].dev = r.dev /\ id[o].epoch < r.epoch
                        /\ intent[o] = "reserved"

\* HasUnsettledBefore finds none for an epoch the device has and still owes.
ProvenSettled(r) ==
    /\ r.epoch <= access[r.dev] /\ completed[r.dev] < r.epoch
    /\ ~Unsettled(r.dev, r.epoch)

Check ==
    /\ rpc \in {"check", "recheck"}
    /\ IF ProvenSettled(Current)
       THEN rpc' = (IF rpc = "check" THEN "settle" ELSE "complete") /\ UNCHANGED page
       ELSE NextDevice
    /\ UNCHANGED <<deviceVars, opVars, liveVars, crashes>>

\* Seeded fault: a stop of an older session counts as its end.
MutSettle ==
    LET s == live[Current.dev] IN
    /\ rpc = "settle"
    /\ \/ /\ s.phase = "none" \/ (s.phase = "stopping" /\ s.known)
          /\ rpc' = "project"
          /\ UNCHANGED <<page, live>>
       \/ /\ s.phase = "entry" \/ (s.phase = "starting" /\ s.epoch < Current.epoch)
          /\ rpc' = "joinStart"
          /\ UNCHANGED <<page, live>>
       \/ /\ s.phase = "ready" /\ s.known /\ s.epoch < Current.epoch
          /\ SetLive(Current.dev, "stopping")
          /\ rpc' = "joinStop"
          /\ UNCHANGED page
       \/ /\ s.phase \in {"starting", "ready", "stopping"}
          /\ s.epoch >= Current.epoch \/ ~s.known
          /\ NextDevice
          /\ UNCHANGED live
    /\ UNCHANGED <<deviceVars, opVars, playing, crashes>>

\* SettleDeviceBefore: an older session is stopped or its stop joined, a start of
\* which no newer epoch is known is joined; a newer session, or one of unknown
\* epoch, is no proof.
Settle ==
    LET s == live[Current.dev] IN
    /\ rpc = "settle"
    /\ \/ /\ s.phase = "none"
          /\ rpc' = "project"
          /\ UNCHANGED <<page, live>>
       \/ /\ s.phase = "entry" \/ (s.phase = "starting" /\ s.epoch < Current.epoch)
          /\ rpc' = "joinStart"
          /\ UNCHANGED <<page, live>>
       \/ /\ s.phase \in {"ready", "stopping"} /\ s.known /\ s.epoch < Current.epoch
          /\ SetLive(Current.dev, "stopping")
          /\ rpc' = "joinStop"
          /\ UNCHANGED page
       \/ /\ s.phase \in {"starting", "ready", "stopping"}
          /\ s.epoch >= Current.epoch \/ ~s.known
          /\ NextDevice
          /\ UNCHANGED live
    /\ UNCHANGED <<deviceVars, opVars, playing, crashes>>

\* The joined start is up, and looked at again, or the joined stop has ended; a
\* start that failed, a stop that failed and a wait too long are no proof.
Join ==
    /\ \/ /\ rpc = "joinStart" /\ live[Current.dev].phase = "ready"
          /\ rpc' = "settle" /\ UNCHANGED page
       \/ /\ rpc = "joinStop" /\ live[Current.dev].phase \in {"none", "entry"}
          /\ rpc' = "project" /\ UNCHANGED page
       \/ rpc \in {"joinStart", "joinStop"} /\ NextDevice
    /\ UNCHANGED <<deviceVars, opVars, liveVars, crashes>>

\* ListPlayingChannels must not list the device.
Project ==
    /\ rpc = "project"
    /\ IF Current.dev \in playing THEN NextDevice
                                  ELSE rpc' = "recheck" /\ UNCHANGED page
    /\ UNCHANGED <<deviceVars, opVars, liveVars, crashes>>

\* Seeded fault: the target is not compared with the row.
MutCompleteStale ==
    /\ rpc = "complete"
    /\ completed' = [completed EXCEPT ![Current.dev] = Current.epoch]
    /\ NextDevice
    /\ UNCHANGED <<access, opVars, liveVars, crashes>>

\* Complete refuses a target that is not the device's epoch any more.
Complete ==
    /\ rpc = "complete"
    /\ completed' = IF Current.epoch = access[Current.dev]
                    THEN [completed EXCEPT ![Current.dev] = Current.epoch]
                    ELSE completed
    /\ NextDevice
    /\ UNCHANGED <<access, opVars, liveVars, crashes>>

Reconcile == ListPending \/ Check \/ Settle \/ Join \/ Project \/ Complete

-----------------------------------------------------------------------------

OpNext(o) ==
    \/ \E d \in Devices, e \in Epochs : Reserve(o, d, e)
    \/ BeginEpoch(o) \/ Dispatch(o) \/ ClaimPTZAttempt(o)
    \/ ExpirePTZReservation(o) \/ Abandon(o) \/ EndEffects(o)

LiveNext(d) ==
    \/ \E e \in Epochs : LiveCall(d, e)
    \/ LiveAdmit(d) \/ LiveStarted(d)
    \/ LiveStop(d) \/ LiveStopped(d) \/ LiveStopFailed(d)
    \/ ClearRow(d)

Next ==
    \/ \E o \in Ops : OpNext(o)
    \/ \E d \in Devices : Transfer(d) \/ LiveNext(d)
    \/ Crash
    \/ Reconcile

Spec == Init /\ [][Next]_vars

\* The tick is at d, or about to list it, and no caller is between its entry on d
\* and its admission.
QuietAt(d) ==
    /\ IF page = {} THEN d \in FirstPending ELSE d = Current.dev
    /\ live[d].phase # "entry"

\* The reconciler's ticker runs, and callers that are about to be refused do not
\* for ever coincide with its passes; starts end; a media node that is asked again and again
\* closes a session; rows without a session are cleared.
Fairness ==
    /\ WF_vars(Reconcile)
    /\ \A d \in Devices :
          /\ SF_vars(QuietAt(d) /\ ListPending) /\ SF_vars(QuietAt(d) /\ Check)
          /\ SF_vars(QuietAt(d) /\ Settle) /\ SF_vars(QuietAt(d) /\ Join)
          /\ WF_vars(LiveAdmit(d))
          /\ WF_vars(LiveStarted(d))
          /\ SF_vars(LiveStopped(d))
          /\ SF_vars(ClearRow(d))

FairSpec == Spec /\ Fairness

-----------------------------------------------------------------------------
(* Properties.                                                             *)

Identities == [dev : Devices, epoch : Epochs]

\* Every variable has its type, and the watermark is never ahead of the epoch.
TypeOK ==
    /\ access \in [Devices -> Epochs]
    /\ completed \in [Devices -> Epochs]
    /\ \A d \in Devices : completed[d] <= access[d]
    /\ intent \in [Ops -> {"none", "reserved", "dispatched", "cancelled"}]
    /\ id \in [Ops -> Identities \cup {[dev |-> 0, epoch |-> 0]}]
    /\ pc \in [Ops -> {"idle", "reserved", "leased", "claimed", "effects", "done"}]
    /\ live \in [Devices -> [phase : {"none", "entry", "starting", "ready", "stopping"},
                              epoch : Epochs \cup {0}, known : BOOLEAN]]
    /\ playing \subseteq Devices
    /\ page \subseteq Identities
    /\ rpc \in {"list", "check", "settle", "joinStart", "joinStop",
                "project", "recheck", "complete"}
    /\ (rpc = "list") <=> (page = {})
    /\ crashes \in 0..MaxCrashes

OldOps(d) == {o \in Ops : id[o].dev = d /\ id[o].epoch < access[d]}
OldMedia(d) == live[d].phase \in {"starting", "ready", "stopping"} /\ live[d].epoch < access[d]

\* A device that admits anything carries nothing of an earlier owner: no operation
\* of an older epoch runs or may still be dispatched, and no media admitted under
\* one is up (the promise of the two watermarks, playauth/device_cleanup_store.go).
GateOpenMeansClean ==
    \A d \in Devices : ~Gated(d) =>
        /\ ~OldMedia(d)
        /\ \A o \in OldOps(d) : intent[o] = "cancelled" /\ pc[o] # "effects"

\* External effects happen only under a dispatched intent, which no transfer and no
\* expiry takes back: what the reconciler reads as cancelled never ran.
OnlyDispatchedRun ==
    \A o \in Ops : pc[o] = "effects" => intent[o] = "dispatched"

\* The watermark moves only to the epoch the device has at that moment, and what
\* the pass proved step by step is still true when it moves: nothing older is
\* unsettled, no older media is up and no channel is listed as playing.
CompletionIsProven ==
    [][\A d \in Devices : completed'[d] # completed[d] =>
          /\ completed'[d] = access[d]
          /\ ~Unsettled(d, access[d])
          /\ ~OldMedia(d)
          /\ d \notin playing]_vars

\* HasUnsettledBefore reads only the head of the set "because it can only shrink":
\* as long as the device keeps its epoch no older intent becomes unsettled.
OldUnsettledOnlyShrinks ==
    [][\A d \in Devices : access'[d] = access[d] =>
          \A o \in Ops :
              (id'[o].dev = d /\ id'[o].epoch < access[d] /\ intent'[o] \in {"reserved", "dispatched"})
              => (id[o] = id'[o] /\ intent[o] \in {"reserved", "dispatched"})]_vars

\* What no pass of the reconciler can remove: an older intent that was dispatched,
\* and a session a restart restored without its epoch.
Stuck(d) ==
    \/ \E o \in OldOps(d) : intent[o] = "dispatched"
    \/ live[d].phase # "none" /\ ~live[d].known

\* A transferred device opens again unless one of these two holds it closed.
GateReopensUnlessStuck ==
    \A d \in Devices : Gated(d) ~> (~Gated(d) \/ Stuck(d))

\* "A transferred device must not stay gated forever": the reconciler reopens it.
GateReopens == \A d \in Devices : Gated(d) ~> ~Gated(d)
==============================================================================
