---------------------------- MODULE RecordingPlans ----------------------------
(***************************************************************************)
(* The recording plan engine on one channel (recordingplan/).  A round       *)
(* claims the channel's row when it is due, decides from what it reads, has  *)
(* the orchestrator start or stop the channel's recording, and writes the    *)
(* row back if its plan version is still the one it claimed.  Meanwhile the   *)
(* plan is edited, the channel gets another mode, the device comes and goes,  *)
(* media is lost, viewers use the same stream and the process restarts.      *)
(*                                                                         *)
(* The device is DeviceStatus; its notices reach the engine late and in any   *)
(* order.  Channels of a plan share the plan's row and nothing else, so one   *)
(* channel is modelled.  Rounds are serialised by runMu, so there is one      *)
(* worker.  Because of that state_version, which only a round's own write     *)
(* moves, always matches and is left out.                                   *)
(*                                                                         *)
(* Generations are the code's plus one, so that 0 stands for no stream: media *)
(* found running without a session is taken up with the code's generation 0,  *)
(* which is Bare here, and a stream that was invited has a later one.         *)
(***************************************************************************)
EXTENDS Naturals

CONSTANTS
    Tellers,     \* goroutines that bring notices about the device
    MaxEvents,   \* bound on what the outside does: edits, outages, failures, restarts
    Failing      \* whether calls fail and the process restarts

ASSUME EventAssumption == MaxEvents \in Nat
ASSUME FailingAssumption == Failing \in BOOLEAN

VARIABLES
    online, lit, telling,    \* the device, see DeviceStatus
    marking,     \* notices that have opened the gap and not written the row yet
    mode,        \* gb_channel.recording_mode: off, continuous, scheduled
    plan,        \* the plan's row: enabled, version
    matched,     \* the plan's periods contain this moment
    assigning,   \* Assign between its look at the plan and its transaction
    row,         \* gb_recording_plan_channel_state
    gap,         \* there is an open gap
    work,        \* the round: position, snapshot of the row, decision
    live,        \* generation of the channel's live media, 0 without
    lastGen,     \* generations are counted by the process
    orphan,      \* media runs that the channel's row names and the process does not know
    watched,     \* others keep the stream: viewers, leases, a channel not on demand
    active,      \* the orchestrator's entry and source lease: a generation, or 0
    stale,       \* ghost: Assign bound the row to a version of the plan that was over
    strayed,     \* ghost: the row and the orchestrator lost sight of each other
    events       \* what the outside has done so far

deviceVars == <<online, lit, telling, marking>>
planVars == <<mode, plan, matched, assigning>>
ghosts == <<stale, strayed>>
rowVars == <<row, gap>>
mediaVars == <<live, lastGen, orphan, watched>>
vars == <<online, lit, telling, marking, mode, plan, matched, assigning, row, gap, work,
          live, lastGen, orphan, watched, active, stale, strayed, events>>

Device == INSTANCE DeviceStatus

NoWork == [pc |-> "idle", actual |-> "idle", version |-> 0, gen |-> 0, next |-> "idle",
           desired |-> FALSE, newVersion |-> 0, gap |-> "keep"]
Bare == 1
NoAssign == [on |-> FALSE, version |-> 0, matched |-> FALSE]

\* Something the outside does, of which there is a bounded number.
Event == events < MaxEvents /\ events' = events + 1
Failure == Failing /\ Event

-----------------------------------------------------------------------------
(* Decisions (state_machine.go).                                           *)

Scheduled == mode = "scheduled"

\* desiredRecording
Wanted == mode = "continuous" \/ (Scheduled /\ plan.enabled /\ matched)
NeedsStop(actual) == actual \in {"recording", "recovering", "stopping"}

\* The plan version a round records; channels without a plan have version 0.
PlanVersion == IF Scheduled THEN plan.version ELSE 0
PlanChanged == Scheduled /\ work.version # 0 /\ work.version # plan.version

\* The row says recording, but nothing is live, or not the generation it names.
MediaGone == work.actual = "recording" /\ (live = 0 \/ (work.gen > Bare /\ live # work.gen))

\* What the round takes the row's state for.
Actual == IF MediaGone THEN "idle" ELSE work.actual

\* DecideReconcile: go on to start or stop, or to a state with no action.
Proceed(pc, desired, next, gapTo) ==
    work' = [work EXCEPT !.pc = pc, !.desired = desired, !.next = next,
                         !.newVersion = PlanVersion, !.gap = gapTo]


Decision ==
    \/ /\ PlanChanged /\ NeedsStop(Actual)
       /\ Proceed("stopping", FALSE, "stopping", "keep")
    \/ /\ ~(PlanChanged /\ NeedsStop(Actual)) /\ ~Wanted
       /\ \/ NeedsStop(Actual) /\ Proceed("stopping", FALSE, "stopping", "close")
          \/ /\ ~NeedsStop(Actual)
             /\ Proceed("gap", FALSE, IF Scheduled /\ plan.enabled THEN "outside" ELSE "idle", "close")
    \/ /\ ~(PlanChanged /\ NeedsStop(Actual)) /\ Wanted
       /\ \/ Actual = "stopping" /\ Proceed("stopping", TRUE, "stopping", "keep")
          \/ Actual # "stopping" /\ ~lit /\ Proceed("gap", TRUE, "waiting", "open")
          \/ Actual = "recording" /\ lit /\ Proceed("gap", TRUE, "recording", "close")
          \/ Actual \notin {"stopping", "recording"} /\ lit /\ Proceed("starting", TRUE, "recording", "close")

-----------------------------------------------------------------------------
\* The channel has just been given its mode.
Init ==
    /\ online \in BOOLEAN /\ lit = online
    /\ telling = [t \in Tellers |-> "none"] /\ marking = {}
    /\ mode \in {"off", "continuous", "scheduled"} /\ matched \in BOOLEAN
    /\ plan = [enabled |-> TRUE, version |-> 1]
    /\ assigning = NoAssign
    /\ row = [actual |-> "idle", desired |-> Wanted, version |-> PlanVersion, gen |-> 0,
              due |-> TRUE, leased |-> FALSE]
    /\ gap = FALSE
    /\ work = NoWork
    /\ live = 0 /\ lastGen = Bare /\ orphan = FALSE /\ watched = FALSE
    /\ active = 0
    /\ stale = FALSE /\ strayed = FALSE
    /\ events = 0

-----------------------------------------------------------------------------
(* A round (engine.go).                                                    *)

\* The minute is over, a retry or a transition is due, Heal or ObserveStream asks.
BecomesDue ==
    /\ ~row.due
    /\ row' = [row EXCEPT !.due = TRUE]
    /\ UNCHANGED <<deviceVars, planVars, gap, work, mediaVars, active, ghosts, events>>

\* ClaimDueStates: the lease is written and the row read.
Claim ==
    /\ work.pc = "idle" /\ row.due /\ ~row.leased
    /\ row' = [row EXCEPT !.leased = TRUE]
    /\ work' = [NoWork EXCEPT !.pc = "claimed", !.actual = row.actual,
                              !.version = row.version, !.gen = row.gen]
    /\ stale' = FALSE
    /\ UNCHANGED <<deviceVars, planVars, gap, mediaVars, active, strayed, events>>

\* The lease of a round that gave up runs out.
LeaseExpires ==
    /\ work.pc = "idle" /\ row.leased
    /\ row' = [row EXCEPT !.leased = FALSE]
    /\ UNCHANGED <<deviceVars, planVars, gap, work, mediaVars, active, ghosts, events>>

\* The channel, the plan and the live registry are read; lost media opens a gap.
Decide ==
    /\ work.pc = "claimed"
    /\ Decision
    /\ gap' = (gap \/ MediaGone)
    /\ strayed' = (strayed \/ (active # 0 /\ (MediaGone \/ work'.next = "waiting")))
    /\ UNCHANGED <<deviceVars, planVars, row, mediaVars, active, stale, events>>

\* Orchestrator.Start with an entry at hand: it is reused, dead or alive.
StartReused ==
    /\ work.pc = "starting" /\ active # 0
    /\ work' = [work EXCEPT !.pc = "gap", !.gen = active]
    /\ UNCHANGED <<deviceVars, planVars, rowVars, mediaVars, active, ghosts, events>>

\* An entry is served as it is; without one the device must be online, by its own
\* status and not the channel's, which the engine looks at.
Served == live # 0 \/ online

\* Then EnsureLive takes the entry, the media that still runs, or invites the device.
EnsureLive ==
    \/ live # 0 /\ UNCHANGED <<live, lastGen, orphan>>
    \/ live = 0 /\ orphan /\ live' = Bare /\ orphan' = FALSE /\ UNCHANGED lastGen
    \/ live = 0 /\ ~orphan /\ live' = lastGen + 1 /\ lastGen' = live' /\ UNCHANGED orphan

\* Without one: EnsureLive, Acquire, BeginPlayback.
StartFresh ==
    /\ work.pc = "starting" /\ active = 0
    /\ Served /\ EnsureLive /\ live' > Bare
    /\ active' = live'
    /\ work' = [work EXCEPT !.pc = "gap", !.gen = live']
    /\ UNCHANGED <<deviceVars, planVars, rowVars, watched, ghosts, events>>

\* What became of a start that did not succeed: a gap and a retry.
Recovering == work' = [work EXCEPT !.pc = "gap", !.next = "recovering", !.gap = "open"]

\* The device's row is offline, or the stream has no generation to hold a lease on.
StartRefused ==
    /\ work.pc = "starting" /\ active = 0
    /\ \/ ~Served /\ UNCHANGED <<live, lastGen, orphan>>
       \/ Served /\ EnsureLive /\ live' = Bare
    /\ Recovering
    /\ UNCHANGED <<deviceVars, planVars, rowVars, watched, active, ghosts, events>>

\* It fails, with or without media brought up.
StartFails ==
    /\ work.pc = "starting" /\ active = 0
    /\ Failure
    /\ (Served /\ EnsureLive) \/ UNCHANGED <<live, lastGen, orphan>>
    /\ Recovering
    /\ UNCHANGED <<deviceVars, planVars, rowVars, watched, active, ghosts>>

\* Orchestrator.Stop: after a restart a recovered session is adopted.
Adopted == IF active = 0 THEN live ELSE active

\* Seeded fault: the source lease is not released.
MutStopDone ==
    /\ work.pc = "stopping"
    /\ live' = IF ~watched /\ live = Adopted THEN 0 ELSE live
    /\ work' = [work EXCEPT !.pc = "gap", !.next = "idle"]
    /\ UNCHANGED <<deviceVars, planVars, rowVars, lastGen, orphan, watched, active, ghosts, events>>

\* Disable, then StopOnNoneReader unless others use the stream, then Release.
StopDone ==
    /\ work.pc = "stopping"
    /\ live' = IF ~watched /\ live = Adopted THEN 0 ELSE live
    /\ active' = 0
    /\ work' = [work EXCEPT !.pc = "gap", !.next = "idle"]
    /\ UNCHANGED <<deviceVars, planVars, rowVars, lastGen, orphan, watched, ghosts, events>>

\* Disable fails, or StopOnNoneReader after an adoption; the lease is kept.
StopFails ==
    /\ work.pc = "stopping"
    /\ Failure
    /\ active' \in {active, Adopted}
    /\ work' = [work EXCEPT !.pc = "gap"]
    /\ UNCHANGED <<deviceVars, planVars, rowVars, mediaVars, ghosts>>

\* OpenGap or CloseOpenGap.
WriteGap ==
    /\ work.pc = "gap"
    /\ gap' = CASE work.gap = "open" -> TRUE [] work.gap = "close" -> FALSE [] OTHER -> gap
    /\ work' = [work EXCEPT !.pc = "write"]
    /\ UNCHANGED <<deviceVars, planVars, row, mediaVars, active, ghosts, events>>

\* Seeded fault: the plan version is not compared.
MutWriteRow ==
    /\ work.pc = "write"
    /\ row' = [actual |-> work.next, desired |-> work.desired, version |-> work.newVersion,
               gen |-> work.gen, due |-> FALSE, leased |-> FALSE]
    /\ work' = NoWork
    /\ UNCHANGED <<deviceVars, planVars, gap, mediaVars, active, ghosts, events>>

\* Seeded fault: the row keeps the plan version it was claimed with.
MutKeepsVersion ==
    /\ work.pc = "write"
    /\ \/ /\ row.version = work.version
          /\ row' = [actual |-> work.next, desired |-> work.desired, version |-> work.version,
                     gen |-> work.gen, due |-> FALSE, leased |-> FALSE]
          /\ UNCHANGED strayed
       \/ row.version # work.version /\ UNCHANGED row /\ strayed' = TRUE
    /\ work' = NoWork
    /\ UNCHANGED <<deviceVars, planVars, gap, mediaVars, active, stale, events>>

\* UpdateStateCAS; a round that lost its row leaves it alone.
WriteRow ==
    /\ work.pc = "write"
    /\ \/ /\ row.version = work.version
          /\ row' = [actual |-> work.next, desired |-> work.desired, version |-> work.newVersion,
                     gen |-> work.gen, due |-> FALSE, leased |-> FALSE]
          /\ UNCHANGED strayed
       \/ row.version # work.version /\ UNCHANGED row /\ strayed' = TRUE
    /\ work' = NoWork
    /\ UNCHANGED <<deviceVars, planVars, gap, mediaVars, active, stale, events>>

\* A database error ends the round; the row keeps its lease.
Abort ==
    /\ work.pc # "idle"
    /\ Failure
    /\ work' = NoWork
    /\ strayed' = TRUE
    /\ UNCHANGED <<deviceVars, planVars, rowVars, mediaVars, active, stale>>

-----------------------------------------------------------------------------
(* Notices (DeviceStatusChanged).                                          *)

\* The row is read and, if recording is desired of a device gone offline, the gap
\* opened.
NoticeOpensGap(t) ==
    /\ telling[t] = "off" /\ t \notin marking /\ row.desired
    /\ gap' = TRUE
    /\ marking' = marking \cup {t}
    /\ UNCHANGED <<online, lit, telling, planVars, row, work, mediaVars, active, ghosts, events>>

\* The row is updated; neither of its versions moves.
NoticeMarksRow(t) ==
    /\ t \in marking
    /\ row' = [row EXCEPT !.actual = "waiting", !.due = TRUE]
    /\ marking' = marking \ {t}
    /\ Device!Told(t)
    /\ strayed' = (strayed \/ active # 0)
    /\ UNCHANGED <<planVars, gap, work, mediaVars, active, stale, events>>

\* Any other notice makes the row due.
NoticeNudges(t) ==
    /\ t \notin marking /\ Device!Told(t)
    /\ telling[t] = "on" \/ ~row.desired
    /\ row' = [row EXCEPT !.due = TRUE]
    /\ UNCHANGED <<marking, planVars, gap, work, mediaVars, active, ghosts, events>>

Notice(t) == NoticeOpensGap(t) \/ NoticeMarksRow(t) \/ NoticeNudges(t)

-----------------------------------------------------------------------------
(* Plans and modes (service.go, assignment.go).                             *)

\* What every edit does to the row: reconcile now, without the old lease.
Reset(version, desired) ==
    row' = [row EXCEPT !.version = version, !.desired = desired, !.due = TRUE, !.leased = FALSE]

\* Update, SetEnabled: the plan and the rows bound to it in one transaction.
UpdatePlan ==
    /\ Event
    /\ \E enabled, now \in BOOLEAN :
        /\ plan' = [enabled |-> enabled, version |-> plan.version + 1]
        /\ matched' = now
    /\ IF Scheduled THEN Reset(plan.version + 1, row.desired) ELSE UNCHANGED row
    /\ UNCHANGED <<deviceVars, mode, assigning, gap, work, mediaVars, active, ghosts>>

\* A period begins or ends.
ScheduleTurns ==
    /\ Event
    /\ matched' = ~matched
    /\ UNCHANGED <<deviceVars, mode, plan, assigning, rowVars, work, mediaVars, active, ghosts>>

\* SetMode; "scheduled" needs a binding, which channels in that mode have.
SetMode(m) ==
    /\ Event
    /\ m = "scheduled" => Scheduled /\ plan.enabled
    /\ mode' = m
    /\ Reset(IF m = "scheduled" THEN plan.version ELSE 0,
             m = "continuous" \/ (m = "scheduled" /\ matched))
    /\ UNCHANGED <<deviceVars, plan, matched, assigning, gap, work, mediaVars, active, ghosts>>

\* Assign looks at the plan before its transaction ...
AssignLooks ==
    /\ Event
    /\ ~assigning.on /\ plan.enabled
    /\ assigning' = [on |-> TRUE, version |-> plan.version, matched |-> matched]
    /\ UNCHANGED <<deviceVars, mode, plan, matched, rowVars, work, mediaVars, active, ghosts>>

\* ... and binds the channel, unless it is bound by then.
AssignBinds ==
    /\ assigning.on
    /\ assigning' = NoAssign
    /\ \/ Scheduled /\ UNCHANGED <<mode, row, stale>>
       \/ /\ ~Scheduled /\ mode' = "scheduled"
          /\ Reset(assigning.version, assigning.matched)
          /\ stale' = (assigning.version # plan.version)
    /\ UNCHANGED <<deviceVars, plan, matched, gap, work, mediaVars, active, strayed, events>>

-----------------------------------------------------------------------------
(* The outside.                                                            *)

\* Device and channel change their status.
DeviceChanges ==
    /\ Event
    /\ \/ \E t \in Tellers : Device!Change(t)
       \/ Device!GoOnlineUntold \/ Device!GoOfflineUntold \/ Device!CatalogArrives
    /\ UNCHANGED <<marking, planVars, rowVars, work, mediaVars, active, ghosts>>

\* The stream ends at its source.
MediaLost ==
    /\ live # 0 \/ orphan
    /\ Event
    /\ live' = 0 /\ orphan' = FALSE /\ watched' = FALSE
    /\ UNCHANGED <<deviceVars, planVars, rowVars, work, lastGen, active, ghosts>>

\* Others begin and cease to use the stream.
ViewerComes ==
    /\ ~watched
    /\ Event
    /\ Served /\ EnsureLive /\ watched' = TRUE
    /\ UNCHANGED <<deviceVars, planVars, rowVars, work, active, ghosts>>
ViewerGoes ==
    /\ watched /\ watched' = FALSE
    /\ UNCHANGED <<deviceVars, planVars, rowVars, work, live, lastGen, orphan, active, ghosts,
                   events>>

\* A stream without readers and leases is closed.
NoneReader ==
    /\ (live # 0 \/ orphan) /\ ~watched /\ active = 0
    /\ live' = 0 /\ orphan' = FALSE
    /\ UNCHANGED <<deviceVars, planVars, rowVars, work, lastGen, watched, active, ghosts, events>>

\* The process restarts.  Media may end with it, be recovered under a generation
\* counted from the beginning, or run on unknown: recovery leaves it alone when it
\* cannot ask the media node, finds two owners, or its SSRC is taken.
Crash ==
    /\ Failure
    /\ Device!Restart /\ marking' = {}
    /\ assigning' = NoAssign
    /\ work' = NoWork /\ active' = 0
    /\ live' \in {0, IF live # 0 THEN Bare + 1 ELSE 0}
    /\ lastGen' = IF live' = 0 THEN Bare ELSE live'
    /\ orphan' \in {FALSE, live' = 0 /\ (live # 0 \/ orphan)}
    /\ watched' = (watched /\ (live' # 0 \/ orphan'))
    /\ strayed' = TRUE
    /\ UNCHANGED <<mode, plan, matched, rowVars, stale>>

-----------------------------------------------------------------------------
Round ==
    \/ Claim \/ Decide \/ StartReused \/ StartFresh \/ StartRefused \/ StopDone \/ WriteGap \/ WriteRow

Next ==
    \/ Round \/ StartFails \/ StopFails \/ Abort
    \/ BecomesDue \/ LeaseExpires
    \/ \E t \in Tellers : Notice(t)
    \/ UpdatePlan \/ ScheduleTurns \/ AssignLooks \/ AssignBinds
    \/ \E m \in {"off", "continuous", "scheduled"} : SetMode(m)
    \/ DeviceChanges \/ MediaLost \/ ViewerComes \/ ViewerGoes \/ NoneReader \/ Crash

Spec == Init /\ [][Next]_vars

\* The scheduler's ticks, and goroutines that do not stop half way.
Fairness ==
    /\ WF_vars(Round)
    /\ WF_vars(BecomesDue) /\ WF_vars(LeaseExpires)
    /\ \A t \in Tellers : WF_vars(Notice(t))
    /\ WF_vars(AssignBinds)
FairSpec == Spec /\ Fairness

-----------------------------------------------------------------------------
(* Properties.                                                             *)

Generations == 0..(MaxEvents + 2)
Versions == 0..(MaxEvents + 1)
ActualStates == {"idle", "outside", "waiting", "recovering", "recording", "stopping"}

\* Every variable has its type.
TypeOK ==
    /\ online \in BOOLEAN /\ lit \in BOOLEAN
    /\ telling \in [Tellers -> {"none", "on", "off"}]
    /\ marking \subseteq Tellers
    /\ mode \in {"off", "continuous", "scheduled"}
    /\ plan \in [enabled : BOOLEAN, version : Versions]
    /\ matched \in BOOLEAN
    /\ assigning \in [on : BOOLEAN, version : Versions, matched : BOOLEAN]
    /\ row \in [actual : ActualStates, desired : BOOLEAN, version : Versions, gen : Generations,
                due : BOOLEAN, leased : BOOLEAN]
    /\ gap \in BOOLEAN
    /\ work \in [pc : {"idle", "claimed", "starting", "stopping", "gap", "write"},
                 actual : ActualStates, version : Versions, gen : Generations,
                 next : ActualStates, desired : BOOLEAN, newVersion : Versions,
                 gap : {"keep", "open", "close"}]
    /\ live \in Generations /\ lastGen \in Generations
    /\ orphan \in BOOLEAN /\ watched \in BOOLEAN
    /\ active \in Generations /\ stale \in BOOLEAN /\ strayed \in BOOLEAN
    /\ events \in 0..MaxEvents

\* Live media is brought up anew only for something that happened outside: once for
\* the channel's mode, and once more at most for every edit, outage, failure, viewer or
\* restart since.  The engine does not stop a recording and start it again by itself,
\* whatever it reads late, loses to an edit or finds half done (state_machine.go
\* DecideReconcile, engine.go:379, orchestrator.go:80).  The process counts one
\* generation for each, after Bare.
StartsAreAsked == lastGen <= events + Bare + 1

Quiet == work.pc = "idle" /\ marking = {}

\* An edit of the plan is never overwritten by a round that was under way: the row
\* of a disabled plan is due, or says that no recording is desired.  Assign breaks
\* this when it binds the channel to a version that is over, until the next round
\* (repository.go UpdateStateCAS, engine.go:366, assignment.go:260).
PlanChangeIsSeen ==
    Scheduled /\ ~plan.enabled /\ ~stale /\ ~row.due => ~row.desired

\* Between rounds a row that says recording has the orchestrator's lease on its
\* source, and a row that is idle has none.  They lose sight of each other only by
\* a restart, by a round that could not write its row, and when a row leaves
\* "recording" without a stop because the device or the media went away
\* (orchestrator.go:80, state_machine.go:64).
SourceAccounted ==
    Quiet /\ ~strayed =>
        /\ row.actual = "recording" => active = row.gen /\ active # 0
        /\ row.actual \in {"idle", "outside", "waiting"} => active = 0

\* A disabled plan releases the stream it pulled (docs/releases/v1.1.15.md:23).
DisabledReleasesStream ==
    Scheduled /\ ~plan.enabled /\ Quiet /\ row.actual = "idle" /\ ~row.due =>
        active = 0 \/ live # active

\* A start can succeed: there is an entry to reuse, or a stream with a generation to
\* be had.
Startable == active # 0 \/ live > Bare \/ (live = 0 /\ ~orphan /\ online)

\* What the row should say once nothing changes any more.  Where no start can succeed
\* it is tried again for ever, and the row says recovering: over a device offline by
\* its own row, and over a stream without generation, until that ends, its readers
\* go or an edit of the plan stops it.  (A row that took such a stream for its
\* recording, because a stop had adopted it, keeps it.)  Of a row that says recording
\* it is not said that media flows: Start reuses an entry whose media is gone
\* (orchestrator.go:79), and every round opens and closes a gap.
Settled ==
    /\ Wanted /\ lit =>
        /\ row.desired
        /\ \/ row.actual = "recording" /\ (Startable \/ row.gen = Bare)
           \/ row.actual = "recovering" /\ ~Startable /\ gap
    /\ Wanted /\ ~lit => row.actual = "waiting" /\ row.desired /\ gap
    /\ ~Wanted => row.actual \in {"idle", "outside"} /\ ~row.desired /\ ~gap


===============================================================================
