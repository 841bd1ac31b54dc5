------------------------------ MODULE LiveMedia ------------------------------
(***************************************************************************)
(* The media of live play: what play.Service does between the coordinator    *)
(* and the outside while a channel is started, stopped, recovered after a     *)
(* restart and reconciled.  Four records of one stream have to agree: the     *)
(* generation in memory, its SSRC lease, the channel's database row and the   *)
(* RTP listener on a media node.                                            *)
(*                                                                         *)
(* Streams have fixed addresses (the default), so a stream is its channel;    *)
(* several media nodes, each listener with its own port.  The coordinator      *)
(* lets one start or stop of a channel run at a time (LiveLanes).  The        *)
(* reconciler and the recovery are one process, the janitor: the recovery     *)
(* has ended before the reconciler is started.  A call to a node or to the    *)
(* database fails at most MaxEvents times; so do restarts and lost answers.   *)
(***************************************************************************)
EXTENDS Naturals

CONSTANTS Channels, Ssrcs, Nodes, None, Janitor, MaxEvents

ASSUME EventAssumption == MaxEvents \in Nat
ASSUME NoneAssumption == None \notin Ssrcs \cup Nodes
ASSUME JanitorAssumption == Janitor \notin Channels

VARIABLES
    at,         \* at[c]: where the channel's generation is
    ssrc,       \* ssrc[c]: the SSRC its start works with: the row's, then its own
    node,       \* node[c]: the media node of the generation
    leased,     \* SSRCs the allocator has given away
    loc,        \* loc[c]: the location map's entry: SSRC and node
    row,        \* row[c]: current_ssrc of gb_channel, None when it does not play
    rtp,        \* rtp[n][c]: the stream on the node: shut, idle, flowing
    sweep,      \* sweep[a]: the clean-up of a stale row in hand
    todo,       \* rows the recovery has still to look at
    open,       \* the recovery has ended: starts may run, the reconciler too
    lost,       \* ghost: listeners whose opener did not hear of them, died, or was
                \* taken for one on another node
    astray,     \* ghost: SSRCs that were given back, or never taken, under a row
    events      \* failures so far

memory == <<at, ssrc, node, leased, loc>>
vars == <<at, ssrc, node, leased, loc, row, rtp, sweep, todo, open, lost, astray, events>>

Actors == Channels \cup {Janitor}
Holding == {"opening", "inviting", "waiting", "storing", "undoing", "settled",
            "live", "dirty", "endingLive", "endingDirty", "clearing"}
Points == {"absent", "probing", "cleaning", "acquiring"} \cup Holding

\* The generation of c that is in memory has SSRC s.
Holds(c, s) == at[c] \in Holding /\ ssrc[c] = s

Unbound == [ssrc |-> None, node |-> None]
Here(c) == [ssrc |-> ssrc[c], node |-> node[c]]
NoSweep == [stage |-> "idle", chan |-> None, ssrc |-> None]
InHand(s) == \E a \in Actors : sweep[a].stage # "idle" /\ sweep[a].ssrc = s

Online(n, c) == rtp[n][c] = "flowing"
Failure == events < MaxEvents /\ events' = events + 1
Fine == UNCHANGED events

Init ==
    /\ at = [c \in Channels |-> "absent"]
    /\ ssrc = [c \in Channels |-> None]
    /\ node = [c \in Channels |-> None]
    /\ leased = {}
    /\ loc = [c \in Channels |-> Unbound]
    /\ row = [c \in Channels |-> None]
    /\ rtp = [n \in Nodes |-> [c \in Channels |-> "shut"]]
    /\ sweep = [a \in Actors |-> NoSweep]
    /\ todo = {}
    /\ open = TRUE
    /\ lost = {}
    /\ astray = {}
    /\ events = 0

-----------------------------------------------------------------------------
(* Building blocks.                                                        *)

Goto(c, p) == at' = [at EXCEPT ![c] = p]

\* CloseRtpServer on some nodes.
Shut(ns, c) ==
    /\ rtp' = [n \in Nodes |-> IF n \in ns THEN [rtp[n] EXCEPT ![c] = "shut"] ELSE rtp[n]]
    /\ lost' = lost \ (ns \X {c})

\* LocationMap.UnbindIfCurrent
UnbindExact(c) == loc' = IF loc[c] = Here(c) THEN [loc EXCEPT ![c] = Unbound] ELSE loc

\* The generation is over: its location, then its SSRC (Release) go.
GiveBack(c) ==
    /\ UnbindExact(c)
    /\ leased' = leased \ {ssrc[c]}

\* A generation is found on node n: the stream's listeners elsewhere are lost sight of.
FoundOn(c, n) ==
    /\ node' = [node EXCEPT ![c] = n]
    /\ lost' = lost \cup {<<m, c>> : m \in {k \in Nodes \ {n} : rtp[k][c] # "shut"}}

-----------------------------------------------------------------------------
(* StopIfPersistedCurrent (recovery.go): a clean-up of a row that names no    *)
(* running stream.  A start calls it for its own channel, the janitor for     *)
(* any.                                                                    *)

\* The sweep of a start has ended: the start goes on, or fails.
SweepEnds(a, ok) ==
    /\ sweep' = [sweep EXCEPT ![a] = NoSweep]
    /\ at' = IF a = Janitor THEN at ELSE [at EXCEPT ![a] = IF ok THEN "acquiring" ELSE "absent"]
    /\ astray' = IF ok \/ sweep[a].ssrc \in leased THEN astray ELSE astray \cup {sweep[a].ssrc}

\* The row names another generation, or none: nothing to do.
SweepVoid(a) ==
    LET c == sweep[a].chan IN
    /\ sweep[a].stage = "look"
    /\ \/ row[c] # sweep[a].ssrc
       \/ at[c] = "live" /\ ssrc[c] # sweep[a].ssrc
    /\ SweepEnds(a, TRUE)
    /\ UNCHANGED <<ssrc, node, leased, loc, row, rtp, todo, open, lost, events>>

\* The generation of the row is in memory: it is stopped through its lane.
SweepStops(a) ==
    LET c == sweep[a].chan IN
    /\ sweep[a].stage = "look"
    /\ row[c] = sweep[a].ssrc
    /\ ssrc[c] = sweep[a].ssrc
    /\ at[c] \in {"live", "dirty"}
    /\ Goto(c, IF at[c] = "live" THEN "endingLive" ELSE "endingDirty")
    /\ sweep' = [sweep EXCEPT ![a] = NoSweep]
    /\ UNCHANGED <<ssrc, node, leased, loc, row, rtp, todo, open, lost, astray, events>>

\* No generation to stop: the clean-up does it by itself, whatever the lane does.
SweepAround(a) ==
    LET c == sweep[a].chan
        s == sweep[a].ssrc IN
    /\ sweep[a].stage = "look"
    /\ row[c] = s
    /\ at[c] # "live"
    /\ ~(at[c] = "dirty" /\ ssrc[c] = s)
    /\ sweep' = [sweep EXCEPT ![a].stage = "close"]
    /\ astray' = IF a = Janitor /\ at[c] # "absent" THEN astray \cup {s} ELSE astray
    /\ UNCHANGED <<memory, row, rtp, todo, open, lost, events>>

\* closePersistedRTP: every node is asked; one that does not answer fails it.
SweepCloses(a) ==
    LET c == sweep[a].chan IN
    /\ sweep[a].stage = "close"
    /\ \E failed \in SUBSET Nodes :
        /\ Shut(Nodes \ failed, c)
        /\ \/ /\ failed = {} /\ Fine
              /\ sweep' = [sweep EXCEPT ![a].stage = "clear"]
              /\ UNCHANGED <<at, astray>>
           \/ failed # {} /\ Failure /\ SweepEnds(a, FALSE)
    /\ UNCHANGED <<ssrc, node, leased, loc, row, todo, open>>

\* Seeded fault: the row is cleared by stream, whatever SSRC it has by now.
MutClears(a) ==
    LET c == sweep[a].chan
        s == sweep[a].ssrc IN
    /\ sweep[a].stage = "clear"
    /\ row' = [row EXCEPT ![c] = None]
    /\ loc' = IF loc[c].ssrc = s THEN [loc EXCEPT ![c] = Unbound] ELSE loc
    /\ leased' = leased \ {s}
    /\ SweepEnds(a, TRUE)
    /\ UNCHANGED <<ssrc, node, rtp, todo, open, lost, events>>

\* ClearIfCurrent; with the row go the stale location and the SSRC.
SweepClears(a) ==
    LET c == sweep[a].chan
        s == sweep[a].ssrc IN
    /\ sweep[a].stage = "clear"
    /\ \/ /\ row[c] = s /\ Fine
          /\ row' = [row EXCEPT ![c] = None]
          /\ loc' = IF loc[c].ssrc = s THEN [loc EXCEPT ![c] = Unbound] ELSE loc
          /\ leased' = leased \ {s}
          /\ SweepEnds(a, TRUE)
       \/ /\ row[c] # s /\ Fine
          /\ SweepEnds(a, TRUE)
          /\ UNCHANGED <<row, loc, leased>>
       \/ /\ Failure
          /\ SweepEnds(a, FALSE)
          /\ UNCHANGED <<row, loc, leased>>
    /\ UNCHANGED <<ssrc, node, rtp, todo, open, lost>>

-----------------------------------------------------------------------------
(* startDirectTransaction (service.go).                                    *)

\* The channel is read; a row asks for a probe before anything else.
Begin(c) ==
    /\ open
    /\ at[c] = "absent"
    /\ Goto(c, IF row[c] = None THEN "acquiring" ELSE "probing")
    /\ ssrc' = [ssrc EXCEPT ![c] = row[c]]
    /\ UNCHANGED <<node, leased, loc, row, rtp, sweep, todo, open, lost, astray, events>>

\* tryReuseStream: the bound node is asked, without one every node in turn.
Reuse(c) ==
    /\ at[c] = "probing"
    /\ \E n \in Nodes :
        /\ Online(n, c)
        /\ loc[c].node \in {None, n}
        /\ FoundOn(c, n)
        /\ loc' = IF loc[c] = Unbound THEN [loc EXCEPT ![c].node = n] ELSE loc
    /\ Goto(c, "settled")
    /\ UNCHANGED <<ssrc, leased, row, rtp, sweep, todo, open, astray, events>>

\* Not online as far as the answers go; a node that does not answer counts as one without.
Unusable(c) ==
    LET asked == IF loc[c] = Unbound THEN Nodes ELSE {loc[c].node} IN
    /\ at[c] = "probing"
    /\ IF \E n \in asked : Online(n, c) THEN Failure ELSE Fine
    /\ Goto(c, "cleaning")
    /\ sweep' = [sweep EXCEPT ![c] = [stage |-> "look", chan |-> c, ssrc |-> ssrc[c]]]
    /\ UNCHANGED <<ssrc, node, leased, loc, row, rtp, todo, open, lost, astray>>

\* What RealtimeSSRCAllocator.Acquire may return: the code goes through its ten
\* thousand in turn, so one comes round some time after it was given back.
FreeSsrcs == Ssrcs \ leased

\* Acquire, Pick, BindCurrent.  An SSRC a clean-up has in hand is noted.
Acquire(c) ==
    /\ at[c] = "acquiring"
    /\ \E s \in FreeSsrcs, n \in Nodes :
        /\ leased' = leased \cup {s}
        /\ ssrc' = [ssrc EXCEPT ![c] = s]
        /\ node' = [node EXCEPT ![c] = n]
        /\ loc' = [loc EXCEPT ![c] = [ssrc |-> s, node |-> n]]
        /\ astray' = IF InHand(s) THEN astray \cup {s} ELSE astray
    /\ Goto(c, "opening")
    /\ UNCHANGED <<row, rtp, sweep, todo, open, lost, events>>

\* ErrSSRCExhausted, or no media node is to be had and the SSRC is given back.
Unplaced(c) ==
    /\ at[c] = "acquiring"
    /\ (FreeSsrcs = {} /\ Fine) \/ Failure
    /\ Goto(c, "absent")
    /\ UNCHANGED <<ssrc, node, leased, loc, row, rtp, sweep, todo, open, lost, astray>>

OpenRtp(c) ==
    /\ at[c] = "opening"
    /\ rtp[node[c]][c] = "shut"
    /\ rtp' = [rtp EXCEPT ![node[c]][c] = "idle"]
    /\ Goto(c, "inviting")
    /\ UNCHANGED <<ssrc, node, leased, loc, row, sweep, todo, open, lost, astray, events>>

\* The node has the stream already, does not answer, or its answer is lost.
OpenFails(c) ==
    /\ at[c] = "opening"
    /\ \/ /\ rtp[node[c]][c] # "shut" /\ Fine
          /\ UNCHANGED <<rtp, lost>>
       \/ /\ Failure
          /\ UNCHANGED <<rtp, lost>>
       \/ /\ rtp[node[c]][c] = "shut" /\ Failure
          /\ rtp' = [rtp EXCEPT ![node[c]][c] = "idle"]
          /\ lost' = lost \cup {<<node[c], c>>}
    /\ GiveBack(c)
    /\ Goto(c, "absent")
    /\ UNCHANGED <<ssrc, node, row, sweep, todo, open, astray>>

\* The device answers the INVITE, or does not.  That the answer belongs to a start which
\* a newer one has overtaken (ErrStaleInviteGeneration, where nothing is rolled back and
\* the SSRC may be left leased for good) is left out: LiveLanes lets one start of a
\* channel run at a time.
Invite(c) ==
    /\ at[c] = "inviting"
    /\ \E p \in {"waiting", "undoing"} : Goto(c, p)
    /\ UNCHANGED <<ssrc, node, leased, loc, row, rtp, sweep, todo, open, lost, astray, events>>

\* WaitReady: the stream is online on this node and the map still says so.
Ready(c) ==
    /\ at[c] = "waiting"
    /\ loc[c] = Here(c)
    /\ Online(node[c], c)
    /\ Goto(c, "storing")
    /\ UNCHANGED <<ssrc, node, leased, loc, row, rtp, sweep, todo, open, lost, astray, events>>

NotReady(c) ==
    /\ at[c] = "waiting"
    /\ Goto(c, "undoing")
    /\ UNCHANGED <<ssrc, node, leased, loc, row, rtp, sweep, todo, open, lost, astray, events>>

\* SetCurrent
Store(c) ==
    /\ at[c] = "storing"
    /\ \/ Fine /\ row' = [row EXCEPT ![c] = ssrc[c]] /\ Goto(c, "settled")
       \/ Failure /\ Goto(c, "undoing") /\ UNCHANGED row
    /\ UNCHANGED <<ssrc, node, leased, loc, rtp, sweep, todo, open, lost, astray>>

\* The coordinator publishes the generation.
Publish(c) ==
    /\ at[c] = "settled"
    /\ Goto(c, "live")
    /\ UNCHANGED <<ssrc, node, leased, loc, row, rtp, sweep, todo, open, lost, astray, events>>

\* rollbackFailedStart, listener closed: location and SSRC go, the start has failed.
Undo(c) ==
    /\ at[c] = "undoing"
    /\ Shut({node[c]}, c)
    /\ GiveBack(c)
    /\ Goto(c, "absent")
    /\ UNCHANGED <<ssrc, node, row, sweep, todo, open, astray, events>>

\* Seeded fault: the SSRC is given back although the listener may still be there.
MutUndoReleases(c) ==
    /\ at[c] = "undoing"
    /\ Failure
    /\ row' = [row EXCEPT ![c] = ssrc[c]]
    /\ leased' = leased \ {ssrc[c]}
    /\ Goto(c, "dirty")
    /\ UNCHANGED <<ssrc, node, loc, rtp, sweep, todo, open, lost, astray>>

\* Seeded fault: a compensation that failed is taken for done.
MutUndoForgets(c) ==
    /\ at[c] = "undoing"
    /\ Failure
    /\ GiveBack(c)
    /\ Goto(c, "absent")
    /\ UNCHANGED <<ssrc, node, row, rtp, sweep, todo, open, lost, astray>>

\* It could not be closed: the SSRC is kept, the row written, a stop left to do.
UndoFails(c) ==
    /\ at[c] = "undoing"
    /\ \/ events < MaxEvents /\ events' = events + 1 /\ row' = [row EXCEPT ![c] = ssrc[c]]
       \/ events + 1 < MaxEvents /\ events' = events + 2 /\ UNCHANGED row
    /\ Goto(c, "dirty")
    /\ UNCHANGED <<ssrc, node, leased, loc, rtp, sweep, todo, open, lost, astray>>

-----------------------------------------------------------------------------
(* stopCurrentResult (recovery.go).                                        *)

\* Somebody stops the channel, or the coordinator retries a failed compensation.
StopRequested(c) ==
    /\ at[c] \in {"live", "dirty"}
    /\ Goto(c, IF at[c] = "live" THEN "endingLive" ELSE "endingDirty")
    /\ UNCHANGED <<ssrc, node, leased, loc, row, rtp, sweep, todo, open, lost, astray, events>>

StopCloses(c) ==
    /\ at[c] \in {"endingLive", "endingDirty"}
    /\ Shut({node[c]}, c)
    /\ GiveBack(c)
    /\ Goto(c, "clearing")
    /\ UNCHANGED <<ssrc, node, row, sweep, todo, open, astray, events>>

StopFails(c) ==
    /\ at[c] \in {"endingLive", "endingDirty"}
    /\ Failure
    /\ Goto(c, IF at[c] = "endingLive" THEN "live" ELSE "dirty")
    /\ UNCHANGED <<ssrc, node, leased, loc, row, rtp, sweep, todo, open, lost, astray>>

\* The row comes last; the generation is gone whether or not it could be cleared.
StopClears(c) ==
    /\ at[c] = "clearing"
    /\ \/ /\ Fine
          /\ row' = IF row[c] = ssrc[c] THEN [row EXCEPT ![c] = None] ELSE row
          /\ UNCHANGED astray
       \/ /\ Failure
          /\ astray' = astray \cup {ssrc[c]}
          /\ UNCHANGED row
    /\ Goto(c, "absent")
    /\ UNCHANGED <<ssrc, node, leased, loc, rtp, sweep, todo, open, lost>>

-----------------------------------------------------------------------------
(* The reconciler (play/reconciler).                                       *)

\* runOnce lists the rows, and comes to this one.
List(c) ==
    /\ open
    /\ sweep[Janitor].stage = "idle"
    /\ row[c] # None
    /\ sweep' = [sweep EXCEPT ![Janitor] = [stage |-> "judge", chan |-> c, ssrc |-> row[c]]]
    /\ UNCHANGED <<memory, row, rtp, todo, open, lost, astray, events>>

\* Seeded fault: only a node the location map names is asked.
MutJudge ==
    LET c == sweep[Janitor].chan IN
    /\ sweep[Janitor].stage = "judge"
    /\ sweep' = IF loc[c].node # None /\ ~Online(loc[c].node, c)
                   THEN [sweep EXCEPT ![Janitor].stage = "look"]
                   ELSE [sweep EXCEPT ![Janitor] = NoSweep]
    /\ UNCHANGED <<memory, row, rtp, todo, open, lost, astray, events>>

\* judgeOne, judgeAcrossAllNodes: nodes that do not answer are passed over.
Judge ==
    LET c == sweep[Janitor].chan
        asked == IF loc[c] = Unbound THEN Nodes ELSE {loc[c].node} IN
    /\ sweep[Janitor].stage = "judge"
    /\ \E silent \in SUBSET asked :
        /\ IF silent = {} THEN Fine ELSE Failure
        /\ \/ /\ silent # asked
              /\ \A n \in asked \ silent : ~Online(n, c)
              /\ sweep' = [sweep EXCEPT ![Janitor].stage = "look"]
           \/ /\ silent = asked \/ \E n \in asked \ silent : Online(n, c)
              /\ sweep' = [sweep EXCEPT ![Janitor] = NoSweep]
    /\ UNCHANGED <<memory, row, rtp, todo, open, lost, astray>>

-----------------------------------------------------------------------------
(* A restart, and RecoverLiveSessions (recovery.go).                       *)

Crash ==
    /\ Failure
    /\ lost' = lost \cup {l \in Nodes \X Channels : rtp[l[1]][l[2]] # "shut" /\ row[l[2]] = None}
    /\ at' = [c \in Channels |-> "absent"]
    /\ leased' = {}
    /\ loc' = [c \in Channels |-> Unbound]
    /\ sweep' = [a \in Actors |-> NoSweep]
    /\ todo' = {c \in Channels : row[c] # None}
    /\ open' = FALSE
    \* A stop that had given the SSRC back had not cleared its row yet.
    /\ astray' = astray \cup {ssrc[c] : c \in {d \in Channels : at[d] = "clearing" /\ row[d] # None}}
    /\ UNCHANGED <<ssrc, node, row, rtp>>

\* The stream is online on one node: its generation is restored if the SSRC is free.
Restore(c) ==
    /\ c \in todo /\ sweep[Janitor].stage = "idle"
    /\ row[c] \notin leased
    /\ \E n \in Nodes :
        /\ \A m \in Nodes : Online(m, c) <=> m = n
        /\ FoundOn(c, n)
        /\ loc' = [loc EXCEPT ![c] = [ssrc |-> row[c], node |-> n]]
    /\ ssrc' = [ssrc EXCEPT ![c] = row[c]]
    /\ leased' = leased \cup {row[c]}
    /\ Goto(c, "live")
    /\ todo' = todo \ {c}
    /\ UNCHANGED <<row, rtp, sweep, open, astray, events>>

\* It is online nowhere: the row is cleaned up.
RecoverySweeps(c) ==
    /\ c \in todo /\ sweep[Janitor].stage = "idle"
    /\ \A n \in Nodes : ~Online(n, c)
    /\ sweep' = [sweep EXCEPT ![Janitor] = [stage |-> "look", chan |-> c, ssrc |-> row[c]]]
    /\ todo' = todo \ {c}
    /\ UNCHANGED <<memory, row, rtp, open, lost, astray, events>>

\* A probe failed, two nodes have the stream, or its SSRC is taken: the row stays as it is.
GiveUp(c) ==
    /\ c \in todo /\ sweep[Janitor].stage = "idle"
    /\ \/ Failure
       \/ Fine /\ \E n \in Nodes : Online(n, c) /\ (row[c] \in leased \/ \E m \in Nodes \ {n} : Online(m, c))
    /\ astray' = astray \cup {row[c]}
    /\ todo' = todo \ {c}
    /\ UNCHANGED <<memory, row, rtp, sweep, open, lost>>

FinishRecovery ==
    /\ ~open
    /\ todo = {}
    /\ sweep[Janitor].stage = "idle"
    /\ open' = TRUE
    /\ UNCHANGED <<memory, row, rtp, sweep, todo, lost, astray, events>>

-----------------------------------------------------------------------------
(* The media nodes and the devices.                                        *)

MediaArrives(c) ==
    /\ at[c] = "waiting"
    /\ rtp[node[c]][c] = "idle"
    /\ rtp' = [rtp EXCEPT ![node[c]][c] = "flowing"]
    /\ UNCHANGED <<memory, row, sweep, todo, open, lost, astray, events>>

MediaStops(n, c) ==
    /\ Online(n, c)
    /\ rtp' = [rtp EXCEPT ![n][c] = "idle"]
    /\ UNCHANGED <<memory, row, sweep, todo, open, lost, astray, events>>

\* The node closes a listener that has received nothing for a while.
IdleClosed(n, c) ==
    /\ rtp[n][c] = "idle"
    /\ Shut({n}, c)
    /\ UNCHANGED <<memory, row, sweep, todo, open, astray, events>>

-----------------------------------------------------------------------------
Sweeping(a) == SweepVoid(a) \/ SweepStops(a) \/ SweepAround(a) \/ SweepCloses(a) \/ SweepClears(a)

Starting(c) ==
    \/ Reuse(c) \/ Unusable(c) \/ Acquire(c) \/ Unplaced(c) \/ OpenRtp(c) \/ OpenFails(c)
    \/ Invite(c) \/ Ready(c) \/ NotReady(c) \/ Store(c) \/ Publish(c) \/ Undo(c) \/ UndoFails(c)

Stopping(c) == StopCloses(c) \/ StopFails(c) \/ StopClears(c)

Recovering(c) == Restore(c) \/ RecoverySweeps(c) \/ GiveUp(c)

Next ==
    \/ \E c \in Channels : Begin(c) \/ Starting(c) \/ StopRequested(c) \/ Stopping(c)
                              \/ List(c) \/ Recovering(c) \/ MediaArrives(c)
    \/ \E a \in Actors : Sweeping(a)
    \/ \E n \in Nodes, c \in Channels : MediaStops(n, c) \/ IdleClosed(n, c)
    \/ Judge \/ Crash \/ FinishRecovery

Spec == Init /\ [][Next]_vars

\* Goroutines go on, and a round of the reconciler comes to every row.
FairSpec ==
    /\ Spec
    /\ \A c \in Channels : WF_vars(Starting(c)) /\ WF_vars(Stopping(c)) /\ SF_vars(List(c))
                              /\ WF_vars(Recovering(c))
    /\ \A a \in Actors : WF_vars(Sweeping(a))
    /\ WF_vars(Judge) /\ WF_vars(FinishRecovery)

-----------------------------------------------------------------------------
TypeOK ==
    /\ at \in [Channels -> Points]
    /\ ssrc \in [Channels -> Ssrcs \cup {None}]
    /\ node \in [Channels -> Nodes \cup {None}]
    /\ leased \subseteq Ssrcs
    /\ loc \in [Channels -> [ssrc : Ssrcs \cup {None}, node : Nodes \cup {None}]]
    /\ row \in [Channels -> Ssrcs \cup {None}]
    /\ rtp \in [Nodes -> [Channels -> {"shut", "idle", "flowing"}]]
    /\ sweep \in [Actors -> [stage : {"idle", "judge", "look", "close", "clear"},
                             chan : Channels \cup {None}, ssrc : Ssrcs \cup {None}]]
    /\ todo \subseteq Channels
    /\ open \in BOOLEAN
    /\ lost \subseteq Nodes \X Channels
    /\ astray \subseteq Ssrcs
    /\ events \in 0..MaxEvents

\* A generation works with its SSRC from Acquire until its listener is closed.
InUse(c) == at[c] \in Holding \ {"clearing"}

OneUser ==
    \A c \in Channels : InUse(c) /\ ssrc[c] \notin astray =>
        /\ ssrc[c] \in leased
        /\ \A d \in Channels \ {c} : ~(InUse(d) /\ ssrc[d] = ssrc[c])

NoLeak == \A s \in leased : \E c \in Channels : InUse(c) /\ ssrc[c] = s

\* Two streams never have one SSRC, and an SSRC in use is leased until its listener is
\* closed - unless its row lost it: see astray.  None stays leased without a user,
\* whatever fails (service.go:758, recovery.go:347).
SsrcHasOneUser == OneUser /\ NoLeak

\* A listener on a node has somebody to close it: a generation in memory, or a row for
\* the clean-ups to find.
ListenerAccounted ==
    \A n \in Nodes, c \in Channels : rtp[n][c] # "shut" =>
        \/ at[c] \in Holding /\ node[c] = n
        \/ row[c] # None
        \/ <<n, c>> \in lost

\* What plays has a row, so a restart finds it.
LiveHasRow ==
    \A c \in Channels : at[c] \in {"settled", "live"} /\ ssrc[c] \notin astray => row[c] = ssrc[c]

\* A row whose stream is nowhere and nobody's does not stay.
Stale(c) == row[c] # None /\ ~Holds(c, row[c]) /\ \A n \in Nodes : ~Online(n, c)
RowsSettle == \A c \in Channels : Stale(c) ~> ~Stale(c)
===============================================================================
