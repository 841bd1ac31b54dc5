---------------------------- MODULE LiveMediaProofs ----------------------------
(***************************************************************************)
(* Proofs about LiveMedia, for every set of channels, SSRCs and media nodes   *)
(* and every number of failures.  Control says where starts, clean-ups and    *)
(* the recovery can be; SsrcInv relates SSRC leases, generations and rows;    *)
(* Accounted follows the listeners on the nodes.                            *)
(***************************************************************************)
EXTENDS LiveMedia, TLAPS

Busy(a) == sweep[a].stage # "idle"
Working == Holding \cup {"probing", "cleaning"}
Placing == {"acquiring", "opening", "inviting", "waiting", "storing", "undoing"}

HasSsrc == \A c \in Channels : at[c] \in Working => ssrc[c] \in Ssrcs
HasNode == \A c \in Channels : at[c] \in Holding => node[c] \in Nodes

\* A start sweeps its own channel, the janitor any.
SweepOwn == \A c \in Channels :
    /\ Busy(c) <=> at[c] = "cleaning"
    /\ Busy(c) => sweep[c].chan = c /\ sweep[c].ssrc = ssrc[c] /\ sweep[c].stage # "judge"
SweepOf == Busy(Janitor) => sweep[Janitor].chan \in Channels /\ sweep[Janitor].ssrc \in Ssrcs

\* A channel with a generation has that generation's row, or none yet, or none any more.
RowOwn == \A c \in Channels :
    /\ at[c] # "absent" => row[c] \in {None, ssrc[c]}
    /\ at[c] \in Placing => row[c] = None

\* While the recovery is under way, no start is.
Closed == ~open =>
    /\ \A c \in Channels : at[c] \in {"absent", "live", "endingLive", "clearing"}
    /\ Busy(Janitor) => sweep[Janitor].stage # "judge" /\ at[sweep[Janitor].chan] = "absent"
Todo == \A c \in todo :
    ~open /\ at[c] = "absent" /\ row[c] # None /\ ~(Busy(Janitor) /\ sweep[Janitor].chan = c)

Control == HasSsrc /\ HasNode /\ SweepOwn /\ SweepOf /\ RowOwn /\ Closed /\ Todo

USE DEF Goto, Fine, Failure, memory

LEMMA ActorFacts == Janitor \in Actors /\ Janitor \notin Channels /\ \A c \in Channels : c \in Actors /\ c # Janitor
BY JanitorAssumption DEF Actors

LEMMA SweepFacts ==
    ASSUME TypeOK, Control, NEW a \in Actors, Busy(a)
    PROVE  /\ sweep[a].chan \in Channels /\ sweep[a].ssrc \in Ssrcs
           /\ a # Janitor => a \in Channels /\ sweep[a].chan = a /\ at[a] = "cleaning" /\ sweep[a].stage # "judge"
BY NoneAssumption DEF Actors, Control, HasSsrc, SweepOwn, SweepOf, Working

LEMMA EventType == ASSUME TypeOK, Fine \/ Failure PROVE events' \in 0..MaxEvents
BY EventAssumption DEF TypeOK

LEMMA ShutType ==
    ASSUME TypeOK, NEW ns, NEW c \in Channels, Shut(ns, c)
    PROVE  /\ rtp' \in [Nodes -> [Channels -> {"shut", "idle", "flowing"}]]
           /\ lost' \subseteq Nodes \X Channels
BY DEF TypeOK, Shut

LEMMA GiveBackType ==
    ASSUME TypeOK, NEW c \in Channels, GiveBack(c)
    PROVE  /\ loc' \in [Channels -> [ssrc : Ssrcs \cup {None}, node : Nodes \cup {None}]]
           /\ leased' \subseteq Ssrcs
BY DEF TypeOK, GiveBack, UnbindExact, Here, Unbound

LEMMA SweepEndsType ==
    ASSUME TypeOK, Control, NEW a \in Actors, Busy(a), SweepEnds(a, TRUE) \/ SweepEnds(a, FALSE)
    PROVE  /\ at' \in [Channels -> Points]
           /\ sweep' \in [Actors -> [stage : {"idle", "judge", "look", "close", "clear"},
                                     chan : Channels \cup {None}, ssrc : Ssrcs \cup {None}]]
           /\ astray' \subseteq Ssrcs
<1>1. /\ sweep[a].ssrc \in Ssrcs
      /\ a # Janitor => a \in Channels
  BY SweepFacts
<1>2. astray' \subseteq Ssrcs
  BY <1>1 DEF TypeOK, SweepEnds
<1>3. sweep' = [sweep EXCEPT ![a] = NoSweep]
  BY DEF SweepEnds
<1>4. sweep' \in [Actors -> [stage : {"idle", "judge", "look", "close", "clear"},
                            chan : Channels \cup {None}, ssrc : Ssrcs \cup {None}]]
  BY <1>3 DEF TypeOK, NoSweep
<1>5. \/ at' = at
      \/ at' = [at EXCEPT ![a] = "acquiring"]
      \/ at' = [at EXCEPT ![a] = "absent"]
  BY DEF SweepEnds
<1>6. at' \in [Channels -> Points]
  BY <1>5 DEF TypeOK, Points
<1> QED BY <1>2, <1>4, <1>6

LEMMA TypeStep == ASSUME TypeOK, Control, Next PROVE TypeOK'
<1>1. ASSUME NEW c \in Channels, Begin(c) PROVE TypeOK'
  BY <1>1 DEF Begin, TypeOK, Points
<1>2. ASSUME NEW c \in Channels, Reuse(c) PROVE TypeOK'
  BY <1>2, ActorFacts
     DEF Reuse, FoundOn, TypeOK, Points, Holding, Control, HasSsrc, Todo, Working, Busy
<1>3. ASSUME NEW c \in Channels, Unusable(c) PROVE TypeOK'
  BY <1>3, ActorFacts, EventAssumption DEF Unusable, TypeOK, Points
<1>4. ASSUME NEW c \in Channels, Acquire(c) PROVE TypeOK'
  BY <1>4 DEF Acquire, FreeSsrcs, TypeOK, Points, Holding
<1>5. ASSUME NEW c \in Channels, Unplaced(c) PROVE TypeOK'
  BY <1>5, EventAssumption DEF Unplaced, TypeOK, Points
<1>6. ASSUME NEW c \in Channels, OpenRtp(c) PROVE TypeOK'
  BY <1>6, ActorFacts, EventAssumption
     DEF OpenRtp, TypeOK, Points, Holding, Control, HasSsrc, Todo, Working, Busy
<1>7. ASSUME NEW c \in Channels, OpenFails(c) PROVE TypeOK'
  <2>1. /\ at' \in [Channels -> Points] /\ loc' \in [Channels -> [ssrc : Ssrcs \cup {None}, node : Nodes \cup {None}]]
        /\ leased' \subseteq Ssrcs /\ events' \in 0..MaxEvents
    BY <1>7, EventType, GiveBackType DEF OpenFails, TypeOK, Points
  <2>2. node[c] \in Nodes
    BY <1>7 DEF OpenFails, Control, HasNode, Holding
  <2>3. /\ rtp' \in {rtp, [rtp EXCEPT ![node[c]][c] = "idle"]}
        /\ lost' \in {lost, lost \cup {<<node[c], c>>}}
    BY <1>7 DEF OpenFails
  <2>4. rtp' \in [Nodes -> [Channels -> {"shut", "idle", "flowing"}]]
    <3> DEFINE n == node[c]
    <3>1. n \in Nodes /\ (rtp' = rtp \/ rtp' = [rtp EXCEPT ![n][c] = "idle"])
      BY <2>2, <2>3
    <3> HIDE DEF n
    <3>2. CASE rtp' = rtp
      BY <3>2 DEF TypeOK
    <3>3. CASE rtp' = [rtp EXCEPT ![n][c] = "idle"]
      BY <3>1, <3>3 DEF TypeOK
    <3> QED BY <3>1, <3>2, <3>3
  <2>5. lost' \subseteq Nodes \X Channels
    BY <2>2, <2>3 DEF TypeOK
  <2> QED BY <1>7, <2>1, <2>4, <2>5 DEF OpenFails, TypeOK
<1>8. ASSUME NEW c \in Channels, Invite(c) PROVE TypeOK'
  BY <1>8 DEF Invite, TypeOK, Points, Holding
<1>9. ASSUME NEW c \in Channels, Ready(c) PROVE TypeOK'
  BY <1>9 DEF Ready, TypeOK, Points, Holding
<1>10. ASSUME NEW c \in Channels, NotReady(c) PROVE TypeOK'
  BY <1>10 DEF NotReady, TypeOK, Points, Holding
<1>11. ASSUME NEW c \in Channels, Store(c) PROVE TypeOK'
  <2>1. row' \in [Channels -> Ssrcs \cup {None}] /\ at' \in [Channels -> Points]
    BY <1>11 DEF Store, TypeOK, Points, Holding
  <2>2. events' \in 0..MaxEvents
    BY <1>11, EventAssumption DEF Store, TypeOK
  <2> QED BY <1>11, <2>1, <2>2 DEF Store, TypeOK
<1>12. ASSUME NEW c \in Channels, Publish(c) PROVE TypeOK'
  BY <1>12 DEF Publish, TypeOK, Points, Holding
<1>13. ASSUME NEW c \in Channels, Undo(c) PROVE TypeOK'
  BY <1>13 DEF Undo, Shut, GiveBack, UnbindExact, Unbound, TypeOK, Points
<1>14. ASSUME NEW c \in Channels, UndoFails(c) PROVE TypeOK'
  <2>1. row' \in [Channels -> Ssrcs \cup {None}] /\ at' \in [Channels -> Points]
    BY <1>14 DEF UndoFails, TypeOK, Points, Holding
  <2>2. events' \in 0..MaxEvents
    BY <1>14, EventAssumption DEF UndoFails, TypeOK
  <2> QED BY <1>14, <2>1, <2>2 DEF UndoFails, TypeOK
<1>15. ASSUME NEW c \in Channels, StopRequested(c) PROVE TypeOK'
  BY <1>15 DEF StopRequested, TypeOK, Points, Holding
<1>16. ASSUME NEW c \in Channels, StopCloses(c) PROVE TypeOK'
  BY <1>16 DEF StopCloses, Shut, GiveBack, UnbindExact, Unbound, TypeOK, Points, Holding
<1>17. ASSUME NEW c \in Channels, StopFails(c) PROVE TypeOK'
  BY <1>17, EventAssumption DEF StopFails, TypeOK, Points, Holding
<1>18. ASSUME NEW c \in Channels, StopClears(c) PROVE TypeOK'
  <2>1. events' \in 0..MaxEvents
    BY <1>18, EventType DEF StopClears
  <2>2. ssrc[c] \in Ssrcs
    BY <1>18 DEF StopClears, Control, HasSsrc, Working, Holding
  <2>3. row' \in [Channels -> Ssrcs \cup {None}] /\ astray' \subseteq Ssrcs
    BY <1>18, <2>2 DEF StopClears, TypeOK
  <2>4. at' \in [Channels -> Points]
    BY <1>18 DEF StopClears, TypeOK, Points
  <2> QED BY <1>18, <2>1, <2>3, <2>4 DEF StopClears, TypeOK
<1>19. ASSUME NEW c \in Channels, List(c) PROVE TypeOK'
  BY <1>19, ActorFacts DEF List, TypeOK
<1>20. ASSUME NEW c \in Channels, Restore(c) PROVE TypeOK'
  BY <1>20 DEF Restore, FoundOn, TypeOK, Points, Holding, Control, Todo
<1>21. ASSUME NEW c \in Channels, RecoverySweeps(c) PROVE TypeOK'
  BY <1>21, ActorFacts DEF RecoverySweeps, TypeOK
<1>22. ASSUME NEW c \in Channels, GiveUp(c) PROVE TypeOK'
  BY <1>22, EventAssumption DEF GiveUp, TypeOK, Control, Todo
<1>23. ASSUME NEW c \in Channels, MediaArrives(c) PROVE TypeOK'
  BY <1>23, ActorFacts, EventAssumption
     DEF MediaArrives, TypeOK, Points, Holding, Control, HasSsrc, Todo, Working, Busy
<1>24. ASSUME NEW a \in Actors, SweepVoid(a) PROVE TypeOK'
  BY <1>24, SweepFacts DEF SweepVoid, SweepEnds, NoSweep, TypeOK, Points, Busy
<1>25. ASSUME NEW a \in Actors, SweepStops(a) PROVE TypeOK'
  BY <1>25, SweepFacts DEF SweepStops, NoSweep, TypeOK, Points, Holding, Busy
<1>26. ASSUME NEW a \in Actors, SweepAround(a) PROVE TypeOK'
  <2>1. Busy(a)
    BY <1>26 DEF SweepAround, Busy
  <2>2. astray' \subseteq Ssrcs
    BY <1>26, <2>1, SweepFacts DEF SweepAround, TypeOK
  <2>3. sweep' \in [Actors -> [stage : {"idle", "judge", "look", "close", "clear"},
                           chan : Channels \cup {None}, ssrc : Ssrcs \cup {None}]]
    BY <1>26 DEF SweepAround, TypeOK
  <2> QED BY <1>26, <2>2, <2>3 DEF SweepAround, TypeOK
<1>27. ASSUME NEW a \in Actors, SweepCloses(a) PROVE TypeOK'
  <2>1. Busy(a) /\ sweep[a].chan \in Channels
    BY <1>27, SweepFacts DEF SweepCloses, Busy
  <2>2. PICK failed \in SUBSET Nodes :
        /\ Shut(Nodes \ failed, sweep[a].chan)
        /\ \/ /\ Fine
              /\ sweep' = [sweep EXCEPT ![a].stage = "clear"]
              /\ UNCHANGED <<at, astray>>
           \/ Failure /\ SweepEnds(a, FALSE)
    BY <1>27 DEF SweepCloses
  <2>3. rtp' \in [Nodes -> [Channels -> {"shut", "idle", "flowing"}]] /\ lost' \subseteq Nodes \X Channels
    BY <2>1, <2>2, ShutType
  <2>4. events' \in 0..MaxEvents
    BY <2>2, EventType
  <2>5. /\ at' \in [Channels -> Points] /\ astray' \subseteq Ssrcs
        /\ sweep' \in [Actors -> [stage : {"idle", "judge", "look", "close", "clear"},
                                  chan : Channels \cup {None}, ssrc : Ssrcs \cup {None}]]
    <3>1. CASE sweep' = [sweep EXCEPT ![a].stage = "clear"] /\ UNCHANGED <<at, astray>>
      BY <3>1 DEF TypeOK
    <3>2. CASE SweepEnds(a, FALSE)
      BY <2>1, <3>2, SweepEndsType
    <3> QED BY <2>2, <3>1, <3>2
  <2> QED BY <1>27, <2>3, <2>4, <2>5 DEF SweepCloses, TypeOK
<1>28. ASSUME NEW a \in Actors, SweepClears(a) PROVE TypeOK'
  <2>1. Busy(a) /\ sweep[a].chan \in Channels
    BY <1>28, SweepFacts DEF SweepClears, Busy
  <2>2. SweepEnds(a, TRUE) \/ SweepEnds(a, FALSE)
    BY <1>28 DEF SweepClears
  <2>3. events' \in 0..MaxEvents
    BY <1>28, EventType DEF SweepClears
  <2>4. /\ row' \in [Channels -> Ssrcs \cup {None}] /\ leased' \subseteq Ssrcs
        /\ loc' \in [Channels -> [ssrc : Ssrcs \cup {None}, node : Nodes \cup {None}]]
    <3>1. \/ /\ row' = [row EXCEPT ![sweep[a].chan] = None] /\ leased' \subseteq leased
             /\ loc' = loc \/ loc' = [loc EXCEPT ![sweep[a].chan] = Unbound]
          \/ UNCHANGED <<row, loc, leased>>
      BY <1>28 DEF SweepClears
    <3>2. loc' = loc \/ loc' = [loc EXCEPT ![sweep[a].chan] = Unbound]
      BY <3>1
    <3>3. loc' \in [Channels -> [ssrc : Ssrcs \cup {None}, node : Nodes \cup {None}]]
      BY <2>1, <3>2 DEF TypeOK, Unbound
    <3>4. row' \in [Channels -> Ssrcs \cup {None}] /\ leased' \subseteq Ssrcs
      BY <2>1, <3>1 DEF TypeOK
    <3> QED BY <3>3, <3>4
  <2>5. /\ at' \in [Channels -> Points] /\ astray' \subseteq Ssrcs
        /\ sweep' \in [Actors -> [stage : {"idle", "judge", "look", "close", "clear"},
                           chan : Channels \cup {None}, ssrc : Ssrcs \cup {None}]]
    BY <2>1, <2>2, SweepEndsType
  <2>6. UNCHANGED <<ssrc, node, rtp, todo, open, lost>>
    BY <1>28 DEF SweepClears
  <2>7. ssrc' = ssrc /\ node' = node /\ rtp' = rtp /\ todo' = todo /\ open' = open /\ lost' = lost
    BY <2>6
  <2> QED BY <2>7, <2>3, <2>4, <2>5, <2>6 DEF TypeOK
<1>29. ASSUME NEW n \in Nodes, NEW c \in Channels, MediaStops(n, c) PROVE TypeOK'
  BY <1>29 DEF MediaStops, TypeOK
<1>30. ASSUME NEW n \in Nodes, NEW c \in Channels, IdleClosed(n, c) PROVE TypeOK'
  BY <1>30 DEF IdleClosed, Shut, TypeOK
<1>31. ASSUME Judge PROVE TypeOK'
  <2>1. events' \in 0..MaxEvents
    BY <1>31, EventType DEF Judge
  <2>2. sweep' \in {[sweep EXCEPT ![Janitor].stage = "look"], [sweep EXCEPT ![Janitor] = NoSweep]}
    BY <1>31 DEF Judge
  <2>3. [sweep EXCEPT ![Janitor].stage = "look"] \in [Actors -> [stage : {"idle", "judge", "look", "close", "clear"},
                           chan : Channels \cup {None}, ssrc : Ssrcs \cup {None}]]
    BY ActorFacts DEF TypeOK
  <2>4. [sweep EXCEPT ![Janitor] = NoSweep] \in [Actors -> [stage : {"idle", "judge", "look", "close", "clear"},
                           chan : Channels \cup {None}, ssrc : Ssrcs \cup {None}]]
    BY ActorFacts DEF TypeOK, NoSweep
  <2>5. UNCHANGED <<memory, row, rtp, todo, open, lost, astray>>
    BY <1>31 DEF Judge
  <2> QED BY <2>1, <2>2, <2>3, <2>4, <2>5 DEF TypeOK
<1>32. ASSUME Crash PROVE TypeOK'
  <2>1. events' \in 0..MaxEvents /\ lost' \subseteq Nodes \X Channels
    BY <1>32, EventType DEF Crash, TypeOK
  <2>2. astray' \subseteq Ssrcs
    BY <1>32 DEF Crash, TypeOK, Control, HasSsrc, Working, Holding
  <2>3. loc' \in [Channels -> [ssrc : Ssrcs \cup {None}, node : Nodes \cup {None}]]
    BY <1>32 DEF Crash, Unbound
  <2>4. sweep' \in [Actors -> [stage : {"idle", "judge", "look", "close", "clear"},
                              chan : Channels \cup {None}, ssrc : Ssrcs \cup {None}]]
    BY <1>32 DEF Crash, NoSweep
  <2> QED BY <1>32, <2>1, <2>2, <2>3, <2>4 DEF Crash, TypeOK, Points
<1>33. ASSUME FinishRecovery PROVE TypeOK'
  BY <1>33 DEF FinishRecovery, TypeOK
<1> QED BY <1>1, <1>2, <1>3, <1>4, <1>5, <1>6, <1>7, <1>8, <1>9, <1>10, <1>11, <1>12, <1>13, <1>14,
     <1>15, <1>16, <1>17, <1>18, <1>19, <1>20, <1>21, <1>22, <1>23, <1>24, <1>25, <1>26, <1>27,
     <1>28, <1>29, <1>30, <1>31, <1>32, <1>33 DEF Next, Starting, Stopping, Recovering, Sweeping

LEMMA MoveKeepsControl ==
    ASSUME TypeOK, Control, NEW c \in Channels, NEW p \in Points, Goto(c, p),
           UNCHANGED <<ssrc, node, sweep, todo, open>>,
           row' \in [Channels -> Ssrcs \cup {None}],
           \A d \in Channels \ {c} : row'[d] = row[d],
           row'[c] \in {row[c], ssrc[c], None},
           at[c] \notin {"absent", "cleaning"}, p # "cleaning",
           p \in Working => at[c] \in Holding,
           p \in Placing => at[c] \in Placing /\ row' = row,
           ~open => p \in {"absent", "live", "endingLive", "clearing"}
    PROVE  Control'
<1>1. /\ at'[c] = p /\ \A d \in Channels \ {c} : at'[d] = at[d]
      /\ ssrc' = ssrc /\ node' = node /\ sweep' = sweep /\ todo' = todo /\ open' = open
  BY DEF TypeOK
<1>2. HasSsrc' /\ HasNode'
  BY <1>1 DEF Control, HasSsrc, HasNode, Working, Holding
<1>3. SweepOwn' /\ SweepOf'
  BY <1>1 DEF Control, SweepOwn, SweepOf, Busy
<1>4. RowOwn'
  BY <1>1 DEF Control, RowOwn, Placing
<1>5. Closed'
  BY <1>1, ActorFacts, SweepFacts DEF Control, Closed, Busy
<1>6. Todo'
  BY <1>1 DEF Control, Todo, Busy, TypeOK
<1> QED BY <1>2, <1>3, <1>4, <1>5, <1>6 DEF Control

LEMMA SweepEndKeepsControl ==
    ASSUME TypeOK, Control, NEW a \in Actors, Busy(a), SweepEnds(a, TRUE) \/ SweepEnds(a, FALSE),
           UNCHANGED <<ssrc, node, todo, open>>,
           row' = row \/ row' = [row EXCEPT ![sweep[a].chan] = None],
           a # Janitor /\ row'[a] # None => SweepEnds(a, FALSE)
    PROVE  Control'
<1> DEFINE k == sweep[a].chan
<1>1. /\ k \in Channels
      /\ a # Janitor => a \in Channels /\ k = a /\ at[a] = "cleaning"
  BY SweepFacts
<1>2. /\ \A d \in Channels \ {k} : row'[d] = row[d]
      /\ row'[k] \in {row[k], None}
  BY <1>1 DEF TypeOK
<1> HIDE DEF k
<1>3. /\ \A b \in Actors \ {a} : sweep'[b] = sweep[b]
      /\ sweep'[a] = NoSweep
  BY DEF SweepEnds, TypeOK
<1>4. ~Busy(a)' /\ \A b \in Actors \ {a} : Busy(b)' = Busy(b)
  BY <1>3 DEF Busy, NoSweep
<1>5. /\ \A d \in Channels \ {a} : at'[d] = at[d]
      /\ a # Janitor => at'[a] \in {"acquiring", "absent"}
      /\ \A d \in Channels : at'[d] # at[d] => at[d] = "cleaning" /\ at'[d] \in {"acquiring", "absent"}
  BY <1>1, ActorFacts DEF SweepEnds, TypeOK
<1>6. HasSsrc' /\ HasNode'
  BY <1>5 DEF Control, HasSsrc, HasNode, Working, Holding
<1>7. SweepOwn'
  BY <1>1, <1>3, <1>4, <1>5, ActorFacts DEF Control, SweepOwn
<1>8. SweepOf'
  BY <1>3, <1>4, ActorFacts DEF Control, SweepOf
<1>9. RowOwn'
  <2>1. ASSUME NEW d \in Channels, at'[d] \in Placing, at'[d] # at[d] PROVE row'[d] = None
    <3>1. d = a /\ at'[a] = "acquiring" /\ a # Janitor
      BY <1>5, <2>1, ActorFacts DEF Placing
    <3>2. ~SweepEnds(a, FALSE)
      BY <3>1, ActorFacts DEF SweepEnds, TypeOK
    <3> QED BY <3>1, <3>2
  <2> QED BY <1>2, <1>5, <2>1 DEF Control, RowOwn, Placing
<1>10. Closed'
  BY <1>1, <1>3, <1>4, <1>5, ActorFacts, SweepFacts DEF Control, Closed
<1>11. Todo'
  <2>1. ASSUME NEW d \in todo PROVE d # k /\ at'[d] = at[d]
    BY <1>1, <1>5, <2>1 DEF Control, Todo, k, TypeOK
  <2> QED BY <1>2, <1>3, <1>4, <2>1, ActorFacts DEF Control, Todo, TypeOK
<1> QED BY <1>6, <1>7, <1>8, <1>9, <1>10, <1>11 DEF Control

LEMMA ControlStep == ASSUME TypeOK, Control, Next, TypeOK' PROVE Control'
<1>1. ASSUME NEW c \in Channels, Begin(c) PROVE Control'
  BY <1>1
     DEF Begin, TypeOK, Control, HasSsrc, HasNode, SweepOwn, SweepOf, RowOwn, Placing, Closed, Todo,
         Working, Holding, Busy
<1>2. ASSUME NEW c \in Channels, Reuse(c) PROVE Control'
  BY <1>2
     DEF Reuse, FoundOn, TypeOK, Control, HasSsrc, HasNode, SweepOwn, SweepOf, RowOwn, Placing,
         Closed, Todo, Working, Busy
<1>3. ASSUME NEW c \in Channels, Unusable(c) PROVE Control'
  BY <1>3
     DEF Unusable, TypeOK, Control, HasSsrc, HasNode, SweepOwn, SweepOf, RowOwn, Placing, Closed,
         Todo, Working, Holding, Busy
<1>4. ASSUME NEW c \in Channels, Acquire(c) PROVE Control'
  <2>1. PICK s \in Ssrcs, n \in Nodes :
          ssrc' = [ssrc EXCEPT ![c] = s] /\ node' = [node EXCEPT ![c] = n]
    BY <1>4 DEF Acquire, FreeSsrcs
  <2>2. /\ at[c] = "acquiring" /\ at' = [at EXCEPT ![c] = "opening"]
        /\ row' = row /\ sweep' = sweep /\ todo' = todo /\ open' = open
    BY <1>4 DEF Acquire
  <2>3. row[c] = None
    BY <2>2 DEF Control, RowOwn, Placing
  <2>4. HasSsrc' /\ HasNode'
    BY <2>1, <2>2 DEF Control, HasSsrc, HasNode, TypeOK, Working, Holding
  <2>5. SweepOwn' /\ SweepOf'
    BY <2>1, <2>2 DEF Control, SweepOwn, SweepOf, TypeOK, Busy
  <2>6. RowOwn'
    BY <2>1, <2>2, <2>3 DEF Control, RowOwn, TypeOK, Placing
  <2>7. Closed' /\ Todo'
    BY <2>1, <2>2, ActorFacts DEF Control, Closed, Todo, TypeOK, Busy
  <2> QED BY <2>4, <2>5, <2>6, <2>7 DEF Control
<1>5. ASSUME NEW c \in Channels, Unplaced(c) PROVE Control'
  BY <1>5, MoveKeepsControl
     DEF Unplaced, FreeSsrcs, TypeOK, Points, Holding, Working, Placing, Control, Closed
<1>6. ASSUME NEW c \in Channels, OpenRtp(c) PROVE Control'
  BY <1>6, MoveKeepsControl DEF OpenRtp, TypeOK, Points, Holding, Working, Placing, Control, Closed
<1>7. ASSUME NEW c \in Channels, OpenFails(c) PROVE Control'
  BY <1>7, MoveKeepsControl
     DEF OpenFails, GiveBack, UnbindExact, Here, Unbound, TypeOK, Points, Holding, Working, Placing,
         Control, Closed
<1>8. ASSUME NEW c \in Channels, Invite(c) PROVE Control'
  BY <1>8, MoveKeepsControl DEF Invite, TypeOK, Points, Holding, Working, Placing, Control, Closed
<1>9. ASSUME NEW c \in Channels, Ready(c) PROVE Control'
  BY <1>9, MoveKeepsControl DEF Ready, TypeOK, Points, Holding, Working, Placing, Control, Closed
<1>10. ASSUME NEW c \in Channels, NotReady(c) PROVE Control'
  BY <1>10, MoveKeepsControl
     DEF NotReady, TypeOK, Points, Holding, Working, Placing, Control, Closed
<1>11. ASSUME NEW c \in Channels, Store(c) PROVE Control'
  <2>1. \/ row' = row /\ Goto(c, "undoing")
        \/ row' = [row EXCEPT ![c] = ssrc[c]] /\ Goto(c, "settled")
    BY <1>11 DEF Store
  <2>2. at[c] = "storing" /\ UNCHANGED <<ssrc, node, sweep, todo, open>> /\ open
    BY <1>11 DEF Store, Control, Closed
  <2>3. row' \in [Channels -> Ssrcs \cup {None}]
    BY DEF TypeOK
  <2>4. CASE row' = row /\ Goto(c, "undoing")
    BY <2>2, <2>3, <2>4, MoveKeepsControl DEF TypeOK, Points, Holding, Placing
  <2>5. CASE row' = [row EXCEPT ![c] = ssrc[c]] /\ Goto(c, "settled")
    <3>1. row'[c] = ssrc[c] /\ \A d \in Channels \ {c} : row'[d] = row[d]
      BY <2>5 DEF TypeOK
    <3> QED BY <2>2, <2>3, <2>5, <3>1, MoveKeepsControl DEF Points, Holding, Placing
  <2> QED BY <2>1, <2>4, <2>5
<1>12. ASSUME NEW c \in Channels, Publish(c) PROVE Control'
  BY <1>12, MoveKeepsControl DEF Publish, TypeOK, Points, Holding, Working, Placing, Control, Closed
<1>13. ASSUME NEW c \in Channels, Undo(c) PROVE Control'
  BY <1>13, MoveKeepsControl
     DEF Undo, Shut, GiveBack, UnbindExact, Here, Unbound, TypeOK, Points, Holding, Working,
         Placing, Control, Closed
<1>14. ASSUME NEW c \in Channels, UndoFails(c) PROVE Control'
  BY <1>14, MoveKeepsControl
     DEF UndoFails, TypeOK, Points, Holding, Working, Placing, Control, Closed
<1>15. ASSUME NEW c \in Channels, StopRequested(c) PROVE Control'
  BY <1>15, MoveKeepsControl
     DEF StopRequested, TypeOK, Points, Holding, Working, Placing, Control, Closed
<1>16. ASSUME NEW c \in Channels, StopCloses(c) PROVE Control'
  BY <1>16, MoveKeepsControl
     DEF StopCloses, Shut, GiveBack, UnbindExact, Here, Unbound, TypeOK, Points, Holding, Working,
         Placing, Control, Closed
<1>17. ASSUME NEW c \in Channels, StopFails(c) PROVE Control'
  BY <1>17, MoveKeepsControl
     DEF StopFails, TypeOK, Points, Holding, Working, Placing, Control, Closed
<1>18. ASSUME NEW c \in Channels, StopClears(c) PROVE Control'
  BY <1>18, MoveKeepsControl
     DEF StopClears, TypeOK, Points, Holding, Working, Placing, Control, Closed
<1>19. ASSUME NEW c \in Channels, List(c) PROVE Control'
  BY <1>19, ActorFacts
     DEF List, TypeOK, Control, HasSsrc, HasNode, SweepOwn, SweepOf, RowOwn, Closed, Todo, Busy
<1>20. ASSUME NEW c \in Channels, Restore(c) PROVE Control'
  BY <1>20
     DEF Restore, FoundOn, TypeOK, Control, HasSsrc, HasNode, SweepOwn, SweepOf, RowOwn, Placing,
         Closed, Todo, Busy
<1>21. ASSUME NEW c \in Channels, RecoverySweeps(c) PROVE Control'
  BY <1>21, ActorFacts
     DEF RecoverySweeps, TypeOK, Control, HasSsrc, HasNode, SweepOwn, SweepOf, RowOwn, Closed, Todo,
         Busy
<1>22. ASSUME NEW c \in Channels, GiveUp(c) PROVE Control'
  BY <1>22 DEF GiveUp, Control, HasSsrc, HasNode, SweepOwn, SweepOf, RowOwn, Closed, Todo, Busy
<1>23. ASSUME NEW c \in Channels, MediaArrives(c) PROVE Control'
  BY <1>23
     DEF MediaArrives, Control, HasSsrc, HasNode, SweepOwn, SweepOf, RowOwn, Closed, Todo, Busy
<1>24. ASSUME NEW a \in Actors, SweepVoid(a) PROVE Control'
  <2>1. Busy(a) /\ SweepEnds(a, TRUE) /\ UNCHANGED <<ssrc, node, row, todo, open>>
    BY <1>24 DEF SweepVoid, Busy
  <2>2. ASSUME a # Janitor PROVE row[a] = None
    BY <1>24, <2>1, <2>2, SweepFacts DEF SweepVoid, Control, RowOwn, SweepOwn
  <2> QED BY <2>1, <2>2, SweepEndKeepsControl
<1>25. ASSUME NEW a \in Actors, SweepStops(a) PROVE Control'
  BY <1>25
     DEF SweepStops, NoSweep, Control, HasSsrc, HasNode, SweepOwn, SweepOf, RowOwn, Placing, Closed,
         Todo, Working, Holding, Busy
<1>26. ASSUME NEW a \in Actors, SweepAround(a) PROVE Control'
  BY <1>26 DEF SweepAround, Control, HasSsrc, HasNode, SweepOwn, SweepOf, RowOwn, Closed, Todo, Busy
<1>27. ASSUME NEW a \in Actors, SweepCloses(a) PROVE Control'
  <2>1. Busy(a) /\ UNCHANGED <<ssrc, node, row, todo, open>>
    BY <1>27 DEF SweepCloses, Busy
  <2>2. CASE SweepEnds(a, FALSE)
    BY <2>1, <2>2, SweepEndKeepsControl
  <2>3. CASE sweep' = [sweep EXCEPT ![a].stage = "clear"] /\ UNCHANGED at
    <3>1. /\ \A b \in Actors : Busy(b)' = Busy(b)
          /\ \A b \in Actors : sweep'[b].chan = sweep[b].chan /\ sweep'[b].ssrc = sweep[b].ssrc
          /\ \A b \in Actors : sweep'[b].stage \in {sweep[b].stage, "clear"}
      BY <2>1, <2>3 DEF TypeOK, Busy
    <3>2. HasSsrc' /\ HasNode' /\ RowOwn'
      BY <2>1, <2>3 DEF Control, HasSsrc, HasNode, RowOwn
    <3>3. SweepOwn' /\ SweepOf'
      BY <2>1, <2>3, <3>1, ActorFacts DEF Control, SweepOwn, SweepOf
    <3>4. Closed' /\ Todo'
      BY <2>1, <2>3, <3>1, ActorFacts DEF Control, Closed, Todo
    <3> QED BY <3>2, <3>3, <3>4 DEF Control
  <2> QED BY <1>27, <2>2, <2>3 DEF SweepCloses
<1>28. ASSUME NEW a \in Actors, SweepClears(a) PROVE Control'
  <2>1. Busy(a) /\ UNCHANGED <<ssrc, node, todo, open>>
    BY <1>28 DEF SweepClears, Busy
  <2>2. SweepEnds(a, TRUE) \/ SweepEnds(a, FALSE)
    BY <1>28 DEF SweepClears
  <2>3. row' = row \/ row' = [row EXCEPT ![sweep[a].chan] = None]
    BY <1>28 DEF SweepClears
  <2>4. ASSUME a # Janitor, row'[a] # None PROVE SweepEnds(a, FALSE)
    <3>1. sweep[a].chan = a /\ a \in Channels /\ row[a] \in {None, sweep[a].ssrc}
      BY <2>1, <2>4, SweepFacts DEF Control, RowOwn, SweepOwn
    <3>2. row' = row /\ row[a] = sweep[a].ssrc
      BY <2>3, <2>4, <3>1 DEF TypeOK
    <3> QED BY <1>28, <3>1, <3>2, <2>4 DEF SweepClears, TypeOK
  <2> QED BY <2>1, <2>2, <2>3, <2>4, SweepEndKeepsControl
<1>29. ASSUME NEW n \in Nodes, NEW c \in Channels, MediaStops(n, c) PROVE Control'
  BY <1>29 DEF MediaStops, Control, HasSsrc, HasNode, SweepOwn, SweepOf, RowOwn, Closed, Todo, Busy
<1>30. ASSUME NEW n \in Nodes, NEW c \in Channels, IdleClosed(n, c) PROVE Control'
  BY <1>30 DEF IdleClosed, Control, HasSsrc, HasNode, SweepOwn, SweepOf, RowOwn, Closed, Todo, Busy
<1>31. ASSUME Judge PROVE Control'
  BY <1>31, ActorFacts, NoneAssumption, SweepFacts
     DEF Judge, NoSweep, TypeOK, Control, HasSsrc, HasNode, SweepOwn, SweepOf, RowOwn, Placing,
         Closed, Todo, Working, Holding, Busy
<1>32. ASSUME Crash PROVE Control'
  BY <1>32, ActorFacts
     DEF Crash, NoSweep, Control, HasSsrc, HasNode, SweepOwn, SweepOf, RowOwn, Placing, Closed,
         Todo, Working, Holding, Busy
<1>33. ASSUME FinishRecovery PROVE Control'
  BY <1>33
     DEF FinishRecovery, Control, HasSsrc, HasNode, SweepOwn, SweepOf, RowOwn, Closed, Todo, Busy
<1> QED BY <1>1, <1>2, <1>3, <1>4, <1>5, <1>6, <1>7, <1>8, <1>9, <1>10, <1>11, <1>12, <1>13, <1>14,
     <1>15, <1>16, <1>17, <1>18, <1>19, <1>20, <1>21, <1>22, <1>23, <1>24, <1>25, <1>26, <1>27,
     <1>28, <1>29, <1>30, <1>31, <1>32, <1>33 DEF Next, Starting, Stopping, Recovering, Sweeping

-----------------------------------------------------------------------------
(* SSRCs.                                                                  *)

Recovered(c) ==
    /\ ~open
    /\ c \in todo \/ (Busy(Janitor) /\ sweep[Janitor].chan = c /\ sweep[Janitor].ssrc = row[c])

\* A row whose SSRC has not gone astray has its generation, or the recovery will come to it.
RowHeld == \A c \in Channels :
    row[c] # None /\ row[c] \notin astray => Holds(c, row[c]) \/ Recovered(c)

\* Such rows differ, but for one whose generation has given its SSRC back already.
RowsDiffer == \A c, d \in Channels :
    /\ row[c] = row[d] /\ row[c] # None /\ row[c] \notin astray
    /\ at[c] # "clearing" /\ at[d] # "clearing"
    => c = d

\* Only the recovery cleans up a row without having noted its SSRC.
Cleans == \A a \in Actors :
    sweep[a].stage \in {"close", "clear"} /\ sweep[a].ssrc \notin astray => ~open /\ a = Janitor

\* A start that finds a row finds one that went astray.
Strayed == \A c \in Channels : at[c] \in {"probing", "cleaning"} => ssrc[c] \in astray
HasRow == \A c \in Channels :
    at[c] \in {"settled", "live", "endingLive"} /\ ssrc[c] \notin astray => row[c] = ssrc[c]

SsrcInv == OneUser /\ NoLeak /\ RowHeld /\ RowsDiffer /\ Cleans /\ Strayed /\ HasRow

\* A channel without a generation moves on; SSRCs and rows stay as they are.
LEMMA FreeMove ==
    ASSUME TypeOK, Control, SsrcInv, NEW c \in Channels, at[c] \notin Holding, at'[c] \notin Holding,
           \A d \in Channels \ {c} : at'[d] = at[d] /\ ssrc'[d] = ssrc[d],
           UNCHANGED <<leased, row, astray, todo, open>>, sweep'[Janitor] = sweep[Janitor],
           \A a \in Actors : sweep'[a].stage \in {"close", "clear"} => sweep'[a] = sweep[a],
           at'[c] \in {"probing", "cleaning"} => ssrc'[c] \in astray
    PROVE  SsrcInv'
<1>1. \A d \in Channels : InUse(d)' <=> InUse(d)
  BY DEF InUse, Holding
<1>2. \A d \in Channels : InUse(d) => ssrc'[d] = ssrc[d] /\ at'[d] = at[d]
  BY DEF InUse, Holding
<1>3. OneUser' /\ NoLeak'
  BY <1>1, <1>2 DEF SsrcInv, OneUser, NoLeak, InUse
<1>4. \A d \in Channels : \A s : Holds(d, s) => Holds(d, s)'
  BY DEF Holds
<1>5. \A d \in Channels : Recovered(d) => Recovered(d)'
  BY DEF Recovered, Busy
<1>6. RowHeld'
  BY <1>4, <1>5 DEF SsrcInv, RowHeld
<1>7. RowsDiffer' /\ HasRow' /\ Strayed'
  BY DEF SsrcInv, RowsDiffer, HasRow, Strayed, Holding
<1>8. Cleans'
  BY DEF SsrcInv, Cleans
<1> QED BY <1>3, <1>6, <1>7, <1>8 DEF SsrcInv

\* A row the recovery has not settled yet has its SSRC free.
LEMMA Unleased ==
    ASSUME TypeOK, Control, SsrcInv, NEW c \in Channels, ~open, at[c] = "absent",
           row[c] # None, row[c] \notin astray
    PROVE  row[c] \notin leased /\ \A d \in Channels : ~(InUse(d) /\ ssrc[d] = row[c])
<1>1. ASSUME NEW d \in Channels, InUse(d), ssrc[d] = row[c] PROVE FALSE
  <2>1. at[d] \in {"live", "endingLive"}
    BY <1>1 DEF Control, Closed, InUse, Holding
  <2>2. row[d] = row[c]
    BY <1>1, <2>1 DEF SsrcInv, HasRow
  <2>3. d = c
    BY <2>1, <2>2 DEF SsrcInv, RowsDiffer
  <2> QED BY <2>1, <2>3
<1> QED BY <1>1 DEF SsrcInv, NoLeak

LEMMA SweepEndKeepsSsrc ==
    ASSUME TypeOK, Control, SsrcInv, NEW a \in Actors, Busy(a), SweepEnds(a, TRUE) \/ SweepEnds(a, FALSE),
           UNCHANGED <<ssrc, node, todo, open>>,
           \/ UNCHANGED <<row, leased>>
           \/ /\ sweep[a].stage = "clear" /\ row[sweep[a].chan] = sweep[a].ssrc
              /\ row' = [row EXCEPT ![sweep[a].chan] = None]
              /\ leased' = leased \ {sweep[a].ssrc},
           row'[sweep[a].chan] = sweep[a].ssrc => SweepEnds(a, FALSE)
    PROVE  SsrcInv'
<1> DEFINE k == sweep[a].chan
           s == sweep[a].ssrc
<1>1. /\ k \in Channels /\ s \in Ssrcs /\ s # None
      /\ a # Janitor => a \in Channels /\ k = a /\ at[a] = "cleaning" /\ open
  BY SweepFacts, NoneAssumption DEF Control, Closed
<1>2. /\ \A d \in Channels \ {k} : row'[d] = row[d]
      /\ row'[k] \in {row[k], None}
      /\ leased' \subseteq leased /\ leased \subseteq leased' \cup {s}
      /\ row' # row \/ leased' # leased => sweep[a].stage = "clear" /\ row[k] = s
      /\ row'[k] = s => SweepEnds(a, FALSE)
  BY <1>1 DEF TypeOK
<1>3. /\ \A b \in Actors \ {a} : sweep'[b] = sweep[b]
      /\ sweep'[a] = NoSweep
      /\ astray \subseteq astray'
      /\ SweepEnds(a, FALSE) => s \in leased \cup astray'
  BY DEF SweepEnds, TypeOK
<1>4. \A d \in Channels : at'[d] # at[d] => at[d] = "cleaning" /\ at'[d] \in {"acquiring", "absent"}
  BY <1>1, ActorFacts DEF SweepEnds, TypeOK
<1>5. a = Janitor /\ ~open => at[k] = "absent"
  BY ActorFacts DEF Control, Closed
<1>6. s \notin astray /\ sweep[a].stage = "clear" => ~open /\ a = Janitor /\ at[k] = "absent"
  BY <1>5 DEF SsrcInv, Cleans
<1>7. s \notin astray /\ row[k] = s /\ ~open /\ at[k] = "absent" =>
        s \notin leased /\ \A d \in Channels : ~(InUse(d) /\ ssrc[d] = s)
  <2>1. HAVE s \notin astray /\ row[k] = s /\ ~open /\ at[k] = "absent"
  <2> HIDE DEF k, s
  <2> QED BY <1>1, <2>1, Unleased
<1> HIDE DEF k, s
<1>8. \A d \in Channels : InUse(d)' <=> InUse(d)
  BY <1>4 DEF InUse, Holding
<1>9. OneUser' /\ NoLeak'
  <2>1. ASSUME NEW d \in Channels, InUse(d), ssrc[d] \notin astray' PROVE ssrc[d] \in leased'
    BY <1>2, <1>3, <1>6, <1>7, <2>1 DEF SsrcInv, OneUser, InUse
  <2>2. OneUser'
    BY <1>3, <1>8, <2>1 DEF SsrcInv, OneUser, InUse
  <2> QED BY <1>2, <1>8, <2>2 DEF SsrcInv, NoLeak
<1>10. RowHeld'
  <2>1. ASSUME NEW d \in Channels, row'[d] # None, row'[d] \notin astray' 
        PROVE (at'[d] \in Holding /\ ssrc'[d] = row'[d]) \/ Recovered(d)'
    <3>1. row'[d] = row[d] /\ row[d] \notin astray
      BY <1>2, <1>3, <2>1
    <3>2. CASE Holds(d, row[d])
      BY <1>4, <3>1, <3>2 DEF Holds, Holding
    <3>3. CASE Recovered(d) /\ d \in todo
      BY <3>3 DEF Recovered
    <3>4. CASE Recovered(d) /\ d \notin todo
      <4>1. ~open /\ Busy(Janitor) /\ sweep[Janitor].chan = d /\ sweep[Janitor].ssrc = row[d]
        BY <3>4 DEF Recovered
      <4>2. a # Janitor
        <5>1. SUFFICES ASSUME a = Janitor PROVE FALSE
          OBVIOUS
        <5>2. k = d /\ s = row[d] /\ at[d] = "absent"
          BY <1>5, <4>1, <5>1 DEF k, s
        <5>3. s \in leased \cup astray'
          BY <1>2, <1>3, <3>1, <5>2
        <5> QED BY <1>7, <2>1, <3>1, <4>1, <5>2, <5>3
      <4> QED BY <1>1, <4>1, <4>2
    <3> QED BY <2>1, <3>1, <3>2, <3>3, <3>4 DEF SsrcInv, RowHeld
  <2> QED BY <2>1 DEF RowHeld, Holds
<1>11. RowsDiffer'
  BY <1>1, <1>2, <1>3, <1>4 DEF SsrcInv, RowsDiffer
<1>12. Cleans' /\ Strayed'
  BY <1>3, <1>4 DEF SsrcInv, Cleans, Strayed, NoSweep
<1>13. HasRow'
  <2>1. ASSUME NEW d \in Channels, at'[d] \in {"settled", "live", "endingLive"}, ssrc'[d] \notin astray'
        PROVE row'[d] = ssrc'[d]
    <3>1. at[d] = at'[d] /\ row[d] = ssrc[d] /\ ssrc[d] \notin astray
      BY <1>3, <1>4, <2>1 DEF SsrcInv, HasRow
    <3> QED BY <1>2, <1>6, <2>1, <3>1
  <2> QED BY <2>1 DEF HasRow
<1> QED BY <1>9, <1>10, <1>11, <1>12, <1>13 DEF SsrcInv

LEMMA SsrcStep == ASSUME TypeOK, Control, SsrcInv, Next, TypeOK' PROVE SsrcInv'
<1>1. ASSUME NEW c \in Channels, Begin(c) PROVE SsrcInv'
  <2>1. at[c] = "absent" /\ open /\ at' = [at EXCEPT ![c] = IF row[c] = None THEN "acquiring" ELSE "probing"]
        /\ ssrc' = [ssrc EXCEPT ![c] = row[c]] /\ UNCHANGED <<leased, row, astray, todo, open, sweep>>
    BY <1>1 DEF Begin
  <2>2. row[c] # None => row[c] \in astray
    BY <2>1 DEF SsrcInv, RowHeld, Holds, Holding, Recovered
  <2> QED BY <2>1, <2>2, FreeMove DEF TypeOK, Holding
<1>2. ASSUME NEW c \in Channels, Reuse(c) PROVE SsrcInv'
  BY <1>2
     DEF Reuse, SsrcInv, OneUser, RowHeld, RowsDiffer, NoLeak, Cleans, Strayed, HasRow, Recovered,
         Holds, InUse, Holding, Busy
<1>3. ASSUME NEW c \in Channels, Unusable(c) PROVE SsrcInv'
  <2>1. /\ at[c] = "probing" /\ at' = [at EXCEPT ![c] = "cleaning"]
        /\ sweep' = [sweep EXCEPT ![c] = [stage |-> "look", chan |-> c, ssrc |-> ssrc[c]]]
        /\ UNCHANGED <<ssrc, leased, row, astray, todo, open>>
    BY <1>3 DEF Unusable
  <2>2. ssrc[c] \in astray
    BY <2>1 DEF SsrcInv, Strayed
  <2> QED BY <2>1, <2>2, FreeMove, ActorFacts DEF TypeOK, Holding
<1>4. ASSUME NEW c \in Channels, Acquire(c) PROVE SsrcInv'
  <2>1. PICK s \in Ssrcs \ leased :
            /\ leased' = leased \cup {s} /\ ssrc' = [ssrc EXCEPT ![c] = s]
            /\ astray' = IF InHand(s) THEN astray \cup {s} ELSE astray
    BY <1>4 DEF Acquire, FreeSsrcs
  <2>2. /\ at[c] = "acquiring" /\ at' = [at EXCEPT ![c] = "opening"]
        /\ UNCHANGED <<row, sweep, todo, open>>
    BY <1>4 DEF Acquire
  <2>3. open /\ row[c] = None
    BY <2>2 DEF Control, Closed, RowOwn, Placing
  <2>4. /\ \A d \in Channels \ {c} : at'[d] = at[d] /\ ssrc'[d] = ssrc[d]
        /\ at'[c] = "opening" /\ ssrc'[c] = s /\ astray \subseteq astray'
    BY <2>1, <2>2 DEF TypeOK
  <2>5. \A d \in Channels : InUse(d) => InUse(d)' /\ d # c
    BY <2>2, <2>4 DEF InUse, Holding
  <2>6. OneUser'
    BY <2>1, <2>4 DEF SsrcInv, OneUser, InUse
  <2>7. NoLeak'
    <3>1. InUse(c)'
      BY <2>4 DEF InUse, Holding
    <3> QED BY <2>1, <2>4, <2>5, <3>1 DEF SsrcInv, NoLeak
  <2>8. RowHeld'
    BY <2>2, <2>3, <2>4 DEF SsrcInv, RowHeld, Recovered, Holds
  <2>9. RowsDiffer' /\ Cleans' /\ Strayed' /\ HasRow'
    BY <2>2, <2>3, <2>4 DEF SsrcInv, RowsDiffer, Cleans, Strayed, HasRow
  <2> QED BY <2>6, <2>7, <2>8, <2>9 DEF SsrcInv
<1>5. ASSUME NEW c \in Channels, Unplaced(c) PROVE SsrcInv'
  BY <1>5, FreeMove DEF Unplaced, TypeOK, Holding
<1>6. ASSUME NEW c \in Channels, OpenRtp(c) PROVE SsrcInv'
  BY <1>6
     DEF OpenRtp, SsrcInv, OneUser, RowHeld, RowsDiffer, NoLeak, Cleans, Strayed, HasRow, Recovered,
         Holds, InUse, Holding, Busy
<1>7. ASSUME NEW c \in Channels, OpenFails(c) PROVE SsrcInv'
  BY <1>7
     DEF OpenFails, GiveBack, SsrcInv, OneUser, RowHeld, RowsDiffer, NoLeak, Cleans, Strayed,
         HasRow, Recovered, Holds, InUse, Holding, Placing, Busy, RowOwn, Control, TypeOK
<1>8. ASSUME NEW c \in Channels, Invite(c) PROVE SsrcInv'
  BY <1>8
     DEF Invite, SsrcInv, OneUser, RowHeld, RowsDiffer, NoLeak, Cleans, Strayed, HasRow, Recovered,
         Holds, InUse, Holding, Busy
<1>9. ASSUME NEW c \in Channels, Ready(c) PROVE SsrcInv'
  BY <1>9
     DEF Ready, SsrcInv, OneUser, RowHeld, RowsDiffer, NoLeak, Cleans, Strayed, HasRow, Recovered,
         Holds, InUse, Holding, Busy
<1>10. ASSUME NEW c \in Channels, NotReady(c) PROVE SsrcInv'
  BY <1>10
     DEF NotReady, SsrcInv, OneUser, RowHeld, RowsDiffer, NoLeak, Cleans, Strayed, HasRow,
         Recovered, Holds, InUse, Holding, Busy
<1>11. ASSUME NEW c \in Channels, Store(c) PROVE SsrcInv'
  <2>1. /\ at[c] = "storing" /\ open /\ row[c] = None
        /\ UNCHANGED <<ssrc, leased, astray, sweep, todo, open>>
    BY <1>11 DEF Store, Control, Closed, RowOwn, Placing
  <2>2. \/ row' = row /\ at' = [at EXCEPT ![c] = "undoing"]
        \/ row' = [row EXCEPT ![c] = ssrc[c]] /\ at' = [at EXCEPT ![c] = "settled"]
    BY <1>11 DEF Store
  <2>3. /\ \A d \in Channels \ {c} : at'[d] = at[d] /\ row'[d] = row[d]
        /\ at'[c] \in {"undoing", "settled"}
        /\ at'[c] = "undoing" => row'[c] = None
        /\ at'[c] = "settled" => row'[c] = ssrc[c]
    BY <2>1, <2>2 DEF TypeOK
  <2>4. \A d \in Channels : InUse(d)' <=> InUse(d)
    BY <2>1, <2>3 DEF InUse, Holding
  <2>5. OneUser' /\ NoLeak'
    BY <2>1, <2>4 DEF SsrcInv, OneUser, NoLeak, InUse
  <2>6. RowHeld'
    BY <2>1, <2>3 DEF SsrcInv, RowHeld, Recovered, Holds, Holding
  <2>7. RowsDiffer'
    <3>1. ASSUME NEW d \in Channels \ {c}, row[d] = ssrc[c], row[d] # None, row[d] \notin astray, at[d] # "clearing"
          PROVE FALSE
      <4>1. InUse(d) /\ ssrc[d] = ssrc[c]
        BY <2>1, <3>1 DEF SsrcInv, RowHeld, Recovered, Holds, InUse
      <4>2. InUse(c)
        BY <2>1 DEF InUse, Holding
      <4> QED BY <3>1, <4>1, <4>2 DEF SsrcInv, OneUser, InUse
    <3> QED BY <2>1, <2>3, <3>1 DEF SsrcInv, RowsDiffer
  <2>8. Cleans' /\ Strayed' /\ HasRow'
    BY <2>1, <2>3 DEF SsrcInv, Cleans, Strayed, HasRow
  <2> QED BY <2>5, <2>6, <2>7, <2>8 DEF SsrcInv
<1>12. ASSUME NEW c \in Channels, Publish(c) PROVE SsrcInv'
  BY <1>12
     DEF Publish, SsrcInv, OneUser, RowHeld, RowsDiffer, NoLeak, Cleans, Strayed, HasRow, Recovered,
         Holds, InUse, Holding, Busy
<1>13. ASSUME NEW c \in Channels, Undo(c) PROVE SsrcInv'
  BY <1>13
     DEF Undo, GiveBack, SsrcInv, OneUser, RowHeld, RowsDiffer, NoLeak, Cleans, Strayed, HasRow,
         Recovered, Holds, InUse, Holding, Placing, Busy, RowOwn, Control, TypeOK
<1>14. ASSUME NEW c \in Channels, UndoFails(c) PROVE SsrcInv'
  BY <1>14
     DEF UndoFails, SsrcInv, OneUser, RowHeld, RowsDiffer, NoLeak, Cleans, Strayed, HasRow,
         Recovered, Holds, InUse, Holding, Closed, Control, TypeOK
<1>15. ASSUME NEW c \in Channels, StopRequested(c) PROVE SsrcInv'
  BY <1>15
     DEF StopRequested, SsrcInv, OneUser, RowHeld, RowsDiffer, NoLeak, Cleans, Strayed, HasRow,
         Recovered, Holds, InUse, Holding, Busy
<1>16. ASSUME NEW c \in Channels, StopCloses(c) PROVE SsrcInv'
  BY <1>16
     DEF StopCloses, GiveBack, SsrcInv, OneUser, RowHeld, RowsDiffer, NoLeak, Cleans, Strayed,
         HasRow, Recovered, Holds, InUse, Holding, Busy, TypeOK
<1>17. ASSUME NEW c \in Channels, StopFails(c) PROVE SsrcInv'
  BY <1>17
     DEF StopFails, SsrcInv, OneUser, RowHeld, RowsDiffer, NoLeak, Cleans, Strayed, HasRow,
         Recovered, Holds, InUse, Holding, Busy
<1>18. ASSUME NEW c \in Channels, StopClears(c) PROVE SsrcInv'
  BY <1>18
     DEF StopClears, SsrcInv, OneUser, RowHeld, RowsDiffer, NoLeak, Cleans, Strayed, HasRow,
         Recovered, Holds, InUse, Holding, Busy, RowOwn, Control, TypeOK
<1>19. ASSUME NEW c \in Channels, List(c) PROVE SsrcInv'
  BY <1>19
     DEF List, SsrcInv, OneUser, RowHeld, RowsDiffer, NoLeak, Cleans, Strayed, HasRow, Recovered,
         Holds, InUse
<1>20. ASSUME NEW c \in Channels, Restore(c) PROVE SsrcInv'
  BY <1>20
     DEF Restore, SsrcInv, OneUser, RowHeld, RowsDiffer, NoLeak, Cleans, Strayed, HasRow, Recovered,
         Holds, InUse, Holding, Busy, Todo, Control, TypeOK
<1>21. ASSUME NEW c \in Channels, RecoverySweeps(c) PROVE SsrcInv'
  BY <1>21
     DEF RecoverySweeps, SsrcInv, OneUser, RowHeld, RowsDiffer, NoLeak, Cleans, Strayed, HasRow,
         Recovered, Holds, InUse, Busy, TypeOK
<1>22. ASSUME NEW c \in Channels, GiveUp(c) PROVE SsrcInv'
  BY <1>22
     DEF GiveUp, SsrcInv, OneUser, RowHeld, RowsDiffer, NoLeak, Cleans, Strayed, HasRow, Recovered,
         Holds, InUse, Busy
<1>23. ASSUME NEW c \in Channels, MediaArrives(c) PROVE SsrcInv'
  BY <1>23
     DEF MediaArrives, SsrcInv, OneUser, RowHeld, RowsDiffer, NoLeak, Cleans, Strayed, HasRow,
         Recovered, Holds, InUse, Busy
<1>24. ASSUME NEW a \in Actors, SweepVoid(a) PROVE SsrcInv'
  <2>1. Busy(a) /\ SweepEnds(a, TRUE) /\ UNCHANGED <<ssrc, node, row, leased, todo, open>>
    BY <1>24 DEF SweepVoid, Busy
  <2>2. row[sweep[a].chan] # sweep[a].ssrc
    BY <1>24, <2>1, SweepFacts, NoneAssumption DEF SweepVoid, Control, RowOwn
  <2> QED BY <2>1, <2>2, SweepEndKeepsSsrc
<1>25. ASSUME NEW a \in Actors, SweepStops(a) PROVE SsrcInv'
  BY <1>25
     DEF SweepStops, NoSweep, SsrcInv, OneUser, RowHeld, RowsDiffer, NoLeak, Cleans, Strayed,
         HasRow, Recovered, Holds, InUse, Holding, Busy
<1>26. ASSUME NEW a \in Actors, SweepAround(a) PROVE SsrcInv'
  BY <1>26, NoneAssumption, SweepFacts
     DEF SweepAround, SsrcInv, OneUser, RowHeld, RowsDiffer, NoLeak, Cleans, Strayed, HasRow,
         Recovered, Holds, InUse, Holding, Busy, SweepOwn, Control
<1>27. ASSUME NEW a \in Actors, SweepCloses(a) PROVE SsrcInv'
  <2>1. Busy(a) /\ sweep[a].stage = "close" /\ UNCHANGED <<ssrc, node, row, leased, todo, open>>
    BY <1>27 DEF SweepCloses, Busy
  <2>2. CASE SweepEnds(a, FALSE)
    BY <2>1, <2>2, SweepEndKeepsSsrc
  <2>3. CASE sweep' = [sweep EXCEPT ![a].stage = "clear"] /\ UNCHANGED <<at, astray>>
    <3>1. /\ \A b \in Actors : Busy(b)' = Busy(b)
          /\ \A b \in Actors : sweep'[b].chan = sweep[b].chan /\ sweep'[b].ssrc = sweep[b].ssrc
          /\ \A b \in Actors : sweep'[b].stage = sweep[b].stage \/ (b = a /\ sweep'[b].stage = "clear")
      BY <2>1, <2>3 DEF TypeOK, Busy
    <3>2. OneUser' /\ NoLeak' /\ RowsDiffer' /\ Strayed' /\ HasRow'
      BY <2>1, <2>3 DEF SsrcInv, OneUser, NoLeak, InUse, RowsDiffer, Strayed, HasRow
    <3>3. RowHeld'
      BY <2>1, <2>3, <3>1, ActorFacts DEF SsrcInv, RowHeld, Recovered, Holds
    <3>4. Cleans'
      BY <2>1, <2>3, <3>1 DEF SsrcInv, Cleans
    <3> QED BY <3>2, <3>3, <3>4 DEF SsrcInv
  <2> QED BY <1>27, <2>2, <2>3 DEF SweepCloses
<1>28. ASSUME NEW a \in Actors, SweepClears(a) PROVE SsrcInv'
  <2>1. Busy(a) /\ sweep[a].stage = "clear" /\ UNCHANGED <<ssrc, node, todo, open>>
    BY <1>28 DEF SweepClears, Busy
  <2>2. sweep[a].chan \in Channels /\ sweep[a].ssrc # None
    BY <2>1, SweepFacts, NoneAssumption
  <2>3. CASE row[sweep[a].chan] = sweep[a].ssrc /\ row' = [row EXCEPT ![sweep[a].chan] = None]
             /\ leased' = leased \ {sweep[a].ssrc} /\ SweepEnds(a, TRUE)
    <3>1. row'[sweep[a].chan] # sweep[a].ssrc
      BY <2>2, <2>3 DEF TypeOK
    <3> QED BY <2>1, <2>3, <3>1, SweepEndKeepsSsrc
  <2>4. CASE row[sweep[a].chan] # sweep[a].ssrc /\ UNCHANGED <<row, leased>> /\ SweepEnds(a, TRUE)
    BY <2>1, <2>4, SweepEndKeepsSsrc
  <2>5. CASE UNCHANGED <<row, leased>> /\ SweepEnds(a, FALSE)
    BY <2>1, <2>5, SweepEndKeepsSsrc
  <2> QED BY <1>28, <2>3, <2>4, <2>5 DEF SweepClears
<1>29. ASSUME NEW n \in Nodes, NEW c \in Channels, MediaStops(n, c) PROVE SsrcInv'
  BY <1>29
     DEF MediaStops, SsrcInv, OneUser, RowHeld, RowsDiffer, NoLeak, Cleans, Strayed, HasRow,
         Recovered, Holds, InUse, Busy
<1>30. ASSUME NEW n \in Nodes, NEW c \in Channels, IdleClosed(n, c) PROVE SsrcInv'
  BY <1>30
     DEF IdleClosed, SsrcInv, OneUser, RowHeld, RowsDiffer, NoLeak, Cleans, Strayed, HasRow,
         Recovered, Holds, InUse, Busy
<1>31. ASSUME Judge PROVE SsrcInv'
  <2>1. /\ open /\ UNCHANGED <<at, ssrc, leased, row, astray, todo, open>>
    BY <1>31 DEF Judge, Control, Closed, Busy
  <2>2. /\ \A b \in Actors \ {Janitor} : sweep'[b] = sweep[b]
        /\ sweep'[Janitor].stage \in {"look", "idle"}
    BY <1>31, ActorFacts DEF Judge, NoSweep, TypeOK
  <2>3. OneUser' /\ NoLeak' /\ RowsDiffer' /\ Strayed' /\ HasRow'
    BY <2>1 DEF SsrcInv, OneUser, NoLeak, InUse, RowsDiffer, Strayed, HasRow
  <2>4. RowHeld'
    BY <2>1 DEF SsrcInv, RowHeld, Recovered, Holds
  <2>5. Cleans'
    BY <2>1, <2>2 DEF SsrcInv, Cleans
  <2> QED BY <2>3, <2>4, <2>5 DEF SsrcInv
<1>32. ASSUME Crash PROVE SsrcInv'
  BY <1>32, ActorFacts, NoneAssumption
     DEF Crash, NoSweep, SsrcInv, OneUser, RowHeld, RowsDiffer, NoLeak, Cleans, Strayed, HasRow,
         Recovered, InUse, Holding, RowOwn, Control
<1>33. ASSUME FinishRecovery PROVE SsrcInv'
  BY <1>33
     DEF FinishRecovery, SsrcInv, OneUser, RowHeld, RowsDiffer, NoLeak, Cleans, Strayed, HasRow,
         Recovered, Holds, InUse, Busy
<1> QED BY <1>1, <1>2, <1>3, <1>4, <1>5, <1>6, <1>7, <1>8, <1>9, <1>10, <1>11, <1>12, <1>13, <1>14,
     <1>15, <1>16, <1>17, <1>18, <1>19, <1>20, <1>21, <1>22, <1>23, <1>24, <1>25, <1>26, <1>27,
     <1>28, <1>29, <1>30, <1>31, <1>32, <1>33 DEF Next, Starting, Stopping, Recovering, Sweeping

-----------------------------------------------------------------------------
(* Listeners.                                                              *)

Clearing(c) == \E a \in Actors : sweep[a].stage = "clear" /\ sweep[a].chan = c
Kept(n, c) == at[c] \in Holding \ {"opening", "clearing"} /\ node[c] = n

\* A listener belongs to a generation, or was noted as lost, or its channel has no
\* generation but a row that nobody is about to clear.
Accounted == \A n \in Nodes, c \in Channels : rtp[n][c] # "shut" =>
    \/ Kept(n, c)
    \/ <<n, c>> \in lost
    \/ at[c] \in {"absent", "probing", "cleaning"} /\ row[c] # None /\ ~Clearing(c)

LEMMA AccountedStep == ASSUME TypeOK, Control, Accounted, Next, TypeOK' PROVE Accounted'
<1>1. ASSUME NEW c \in Channels, Begin(c) PROVE Accounted'
  BY <1>1 DEF Begin, Accounted, Clearing, Kept, Holding
<1>2. ASSUME NEW c \in Channels, Reuse(c) PROVE Accounted'
  BY <1>2 DEF Reuse, FoundOn, Accounted, Clearing, Kept, Holding, TypeOK
<1>3. ASSUME NEW c \in Channels, Unusable(c) PROVE Accounted'
  BY <1>3 DEF Unusable, Accounted, Clearing, Kept, Holding
<1>4. ASSUME NEW c \in Channels, Acquire(c) PROVE Accounted'
  BY <1>4 DEF Acquire, Accounted, Clearing, Kept, Holding
<1>5. ASSUME NEW c \in Channels, Unplaced(c) PROVE Accounted'
  BY <1>5 DEF Unplaced, Accounted, Clearing, Kept, Holding
<1>6. ASSUME NEW c \in Channels, OpenRtp(c) PROVE Accounted'
  BY <1>6 DEF OpenRtp, Accounted, Clearing, Kept, Holding, TypeOK
<1>7. ASSUME NEW c \in Channels, OpenFails(c) PROVE Accounted'
  BY <1>7, ActorFacts, NoneAssumption DEF OpenFails, Accounted, Clearing, Kept, TypeOK
<1>8. ASSUME NEW c \in Channels, Invite(c) PROVE Accounted'
  BY <1>8 DEF Invite, Accounted, Clearing, Kept, Holding
<1>9. ASSUME NEW c \in Channels, Ready(c) PROVE Accounted'
  BY <1>9 DEF Ready, Accounted, Clearing, Kept, Holding
<1>10. ASSUME NEW c \in Channels, NotReady(c) PROVE Accounted'
  BY <1>10 DEF NotReady, Accounted, Clearing, Kept, Holding
<1>11. ASSUME NEW c \in Channels, Store(c) PROVE Accounted'
  BY <1>11, ActorFacts, NoneAssumption
     DEF Store, Accounted, Clearing, Kept, Holding, Placing, Busy, HasNode, SweepOwn, RowOwn,
         Closed, Todo, Control, TypeOK
<1>12. ASSUME NEW c \in Channels, Publish(c) PROVE Accounted'
  BY <1>12 DEF Publish, Accounted, Clearing, Kept, Holding
<1>13. ASSUME NEW c \in Channels, Undo(c) PROVE Accounted'
  BY <1>13 DEF Undo, Shut, Accounted, Clearing, Kept, TypeOK
<1>14. ASSUME NEW c \in Channels, UndoFails(c) PROVE Accounted'
  BY <1>14, ActorFacts, NoneAssumption
     DEF UndoFails, Accounted, Clearing, Kept, Holding, Placing, Busy, HasNode, SweepOwn, RowOwn,
         Closed, Todo, Control, TypeOK
<1>15. ASSUME NEW c \in Channels, StopRequested(c) PROVE Accounted'
  BY <1>15, ActorFacts, NoneAssumption
     DEF StopRequested, Accounted, Clearing, Kept, Holding, Placing, Busy, HasNode, SweepOwn,
         RowOwn, Closed, Todo, Control, TypeOK
<1>16. ASSUME NEW c \in Channels, StopCloses(c) PROVE Accounted'
  BY <1>16 DEF StopCloses, Shut, Accounted, Clearing, Kept, TypeOK
<1>17. ASSUME NEW c \in Channels, StopFails(c) PROVE Accounted'
  BY <1>17 DEF StopFails, Accounted, Clearing, Kept, Holding
<1>18. ASSUME NEW c \in Channels, StopClears(c) PROVE Accounted'
  BY <1>18, ActorFacts, NoneAssumption
     DEF StopClears, Accounted, Clearing, Kept, Holding, Placing, Busy, HasNode, SweepOwn, RowOwn,
         Closed, Todo, Control, TypeOK
<1>19. ASSUME NEW c \in Channels, List(c) PROVE Accounted'
  BY <1>19, ActorFacts, NoneAssumption
     DEF List, Accounted, Clearing, Kept, Holding, Placing, Busy, HasNode, SweepOwn, RowOwn, Closed,
         Todo, Control, TypeOK
<1>20. ASSUME NEW c \in Channels, Restore(c) PROVE Accounted'
  BY <1>20 DEF Restore, FoundOn, Accounted, Clearing, Kept, Holding, TypeOK
<1>21. ASSUME NEW c \in Channels, RecoverySweeps(c) PROVE Accounted'
  BY <1>21, ActorFacts, NoneAssumption
     DEF RecoverySweeps, Accounted, Clearing, Kept, Holding, Placing, Busy, HasNode, SweepOwn,
         RowOwn, Closed, Todo, Control, TypeOK
<1>22. ASSUME NEW c \in Channels, GiveUp(c) PROVE Accounted'
  BY <1>22, ActorFacts, NoneAssumption
     DEF GiveUp, Accounted, Clearing, Kept, Holding, Placing, Busy, HasNode, SweepOwn, RowOwn,
         Closed, Todo, Control, TypeOK
<1>23. ASSUME NEW c \in Channels, MediaArrives(c) PROVE Accounted'
  BY <1>23, ActorFacts, NoneAssumption
     DEF MediaArrives, Accounted, Clearing, Kept, Holding, Placing, Busy, HasNode, SweepOwn, RowOwn,
         Closed, Todo, Control, TypeOK
<1>24. ASSUME NEW a \in Actors, SweepVoid(a) PROVE Accounted'
  BY <1>24, ActorFacts, NoneAssumption, SweepFacts
     DEF SweepVoid, SweepEnds, NoSweep, Accounted, Clearing, Kept, Holding, Placing, Busy, HasNode,
         SweepOwn, RowOwn, Closed, Todo, Control, TypeOK
<1>25. ASSUME NEW a \in Actors, SweepStops(a) PROVE Accounted'
  BY <1>25, ActorFacts, NoneAssumption, SweepFacts
     DEF SweepStops, NoSweep, Accounted, Clearing, Kept, Holding, Placing, Busy, HasNode, SweepOwn,
         RowOwn, Closed, Todo, Control, TypeOK
<1>26. ASSUME NEW a \in Actors, SweepAround(a) PROVE Accounted'
  BY <1>26, ActorFacts, NoneAssumption, SweepFacts
     DEF SweepAround, Accounted, Clearing, Kept, Holding, Placing, Busy, HasNode, SweepOwn, RowOwn,
         Closed, Todo, Control, TypeOK
<1>27. ASSUME NEW a \in Actors, SweepCloses(a) PROVE Accounted'
  BY <1>27, ActorFacts, NoneAssumption, SweepFacts
     DEF SweepCloses, SweepEnds, NoSweep, Shut, Accounted, Clearing, Kept, Holding, Placing, Busy,
         HasNode, SweepOwn, RowOwn, Closed, Todo, Control, TypeOK
<1>28. ASSUME NEW a \in Actors, SweepClears(a) PROVE Accounted'
  <2> DEFINE k == sweep[a].chan
  <2>1. /\ sweep[a].stage = "clear" /\ Busy(a) /\ UNCHANGED <<node, rtp, lost>>
        /\ SweepEnds(a, TRUE) \/ SweepEnds(a, FALSE)
        /\ row' = row \/ row' = [row EXCEPT ![k] = None]
    BY <1>28 DEF SweepClears, Busy
  <2>2. k \in Channels /\ (a # Janitor => a \in Channels /\ k = a /\ at[a] = "cleaning")
    BY <2>1, SweepFacts
  <2>3. Clearing(k)
    BY <2>1 DEF Clearing
  <2> HIDE DEF k
  <2>4. \A d \in Channels \ {k} : row'[d] = row[d]
    BY <2>1, <2>2 DEF TypeOK
  <2>5. \A b \in Actors \ {a} : sweep'[b] = sweep[b]
    BY <2>1 DEF SweepEnds, TypeOK
  <2>6. sweep'[a].stage = "idle"
    BY <2>1 DEF SweepEnds, TypeOK, NoSweep
  <2>7. /\ \A d \in Channels \ {k} : at'[d] = at[d]
        /\ at'[k] # at[k] => at[k] = "cleaning"
    BY <2>1, <2>2, ActorFacts DEF SweepEnds, TypeOK
  <2>8. ASSUME NEW n \in Nodes, NEW d \in Channels, rtp[n][d] # "shut"
        PROVE  \/ Kept(n, d)' \/ <<n, d>> \in lost
               \/ at'[d] \in {"absent", "probing", "cleaning"} /\ row'[d] # None /\ ~Clearing(d)'
    <3>1. CASE d = k
      BY <2>1, <2>3, <2>7, <2>8, <3>1 DEF Accounted, Kept, Holding
    <3>2. CASE d # k
      <4>1. Clearing(d)' => Clearing(d)
        BY <2>5, <2>6 DEF Clearing
      <4> QED BY <2>1, <2>4, <2>7, <2>8, <3>2, <4>1 DEF Accounted, Kept
    <3> QED BY <3>1, <3>2
  <2> QED BY <2>1, <2>8 DEF Accounted
<1>29. ASSUME NEW n \in Nodes, NEW c \in Channels, MediaStops(n, c) PROVE Accounted'
  BY <1>29, ActorFacts, NoneAssumption
     DEF MediaStops, Online, Accounted, Clearing, Kept, Holding, Placing, Busy, HasNode, SweepOwn,
         RowOwn, Closed, Todo, Control, TypeOK
<1>30. ASSUME NEW n \in Nodes, NEW c \in Channels, IdleClosed(n, c) PROVE Accounted'
  BY <1>30, ActorFacts, NoneAssumption
     DEF IdleClosed, Shut, Accounted, Clearing, Kept, Holding, Placing, Busy, HasNode, SweepOwn,
         RowOwn, Closed, Todo, Control, TypeOK
<1>31. ASSUME Judge PROVE Accounted'
  BY <1>31, ActorFacts, NoneAssumption, SweepFacts
     DEF Judge, NoSweep, Accounted, Clearing, Kept, Holding, Placing, Busy, HasNode, SweepOwn,
         RowOwn, Closed, Todo, Control, TypeOK
<1>32. ASSUME Crash PROVE Accounted'
  BY <1>32, ActorFacts, NoneAssumption
     DEF Crash, NoSweep, Unbound, Accounted, Clearing, Kept, Holding, Placing, Busy, HasNode,
         SweepOwn, RowOwn, Closed, Todo, Control, TypeOK
<1>33. ASSUME FinishRecovery PROVE Accounted'
  BY <1>33, ActorFacts, NoneAssumption
     DEF FinishRecovery, Accounted, Clearing, Kept, Holding, Placing, Busy, HasNode, SweepOwn,
         RowOwn, Closed, Todo, Control, TypeOK
<1> QED BY <1>1, <1>2, <1>3, <1>4, <1>5, <1>6, <1>7, <1>8, <1>9, <1>10, <1>11, <1>12, <1>13, <1>14,
     <1>15, <1>16, <1>17, <1>18, <1>19, <1>20, <1>21, <1>22, <1>23, <1>24, <1>25, <1>26, <1>27,
     <1>28, <1>29, <1>30, <1>31, <1>32, <1>33 DEF Next, Starting, Stopping, Recovering, Sweeping

-----------------------------------------------------------------------------
MediaInv == TypeOK /\ Control /\ SsrcInv /\ Accounted

LEMMA MediaInit == Init => MediaInv
<1> SUFFICES ASSUME Init PROVE MediaInv
  OBVIOUS
<1>1. TypeOK
  BY EventAssumption DEF Init, TypeOK, Points, Unbound, NoSweep
<1>2. Control
  BY
     DEF Init, Control, HasSsrc, HasNode, SweepOwn, SweepOf, RowOwn, Placing, Closed, Todo, Working,
         Holding, Busy, NoSweep, Actors
<1>3. SsrcInv
  BY
     DEF Init, SsrcInv, OneUser, InUse, RowHeld, RowsDiffer, NoLeak, Cleans, Strayed, HasRow,
         Holding, NoSweep
<1>4. Accounted
  BY DEF Init, Accounted
<1> QED BY <1>1, <1>2, <1>3, <1>4 DEF MediaInv

LEMMA MediaStep == ASSUME MediaInv, [Next]_vars PROVE MediaInv'
<1>1. CASE Next
  BY <1>1, TypeStep, ControlStep, SsrcStep, AccountedStep DEF MediaInv
<1>2. CASE UNCHANGED vars
  <2>1. TypeOK' /\ Control'
    BY <1>2
       DEF vars, MediaInv, TypeOK, Control, HasSsrc, HasNode, SweepOwn, SweepOf, RowOwn, Closed,
           Todo, Busy
  <2>2. SsrcInv' /\ Accounted'
    BY <1>2
       DEF vars, MediaInv, SsrcInv, OneUser, RowHeld, RowsDiffer, NoLeak, Cleans, Strayed, HasRow,
                Recovered, Holds, InUse, Busy, Accounted, Kept, Clearing
  <2> QED BY <2>1, <2>2 DEF MediaInv
<1> QED BY <1>1, <1>2

LEMMA Invariance == Spec => []MediaInv
BY MediaInit, MediaStep, PTL DEF Spec

\* Every variable has its type.
THEOREM TypeCorrect == Spec => []TypeOK
<1>1. MediaInv => TypeOK
  BY DEF MediaInv
<1> QED BY <1>1, Invariance, PTL

\* An SSRC has one user, is leased while it is used and only then, for every number of
\* channels, SSRCs, nodes and failures.
THEOREM OneUserPerSsrc == Spec => []SsrcHasOneUser
<1>1. MediaInv => SsrcHasOneUser
  BY DEF MediaInv, SsrcInv, SsrcHasOneUser
<1> QED BY <1>1, Invariance, PTL

\* A listener on a node has a generation or a row that leads to it.
THEOREM EveryListenerAccounted == Spec => []ListenerAccounted
<1>1. MediaInv => ListenerAccounted
  BY DEF MediaInv, Accounted, ListenerAccounted, Kept
<1> QED BY <1>1, Invariance, PTL

\* What plays has its row.
THEOREM PlayingHasRow == Spec => []LiveHasRow
<1>1. MediaInv => LiveHasRow
  BY DEF MediaInv, SsrcInv, HasRow, LiveHasRow
<1> QED BY <1>1, Invariance, PTL

-----------------------------------------------------------------------------
(* What a step does to rows.                                               *)

\* A row is written by the start whose SSRC it names, over none; it is cleared by the stop or
\* the clean-up of the SSRC it names, and then nothing plays on the channel.
RowMoves ==
    \A c \in Channels : row'[c] # row[c] =>
        \/ /\ row[c] = None /\ Holds(c, row'[c]) /\ at'[c] \in Holding /\ ssrc'[c] = row'[c]
           /\ row'[c] \in leased \cup astray
        \/ /\ row'[c] = None
           /\ at[c] = "clearing" \/ \E a \in Actors : Busy(a) /\ sweep[a].chan = c /\ sweep[a].ssrc = row[c]
           /\ at'[c] \in {"settled", "live"} => row[c] \in astray

LEMMA RowStep == ASSUME MediaInv, [Next]_vars PROVE RowMoves
<1>1. ASSUME NEW c \in Channels, Store(c) \/ UndoFails(c) PROVE RowMoves
  <2>1. /\ at[c] \in {"storing", "undoing"} /\ \A d \in Channels \ {c} : row'[d] = row[d]
        /\ row'[c] # row[c] => row'[c] = ssrc[c] /\ at'[c] \in {"settled", "dirty"}
        /\ ssrc' = ssrc
    BY <1>1 DEF Store, UndoFails, MediaInv, TypeOK
  <2>2. row[c] = None /\ ssrc[c] \in leased \cup astray
    BY <2>1 DEF MediaInv, Control, RowOwn, Placing, SsrcInv, OneUser, InUse, Holding
  <2> QED BY <2>1, <2>2 DEF RowMoves, Holds, Holding
<1>2. ASSUME NEW c \in Channels, StopClears(c) PROVE RowMoves
  BY <1>2 DEF StopClears, RowMoves, MediaInv, TypeOK
<1>3. ASSUME NEW a \in Actors, SweepClears(a) PROVE RowMoves
  <2> DEFINE c == sweep[a].chan
  <2>1. /\ Busy(a) /\ c \in Channels /\ \A d \in Channels \ {c} : row'[d] = row[d]
        /\ row'[c] # row[c] => row'[c] = None /\ row[c] = sweep[a].ssrc
    BY <1>3, SweepFacts DEF SweepClears, Busy, MediaInv, TypeOK
  <2>2. at'[c] \in {"settled", "live"} => sweep[a].ssrc \in astray
    <3>1. CASE a = Janitor
      <4>1. sweep[a].ssrc \in astray \/ at[c] = "absent"
        BY <1>3, <2>1, <3>1 DEF SweepClears, MediaInv, Control, Closed, SsrcInv, Cleans
      <4>2. at'[c] = at[c] \/ at'[c] \in {"absent", "acquiring"}
        BY <1>3, <2>1, SweepFacts DEF SweepClears, SweepEnds, MediaInv, TypeOK
      <4> QED BY <4>1, <4>2
    <3>2. CASE a # Janitor
      <4>1. at[c] = "cleaning"
        BY <2>1, <3>2, SweepFacts DEF MediaInv
      <4>2. at'[c] = at[c] \/ at'[c] \in {"absent", "acquiring"}
        BY <1>3, <2>1, <3>2, SweepFacts DEF SweepClears, SweepEnds, MediaInv, TypeOK
      <4> QED BY <4>1, <4>2
    <3> QED BY <3>1, <3>2
  <2> QED BY <2>1, <2>2 DEF RowMoves
<1>4. CASE UNCHANGED row
  BY <1>4 DEF RowMoves
<1> QED
  BY <1>1, <1>2, <1>3, <1>4
     DEF Next, Starting, Stopping, Recovering, Sweeping, vars, memory, Begin, Reuse, Unusable, Acquire,
         Unplaced, OpenRtp, OpenFails, Invite, Ready, NotReady, Publish, Undo, StopRequested, StopCloses,
         StopFails, List, Judge, Crash, Restore, RecoverySweeps, GiveUp, FinishRecovery, MediaArrives,
         MediaStops, IdleClosed, SweepVoid, SweepStops, SweepAround, SweepCloses

\* No stream's row is written over by another's, and no row is cleared under what plays, but for
\* SSRCs that went astray (service.go:1048, rollbackFailedStart, StopIfPersistedCurrent).
THEOREM RowsKeepTheirStream == Spec => [][RowMoves]_vars
BY RowStep, Invariance, PTL
   DEF Spec

================================================================================
