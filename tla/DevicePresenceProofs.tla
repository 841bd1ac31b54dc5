------------------------- MODULE DevicePresenceProofs -------------------------
(***************************************************************************)
(* Proofs about DevicePresence, for every set of handlers, heartbeats and    *)
(* transactions and every limit of the ledger.  LedgerInv says who executes   *)
(* the transactions of the ledger, StatusInv what the goroutines that have a  *)
(* status to tell know of the row.                                          *)
(***************************************************************************)
EXTENDS DevicePresence, FiniteSetTheorems, TLAPS

LEMMA Kinds ==
    /\ \A h \in Handlers : h \in Tellers /\ h \notin Beats /\ h # Scanner
    /\ \A b \in Beats : b \in Tellers /\ b \notin Handlers /\ b # Scanner
    /\ Scanner \in Tellers /\ Scanner \notin Handlers /\ Scanner \notin Beats
BY KindAssumption DEF Tellers

\* One goroutine moves to a point of its own code.
LEMMA GotoType ==
    ASSUME TypeOK, NEW p \in Tellers, NEW point \in PointsOf(p), Goto(p, point)
    PROVE  pc' \in [Tellers -> Points] /\ \A q \in Tellers : pc'[q] \in PointsOf(q)
<1>1. PointsOf(p) \subseteq Points
  BY DEF PointsOf, Points
<1> QED BY <1>1 DEF Goto, TypeOK

LEMMA MarkOfflineType == ASSUME TypeOK, MarkOffline PROVE
    st' = "off" /\ fresh' \in BOOLEAN /\ lit' \in BOOLEAN /\ catalog' = "unknown"
BY DEF TypeOK, MarkOffline

LEMMA PassOverType == ASSUME TypeOK, PassOver PROVE catalog' \in {"unknown", "asked", "missed"}
BY DEF TypeOK, PassOver

LEMMA WillTellType == ASSUME TypeOK, NEW p, NEW point, WillTell(p, point) PROVE raced' \in BOOLEAN
BY DEF WillTell, OthersTell, Telling, TellsOn, TellsOff

\* What eviction leaves of the ledger.
LEMMA EvictedType ==
    ASSUME NEW e \in [Keys -> {"none", "running", "done"}], NEW rest \in Evicted(e)
    PROVE  /\ rest \in [Keys -> {"none", "running", "done"}]
           /\ \A k \in Keys : rest[k] = e[k] \/ (e[k] = "done" /\ rest[k] = "none")
<1>1. \A gone : Without(e, gone) \in [Keys -> {"none", "running", "done"}]
  BY DEF Without
<1>2. \A gone \in SUBSET Done(e), k \in Keys :
          Without(e, gone)[k] = e[k] \/ (e[k] = "done" /\ Without(e, gone)[k] = "none")
  BY DEF Without, Done
<1>3. CASE rest = e
  BY <1>3
<1>4. CASE \E k \in Done(e) : rest = Without(e, {k})
  BY <1>1, <1>2, <1>4
<1> QED BY <1>3, <1>4 DEF Evicted

LEMMA BeginFacts ==
    ASSUME TypeOK, NEW h \in Handlers, NEW k \in Keys, BeginTransaction(h, k)
    PROVE  /\ pc[h] = "idle" \/ (pc[h] = "woken" /\ k = key[h])
           /\ \E e \in [Keys -> {"none", "running", "done"}] :
                /\ \A x \in Keys : e[x] = entry[x] \/ (entry[x] = "done" /\ e[x] = "none")
                /\ \/ e[k] = "done" /\ entry' = e /\ Goto(h, "idle") /\ Holds(h, NoKey)
                   \/ e[k] = "running" /\ entry' = e /\ Goto(h, "waiting") /\ Holds(h, k)
                   \/ /\ e[k] = "none"
                      /\ entry' = [e EXCEPT ![k] = "running"]
                      /\ Goto(h, "chosen") /\ Holds(h, k)
           /\ UNCHANGED <<rowVars, first, ghosts>>
<1>1. PICK gone \in SUBSET Done(entry) : BeginOn(h, k, Without(entry, gone))
  BY DEF BeginTransaction
<1> DEFINE e == Without(entry, gone)
<1>2. /\ e \in [Keys -> {"none", "running", "done"}]
      /\ \A x \in Keys : e[x] = entry[x] \/ (entry[x] = "done" /\ e[x] = "none")
  BY DEF Without, Done, TypeOK
<1>3. BeginOn(h, k, e)
  BY <1>1
<1> HIDE DEF e
<1>4. ASSUME e[k] = "none", NEW rest \in Evicted(e), entry' = [rest EXCEPT ![k] = "running"]
      PROVE  /\ rest \in [Keys -> {"none", "running", "done"}] /\ rest[k] = "none"
             /\ \A x \in Keys : rest[x] = entry[x] \/ (entry[x] = "done" /\ rest[x] = "none")
  BY <1>2, <1>4, EvictedType
<1>5. CASE e[k] = "none"
  <2>1. PICK rest \in Evicted(e) : entry' = [rest EXCEPT ![k] = "running"]
    BY <1>3, <1>5 DEF BeginOn
  <2>2. Goto(h, "chosen") /\ Holds(h, k)
    BY <1>3, <1>5 DEF BeginOn
  <2> QED BY <1>3, <1>4, <1>5, <2>1, <2>2 DEF BeginOn
<1>6. CASE e[k] # "none"
  BY <1>2, <1>3, <1>6 DEF BeginOn
<1> QED BY <1>5, <1>6

-----------------------------------------------------------------------------
LEMMA BeginType ==
    ASSUME TypeOK, NEW h \in Handlers, NEW k \in Keys, BeginTransaction(h, k)
    PROVE  TypeOK'
<1>1. \A point \in {"idle", "waiting", "chosen"} : point \in PointsOf(h)
  BY DEF PointsOf, Points
<1>2. entry' \in [Keys -> {"none", "running", "done"}] /\ key' \in [Handlers -> Keys \cup {NoKey}]
  BY BeginFacts DEF Holds, TypeOK
<1>3. \E point \in {"idle", "waiting", "chosen"} : Goto(h, point)
  BY BeginFacts
<1>4. pc' \in [Tellers -> Points] /\ \A q \in Tellers : pc'[q] \in PointsOf(q)
  BY <1>1, <1>3, GotoType, Kinds
<1> QED BY <1>2, <1>4, BeginFacts DEF TypeOK, rowVars, ghosts

\* A handler at work has a transaction.
HasKey == \A h \in Handlers : pc[h] # "idle" => key[h] \in Keys

LEMMA TypeStep == ASSUME TypeOK, HasKey, Next PROVE TypeOK'
<1>1. \A h \in Handlers : PointsOf(h) = Points \ {"listed"}
  BY DEF PointsOf
<1>2. \A b \in Beats : PointsOf(b) = {"idle", "tellOn", "ask"}
  BY Kinds DEF PointsOf
<1>3. PointsOf(Scanner) = {"idle", "listed", "tellOff"}
  BY Kinds DEF PointsOf
<1> DEFINE PcType == pc' \in [Tellers -> Points] /\ \A q \in Tellers : pc'[q] \in PointsOf(q)
<1>4. ASSUME NEW h \in Handlers, NEW point \in Points \ {"listed"}, Goto(h, point) PROVE PcType
  BY <1>1, <1>4, GotoType, Kinds
<1>5. ASSUME NEW h \in Handlers, RegisterRead(h) PROVE TypeOK'
  <2>1. PcType
    BY <1>4, <1>5 DEF RegisterRead, Points
  <2> QED BY <1>5, <2>1 DEF RegisterRead, TypeOK, rowVars, ledgerVars, ghosts
<1>6. ASSUME NEW h \in Handlers, RegisterCommit(h) PROVE TypeOK'
  <2>1. PcType
    BY <1>4, <1>6 DEF RegisterCommit, WillTell, Points
  <2>2. raced' \in BOOLEAN
    BY <1>6, WillTellType DEF RegisterCommit, TypeOK
  <2>3. catalog' \in {"unknown", "asked", "missed"}
    BY <1>6, PassOverType DEF RegisterCommit, TypeOK
  <2> QED BY <1>6, <2>1, <2>2, <2>3 DEF RegisterCommit, TypeOK, ledgerVars
<1>7. ASSUME NEW h \in Handlers, RegisterFails(h) PROVE TypeOK'
  <2>1. PcType
    BY <1>4, <1>7 DEF RegisterFails, Points
  <2> QED BY <1>7, <2>1 DEF RegisterFails, TypeOK, rowVars, ledgerVars, ghosts
<1>8. ASSUME NEW h \in Handlers, Unregister(h) PROVE TypeOK'
  <2>1. PcType
    BY <1>4, <1>8 DEF Unregister, WillTell, Points
  <2>2. raced' \in BOOLEAN
    BY <1>8, WillTellType DEF Unregister, TypeOK
  <2> QED BY <1>8, <2>1, <2>2, MarkOfflineType DEF Unregister, TypeOK, rowVars, ledgerVars
<1>9. ASSUME NEW h \in Handlers, Finish(h) PROVE TypeOK'
  <2>1. PcType
    BY <1>1, <1>9, Kinds DEF Finish, TypeOK, Points
  <2> QED BY <1>9, <2>1 DEF Finish, Holds, TypeOK, rowVars, ghosts
<1>10. ASSUME NEW h \in Handlers, pc[h] = "woken", BeginTransaction(h, key[h]) PROVE TypeOK'
  BY <1>10, BeginType DEF HasKey
<1>11. ASSUME NEW p \in Tellers, Tell(p) PROVE TypeOK'
  <2>1. PcType
    <3>1. CASE p \in Handlers
      BY <1>4, <1>11, <3>1 DEF Tell, Points
    <3>2. CASE p \in Beats
      BY <1>2, <1>11, <3>2, Kinds, GotoType DEF Tell, Telling, TellsOn, TellsOff, TypeOK
    <3>3. CASE p = Scanner
      BY <1>3, <1>11, <3>3, Kinds, GotoType DEF Tell, Telling, TellsOn, TellsOff, TypeOK
    <3> QED BY <3>1, <3>2, <3>3 DEF Tellers
  <2>2. told' \in BOOLEAN
    BY <1>11 DEF Tell, TellsOn
  <2> QED BY <1>11, <2>1, <2>2 DEF Tell, TypeOK, rowVars, ledgerVars
<1>12. ASSUME NEW p \in Tellers, Ask(p) PROVE TypeOK'
  <2>1. PcType
    <3>1. CASE p \in Handlers
      BY <1>4, <1>12, <3>1 DEF Ask, Points
    <3>2. CASE p \in Beats
      BY <1>2, <1>12, <3>2, Kinds, GotoType DEF Ask
    <3>3. CASE p = Scanner
      BY <1>3, <1>12, <3>3, Kinds, GotoType DEF Ask
    <3> QED BY <3>1, <3>2, <3>3 DEF Tellers
  <2> QED BY <1>12, <2>1, PassOverType DEF Ask, TypeOK, rowVars, ledgerVars
<1>13. CASE ScanStep
  <2>1. PcType
    BY <1>3, <1>13, Kinds, GotoType DEF ScanStep, ScanList, ScanMark, WillTell
  <2>2. raced' \in BOOLEAN
    BY <1>13, WillTellType DEF ScanStep, ScanList, ScanMark, TypeOK, ghosts
  <2> QED BY <1>13, <2>1, <2>2, MarkOfflineType
          DEF ScanStep, ScanList, ScanMark, TypeOK, rowVars, ledgerVars, ghosts
<1>14. ASSUME NEW b \in Beats, Heartbeat(b) PROVE TypeOK'
  <2>1. PcType
    BY <1>2, <1>14, Kinds, GotoType DEF Heartbeat, WillTell, TypeOK
  <2>2. raced' \in BOOLEAN
    BY <1>14, WillTellType DEF Heartbeat, TypeOK
  <2> QED BY <1>14, <2>1, <2>2 DEF Heartbeat, TypeOK, ledgerVars
<1>15. ASSUME NEW h \in Handlers, NEW k \in Keys, BeginTransaction(h, k) PROVE TypeOK'
  BY <1>15, BeginType
<1>16. CASE GoesSilent \/ LinkLost \/ CatalogArrives
  BY <1>16, MarkOfflineType DEF GoesSilent, LinkLost, CatalogArrives, TypeOK, ledgerVars, ghosts
<1>17. CASE Restart
  <2>1. PcType
    <3>1. \A q \in Tellers : "idle" \in PointsOf(q) /\ "idle" \in Points
      BY DEF PointsOf, Points
    <3> QED BY <1>17, <3>1 DEF Restart
  <2> QED BY <1>17, <2>1, PassOverType DEF Restart, TypeOK, rowVars
<1> QED
  BY <1>5, <1>6, <1>7, <1>8, <1>9, <1>10, <1>11, <1>12, <1>13, <1>14, <1>15, <1>16, <1>17
  DEF Next, RegisterStep, Report, Environment

-----------------------------------------------------------------------------
(* The ledger.                                                             *)

\* A running entry has a handler that executes it, and a handler that waits has a
\* running entry.
Owned ==
    /\ \A k \in Keys : entry[k] = "running" => \E h \in Handlers : Executing(h) /\ key[h] = k
    /\ \A h \in Handlers : pc[h] = "waiting" => entry[key[h]] = "running"

LedgerInv == TypeOK /\ HasKey /\ OneExecutor /\ Owned

\* What the steps that are not the ledger's leave as it is.
LedgerFrame ==
    /\ UNCHANGED ledgerVars
    /\ \A h \in Handlers : /\ Executing(h)' <=> Executing(h)
                           /\ pc'[h] = "waiting" <=> pc[h] = "waiting"
                           /\ pc'[h] = "idle" <=> pc[h] = "idle"

LEMMA FrameKeepsLedger ==
    ASSUME LedgerInv, TypeOK', LedgerFrame
    PROVE  LedgerInv'
<1>1. HasKey'
  BY DEF LedgerInv, HasKey, LedgerFrame, ledgerVars
<1>2. OneExecutor'
  BY DEF LedgerInv, OneExecutor, LedgerFrame, ledgerVars
<1>3. Owned'
  BY DEF LedgerInv, Owned, LedgerFrame, ledgerVars
<1> QED BY <1>1, <1>2, <1>3 DEF LedgerInv

\* The points of an executing handler, from one to another of which it goes.
Inside == {"chosen", "read", "tellOn", "tellOff", "ask", "finish"}

LEMMA InsideFrame ==
    ASSUME TypeOK, NEW p \in Tellers, UNCHANGED ledgerVars, NEW point, Goto(p, point),
           p \in Handlers => pc[p] \in Inside /\ point \in Inside
    PROVE  LedgerFrame
BY Kinds DEF TypeOK, Goto, LedgerFrame, Executing, Inside

LEMMA BeginKeepsLedger ==
    ASSUME LedgerInv, TypeOK', NEW h \in Handlers, NEW k \in Keys, BeginTransaction(h, k)
    PROVE  LedgerInv'
<1>1. /\ pc[h] \in {"idle", "woken"} /\ pc \in [Tellers -> Points] /\ h \in Tellers
      /\ key \in [Handlers -> Keys \cup {NoKey}]
  BY BeginFacts, Kinds DEF LedgerInv, TypeOK
<1>2. PICK e \in [Keys -> {"none", "running", "done"}] :
          /\ \A x \in Keys : e[x] = entry[x] \/ (entry[x] = "done" /\ e[x] = "none")
          /\ \/ e[k] = "done" /\ entry' = e /\ Goto(h, "idle") /\ Holds(h, NoKey)
             \/ e[k] = "running" /\ entry' = e /\ Goto(h, "waiting") /\ Holds(h, k)
             \/ /\ e[k] = "none"
                /\ entry' = [e EXCEPT ![k] = "running"]
                /\ Goto(h, "chosen") /\ Holds(h, k)
  BY BeginFacts DEF LedgerInv
<1>3. \A x \in Keys : e[x] = "running" <=> entry[x] = "running"
  BY <1>2
<1>4. \A g \in Handlers \ {h} : g \in Tellers /\ pc'[g] = pc[g] /\ key'[g] = key[g]
  BY <1>1, <1>2, Kinds DEF Goto, Holds
<1>5. ~Executing(h)
  BY <1>1 DEF Executing
<1>6. \A g \in Handlers : Executing(g) => g # h /\ Executing(g)' /\ key[g] \in Keys
  BY <1>4, <1>5 DEF Executing, LedgerInv, HasKey
<1>7. CASE /\ \/ e[k] = "done" /\ Goto(h, "idle") /\ Holds(h, NoKey)
              \/ e[k] = "running" /\ Goto(h, "waiting") /\ Holds(h, k)
           /\ entry' = e
  <2>1. \A g \in Handlers : Executing(g)' => g # h /\ Executing(g) /\ key'[g] = key[g]
    BY <1>1, <1>4, <1>7 DEF Executing, Goto
  <2>2. HasKey'
    BY <1>1, <1>4, <1>7 DEF HasKey, LedgerInv, Goto, Holds
  <2>3. OneExecutor'
    BY <1>3, <1>6, <1>7, <2>1 DEF OneExecutor, LedgerInv
  <2>4. Owned'
    <3>1. \A x \in Keys : entry'[x] = "running" => \E g \in Handlers : Executing(g)' /\ key'[g] = x
      BY <1>3, <1>4, <1>6, <1>7 DEF Owned, LedgerInv
    <3>2. \A g \in Handlers \ {h} : pc'[g] = "waiting" => entry'[key'[g]] = "running"
      BY <1>3, <1>4, <1>7 DEF Owned, LedgerInv, HasKey
    <3>3. pc'[h] = "waiting" => entry'[key'[h]] = "running"
      BY <1>1, <1>7 DEF Goto, Holds
    <3> QED BY <3>1, <3>2, <3>3 DEF Owned
  <2> QED BY <2>2, <2>3, <2>4 DEF LedgerInv
<1>8. CASE e[k] = "none" /\ entry' = [e EXCEPT ![k] = "running"] /\ Goto(h, "chosen") /\ Holds(h, k)
  <2>1. pc'[h] = "chosen" /\ key'[h] = k /\ Executing(h)'
    BY <1>1, <1>8 DEF Executing, Goto, Holds
  <2>2. \A x \in Keys : entry'[x] = IF x = k THEN "running" ELSE e[x]
    BY <1>8
  <2>3. \A g \in Handlers \ {h} : Executing(g)' <=> Executing(g)
    BY <1>4 DEF Executing
  <2>4. \A g \in Handlers : Executing(g) => key[g] # k
    BY <1>3, <1>6, <1>8 DEF OneExecutor, LedgerInv
  <2>5. HasKey'
    BY <1>4, <2>1 DEF HasKey, LedgerInv
  <2>6. OneExecutor'
    <3>1. \A f, g \in Handlers : Executing(f)' /\ Executing(g)' /\ key'[f] = key'[g] => f = g
      BY <1>4, <2>1, <2>3, <2>4 DEF OneExecutor, LedgerInv
    <3>2. \A g \in Handlers : Executing(g)' => entry'[key'[g]] = "running"
      BY <1>3, <1>4, <1>6, <2>1, <2>2, <2>3 DEF OneExecutor, LedgerInv
    <3> QED BY <3>1, <3>2 DEF OneExecutor
  <2>7. Owned'
    <3>1. \A x \in Keys : entry'[x] = "running" => \E g \in Handlers : Executing(g)' /\ key'[g] = x
      BY <1>3, <1>4, <1>6, <2>1, <2>2 DEF Owned, LedgerInv
    <3>2. \A g \in Handlers : pc'[g] = "waiting" => entry'[key'[g]] = "running"
      BY <1>3, <1>4, <2>1, <2>2 DEF Owned, LedgerInv, HasKey
    <3> QED BY <3>1, <3>2 DEF Owned
  <2> QED BY <2>5, <2>6, <2>7 DEF LedgerInv
<1> QED BY <1>2, <1>7, <1>8

LEMMA FinishKeepsLedger ==
    ASSUME LedgerInv, TypeOK', NEW h \in Handlers, Finish(h)
    PROVE  LedgerInv'
<1> DEFINE k == key[h]
<1>1. /\ pc[h] = "finish" /\ Executing(h) /\ k \in Keys
      /\ pc \in [Tellers -> Points] /\ entry \in [Keys -> {"none", "running", "done"}]
      /\ key \in [Handlers -> Keys \cup {NoKey}]
  BY DEF Finish, Executing, LedgerInv, HasKey, TypeOK
<1>2. pc'[h] = "idle"
  BY Kinds DEF Finish
<1>3. \A g \in Handlers \ {h} :
          /\ pc'[g] = IF pc[g] = "waiting" /\ key[g] = k THEN "woken" ELSE pc[g]
          /\ key'[g] = key[g]
  BY <1>1, Kinds DEF Finish, Holds
<1>4. \A g \in Handlers : Executing(g)' <=> g # h /\ Executing(g)
  BY <1>2, <1>3 DEF Executing
<1>5. \A g \in Handlers \ {h} : Executing(g) => key[g] # k /\ key[g] \in Keys
  BY <1>1 DEF LedgerInv, OneExecutor, HasKey, Executing
<1>6. \A x \in Keys : entry'[x] = IF x = k THEN "done" ELSE entry[x]
  BY <1>1 DEF Finish
<1>7. HasKey'
  BY <1>2, <1>3 DEF HasKey, LedgerInv
<1>8. OneExecutor'
  BY <1>3, <1>4, <1>5, <1>6 DEF OneExecutor, LedgerInv
<1>9. Owned'
  <2>1. \A x \in Keys : entry'[x] = "running" => \E g \in Handlers : Executing(g)' /\ key'[g] = x
    BY <1>3, <1>4, <1>6 DEF Owned, LedgerInv
  <2>2. \A g \in Handlers : pc'[g] = "waiting" => entry'[key'[g]] = "running"
    <3> SUFFICES ASSUME NEW g \in Handlers, pc'[g] = "waiting" PROVE entry'[key'[g]] = "running"
      OBVIOUS
    <3>1. g # h /\ pc[g] = "waiting" /\ key[g] # k /\ key'[g] = key[g]
      BY <1>2, <1>3
    <3>2. key[g] \in Keys /\ entry[key[g]] = "running"
      BY <3>1 DEF LedgerInv, Owned, HasKey
    <3> QED BY <1>6, <3>1, <3>2
  <2> QED BY <2>1, <2>2 DEF Owned
<1> QED BY <1>7, <1>8, <1>9 DEF LedgerInv

LEMMA LedgerStep == ASSUME LedgerInv, [Next]_vars PROVE LedgerInv'
<1>1. CASE UNCHANGED vars
  BY <1>1 DEF vars, LedgerInv, TypeOK, HasKey, OneExecutor, Owned, Executing
<1>2. CASE Next
  <2>1. TypeOK /\ TypeOK'
    BY <1>2, TypeStep DEF LedgerInv
  <2>2. ASSUME NEW h \in Handlers,
               RegisterRead(h) \/ RegisterCommit(h) \/ RegisterFails(h) \/ Unregister(h)
        PROVE  LedgerInv'
    <3>1. pc[h] \in Inside /\ UNCHANGED ledgerVars /\ \E point \in Inside : Goto(h, point)
      BY <2>2 DEF RegisterRead, RegisterCommit, RegisterFails, Unregister, WillTell, Inside
    <3> QED BY <2>1, <3>1, Kinds, InsideFrame, FrameKeepsLedger
  <2>3. ASSUME NEW h \in Handlers, NEW k \in Keys, BeginTransaction(h, k) PROVE LedgerInv'
    BY <2>1, <2>3, BeginKeepsLedger
  <2>4. ASSUME NEW h \in Handlers, pc[h] = "woken", BeginTransaction(h, key[h]) PROVE LedgerInv'
    BY <2>3, <2>4 DEF LedgerInv, HasKey
  <2>5. ASSUME NEW h \in Handlers, Finish(h) PROVE LedgerInv'
    BY <2>1, <2>5, FinishKeepsLedger
  <2>6. ASSUME NEW p \in Tellers, Report(p) PROVE LedgerInv'
    <3>1. UNCHANGED ledgerVars /\ pc[p] \in Inside
      BY <2>6 DEF Report, Tell, Ask, Telling, TellsOn, TellsOff, Inside
    <3>2. PICK point : Goto(p, point) /\ (p \in Handlers => point \in Inside)
      BY <2>6 DEF Report, Tell, Ask, Inside
    <3>3. LedgerFrame
      BY <2>1, <3>1, <3>2, InsideFrame
    <3> QED BY <2>1, <3>3, FrameKeepsLedger
  <2>7. CASE ScanStep
    <3>1. UNCHANGED ledgerVars /\ \E point \in {"listed", "tellOff", "idle"} : Goto(Scanner, point)
      BY <2>7 DEF ScanStep, ScanList, ScanMark, WillTell
    <3> QED BY <2>1, <3>1, Kinds, InsideFrame, FrameKeepsLedger
  <2>8. ASSUME NEW b \in Beats, Heartbeat(b) PROVE LedgerInv'
    <3>1. CASE UNCHANGED pc
      <4>1. LedgerFrame
        BY <2>8, <3>1 DEF Heartbeat, LedgerFrame, Executing
      <4> QED BY <2>1, <4>1, FrameKeepsLedger
    <3>2. CASE Goto(b, "tellOn")
      <4>1. UNCHANGED ledgerVars
        BY <2>8 DEF Heartbeat
      <4>2. LedgerFrame
        BY <2>1, <3>2, <4>1, Kinds, InsideFrame
      <4> QED BY <2>1, <4>2, FrameKeepsLedger
    <3>3. pc' = pc \/ Goto(b, "tellOn")
      BY <2>8 DEF Heartbeat, WillTell
    <3> QED BY <3>1, <3>2, <3>3
  <2>9. CASE GoesSilent \/ LinkLost \/ CatalogArrives
    <3>1. LedgerFrame
      BY <2>9 DEF GoesSilent, LinkLost, CatalogArrives, LedgerFrame, Executing
    <3> QED BY <2>1, <3>1, FrameKeepsLedger
  <2>10. CASE Restart
    <3>1. \A h \in Handlers : pc'[h] = "idle" /\ ~Executing(h)'
      BY <2>10, Kinds DEF Restart, Executing
    <3>2. \A k \in Keys : entry'[k] = "none"
      BY <2>10 DEF Restart
    <3> QED BY <2>1, <3>1, <3>2 DEF LedgerInv, HasKey, OneExecutor, Owned
  <2> QED
    BY <1>2, <2>2, <2>3, <2>4, <2>5, <2>6, <2>7, <2>8, <2>9, <2>10
    DEF Next, RegisterStep, Environment
<1> QED BY <1>1, <1>2

LEMMA LedgerInit == Init => LedgerInv
<1> SUFFICES ASSUME Init PROVE LedgerInv
  OBVIOUS
<1>1. \A p \in Tellers : "idle" \in PointsOf(p)
  BY DEF PointsOf, Points
<1>2. TypeOK
  BY <1>1 DEF Init, TypeOK, Points
<1>3. \A h \in Handlers : pc[h] = "idle" /\ ~Executing(h)
  BY Kinds DEF Init, Executing
<1>4. HasKey /\ OneExecutor /\ Owned
  BY <1>3 DEF Init, HasKey, OneExecutor, Owned
<1> QED BY <1>2, <1>4 DEF LedgerInv

LEMMA Invariance == Spec => []LedgerInv
BY LedgerInit, LedgerStep, PTL DEF Spec

\* Every variable has its type (the values the models of device/ and handler/ use).
THEOREM TypeCorrect == Spec => []TypeOK
<1>1. LedgerInv => TypeOK
  BY DEF LedgerInv
<1> QED BY <1>1, Invariance, PTL

\* A transaction is executed by one handler at a time, whatever is retransmitted, expires
\* or is evicted (register_transaction.go begin).
THEOREM ExecutesOnce == Spec => []OneExecutor
<1>1. LedgerInv => OneExecutor
  BY DEF LedgerInv
<1> QED BY <1>1, Invariance, PTL

\* Nobody waits for a result that nobody works on (register_transaction.go:103).
THEOREM WaitsForSomebody == Spec => []WaitersHaveAnOwner
<1>1. LedgerInv => WaitersHaveAnOwner
  BY DEF LedgerInv, HasKey, Owned, WaitersHaveAnOwner
<1> QED BY <1>1, Invariance, PTL

-----------------------------------------------------------------------------
(* The size of the ledger.                                                 *)

\* Keys that have a handler each are no more than the handlers.
LEMMA KeysAreFew ==
    ASSUME NEW S, NEW G \in SUBSET Handlers, NEW f \in [G -> S],
           \A k \in S : \E h \in G : f[h] = k
    PROVE  Cardinality(S) <= Cardinality(Handlers)
<1>1. IsFiniteSet(Handlers)
  BY KindAssumption
<1>2. IsFiniteSet(G) /\ Cardinality(G) <= Cardinality(Handlers)
  BY <1>1, FS_Subset
<1>3. f \in Surjection(G, S)
  BY DEF Surjection
<1>4. IsFiniteSet(S) /\ Cardinality(S) <= Cardinality(G)
  BY <1>2, <1>3, FS_Surjection
<1>5. Cardinality(S) \in Nat /\ Cardinality(G) \in Nat /\ Cardinality(Handlers) \in Nat
  BY <1>1, <1>2, <1>4, FS_CardinalityType
<1> QED BY <1>2, <1>4, <1>5

LEMMA EntriesAreFinite == \A e : IsFiniteSet(Entries(e)) /\ Cardinality(Entries(e)) \in Nat
BY KeyAssumption, FS_Subset, FS_CardinalityType DEF Entries

LEMMA EntriesShrink ==
    ASSUME NEW e, NEW d, Entries(d) \subseteq Entries(e)
    PROVE  Cardinality(Entries(d)) <= Cardinality(Entries(e))
BY EntriesAreFinite, FS_Subset

LEMMA BeginKeepsBound ==
    ASSUME LedgerInv, LedgerInv', LedgerIsBounded, NEW h \in Handlers, NEW k \in Keys,
           BeginTransaction(h, k)
    PROVE  LedgerIsBounded'
<1>1. PICK gone \in SUBSET Done(entry) : BeginOn(h, k, Without(entry, gone))
  BY DEF BeginTransaction
<1> DEFINE e == Without(entry, gone)
<1>2. e \in [Keys -> {"none", "running", "done"}] /\ Entries(e) \subseteq Entries(entry)
  BY DEF Without, Entries, LedgerInv, TypeOK
<1>3. BeginOn(h, k, e)
  BY <1>1
<1> HIDE DEF e
<1>4. /\ Cardinality(Entries(e)) <= Cardinality(Entries(entry))
      /\ Cardinality(Entries(e)) \in Nat /\ Cardinality(Entries(entry)) \in Nat
      /\ Cardinality(Handlers) \in Nat /\ MaxEntries \in Nat
  BY <1>2, EntriesShrink, EntriesAreFinite, EntryAssumption, KindAssumption, FS_CardinalityType
<1>5. CASE entry' = e
  BY <1>4, <1>5 DEF LedgerIsBounded
<1>6. ASSUME e[k] = "none", NEW rest \in Evicted(e), entry' = [rest EXCEPT ![k] = "running"]
      PROVE  LedgerIsBounded'
  <2>1. rest \in [Keys -> {"none", "running", "done"}]
        /\ \A x \in Keys : rest[x] = e[x] \/ (e[x] = "done" /\ rest[x] = "none")
    BY <1>2, <1>6, EvictedType
  <2>2. Entries(entry') = Entries(rest) \cup {k} /\ k \notin Entries(rest)
    BY <1>6, <2>1 DEF Entries
  <2>3. /\ IsFiniteSet(Entries(rest)) /\ Cardinality(Entries(rest)) \in Nat
        /\ Cardinality(Entries(entry')) = Cardinality(Entries(rest)) + 1
    BY <2>2, EntriesAreFinite, FS_AddElement
  <2>4. Cardinality(Entries(rest)) <= Cardinality(Entries(e))
    BY <2>1, EntriesShrink DEF Entries
  <2>5. CASE Cardinality(Entries(e)) < MaxEntries
    BY <1>4, <2>3, <2>4, <2>5 DEF LedgerIsBounded
  <2>6. CASE Cardinality(Entries(e)) >= MaxEntries /\ Done(e) # {}
    <3>1. PICK x \in Done(e) : rest = Without(e, {x})
      BY <1>6, <2>6 DEF Evicted
    <3>2. Entries(rest) = Entries(e) \ {x} /\ x \in Entries(e)
      BY <3>1 DEF Without, Entries, Done
    <3>3. Cardinality(Entries(rest)) = Cardinality(Entries(e)) - 1
      BY <3>2, EntriesAreFinite, FS_RemoveElement
    <3> QED BY <1>4, <2>3, <3>3 DEF LedgerIsBounded
  <2>7. CASE Done(e) = {}
    <3>1. \A x \in Keys : rest[x] \in {"none", "running"}
      BY <1>2, <2>1, <2>7 DEF Done
    <3>2. \A x \in Entries(entry') : entry'[x] = "running"
      BY <1>6, <2>1, <3>1 DEF Entries
    <3>3. Entries(entry') \subseteq Keys
      BY DEF Entries
    <3> DEFINE G == {g \in Handlers : Executing(g)' /\ key'[g] \in Entries(entry')}
               f == [g \in G |-> key'[g]]
    <3>4. \A x \in Entries(entry') : \E g \in G : f[g] = x
      BY <3>2, <3>3 DEF LedgerInv, Owned
    <3>5. f \in [G -> Entries(entry')] /\ G \in SUBSET Handlers
      OBVIOUS
    <3> HIDE DEF f, G
    <3>6. Cardinality(Entries(entry')) <= Cardinality(Handlers)
      BY <3>4, <3>5, KeysAreFew
    <3> QED BY <3>6 DEF LedgerIsBounded
  <2> QED BY <1>4, <2>5, <2>6, <2>7
<1> QED BY <1>3, <1>5, <1>6 DEF BeginOn

\* Eviction makes room unless every entry is running, and there are no more of these than
\* handlers (register_transaction.go:106).
THEOREM LedgerStaysSmall == Spec => []LedgerIsBounded
<1>1. Init => LedgerIsBounded
  <2> SUFFICES ASSUME Init PROVE LedgerIsBounded
    OBVIOUS
  <2>1. Entries(entry) = {}
    BY DEF Init, Entries
  <2> QED BY <2>1, FS_EmptySet, EntryAssumption DEF LedgerIsBounded
<1>2. LedgerInv /\ LedgerInv' /\ LedgerIsBounded /\ [Next]_vars => LedgerIsBounded'
  <2> SUFFICES ASSUME LedgerInv, LedgerInv', LedgerIsBounded, [Next]_vars PROVE LedgerIsBounded'
    OBVIOUS
  <2>1. CASE UNCHANGED entry
    BY <2>1 DEF LedgerIsBounded, Entries
  <2>2. ASSUME NEW h \in Handlers, NEW k \in Keys, BeginTransaction(h, k) PROVE LedgerIsBounded'
    BY <2>2, BeginKeepsBound
  <2>3. ASSUME NEW h \in Handlers, pc[h] = "woken", BeginTransaction(h, key[h])
        PROVE  LedgerIsBounded'
    BY <2>2, <2>3 DEF LedgerInv, HasKey
  <2>4. ASSUME NEW h \in Handlers, Finish(h) PROVE LedgerIsBounded'
    <3>1. key[h] \in Keys /\ entry[key[h]] = "running" /\ entry' = [entry EXCEPT ![key[h]] = "done"]
      BY <2>4 DEF Finish, LedgerInv, HasKey, OneExecutor, Executing
    <3>2. Entries(entry') = Entries(entry)
      BY <3>1 DEF Entries, LedgerInv, TypeOK
    <3> QED BY <3>2 DEF LedgerIsBounded
  <2>5. CASE Restart
    <3>1. Entries(entry') = {}
      BY <2>5 DEF Restart, Entries
    <3> QED BY <3>1, FS_EmptySet, EntryAssumption DEF LedgerIsBounded
  <2> QED
    BY <2>1, <2>2, <2>3, <2>4, <2>5
    DEF Next, RegisterStep, ScanStep, Report, Environment, RegisterRead, RegisterCommit,
        RegisterFails, Unregister, Heartbeat, GoesSilent, ScanList, ScanMark, LinkLost, Tell, Ask,
        CatalogArrives, ledgerVars, vars
<1> QED BY <1>1, <1>2, Invariance, PTL DEF Spec

-----------------------------------------------------------------------------
(* The status and who knows of it.                                         *)

\* As long as no two notices overlapped, there is one at most, it says what the row
\* says, and without one the observer knows.
StatusInv ==
    /\ ~raced => \A p, q \in Tellers : Telling(p) /\ Telling(q) => p = q
    /\ ~raced => \A p \in Tellers : (TellsOn(p) => st = "on") /\ (TellsOff(p) => st # "on")
    /\ ToldUnlessRaced
    /\ DarkOnlineIsAsked

\* Steps that change neither the row's status nor what has to be told of it.
Silent ==
    /\ UNCHANGED <<st, told, raced>>
    /\ \A p \in Tellers : (TellsOn(p)' <=> TellsOn(p)) /\ (TellsOff(p)' <=> TellsOff(p))
    /\ \/ catalog' # "unknown" \/ st # "on"
       \/ /\ UNCHANGED <<lit, catalog>>
          /\ \A p \in Tellers : pc[p] = "ask" => pc'[p] = "ask"

LEMMA SilentKeeps == ASSUME StatusInv, Silent PROVE StatusInv'
<1>1. \A p \in Tellers : Telling(p)' <=> Telling(p)
  BY DEF Silent, Telling
<1>2. ToldUnlessRaced'
  BY <1>1 DEF StatusInv, Silent, ToldUnlessRaced
<1>3. DarkOnlineIsAsked'
  BY DEF StatusInv, Silent, DarkOnlineIsAsked, WillAsk
<1> QED BY <1>1, <1>2, <1>3 DEF StatusInv, Silent

\* One goroutine that has nothing to tell and nothing to ask moves on.
LEMMA QuietMove ==
    ASSUME LedgerInv, StatusInv, NEW p \in Tellers, NEW point, Goto(p, point),
           point \notin {"tellOn", "tellOff"}, pc[p] \notin {"tellOn", "tellOff", "ask"},
           UNCHANGED <<st, lit, told, catalog, raced>>
    PROVE  StatusInv'
<1>1. Silent
  BY DEF Silent, Goto, TellsOn, TellsOff, LedgerInv, TypeOK
<1> QED BY <1>1, SilentKeeps

\* One goroutine has changed the status, or found it so, and will tell.
LEMMA TellingMove ==
    ASSUME LedgerInv, StatusInv, NEW p \in Tellers, NEW point \in {"tellOn", "tellOff"},
           WillTell(p, point), st' = "on" <=> point = "tellOn"
    PROVE  StatusInv'
<1>1. /\ pc'[p] = point /\ \A q \in Tellers \ {p} : pc'[q] = pc[q]
      /\ raced' <=> OthersTell(p)
  BY DEF WillTell, Goto, LedgerInv, TypeOK
<1>2. ~raced' => \A q \in Tellers : Telling(q)' => q = p
  BY <1>1 DEF OthersTell, Telling, TellsOn, TellsOff
<1>3. Telling(p)' /\ (TellsOn(p)' <=> point = "tellOn") /\ (TellsOff(p)' <=> point = "tellOff")
  BY <1>1 DEF Telling, TellsOn, TellsOff
<1>4. ~raced' => \A q \in Tellers : (TellsOn(q)' => st' = "on") /\ (TellsOff(q)' => st' # "on")
  BY <1>2, <1>3 DEF Telling
<1>5. ToldUnlessRaced'
  BY <1>3 DEF ToldUnlessRaced
<1>6. DarkOnlineIsAsked'
  BY <1>3 DEF DarkOnlineIsAsked, WillAsk
<1> QED BY <1>2, <1>4, <1>5, <1>6 DEF StatusInv

\* Whoever was told of a change that nobody tells, or of one of two at a time.
LEMMA RacedMove ==
    ASSUME raced' = TRUE, st' # "on" \/ catalog' # "unknown"
    PROVE  StatusInv'
BY DEF StatusInv, ToldUnlessRaced, DarkOnlineIsAsked

LEMMA StatusStep == ASSUME LedgerInv, LedgerInv', StatusInv, [Next]_vars PROVE StatusInv'
<1>1. CASE UNCHANGED vars
  <2>1. Silent
    BY <1>1 DEF vars, Silent, TellsOn, TellsOff
  <2> QED BY <2>1, SilentKeeps
<1>2. ASSUME NEW h \in Handlers, NEW k \in Keys, BeginTransaction(h, k) PROVE StatusInv'
  <2>1. pc[h] \in {"idle", "woken"} /\ UNCHANGED <<rowVars, first, ghosts>>
        /\ \E point \in {"idle", "waiting", "chosen"} : Goto(h, point)
    BY <1>2, BeginFacts DEF LedgerInv
  <2> QED BY <2>1, Kinds, QuietMove DEF rowVars, ghosts
<1>3. ASSUME NEW h \in Handlers, pc[h] = "woken", BeginTransaction(h, key[h]) PROVE StatusInv'
  BY <1>2, <1>3 DEF LedgerInv, HasKey
<1>4. ASSUME NEW h \in Handlers, RegisterRead(h) \/ RegisterFails(h) PROVE StatusInv'
  <2>1. /\ pc[h] \in {"chosen", "read"} /\ \E point \in {"read", "finish"} : Goto(h, point)
        /\ UNCHANGED <<st, lit, told, catalog, raced>>
    BY <1>4 DEF RegisterRead, RegisterFails, rowVars, ghosts
  <2> QED BY <2>1, Kinds, QuietMove
<1>5. ASSUME NEW h \in Handlers, RegisterCommit(h) PROVE StatusInv'
  <2>1. CASE first[h]
    BY <1>5, <2>1, Kinds, TellingMove DEF RegisterCommit
  <2>2. CASE ~first[h] /\ st = "on"
    <3>1. pc[h] = "read" /\ Goto(h, "finish") /\ UNCHANGED <<st, lit, told, catalog, raced>>
      BY <1>5, <2>2 DEF RegisterCommit
    <3> QED BY <3>1, Kinds, QuietMove
  <2>3. CASE ~first[h] /\ st # "on"
    BY <1>5, <2>3, RacedMove DEF RegisterCommit, PassOver
  <2> QED BY <2>1, <2>2, <2>3
<1>6. ASSUME NEW h \in Handlers, Unregister(h) PROVE StatusInv'
  <2>1. CASE st = "none"
    <3>1. pc[h] = "chosen" /\ Goto(h, "finish") /\ UNCHANGED <<st, lit, told, catalog, raced>>
      BY <1>6, <2>1 DEF Unregister, rowVars
    <3> QED BY <3>1, Kinds, QuietMove
  <2>2. CASE st # "none"
    <3>1. WillTell(h, "tellOff") /\ st' # "on"
      BY <1>6, <2>2 DEF Unregister, MarkOffline, rowVars
    <3> QED BY <3>1, Kinds, TellingMove
  <2> QED BY <2>1, <2>2
<1>7. ASSUME NEW h \in Handlers, Finish(h) PROVE StatusInv'
  <2>1. Silent
    BY <1>7 DEF Finish, Silent, TellsOn, TellsOff, rowVars, ghosts, LedgerInv, TypeOK
  <2> QED BY <2>1, SilentKeeps
<1>8. ASSUME NEW p \in Tellers, Tell(p) PROVE StatusInv'
  <2>1. /\ Telling(p) /\ UNCHANGED <<st, lit, catalog, raced>>
        /\ told' <=> TellsOn(p)
        /\ pc'[p] \in {"ask", "finish", "idle"} /\ (TellsOn(p) => pc'[p] = "ask")
        /\ \A q \in Tellers \ {p} : pc'[q] = pc[q]
    BY <1>8 DEF Tell, Goto, rowVars, LedgerInv, TypeOK
  <2>2. ~Telling(p)' /\ \A q \in Tellers \ {p} : (Telling(q)' <=> Telling(q))
            /\ (TellsOn(q)' <=> TellsOn(q)) /\ (TellsOff(q)' <=> TellsOff(q))
    BY <2>1 DEF Telling, TellsOn, TellsOff
  <2>3. ~raced' => \A q \in Tellers : ~Telling(q)'
    BY <2>1, <2>2 DEF StatusInv
  <2>4. ToldUnlessRaced'
    <3>1. ~raced => ((TellsOn(p) => st = "on") /\ (TellsOff(p) => st # "on"))
      BY DEF StatusInv
    <3>2. TellsOn(p) \/ TellsOff(p)
      BY <2>1 DEF Telling
    <3> QED BY <2>1, <3>1, <3>2 DEF ToldUnlessRaced
  <2>5. DarkOnlineIsAsked'
    <3>1. \A q \in Tellers : WillAsk(q) => WillAsk(q)'
      <4>1. pc[p] # "ask"
        BY <2>1 DEF Telling, TellsOn, TellsOff
      <4> QED BY <2>1, <2>2, <4>1 DEF WillAsk
    <3> QED BY <2>1, <3>1 DEF StatusInv, DarkOnlineIsAsked
  <2> QED BY <2>3, <2>4, <2>5 DEF StatusInv, Telling
<1>9. ASSUME NEW p \in Tellers, Ask(p) PROVE StatusInv'
  <2>1. pc[p] = "ask" /\ UNCHANGED <<st, told, raced>>
        /\ (catalog' # "unknown" \/ st # "on")
        /\ \E point \in {"finish", "idle"} : Goto(p, point)
    BY <1>9 DEF Ask, rowVars, PassOver
  <2>2. Silent
    BY <2>1 DEF Silent, Goto, TellsOn, TellsOff, LedgerInv, TypeOK
  <2> QED BY <2>2, SilentKeeps
<1>10. CASE ScanStep
  <2>1. CASE ScanList
    BY <2>1, Kinds, QuietMove DEF ScanList, rowVars, ghosts
  <2>2. CASE ScanMark /\ st = "on" /\ ~fresh
    <3>1. WillTell(Scanner, "tellOff") /\ st' # "on"
      BY <2>2 DEF ScanMark, MarkOffline
    <3> QED BY <3>1, Kinds, TellingMove
  <2>3. CASE ScanMark /\ ~(st = "on" /\ ~fresh)
    <3>1. pc[Scanner] = "listed" /\ Goto(Scanner, "idle") /\ UNCHANGED <<st, lit, told, catalog, raced>>
      BY <2>3 DEF ScanMark, rowVars
    <3> QED BY <3>1, Kinds, QuietMove
  <2> QED BY <1>10, <2>1, <2>2, <2>3 DEF ScanStep
<1>11. ASSUME NEW b \in Beats, Heartbeat(b) PROVE StatusInv'
  <2>1. CASE WillTell(b, "tellOn") /\ st' = "on"
    BY <2>1, Kinds, TellingMove
  <2>2. CASE UNCHANGED <<st, pc, raced>>
    <3>1. Silent
      BY <1>11, <2>2 DEF Heartbeat, Silent, TellsOn, TellsOff
    <3> QED BY <3>1, SilentKeeps
  <2> QED BY <1>11, <2>1, <2>2 DEF Heartbeat
<1>12. CASE GoesSilent \/ CatalogArrives
  <2>1. Silent
    BY <1>12 DEF GoesSilent, CatalogArrives, Silent, TellsOn, TellsOff, ghosts
  <2> QED BY <2>1, SilentKeeps
<1>13. CASE LinkLost \/ Restart
  BY <1>13, RacedMove DEF LinkLost, Restart, MarkOffline, PassOver, rowVars
<1> QED
  BY <1>1, <1>2, <1>3, <1>4, <1>5, <1>6, <1>7, <1>8, <1>9, <1>10, <1>11, <1>12, <1>13
  DEF Next, RegisterStep, Report, Environment

LEMMA StatusInvariance == Spec => []StatusInv
<1>1. Init => StatusInv
  BY DEF Init, StatusInv, ToldUnlessRaced, DarkOnlineIsAsked, Telling, TellsOn, TellsOff
<1> QED BY <1>1, StatusStep, Invariance, PTL DEF Spec

\* Unless two changes were told at a time, or one to nobody, whoever has been told knows
\* the status of the row (device/service.go:107, device/link_watch.go:108).
THEOREM ObserverKnows == Spec => []ToldUnlessRaced
<1>1. StatusInv => ToldUnlessRaced
  BY DEF StatusInv
<1> QED BY <1>1, StatusInvariance, PTL

\* A device that comes back to a dark channel is asked for its catalog, unless the switch
\* is off, the REGISTER had read the row before it went, or the process restarts first
\* (device/service.go:48, handler/register.go:393, handler/message.go:467).
THEOREM CatalogIsAsked == Spec => []DarkOnlineIsAsked
<1>1. StatusInv => DarkOnlineIsAsked
  BY DEF StatusInv
<1> QED BY <1>1, StatusInvariance, PTL

\* A heartbeat between the scan's list and its update wins (device/scanner.go:83).
THEOREM HeartbeatWins == Spec => ScanSparesFresh
<1>1. [Next]_vars => [st = "on" /\ fresh /\ st' = "off" =>
          LinkLost \/ \E h \in Handlers : pc[h] = "chosen" /\ key[h] \in Unregisters]_vars
  BY DEF Next, RegisterStep, ScanStep, Report, Environment, RegisterRead, RegisterCommit,
        RegisterFails, Unregister, Heartbeat, GoesSilent, ScanList, ScanMark, Tell, Ask,
        CatalogArrives, Restart, Finish, BeginTransaction, BeginOn, rowVars, vars
<1> QED BY <1>1, PTL DEF Spec, ScanSparesFresh

-----------------------------------------------------------------------------
(* The refinement.                                                         *)

LEMMA InitMaps == Init => Status!Init
BY DEF Init, Status!Init, StatusOf, TellsOn, TellsOff

\* One goroutine moves from one point to another: what it has to tell.
LEMMA MoveSays ==
    ASSUME TypeOK, NEW p \in Tellers, NEW point, Goto(p, point)
    PROVE  [q \in Tellers |-> StatusOf(q)]' =
               [[q \in Tellers |-> StatusOf(q)] EXCEPT ![p] =
                    IF point = "tellOn" THEN "on" ELSE IF point = "tellOff" THEN "off" ELSE "none"]
BY DEF TypeOK, Goto, StatusOf, TellsOn, TellsOff

LEMMA SameSays ==
    ASSUME \A p \in Tellers : (TellsOn(p)' <=> TellsOn(p)) /\ (TellsOff(p)' <=> TellsOff(p))
    PROVE  [q \in Tellers |-> StatusOf(q)]' = [q \in Tellers |-> StatusOf(q)]
BY DEF StatusOf

\* A step that changes neither status nor what has to be told of it is a stutter.
Stutters ==
    /\ UNCHANGED <<st, lit>>
    /\ \A p \in Tellers : (TellsOn(p)' <=> TellsOn(p)) /\ (TellsOff(p)' <=> TellsOff(p))

LEMMA StutterMaps == ASSUME Stutters PROVE UNCHANGED Status!statusVars
BY SameSays DEF Stutters, Status!statusVars

LEMMA QuietMaps ==
    ASSUME TypeOK, NEW p \in Tellers, NEW point, Goto(p, point), UNCHANGED <<st, lit>>,
           point \notin {"tellOn", "tellOff"}, ~Telling(p)
    PROVE  Stutters
BY DEF TypeOK, Goto, Stutters, Telling, TellsOn, TellsOff

\* p has written the status it will tell.
LEMMA TellingMaps ==
    ASSUME TypeOK, NEW p \in Tellers, NEW point \in {"tellOn", "tellOff"}, WillTell(p, point),
           ~Telling(p), st' = "on" <=> point = "tellOn",
           (UNCHANGED <<st, lit>>) \/ (st # "on" /\ st' = "on" /\ lit' = lit)
               \/ (st = "on" /\ st' # "on" /\ lit' = FALSE)
    PROVE  Status!Change(p)
<1>1. [q \in Tellers |-> StatusOf(q)]' =
          [[q \in Tellers |-> StatusOf(q)] EXCEPT ![p] = IF point = "tellOn" THEN "on" ELSE "off"]
  BY MoveSays DEF WillTell
<1>2. [q \in Tellers |-> StatusOf(q)][p] = "none"
  BY DEF StatusOf, Telling
<1>3. CASE UNCHANGED <<st, lit>>
  BY <1>1, <1>2, <1>3 DEF Status!Change, Status!TellAgain, Status!Says
<1>4. CASE st # "on" /\ st' = "on" /\ lit' = lit
  BY <1>1, <1>2, <1>4 DEF Status!Change, Status!GoOnline, Status!Says
<1>5. CASE st = "on" /\ st' # "on" /\ lit' = FALSE
  BY <1>1, <1>2, <1>5 DEF Status!Change, Status!GoOffline, Status!Says
<1> QED BY <1>3, <1>4, <1>5

LEMMA StepMaps == ASSUME LedgerInv, [Next]_vars PROVE [Status!Next]_(Status!statusVars)
<1>1. TypeOK
  BY DEF LedgerInv
<1>2. CASE UNCHANGED vars
  <2>1. Stutters
    BY <1>2 DEF vars, Stutters, TellsOn, TellsOff
  <2> QED BY <2>1, StutterMaps
<1>3. ASSUME NEW h \in Handlers, NEW k \in Keys, BeginTransaction(h, k)
      PROVE  UNCHANGED Status!statusVars
  <2>1. ~Telling(h) /\ UNCHANGED <<st, lit>>
        /\ \E point \in {"idle", "waiting", "chosen"} : Goto(h, point)
    BY <1>1, <1>3, BeginFacts DEF Telling, TellsOn, TellsOff, rowVars
  <2>2. Stutters
    BY <1>1, <2>1, Kinds, QuietMaps
  <2> QED BY <2>2, StutterMaps
<1>4. ASSUME NEW h \in Handlers, pc[h] = "woken", BeginTransaction(h, key[h])
      PROVE  UNCHANGED Status!statusVars
  BY <1>3, <1>4 DEF LedgerInv, HasKey
<1>5. ASSUME NEW h \in Handlers, RegisterRead(h) \/ RegisterFails(h)
      PROVE  UNCHANGED Status!statusVars
  <2>1. ~Telling(h) /\ UNCHANGED <<st, lit>> /\ \E point \in {"read", "finish"} : Goto(h, point)
    BY <1>5 DEF RegisterRead, RegisterFails, Telling, TellsOn, TellsOff, rowVars
  <2>2. Stutters
    BY <1>1, <2>1, Kinds, QuietMaps
  <2> QED BY <2>2, StutterMaps
<1>6. ASSUME NEW h \in Handlers, RegisterCommit(h)
      PROVE  Status!Change(h) \/ Status!GoOnlineUntold \/ UNCHANGED Status!statusVars
  <2>1. ~Telling(h) /\ st' = "on" /\ UNCHANGED lit
    BY <1>6 DEF RegisterCommit, Telling, TellsOn, TellsOff
  <2>2. CASE first[h]
    <3>1. WillTell(h, "tellOn")
      BY <1>6, <2>2 DEF RegisterCommit
    <3>2. (UNCHANGED <<st, lit>>) \/ (st # "on" /\ st' = "on" /\ lit' = lit)
      BY <2>1
    <3> QED BY <1>1, <2>1, <3>1, <3>2, Kinds, TellingMaps
  <2>3. CASE ~first[h]
    <3>1. Goto(h, "finish")
      BY <1>6, <2>3 DEF RegisterCommit
    <3>2. [q \in Tellers |-> StatusOf(q)]' = [q \in Tellers |-> StatusOf(q)]
      <4>1. \A p \in Tellers : (TellsOn(p)' <=> TellsOn(p)) /\ (TellsOff(p)' <=> TellsOff(p))
        BY <1>1, <2>1, <3>1 DEF TypeOK, Goto, Telling, TellsOn, TellsOff
      <4> QED BY <4>1, SameSays
    <3> QED BY <2>1, <3>2 DEF Status!GoOnlineUntold, Status!statusVars
  <2> QED BY <2>2, <2>3
<1>7. ASSUME NEW h \in Handlers, Unregister(h)
      PROVE  Status!Change(h) \/ UNCHANGED Status!statusVars
  <2>1. ~Telling(h)
    BY <1>7 DEF Unregister, Telling, TellsOn, TellsOff
  <2>2. CASE st = "none"
    <3>1. Goto(h, "finish") /\ UNCHANGED <<st, lit>>
      BY <1>7, <2>2 DEF Unregister, rowVars
    <3>2. Stutters
      BY <1>1, <2>1, <3>1, Kinds, QuietMaps
    <3> QED BY <3>2, StutterMaps
  <2>3. CASE st # "none"
    <3>1. WillTell(h, "tellOff") /\ st' # "on"
          /\ ((UNCHANGED <<st, lit>>) \/ (st = "on" /\ st' # "on" /\ lit' = FALSE))
      BY <1>7, <2>3 DEF Unregister, MarkOffline, rowVars
    <3> QED BY <1>1, <2>1, <3>1, Kinds, TellingMaps
  <2> QED BY <2>2, <2>3
<1>8. ASSUME NEW h \in Handlers, Finish(h) PROVE UNCHANGED Status!statusVars
  <2>1. Stutters
    BY <1>1, <1>8 DEF Finish, Stutters, TellsOn, TellsOff, rowVars, TypeOK
  <2> QED BY <2>1, StutterMaps
<1>9. ASSUME NEW p \in Tellers, Tell(p) PROVE Status!Told(p)
  <2>1. Telling(p) /\ UNCHANGED <<st, lit>> /\ \E point \in {"ask", "finish", "idle"} : Goto(p, point)
    BY <1>9 DEF Tell, rowVars
  <2>2. [q \in Tellers |-> StatusOf(q)]' = [[q \in Tellers |-> StatusOf(q)] EXCEPT ![p] = "none"]
    BY <1>1, <2>1, MoveSays
  <2>3. [q \in Tellers |-> StatusOf(q)][p] # "none"
    BY <2>1 DEF StatusOf, Telling
  <2> QED BY <2>1, <2>2, <2>3 DEF Status!Told, Status!Says
<1>10. ASSUME NEW p \in Tellers, Ask(p) PROVE UNCHANGED Status!statusVars
  <2>1. ~Telling(p) /\ UNCHANGED <<st, lit>> /\ \E point \in {"finish", "idle"} : Goto(p, point)
    BY <1>10 DEF Ask, rowVars, Telling, TellsOn, TellsOff
  <2>2. Stutters
    BY <1>1, <2>1, QuietMaps
  <2> QED BY <2>2, StutterMaps
<1>11. CASE ScanStep
  <2>1. ~Telling(Scanner)
    BY <1>11 DEF ScanStep, ScanList, ScanMark, Telling, TellsOn, TellsOff
  <2>2. CASE WillTell(Scanner, "tellOff") /\ MarkOffline /\ st = "on"
    <3>1. st' # "on" /\ lit' = FALSE
      BY <2>2 DEF MarkOffline
    <3>2. Status!Change(Scanner)
      BY <1>1, <2>1, <2>2, <3>1, Kinds, TellingMaps
    <3> QED BY <3>2, Kinds DEF Status!Next
  <2>3. CASE UNCHANGED <<st, lit>> /\ \E point \in {"listed", "idle"} : Goto(Scanner, point)
    <3>1. Stutters
      BY <1>1, <2>1, <2>3, Kinds, QuietMaps
    <3> QED BY <3>1, StutterMaps
  <2> QED BY <1>11, <2>2, <2>3 DEF ScanStep, ScanList, ScanMark, rowVars
<1>12. ASSUME NEW b \in Beats, Heartbeat(b)
       PROVE  Status!Change(b) \/ UNCHANGED Status!statusVars
  <2>1. CASE st = "off" /\ st' = "on" /\ WillTell(b, "tellOn")
    BY <1>1, <1>12, <2>1, Kinds, TellingMaps DEF Heartbeat, Telling, TellsOn, TellsOff
  <2>2. CASE UNCHANGED <<st, pc>>
    <3>1. Stutters
      BY <1>12, <2>2 DEF Heartbeat, Stutters, TellsOn, TellsOff
    <3> QED BY <3>1, StutterMaps
  <2> QED BY <1>12, <2>1, <2>2 DEF Heartbeat
<1>13. CASE GoesSilent
  <2>1. Stutters
    BY <1>13 DEF GoesSilent, Stutters, TellsOn, TellsOff
  <2> QED BY <2>1, StutterMaps
<1>14. CASE LinkLost \/ CatalogArrives
  <2>1. \A p \in Tellers : (TellsOn(p)' <=> TellsOn(p)) /\ (TellsOff(p)' <=> TellsOff(p))
    BY <1>14 DEF LinkLost, CatalogArrives, TellsOn, TellsOff
  <2>2. Status!GoOfflineUntold \/ Status!CatalogArrives
    BY <1>14, <2>1, SameSays
    DEF LinkLost, CatalogArrives, MarkOffline, Status!GoOfflineUntold, Status!CatalogArrives
  <2> QED BY <2>2 DEF Status!Next
<1>15. CASE Restart
  <2>1. [q \in Tellers |-> StatusOf(q)]' = [q \in Tellers |-> "none"]
    BY <1>15 DEF Restart, StatusOf, TellsOn, TellsOff
  <2> QED BY <1>15, <2>1 DEF Restart, rowVars, Status!Restart, Status!Next
<1>16. Next \/ UNCHANGED vars
  OBVIOUS
<1> QED
  BY <1>2, <1>3, <1>4, <1>5, <1>6, <1>7, <1>8, <1>9, <1>10, <1>11, <1>12, <1>13, <1>14, <1>15,
     <1>16, Kinds
  DEF Next, RegisterStep, Report, Environment, Status!Next

\* The device's status, its channel's and the notices about them behave as DeviceStatus
\* says, on which RecordingPlans is built.
THEOREM PresenceImplementsStatus == Spec => StatusSpec
BY InitMaps, StepMaps, Invariance, PTL DEF Spec, StatusSpec, Status!Spec
===============================================================================
