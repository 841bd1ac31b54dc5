---------------------------- MODULE DevicePresence ----------------------------
(***************************************************************************)
(* Whether a device is online (device/, models/gb_device.go, handler/).      *)
(* REGISTER handlers, heartbeats, the timeout scan and the link watcher      *)
(* change the device's row, each in transactions of its own; whoever has     *)
(* changed the status tells the observer afterwards.  A retransmitted        *)
(* REGISTER goes through the transaction ledger, which lets one handler      *)
(* execute it and gives the others its result.                             *)
(*                                                                         *)
(* Time is reduced to "the last heartbeat is within the timeout" (fresh)     *)
(* and to results of the ledger that may expire.  Digest checks, trusted     *)
(* endpoints and subscriptions are left out.                                *)
(***************************************************************************)
EXTENDS Naturals, FiniteSets

CONSTANTS
    Handlers,    \* goroutines that handle a REGISTER
    Beats,       \* goroutines that handle a heartbeat
    Scanner,     \* the goroutine of OfflineScanner
    Keys,        \* transaction keys: a retransmission has the key of its original
    NoKey,       \* a handler that has no REGISTER
    Unregisters, \* keys whose REGISTER has Expires 0
    MaxEntries   \* registerTransactionLedger.max

Tellers == Handlers \cup Beats \cup {Scanner}

ASSUME KindAssumption ==
    /\ Handlers \cap Beats = {}
    /\ Scanner \notin Handlers \cup Beats
    /\ IsFiniteSet(Handlers) /\ Handlers # {}
ASSUME KeyAssumption ==
    /\ IsFiniteSet(Keys) /\ Unregisters \subseteq Keys
    /\ NoKey \notin Keys
ASSUME EntryAssumption == MaxEntries \in Nat \ {0}

VARIABLES
    st,       \* status of the device's row: none (no row), off, on
    fresh,    \* keepalive_time is within the timeout
    lit,      \* status of the channel's row
    entry,    \* the ledger: none, running, done
    pc,       \* position of each goroutine
    key,      \* key[h]: transaction key of the REGISTER h handles
    first,    \* first[h]: the row was not online when h read it (isFirst)
    told,     \* what the observer was told last
    catalog,  \* ghost: since the device went offline its catalog was asked for or came
              \* (asked), or it came back and nobody asked (missed)
    raced     \* ghost: notices overlapped, or a change was told to nobody

rowVars == <<st, fresh, lit>>
ledgerVars == <<entry, key>>
ghosts == <<told, catalog, raced>>
vars == <<st, fresh, lit, entry, pc, key, first, told, catalog, raced>>

Init ==
    /\ st = "none" /\ fresh = FALSE /\ lit = FALSE
    /\ entry = [k \in Keys |-> "none"]
    /\ pc = [p \in Tellers |-> "idle"]
    /\ key = [h \in Handlers |-> NoKey]
    /\ first = [h \in Handlers |-> FALSE]
    /\ told = FALSE
    /\ catalog = "unknown" /\ raced = FALSE

Goto(p, point) == pc' = [pc EXCEPT ![p] = point]

\* A goroutine has changed the status and not told it yet.
TellsOn(p) == pc[p] = "tellOn"
TellsOff(p) == pc[p] = "tellOff"
Telling(p) == TellsOn(p) \/ TellsOff(p)
OthersTell(p) == \E q \in Tellers \ {p} : Telling(q)

\* A goroutine has brought the device online and not come to the Catalog query yet.
WillAsk(p) == TellsOn(p) \/ pc[p] = "ask"

\* Nobody asks for this return: what becomes of a device that is online and not asked yet.
PassOver == catalog' = IF st' = "on" /\ catalog = "unknown" THEN "missed" ELSE catalog

-----------------------------------------------------------------------------
(* The ledger (register_transaction.go).                                    *)

Executing(h) == pc[h] \in {"chosen", "read", "tellOn", "tellOff", "ask", "finish"}
Holds(h, k) == key' = [key EXCEPT ![h] = k]
Done(e) == {k \in Keys : e[k] = "done"}
Entries(e) == {k \in Keys : e[k] # "none"}
Without(e, gone) == [k \in Keys |-> IF k \in gone THEN "none" ELSE e[k]]

\* Seeded fault: the eviction does not skip entries that are still running.
MutEvicted(e) ==
    IF Cardinality(Entries(e)) >= MaxEntries
    THEN {Without(e, {k}) : k \in Entries(e)}
    ELSE {e}

\* Seeded fault: nothing is evicted.
MutKeepAll(e) == {e}

\* evictOldestLocked; the age of the entries is left out, so any completed one.
Evicted(e) ==
    IF Cardinality(Entries(e)) >= MaxEntries /\ Done(e) # {}
    THEN {Without(e, {k}) : k \in Done(e)}
    ELSE {e}

\* begin: results that have expired go first; then the result is replayed, or
\* the handler waits for the one that executes, or it is chosen itself.
BeginOn(h, k, e) ==
    /\ pc[h] = "idle" \/ (pc[h] = "woken" /\ k = key[h])
    /\ \/ e[k] = "done" /\ entry' = e /\ Goto(h, "idle") /\ Holds(h, NoKey)
       \/ e[k] = "running" /\ entry' = e /\ Goto(h, "waiting") /\ Holds(h, k)
       \/ /\ e[k] = "none"
          /\ \E rest \in Evicted(e) : entry' = [rest EXCEPT ![k] = "running"]
          /\ Goto(h, "chosen") /\ Holds(h, k)
    /\ UNCHANGED <<rowVars, first, ghosts>>

BeginTransaction(h, k) ==
    \E gone \in SUBSET Done(entry) : BeginOn(h, k, Without(entry, gone))

\* Seeded fault: the channel of the entry is not closed.
MutFinish(h) ==
    /\ pc[h] = "finish"
    /\ entry' = [entry EXCEPT ![key[h]] = "done"]
    /\ Goto(h, "idle")
    /\ Holds(h, NoKey)
    /\ UNCHANGED <<rowVars, first, ghosts>>

\* finish: the result is kept and the waiters of this entry are woken.  Every
\* path of Handle answers before it returns, so there always is a result.
Finish(h) ==
    /\ pc[h] = "finish"
    /\ entry' = [entry EXCEPT ![key[h]] = "done"]
    /\ pc' = [p \in Tellers |-> IF p = h THEN "idle"
                                ELSE IF p \in Handlers /\ pc[p] = "waiting" /\ key[p] = key[h]
                                THEN "woken" ELSE pc[p]]
    /\ Holds(h, NoKey)
    /\ UNCHANGED <<rowVars, first, ghosts>>

-----------------------------------------------------------------------------
(* The row and who changes it.                                             *)

\* Seeded fault: the channel stays as it is.
MutMarkOffline ==
    /\ st' = "off" /\ catalog' = "unknown"
    /\ UNCHANGED <<fresh, lit>>

\* markOffline: device and channel in one transaction.
MarkOffline ==
    /\ st' = "off" /\ lit' = FALSE
    /\ catalog' = "unknown"
    /\ UNCHANGED fresh

\* p will tell the observer what it has just written.
WillTell(p, point) == Goto(p, point) /\ raced' = OthersTell(p)

\* HandleRegister reads the row.  The lock it asks for is not taken: the option
\* it sets is not one of the gorm version in use.  A platform in preallocation
\* mode refuses a device without a row.
RegisterRead(h) ==
    /\ pc[h] = "chosen" /\ key[h] \notin Unregisters
    /\ \/ Goto(h, "read") /\ first' = [first EXCEPT ![h] = st # "on"]
       \/ st = "none" /\ Goto(h, "finish") /\ UNCHANGED first
    /\ UNCHANGED <<rowVars, ledgerVars, ghosts>>

\* Its commit; isFirst was decided from what it had read.
RegisterCommit(h) ==
    /\ pc[h] = "read"
    /\ st' = "on" /\ fresh' = TRUE
    /\ \/ first[h] /\ WillTell(h, "tellOn") /\ UNCHANGED catalog
       \/ ~first[h] /\ st = "on" /\ Goto(h, "finish") /\ UNCHANGED <<raced, catalog>>
       \/ ~first[h] /\ st # "on" /\ Goto(h, "finish") /\ raced' = TRUE /\ PassOver
    /\ first' = [first EXCEPT ![h] = FALSE]
    /\ UNCHANGED <<lit, ledgerVars, told>>

\* A database error, answered with 500.
RegisterFails(h) ==
    /\ pc[h] \in {"chosen", "read"}
    /\ Goto(h, "finish")
    /\ first' = [first EXCEPT ![h] = FALSE]
    /\ UNCHANGED <<rowVars, ledgerVars, ghosts>>

\* Seeded fault: the observer is not told.
MutUnregister(h) ==
    /\ pc[h] = "chosen" /\ key[h] \in Unregisters
    /\ Goto(h, "finish") /\ UNCHANGED raced
    /\ \/ st # "on" /\ UNCHANGED <<rowVars, catalog>>
       \/ st = "on" /\ MarkOffline
    /\ UNCHANGED <<ledgerVars, first, told>>

\* HandleUnregister: an offline device is told offline again.
Unregister(h) ==
    /\ pc[h] = "chosen" /\ key[h] \in Unregisters
    /\ \/ st = "none" /\ Goto(h, "finish") /\ UNCHANGED <<rowVars, catalog, raced>>
       \/ st = "off" /\ WillTell(h, "tellOff") /\ UNCHANGED <<rowVars, catalog>>
       \/ st = "on" /\ WillTell(h, "tellOff") /\ MarkOffline
    /\ UNCHANGED <<ledgerVars, first, told>>

\* touchKeepalive: the row is locked, and a device that was offline
\* restored if online_on_heartbeat says so.  A heartbeat from an
\* unknown source or older than the row's is dropped.
Heartbeat(b) ==
    /\ pc[b] = "idle" /\ st # "none"
    /\ fresh' = TRUE
    /\ \/ UNCHANGED <<st, pc, raced>>
       \/ st = "off" /\ st' = "on" /\ WillTell(b, "tellOn")
    /\ UNCHANGED <<lit, ledgerVars, first, told, catalog>>

\* An online device falls silent for longer than the timeout; a heartbeat of one
\* that is offline is looked at only when the device is back, and then renewed.
GoesSilent ==
    /\ st = "on" /\ fresh
    /\ fresh' = FALSE
    /\ UNCHANGED <<st, lit, ledgerVars, pc, first, ghosts>>

\* scanOnce lists the silent devices ...
ScanList ==
    /\ pc[Scanner] = "idle"
    /\ st = "on" /\ ~fresh
    /\ Goto(Scanner, "listed")
    /\ UNCHANGED <<rowVars, ledgerVars, first, ghosts>>

\* Seeded fault: the timeout is not looked at again.
MutScanMark ==
    /\ pc[Scanner] = "listed"
    /\ \/ st = "on" /\ WillTell(Scanner, "tellOff") /\ MarkOffline
       \/ st # "on" /\ Goto(Scanner, "idle") /\ UNCHANGED <<rowVars, catalog, raced>>
    /\ UNCHANGED <<ledgerVars, first, told>>

\* Seeded fault: the second look at the timeout is inverted.
MutScanFresh ==
    /\ pc[Scanner] = "listed"
    /\ \/ st = "on" /\ fresh /\ WillTell(Scanner, "tellOff") /\ MarkOffline
       \/ ~(st = "on" /\ fresh) /\ Goto(Scanner, "idle") /\ UNCHANGED <<rowVars, catalog, raced>>
    /\ UNCHANGED <<ledgerVars, first, told>>

\* ... and marks each offline if it still is.
ScanMark ==
    /\ pc[Scanner] = "listed"
    /\ \/ st = "on" /\ ~fresh /\ WillTell(Scanner, "tellOff") /\ MarkOffline
       \/ ~(st = "on" /\ ~fresh) /\ Goto(Scanner, "idle") /\ UNCHANGED <<rowVars, catalog, raced>>
    /\ UNCHANGED <<ledgerVars, first, told>>

\* A connection ends: the device registered at its address is looked up and then
\* marked offline by its key, wherever it is by then.  The key is all that is
\* kept of the look-up, so the two are one step here.  Nobody is told.
LinkLost ==
    /\ st = "on" /\ MarkOffline /\ raced' = TRUE
    /\ UNCHANGED <<ledgerVars, pc, first, told>>

\* Seeded fault: only a REGISTER is followed by a Catalog query.
MutTell(p) ==
    /\ Telling(p)
    /\ told' = TellsOn(p)
    /\ Goto(p, IF p \notin Handlers THEN "idle" ELSE IF TellsOn(p) THEN "ask" ELSE "finish")
    /\ UNCHANGED <<rowVars, ledgerVars, first, catalog, raced>>

\* notifyStatusObserver, outside of any transaction.
Tell(p) ==
    /\ Telling(p)
    /\ told' = TellsOn(p)
    /\ Goto(p, IF TellsOn(p) THEN "ask" ELSE IF p \in Handlers THEN "finish" ELSE "idle")
    /\ UNCHANGED <<rowVars, ledgerVars, first, catalog, raced>>

\* The Catalog query that follows a device's return, if SyncChannelsOnOnline says so:
\* the switch is read from the live configuration and may be set at any time, so it is
\* found either way.  A REGISTER reads it before its answer and asks after it.  Whether
\* the query reaches the device is not looked at.
Ask(p) ==
    /\ pc[p] = "ask"
    /\ UNCHANGED <<rowVars, ledgerVars, first, told, raced>>
    /\ catalog' = "asked" \/ PassOver
    /\ Goto(p, IF p \in Handlers THEN "finish" ELSE "idle")

\* An answer or a notification: the channel's status as the device reports it,
\* whatever the device's own status is.
CatalogArrives ==
    /\ st # "none"
    /\ lit' \in BOOLEAN
    /\ catalog' = "asked"
    /\ UNCHANGED <<st, fresh, ledgerVars, pc, first, told, raced>>

\* The process restarts: goroutines, the ledger and pending notices are gone.
Restart ==
    /\ pc' = [p \in Tellers |-> "idle"]
    /\ entry' = [k \in Keys |-> "none"]
    /\ key' = [h \in Handlers |-> NoKey]
    /\ first' = [h \in Handlers |-> FALSE]
    /\ raced' = TRUE
    /\ UNCHANGED <<rowVars, told>>
    /\ PassOver

-----------------------------------------------------------------------------
\* What a goroutine does once it has something to do.
RegisterStep(h) ==
    \/ RegisterRead(h) \/ RegisterCommit(h) \/ RegisterFails(h) \/ Unregister(h)
    \/ Finish(h)
    \/ pc[h] = "woken" /\ BeginTransaction(h, key[h])
ScanStep == ScanList \/ ScanMark
Report(p) == Tell(p) \/ Ask(p)

\* What the device, its clients and the network do.
Environment ==
    \/ \E h \in Handlers, k \in Keys : pc[h] = "idle" /\ BeginTransaction(h, k)
    \/ \E b \in Beats : Heartbeat(b)
    \/ GoesSilent \/ LinkLost \/ CatalogArrives \/ Restart

Next ==
    \/ \E h \in Handlers : RegisterStep(h)
    \/ \E p \in Tellers : Report(p)
    \/ ScanStep
    \/ Environment

Spec == Init /\ [][Next]_vars

\* Handlers do not stop half way; the scan runs on a ticker.  Nothing obliges the
\* device, or a client, to send anything.
Fairness ==
    /\ \A h \in Handlers : WF_vars(RegisterStep(h) \/ Report(h))
    /\ \A b \in Beats : WF_vars(Report(b))
    /\ WF_vars(ScanStep \/ Report(Scanner))
FairSpec == Spec /\ Fairness

-----------------------------------------------------------------------------
(* Properties.                                                             *)

\* Every variable has its type; each kind of goroutine is at a point of its own code.
Points == {"idle", "waiting", "woken", "chosen", "read", "tellOn", "tellOff", "ask", "finish", "listed"}
PointsOf(p) ==
    IF p \in Handlers THEN Points \ {"listed"}
    ELSE IF p \in Beats THEN {"idle", "tellOn", "ask"}
    ELSE {"idle", "listed", "tellOff"}
TypeOK ==
    /\ st \in {"none", "off", "on"}
    /\ fresh \in BOOLEAN /\ lit \in BOOLEAN
    /\ entry \in [Keys -> {"none", "running", "done"}]
    /\ pc \in [Tellers -> Points]
    /\ \A p \in Tellers : pc[p] \in PointsOf(p)
    /\ key \in [Handlers -> Keys \cup {NoKey}]
    /\ first \in [Handlers -> BOOLEAN]
    /\ catalog \in {"unknown", "asked", "missed"}
    /\ told \in BOOLEAN /\ raced \in BOOLEAN

\* However REGISTERs are retransmitted, expire and are evicted, a transaction is
\* executed by one handler at a time, and its entry is there as long as it is
\* (register_transaction.go begin and evictOldestLocked).
OneExecutor ==
    /\ \A g, h \in Handlers : Executing(g) /\ Executing(h) /\ key[g] = key[h] => g = h
    /\ \A h \in Handlers : Executing(h) => entry[key[h]] = "running"

\* A handler that waits for another's result has one to wait for
\* (register_transaction.go:103).
WaitersHaveAnOwner ==
    \A h \in Handlers : pc[h] = "waiting" =>
        \E g \in Handlers : Executing(g) /\ key[g] = key[h]

\* The ledger grows past its limit only by transactions that are running
\* (register_transaction.go:106).
LedgerIsBounded ==
    Cardinality(Entries(entry)) <= MaxEntries \/ Cardinality(Entries(entry)) <= Cardinality(Handlers)

\* Once all have been told, the observer knows the device's status, unless notices
\* of two changes were under way together or a change was told to nobody
\* (device/service.go:107, device/link_watch.go:108).
ToldUnlessRaced ==
    (\A p \in Tellers : ~Telling(p)) /\ ~raced => (told <=> st = "on")

\* A device that came back online while its channel is dark was asked for its catalog, or
\* is about to be, however often it goes and comes while notices and queries are under way
\* (device/service.go:48, handler/register.go:393, handler/message.go:467).  It is passed
\* over for three reasons only: the switch was off when it was read, the REGISTER that
\* brought it back had committed on a stale read, or the process restarted in between.
DarkOnlineIsAsked ==
    st = "on" /\ ~lit /\ catalog = "unknown" => \E p \in Tellers : WillAsk(p)

\* The scan never takes a device offline whose heartbeat came after the list was
\* read (device/scanner.go:83): while it is fresh, only its own unregistration or
\* the loss of its link does.
ScanSparesFresh ==
    [][st = "on" /\ fresh /\ st' = "off" =>
        LinkLost \/ \E h \in Handlers : pc[h] = "chosen" /\ key[h] \in Unregisters]_vars

\* A silent device is found offline in the end, unless it is heard of again or the
\* process keeps restarting (device/scanner.go).
SilentGoesOffline ==
    \/ (st = "on" /\ ~fresh) ~> (st # "on" \/ fresh)
    \/ []<><<Restart>>_vars

\* A handler that waits for the result of a retransmission goes on
\* (register_transaction.go:103).
WaitersWake == \A h \in Handlers : pc[h] = "waiting" ~> pc[h] # "waiting"

\* Presence implements the abstract status.
StatusOf(p) == IF TellsOn(p) THEN "on" ELSE IF TellsOff(p) THEN "off" ELSE "none"
Status == INSTANCE DeviceStatus WITH
    online <- st = "on", telling <- [p \in Tellers |-> StatusOf(p)]

\* The status that is stored and the notices about it behave as DeviceStatus says.
StatusSpec == Status!Spec

===============================================================================
