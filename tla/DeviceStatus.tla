----------------------------- MODULE DeviceStatus -----------------------------
(***************************************************************************)
(* What the rest of the server may rely on about one device: it goes        *)
(* online and offline, its channel goes dark together with it and lights    *)
(* up only by a report of the device itself, and goroutines that have       *)
(* changed the status tell it to the observer later, in any order.  Some     *)
(* changes are told to nobody.  DevicePresence is shown to implement this;   *)
(* RecordingPlans is built on it.                                           *)
(***************************************************************************)
CONSTANT Tellers     \* goroutines that may have a status to tell

VARIABLES
    online,    \* gb_device.status is online
    lit,       \* gb_channel.status is online
    telling    \* telling[t]: the status t still has to tell

statusVars == <<online, lit, telling>>

Init ==
    /\ online = FALSE
    /\ lit = FALSE
    /\ telling = [t \in Tellers |-> "none"]

Says(t, what) == telling' = [telling EXCEPT ![t] = what]

\* REGISTER or a heartbeat brings the device online.
GoOnline(t) ==
    /\ ~online /\ telling[t] = "none"
    /\ online' = TRUE
    /\ Says(t, "on")
    /\ UNCHANGED lit

\* A REGISTER that read the row before the device went offline.
GoOnlineUntold ==
    /\ ~online
    /\ online' = TRUE
    /\ UNCHANGED <<lit, telling>>

\* The device unregisters, or the scan finds it silent.
GoOffline(t) ==
    /\ online /\ telling[t] = "none"
    /\ online' = FALSE
    /\ lit' = FALSE
    /\ Says(t, "off")

\* Its connection is lost.
GoOfflineUntold ==
    /\ online
    /\ online' = FALSE
    /\ lit' = FALSE
    /\ UNCHANGED telling

\* A device that is offline already, or whose status was written twice, is told
\* again.
TellAgain(t) ==
    /\ telling[t] = "none"
    /\ Says(t, IF online THEN "on" ELSE "off")
    /\ UNCHANGED <<online, lit>>

\* A Catalog answer or notification carries the channel's own status.
CatalogArrives ==
    /\ lit' \in BOOLEAN
    /\ UNCHANGED <<online, telling>>

\* The observer has been told.
Told(t) ==
    /\ telling[t] # "none"
    /\ Says(t, "none")
    /\ UNCHANGED <<online, lit>>

\* A restart of the process forgets what was not told.
Restart ==
    /\ telling' = [t \in Tellers |-> "none"]
    /\ UNCHANGED <<online, lit>>

Change(t) == GoOnline(t) \/ GoOffline(t) \/ TellAgain(t)

Next ==
    \/ \E t \in Tellers : Change(t) \/ Told(t)
    \/ GoOnlineUntold \/ GoOfflineUntold \/ CatalogArrives \/ Restart

Spec == Init /\ [][Next]_statusVars

===============================================================================
