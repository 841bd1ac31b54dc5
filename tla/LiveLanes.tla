------------------------------ MODULE LiveLanes ------------------------------
(***************************************************************************)
(* What the live coordinator promises about one device: each channel lane  *)
(* is owned by at most one generation, a generation goes through its phases *)
(* in one direction, a lane is handed to the next generation only after the *)
(* previous one has ended, and nothing starts while recovery is under way.  *)
(* The coordinator of play/coordinator.go is shown to implement this.       *)
(***************************************************************************)
CONSTANTS Lanes, Gens, None

VARIABLES
    phase,    \* phase[l]: where the lane's generation is
    gen,      \* gen[l]: the generation that owns the lane
    clean,    \* clean[l]: the owner started without a failed compensation
    spent,    \* generations that have given their lane up
    open      \* new generations may start

laneVars == <<phase, gen, clean, spent, open>>

Phases == {"absent", "starting", "live", "dirty", "ending"}

Init ==
    /\ phase = [l \in Lanes |-> "absent"]
    /\ gen = [l \in Lanes |-> None]
    /\ clean = [l \in Lanes |-> TRUE]
    /\ spent = {}
    /\ open = TRUE

Unused(g) == g \notin spent /\ \A l \in Lanes : gen[l] # g

Take(l, g, ph) ==
    /\ phase[l] = "absent"
    /\ Unused(g)
    /\ phase' = [phase EXCEPT ![l] = ph]
    /\ gen' = [gen EXCEPT ![l] = g]
    /\ UNCHANGED <<clean, spent, open>>

Vacate(l) ==
    /\ phase' = [phase EXCEPT ![l] = "absent"]
    /\ gen' = [gen EXCEPT ![l] = None]
    /\ clean' = [clean EXCEPT ![l] = TRUE]
    /\ spent' = spent \cup {gen[l]}
    /\ UNCHANGED open

Begin(l, g) == open /\ Take(l, g, "starting")

Recover(l, g) == ~open /\ Take(l, g, "live")

Started(l) ==
    /\ phase[l] = "starting"
    /\ phase' = [phase EXCEPT ![l] = "live"]
    /\ UNCHANGED <<gen, clean, spent, open>>

StartedDirty(l) ==
    /\ phase[l] = "starting"
    /\ phase' = [phase EXCEPT ![l] = "dirty"]
    /\ clean' = [clean EXCEPT ![l] = FALSE]
    /\ UNCHANGED <<gen, spent, open>>

NeverStarted(l) == phase[l] = "starting" /\ Vacate(l)

BeginEnd(l) ==
    /\ phase[l] \in {"live", "dirty"}
    /\ phase' = [phase EXCEPT ![l] = "ending"]
    /\ UNCHANGED <<gen, clean, spent, open>>

Ended(l) == phase[l] = "ending" /\ Vacate(l)

\* A failed stop leaves the generation as it was: dirty iff it started dirty.
EndFailed(l) ==
    /\ phase[l] = "ending"
    /\ phase' = [phase EXCEPT ![l] = IF clean[l] THEN "live" ELSE "dirty"]
    /\ UNCHANGED <<gen, clean, spent, open>>

Close ==
    /\ \A l \in Lanes : phase[l] = "absent"
    /\ open' = FALSE
    /\ UNCHANGED <<phase, gen, clean, spent>>

Reopen ==
    /\ open' = TRUE
    /\ UNCHANGED <<phase, gen, clean, spent>>

Next ==
    \/ \E l \in Lanes :
        \/ \E g \in Gens : Begin(l, g) \/ Recover(l, g)
        \/ Started(l) \/ StartedDirty(l) \/ NeverStarted(l)
        \/ BeginEnd(l) \/ Ended(l) \/ EndFailed(l)
    \/ Close \/ Reopen

Spec == Init /\ [][Next]_laneVars

==============================================================================
