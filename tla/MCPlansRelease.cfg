\* Two events: a disabled plan and what becomes of the stream it pulled.
SPECIFICATION Spec
CONSTANTS
    t1 = t1
    t2 = t2
    Tellers <- TwoTellers
    MaxEvents = 2
    Failing = FALSE
INVARIANTS
    DisabledReleasesStream
