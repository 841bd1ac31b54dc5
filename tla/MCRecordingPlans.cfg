\* Two goroutines that bring notices, three events from outside.
SPECIFICATION FairSpec
CONSTANTS
    t1 = t1
    t2 = t2
    Tellers <- TwoTellers
    MaxEvents = 3
    Failing = TRUE
INVARIANTS
    StartsAreAsked
    PlanChangeIsSeen
    SourceAccounted

    
