SPECIFICATION FairSpec
CONSTANTS
    Clients = {"c1", "c2", "c3"}
    ForkMayFail = TRUE
INVARIANTS OwnConnectionOnly ListenerPrivate NoLostChild
PROPERTIES ClientsServed
CHECK_DEADLOCK FALSE
