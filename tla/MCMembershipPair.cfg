SPECIFICATION LiveSpec
CONSTANTS
    Node = {n1, n2}
    Seed = n1
    NoNode = NoNode
    Timeout = 1
    Gossip = 2
    MaxLag = 1
    MaxNodes = 3
    MsgMaxNodes = 2
    Fanout = 1
    InboxMax = 1
    Aging = TRUE
    Unreliable = FALSE
    MayCrash = {n2}
INVARIANTS SelfAlive OneEntryPerNode
PROPERTIES  CrashedBecomesDead
