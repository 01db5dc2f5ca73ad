SPECIFICATION LiveSpec
CONSTANTS
    Node = {n1, n2, n3}
    Seed = n1
    NoNode = NoNode
    Timeout = 1
    Gossip = 1
    MaxLag = 0
    MaxNodes = 3
    MsgMaxNodes = 3
    Fanout = 2
    InboxMax = 1
    Aging = TRUE
    Unreliable = FALSE
    MayCrash = {n3}
PROPERTY CrashedBecomesDead
