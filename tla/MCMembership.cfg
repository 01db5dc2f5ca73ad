SPECIFICATION Spec
CONSTANTS
    Node = {n1, n2, n3}
    Seed = n1
    NoNode = NoNode
    Timeout = 1
    Gossip = 1
    MaxLag = 0
    MaxNodes = 2
    MsgMaxNodes = 1
    Fanout = 1
    InboxMax = 2
    Aging = FALSE
    Unreliable = TRUE
    MayCrash = {}
INVARIANT TypeOK
PROPERTY IndexStable
SYMMETRY Joiners
