SPECIFICATION LiveSpec
CONSTANTS
    Node = {n1, n2, n3}
    Seed = n1
    NoNode = NoNode
    Timeout = 2
    Gossip = 1
    MaxLag = 0
    MaxNodes = 3
    MsgMaxNodes = 3
    Fanout = 1
    InboxMax = 3
    Aging = FALSE
    Unreliable = FALSE
    MayCrash = {}
PROPERTY EveryoneKnown
