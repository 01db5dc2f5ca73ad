SPECIFICATION LiveSpec
CONSTANTS
    Node = {1, 2}
    Client = {"a", "b"}
    Home <- OneEach
    Page = {0, 1}
    Owned <- TwoOwned
    StoragePages <- Fits
    Deployments <- AllOrNone
    Members <- TwoMembers
    Val = {7}
    PageUnits = 2
    MaxConn = 1
    MayReset <- PeerLink
    MayDoubt = {2}
INVARIANTS TypeOK RelayIntegrity  ForwardOnce
 
CHECK_DEADLOCK FALSE
