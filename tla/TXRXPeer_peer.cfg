\* Two peers, each with two peer IDs, one local ID; another thread changes station states
\* and looks peers up by address.
SPECIFICATION Spec
CHECK_DEADLOCK FALSE
CONSTANTS
    MaxPeers = 2
    Macs <- TwoMacs
    LocalIds = 1
    PeerIds = 4
    IdsPerPeer = 2
    Users <- OneUser
    Peekers <- OneUser
    num_peers = 2
INVARIANTS NoDangling StateWriteSafe RefsAccounted NoMissedWake VdevFreedWithLastPeer
PROPERTIES OnlyPeekersForget PeerReclaimed
