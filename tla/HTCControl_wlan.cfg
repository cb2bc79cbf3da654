\* The wlan driver on PCIe: HTT, then WMI.
SPECIFICATION FairSpec
CHECK_DEADLOCK FALSE
CONSTANTS
    ConnectOrder <- WlanOrder
    QCA_TX_HTT2_SUPPORT = FALSE
    NoCreditFlow <- HttOnly
    Epping = FALSE
    ENDPOINT_MAX = 3
    CreditCounts = {0, 2, 256}
INVARIANTS NoSpuriousBug ResponseMatchesRequest EndpointsConsistent CreditsBounded
PROPERTIES AnsweredNotTimedOut StartUpEnds
