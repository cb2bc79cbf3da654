\* The WMI endpoint: credit flow, no send-full callback, a bus that runs full.
SPECIFICATION Spec
CONSTANTS
    p1 = p1  p2 = p2  p3 = p3  t1 = t1  t2 = t2
    Packets <- MCPackets
    Threads <- TwoThreads
    Tasklet = Tasklet
    CreditFlow = TRUE
    HttDataSvc = FALSE
    EpSendFull = "NULL"
    MaxTxQueueDepth = 2
    TransferLength <- MCLength
    TxCreditSize = 8
    TxAlloc = 3
    TxCreditsPerMaxMsg = 2
    SrcEntries = 2
    MaxBatch = 2
    NodropClient = FALSE
SYMMETRY Symmetry
INVARIANTS TypeOK SingleDrainer PacketConserved CreditsConserved LookupInBusOrder CompletionTruthful
PROPERTY ImplementsChannel
