\* The HTT endpoint.
SPECIFICATION Spec
CONSTANTS
    p1 = p1  p2 = p2  p3 = p3  t1 = t1  t2 = t2
    Packets <- MCPackets
    Threads <- TwoThreads
    Tasklet = Tasklet
    CreditFlow = FALSE
    HttDataSvc = TRUE
    EpSendFull = "KEEP"
    MaxTxQueueDepth = 1
    TransferLength <- EvenLength
    TxCreditSize = 8
    TxAlloc = 0
    TxCreditsPerMaxMsg = 0
    SrcEntries = 1
    MaxBatch = 2
    NodropClient = FALSE
SYMMETRY SymPackets
PROPERTY ImplementsChannel
