\* An endpoint without credit flow whose client drops what overflows.
SPECIFICATION Spec
CONSTANTS
    p1 = p1  p2 = p2  p3 = p3  t1 = t1  t2 = t2
    Packets <- MCPackets
    Threads <- TwoThreads
    Tasklet = Tasklet
    CreditFlow = FALSE
    HttDataSvc = FALSE
    EpSendFull = "DROP"
    MaxTxQueueDepth = 1
    TransferLength <- EvenLength
    TxCreditSize = 8
    TxAlloc = 0
    TxCreditsPerMaxMsg = 0
    SrcEntries = 1
    MaxBatch = 2
    NodropClient = TRUE
SYMMETRY SymPackets
INVARIANT NetbufsRestored
