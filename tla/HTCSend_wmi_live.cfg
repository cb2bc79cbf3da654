\* The WMI endpoint with a bus that never runs full.
SPECIFICATION FairSpec
CONSTANTS
    p1 = p1  p2 = p2  p3 = p3  t1 = t1  t2 = t2
    Packets <- MCPackets
    Threads <- OneThread
    Tasklet = Tasklet
    CreditFlow = TRUE
    HttDataSvc = FALSE
    EpSendFull = "NULL"
    MaxTxQueueDepth = 2
    TransferLength <- MCLength
    TxCreditSize = 8
    TxAlloc = 4
    TxCreditsPerMaxMsg = 2
    SrcEntries = 4
    MaxBatch = 1
    NodropClient = FALSE
INVARIANT CreditWakeup
PROPERTY EveryPacketReturned
