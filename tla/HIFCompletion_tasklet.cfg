\* All engines serviced by the tasklet.
SPECIFICATION FairSpec
CHECK_DEADLOCK FALSE
CONSTANTS
    timer = timer  b1 = b1  b2 = b2  r1 = r1  r2 = r2  r3 = r3
    Tasklet = Tasklet
    Contexts <- TaskletOnly
    Services <- TaskletServices
    TxBufs <- MCTxBufs
    Frags <- MCFrags
    RxBufs <- MCRxBufs
    src_nentries = 4
    dest_nentries = 3
INVARIANT PendingHandled
PROPERTIES FinishedDelivered
