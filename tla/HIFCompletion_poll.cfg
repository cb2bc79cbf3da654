\* Download engine polled by a timer.
SPECIFICATION Spec
CHECK_DEADLOCK FALSE
CONSTANTS
    timer = timer  b1 = b1  b2 = b2  r1 = r1  r2 = r2  r3 = r3
    Tasklet = Tasklet
    Contexts <- TaskletAndTimer
    Services <- PolledServices
    TxBufs <- MCTxBufs
    Frags <- MCFrags
    RxBufs <- MCRxBufs
    src_nentries = 4
    dest_nentries = 3
SYMMETRY Symmetry
INVARIANTS SingleInstance StatesSuffice EntriesConserved
PROPERTIES CompletionInOrder
