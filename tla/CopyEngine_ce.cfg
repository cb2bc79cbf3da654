\* Sendlists of up to two items.
SPECIFICATION Spec
CHECK_DEADLOCK FALSE
CONSTANTS
    RingSizes <- Sizes
    MaxItems = 2
    MaxForeign = 1
    MAX_NUM_OF_RECEIVES = 1
    CE_TXRX_COMP_CHECK_THRESHOLD = 1
INVARIANTS NothingForgotten TaskletResponsible
PROPERTIES RingsAreQueues ReceiveServed
