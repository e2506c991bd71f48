SPECIFICATION MCSpec
CONSTANTS
    Frames = {1, 2}
    None = 0
    NUM_RX_DESC = 3
    NUM_TX_DESC = 2
INVARIANTS
    TypesOK 
     
PROPERTIES
    Completes RingsAreQueues
