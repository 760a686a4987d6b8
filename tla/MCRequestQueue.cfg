CONSTANTS
    W <- MCW
    MaxCalls <- MCMaxCalls
SPECIFICATION Spec
INVARIANTS
    TypeOK
    UniqueIds
    InProgressIffParked
    AtMostOneReply
    DispatchInOrder
PROPERTIES
    EveryRequestAnswered
CHECK_DEADLOCK FALSE
