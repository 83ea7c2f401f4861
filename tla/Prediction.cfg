SPECIFICATION FairSpec
CONSTANTS
    MaxSequence = 4
    MaxInFlight = 2
INVARIANTS
    TypeOK
    InputsPredictedInOrder
    UnackedInputsArePredicted
    AcknowledgedInputsWereSimulated
PROPERTIES
    PredictionConverges
