SPECIFICATION Spec
CONSTANTS
    MaxSequence = 2
    MaxInFlight = 2
INVARIANTS
    ConfirmedInputsStay
