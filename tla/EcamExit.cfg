SPECIFICATION EcamSpec
CONSTANTS
    Accesses <- MCAccesses
    Hidden <- MCHidden
    Open <- MCOpen
    EcamPa = 16
INVARIANTS EcamTypeOK
PROPERTIES AnswerComesFromThePort 
