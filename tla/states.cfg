SPECIFICATION Spec

CONSTANTS
    N = 3
    StackLimit = 12
    Slses <- MCSlses

INVARIANTS
    TypeOK
    EveryChunkReported
    EndlessOnlyByPrereq

PROPERTIES
    ResultsStand
    StartsInOrder
    FailhardStops
