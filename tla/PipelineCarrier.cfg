\* One order in races between two processes, or a batch of two orders.
SPECIFICATION Spec
CONSTANTS
    Orders = {o1, o2}
    Dispatchers = {d1, d2}
    Workers = {w1, w2}
    BatchSize = 2
    MaxAttempts = 2
    MaxStalled = 1
SYMMETRY PipelineSymmetry
CONSTRAINT RacesOrBatches
INVARIANTS
    TypeOK
    HasCarrier
    CompletedMeansDone
PROPERTIES
    ClaimRespected
    ImplementsDelivery
