\* Leases, lost answers, crashes and shutdowns of two processes, or in the
\* middle of a batch of two events.
SPECIFICATION Spec
CONSTANTS
    Events = {e1, e2}
    Processes = {p1, p2}
    BatchSize = 2
    MaxAttempts = 3
SYMMETRY OutboxSymmetry
CONSTRAINT ThreeAtOnce
INVARIANTS TypeOK NoEventLost DrainedBeforeClose
PROPERTIES ClaimRespected ImplementsAtLeastOnce
