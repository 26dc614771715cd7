\* A process that crashes at any point: every event is settled, and pruned.
SPECIFICATION FairSpec
CONSTANTS
    Events = {e1}
    Processes = {p1}
    BatchSize = 1
    MaxAttempts = 3
PROPERTY EventsSettle
