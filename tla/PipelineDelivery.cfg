\* The queue, its workers and the recovery, under fairness.
SPECIFICATION FairSpec
CONSTANTS
    Orders = {o1}
    Dispatchers = {d1}
    Workers = {w1}
    BatchSize = 1
    MaxAttempts = 2
    MaxStalled = 0
PROPERTIES
    IntentsDrain
    Delivered
    Recovered
