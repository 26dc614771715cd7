\* Three logins of two names, the first of each and the later ones.
SPECIFICATION Spec
CONSTANTS
    Names = {alice, bob}
    Ids = {i1, i2, i3}
    Requests = {r1, r2, r3}
SYMMETRY LoginSymmetry
INVARIANTS OneAccountPerName RaceIsNoFailure
CHECK_DEADLOCK FALSE
