\* A scale of two units, grains of half a unit: costs that round to nothing and
\* costs, amounts and levels beyond the largest value.
SPECIFICATION Spec
CONSTANTS
    Scale = 2
    DecimalMax = 4
    Grain = 2
    MaxInput = 12
INVARIANT NeverMalformed
