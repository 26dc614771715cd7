\* Orders come and end while a user turns pages.
SPECIFICATION FairSpec
CONSTANTS
    Count = 2
    Sizes = {1, 2}
    DefaultSize = 1
PROPERTIES PageSettles EmptyPageIsLeft
