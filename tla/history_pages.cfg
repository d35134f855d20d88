SPECIFICATION Spec
CONSTANTS
    MaxPosted = 3
    PageSize = 1
    Bare = {1}
    MaxFaults = 1
INVARIANTS TypeOK GapsAreMarked NoDuplicates RetractionFound
CHECK_DEADLOCK FALSE
